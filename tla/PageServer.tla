----------------------------- MODULE PageServer -----------------------------
(***************************************************************************)
(* The page requests of litespaserver (serve.go, static.go) on top of the  *)
(* version manager.  A request resolves the version, looks into the cache  *)
(* of its kind, and on a miss shares a singleflight fetch of the same page *)
(* from the CDN, which stores it.                                          *)
(*                                                                         *)
(* A page is what the CDN has under a version and a target: index.html or  *)
(* a static path.  The index cache is keyed by the version, the static     *)
(* cache by the URL, which is the version and the path.                    *)
(***************************************************************************)
EXTENDS VersionManager, Functions

CONSTANTS
    Paths,         \* static files
    Index,         \* the target of a request for index.html
    Capacity,      \* Capacity[c]: indexCacheCapacity, staticCacheCapacity
    FlushListens,  \* the application registered FlushCache with OnChange
    NoPage         \* no page

Kinds == {"index", "static"}

ASSUME PageAssumption ==
    /\ Index \notin Paths
    /\ Capacity \in [Kinds -> Nat \ {0}]
    /\ FlushListens \in BOOLEAN

VARIABLES
    pages,   \* pages[r][c]: a function from keys to pages
    target,  \* target[g]: what g's request is for
    body     \* body[g]: the page g has got

pvars == <<pages, target, body>>
vars  == <<vvars, pvars>>

Targets == Paths \cup {Index}

KindOf(t) == IF t = Index THEN "index" ELSE "static"

\* What identifies the page of g's request.
Key(g) == <<NameOf(val[g]), target[g]>>

PInit ==
    /\ Init
    /\ pages  = [r \in Replicas |-> [c \in Kinds |-> <<>>]]
    /\ target = [g \in Goroutines |-> Index]
    /\ body   = [g \in Goroutines |-> NoPage]

\* ServeRoot is called for target t; serveRootInner asks for the version first.
Request(g, t) ==
    /\ Begin(g, "page", "cache")
    /\ target' = [target EXCEPT ![g] = t]
    /\ UNCHANGED <<cand, pages, body>>

Cached(g) == pages[ReplicaOf[g]][KindOf(target[g])]

\* indexLookup, or the lookup in fileCache.
Lookup(g) ==
    /\ pc[g] = "got"
    /\ op[g] = "page"
    /\ IF Key(g) \in DOMAIN Cached(g)
       THEN body' = [body EXCEPT ![g] = Cached(g)[Key(g)]] /\ Goto(g, "respond")
       ELSE UNCHANGED body /\ Goto(g, "miss")
    /\ UNCHANGED <<row, cache, local, calls, pages, target>>

Fetching == {"fetch", "keep", "deliver"}

\* Mutant: all fetches of a kind share one singleflight key.
SameKind(g, h) ==
    ReplicaOf[h] = ReplicaOf[g] /\ KindOf(target[h]) = KindOf(target[g])

\* g and h have the same singleflight key, in the same replica.
SameFetch(g, h) == ReplicaOf[h] = ReplicaOf[g] /\ Key(h) = Key(g)

\* The fetch of g's page is in flight.
InFlight(g) == \E h \in Goroutines \ {g} : pc[h] \in Fetching /\ SameFetch(g, h)

\* sf.Do with the key of the page: lead, or wait for the one that leads.
Share(g) ==
    /\ pc[g] = "miss"
    /\ Goto(g, IF InFlight(g) THEN "share" ELSE "fetch")
    /\ UNCHANGED <<row, cache, local, calls, pvars>>

\* Mutant: what a failed fetch returns is stored as well.
FetchKeepsAll(g) ==
    /\ pc[g] = "fetch"
    /\ body' = [body EXCEPT ![g] = IF NameOf(val[g]) \in Published THEN Key(g) ELSE NoPage]
    /\ Goto(g, "keep")
    /\ UNCHANGED <<row, cache, local, calls, pages, target>>

\* The fetch from the CDN, with the checks of the response.
Fetch(g) ==
    /\ pc[g] = "fetch"
    /\ \/ /\ NameOf(val[g]) \in Published
          /\ body' = [body EXCEPT ![g] = Key(g)]
          /\ Goto(g, "keep")
       \/ /\ NameOf(val[g]) \notin Published \/ "fetch" \in Faults
          /\ body' = [body EXCEPT ![g] = NoPage]
          /\ Goto(g, "deliver")
    /\ UNCHANGED <<row, cache, local, calls, pages, target>>

\* Mutant: the cache evicts when it is over its capacity.
StoredLate(f, k, x, cap) ==
    LET kept == IF Cardinality(DOMAIN f) > cap
                THEN {DOMAIN f \ {d} : d \in DOMAIN f}
                ELSE {DOMAIN f}
    IN  {[i \in ks \cup {k} |-> IF i = k THEN x ELSE f[i]] : ks \in kept}

\* A cache in which page x is stored under key k; at capacity any entry is evicted first,
\* also when the key is in the cache already.
StoredIn(f, k, x, cap) ==
    LET kept == IF Cardinality(DOMAIN f) >= cap
                THEN {DOMAIN f \ {d} : d \in DOMAIN f}
                ELSE {DOMAIN f}
    IN  {[i \in ks \cup {k} |-> IF i = k THEN x ELSE f[i]] : ks \in kept}

\* indexStore, or put.
Keep(g) ==
    LET c == KindOf(target[g]) IN
    /\ pc[g] = "keep"
    /\ \E f \in StoredIn(Cached(g), Key(g), body[g], Capacity[c]) :
         pages' = [pages EXCEPT ![ReplicaOf[g]][c] = f]
    /\ Goto(g, "deliver")
    /\ UNCHANGED <<row, cache, local, calls, target, body>>

\* Mutant: those who share a fetch are not woken.
DeliverAlone(g) ==
    /\ pc[g] = "deliver"
    /\ Goto(g, "respond")
    /\ UNCHANGED <<row, cache, local, calls, pvars>>

\* The goroutines that share the fetch g leads, itself included.
Sharing(g) == {g} \cup {h \in Goroutines : pc[h] = "share" /\ SameFetch(g, h)}

\* The fetch is over: everyone has its page, or none.
Deliver(g) ==
    /\ pc[g] = "deliver"
    /\ body' = [h \in Goroutines |-> IF h \in Sharing(g) THEN body[g] ELSE body[h]]
    /\ pc' = [h \in Goroutines |-> IF h \in Sharing(g) THEN "respond" ELSE pc[h]]
    /\ UNCHANGED <<row, cache, local, calls, pages, target>>

\* The response is written: the page, or the fallback text, or 502.
Respond(g) ==
    /\ pc[g] = "respond"
    /\ body' = [body EXCEPT ![g] = NoPage]
    /\ target' = [target EXCEPT ![g] = Index]
    /\ Return(g)
    /\ UNCHANGED <<row, cache, calls, pages>>

\* FlushCache of replica r, without the rest of the step.
Flush(r) == pages' = [pages EXCEPT ![r]["index"] = <<>>]

\* SetCSP stores the policy, which is not modelled, and flushes.
SetCSP(r) ==
    /\ boot[r] = "up"
    /\ calls < MaxCalls
    /\ calls' = calls + 1
    /\ Flush(r)
    /\ UNCHANGED <<row, cache, pc, local, target, body>>

\* The listeners of SetVersion.
Listeners(g) ==
    /\ Notify(g)
    /\ IF FlushListens THEN Flush(ReplicaOf[g]) ELSE UNCHANGED pages
    /\ UNCHANGED <<target, body>>

(***************************************************************************)
(* The specification.                                                      *)
(***************************************************************************)
Serve(g) ==
    \/ Resolve(g) /\ UNCHANGED pvars
    \/ Lookup(g) \/ Share(g) \/ Fetch(g) \/ Keep(g) \/ Deliver(g) \/ Respond(g)
    \/ Listeners(g)

PQuiet == Quiet /\ UNCHANGED pvars

PNext ==
    \/ \E g \in Goroutines :
         \/ \E t \in Targets : Request(g, t)
         \/ Calls(g) /\ UNCHANGED pvars
         \/ Serve(g)
    \/ \E r \in Replicas :
         \/ SetCSP(r)
         \/ (Seed(r) \/ Expire(r)) /\ UNCHANGED pvars
    \/ PQuiet

PSpec == PInit /\ [][PNext]_vars

\* Goroutines that can run do.
FairPSpec == PSpec /\ \A g \in Goroutines : WF_vars(Serve(g))

(***************************************************************************)
(* Properties.                                                             *)
(***************************************************************************)
Page == (Versions \cup {Blank}) \X Targets

\* Type invariant.
PTypeOK ==
    /\ TypeOK
    /\ \A r \in Replicas, c \in Kinds :
         /\ DOMAIN pages[r][c] \subseteq Page
         /\ Range(pages[r][c]) \subseteq Page
    /\ target \in [Goroutines -> Targets]
    /\ body \in [Goroutines -> Page \cup {NoPage}]

\* A response has the page of the version it names in X-app-version and of the path that
\* was asked for, whoever fetched it and wherever it was cached.
PageOfVersion ==
    \A g \in Goroutines : pc[g] = "respond" /\ body[g] # NoPage => body[g] = Key(g)

\* The caches stay within their capacities.
WithinCapacity ==
    \A r \in Replicas, c \in Kinds : Cardinality(DOMAIN pages[r][c]) <= Capacity[c]

\* Every request and every call of the manager ends.
RequestsAnswered == \A g \in Goroutines : []<>(pc[g] = "idle")
=============================================================================
