--------------------------- MODULE VersionManager ---------------------------
(***************************************************************************)
(* The frontend version of litespaserver: Manager and dbProvider of        *)
(* version.go over the row of litespa_settings (dao.go), in several        *)
(* replicas.                                                               *)
(*                                                                         *)
(* A version that was read is known by the number of the write that put it *)
(* into the row, 0 if there was none; so a cache that goes back to an      *)
(* older value shows, also when the same name is set twice.  The code has  *)
(* the name only, NameOf, and compares it with "" only.                    *)
(*                                                                         *)
(* Concurrent reloads of a replica share one singleflight key: one         *)
(* goroutine leads (pc query, store, settle), the others wait for its      *)
(* result.  A manager with a static provider has a constant version and    *)
(* refuses SetVersion; it keeps no state and is not modelled.              *)
(***************************************************************************)
EXTENDS Naturals, Sequences, FiniteSets

CONSTANTS
    Replicas,    \* processes that share the row
    Goroutines,
    ReplicaOf,   \* ReplicaOf[g]: the process g runs in
    Versions,    \* names of frontend versions
    Published,   \* those whose index.html the CDN has
    Default,     \* cfg.DefaultVersion
    Blank,       \* ""
    Faults,      \* calls that may fail: "query", "write", "fetch"
    MaxCalls     \* bound: calls of exported functions

ASSUME VersionAssumption ==
    /\ ReplicaOf \in [Goroutines -> Replicas]
    /\ Published \subseteq Versions
    /\ Default \in Versions \cup {Blank}
    /\ Blank \notin Versions
    /\ MaxCalls \in Nat

VARIABLES
    written,  \* the values written to the row, the last one is its value
    boot,     \* boot[r]: how far NewManager is
    cached,   \* cached[r]: dbProvider.cached
    fresh,    \* fresh[r]: loadedAt is less than dbCacheTTL ago
    pc,
    op,       \* op[g]: what g is called for
    cand,     \* cand[g]: the candidate of SetVersion
    seen,     \* seen[g]: the cached value that g read under the lock
    val,      \* val[g]: what the reload or the cache gave g
    failed,   \* failed[g]: val[g] is the fallback of a failed reload
    wrote,    \* wrote[g]: the number of the write of g's SetVersion
    calls

row   == <<written, boot>>
cache == <<cached, fresh>>
local == <<op, cand, seen, val, failed, wrote>>
vvars == <<row, cache, pc, local, calls>>

Op == {"version", "refresh", "set", "page"}

Init ==
    /\ written = <<>>
    /\ boot    = [r \in Replicas |-> "new"]
    /\ cached  = [r \in Replicas |-> 0]
    /\ fresh   = [r \in Replicas |-> FALSE]
    /\ pc      = [g \in Goroutines |-> "idle"]
    /\ op      = [g \in Goroutines |-> "version"]
    /\ cand    = [g \in Goroutines |-> Blank]
    /\ seen    = [g \in Goroutines |-> 0]
    /\ val     = [g \in Goroutines |-> 0]
    /\ failed  = [g \in Goroutines |-> FALSE]
    /\ wrote   = [g \in Goroutines |-> 0]
    /\ calls   = 0

Goto(g, l) == pc' = [pc EXCEPT ![g] = l]

\* The call of g returns; its local variables are gone.
Return(g) ==
    /\ Goto(g, "idle")
    /\ op'     = [op EXCEPT ![g] = "version"]
    /\ cand'   = [cand EXCEPT ![g] = Blank]
    /\ seen'   = [seen EXCEPT ![g] = 0]
    /\ val'    = [val EXCEPT ![g] = 0]
    /\ failed' = [failed EXCEPT ![g] = FALSE]
    /\ wrote'  = [wrote EXCEPT ![g] = 0]

\* The name in the row after k writes.
NameOf(k) == IF k = 0 THEN Blank ELSE written[k]

(***************************************************************************)
(* NewManager: seedDefaultIfAbsent, two statements.                        *)
(***************************************************************************)
SeedCheck(r) ==
    /\ boot[r] = "new"
    /\ \/ boot' = [boot EXCEPT ![r] = IF written = <<>> /\ Default # Blank
                                                THEN "seed" ELSE "up"]
       \/ "query" \in Faults /\ boot' = [boot EXCEPT ![r] = "up"]
    /\ UNCHANGED <<written, cache, pc, local, calls>>

SeedWrite(r) ==
    /\ boot[r] = "seed"
    /\ boot' = [boot EXCEPT ![r] = "up"]
    /\ \/ written' = Append(written, Default)
       \/ "write" \in Faults /\ UNCHANGED written
    /\ UNCHANGED <<cache, pc, local, calls>>

(***************************************************************************)
(* dbProvider.                                                             *)
(***************************************************************************)
\* dbCacheTTL has passed since the load.
Expire(r) ==
    /\ fresh[r]
    /\ fresh' = [fresh EXCEPT ![r] = FALSE]
    /\ UNCHANGED <<row, cached, pc, local, calls>>

\* A call starts; Version, ForceRefresh and a page request begin at the cache.
Begin(g, o, l) ==
    /\ pc[g] = "idle"
    /\ boot[ReplicaOf[g]] = "up"
    /\ calls < MaxCalls
    /\ calls' = calls + 1
    /\ op' = [op EXCEPT ![g] = o]
    /\ Goto(g, l)
    /\ UNCHANGED <<row, cache, seen, val, failed, wrote>>

Version(g)      == Begin(g, "version", "cache") /\ UNCHANGED cand
ForceRefresh(g) == Begin(g, "refresh", "cache") /\ UNCHANGED cand

\* cached and loadedAt are read under the lock: version answers from them while they are
\* fresh, refresh never does.
ReadCache(g) ==
    LET r == ReplicaOf[g] IN
    /\ pc[g] = "cache"
    /\ seen' = [seen EXCEPT ![g] = cached[r]]
    /\ IF op[g] \in {"version", "page"} /\ NameOf(cached[r]) # Blank /\ fresh[r]
       THEN /\ val' = [val EXCEPT ![g] = cached[r]]
            /\ failed' = [failed EXCEPT ![g] = FALSE]
            /\ Goto(g, "got")
       ELSE /\ Goto(g, "join")
            /\ UNCHANGED <<val, failed>>
    /\ UNCHANGED <<row, cache, op, cand, wrote, calls>>

Leading == {"query", "store", "settle"}

\* A reload is in flight in replica r.
Reloading(r) == \E h \in Goroutines : ReplicaOf[h] = r /\ pc[h] \in Leading

\* Mutant: refresh does not share the reload of version.
JoinAlone(g) ==
    /\ pc[g] = "join"
    /\ Goto(g, IF Reloading(ReplicaOf[g]) /\ op[g] \notin {"refresh", "set"}
               THEN "wait" ELSE "query")
    /\ UNCHANGED <<row, cache, local, calls>>

\* sf.Do("reload", ...): lead, or wait for the one that leads.
Join(g) ==
    /\ pc[g] = "join"
    /\ Goto(g, IF Reloading(ReplicaOf[g]) THEN "wait" ELSE "query")
    /\ UNCHANGED <<row, cache, local, calls>>

\* reload: getVersion.  A failure answers with the fallback and leaves the cache alone.
Query(g) ==
    /\ pc[g] = "query"
    /\ \/ /\ val' = [val EXCEPT ![g] = Len(written)]
          /\ failed' = [failed EXCEPT ![g] = FALSE]
          /\ Goto(g, "store")
       \/ /\ "query" \in Faults
          /\ val' = [val EXCEPT ![g] = seen[g]]
          /\ failed' = [failed EXCEPT ![g] = TRUE]
          /\ Goto(g, "settle")
    /\ UNCHANGED <<row, cache, op, cand, seen, wrote, calls>>

\* reload: the cache gets the version and the time.
Store(g) ==
    /\ pc[g] = "store"
    /\ cached' = [cached EXCEPT ![ReplicaOf[g]] = val[g]]
    /\ fresh' = [fresh EXCEPT ![ReplicaOf[g]] = TRUE]
    /\ Goto(g, "settle")
    /\ UNCHANGED <<row, local, calls>>

\* The goroutines whose reload g leads, itself included.
Party(g) ==
    {g} \cup {h \in Goroutines : ReplicaOf[h] = ReplicaOf[g] /\ pc[h] = "wait"}

\* Where a call goes on with the result of the reload.
After(o) == IF o = "set" THEN "notify" ELSE "got"

\* The reload is over: everyone has its result.
Settle(g) ==
    /\ pc[g] = "settle"
    /\ val' = [h \in Goroutines |-> IF h \in Party(g) THEN val[g] ELSE val[h]]
    /\ failed' = [h \in Goroutines |-> IF h \in Party(g) THEN failed[g] ELSE failed[h]]
    /\ pc' = [h \in Goroutines |-> IF h \in Party(g) THEN After(op[h]) ELSE pc[h]]
    /\ UNCHANGED <<row, cache, op, cand, seen, wrote, calls>>

\* Version or ForceRefresh returns.
Answer(g) ==
    /\ pc[g] = "got"
    /\ op[g] \in {"version", "refresh"}
    /\ Return(g)
    /\ UNCHANGED <<row, cache, calls>>

(***************************************************************************)
(* SetVersion.                                                             *)
(***************************************************************************)
SetVersion(g, v) ==
    /\ Begin(g, "set", "validate")
    /\ cand' = [cand EXCEPT ![g] = v]

\* isValidVersion: the CDN has the candidate, and is reached.
Validate(g) ==
    /\ pc[g] = "validate"
    /\ \/ /\ cand[g] \in Published
          /\ Goto(g, "persist")
          /\ UNCHANGED local
       \/ /\ cand[g] \notin Published \/ "fetch" \in Faults
          /\ Return(g)
    /\ UNCHANGED <<row, cache, calls>>

\* dao.setVersion, an upsert; then refresh begins.
Persist(g) ==
    /\ pc[g] = "persist"
    /\ \/ /\ written' = Append(written, cand[g])
          /\ wrote' = [wrote EXCEPT ![g] = Len(written')]
          /\ Goto(g, "cache")
          /\ UNCHANGED <<op, cand, seen, val, failed>>
       \/ /\ "write" \in Faults
          /\ Return(g)
          /\ UNCHANGED written
    /\ UNCHANGED <<boot, cache, calls>>

\* notifyListeners, and SetVersion returns true.
Notify(g) ==
    /\ pc[g] = "notify"
    /\ Return(g)
    /\ UNCHANGED <<row, cache, calls>>

(***************************************************************************)
(* The specification.                                                      *)
(***************************************************************************)
\* Calls of the manager.
Calls(g) ==
    \/ Version(g) \/ ForceRefresh(g)
    \/ \E v \in Versions \cup {Blank} : SetVersion(g, v)

\* Steps of a call inside the manager.
Resolve(g) ==
    \/ ReadCache(g) \/ Join(g) \/ Query(g) \/ Store(g) \/ Settle(g)
    \/ Validate(g) \/ Persist(g) \/ Answer(g)

Seed(r) == SeedCheck(r) \/ SeedWrite(r)

Quiet ==
    /\ calls = MaxCalls
    /\ \A g \in Goroutines : pc[g] = "idle"
    /\ \A r \in Replicas : boot[r] = "up"
    /\ UNCHANGED vvars

Next ==
    \/ \E g \in Goroutines : Calls(g) \/ Resolve(g) \/ Notify(g)
    \/ \E r \in Replicas : Seed(r) \/ Expire(r)
    \/ Quiet

Spec == Init /\ [][Next]_vvars

(***************************************************************************)
(* Properties.                                                             *)
(***************************************************************************)
\* Type invariant.
TypeOK ==
    /\ written \in Seq(Versions)
    /\ boot \in [Replicas -> {"new", "seed", "up"}]
    /\ cached \in [Replicas -> 0 .. Len(written)]
    /\ fresh \in [Replicas -> BOOLEAN]
    /\ op \in [Goroutines -> Op]
    /\ cand \in [Goroutines -> Versions \cup {Blank}]
    /\ seen \in [Goroutines -> 0 .. Len(written)]
    /\ val \in [Goroutines -> 0 .. Len(written)]
    /\ failed \in [Goroutines -> BOOLEAN]
    /\ wrote \in [Goroutines -> 0 .. Len(written)]
    /\ calls \in 0 .. MaxCalls

\* A replica's cache never goes back to a version that was set earlier: the answer of a
\* slow query does not overwrite that of a later one.
CacheForward == [][\A r \in Replicas : cached'[r] >= cached[r]]_vvars

\* What a call gets is no older than what was cached when it looked, although it may get
\* the result of a reload that began earlier; unless the database failed that reload.
AnswerForward ==
    \A g \in Goroutines : pc[g] = "got" /\ ~failed[g] => val[g] >= seen[g]

\* SetVersion "persists it and refreshes the cache and listeners": when the listeners are
\* called the cache has the new version, or a later one.
SetRefreshes ==
    \A g \in Goroutines : pc[g] = "notify" => cached[ReplicaOf[g]] >= wrote[g]
=============================================================================
