-------------------------- MODULE PageServerProofs --------------------------
(***************************************************************************)
(* Proofs about PageServer, for any replicas, goroutines, versions, paths  *)
(* and capacities: a response has the page of its version and path, and    *)
(* the caches stay within their bounds.                                    *)
(*                                                                         *)
(* The page of a request is fixed by val and target, which nobody but the  *)
(* request changes; the writes of the row only append, so the name of a    *)
(* version that was read does not change either (KeyKept).  That is also   *)
(* why a page is fetched once at a time (OneFetch) and why those who share *)
(* a fetch have one to wait for (SharersLed).  At the end: requests do not *)
(* loop (RequestsAdvance).                                                 *)
(***************************************************************************)
EXTENDS PageServer, VersionManagerProofs, FiniteSetTheorems

\* Types of the page server's own state.
PageTypes ==
    /\ pages = [r \in Replicas |-> [c \in Kinds |-> pages[r][c]]]
    /\ target \in [Goroutines -> Targets]
    /\ body \in [Goroutines -> Page \cup {NoPage}]

\* Every page is cached under its own key.
RightPlace ==
    \A r \in Replicas, c \in Kinds : \A k \in DOMAIN pages[r][c] :
        k \in Page /\ pages[r][c][k] = k

\* What a request has got is its page, or nothing.
RightBody ==
    \A g \in Goroutines :
        /\ pc[g] = "keep" => body[g] = Key(g)
        /\ pc[g] \in {"deliver", "respond"} => body[g] \in {NoPage, Key(g)}

\* The caches are finite, and within their capacities.
Bounded ==
    \A r \in Replicas, c \in Kinds :
        /\ IsFiniteSet(DOMAIN pages[r][c])
        /\ Cardinality(DOMAIN pages[r][c]) <= Capacity[c]

PInv == VInv /\ PageTypes /\ RightPlace /\ RightBody /\ Bounded

\* The initial states satisfy the invariant.
LEMMA PageInit == PInit => PInv
  <1> SUFFICES ASSUME PInit
               PROVE  PInv
    OBVIOUS
  <1>1. VInv
    BY VInit DEF PInit
  <1>2. PageTypes
    BY DEF PInit, PageTypes, Targets
  <1>3. \A r \in Replicas, c \in Kinds : pages[r][c] = <<>> /\ DOMAIN pages[r][c] = {}
    BY DEF PInit
  <1>4. RightPlace
    BY <1>3 DEF RightPlace
  <1>5. RightBody
    BY DEF PInit, Init, RightBody
  <1>6. Bounded
    BY <1>3, FS_EmptySet, PageAssumption DEF Bounded
  <1>7. QED
    BY <1>1, <1>2, <1>4, <1>5, <1>6 DEF PInv

\* The key of a request is a page.
LEMMA KeyIsPage ==
  ASSUME PInv, NEW g \in Goroutines
  PROVE  Key(g) \in Page
  <1>1. val[g] \in 0 .. Len(written) /\ written \in Seq(Versions) /\ Len(written) \in Nat
    BY DEF PInv, VInv, TypeInv, TypeOK
  <1>2. NameOf(val[g]) \in Versions \cup {Blank}
    BY <1>1 DEF NameOf
  <1>3. target[g] \in Targets
    BY DEF PInv, PageTypes
  <1>4. QED
    BY <1>2, <1>3 DEF Key, Page

\* The name of a version that was read stays its name.
LEMMA NameKept ==
  ASSUME VInv, NEW k \in 0 .. Len(written),
         written' = written \/ \E v \in Versions : written' = Append(written, v)
  PROVE  NameOf(k)' = NameOf(k)
  <1>1. written \in Seq(Versions) /\ Len(written) \in Nat
    BY DEF VInv, TypeInv, TypeOK
  <1>2. k # 0 => written'[k] = written[k]
    BY <1>1
  <1>3. QED
    BY <1>2 DEF NameOf

\* The steps of the manager write the row by appending.
LEMMA RowGrows ==
  ASSUME VInv, Managed
  PROVE  written' = written \/ \E v \in Versions : written' = Append(written, v)
  <1>1. ASSUME NEW g \in Goroutines, Calls(g) \/ Resolve(g) \/ Notify(g), ~Persist(g)
        PROVE  written' = written
    BY <1>1 DEF Calls, Version, ForceRefresh, SetVersion, Begin, Resolve, ReadCache, Join,
                Query, Store, Settle, Validate, Answer, Notify, row
  <1>2. ASSUME NEW g \in Goroutines, Persist(g)
        PROVE  written' = written \/ \E v \in Versions : written' = Append(written, v)
    BY <1>2 DEF Persist, VInv, TypeInv
  <1>3. ASSUME NEW r \in Replicas, Seed(r) \/ Expire(r)
        PROVE  written' = written \/ \E v \in Versions : written' = Append(written, v)
    BY <1>3 DEF Seed, SeedCheck, SeedWrite, Expire, VInv, TypeInv, row
  <1>4. QED
    BY <1>1, <1>2, <1>3 DEF Managed

\* The steps of the manager leave requests alone that have their version.
LEMMA RequestsKept ==
  ASSUME VInv, Managed, NEW h \in Goroutines, pc[h] \in PagePC \/ pc'[h] \in PagePC
  PROVE  pc'[h] = pc[h] /\ val'[h] = val[h]
  <1>1. /\ pc \in [Goroutines -> PC \cup PagePC]
        /\ val \in [Goroutines -> 0 .. Len(written)]
    BY DEF VInv, TypeInv, TypeOK
  <1>2. PC \cap PagePC = {}
    BY DEF PC, PagePC
  <1>3. ASSUME NEW g \in Goroutines, Settle(g)
        PROVE  pc'[h] = pc[h] /\ val'[h] = val[h]
    <2>1. pc[g] = "settle" /\ \A o : After(o) \in PC
      BY <1>3 DEF Settle, After, PC
    <2>2. h \notin Party(g)
      BY <1>2, <1>3, <2>1 DEF Settle, Party, PC, PagePC
    <2>3. QED
      BY <1>3, <2>2 DEF Settle
  <1>4. ASSUME NEW g \in Goroutines, Calls(g) \/ Resolve(g) \/ Notify(g), ~Settle(g)
        PROVE  pc'[h] = pc[h] /\ val'[h] = val[h]
    <2>1. /\ pc[g] \in PC
          /\ \E l \in PC : pc' = [pc EXCEPT ![g] = l]
          /\ \/ UNCHANGED val
             \/ \E x : val' = [val EXCEPT ![g] = x]
      BY <1>4 DEF Calls, Version, ForceRefresh, SetVersion, Begin, Resolve, ReadCache,
                  Join, Query, Store, Validate, Persist, Answer, Notify, Return, Goto,
                  local, PC
    <2>2. h # g
      BY <1>1, <1>2, <2>1
    <2>3. QED
      BY <1>1, <2>1, <2>2
  <1>5. ASSUME NEW r \in Replicas, Seed(r) \/ Expire(r)
        PROVE  pc'[h] = pc[h] /\ val'[h] = val[h]
    BY <1>5 DEF Seed, SeedCheck, SeedWrite, Expire, local
  <1>6. QED
    BY <1>3, <1>4, <1>5 DEF Managed

\* Steps of the manager that leave the pages alone preserve the invariant.
LEMMA ManagedKeeps ==
  ASSUME PInv, Managed, UNCHANGED <<pages, target, body>>
  PROVE  PInv'
  <1>1. VInv'
    BY ManagedStep DEF PInv
  <1>2. ASSUME NEW g \in Goroutines, pc'[g] \in PagePC
        PROVE  pc'[g] = pc[g] /\ Key(g)' = Key(g)
    <2>1. pc'[g] = pc[g] /\ val'[g] = val[g]
      BY <1>2, RequestsKept DEF PInv
    <2>2. PICK k \in 0 .. Len(written) : k = val[g]
      BY DEF PInv, VInv, TypeInv, TypeOK
    <2>3. NameOf(k)' = NameOf(k)
      BY NameKept, RowGrows DEF PInv
    <2>4. QED
      BY <2>1, <2>2, <2>3 DEF Key, NameOf
  <1>3. RightBody'
    BY <1>2 DEF PInv, RightBody, PagePC
  <1>4. PageTypes' /\ RightPlace' /\ Bounded'
    BY DEF PInv, PageTypes, RightPlace, Bounded
  <1>5. QED
    BY <1>1, <1>3, <1>4 DEF PInv

\* Steps of requests that have their version leave the manager's invariant alone.
LEMMA PageMoves ==
  ASSUME VInv, UNCHANGED <<row, cache, local>>, calls' \in 0 .. MaxCalls,
         pc' \in [Goroutines -> PC \cup PagePC],
         \A g \in Goroutines : pc'[g] = pc[g] \/ pc'[g] \in PagePC
  PROVE  VInv'
  <1>1. UNCHANGED <<written, boot, cached, fresh, op, cand, seen, val, failed, wrote>>
    BY DEF row, cache, local
  <1>2. TypeInv'
    BY <1>1 DEF VInv, TypeInv, TypeOK, PagePC
  <1>3. OneLeader'
    BY DEF VInv, OneLeader, Leading, PagePC
  <1>4. Ahead' /\ Behind' /\ AnswerForward'
    BY <1>1 DEF VInv, Ahead, Behind, AnswerForward, PagePC
  <1>5. QED
    BY <1>2, <1>3, <1>4 DEF VInv

\* Keys depend on what these steps leave alone.
LEMMA KeyKept ==
  ASSUME UNCHANGED <<row, local>>, UNCHANGED target, NEW g \in Goroutines
  PROVE  Key(g)' = Key(g)
  BY DEF Key, NameOf, row, local

\* A request goes on by itself, with body b, and the caches stay.
LEMMA RequestMoves ==
  ASSUME PInv, NEW g \in Goroutines, NEW l \in PagePC, NEW b \in Page \cup {NoPage},
         Goto(g, l), body' = [body EXCEPT ![g] = b],
         UNCHANGED <<row, cache, local, calls, pages, target>>,
         l = "keep" => b = Key(g),
         l \in {"deliver", "respond"} => b \in {NoPage, Key(g)}
  PROVE  PInv'
  <1>1. /\ pc \in [Goroutines -> PC \cup PagePC]
        /\ body \in [Goroutines -> Page \cup {NoPage}]
        /\ calls \in 0 .. MaxCalls
    BY DEF PInv, VInv, TypeInv, TypeOK, PageTypes
  <1>2. pc' \in [Goroutines -> PC \cup PagePC]
    BY <1>1 DEF Goto
  <1>3. \A h \in Goroutines : pc'[h] = IF h = g THEN l ELSE pc[h]
    BY <1>1 DEF Goto
  <1>4. VInv'
    BY <1>1, <1>2, <1>3, PageMoves DEF PInv
  <1>5. PageTypes'
    BY <1>1 DEF PInv, PageTypes
  <1>6. RightBody'
    <2>1. \A h \in Goroutines : Key(h)' = Key(h)
      BY KeyKept
    <2>2. \A h \in Goroutines : body'[h] = IF h = g THEN b ELSE body[h]
      BY <1>1
    <2>3. QED
      BY <1>3, <2>1, <2>2 DEF PInv, RightBody
  <1>7. RightPlace' /\ Bounded'
    BY DEF PInv, RightPlace, Bounded
  <1>8. QED
    BY <1>4, <1>5, <1>6, <1>7 DEF PInv

\* The cache answers, or not.
LEMMA LookupStep ==
  ASSUME PInv, NEW g \in Goroutines, Lookup(g)
  PROVE  PInv'
  <1> USE VersionAssumption
  <1>1. /\ body \in [Goroutines -> Page \cup {NoPage}]
        /\ KindOf(target[g]) \in Kinds
        /\ UNCHANGED <<row, cache, local, calls, pages, target>>
    BY DEF PInv, PageTypes, KindOf, Kinds, Lookup
  <1>2. CASE Key(g) \in DOMAIN Cached(g)
    <2>1. Cached(g)[Key(g)] = Key(g) /\ Key(g) \in Page
      BY <1>1, <1>2 DEF PInv, RightPlace, Cached
    <2>2. body' = [body EXCEPT ![g] = Key(g)] /\ Goto(g, "respond")
      BY <1>2, <2>1 DEF Lookup
    <2>3. PICK b \in Page \cup {NoPage} : b = Key(g)
      BY <2>1
    <2>4. body' = [body EXCEPT ![g] = b]
      BY <2>2, <2>3
    <2>5. QED
      BY <1>1, <2>2, <2>3, <2>4, RequestMoves DEF PagePC
  <1>3. CASE Key(g) \notin DOMAIN Cached(g)
    <2>1. Goto(g, "miss") /\ body' = body
      BY <1>3 DEF Lookup
    <2>2. PICK b \in Page \cup {NoPage} : b = body[g]
      BY <1>1
    <2>3. body' = [body EXCEPT ![g] = b]
      BY <1>1, <2>1, <2>2
    <2>4. QED
      BY <1>1, <2>1, <2>3, RequestMoves DEF PagePC
  <1>4. QED
    BY <1>2, <1>3

\* The fetch is led or shared.
LEMMA ShareStep ==
  ASSUME PInv, NEW g \in Goroutines, Share(g)
  PROVE  PInv'
  <1>1. PICK l \in {"share", "fetch"} : Goto(g, l)
    BY DEF Share
  <1>2. PICK b \in Page \cup {NoPage} : b = body[g]
    BY DEF PInv, PageTypes
  <1>3. body' = [body EXCEPT ![g] = b]
    BY <1>2 DEF Share, pvars, PInv, PageTypes
  <1>4. UNCHANGED <<row, cache, local, calls, pages, target>>
    BY DEF Share, pvars
  <1>5. QED
    BY <1>1, <1>3, <1>4, RequestMoves DEF PagePC

\* The CDN answers, or not.
LEMMA FetchStep ==
  ASSUME PInv, NEW g \in Goroutines, Fetch(g)
  PROVE  PInv'
  <1>1. UNCHANGED <<row, cache, local, calls, pages, target>>
    BY DEF Fetch
  <1>2. CASE body' = [body EXCEPT ![g] = Key(g)] /\ Goto(g, "keep")
    <2>1. PICK b \in Page \cup {NoPage} : b = Key(g)
      BY KeyIsPage
    <2>2. body' = [body EXCEPT ![g] = b]
      BY <1>2, <2>1
    <2>3. QED
      BY <1>1, <1>2, <2>1, <2>2, RequestMoves DEF PagePC
  <1>3. CASE body' = [body EXCEPT ![g] = NoPage] /\ Goto(g, "deliver")
    BY <1>1, <1>3, RequestMoves DEF PagePC
  <1>4. QED
    BY <1>2, <1>3 DEF Fetch

\* A cache after a store: every page under its own key, within the capacity.
LEMMA Stored ==
  ASSUME NEW f, NEW k \in Page, NEW cap \in Nat \ {0},
         IsFiniteSet(DOMAIN f), Cardinality(DOMAIN f) <= cap,
         \A i \in DOMAIN f : i \in Page /\ f[i] = i,
         NEW e \in StoredIn(f, k, k, cap)
  PROVE  /\ IsFiniteSet(DOMAIN e)
         /\ Cardinality(DOMAIN e) <= cap
         /\ \A i \in DOMAIN e : i \in Page /\ e[i] = i
  <1> DEFINE n == Cardinality(DOMAIN f)
  <1>1. n \in Nat
    BY FS_CardinalityType
  <1> DEFINE kept == IF n >= cap THEN {DOMAIN f \ {d} : d \in DOMAIN f} ELSE {DOMAIN f}
  <1>2. PICK ks \in kept : e = [i \in ks \cup {k} |-> IF i = k THEN k ELSE f[i]]
    BY Zenon DEF StoredIn
  <1>3. IsFiniteSet(ks) /\ Cardinality(ks) \in Nat /\ Cardinality(ks) < cap
    <2>1. CASE n < cap /\ ks = DOMAIN f
      BY <1>1, <2>1
    <2>2. ASSUME NEW d \in DOMAIN f, ks = DOMAIN f \ {d}
          PROVE  IsFiniteSet(ks) /\ Cardinality(ks) \in Nat /\ Cardinality(ks) < cap
      <3>1. IsFiniteSet(ks) /\ Cardinality(ks) = n - 1
        BY <2>2, FS_RemoveElement
      <3>2. Cardinality(ks) \in Nat
        BY <3>1, FS_CardinalityType
      <3>3. QED
        BY <1>1, <3>1, <3>2
    <2>3. CASE n >= cap
      BY <1>2, <2>2, <2>3
    <2>4. CASE ~(n >= cap)
      <3>1. n < cap /\ ks = DOMAIN f
        BY <1>1, <1>2, <2>4
      <3>2. QED
        BY <2>1, <3>1
    <2>5. QED
      BY <2>3, <2>4
  <1>4. DOMAIN e = ks \cup {k} /\ ks \subseteq DOMAIN f
    BY <1>2
  <1>5. IsFiniteSet(DOMAIN e) /\ Cardinality(DOMAIN e) <= Cardinality(ks) + 1
    <2>1. IsFiniteSet(ks \cup {k})
      BY <1>3, FS_AddElement
    <2>2. \/ Cardinality(ks \cup {k}) = Cardinality(ks)
          \/ Cardinality(ks \cup {k}) = Cardinality(ks) + 1
      BY <1>3, FS_AddElement
    <2>3. QED
      BY <1>3, <1>4, <2>1, <2>2
  <1>6. Cardinality(DOMAIN e) \in Nat
    BY <1>5, FS_CardinalityType
  <1>7. Cardinality(DOMAIN e) <= cap
    BY <1>3, <1>5, <1>6
  <1>8. QED
    BY <1>2, <1>4, <1>5, <1>7

\* The page is stored.
LEMMA KeepStep ==
  ASSUME PInv, NEW g \in Goroutines, Keep(g)
  PROVE  PInv'
  <1> USE VersionAssumption, PageAssumption
  <1> DEFINE r == ReplicaOf[g]
             c == KindOf(target[g])
  <1>1. r \in Replicas /\ c \in Kinds /\ Capacity[c] \in Nat \ {0}
    BY DEF KindOf, Kinds
  <1>2. /\ pc[g] = "keep" /\ Goto(g, "deliver")
        /\ UNCHANGED <<row, cache, local, calls, target, body>>
        /\ body[g] = Key(g)
    BY DEF Keep, PInv, RightBody
  <1>3. PICK e \in StoredIn(pages[r][c], Key(g), Key(g), Capacity[c]) :
             pages' = [pages EXCEPT ![r][c] = e]
    BY <1>2 DEF Keep, Cached
  <1>4. PICK k \in Page : k = Key(g)
    BY KeyIsPage
  <1>5. /\ IsFiniteSet(DOMAIN e)
        /\ Cardinality(DOMAIN e) <= Capacity[c]
        /\ \A i \in DOMAIN e : i \in Page /\ e[i] = i
    <2>1. e \in StoredIn(pages[r][c], k, k, Capacity[c])
      BY <1>3, <1>4
    <2>2. /\ IsFiniteSet(DOMAIN pages[r][c])
          /\ Cardinality(DOMAIN pages[r][c]) <= Capacity[c]
          /\ \A i \in DOMAIN pages[r][c] : i \in Page /\ pages[r][c][i] = i
      BY <1>1 DEF PInv, Bounded, RightPlace
    <2>3. QED
      BY <1>1, <2>1, <2>2, Stored
  <1>6. /\ pages' = [q \in Replicas |-> [d \in Kinds |-> pages'[q][d]]]
        /\ \A q \in Replicas, d \in Kinds :
             pages'[q][d] = IF q = r /\ d = c THEN e ELSE pages[q][d]
    <2>1. pages = [q \in Replicas |-> [d \in Kinds |-> pages[q][d]]]
      BY DEF PInv, PageTypes
    <2>2. DOMAIN pages = Replicas
      BY <2>1
    <2>3. \A q \in Replicas : pages[q] = [d \in Kinds |-> pages[q][d]]
      BY <2>1
    <2>4. pages' = [q \in Replicas |->
                     IF q = r THEN [pages[r] EXCEPT ![c] = e] ELSE pages[q]]
      BY <1>3, <2>1
    <2>5. DOMAIN pages[r] = Kinds
      BY <1>1, <2>3
    <2>6. [pages[r] EXCEPT ![c] = e] = [d \in Kinds |-> IF d = c THEN e ELSE pages[r][d]]
      BY <2>5
    <2>7. \A q \in Replicas :
             pages'[q] = [d \in Kinds |-> IF q = r /\ d = c THEN e ELSE pages[q][d]]
      BY <1>1, <2>3, <2>4, <2>6
    <2>8. QED
      BY <2>4, <2>7
  <1>7. pc' \in [Goroutines -> PC \cup PagePC] /\ pc' = [pc EXCEPT ![g] = "deliver"]
    BY <1>2 DEF PInv, VInv, TypeInv, Goto, PagePC
  <1>8. VInv'
    <2>1. \A h \in Goroutines : pc'[h] = pc[h] \/ pc'[h] \in PagePC
      BY <1>7 DEF PInv, VInv, TypeInv, PagePC
    <2>2. calls' \in 0 .. MaxCalls
      BY <1>2 DEF PInv, VInv, TypeInv, TypeOK
    <2>3. QED
      BY <1>2, <1>7, <2>1, <2>2, PageMoves DEF PInv
  <1>9. PageTypes'
    BY <1>2, <1>6 DEF PInv, PageTypes
  <1>10. ASSUME NEW q \in Replicas, NEW d \in Kinds
         PROVE  /\ IsFiniteSet(DOMAIN pages'[q][d])
                /\ Cardinality(DOMAIN pages'[q][d]) <= Capacity[d]
                /\ \A i \in DOMAIN pages'[q][d] : i \in Page /\ pages'[q][d][i] = i
    <2>1. CASE q = r /\ d = c
      BY <1>5, <1>6, <2>1
    <2>2. CASE ~(q = r /\ d = c)
      <3>1. pages'[q][d] = pages[q][d]
        BY <1>6, <2>2
      <3>2. QED
        BY <3>1 DEF PInv, RightPlace, Bounded
    <2>3. QED
      BY <2>1, <2>2
  <1>11. RightBody'
    <2>1. \A h \in Goroutines : Key(h)' = Key(h) /\ body'[h] = body[h]
      BY <1>2, KeyKept
    <2>2. QED
      BY <1>2, <1>7, <2>1 DEF PInv, VInv, TypeInv, RightBody
  <1>12. QED
    BY <1>8, <1>9, <1>10, <1>11 DEF PInv, RightPlace, Bounded

\* Everyone who shares the fetch gets the page, which is also theirs.
LEMMA DeliverStep ==
  ASSUME PInv, NEW g \in Goroutines, Deliver(g)
  PROVE  PInv'
  <1>1. /\ pc[g] = "deliver"
        /\ body' = [h \in Goroutines |-> IF h \in Sharing(g) THEN body[g] ELSE body[h]]
        /\ pc' = [h \in Goroutines |-> IF h \in Sharing(g) THEN "respond" ELSE pc[h]]
        /\ UNCHANGED <<row, cache, local, calls, pages, target>>
    BY DEF Deliver
  <1>2. /\ pc \in [Goroutines -> PC \cup PagePC]
        /\ body \in [Goroutines -> Page \cup {NoPage}]
    BY DEF PInv, VInv, TypeInv, PageTypes
  <1>3. VInv'
    <2>1. /\ pc' \in [Goroutines -> PC \cup PagePC]
          /\ \A h \in Goroutines : pc'[h] = pc[h] \/ pc'[h] \in PagePC
      BY <1>1, <1>2 DEF PagePC
    <2>2. calls' \in 0 .. MaxCalls
      BY <1>1 DEF PInv, VInv, TypeInv, TypeOK
    <2>3. QED
      BY <1>1, <2>1, <2>2, PageMoves DEF PInv
  <1>4. PageTypes'
    BY <1>1, <1>2 DEF PInv, PageTypes
  <1>5. RightBody'
    <2>1. \A h \in Goroutines : Key(h)' = Key(h)
      BY <1>1, KeyKept
    <2>2. body[g] \in {NoPage, Key(g)}
      BY <1>1 DEF PInv, RightBody
    <2>3. \A h \in Sharing(g) : Key(h) = Key(g)
      BY DEF Sharing, SameFetch
    <2>4. ASSUME NEW h \in Goroutines, h \in Sharing(g)
          PROVE  pc'[h] = "respond" /\ body'[h] \in {NoPage, Key(h)}
      BY <1>1, <2>2, <2>3, <2>4
    <2>5. ASSUME NEW h \in Goroutines, h \notin Sharing(g)
          PROVE  pc'[h] = pc[h] /\ body'[h] = body[h]
      BY <1>1, <2>5
    <2>6. QED
      BY <2>1, <2>4, <2>5 DEF PInv, RightBody
  <1>6. RightPlace' /\ Bounded'
    BY <1>1 DEF PInv, RightPlace, Bounded
  <1>7. QED
    BY <1>3, <1>4, <1>5, <1>6 DEF PInv

\* The response is written and the call returns.
LEMMA RespondStep ==
  ASSUME PInv, NEW g \in Goroutines, Respond(g)
  PROVE  PInv'
  <1>1. /\ Return(g) /\ UNCHANGED <<row, cache, calls, pages>>
        /\ body' = [body EXCEPT ![g] = NoPage]
        /\ target' = [target EXCEPT ![g] = Index]
    BY DEF Respond
  <1>2. VInv'
    BY <1>1, Returns DEF PInv, VInv, TypeInv, TypeOK
  <1>3. PageTypes'
    BY <1>1 DEF PInv, PageTypes, Targets
  <1>4. RightBody'
    <2>1. pc'[g] = "idle"
      BY <1>1 DEF Return, Goto, PInv, VInv, TypeInv
    <2>2. \A h \in Goroutines \ {g} :
             pc'[h] = pc[h] /\ body'[h] = body[h] /\ Key(h)' = Key(h)
      BY <1>1 DEF Return, Goto, PInv, VInv, TypeInv, TypeOK, PageTypes, Key, NameOf, row
    <2>3. QED
      BY <2>1, <2>2 DEF PInv, RightBody
  <1>5. RightPlace' /\ Bounded'
    BY <1>1 DEF PInv, RightPlace, Bounded
  <1>6. QED
    BY <1>2, <1>3, <1>4, <1>5 DEF PInv

\* A flush empties one cache.
LEMMA FlushKeeps ==
  ASSUME PInv, NEW r \in Replicas, Flush(r)
  PROVE  /\ pages' = [q \in Replicas |-> [c \in Kinds |-> pages'[q][c]]]
         /\ RightPlace' /\ Bounded'
  <1>1. pages = [q \in Replicas |-> [c \in Kinds |-> pages[q][c]]]
    BY DEF PInv, PageTypes
  <1>2. /\ DOMAIN pages[r] = Kinds
        /\ \A q \in Replicas : pages[q] = [c \in Kinds |-> pages[q][c]]
    BY <1>1
  <1>3. [pages[r] EXCEPT !["index"] = <<>>] =
           [c \in Kinds |-> IF c = "index" THEN <<>> ELSE pages[r][c]]
    BY <1>2
  <1>4. pages' = [q \in Replicas |->
                    IF q = r THEN [pages[r] EXCEPT !["index"] = <<>>] ELSE pages[q]]
    BY <1>1 DEF Flush
  <1>5. ASSUME NEW q \in Replicas
        PROVE  pages'[q] = [c \in Kinds |-> IF q = r /\ c = "index" THEN <<>>
                                                               ELSE pages[q][c]]
    <2>1. CASE q = r
      BY <1>3, <1>4, <2>1
    <2>2. CASE q # r
      BY <1>2, <1>4, <2>2
    <2>3. QED
      BY <2>1, <2>2
  <1>6. ASSUME NEW q \in Replicas, NEW c \in Kinds
        PROVE  \/ pages'[q][c] = pages[q][c]
               \/ pages'[q][c] = <<>> /\ DOMAIN pages'[q][c] = {}
    <2>1. pages'[q][c] = IF q = r /\ c = "index" THEN <<>> ELSE pages[q][c]
      BY <1>5
    <2>2. DOMAIN <<>> = {}
      OBVIOUS
    <2>3. QED
      BY <2>1, <2>2
  <1>7. RightPlace'
    BY <1>6 DEF PInv, RightPlace
  <1>8. Bounded'
    <2>1. ASSUME NEW q \in Replicas, NEW c \in Kinds
          PROVE  /\ IsFiniteSet(DOMAIN pages'[q][c])
                 /\ Cardinality(DOMAIN pages'[q][c]) <= Capacity[c]
      <3>1. CASE pages'[q][c] = pages[q][c]
        BY <3>1 DEF PInv, Bounded
      <3>2. CASE DOMAIN pages'[q][c] = {}
        <4>1. /\ IsFiniteSet(DOMAIN pages'[q][c])
              /\ Cardinality(DOMAIN pages'[q][c]) = 0
          BY <3>2, FS_EmptySet
        <4>2. Capacity[c] \in Nat
          BY PageAssumption
        <4>3. QED
          BY <4>1, <4>2
      <3>3. QED
        BY <1>6, <3>1, <3>2
    <2>2. QED
      BY <2>1 DEF Bounded
  <1>9. \A q \in Replicas : pages'[q] = [c \in Kinds |-> pages'[q][c]]
    BY <1>5
  <1>10. DOMAIN pages' = Replicas /\ pages' = [q \in Replicas |-> pages'[q]]
    BY <1>4
  <1>11. QED
    BY <1>7, <1>8, <1>9, <1>10

\* SetCSP flushes.
LEMMA SetCSPStep ==
  ASSUME PInv, NEW r \in Replicas, SetCSP(r)
  PROVE  PInv'
  <1>1. /\ Flush(r)
        /\ UNCHANGED <<row, cache, pc, local, target, body>>
        /\ calls' \in 0 .. MaxCalls
    BY VersionAssumption DEF SetCSP, PInv, VInv, TypeInv, TypeOK
  <1>2. VInv'
    BY <1>1, PageMoves DEF PInv, VInv, TypeInv
  <1>3. PageTypes' /\ RightPlace' /\ Bounded'
    BY <1>1, FlushKeeps DEF PInv, PageTypes
  <1>4. RightBody'
    <2>1. \A h \in Goroutines : Key(h)' = Key(h)
      BY <1>1, KeyKept
    <2>2. QED
      BY <1>1, <2>1 DEF PInv, RightBody
  <1>5. QED
    BY <1>2, <1>3, <1>4 DEF PInv

\* The listeners of a SetVersion are called, and may flush.
LEMMA ListenersStep ==
  ASSUME PInv, NEW g \in Goroutines, Listeners(g)
  PROVE  PInv'
  <1>1. /\ Notify(g) /\ UNCHANGED <<target, body>>
        /\ Flush(ReplicaOf[g]) \/ UNCHANGED pages
        /\ ReplicaOf[g] \in Replicas
    BY VersionAssumption DEF Listeners
  <1>2. VInv'
    BY <1>1, ManagedStep DEF PInv, Managed
  <1>3. PageTypes' /\ RightPlace' /\ Bounded'
    <2>1. CASE Flush(ReplicaOf[g])
      BY <1>1, <2>1, FlushKeeps DEF PInv, PageTypes
    <2>2. CASE UNCHANGED pages
      BY <1>1, <2>2 DEF PInv, PageTypes, RightPlace, Bounded
    <2>3. QED
      BY <1>1, <2>1, <2>2
  <1>4. RightBody'
    <2>1. Return(g) /\ UNCHANGED <<row, cache, calls>>
      BY <1>1 DEF Notify
    <2>2. pc'[g] = "idle"
      BY <2>1 DEF Return, Goto, PInv, VInv, TypeInv
    <2>3. \A h \in Goroutines \ {g} :
             pc'[h] = pc[h] /\ body'[h] = body[h] /\ Key(h)' = Key(h)
      BY <1>1, <2>1 DEF Return, Goto, PInv, VInv, TypeInv, TypeOK, Key, NameOf, row
    <2>4. QED
      BY <2>2, <2>3 DEF PInv, RightBody
  <1>5. QED
    BY <1>2, <1>3, <1>4 DEF PInv

\* A request begins.
LEMMA RequestStep ==
  ASSUME PInv, NEW g \in Goroutines, NEW t \in Targets, Request(g, t)
  PROVE  PInv'
  <1>1. /\ Begin(g, "page", "cache") /\ UNCHANGED <<cand, pages, body>>
        /\ target' = [target EXCEPT ![g] = t]
    BY DEF Request
  <1>2. VInv'
    <2>1. /\ cand' \in [Goroutines -> Versions \cup {Blank}]
          /\ \A h \in Goroutines \ {g} : cand'[h] = cand[h]
      BY <1>1 DEF PInv, VInv, TypeInv, TypeOK
    <2>2. QED
      BY <1>1, <2>1, BeginStep DEF PInv, Op
  <1>3. PageTypes' /\ RightPlace' /\ Bounded'
    BY <1>1 DEF PInv, PageTypes, RightPlace, Bounded
  <1>4. RightBody'
    <2>1. pc'[g] = "cache"
      BY <1>1 DEF Begin, Goto, PInv, VInv, TypeInv
    <2>2. \A h \in Goroutines \ {g} :
             pc'[h] = pc[h] /\ body'[h] = body[h] /\ Key(h)' = Key(h)
      BY <1>1 DEF Begin, Goto, PInv, VInv, TypeInv, PageTypes, Key, NameOf, row
    <2>3. QED
      BY <2>1, <2>2 DEF PInv, RightBody
  <1>5. QED
    BY <1>2, <1>3, <1>4 DEF PInv

\* Every step preserves the invariant.
LEMMA PageNext == PInv /\ [PNext]_vars => PInv'
  <1> SUFFICES ASSUME PInv, [PNext]_vars
               PROVE  PInv'
    OBVIOUS
  <1>1. ASSUME NEW g \in Goroutines, NEW t \in Targets, Request(g, t)
        PROVE  PInv'
    BY <1>1, RequestStep
  <1>2. CASE Managed /\ UNCHANGED pvars
    BY <1>2, ManagedKeeps DEF pvars
  <1>3. ASSUME NEW g \in Goroutines, Serve(g), ~(Resolve(g) /\ UNCHANGED pvars)
        PROVE  PInv'
    BY <1>3, LookupStep, ShareStep, FetchStep, KeepStep, DeliverStep, RespondStep,
       ListenersStep DEF Serve
  <1>4. ASSUME NEW r \in Replicas, SetCSP(r)
        PROVE  PInv'
    BY <1>4, SetCSPStep
  <1>5. CASE UNCHANGED <<vvars, pvars>>
    <2>1. UNCHANGED <<row, cache, local, pc, calls, pages, target, body>>
      BY <1>5 DEF vvars, pvars
    <2>2. VInv'
      BY <2>1, PageMoves DEF PInv, VInv, TypeInv, TypeOK
    <2>3. PageTypes' /\ RightPlace' /\ Bounded'
      BY <2>1 DEF PInv, PageTypes, RightPlace, Bounded
    <2>4. RightBody'
      BY <2>1, KeyKept DEF PInv, RightBody
    <2>5. QED
      BY <2>2, <2>3, <2>4 DEF PInv
  <1>6. QED
    BY <1>1, <1>2, <1>3, <1>4, <1>5 DEF PNext, PQuiet, Quiet, Serve, Managed, vars

\* The invariant holds in every state of the page server.
LEMMA PageInvariant == PSpec => []PInv
  BY PageInit, PageNext, PTL DEF PSpec

\* PTypeOK holds in every state.
THEOREM PageTypeCorrect == PSpec => []PTypeOK
  <1>1. PInv => PTypeOK
    <2> SUFFICES ASSUME PInv
                 PROVE  PTypeOK
      OBVIOUS
    <2>1. /\ TypeOK
          /\ target \in [Goroutines -> Targets]
          /\ body \in [Goroutines -> Page \cup {NoPage}]
      BY DEF PInv, VInv, TypeInv, PageTypes
    <2>2. \A r \in Replicas, c \in Kinds :
             DOMAIN pages[r][c] \subseteq Page /\ Range(pages[r][c]) \subseteq Page
      BY DEF PInv, RightPlace, Range
    <2>3. QED
      BY <2>1, <2>2 DEF PTypeOK
  <1>2. QED
    BY <1>1, PageInvariant, PTL

\* What serveRootInner writes is the page of the version in X-app-version and of the path
\* of its request, although pages come from caches and from other requests' fetches.
THEOREM PageOfVersionHolds == PSpec => []PageOfVersion
  <1>1. PInv => PageOfVersion
    BY DEF PInv, RightBody, PageOfVersion
  <1>2. QED
    BY <1>1, PageInvariant, PTL

\* indexStore and put keep the caches within indexCacheCapacity and staticCacheCapacity.
THEOREM WithinCapacityHolds == PSpec => []WithinCapacity
  <1>1. PInv => WithinCapacity
    BY DEF PInv, Bounded, WithinCapacity
  <1>2. QED
    BY <1>1, PageInvariant, PTL

(***************************************************************************)
(* Shared fetches: a page is fetched once at a time, and whoever shares a  *)
(* fetch or a reload is woken by one that is in flight.                    *)
(***************************************************************************)
\* Two fetches in flight in a replica are of different pages.
OneFetch ==
    \A g, h \in Goroutines :
        pc[g] \in Fetching /\ pc[h] \in Fetching /\ SameFetch(g, h) => g = h

\* The fetch that a request shares is in flight.
SharersLed ==
    \A h \in Goroutines :
        pc[h] = "share" => \E g \in Goroutines : pc[g] \in Fetching /\ SameFetch(g, h)

\* Nobody waits for a result that nobody is about to deliver.
WaitersServed == SharersLed /\ ReloadersLed

\* A step that leaves the fetches in flight, those who share them and their keys alone.
Undisturbing ==
    \A h \in Goroutines :
        /\ pc'[h] \in Fetching <=> pc[h] \in Fetching
        /\ pc'[h] = "share" <=> pc[h] = "share"
        /\ pc[h] \in Fetching \cup {"share"} => Key(h)' = Key(h)

LEMMA FetchesKept ==
  ASSUME OneFetch, SharersLed, Undisturbing
  PROVE  OneFetch' /\ SharersLed'
  <1>1. OneFetch'
    BY DEF OneFetch, SameFetch, Undisturbing
  <1>2. SharersLed'
    <2>1. SUFFICES ASSUME NEW h \in Goroutines, pc'[h] = "share"
                   PROVE  \E g \in Goroutines : pc'[g] \in Fetching /\ SameFetch(g, h)'
      BY DEF SharersLed
    <2>2. PICK g \in Goroutines : pc[g] \in Fetching /\ SameFetch(g, h)
      BY <2>1 DEF SharersLed, Undisturbing
    <2>3. SameFetch(g, h)'
      BY <2>1, <2>2 DEF SameFetch, Undisturbing
    <2>4. QED
      BY <2>2, <2>3 DEF Undisturbing
  <1>3. QED
    BY <1>1, <1>2

\* All steps but those that join and end a fetch.
LEMMA MostStepsUndisturbing ==
  ASSUME PInv, [PNext]_vars,
         \A g \in Goroutines : ~Share(g) /\ ~Deliver(g)
  PROVE  Undisturbing
  <1>1. /\ pc \in [Goroutines -> PC \cup PagePC]
        /\ target \in [Goroutines -> Targets]
    BY DEF PInv, VInv, TypeInv, PageTypes
  <1>2. Fetching \cup {"share"} \subseteq PagePC /\ "share" \notin Fetching
    BY DEF Fetching, PagePC
  <1>3. ASSUME NEW g \in Goroutines, NEW l, pc' = [pc EXCEPT ![g] = l],
               pc[g] \notin Fetching \cup {"share"}, l \notin Fetching \cup {"share"},
               \A h \in Goroutines \ {g} : Key(h)' = Key(h)
        PROVE  Undisturbing
    BY <1>1, <1>2, <1>3 DEF Undisturbing
  <1>4. CASE Managed /\ UNCHANGED pvars
    <2>1. ASSUME NEW h \in Goroutines, pc[h] \in PagePC \/ pc'[h] \in PagePC
          PROVE  pc'[h] = pc[h] /\ Key(h)' = Key(h)
      <3>1. pc'[h] = pc[h] /\ val'[h] = val[h]
        BY <1>4, <2>1, RequestsKept DEF PInv
      <3>2. PICK k \in 0 .. Len(written) : k = val[h]
        BY DEF PInv, VInv, TypeInv, TypeOK
      <3>3. NameOf(k)' = NameOf(k)
        BY <1>4, NameKept, RowGrows DEF PInv
      <3>4. QED
        BY <1>4, <3>1, <3>2, <3>3 DEF Key, NameOf, pvars
    <2>2. QED
      BY <1>2, <2>1 DEF Undisturbing
  <1>5. ASSUME NEW g \in Goroutines, NEW t \in Targets, Request(g, t)
        PROVE  Undisturbing
    <2>1. /\ pc[g] = "idle" /\ pc' = [pc EXCEPT ![g] = "cache"]
          /\ target' = [target EXCEPT ![g] = t] /\ UNCHANGED <<written, val>>
      BY <1>5 DEF Request, Begin, Goto, row
    <2>2. \A h \in Goroutines \ {g} : Key(h)' = Key(h)
      BY <1>1, <2>1 DEF Key, NameOf
    <2>3. QED
      BY <1>3, <2>1, <2>2 DEF Fetching
  <1>6. ASSUME NEW g \in Goroutines, Lookup(g)
        PROVE  Undisturbing
    <2>1. /\ pc[g] = "got" /\ \E l \in {"respond", "miss"} : pc' = [pc EXCEPT ![g] = l]
          /\ UNCHANGED <<row, local, target>>
      BY <1>6 DEF Lookup, Goto
    <2>2. \A h \in Goroutines : Key(h)' = Key(h)
      BY <2>1, KeyKept
    <2>3. QED
      BY <1>3, <2>1, <2>2 DEF Fetching
  <1>7. ASSUME NEW g \in Goroutines, Fetch(g) \/ Keep(g)
        PROVE  Undisturbing
    <2>1. /\ pc[g] \in Fetching /\ \E l \in Fetching : pc' = [pc EXCEPT ![g] = l]
          /\ UNCHANGED <<row, local, target>>
      BY <1>7 DEF Fetch, Keep, Goto, Fetching
    <2>2. \A h \in Goroutines : Key(h)' = Key(h)
      BY <2>1, KeyKept
    <2>3. QED
      BY <1>1, <1>2, <2>1, <2>2 DEF Undisturbing
  <1>8. ASSUME NEW g \in Goroutines, Respond(g) \/ Listeners(g)
        PROVE  Undisturbing
    <2>1. /\ pc[g] \in {"respond", "notify"} /\ Return(g) /\ UNCHANGED row
          /\ target' = [target EXCEPT ![g] = Index] \/ UNCHANGED target
      BY <1>8 DEF Respond, Listeners, Notify
    <2>2. pc' = [pc EXCEPT ![g] = "idle"] /\ val' = [val EXCEPT ![g] = 0]
      BY <2>1 DEF Return, Goto
    <2>3. \A h \in Goroutines \ {g} : Key(h)' = Key(h)
      BY <1>1, <2>1, <2>2 DEF Key, NameOf, row, PInv, VInv, TypeInv, TypeOK
    <2>4. QED
      BY <1>3, <2>1, <2>2, <2>3 DEF Fetching
  <1>9. ASSUME UNCHANGED <<row, local, target, pc>>
        PROVE  Undisturbing
    BY <1>9, KeyKept DEF Undisturbing
  <1>10. ASSUME NEW r \in Replicas, SetCSP(r)
         PROVE  UNCHANGED <<row, local, target, pc>>
    BY <1>10 DEF SetCSP
  <1>11. CASE UNCHANGED vars
    <2>1. UNCHANGED <<row, local, target, pc>>
      BY <1>11 DEF vars, vvars, pvars
    <2>2. QED
      BY <2>1, <1>9
  <1>12. QED
    BY <1>4, <1>5, <1>6, <1>7, <1>8, <1>9, <1>10, <1>11
       DEF PNext, Serve, Managed, PQuiet, Quiet, vars

\* A request joins the fetch of its page, or starts it if it is not in flight.
LEMMA ShareKeeps ==
  ASSUME PInv, OneFetch, SharersLed, NEW g \in Goroutines, Share(g)
  PROVE  OneFetch' /\ SharersLed'
  <1>1. pc \in [Goroutines -> PC \cup PagePC]
    BY DEF PInv, VInv, TypeInv
  <1>2. /\ pc[g] = "miss"
        /\ pc' = [pc EXCEPT ![g] = IF InFlight(g) THEN "share" ELSE "fetch"]
        /\ \A h \in Goroutines : Key(h)' = Key(h)
    BY KeyKept DEF Share, Goto, pvars
  <1>3. \A h, k \in Goroutines : SameFetch(h, k)' = SameFetch(h, k)
    BY <1>2 DEF SameFetch
  <1>4. \A h \in Goroutines \ {g} : pc'[h] = pc[h]
    BY <1>1, <1>2
  <1>5. CASE InFlight(g)
    <2>1. pc'[g] = "share"
      BY <1>1, <1>2, <1>5
    <2>2. PICK k \in Goroutines \ {g} : pc[k] \in Fetching /\ SameFetch(g, k)
      BY <1>5 DEF InFlight
    <2>3. SameFetch(k, g)
      BY <2>2 DEF SameFetch
    <2>4. OneFetch'
      BY <1>3, <1>4, <2>1 DEF OneFetch, Fetching
    <2>5. ASSUME NEW h \in Goroutines \ {g}, pc[h] = "share"
          PROVE  \E f \in Goroutines : pc'[f] \in Fetching /\ SameFetch(f, h)'
      <3>1. PICK f \in Goroutines : pc[f] \in Fetching /\ SameFetch(f, h)
        BY <2>5 DEF SharersLed
      <3>2. f # g
        BY <1>2, <3>1 DEF Fetching
      <3>3. QED
        BY <1>3, <1>4, <3>1, <3>2
    <2>6. SharersLed'
      BY <1>3, <1>4, <2>1, <2>2, <2>3, <2>5 DEF SharersLed
    <2>7. QED
      BY <2>4, <2>6
  <1>6. CASE ~InFlight(g)
    <2>1. pc'[g] = "fetch"
      BY <1>1, <1>2, <1>6
    <2>2. \A h \in Goroutines \ {g} :
             pc[h] \in Fetching => ~SameFetch(g, h) /\ ~SameFetch(h, g)
      BY <1>6 DEF InFlight, SameFetch
    <2>3. OneFetch'
      BY <1>3, <1>4, <2>1, <2>2 DEF OneFetch
    <2>4. ASSUME NEW h \in Goroutines, pc'[h] = "share"
          PROVE  \E f \in Goroutines : pc'[f] \in Fetching /\ SameFetch(f, h)'
      <3>1. h # g /\ pc[h] = "share"
        BY <1>4, <2>1, <2>4
      <3>2. PICK f \in Goroutines : pc[f] \in Fetching /\ SameFetch(f, h)
        BY <3>1 DEF SharersLed
      <3>3. f # g
        BY <1>2, <3>2 DEF Fetching
      <3>4. QED
        BY <1>3, <1>4, <3>2, <3>3
    <2>5. QED
      BY <2>3, <2>4 DEF SharersLed
  <1>7. QED
    BY <1>5, <1>6

\* A fetch ends with everyone who shares it.
LEMMA DeliverKeeps ==
  ASSUME PInv, OneFetch, SharersLed, NEW g \in Goroutines, Deliver(g)
  PROVE  OneFetch' /\ SharersLed'
  <1>1. /\ pc[g] = "deliver"
        /\ pc' = [h \in Goroutines |-> IF h \in Sharing(g) THEN "respond" ELSE pc[h]]
        /\ \A h \in Goroutines : Key(h)' = Key(h)
    BY KeyKept DEF Deliver
  <1>2. \A h, k \in Goroutines : SameFetch(h, k)' = SameFetch(h, k)
    BY <1>1 DEF SameFetch
  <1>3. \A h \in Goroutines : pc'[h] \in Fetching \cup {"share"} =>
           h \notin Sharing(g) /\ pc'[h] = pc[h]
    BY <1>1 DEF Fetching
  <1>4. OneFetch'
    BY <1>2, <1>3 DEF OneFetch
  <1>5. ASSUME NEW h \in Goroutines, pc'[h] = "share"
        PROVE  \E f \in Goroutines : pc'[f] \in Fetching /\ SameFetch(f, h)'
    <2>1. pc[h] = "share" /\ ~SameFetch(g, h)
      BY <1>3, <1>5 DEF Sharing
    <2>2. PICK f \in Goroutines : pc[f] \in Fetching /\ SameFetch(f, h)
      BY <2>1 DEF SharersLed
    <2>3. f \notin Sharing(g)
      BY <2>1, <2>2 DEF Sharing, Fetching
    <2>4. QED
      BY <1>1, <1>2, <2>2, <2>3
  <1>6. QED
    BY <1>4, <1>5 DEF SharersLed

LEMMA FetchesNext ==
  ASSUME PInv, OneFetch, SharersLed, [PNext]_vars
  PROVE  OneFetch' /\ SharersLed'
  BY ShareKeeps, DeliverKeeps, MostStepsUndisturbing, FetchesKept

\* Requests leave the reloads of the manager and those who wait for them alone.
LEMMA ReloadsNext ==
  ASSUME PInv, ReloadersLed, [PNext]_vars
  PROVE  ReloadersLed'
  <1>1. pc \in [Goroutines -> PC \cup PagePC]
    BY DEF PInv, VInv, TypeInv
  <1>2. CASE Managed
    BY <1>2, LedStep DEF PInv
  <1>3. ASSUME NEW g \in Goroutines, NEW l, pc' = [pc EXCEPT ![g] = l], l # "wait",
               pc[g] \notin Leading
        PROVE  ReloadersLed'
    BY <1>1, <1>3, LedKept
  <1>4. ASSUME NEW g \in Goroutines, NEW t \in Targets, Request(g, t)
        PROVE  ReloadersLed'
    BY <1>3, <1>4 DEF Request, Begin, Goto, Leading
  <1>5. ASSUME NEW g \in Goroutines,
               Lookup(g) \/ Share(g) \/ Fetch(g) \/ Keep(g) \/ Respond(g) \/ Listeners(g)
        PROVE  ReloadersLed'
    <2>1. \E l : pc' = [pc EXCEPT ![g] = l] /\ l # "wait" /\ pc[g] \notin Leading
      BY <1>5 DEF Lookup, Share, Fetch, Keep, Respond, Listeners, Notify, Return, Goto,
                  Leading
    <2>2. QED
      BY <1>3, <2>1
  <1>6. ASSUME NEW g \in Goroutines, Deliver(g)
        PROVE  ReloadersLed'
    <2>1. \A h \in Goroutines : pc'[h] # pc[h] =>
             pc'[h] = "respond" /\ pc[h] \in {"deliver", "share"}
      BY <1>6 DEF Deliver, Sharing
    <2>2. QED
      BY <2>1, LedKept DEF Leading
  <1>7. ASSUME UNCHANGED pc
        PROVE  ReloadersLed'
    BY <1>7, LedKept
  <1>8. ASSUME NEW r \in Replicas, SetCSP(r)
        PROVE  UNCHANGED pc
    BY <1>8 DEF SetCSP
  <1>9. CASE UNCHANGED vars
    BY <1>7, <1>9 DEF vars, vvars
  <1>10. QED
    BY <1>2, <1>4, <1>5, <1>6, <1>7, <1>8, <1>9
       DEF PNext, Serve, Managed, PQuiet, Quiet, vars

\* Fetches in flight, and who waits for them, for the rest of the theorems.
LEMMA FetchesInvariant == PSpec => [](OneFetch /\ WaitersServed)
  <1>1. PInit => OneFetch /\ WaitersServed
    BY DEF PInit, Init, OneFetch, WaitersServed, SharersLed, ReloadersLed, Fetching
  <1>2. PInv /\ (OneFetch /\ WaitersServed) /\ [PNext]_vars => (OneFetch /\ WaitersServed)'
    BY FetchesNext, ReloadsNext DEF WaitersServed
  <1>3. QED
    BY <1>1, <1>2, PageInvariant, PTL DEF PSpec

\* However many requests miss, a replica fetches a page once at a time: the key of
\* serveRootInner's and retrieve's singleflight names the page, and the version behind a
\* key does not change while the fetch is in flight.
THEOREM OneFetchHolds == PSpec => []OneFetch
  BY FetchesInvariant, PTL

\* No request hangs in a singleflight: whoever shares a fetch or a reload has a goroutine
\* in flight that will wake it, and that goroutine waits for nobody.
THEOREM WaitersServedHolds == PSpec => []WaitersServed
  BY FetchesInvariant, PTL

(***************************************************************************)
(* Requests are short: a call goes from one program point to a later one,  *)
(* by its own steps or because the result that it shares is delivered.     *)
(***************************************************************************)
\* How far a call at program point l is from its end.
ToDo(l) ==
    CASE l = "idle"     -> 0
      [] l = "respond"  -> 1
      [] l = "notify"   -> 1
      [] l = "deliver"  -> 2
      [] l = "keep"     -> 3
      [] l = "fetch"    -> 4
      [] l = "share"    -> 4
      [] l = "miss"     -> 5
      [] l = "got"      -> 6
      [] l = "settle"   -> 7
      [] l = "wait"     -> 7
      [] l = "store"    -> 8
      [] l = "query"    -> 9
      [] l = "join"     -> 10
      [] l = "cache"    -> 11
      [] l = "persist"  -> 12
      [] l = "validate" -> 13

Closer(g) == ToDo(pc'[g]) < ToDo(pc[g])

\* The other calls stay where they are, or get what they wait for.
OthersNoFurther(g) == \A h \in Goroutines \ {g} : pc'[h] = pc[h] \/ Closer(h)

\* Steps inside the manager.
LEMMA ResolveCloser ==
  ASSUME VInv, NEW g \in Goroutines, Resolve(g) \/ Notify(g)
  PROVE  pc[g] # "idle" /\ Closer(g) /\ OthersNoFurther(g)
  <1>1. pc \in [Goroutines -> PC \cup PagePC]
    BY DEF VInv, TypeInv
  <1>2. CASE Settle(g)
    <2>1. \A h \in Party(g) : pc[h] \in {"settle", "wait"} /\ pc'[h] \in {"got", "notify"}
      BY <1>2 DEF Settle, Party, After
    <2>2. \A h \in Party(g) : Closer(h)
      BY <2>1 DEF Closer, ToDo
    <2>3. \A h \in Goroutines \ Party(g) : pc'[h] = pc[h]
      BY <1>2 DEF Settle
    <2>4. g \in Party(g) /\ pc[g] = "settle"
      BY <1>2 DEF Settle, Party
    <2>5. QED
      BY <2>2, <2>3, <2>4 DEF OthersNoFurther
  <1>3. CASE ReadCache(g) \/ Join(g) \/ Query(g) \/ Store(g)
    BY <1>1, <1>3 DEF ReadCache, Join, Query, Store, Goto, Closer, OthersNoFurther, ToDo
  <1>4. CASE Validate(g) \/ Persist(g) \/ Answer(g) \/ Notify(g)
    BY <1>1, <1>4 DEF Validate, Persist, Answer, Notify, Return, Goto, Closer,
       OthersNoFurther, ToDo
  <1>5. QED
    BY <1>2, <1>3, <1>4 DEF Resolve

\* Steps of a request.
LEMMA ServeCloser ==
  ASSUME VInv, NEW g \in Goroutines, Serve(g)
  PROVE  pc[g] # "idle" /\ Closer(g) /\ OthersNoFurther(g)
  <1>1. pc \in [Goroutines -> PC \cup PagePC]
    BY DEF VInv, TypeInv
  <1>2. CASE Resolve(g) \/ Listeners(g)
    BY <1>2, ResolveCloser DEF Listeners
  <1>3. CASE Lookup(g) \/ Share(g) \/ Fetch(g) \/ Keep(g) \/ Respond(g)
    BY <1>1, <1>3 DEF Lookup, Share, Fetch, Keep, Respond, Return, Goto, Closer,
       OthersNoFurther, ToDo
  <1>4. CASE Deliver(g)
    <2>1. \A h \in Sharing(g) : pc[h] \in {"deliver", "share"} /\ pc'[h] = "respond"
      BY <1>4 DEF Deliver, Sharing
    <2>2. \A h \in Sharing(g) : Closer(h)
      BY <2>1 DEF Closer, ToDo
    <2>3. \A h \in Goroutines \ Sharing(g) : pc'[h] = pc[h]
      BY <1>4 DEF Deliver
    <2>4. g \in Sharing(g) /\ pc[g] = "deliver"
      BY <1>4 DEF Deliver, Sharing
    <2>5. QED
      BY <2>2, <2>3, <2>4 DEF OthersNoFurther
  <1>5. QED
    BY <1>2, <1>3, <1>4 DEF Serve

\* Every step of a request or of a call of the manager brings it nearer to its end, and no
\* other step sets it back.  With WaitersServed this is why RequestsAnswered holds.
RequestsAdvance ==
    [][\A g \in Goroutines :
         /\ Serve(g) => Closer(g)
         /\ pc[g] # "idle" => pc'[g] = pc[g] \/ Closer(g)]_vars

\* serveRootInner asks for one version and one page, and reload reads the row once: no
\* call of the page server or of the manager loops.
THEOREM RequestsAdvanceHolds == PSpec => RequestsAdvance
  <1>1. PInv /\ [PNext]_vars =>
          [\A g \in Goroutines :
             /\ Serve(g) => Closer(g)
             /\ pc[g] # "idle" => pc'[g] = pc[g] \/ Closer(g)]_vars
    <2> SUFFICES ASSUME PInv, PNext, NEW g \in Goroutines, pc[g] # "idle"
                 PROVE  pc'[g] = pc[g] \/ Closer(g)
      BY ServeCloser DEF PInv
    <2>1. pc \in [Goroutines -> PC \cup PagePC]
      BY DEF PInv, VInv, TypeInv
    <2>2. ASSUME NEW h \in Goroutines, Serve(h) PROVE pc'[g] = pc[g] \/ Closer(g)
      BY <2>2, ServeCloser DEF PInv, OthersNoFurther
    <2>3. ASSUME NEW h \in Goroutines, NEW t \in Targets, Request(h, t) PROVE pc'[g] = pc[g]
      BY <2>1, <2>3 DEF Request, Begin, Goto
    <2>4. ASSUME NEW h \in Goroutines, Calls(h) PROVE pc'[g] = pc[g]
      BY <2>1, <2>4 DEF Calls, Version, ForceRefresh, SetVersion, Begin, Goto
    <2>5. CASE (\E r \in Replicas : SetCSP(r) \/ Seed(r) \/ Expire(r)) \/ PQuiet
      BY <2>5 DEF SetCSP, Seed, SeedCheck, SeedWrite, Expire, PQuiet, Quiet, vvars
    <2>6. QED
      BY <2>2, <2>3, <2>4, <2>5 DEF PNext
  <1>2. QED
    BY <1>1, PageInvariant, PTL DEF PSpec, RequestsAdvance
=============================================================================
