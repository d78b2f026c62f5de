------------------------ MODULE VersionManagerProofs ------------------------
(***************************************************************************)
(* Proofs about VersionManager, for any replicas, goroutines and versions: *)
(* a replica's cache never goes back to an earlier version, and neither    *)
(* does an answer behind what its caller saw.                              *)
(*                                                                         *)
(* Why: one goroutine of a replica reloads at a time (OneLeader), so       *)
(* nobody stores between its query and its store, and what it read is no   *)
(* older than the cache (Ahead); what a caller saw is no newer than the    *)
(* cache (Behind), since the cache never goes back.                        *)
(*                                                                         *)
(* The rest is about SetVersion: a reload that it leads finds its write    *)
(* (LeaderRefreshes); one that it joins may not.                           *)
(***************************************************************************)
EXTENDS VersionManager, SequenceTheorems, TLAPS

PC == {"idle", "cache", "join", "query", "store", "settle", "wait", "got",
       "validate", "persist", "notify"}
\* Further program points, of the page server.
PagePC == {"miss", "share", "fetch", "keep", "deliver", "respond"}

\* The types, and the candidates and defaults that are about to be written.
TypeInv ==
    /\ TypeOK
    /\ pc \in [Goroutines -> PC \cup PagePC]
    /\ \A g \in Goroutines : pc[g] = "persist" => cand[g] \in Versions
    /\ \A r \in Replicas : boot[r] = "seed" => Default \in Versions

\* One goroutine of a replica leads a reload.
OneLeader ==
    \A g, h \in Goroutines :
        ReplicaOf[g] = ReplicaOf[h] /\ pc[g] \in Leading /\ pc[h] \in Leading => g = h

\* What a reload has read is no older than the cache.
Ahead ==
    \A g \in Goroutines :
        /\ pc[g] = "store" => ~failed[g]
        /\ pc[g] \in {"store", "settle"} /\ ~failed[g] => cached[ReplicaOf[g]] <= val[g]

\* What a goroutine saw in the cache is no newer than the cache.
Behind == \A g \in Goroutines : seen[g] <= cached[ReplicaOf[g]]

VInv == TypeInv /\ OneLeader /\ Ahead /\ Behind /\ AnswerForward

\* Steps that touch the manager's state: calls begin, go on and return, processes start,
\* the cache expires.
Managed ==
    \/ \E g \in Goroutines : Calls(g) \/ Resolve(g) \/ Notify(g)
    \/ \E r \in Replicas : Seed(r) \/ Expire(r)

\* The initial states satisfy the invariant.
LEMMA VInit == Init => VInv
  <1> SUFFICES ASSUME Init
               PROVE  VInv
    OBVIOUS
  <1> USE VersionAssumption
  <1>1. Len(<<>>) = 0 /\ <<>> \in Seq(Versions)
    OBVIOUS
  <1>2. TypeOK
    BY <1>1 DEF Init, TypeOK, Op
  <1>3. QED
    BY <1>2 DEF Init, VInv, TypeInv, OneLeader, Ahead, Behind, AnswerForward, PC, Leading

\* A write appends: numbers of earlier writes stay numbers of writes.
LEMMA Written ==
  ASSUME written \in Seq(Versions), NEW v \in Versions, written' = Append(written, v)
  PROVE  /\ written' \in Seq(Versions)
         /\ Len(written) \in Nat
         /\ Len(written') = Len(written) + 1
         /\ \A k \in 0 .. Len(written) : k \in 0 .. Len(written')
  <1>1. Len(written) \in Nat
    OBVIOUS
  <1>2. Len(written') = Len(written) + 1 /\ written' \in Seq(Versions)
    OBVIOUS
  <1>3. QED
    BY <1>1, <1>2

\* The call of g returns.
LEMMA Returns ==
  ASSUME VInv, NEW g \in Goroutines, Return(g), UNCHANGED <<row, cache>>,
         calls' \in 0 .. MaxCalls
  PROVE  VInv'
  <1> USE VersionAssumption
  <1>1. Len(written) \in Nat
    BY DEF VInv, TypeInv, TypeOK
  <1>2. TypeInv'
    BY <1>1 DEF VInv, TypeInv, TypeOK, Return, Goto, row, cache, PC, PagePC, Op
  <1>3. OneLeader'
    BY DEF VInv, TypeInv, OneLeader, Return, Goto, Leading
  <1>4. Ahead'
    BY DEF VInv, TypeInv, TypeOK, Ahead, Return, Goto, cache
  <1>5. Behind'
    <2>1. \A h \in Goroutines : cached[ReplicaOf[h]] \in Nat
      BY <1>1 DEF VInv, TypeInv, TypeOK
    <2>2. \A h \in Goroutines : seen'[h] = IF h = g THEN 0 ELSE seen[h]
      BY DEF VInv, TypeInv, TypeOK, Return
    <2>3. QED
      BY <2>1, <2>2 DEF VInv, Behind, cache
  <1>6. AnswerForward'
    BY DEF VInv, TypeInv, TypeOK, AnswerForward, Return, Goto
  <1>7. QED
    BY <1>2, <1>3, <1>4, <1>5, <1>6 DEF VInv

\* g moves on, outside the reload, and nothing that the invariant is about changes.
LEMMA Moves ==
  ASSUME VInv, NEW g \in Goroutines, NEW l \in PC \cup PagePC, Goto(g, l),
         l \notin {"query", "store", "settle", "got", "persist"},
         UNCHANGED <<written, boot, cached, seen, val, failed, wrote>>,
         fresh' \in [Replicas -> BOOLEAN], calls' \in 0 .. MaxCalls,
         op' \in [Goroutines -> Op], cand' \in [Goroutines -> Versions \cup {Blank}],
         \A h \in Goroutines \ {g} : cand'[h] = cand[h]
  PROVE  VInv'
  <1>1. TypeInv'
    BY DEF VInv, TypeInv, TypeOK, Goto
  <1>2. OneLeader'
    BY DEF VInv, TypeInv, OneLeader, Goto, Leading
  <1>3. Ahead'
    BY DEF VInv, TypeInv, Ahead, Goto
  <1>4. Behind' /\ AnswerForward'
    BY DEF VInv, TypeInv, Behind, AnswerForward, Goto
  <1>5. QED
    BY <1>1, <1>2, <1>3, <1>4 DEF VInv

\* A call begins.
LEMMA BeginStep ==
  ASSUME VInv, NEW g \in Goroutines, NEW o \in Op, NEW l \in {"cache", "validate"},
         Begin(g, o, l), cand' \in [Goroutines -> Versions \cup {Blank}],
         \A h \in Goroutines \ {g} : cand'[h] = cand[h]
  PROVE  VInv'
  <1>1. /\ Goto(g, l)
        /\ UNCHANGED <<written, boot, cached, fresh, seen, val, failed, wrote>>
        /\ calls' = calls + 1 /\ calls < MaxCalls
        /\ op' = [op EXCEPT ![g] = o]
    BY DEF Begin, row, cache
  <1>2. /\ calls' \in 0 .. MaxCalls
        /\ op' \in [Goroutines -> Op]
        /\ fresh' \in [Replicas -> BOOLEAN]
    BY <1>1, VersionAssumption DEF VInv, TypeInv, TypeOK
  <1>3. l \in PC \cup PagePC /\ l \notin {"query", "store", "settle", "got", "persist"}
    BY DEF PC
  <1>4. QED
    BY <1>1, <1>2, <1>3, Moves

\* The cache is read under the lock.
LEMMA ReadCacheStep ==
  ASSUME VInv, NEW g \in Goroutines, ReadCache(g)
  PROVE  VInv'
  <1> USE VersionAssumption
  <1> DEFINE c == cached[ReplicaOf[g]]
  <1>1. /\ Len(written) \in Nat
        /\ c \in 0 .. Len(written)
        /\ \A h \in Goroutines : cached[ReplicaOf[h]] \in 0 .. Len(written)
        /\ seen \in [Goroutines -> 0 .. Len(written)]
        /\ val \in [Goroutines -> 0 .. Len(written)]
        /\ failed \in [Goroutines -> BOOLEAN]
        /\ pc \in [Goroutines -> PC \cup PagePC]
    BY DEF VInv, TypeInv, TypeOK
  <1>2. /\ UNCHANGED <<written, boot, cached, fresh, op, cand, wrote, calls>>
        /\ seen' = [seen EXCEPT ![g] = c]
        /\ pc[g] = "cache"
        /\ \/ /\ val' = [val EXCEPT ![g] = c]
              /\ failed' = [failed EXCEPT ![g] = FALSE]
              /\ pc' = [pc EXCEPT ![g] = "got"]
           \/ /\ pc' = [pc EXCEPT ![g] = "join"]
              /\ UNCHANGED <<val, failed>>
    BY DEF ReadCache, row, cache, Goto
  <1> HIDE DEF c
  <1>3. /\ seen' \in [Goroutines -> 0 .. Len(written)]
        /\ val' \in [Goroutines -> 0 .. Len(written)]
        /\ failed' \in [Goroutines -> BOOLEAN]
        /\ pc' \in [Goroutines -> PC \cup PagePC]
    BY <1>1, <1>2 DEF PC
  <1>4. TypeInv'
    BY <1>1, <1>2, <1>3 DEF VInv, TypeInv, TypeOK
  <1>5. OneLeader'
    BY <1>1, <1>2 DEF VInv, OneLeader, Leading
  <1>6. Ahead'
    BY <1>1, <1>2 DEF VInv, Ahead
  <1>7. Behind'
    <2>1. seen'[g] = c /\ c <= c
      BY <1>1, <1>2
    <2>2. \A h \in Goroutines \ {g} : seen'[h] = seen[h]
      BY <1>1, <1>2
    <2>3. QED
      BY <1>2, <2>1, <2>2 DEF VInv, Behind, c
  <1>8. AnswerForward'
    <2>1. \A h \in Goroutines \ {g} :
             /\ seen'[h] = seen[h] /\ val'[h] = val[h]
             /\ failed'[h] = failed[h] /\ pc'[h] = pc[h]
      BY <1>1, <1>2
    <2>2. pc'[g] = "got" => val'[g] = c /\ seen'[g] = c
      BY <1>1, <1>2
    <2>3. c >= c
      BY <1>1
    <2>4. QED
      BY <2>1, <2>2, <2>3 DEF VInv, AnswerForward
  <1>9. QED
    BY <1>4, <1>5, <1>6, <1>7, <1>8 DEF VInv

\* A goroutine leads the reload, if nobody of its replica does, or waits.
LEMMA JoinStep ==
  ASSUME VInv, NEW g \in Goroutines, Join(g)
  PROVE  VInv'
  <1>1. /\ UNCHANGED <<written, boot, cached, fresh, op, cand, seen,
                       val, failed, wrote, calls>>
        /\ Goto(g, IF Reloading(ReplicaOf[g]) THEN "wait" ELSE "query")
    BY DEF Join, row, cache, local
  <1>2. CASE Reloading(ReplicaOf[g])
    <2>1. Goto(g, "wait")
      BY <1>1, <1>2
    <2>2. QED
      BY <1>1, <2>1, Moves DEF VInv, TypeInv, TypeOK, PC
  <1>3. CASE ~Reloading(ReplicaOf[g])
    <2>1. pc' = [pc EXCEPT ![g] = "query"]
      BY <1>1, <1>3 DEF Goto
    <2>2. TypeInv'
      BY <1>1, <2>1 DEF VInv, TypeInv, TypeOK, PC
    <2>3. OneLeader'
      BY <1>3, <2>1 DEF VInv, TypeInv, OneLeader, Reloading
    <2>4. Ahead' /\ Behind' /\ AnswerForward'
      BY <1>1, <2>1 DEF VInv, TypeInv, Ahead, Behind, AnswerForward
    <2>5. QED
      BY <2>2, <2>3, <2>4 DEF VInv
  <1>4. QED
    BY <1>2, <1>3

\* The leader reads the row, which is no older than anything that was read before.
LEMMA QueryStep ==
  ASSUME VInv, NEW g \in Goroutines, Query(g)
  PROVE  VInv'
  <1> USE VersionAssumption
  <1>1. /\ Len(written) \in Nat
        /\ cached[ReplicaOf[g]] \in 0 .. Len(written)
        /\ seen \in [Goroutines -> 0 .. Len(written)]
        /\ val \in [Goroutines -> 0 .. Len(written)]
        /\ failed \in [Goroutines -> BOOLEAN]
        /\ pc \in [Goroutines -> PC \cup PagePC]
    BY DEF VInv, TypeInv, TypeOK
  <1>2. PICK x \in 0 .. Len(written), f \in BOOLEAN, l \in {"store", "settle"} :
             /\ val' = [val EXCEPT ![g] = x]
             /\ failed' = [failed EXCEPT ![g] = f]
             /\ pc' = [pc EXCEPT ![g] = l]
             /\ ~f => x = Len(written)
             /\ l = "store" => ~f
    <2>1. CASE /\ val' = [val EXCEPT ![g] = Len(written)]
               /\ failed' = [failed EXCEPT ![g] = FALSE]
               /\ Goto(g, "store")
      <3>1. Len(written) \in 0 .. Len(written) /\ FALSE \in BOOLEAN /\ ~FALSE
        BY <1>1
      <3>2. pc' = [pc EXCEPT ![g] = "store"] /\ "store" \in {"store", "settle"}
        BY <2>1 DEF Goto
      <3>3. QED
        BY <2>1, <3>1, <3>2, Zenon
    <2>2. CASE /\ val' = [val EXCEPT ![g] = seen[g]]
               /\ failed' = [failed EXCEPT ![g] = TRUE]
               /\ Goto(g, "settle")
      BY <1>1, <2>2 DEF Goto
    <2>3. QED
      BY <2>1, <2>2 DEF Query
  <1>3. /\ UNCHANGED <<written, boot, cached, fresh, op, cand, seen, wrote, calls>>
        /\ pc[g] = "query"
    BY DEF Query, row, cache
  <1>4. TypeInv'
    BY <1>1, <1>2, <1>3 DEF VInv, TypeInv, TypeOK, PC
  <1>5. OneLeader'
    BY <1>1, <1>2, <1>3 DEF VInv, OneLeader, Leading
  <1>6. Ahead'
    BY <1>1, <1>2, <1>3 DEF VInv, Ahead
  <1>7. Behind' /\ AnswerForward'
    BY <1>1, <1>2, <1>3 DEF VInv, Behind, AnswerForward
  <1>8. QED
    BY <1>4, <1>5, <1>6, <1>7 DEF VInv

\* The leader stores what it read: the cache does not go back.
LEMMA StoreStep ==
  ASSUME VInv, NEW g \in Goroutines, Store(g)
  PROVE  VInv' /\ \A r \in Replicas : cached'[r] >= cached[r]
  <1> USE VersionAssumption
  <1>1. /\ Len(written) \in Nat
        /\ cached \in [Replicas -> 0 .. Len(written)]
        /\ val \in [Goroutines -> 0 .. Len(written)]
        /\ seen \in [Goroutines -> 0 .. Len(written)]
        /\ pc \in [Goroutines -> PC \cup PagePC]
    BY DEF VInv, TypeInv, TypeOK
  <1>2. /\ UNCHANGED <<written, boot, op, cand, seen, val, failed, wrote, calls>>
        /\ cached' = [cached EXCEPT ![ReplicaOf[g]] = val[g]]
        /\ fresh' = [fresh EXCEPT ![ReplicaOf[g]] = TRUE]
        /\ pc' = [pc EXCEPT ![g] = "settle"]
        /\ pc[g] = "store"
    BY DEF Store, row, local, Goto
  <1>3. cached[ReplicaOf[g]] <= val[g]
    BY <1>2 DEF VInv, Ahead
  <1>4. \A r \in Replicas : cached'[r] >= cached[r] /\ cached'[r] \in Nat
    BY <1>1, <1>2, <1>3
  <1>5. TypeInv'
    BY <1>1, <1>2 DEF VInv, TypeInv, TypeOK, PC
  <1>6. OneLeader'
    BY <1>1, <1>2 DEF VInv, OneLeader, Leading
  <1>7. Ahead'
    <2>1. \A h \in Goroutines : cached'[ReplicaOf[h]] =
             IF ReplicaOf[h] = ReplicaOf[g] THEN val[g] ELSE cached[ReplicaOf[h]]
      BY <1>1, <1>2
    <2>2. \A h \in Goroutines \ {g} :
             pc[h] \in {"store", "settle"} => ReplicaOf[h] # ReplicaOf[g]
      BY <1>2 DEF VInv, OneLeader, Leading
    <2>3. val[g] <= val[g]
      BY <1>1
    <2>4. \A h \in Goroutines : pc'[h] = IF h = g THEN "settle" ELSE pc[h]
      BY <1>1, <1>2
    <2>5. ASSUME NEW h \in Goroutines \ {g}
          PROVE  /\ pc'[h] = "store" => ~failed'[h]
                 /\ pc'[h] \in {"store", "settle"} /\ ~failed'[h] =>
                       cached'[ReplicaOf[h]] <= val'[h]
      BY <1>2, <2>1, <2>2, <2>4 DEF VInv, Ahead
    <2>6. cached'[ReplicaOf[g]] <= val'[g]
      BY <1>2, <2>1, <2>3
    <2>7. QED
      BY <2>4, <2>5, <2>6 DEF Ahead
  <1>8. Behind'
    <2>1. \A h \in Goroutines :
             /\ seen[h] \in Nat
             /\ ReplicaOf[h] \in Replicas
             /\ cached[ReplicaOf[h]] \in Nat
             /\ seen[h] <= cached[ReplicaOf[h]]
      BY <1>1 DEF VInv, Behind
    <2>2. QED
      BY <1>2, <1>4, <2>1 DEF Behind
  <1>9. AnswerForward'
    BY <1>1, <1>2 DEF VInv, AnswerForward
  <1>10. QED
    BY <1>4, <1>5, <1>6, <1>7, <1>8, <1>9 DEF VInv

\* Everyone who waited gets a result no older than what they saw.
LEMMA SettleStep ==
  ASSUME VInv, NEW g \in Goroutines, Settle(g)
  PROVE  VInv'
  <1> USE VersionAssumption
  <1>1. /\ Len(written) \in Nat
        /\ cached \in [Replicas -> 0 .. Len(written)]
        /\ val \in [Goroutines -> 0 .. Len(written)]
        /\ seen \in [Goroutines -> 0 .. Len(written)]
        /\ failed \in [Goroutines -> BOOLEAN]
        /\ pc \in [Goroutines -> PC \cup PagePC]
    BY DEF VInv, TypeInv, TypeOK
  <1>2. /\ UNCHANGED <<written, boot, cached, fresh, op, cand, seen, wrote, calls>>
        /\ val' = [h \in Goroutines |-> IF h \in Party(g) THEN val[g] ELSE val[h]]
        /\ failed' = [h \in Goroutines |-> IF h \in Party(g) THEN failed[g] ELSE failed[h]]
        /\ pc' = [h \in Goroutines |-> IF h \in Party(g) THEN After(op[h]) ELSE pc[h]]
        /\ pc[g] = "settle"
    BY DEF Settle, row, cache
  <1>3. \A h : After(op[h]) \in {"got", "notify"}
    BY DEF After
  <1>4. /\ val' \in [Goroutines -> 0 .. Len(written)]
        /\ failed' \in [Goroutines -> BOOLEAN]
        /\ pc' \in [Goroutines -> PC \cup PagePC]
    BY <1>1, <1>2, <1>3 DEF PC
  <1>5. TypeInv'
    BY <1>1, <1>2, <1>3, <1>4 DEF VInv, TypeInv, TypeOK
  <1>6. OneLeader'
    BY <1>1, <1>2, <1>3 DEF VInv, OneLeader, Leading
  <1>7. Ahead'
    BY <1>1, <1>2, <1>3 DEF VInv, Ahead
  <1>8. Behind'
    BY <1>2 DEF VInv, Behind
  <1>9. AnswerForward'
    <2>1. SUFFICES ASSUME NEW h \in Goroutines, pc'[h] = "got", ~failed'[h]
                   PROVE  val'[h] >= seen[h]
      BY <1>2 DEF AnswerForward
    <2>2. CASE h \in Party(g)
      <3>1. ReplicaOf[h] = ReplicaOf[g]
        BY <2>2 DEF Party
      <3>2. cached[ReplicaOf[g]] <= val[g]
        BY <1>2, <2>1, <2>2 DEF VInv, Ahead
      <3>3. seen[h] <= cached[ReplicaOf[g]]
        BY <3>1 DEF VInv, Behind
      <3>4. val'[h] = val[g]
        BY <1>2, <2>2
      <3>5. cached[ReplicaOf[g]] \in Nat /\ val[g] \in Nat /\ seen[h] \in Nat
        BY <1>1
      <3>6. QED
        BY <3>2, <3>3, <3>4, <3>5
    <2>3. CASE h \notin Party(g)
      BY <1>2, <2>1, <2>3 DEF VInv, AnswerForward
    <2>4. QED
      BY <2>2, <2>3
  <1>10. QED
    BY <1>5, <1>6, <1>7, <1>8, <1>9 DEF VInv

\* A write of the row: the numbers that were in use stay in use.
LEMMA WriteStep ==
  ASSUME VInv, NEW v \in Versions, written' = Append(written, v),
         UNCHANGED <<cached, fresh, op, cand, seen, val, failed, calls>>,
         boot' \in [Replicas -> {"new", "seed", "up"}],
         \A r \in Replicas : boot'[r] = "seed" => boot[r] = "seed",
         wrote' \in [Goroutines -> 0 .. Len(written')],
         pc' \in [Goroutines -> PC \cup PagePC],
         \A g \in Goroutines : pc'[g] = pc[g] \/ pc'[g] = "cache"
  PROVE  VInv'
  <1>1. /\ written' \in Seq(Versions)
        /\ \A k \in 0 .. Len(written) : k \in 0 .. Len(written')
    BY Written DEF VInv, TypeInv, TypeOK
  <1>2. /\ cached' \in [Replicas -> 0 .. Len(written')]
        /\ seen' \in [Goroutines -> 0 .. Len(written')]
        /\ val' \in [Goroutines -> 0 .. Len(written')]
    BY <1>1 DEF VInv, TypeInv, TypeOK
  <1>3. TypeInv'
    BY <1>1, <1>2 DEF VInv, TypeInv, TypeOK
  <1>4. OneLeader'
    BY DEF VInv, OneLeader, Leading
  <1>5. Ahead' /\ Behind' /\ AnswerForward'
    BY DEF VInv, Ahead, Behind, AnswerForward
  <1>6. QED
    BY <1>3, <1>4, <1>5 DEF VInv

\* The candidate is validated, and refused or kept.
LEMMA ValidateStep ==
  ASSUME VInv, NEW g \in Goroutines, Validate(g)
  PROVE  VInv'
  <1> USE VersionAssumption
  <1>1. UNCHANGED <<row, cache, calls>>
    BY DEF Validate
  <1>2. CASE Return(g)
    BY <1>1, <1>2, Returns DEF VInv, TypeInv, TypeOK
  <1>3. CASE cand[g] \in Published /\ Goto(g, "persist") /\ UNCHANGED local
    <2>1. TypeInv'
      BY <1>1, <1>3 DEF VInv, TypeInv, TypeOK, Goto, row, cache, local, PC
    <2>2. OneLeader'
      BY <1>3 DEF VInv, TypeInv, OneLeader, Goto, Leading
    <2>3. Ahead' /\ Behind' /\ AnswerForward'
      BY <1>1, <1>3 DEF VInv, TypeInv, Ahead, Behind, AnswerForward, Goto, cache, local
    <2>4. QED
      BY <2>1, <2>2, <2>3 DEF VInv
  <1>4. QED
    BY <1>2, <1>3 DEF Validate

\* The candidate is written, or the write fails.
LEMMA PersistStep ==
  ASSUME VInv, NEW g \in Goroutines, Persist(g)
  PROVE  VInv'
  <1>1. pc[g] = "persist" /\ UNCHANGED <<boot, cached, fresh, calls>>
    BY DEF Persist, cache
  <1>2. CASE Return(g) /\ UNCHANGED written
    BY <1>1, <1>2, Returns DEF VInv, TypeInv, TypeOK, row, cache
  <1>3. CASE /\ written' = Append(written, cand[g])
             /\ wrote' = [wrote EXCEPT ![g] = Len(written')]
             /\ Goto(g, "cache")
             /\ UNCHANGED <<op, cand, seen, val, failed>>
    <2>1. PICK v \in Versions : v = cand[g]
      BY <1>1 DEF VInv, TypeInv
    <2>2. written' = Append(written, v)
      BY <1>3, <2>1
    <2>3. /\ Len(written') \in 0 .. Len(written')
          /\ \A k \in 0 .. Len(written) : k \in 0 .. Len(written')
      BY <2>2, Written DEF VInv, TypeInv, TypeOK
    <2>4. wrote' \in [Goroutines -> 0 .. Len(written')]
      BY <1>3, <2>3 DEF VInv, TypeInv, TypeOK
    <2>5. /\ pc' \in [Goroutines -> PC \cup PagePC]
          /\ \A h \in Goroutines : pc'[h] = pc[h] \/ pc'[h] = "cache"
      BY <1>3 DEF VInv, TypeInv, Goto, PC
    <2>6. /\ boot' \in [Replicas -> {"new", "seed", "up"}]
          /\ \A r \in Replicas : boot'[r] = "seed" => boot[r] = "seed"
      BY <1>1 DEF VInv, TypeInv, TypeOK
    <2>7. QED
      BY <1>1, <1>3, <2>2, <2>4, <2>5, <2>6, WriteStep
  <1>4. QED
    BY <1>2, <1>3 DEF Persist

\* A process starts: it reads the row and perhaps writes the default.
LEMMA SeedStep ==
  ASSUME VInv, NEW r \in Replicas, Seed(r)
  PROVE  VInv'
  <1> USE VersionAssumption
  <1>1. UNCHANGED <<cached, fresh, pc, op, cand, seen, val, failed, wrote, calls>>
    BY DEF Seed, SeedCheck, SeedWrite, cache, local
  <1>2. ASSUME UNCHANGED written, boot' \in [Replicas -> {"new", "seed", "up"}],
               \A q \in Replicas : boot'[q] = "seed" => Default \in Versions
        PROVE  VInv'
    <2>1. TypeInv'
      BY <1>1, <1>2 DEF VInv, TypeInv, TypeOK
    <2>2. OneLeader' /\ Ahead' /\ Behind' /\ AnswerForward'
      BY <1>1 DEF VInv, OneLeader, Leading, Ahead, Behind, AnswerForward
    <2>3. QED
      BY <2>1, <2>2 DEF VInv
  <1>3. CASE SeedCheck(r)
    <2>1. PICK l \in {"seed", "up"} :
             boot' = [boot EXCEPT ![r] = l] /\ (l = "seed" => Default \in Versions)
      BY <1>3 DEF SeedCheck
    <2>2. /\ boot' \in [Replicas -> {"new", "seed", "up"}]
          /\ \A q \in Replicas : boot'[q] = "seed" => Default \in Versions
      BY <2>1 DEF VInv, TypeInv, TypeOK
    <2>3. QED
      BY <1>2, <1>3, <2>2 DEF SeedCheck
  <1>4. CASE SeedWrite(r)
    <2>1. /\ boot' = [boot EXCEPT ![r] = "up"]
          /\ boot \in [Replicas -> {"new", "seed", "up"}]
          /\ \A q \in Replicas : boot[q] = "seed" => Default \in Versions
          /\ Default \in Versions
      BY <1>4 DEF SeedWrite, VInv, TypeInv, TypeOK
    <2>2. /\ boot' \in [Replicas -> {"new", "seed", "up"}]
          /\ \A q \in Replicas : boot'[q] = "seed" => boot[q] = "seed"
      BY <2>1
    <2>3. CASE UNCHANGED written
      BY <1>2, <2>1, <2>2, <2>3
    <2>4. CASE written' = Append(written, Default)
      <3>1. /\ wrote' \in [Goroutines -> 0 .. Len(written')]
            /\ pc' \in [Goroutines -> PC \cup PagePC]
        BY <1>1, <2>1, <2>4, Written DEF VInv, TypeInv, TypeOK
      <3>2. \A g \in Goroutines : pc'[g] = pc[g]
        BY <1>1
      <3>3. QED
        BY <1>1, <2>1, <2>2, <2>4, <3>1, <3>2, WriteStep
    <2>5. QED
      BY <1>4, <2>3, <2>4 DEF SeedWrite
  <1>5. QED
    BY <1>3, <1>4 DEF Seed

\* Only a store writes the cache.
LEMMA CacheKept ==
  ASSUME VInv, UNCHANGED cached
  PROVE  \A r \in Replicas : cached'[r] >= cached[r]
  BY DEF VInv, TypeInv, TypeOK

\* Every step of the manager preserves the invariant and never takes a cache back.
LEMMA ManagedStep ==
  ASSUME VInv, Managed
  PROVE  VInv' /\ \A r \in Replicas : cached'[r] >= cached[r]
  <1> USE VersionAssumption
  <1>1. ASSUME NEW g \in Goroutines, Calls(g)
        PROVE  VInv' /\ UNCHANGED cached
    <2>1. UNCHANGED cached
      BY <1>1 DEF Calls, Version, ForceRefresh, SetVersion, Begin, cache
    <2>2. ASSUME NEW o \in Op, Begin(g, o, "cache"), UNCHANGED cand
          PROVE  VInv'
      <3>1. /\ cand' \in [Goroutines -> Versions \cup {Blank}]
            /\ \A h \in Goroutines \ {g} : cand'[h] = cand[h]
        BY <2>2 DEF VInv, TypeInv, TypeOK
      <3>2. QED
        BY <2>2, <3>1, BeginStep
    <2>3. Version(g) \/ ForceRefresh(g) => VInv'
      BY <2>2 DEF Version, ForceRefresh, Op
    <2>4. ASSUME NEW v \in Versions \cup {Blank}, SetVersion(g, v)
          PROVE  VInv'
      <3>1. /\ cand' \in [Goroutines -> Versions \cup {Blank}]
            /\ \A h \in Goroutines \ {g} : cand'[h] = cand[h]
        BY <2>4 DEF SetVersion, VInv, TypeInv, TypeOK
      <3>2. QED
        BY <2>4, <3>1, BeginStep DEF SetVersion, Op
    <2>5. QED
      BY <1>1, <2>1, <2>2, <2>3, <2>4 DEF Calls
  <1>2. ASSUME NEW g \in Goroutines, Answer(g) \/ Notify(g)
        PROVE  VInv' /\ UNCHANGED cached
    <2>1. Return(g) /\ UNCHANGED <<row, cache, calls>>
      BY <1>2 DEF Answer, Notify
    <2>2. QED
      BY <2>1, Returns DEF VInv, TypeInv, TypeOK, cache
  <1>3. ASSUME NEW g \in Goroutines, Resolve(g), ~Store(g), ~Answer(g)
        PROVE  VInv' /\ UNCHANGED cached
    <2>1. UNCHANGED cached
      BY <1>3 DEF Resolve, ReadCache, Join, Query, Settle, Validate, Persist, cache
    <2>2. QED
      BY <1>3, <2>1, ReadCacheStep, JoinStep, QueryStep, SettleStep, ValidateStep,
         PersistStep DEF Resolve
  <1>4. ASSUME NEW r \in Replicas, Seed(r)
        PROVE  VInv' /\ UNCHANGED cached
    BY <1>4, SeedStep DEF Seed, SeedCheck, SeedWrite, cache
  <1>5. ASSUME NEW r \in Replicas, Expire(r)
        PROVE  VInv' /\ UNCHANGED cached
    <2>1. /\ UNCHANGED <<written, boot, cached, pc, op, cand, seen,
                         val, failed, wrote, calls>>
          /\ fresh' = [fresh EXCEPT ![r] = FALSE]
      BY <1>5 DEF Expire, row, local
    <2>2. TypeInv'
      BY <2>1 DEF VInv, TypeInv, TypeOK
    <2>3. OneLeader' /\ Ahead' /\ Behind' /\ AnswerForward'
      BY <2>1 DEF VInv, OneLeader, Leading, Ahead, Behind, AnswerForward
    <2>4. QED
      BY <2>1, <2>2, <2>3 DEF VInv
  <1>6. QED
    BY <1>1, <1>2, <1>3, <1>4, <1>5, StoreStep, CacheKept DEF Managed

\* Every step of the specification keeps the invariant.
LEMMA NextStep ==
  VInv /\ [Next]_vvars => VInv' /\ \A r \in Replicas : cached'[r] >= cached[r]
  <1> SUFFICES ASSUME VInv, [Next]_vvars
               PROVE  VInv' /\ \A r \in Replicas : cached'[r] >= cached[r]
    OBVIOUS
  <1>1. CASE Managed
    BY <1>1, ManagedStep
  <1>2. CASE UNCHANGED vvars
    <2>1. UNCHANGED <<written, boot, cached, fresh, pc, op, cand, seen,
                      val, failed, wrote, calls>>
      BY <1>2 DEF vvars, row, cache, local
    <2>2. TypeInv'
      BY <2>1 DEF VInv, TypeInv, TypeOK
    <2>3. OneLeader' /\ Ahead' /\ Behind' /\ AnswerForward'
      BY <2>1 DEF VInv, OneLeader, Leading, Ahead, Behind, AnswerForward
    <2>4. QED
      BY <2>1, <2>2, <2>3, CacheKept DEF VInv
  <1>3. QED
    BY <1>1, <1>2 DEF Next, Managed, Quiet

\* The invariant holds in every state of the manager.
LEMMA ManagerInvariant == Spec => []VInv
  BY VInit, NextStep, PTL DEF Spec

\* dbProvider.cached never goes back to a version that was set earlier: reload runs in
\* one goroutine of a replica at a time.
THEOREM CacheForwardHolds == Spec => CacheForward
  <1>1. VInv /\ [Next]_vvars => [\A r \in Replicas : cached'[r] >= cached[r]]_vvars
    BY NextStep
  <1>2. QED
    BY <1>1, ManagerInvariant, PTL DEF Spec, CacheForward

\* A call of version gets a version no older than the one it saw in the cache, unless
\* the database failed the reload.
THEOREM AnswerForwardHolds == Spec => []AnswerForward
  <1>1. VInv => AnswerForward
    BY DEF VInv
  <1>2. QED
    BY <1>1, ManagerInvariant, PTL

(***************************************************************************)
(* What SetVersion can rely on: a reload that it leads itself.             *)
(***************************************************************************)
\* A SetVersion that leads its reload has read its own write or a later one, and then the
\* cache has it.
LeaderRefreshes ==
    \A g \in Goroutines :
        op[g] = "set" /\ ~failed[g] =>
            /\ pc[g] = "store" => wrote[g] <= val[g]
            /\ pc[g] = "settle" => wrote[g] <= cached[ReplicaOf[g]]

\* A goroutine is at the store or the end of a reload because it has just read the row or
\* stored, or it has not moved.
LEMMA AtStore ==
  ASSUME VInv, [Next]_vvars, NEW g \in Goroutines, pc'[g] \in {"store", "settle"}
  PROVE  \/ Query(g)
         \/ Store(g)
         \/ /\ pc'[g] = pc[g] /\ op'[g] = op[g] /\ wrote'[g] = wrote[g]
            /\ val'[g] = val[g] /\ failed'[g] = failed[g]
  <1> DEFINE Same == /\ pc'[g] = pc[g] /\ op'[g] = op[g] /\ wrote'[g] = wrote[g]
                     /\ val'[g] = val[g] /\ failed'[g] = failed[g]
  <1>1. /\ pc \in [Goroutines -> PC \cup PagePC]
        /\ op \in [Goroutines -> Op]
        /\ DOMAIN wrote = Goroutines /\ DOMAIN val = Goroutines /\ DOMAIN failed = Goroutines
    BY DEF VInv, TypeInv, TypeOK
  <1>2. ASSUME NEW h \in Goroutines, Calls(h)
        PROVE  Same
    <2>1. PICK l \in {"cache", "validate"}, o \in Op :
             /\ pc' = [pc EXCEPT ![h] = l] /\ op' = [op EXCEPT ![h] = o]
             /\ UNCHANGED <<val, failed, wrote>>
      BY <1>2 DEF Calls, Version, ForceRefresh, SetVersion, Begin, Goto, Op
    <2>2. QED
      BY <1>1, <2>1
  <1>3. ASSUME NEW h \in Goroutines, Return(h)
        PROVE  Same
    BY <1>1, <1>3 DEF Return, Goto
  <1>4. ASSUME NEW h \in Goroutines, ReadCache(h)
        PROVE  Same
    <2>1. \E l \in {"got", "join"} : \E x, f :
             /\ pc' = [pc EXCEPT ![h] = l]
             /\ val' = [val EXCEPT ![h] = x] \/ UNCHANGED val
             /\ failed' = [failed EXCEPT ![h] = f] \/ UNCHANGED failed
             /\ UNCHANGED <<op, wrote>>
      BY <1>4 DEF ReadCache, Goto
    <2>2. QED
      BY <1>1, <2>1
  <1>5. ASSUME NEW h \in Goroutines, Join(h)
        PROVE  Same
    BY <1>1, <1>5 DEF Join, Goto, local
  <1>6. ASSUME NEW h \in Goroutines, h # g, Query(h) \/ Store(h)
        PROVE  Same
    BY <1>1, <1>6 DEF Query, Store, Goto, local
  <1>7. ASSUME NEW h \in Goroutines, Settle(h)
        PROVE  Same
    BY <1>1, <1>7 DEF Settle, After
  <1>8. ASSUME NEW h \in Goroutines, Validate(h), ~Return(h)
        PROVE  Same
    BY <1>1, <1>8 DEF Validate, Goto, local
  <1>9. ASSUME NEW h \in Goroutines, Persist(h), ~Return(h)
        PROVE  Same
    BY <1>1, <1>9 DEF Persist, Goto
  <1>10. ASSUME NEW r \in Replicas, Seed(r) \/ Expire(r)
         PROVE  Same
    BY <1>10 DEF Seed, SeedCheck, SeedWrite, Expire, local
  <1>11. CASE UNCHANGED vvars
    BY <1>11 DEF vvars, local
  <1>12. QED
    BY <1>2, <1>3, <1>4, <1>5, <1>6, <1>7, <1>8, <1>9, <1>10, <1>11
       DEF Next, Resolve, Answer, Notify, Quiet

LEMMA LeaderRefreshesStep ==
  ASSUME VInv, LeaderRefreshes, [Next]_vvars
  PROVE  LeaderRefreshes'
  <1> USE VersionAssumption
  <1>1. SUFFICES ASSUME NEW g \in Goroutines, op'[g] = "set", ~failed'[g],
                        pc'[g] \in {"store", "settle"}
                 PROVE  /\ pc'[g] = "store" => wrote'[g] <= val'[g]
                        /\ pc'[g] = "settle" => wrote'[g] <= cached'[ReplicaOf[g]]
    BY DEF LeaderRefreshes
  <1>2. /\ Len(written) \in Nat
        /\ cached \in [Replicas -> 0 .. Len(written)]
        /\ val \in [Goroutines -> 0 .. Len(written)]
        /\ wrote \in [Goroutines -> 0 .. Len(written)]
        /\ failed \in [Goroutines -> BOOLEAN]
        /\ pc \in [Goroutines -> PC \cup PagePC]
    BY DEF VInv, TypeInv, TypeOK
  <1>3. CASE Query(g)
    <2>1. /\ UNCHANGED wrote
          /\ \/ pc' = [pc EXCEPT ![g] = "store"] /\ val' = [val EXCEPT ![g] = Len(written)]
             \/ failed' = [failed EXCEPT ![g] = TRUE]
      BY <1>3 DEF Query, Goto
    <2>2. QED
      BY <1>1, <1>2, <2>1
  <1>4. CASE Store(g)
    <2>1. /\ UNCHANGED <<wrote, op, val, failed>>
          /\ pc[g] = "store" /\ pc' = [pc EXCEPT ![g] = "settle"]
          /\ cached' = [cached EXCEPT ![ReplicaOf[g]] = val[g]]
      BY <1>4 DEF Store, Goto, local
    <2>2. wrote[g] <= val[g]
      BY <1>1, <2>1 DEF LeaderRefreshes
    <2>3. QED
      BY <1>2, <2>1, <2>2
  <1>5. CASE /\ pc'[g] = pc[g] /\ op'[g] = op[g] /\ wrote'[g] = wrote[g]
             /\ val'[g] = val[g] /\ failed'[g] = failed[g]
    <2>1. cached'[ReplicaOf[g]] >= cached[ReplicaOf[g]]
      BY NextStep
    <2>2. cached'[ReplicaOf[g]] \in Nat
      <3>1. VInv'
        BY NextStep
      <3>2. QED
        BY <3>1 DEF VInv, TypeInv, TypeOK
    <2>3. QED
      BY <1>1, <1>2, <1>5, <2>1, <2>2 DEF LeaderRefreshes
  <1>6. QED
    BY <1>1, <1>3, <1>4, <1>5, AtStore

\* SetVersion leaves a stale cache only if it joined the reload of another call or the
\* database failed the reload: in any other case the listeners find its version, or a
\* later one.
THEOREM LeaderRefreshesHolds == Spec => []LeaderRefreshes
  <1>1. Init => LeaderRefreshes
    BY DEF Init, LeaderRefreshes
  <1>2. VInv /\ LeaderRefreshes /\ [Next]_vvars => LeaderRefreshes'
    BY LeaderRefreshesStep
  <1>3. QED
    BY <1>1, <1>2, ManagerInvariant, PTL DEF Spec

(***************************************************************************)
(* Who waits in singleflight.Do is led: it gets the result of a reload     *)
(* that is in flight in its replica.                                       *)
(***************************************************************************)
\* Whoever waits for a reload waits for one that is in flight.
ReloadersLed == \A h \in Goroutines : pc[h] = "wait" => Reloading(ReplicaOf[h])

\* A step after which nobody else waits and the reloads in flight are still so.
LEMMA LedKept ==
  ASSUME ReloadersLed,
         \A g \in Goroutines : pc'[g] = "wait" => pc[g] = "wait",
         \A g \in Goroutines : pc[g] \in Leading => pc'[g] \in Leading
  PROVE  ReloadersLed'
  BY DEF ReloadersLed, Reloading

\* The leader of a reload leaves with everyone who waits for it, and nobody comes to wait
\* where no reload is in flight.
LEMMA LedStep ==
  ASSUME VInv, ReloadersLed, Managed
  PROVE  ReloadersLed'
  <1>1. pc \in [Goroutines -> PC \cup PagePC]
    BY DEF VInv, TypeInv
  <1>2. ASSUME NEW g \in Goroutines, NEW l, pc' = [pc EXCEPT ![g] = l], l # "wait",
               pc[g] \in Leading => l \in Leading
        PROVE  ReloadersLed'
    BY <1>1, <1>2, LedKept
  <1>3. ASSUME NEW g \in Goroutines, Calls(g) \/ Resolve(g) \/ Notify(g), ~Join(g), ~Settle(g)
        PROVE  ReloadersLed'
    <2>1. \E l : /\ pc' = [pc EXCEPT ![g] = l] /\ l # "wait"
                 /\ pc[g] \in Leading => l \in Leading
      BY <1>3 DEF Calls, Version, ForceRefresh, SetVersion, Begin, Resolve, ReadCache,
                  Query, Store, Validate, Persist, Answer, Notify, Return, Goto, Leading
    <2>2. QED
      BY <1>2, <2>1
  <1>4. ASSUME NEW g \in Goroutines, Join(g)
        PROVE  ReloadersLed'
    <2>1. CASE Reloading(ReplicaOf[g])
      <3>1. pc[g] = "join" /\ pc' = [pc EXCEPT ![g] = "wait"]
        BY <1>4, <2>1 DEF Join, Goto
      <3>2. \A k \in Goroutines : pc[k] \in Leading => pc'[k] = pc[k]
        BY <1>1, <3>1 DEF Leading
      <3>3. \A h \in Goroutines : Reloading(ReplicaOf[h]) => Reloading(ReplicaOf[h])'
        BY <3>2 DEF Reloading
      <3>4. \A h \in Goroutines : pc'[h] = "wait" => h = g \/ pc[h] = "wait"
        BY <1>1, <3>1
      <3>5. QED
        BY <2>1, <3>3, <3>4 DEF ReloadersLed
    <2>2. CASE ~Reloading(ReplicaOf[g])
      <3>1. pc[g] = "join" /\ pc' = [pc EXCEPT ![g] = "query"]
        BY <1>4, <2>2 DEF Join, Goto
      <3>2. QED
        BY <1>2, <3>1 DEF Leading
    <2>3. QED
      BY <2>1, <2>2
  <1>5. ASSUME NEW g \in Goroutines, Settle(g)
        PROVE  ReloadersLed'
    <2>1. /\ pc' = [h \in Goroutines |-> IF h \in Party(g) THEN After(op[h]) ELSE pc[h]]
          /\ \A h : After(op[h]) # "wait"
      BY <1>5 DEF Settle, After
    <2>2. SUFFICES ASSUME NEW h \in Goroutines, pc'[h] = "wait"
                   PROVE  \E k \in Goroutines : ReplicaOf[k] = ReplicaOf[h] /\ pc'[k] \in Leading
      BY DEF ReloadersLed, Reloading
    <2>3. h \notin Party(g) /\ pc[h] = "wait"
      BY <2>1, <2>2
    <2>4. ReplicaOf[h] # ReplicaOf[g]
      BY <2>3 DEF Party
    <2>5. PICK k \in Goroutines : ReplicaOf[k] = ReplicaOf[h] /\ pc[k] \in Leading
      BY <2>3 DEF ReloadersLed, Reloading
    <2>6. k \notin Party(g)
      BY <2>4, <2>5 DEF Party
    <2>7. QED
      BY <2>1, <2>5, <2>6
  <1>6. ASSUME NEW r \in Replicas, Seed(r) \/ Expire(r)
        PROVE  ReloadersLed'
    <2>1. UNCHANGED pc
      BY <1>6 DEF Seed, SeedCheck, SeedWrite, Expire
    <2>2. QED
      BY <2>1, LedKept
  <1>7. QED
    BY <1>3, <1>4, <1>5, <1>6 DEF Managed
=============================================================================
