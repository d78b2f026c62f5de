--------------------------- MODULE MigrationProofs ---------------------------
(***************************************************************************)
(* Proofs about Migration, for every number of replicas, goroutines,       *)
(* sessions and versions: the advisory lock, taken and given back on       *)
(* whatever session a pool hands out, keeps replicas apart.                *)
(*                                                                         *)
(* The inductive invariant has three parts.  Own: a goroutine executes its *)
(* statements on sessions of its own replica.  OneHolder: at most one      *)
(* session holds the lock, which is what PostgreSQL promises.  LockCovers: *)
(* that session holds it at least once for each goroutine inside, since a  *)
(* goroutine that leaves takes away at most one.                           *)
(*                                                                         *)
(* The second part is about the revisions table: what is pending, recorded *)
(* and executed at each statement of a migration (RecordInv), in whatever  *)
(* schemas: versions come in order (InOrder).  What a schema has is known  *)
(* when the migration schema is the default one, which every session finds *)
(* alike: a call that succeeds leaves it current and, with one goroutine   *)
(* per replica, it is settled who may execute a version again (OnceInv),   *)
(* and each step is a step of SchemaHistory, or none of it.                *)
(*                                                                         *)
(* The last part: calls do not loop (CallsAdvance), and a session has one  *)
(* user at a time (OneUser).                                               *)
(***************************************************************************)
EXTENDS MigrationRefinement, FiniteSetTheorems, WellFoundedInduction, TLAPS

\* Sessions stay with the replica whose pool opened them.
Own ==
    /\ idle \in [Replicas -> Seq(Session)]
    /\ \A r \in Replicas : idle[r] \in Seq(SessionOf(r))
    /\ app \in [Replicas -> Conn]
    /\ \A r \in Replicas : app[r] # NoConn => app[r] \in SessionOf(r)
    /\ conn \in [Migrators -> Conn]
    /\ \A m \in Migrators : conn[m] # NoConn => conn[m] \in SessionOf(ReplicaOf[m])

\* What the proof needs of the types.
LockTypes ==
    /\ held \in [Session -> Nat]
    /\ pc \in [Migrators -> {"idle"} \cup Stmts]

\* At most one session holds the advisory lock.
OneHolder == \A s, u \in Session : held[s] > 0 /\ held[u] > 0 => s = u

LockInv == LockTypes /\ OneHolder /\ LockCovers

\* A pool without idle sessions, and a goroutine without a session, own nothing foreign.
LEMMA OwnInit == Init => Own
  BY MigrationAssumption DEF Init, Own, Conn, Session, SessionOf

\* Giving a session of r back to the pool of r keeps every session with its owner.
LEMMA GiveKeeps ==
  ASSUME Own, NEW r \in Replicas, NEW s \in SessionOf(r), GiveSession(r, s)
  PROVE  /\ idle' \in [Replicas -> Seq(Session)]
         /\ \A q \in Replicas : idle'[q] \in Seq(SessionOf(q))
  <1>1. SessionOf(r) \subseteq Session
    BY DEF SessionOf
  <1>2. /\ idle[r] \in Seq(SessionOf(r))
        /\ idle[r] \in Seq(Session)
    BY DEF Own
  <1>3. <<s>> \o idle[r] \in Seq(SessionOf(r))
    BY <1>2
  <1>4. <<s>> \o idle[r] \in Seq(Session)
    BY <1>1, <1>2
  <1>5. QED
    BY <1>3, <1>4 DEF Own, GiveSession

\* Taking a session out of the pool of r keeps every session with its owner, and what
\* is taken is r's.
LEMMA TakeKeeps ==
  ASSUME Own, NEW r \in Replicas, NEW s \in SessionOf(r), TakeSession(r, s)
  PROVE  /\ idle' \in [Replicas -> Seq(Session)]
         /\ \A q \in Replicas : idle'[q] \in Seq(SessionOf(q))
  <1>1. CASE UNCHANGED idle
    BY <1>1 DEF Own
  <1>2. CASE idle[r] # <<>> /\ idle' = [idle EXCEPT ![r] = Tail(@)]
    <2>1. /\ idle[r] \in Seq(SessionOf(r))
          /\ idle[r] \in Seq(Session)
      BY DEF Own
    <2>2. /\ Tail(idle[r]) \in Seq(SessionOf(r))
          /\ Tail(idle[r]) \in Seq(Session)
      BY <1>2, <2>1
    <2>3. QED
      BY <1>2, <2>2 DEF Own
  <1>3. QED
    BY <1>1, <1>2 DEF TakeSession

\* A statement runs on a session of the goroutine's replica and keeps owners.
LEMMA StatementKeeps ==
  ASSUME Own, NEW m \in Migrators, NEW l, Statement(m, l)
  PROVE  conn[m] \in SessionOf(ReplicaOf[m]) /\ Own'
  <1>1. conn[m] \in SessionOf(ReplicaOf[m])
    BY DEF Own, Statement
  <1>2. ReplicaOf[m] \in Replicas
    BY MigrationAssumption
  <1>3. /\ idle' \in [Replicas -> Seq(Session)]
        /\ \A q \in Replicas : idle'[q] \in Seq(SessionOf(q))
    BY <1>1, <1>2, GiveKeeps DEF Statement
  <1>4. /\ conn' \in [Migrators -> Conn]
        /\ \A n \in Migrators :
             conn'[n] # NoConn => conn'[n] \in SessionOf(ReplicaOf[n])
    BY DEF Own, Statement, Conn
  <1>5. /\ app' \in [Replicas -> Conn]
        /\ \A r \in Replicas : app'[r] # NoConn => app'[r] \in SessionOf(r)
    BY DEF Own, Statement
  <1>6. QED
    BY <1>1, <1>3, <1>4, <1>5 DEF Own

\* Every step keeps sessions with their replica.
LEMMA OwnStep == Own /\ [Next]_vars => Own'
  <1> SUFFICES ASSUME Own, [Next]_vars
               PROVE  Own'
    OBVIOUS
  <1>1. ASSUME NEW m \in Migrators, Call(m)
        PROVE  Own'
    BY <1>1 DEF Call, pool, Own
  <1>2. ASSUME NEW m \in Migrators, Acquire(m)
        PROVE  Own'
    <2>1. PICK s \in SessionOf(ReplicaOf[m]) :
             TakeSession(ReplicaOf[m], s) /\ conn' = [conn EXCEPT ![m] = s]
      BY <1>2 DEF Acquire
    <2>2. ReplicaOf[m] \in Replicas
      BY MigrationAssumption
    <2>3. /\ idle' \in [Replicas -> Seq(Session)]
          /\ \A q \in Replicas : idle'[q] \in Seq(SessionOf(q))
      BY <2>1, <2>2, TakeKeeps
    <2>4. s \in Conn
      BY DEF SessionOf, Conn
    <2>5. /\ conn' \in [Migrators -> Conn]
          /\ \A n \in Migrators :
               conn'[n] # NoConn => conn'[n] \in SessionOf(ReplicaOf[n])
      BY <2>1, <2>4 DEF Own
    <2>6. UNCHANGED app
      BY <1>2 DEF Acquire
    <2>7. QED
      BY <2>3, <2>5, <2>6 DEF Own
  <1>3. ASSUME NEW m \in Migrators, Step(m), ~Acquire(m)
        PROVE  Own'
    <2>1. \E l \in Stmts : Statement(m, l)
      BY <1>3 DEF Step, SetPath, TryLock, InitTable, Pending, Baseline, Exec, Record,
                  Unlock, UnlockFails, FailsOutside, FailsInside, Stmts, Locked, Work
    <2>2. QED
      BY <2>1, StatementKeeps
  <1>4. ASSUME NEW r \in Replicas, AppTake(r)
        PROVE  Own'
    <2>1. PICK s \in SessionOf(r) :
             TakeSession(r, s) /\ app' = [app EXCEPT ![r] = s]
      BY <1>4 DEF AppTake
    <2>2. /\ idle' \in [Replicas -> Seq(Session)]
          /\ \A q \in Replicas : idle'[q] \in Seq(SessionOf(q))
      BY <2>1, TakeKeeps
    <2>3. s \in Conn
      BY DEF SessionOf, Conn
    <2>4. /\ app' \in [Replicas -> Conn]
          /\ \A q \in Replicas : app'[q] # NoConn => app'[q] \in SessionOf(q)
      BY <2>1, <2>3 DEF Own
    <2>5. UNCHANGED conn
      BY <1>4 DEF AppTake
    <2>6. QED
      BY <2>2, <2>4, <2>5 DEF Own
  <1>5. ASSUME NEW r \in Replicas, AppGive(r)
        PROVE  Own'
    <2>1. app[r] \in SessionOf(r)
      BY <1>5 DEF AppGive, Own
    <2>2. /\ idle' \in [Replicas -> Seq(Session)]
          /\ \A q \in Replicas : idle'[q] \in Seq(SessionOf(q))
      BY <1>5, <2>1, GiveKeeps DEF AppGive
    <2>3. /\ app' \in [Replicas -> Conn]
          /\ \A q \in Replicas : app'[q] # NoConn => app'[q] \in SessionOf(q)
      BY <1>5 DEF AppGive, Own, Conn
    <2>4. UNCHANGED conn
      BY <1>5 DEF AppGive
    <2>5. QED
      BY <2>2, <2>3, <2>4 DEF Own
  <1>6. ASSUME NEW r \in Replicas, Crash(r)
        PROVE  Own'
    <2>1. idle' = [idle EXCEPT ![r] = <<>>] /\ app' = [app EXCEPT ![r] = NoConn]
      BY <1>6 DEF Crash
    <2>2. conn' = [m \in Migrators |-> IF m \in Of(r) THEN NoConn ELSE conn[m]]
      BY <1>6 DEF Crash, Fresh
    <2>3. /\ idle' \in [Replicas -> Seq(Session)]
          /\ \A q \in Replicas : idle'[q] \in Seq(SessionOf(q))
      BY <2>1 DEF Own
    <2>4. /\ app' \in [Replicas -> Conn]
          /\ \A q \in Replicas : app'[q] # NoConn => app'[q] \in SessionOf(q)
      BY <2>1 DEF Own, Conn
    <2>5. /\ conn' \in [Migrators -> Conn]
          /\ \A m \in Migrators :
               conn'[m] # NoConn => conn'[m] \in SessionOf(ReplicaOf[m])
      BY <2>2 DEF Own, Conn
    <2>6. QED
      BY <2>3, <2>4, <2>5 DEF Own
  <1>7. CASE UNCHANGED vars
    BY <1>7 DEF vars, pool, Own
  <1>8. QED
    BY <1>1, <1>2, <1>3, <1>4, <1>5, <1>6, <1>7 DEF Next, Quiet

(***************************************************************************)
(* The lock.  Inside changes by one goroutine at a time, or, when its      *)
(* replica crashes, becomes empty.                                         *)
(***************************************************************************)

\* There are finitely many goroutines inside.
LEMMA InsideFinite ==
  /\ IsFiniteSet(Inside)
  /\ Cardinality(Inside) \in Nat
  <1>1. Inside \subseteq Migrators
    BY DEF Inside
  <1>2. QED
    BY <1>1, MigrationAssumption, FS_Subset, FS_CardinalityType

\* Inside is empty at first.
LEMMA LockInit == Init => LockInv
  <1> SUFFICES ASSUME Init
               PROVE  LockInv
    OBVIOUS
  <1>1. Inside = {}
    BY DEF Init, Inside, Locked, Work
  <1>2. LockTypes
    BY DEF Init, LockTypes
  <1>3. OneHolder
    BY DEF Init, OneHolder
  <1>4. QED
    BY <1>1, <1>2, <1>3 DEF LockInv, LockCovers

\* A step that leaves the lock alone and moves nobody in or out preserves the invariant.
LEMMA LockSame ==
  ASSUME LockInv, UNCHANGED held, Inside' = Inside,
         pc' \in [Migrators -> {"idle"} \cup Stmts]
  PROVE  LockInv'
  <1>1. LockTypes'
    BY DEF LockInv, LockTypes
  <1>2. OneHolder'
    BY DEF LockInv, OneHolder
  <1>3. LockCovers'
    BY DEF LockInv, LockCovers, LockFree
  <1>4. QED
    BY <1>1, <1>2, <1>3 DEF LockInv

\* m moves to l: who is inside then.
LEMMA Moves ==
  ASSUME LockTypes, NEW m \in Migrators, NEW l \in {"idle"} \cup Stmts, Goto(m, l)
  PROVE  /\ pc' \in [Migrators -> {"idle"} \cup Stmts]
         /\ l \in Locked => Inside' = Inside \cup {m}
         /\ l \notin Locked => Inside' = Inside \ {m}
  BY DEF LockTypes, Goto, Inside

\* m, whose session is s, gets the lock and goes inside.
LEMMA Enters ==
  ASSUME LockInv, NEW m \in Migrators, pc[m] = "tryLock",
         NEW s \in SessionOf(ReplicaOf[m]), LockFree(s),
         held' = [held EXCEPT ![s] = @ + 1], Goto(m, "initTable")
  PROVE  LockInv'
  <1>1. s \in Session /\ s[1] = ReplicaOf[m]
    BY DEF SessionOf
  <1>2. pc' \in [Migrators -> {"idle"} \cup Stmts] /\ Inside' = Inside \cup {m}
    BY Moves DEF LockInv, Stmts, Locked, Work
  <1>3. m \notin Inside
    BY DEF Inside, Locked, Work
  <1>4. /\ held \in [Session -> Nat]
        /\ held' \in [Session -> Nat]
        /\ held'[s] = held[s] + 1
        /\ \A u \in Session \ {s} : held'[u] = 0
    BY <1>1 DEF LockInv, LockTypes, LockFree
  <1>5. OneHolder'
    BY <1>4 DEF OneHolder
  <1>6. Cardinality(Inside') = Cardinality(Inside) + 1
    BY <1>2, <1>3, InsideFinite, FS_AddElement
  <1>7. held'[s] >= Cardinality(Inside')
    <2>1. CASE Inside = {}
      BY <1>1, <1>4, <1>6, <2>1, FS_EmptySet
    <2>2. CASE Inside # {}
      <3>1. PICK u \in Session : held[u] >= Cardinality(Inside)
        BY <2>2 DEF LockInv, LockCovers
      <3>2. Cardinality(Inside) # 0
        BY <2>2, InsideFinite, FS_EmptySet
      <3>3. held[u] # 0
        BY <1>4, <3>1, <3>2, InsideFinite
      <3>4. u = s
        BY <3>3 DEF LockFree
      <3>5. QED
        BY <1>1, <1>4, <1>6, <3>1, <3>4, InsideFinite
    <2>3. QED
      BY <2>1, <2>2
  <1>8. \A n \in Inside' : ReplicaOf[n] = s[1]
    <2>1. SUFFICES ASSUME Inside # {}
                   PROVE  \A n \in Inside : ReplicaOf[n] = s[1]
      BY <1>1, <1>2
    <2>2. PICK u \in Session : /\ held[u] >= Cardinality(Inside)
                               /\ \A n \in Inside : ReplicaOf[n] = u[1]
      BY <2>1 DEF LockInv, LockCovers
    <2>3. Cardinality(Inside) # 0
      BY <2>1, InsideFinite, FS_EmptySet
    <2>4. held[u] # 0
      BY <1>4, <2>2, <2>3, InsideFinite
    <2>5. u = s
      BY <2>4 DEF LockFree
    <2>6. QED
      BY <2>2, <2>5
  <1>9. LockCovers'
    BY <1>1, <1>4, <1>7, <1>8 DEF LockCovers, LockFree
  <1>10. LockTypes'
    BY <1>2, <1>4 DEF LockTypes
  <1>11. QED
    BY <1>5, <1>9, <1>10 DEF LockInv

\* m leaves, and one session s gives the lock back at most once.
LEMMA Leaves ==
  ASSUME LockInv, NEW m \in Migrators, pc[m] = "unlock", NEW s \in Session,
         held' = [held EXCEPT ![s] = IF @ > 0 THEN @ - 1 ELSE 0], Goto(m, "idle")
  PROVE  LockInv'
  <1>1. pc' \in [Migrators -> {"idle"} \cup Stmts] /\ Inside' = Inside \ {m}
    BY Moves DEF LockInv, Locked, Work
  <1>2. m \in Inside
    BY DEF Inside, Locked, Work
  <1>3. /\ held \in [Session -> Nat]
        /\ held' \in [Session -> Nat]
        /\ \A u \in Session : held'[u] <= held[u] /\ held'[u] + 1 >= held[u]
    BY DEF LockInv, LockTypes
  <1>4. OneHolder'
    <2>1. \A u \in Session : held'[u] > 0 => held[u] > 0
      BY <1>3
    <2>2. QED
      BY <2>1 DEF LockInv, OneHolder
  <1>5. Cardinality(Inside') = Cardinality(Inside) - 1
    BY <1>1, <1>2, InsideFinite, FS_RemoveElement
  <1>6. LockCovers'
    <2>1. PICK u \in Session : /\ held[u] >= Cardinality(Inside)
                               /\ \A n \in Inside : ReplicaOf[n] = u[1]
                               /\ LockFree(u)
      BY <1>2 DEF LockInv, LockCovers
    <2>2. held'[u] >= Cardinality(Inside')
      BY <1>3, <1>5, <2>1, InsideFinite
    <2>3. \A n \in Inside' : ReplicaOf[n] = u[1]
      BY <1>1, <2>1
    <2>4. \A w \in Session \ {u} : held'[w] = 0
      BY <1>3, <2>1 DEF LockFree
    <2>5. QED
      BY <2>2, <2>3, <2>4 DEF LockCovers, LockFree
  <1>7. LockTypes'
    BY <1>1, <1>3 DEF LockTypes
  <1>8. QED
    BY <1>4, <1>6, <1>7 DEF LockInv

\* m leaves, and the lock stays where it is.
LEMMA LeavesWithout ==
  ASSUME LockInv, NEW m \in Migrators, pc[m] = "unlock", UNCHANGED held, Goto(m, "idle")
  PROVE  LockInv'
  <1>1. pc' \in [Migrators -> {"idle"} \cup Stmts] /\ Inside' = Inside \ {m}
    BY Moves DEF LockInv, Locked, Work
  <1>2. m \in Inside
    BY DEF Inside, Locked, Work
  <1>3. held \in [Session -> Nat]
    BY DEF LockInv, LockTypes
  <1>4. Cardinality(Inside') = Cardinality(Inside) - 1
    BY <1>1, <1>2, InsideFinite, FS_RemoveElement
  <1>5. PICK u \in Session : /\ held[u] >= Cardinality(Inside)
                             /\ \A n \in Inside : ReplicaOf[n] = u[1]
                             /\ LockFree(u)
    BY <1>2 DEF LockInv, LockCovers
  <1>6. held'[u] >= Cardinality(Inside')
    BY <1>3, <1>4, <1>5, InsideFinite
  <1>7. LockCovers'
    BY <1>1, <1>5, <1>6 DEF LockCovers, LockFree
  <1>8. QED
    BY <1>1, <1>3, <1>7 DEF LockInv, LockTypes, OneHolder

\* The replica r crashes: the goroutines inside go with their lock, or stay with it.
LEMMA CrashKeepsLock ==
  ASSUME LockInv, NEW r \in Replicas, Crash(r)
  PROVE  LockInv'
  <1>1. /\ pc' = [m \in Migrators |-> IF m \in Of(r) THEN "idle" ELSE pc[m]]
        /\ held' = [s \in Session |-> IF s[1] = r THEN 0 ELSE held[s]]
    BY DEF Crash, Fresh
  <1>2. LockTypes'
    BY <1>1 DEF LockInv, LockTypes
  <1>3. OneHolder'
    <2>1. \A u \in Session : held'[u] > 0 => held[u] > 0
      BY <1>1
    <2>2. QED
      BY <2>1 DEF LockInv, OneHolder
  <1>4. Inside' = Inside \ Of(r)
    BY <1>1 DEF Inside, Locked, Work, LockInv, LockTypes
  <1>5. LockCovers'
    <2>1. SUFFICES ASSUME Inside' # {}
                   PROVE  LockCovers'
      BY DEF LockCovers
    <2>2. PICK u \in Session : /\ held[u] >= Cardinality(Inside)
                               /\ \A n \in Inside : ReplicaOf[n] = u[1]
                               /\ LockFree(u)
      BY <1>4, <2>1 DEF LockInv, LockCovers
    <2>3. u[1] # r
      BY <1>4, <2>1, <2>2 DEF Of, Inside
    <2>4. Inside' = Inside
      BY <1>4, <2>2, <2>3 DEF Of
    <2>5. held'[u] = held[u]
      BY <1>1, <2>3
    <2>6. \A w \in Session \ {u} : held'[w] = 0
      BY <1>1, <2>2 DEF LockFree
    <2>7. QED
      BY <2>2, <2>4, <2>5, <2>6 DEF LockCovers, LockFree
  <1>6. QED
    BY <1>2, <1>3, <1>5 DEF LockInv

\* Every step preserves the invariant of the lock.
LEMMA LockStep == Own /\ LockInv /\ [Next]_vars => LockInv'
  <1> SUFFICES ASSUME Own, LockInv, [Next]_vars
               PROVE  LockInv'
    OBVIOUS
  <1>0. /\ held \in [Session -> Nat]
        /\ pc \in [Migrators -> {"idle"} \cup Stmts]
        /\ LockTypes
    BY DEF LockInv, LockTypes
  <1>1. ASSUME UNCHANGED <<held, pc>>
        PROVE  LockInv'
    BY <1>0, <1>1, LockSame DEF Inside
  <1>2. ASSUME NEW m \in Migrators, NEW l \in {"idle"} \cup Stmts, Goto(m, l),
               UNCHANGED held, pc[m] \in Locked <=> l \in Locked
        PROVE  LockInv'
    <2>1. pc' \in [Migrators -> {"idle"} \cup Stmts]
      BY <1>0, <1>2, Moves
    <2>2. Inside' = Inside
      BY <1>0, <1>2 DEF Inside, Goto
    <2>3. QED
      BY <1>2, <2>1, <2>2, LockSame
  <1>3. ASSUME NEW m \in Migrators, Call(m)
        PROVE  LockInv'
    BY <1>2, <1>3 DEF Call, db, Locked, Work, Stmts
  <1>4. ASSUME NEW m \in Migrators, Acquire(m)
        PROVE  LockInv'
    BY <1>1, <1>4 DEF Acquire, db
  <1>5. ASSUME NEW m \in Migrators, SetPath(m)
        PROVE  LockInv'
    BY <1>2, <1>5 DEF SetPath, Statement, Locked, Work, Stmts
  <1>6. ASSUME NEW m \in Migrators, TryLock(m)
        PROVE  LockInv'
    <2>1. /\ pc[m] = "tryLock"
          /\ conn[m] \in SessionOf(ReplicaOf[m])
      BY <1>6, StatementKeeps DEF TryLock, Statement
    <2>2. CASE /\ LockFree(conn[m])
               /\ held' = [held EXCEPT ![conn[m]] = @ + 1]
               /\ Goto(m, "initTable")
      <3>1. PICK s \in SessionOf(ReplicaOf[m]) : s = conn[m]
        BY <2>1
      <3>2. LockFree(s) /\ held' = [held EXCEPT ![s] = @ + 1]
        BY <2>2, <3>1
      <3>3. QED
        BY <2>1, <2>2, <3>2, Enters
    <2>3. CASE UNCHANGED <<held, pc>>
      BY <1>1, <2>3
    <2>4. CASE UNCHANGED held /\ Goto(m, "idle")
      BY <1>2, <2>1, <2>4 DEF Locked, Work
    <2>5. QED
      BY <1>6, <2>2, <2>3, <2>4 DEF TryLock
  <1>7. ASSUME NEW m \in Migrators, InitTable(m)
        PROVE  LockInv'
    BY <1>2, <1>7 DEF InitTable, Statement, db, Locked, Work, Stmts
  <1>8. ASSUME NEW m \in Migrators, NEW left, Continue(m, left), UNCHANGED held,
               pc[m] \in Locked
        PROVE  LockInv'
    <2>1. Goto(m, "unlock") \/ Goto(m, "exec")
      BY <1>8 DEF Continue
    <2>2. QED
      BY <1>2, <1>8, <2>1 DEF Locked, Work, Stmts
  <1>9. ASSUME NEW m \in Migrators, Pending(m)
        PROVE  LockInv'
    <2>1. UNCHANGED held /\ pc[m] \in Locked
      BY <1>9 DEF Pending, Statement, Locked, Work, db
    <2>2. CASE Continue(m, Version \ recorded[SchemaOf(m)])
      BY <1>8, <2>1, <2>2
    <2>3. CASE Goto(m, "baseline")
      BY <1>2, <2>1, <2>3 DEF Locked, Work, Stmts
    <2>4. QED
      BY <1>9, <2>2, <2>3 DEF Pending
  <1>10. ASSUME NEW m \in Migrators, Baseline(m)
         PROVE  LockInv'
    BY <1>8, <1>10 DEF Baseline, Statement, Locked, Work
  <1>11. ASSUME NEW m \in Migrators, Exec(m)
         PROVE  LockInv'
    BY <1>2, <1>11 DEF Exec, Statement, Locked, Work, Stmts
  <1>12. ASSUME NEW m \in Migrators, Record(m)
         PROVE  LockInv'
    BY <1>8, <1>12 DEF Record, Statement, Locked, Work
  <1>13. ASSUME NEW m \in Migrators, Unlock(m)
         PROVE  LockInv'
    <2>1. PICK s \in SessionOf(ReplicaOf[m]) : s = conn[m]
      BY <1>13, StatementKeeps DEF Unlock
    <2>2. /\ pc[m] = "unlock"
          /\ Goto(m, "idle")
          /\ held' = [held EXCEPT ![s] = IF @ > 0 THEN @ - 1 ELSE 0]
      BY <1>13, <2>1 DEF Unlock, Finish, Statement
    <2>3. s \in Session
      BY DEF SessionOf
    <2>4. QED
      BY <2>2, <2>3, Leaves
  <1>14. ASSUME NEW m \in Migrators, UnlockFails(m)
         PROVE  LockInv'
    BY <1>14, LeavesWithout DEF UnlockFails, Finish, Statement
  <1>15. ASSUME NEW m \in Migrators, FailsOutside(m)
         PROVE  LockInv'
    BY <1>2, <1>15 DEF FailsOutside, Statement, db, Locked, Work, Stmts
  <1>16. ASSUME NEW m \in Migrators, FailsInside(m)
         PROVE  LockInv'
    BY <1>2, <1>16 DEF FailsInside, Statement, Locked, Work, Stmts
  <1>17. ASSUME NEW r \in Replicas, AppTake(r) \/ AppGive(r)
         PROVE  LockInv'
    BY <1>1, <1>17 DEF AppTake, AppGive, db
  <1>18. ASSUME NEW r \in Replicas, Crash(r)
         PROVE  LockInv'
    BY <1>18, CrashKeepsLock
  <1>19. CASE UNCHANGED vars
    BY <1>1, <1>19 DEF vars, db
  <1>20. QED
    BY <1>3, <1>4, <1>5, <1>6, <1>7, <1>9, <1>11, <1>12, <1>13, <1>14, <1>15, <1>16,
       <1>17, <1>18, <1>19, <1>10 DEF Next, Step, Quiet

\* The two parts of the invariant hold together in every state.
LEMMA Invariant == Spec => [](Own /\ LockInv)
  <1>1. Init => Own /\ LockInv
    BY OwnInit, LockInit
  <1>2. Own /\ LockInv /\ [Next]_vars => (Own /\ LockInv)'
    BY OwnStep, LockStep
  <1>3. QED
    BY <1>1, <1>2, PTL DEF Spec

\* While goroutines run migrations (runMigrations, between acquireAdvisoryLock and the
\* deferred releaseAdvisoryLock), a session of their replica holds the advisory lock, at
\* least once for each of them.
THEOREM LockCoversHolds == Spec => []LockCovers
  <1>1. LockInv => LockCovers
    BY DEF LockInv
  <1>2. QED
    BY <1>1, Invariant, PTL

\* Goroutines that run migrations at the same time are of one replica: "an advisory lock
\* to prevent concurrent replicas from racing".
THEOREM ReplicasExcludedHolds == Spec => []ReplicasExcluded
  <1>1. LockCovers => ReplicasExcluded
    <2>1. SUFFICES ASSUME LockCovers, NEW m \in Inside, NEW n \in Inside
                   PROVE  ReplicaOf[m] = ReplicaOf[n]
      BY DEF ReplicasExcluded
    <2>2. PICK s \in Session : \A k \in Inside : ReplicaOf[k] = s[1]
      BY <2>1 DEF LockCovers
    <2>3. QED
      BY <2>2
  <1>2. QED
    BY <1>1, LockCoversHolds, PTL

(***************************************************************************)
(* Types, and what the revisions table records.                            *)
(***************************************************************************)

\* A set of versions that is not empty has a least one.
LEMMA LeastVersion ==
  ASSUME NEW S \in SUBSET Version, S # {}
  PROVE  \E v \in S : \A w \in S : v <= w
  <1> DEFINE R == OpToRel(<, Nat)
  <1>1. S \subseteq Nat
    BY MigrationAssumption DEF Version
  <1>2. \A x, y \in Nat : <<y, x>> \in R <=> y < x
    BY DEF OpToRel
  <1>3. IsWellFoundedOn(R, Nat)
    BY NatLessThanWellFounded
  <1> HIDE DEF R
  <1>4. PICK x \in S : \A y \in S : <<y, x>> \notin R
    BY <1>1, <1>3, WFMin
  <1>5. \A y \in S : ~(y < x)
    BY <1>1, <1>2, <1>4
  <1>6. QED
    BY <1>1, <1>5

\* Hence the next file of a goroutine is one of its pending files.
LEMMA NextFilePending ==
  ASSUME NEW m \in Migrators, todo[m] \in SUBSET Version, todo[m] # {}
  PROVE  NextFile(m) \in todo[m]
  BY LeastVersion DEF NextFile

\* What some schema has recorded, and what was executed in some schema.
Known    == UNION {recorded[c] : c \in Schemas}
Executed == {v \in Version : \E c \in Schemas : execs[c][v] > 0}

\* Whose files are left where: a goroutine has files to run as long as it runs them,
\* what it has run or did not have to is recorded, and a call that got to its unlock
\* without an error has everything recorded, in the schemas its statements found.
Recorded(m) ==
    /\ pc[m] \in {"exec", "record"} =>
         /\ todo[m] # {}
         /\ Version \ todo[m] \subseteq Known
    /\ pc[m] = "unlock" /\ ~err[m] => Version \subseteq Known
    /\ pc[m] = "record" => NextFile(m) \in Executed
    /\ pc[m] = "baseline" => TRUE \in Baselines
    /\ pc[m] # "unlock" => ~err[m]

RecordInv ==
    /\ TypeOK
    /\ RecordedExecuted
    /\ \A m \in Migrators : Recorded(m)

LEMMA RecordInit == Init => RecordInv
  <1> SUFFICES ASSUME Init
               PROVE  RecordInv
    OBVIOUS
  <1>1. TypeOK
    BY MigrationAssumption DEF Init, TypeOK, Conn, Stmts
  <1>2. RecordedExecuted
    BY DEF Init, RecordedExecuted
  <1>3. \A m \in Migrators : Recorded(m)
    BY DEF Init, Recorded
  <1>4. QED
    BY <1>1, <1>2, <1>3 DEF RecordInv

\* A statement works in one of the two schemas.
LEMMA SchemaFound == \A m : SchemaOf(m) \in Schemas
  BY DEF SchemaOf, Schemas

\* A table that grows.
LEMMA KnownGrows ==
  ASSUME recorded \in [Schemas -> SUBSET Version], NEW c \in Schemas,
         NEW S \in SUBSET Version, recorded' = [recorded EXCEPT ![c] = @ \cup S]
  PROVE  recorded' \in [Schemas -> SUBSET Version] /\ Known' = Known \cup S
  <1>1. \A d \in Schemas : recorded'[d] = IF d = c THEN recorded[d] \cup S ELSE recorded[d]
    OBVIOUS
  <1>2. recorded' \in [Schemas -> SUBSET Version]
    OBVIOUS
  <1>3. ASSUME NEW v
        PROVE  v \in Known' <=> v \in Known \cup S
    <2>1. v \in Known' <=> \E d \in Schemas : v \in recorded'[d]
      BY DEF Known
    <2>2. v \in Known <=> \E d \in Schemas : v \in recorded[d]
      BY DEF Known
    <2>3. QED
      BY <1>1, <2>1, <2>2
  <1>4. Known' = Known \cup S
    BY <1>3
  <1>5. QED
    BY <1>2, <1>4

\* The SQL of a version is executed once more.
LEMMA ExecutedGrows ==
  ASSUME execs \in [Schemas -> [Version -> Nat]], NEW c \in Schemas, NEW v \in Version,
         execs' = [execs EXCEPT ![c][v] = @ + 1]
  PROVE  /\ execs' \in [Schemas -> [Version -> Nat]]
         /\ Executed' = Executed \cup {v}
         /\ execs'[c] = [execs[c] EXCEPT ![v] = @ + 1]
  <1>1. execs' = [execs EXCEPT ![c] = [execs[c] EXCEPT ![v] = execs[c][v] + 1]]
    OBVIOUS
  <1>2. execs[c] \in [Version -> Nat] /\ execs[c][v] \in Nat
    OBVIOUS
  <1>3. execs'[c] = [execs[c] EXCEPT ![v] = execs[c][v] + 1]
    BY <1>1
  <1>4. execs'[c] \in [Version -> Nat]
    BY <1>2, <1>3
  <1>5. \A d \in Schemas \ {c} : execs'[d] = execs[d]
    BY <1>1
  <1>6. execs' \in [Schemas -> [Version -> Nat]]
    BY <1>1, <1>3, <1>4
  <1>7. execs'[c][v] > 0 /\ \A w \in Version \ {v} : execs'[c][w] = execs[c][w]
    BY <1>2, <1>3
  <1>8. ASSUME NEW w \in Version \ {v}
        PROVE  w \in Executed' <=> w \in Executed
    <2>1. \A d \in Schemas : execs'[d][w] = execs[d][w]
      BY <1>5, <1>7
    <2>2. QED
      BY <2>1 DEF Executed
  <1>9. v \in Executed'
    BY <1>7 DEF Executed
  <1>10. Executed' = Executed \cup {v}
    BY <1>8, <1>9 DEF Executed
  <1>11. QED
    BY <1>3, <1>6, <1>10

\* RecordedExecuted is about the two sets.
LEMMA RecordedKnown ==
  ASSUME recorded \in [Schemas -> SUBSET Version]
  PROVE  RecordedExecuted <=>
           \A v \in Known : v \in Executed \/ (v = 1 /\ TRUE \in Baselines)
  BY DEF RecordedExecuted, Known, Executed

\* The part of the type invariant that Own does not state.
ValuesOK ==
    /\ path \in SUBSET Session
    /\ held \in [Session -> Nat]
    /\ tables \in SUBSET Schemas
    /\ recorded \in [Schemas -> SUBSET Version]
    /\ execs \in [Schemas -> [Version -> Nat]]
    /\ interrupted \in SUBSET Version
    /\ pc \in [Migrators -> {"idle"} \cup Stmts]
    /\ todo \in [Migrators -> SUBSET Version]
    /\ polls \in [Migrators -> 0 .. MaxPolls]
    /\ err \in [Migrators -> BOOLEAN]
    /\ ret \in [Migrators -> {"none", "ok", "error"}]
    /\ calls \in 0 .. MaxCalls
    /\ crashes \in 0 .. MaxCrashes

LEMMA TypeParts == TypeOK <=> /\ idle \in [Replicas -> Seq(Session)]
                              /\ app \in [Replicas -> Conn]
                              /\ conn \in [Migrators -> Conn]
                              /\ ValuesOK
  BY DEF TypeOK, ValuesOK

\* A restart keeps the type of a local variable.
LEMMA FreshType ==
  ASSUME NEW r, NEW S, NEW f \in [Migrators -> S], NEW x \in S
  PROVE  Fresh(r, f, x) \in [Migrators -> S]
  BY DEF Fresh

\* Every step keeps types.
LEMMA ValuesStep == RecordInv /\ Own /\ [Next]_vars => ValuesOK'
  <1> SUFFICES ASSUME RecordInv, Own, [Next]_vars
               PROVE  ValuesOK'
    OBVIOUS
  <1>0. ValuesOK /\ MaxPolls \in Nat /\ MaxCalls \in Nat /\ MaxCrashes \in Nat
    BY TypeParts, MigrationAssumption DEF RecordInv
  <1>1. ASSUME NEW m \in Migrators, Statement(m, pc[m])
        PROVE  conn[m] \in Session
    BY <1>1, StatementKeeps DEF SessionOf
  <1>2. ASSUME NEW m \in Migrators, pc[m] \in {"exec", "record"}
        PROVE  NextFile(m) \in Version
    BY <1>0, <1>2, NextFilePending DEF RecordInv, Recorded, ValuesOK
  <1>3. ASSUME NEW m \in Migrators, Call(m)
        PROVE  ValuesOK'
    BY <1>0, <1>3 DEF Call, Goto, db, local, ValuesOK, Stmts
  <1>4. ASSUME NEW m \in Migrators, Acquire(m)
        PROVE  ValuesOK'
    BY <1>0, <1>4 DEF Acquire, db, local, count, ValuesOK
  <1>5. ASSUME NEW m \in Migrators, SetPath(m)
        PROVE  ValuesOK'
    BY <1>0, <1>1, <1>5 DEF SetPath, Statement, Goto, local, count, ValuesOK, Stmts
  <1>6. ASSUME NEW m \in Migrators, TryLock(m)
        PROVE  ValuesOK'
    <2>1. conn[m] \in Session
      BY <1>1, <1>6 DEF TryLock, Statement
    <2>2. held' \in [Session -> Nat]
      BY <1>0, <1>6, <2>1 DEF TryLock, ValuesOK
    <2>3. polls' \in [Migrators -> 0 .. MaxPolls]
      BY <1>0, <1>6 DEF TryLock, ValuesOK
    <2>4. ret' \in [Migrators -> {"none", "ok", "error"}]
      BY <1>0, <1>6 DEF TryLock, ValuesOK
    <2>5. pc' \in [Migrators -> {"idle"} \cup Stmts]
      BY <1>0, <1>6 DEF TryLock, Goto, ValuesOK, Stmts, Locked, Work
    <2>6. QED
      BY <1>0, <1>6, <2>2, <2>3, <2>4, <2>5 DEF TryLock, Statement, count, ValuesOK
  <1>7. ASSUME NEW m \in Migrators, InitTable(m)
        PROVE  ValuesOK'
    <2>1. tables' \in SUBSET Schemas
      BY <1>0, <1>7, SchemaFound DEF InitTable, ValuesOK
    <2>2. QED
      BY <1>0, <1>7, <2>1
         DEF InitTable, Statement, Goto, local, count, ValuesOK, Stmts, Locked, Work
  <1>8. ASSUME NEW m \in Migrators, NEW left \in SUBSET Version, Continue(m, left)
         PROVE  /\ pc' \in [Migrators -> {"idle"} \cup Stmts]
                /\ todo' \in [Migrators -> SUBSET Version]
    BY <1>0, <1>8 DEF Continue, Goto, ValuesOK, Stmts, Locked, Work
  <1>9. ASSUME NEW m \in Migrators, Pending(m)
        PROVE  ValuesOK'
    <2>1. /\ pc' \in [Migrators -> {"idle"} \cup Stmts]
          /\ todo' \in [Migrators -> SUBSET Version]
      <3>1. CASE Continue(m, Version \ recorded[SchemaOf(m)])
        BY <1>8, <3>1
      <3>2. CASE Goto(m, "baseline") /\ UNCHANGED todo
        BY <1>0, <3>2 DEF Goto, ValuesOK, Stmts, Locked, Work
      <3>3. QED
        BY <1>9, <3>1, <3>2 DEF Pending
    <2>2. QED
      BY <1>0, <1>9, <2>1 DEF Pending, Statement, db, count, ValuesOK
  <1>10. ASSUME NEW m \in Migrators, Baseline(m)
         PROVE  ValuesOK'
    <2>1. recorded' \in [Schemas -> SUBSET Version]
      BY <1>0, <1>10, KnownGrows, SchemaFound DEF Baseline, First, ValuesOK
    <2>2. /\ pc' \in [Migrators -> {"idle"} \cup Stmts]
          /\ todo' \in [Migrators -> SUBSET Version]
      BY <1>8, <1>10 DEF Baseline
    <2>3. QED
      BY <1>0, <1>10, <2>1, <2>2 DEF Baseline, Statement, count, ValuesOK
  <1>11. ASSUME NEW m \in Migrators, Exec(m)
        PROVE  ValuesOK'
    <2>1. NextFile(m) \in Version
      BY <1>2, <1>11 DEF Exec, Statement
    <2>2. execs' \in [Schemas -> [Version -> Nat]]
      BY <1>0, <1>11, <2>1, ExecutedGrows, SchemaFound DEF Exec, ValuesOK
    <2>3. QED
      BY <1>0, <1>11, <2>2
         DEF Exec, Statement, Goto, local, count, ValuesOK, Stmts, Locked, Work
  <1>12. ASSUME NEW m \in Migrators, Record(m)
         PROVE  ValuesOK'
    <2>1. NextFile(m) \in Version
      BY <1>2, <1>12 DEF Record, Statement
    <2>2. recorded' \in [Schemas -> SUBSET Version]
      BY <1>0, <1>12, <2>1, KnownGrows, SchemaFound DEF Record, ValuesOK
    <2>3. /\ pc' \in [Migrators -> {"idle"} \cup Stmts]
          /\ todo' \in [Migrators -> SUBSET Version]
      BY <1>0, <1>12, <1>8 DEF Record, ValuesOK
    <2>4. QED
      BY <1>0, <1>12, <2>2, <2>3 DEF Record, Statement, count, ValuesOK
  <1>13. ASSUME NEW m \in Migrators, Finish(m), UNCHANGED count,
                held' \in [Session -> Nat]
         PROVE  ValuesOK'
    BY <1>0, <1>13 DEF Finish, Goto, count, ValuesOK
  <1>14. ASSUME NEW m \in Migrators, Unlock(m)
         PROVE  ValuesOK'
    <2>1. conn[m] \in Session
      BY <1>1, <1>14 DEF Unlock, Statement
    <2>2. held' \in [Session -> Nat]
      BY <1>0, <1>14, <2>1 DEF Unlock, ValuesOK
    <2>3. QED
      BY <1>14, <1>13, <2>2 DEF Unlock, Statement
  <1>15. ASSUME NEW m \in Migrators, UnlockFails(m)
         PROVE  ValuesOK'
    BY <1>0, <1>13, <1>15 DEF UnlockFails, Statement, ValuesOK
  <1>16. ASSUME NEW m \in Migrators, FailsOutside(m)
         PROVE  ValuesOK'
    BY <1>0, <1>16 DEF FailsOutside, Statement, Goto, db, count, ValuesOK
  <1>17. ASSUME NEW m \in Migrators, FailsInside(m)
         PROVE  ValuesOK'
    <2>1. interrupted' \in SUBSET Version
      BY <1>0, <1>2, <1>17 DEF FailsInside, ValuesOK
    <2>2. QED
      BY <1>0, <1>17, <2>1
         DEF FailsInside, Statement, Goto, count, ValuesOK, Stmts, Locked, Work
  <1>18. ASSUME NEW r \in Replicas, AppTake(r) \/ AppGive(r)
         PROVE  ValuesOK'
    BY <1>0, <1>18 DEF AppTake, AppGive, db, local, count, ValuesOK
  <1>19. ASSUME NEW r \in Replicas, Crash(r)
         PROVE  ValuesOK'
    <2>1. interrupted' \in SUBSET Version
      BY <1>0, <1>2, <1>19 DEF Crash, Of, ValuesOK
    <2>2. /\ path' \in SUBSET Session /\ held' \in [Session -> Nat]
          /\ crashes' \in 0 .. MaxCrashes
      BY <1>0, <1>19 DEF Crash, ValuesOK
    <2>3. /\ pc' \in [Migrators -> {"idle"} \cup Stmts]
          /\ todo' \in [Migrators -> SUBSET Version]
          /\ polls' \in [Migrators -> 0 .. MaxPolls]
          /\ err' \in [Migrators -> BOOLEAN]
          /\ ret' \in [Migrators -> {"none", "ok", "error"}]
      <3>1. 0 \in 0 .. MaxPolls
        BY <1>0
      <3>2. QED
        BY <1>0, <1>19, <3>1, FreshType DEF Crash, ValuesOK
    <2>4. UNCHANGED <<tables, recorded, execs, calls>>
      BY <1>19 DEF Crash
    <2>5. QED
      BY <1>0, <2>1, <2>2, <2>3, <2>4 DEF ValuesOK
  <1>20. CASE UNCHANGED vars
    BY <1>0, <1>20 DEF vars, db, local, count, ValuesOK
  <1>21. QED
    BY <1>3, <1>4, <1>5, <1>6, <1>7, <1>9, <1>11, <1>12, <1>14, <1>16, <1>17, <1>18,
       <1>19, <1>20, <1>10, <1>15 DEF Next, Step, Quiet

\* A step of m leaves the other goroutines what they have, and takes no revision back.
LEMMA OthersKeep ==
  ASSUME RecordInv, NEW m \in Migrators, Call(m) \/ Step(m),
         NEW n \in Migrators, n # m, Known \subseteq Known', Executed \subseteq Executed'
  PROVE  Recorded(n)'
  <1>1. /\ pc \in [Migrators -> {"idle"} \cup Stmts]
        /\ todo \in [Migrators -> SUBSET Version]
        /\ err \in [Migrators -> BOOLEAN]
        /\ Recorded(n)
    BY DEF RecordInv, TypeOK
  <1>2. pc'[n] = pc[n] /\ todo'[n] = todo[n] /\ err'[n] = err[n]
    BY <1>1 DEF Call, Step, Acquire, SetPath, TryLock, InitTable, Pending, Baseline, Exec,
                Record, Unlock, UnlockFails, Finish, FailsOutside, FailsInside, Continue,
                Goto, local
  <1>3. NextFile(n)' = NextFile(n)
    BY <1>2 DEF NextFile
  <1>4. QED
    BY <1>1, <1>2, <1>3 DEF Recorded

\* The goroutine that takes a step has the files left that it should have.
LEMMA OwnKeeps ==
  ASSUME RecordInv, NEW m \in Migrators, Call(m) \/ Step(m)
  PROVE  /\ Known \subseteq Known'
         /\ Executed \subseteq Executed'
         /\ \A v \in Known' : v \in Executed' \/ (v = 1 /\ TRUE \in Baselines)
         /\ Recorded(m)'
  <1> DEFINE Kept == /\ Known \subseteq Known'
                     /\ Executed \subseteq Executed'
                     /\ \A v \in Known' : v \in Executed' \/ (v = 1 /\ TRUE \in Baselines)
  <1>0. /\ pc \in [Migrators -> {"idle"} \cup Stmts]
        /\ todo \in [Migrators -> SUBSET Version]
        /\ err \in [Migrators -> BOOLEAN]
        /\ execs \in [Schemas -> [Version -> Nat]]
        /\ recorded \in [Schemas -> SUBSET Version]
        /\ \A v \in Known : v \in Executed \/ (v = 1 /\ TRUE \in Baselines)
        /\ Recorded(m)
    BY RecordedKnown DEF RecordInv, TypeOK
  <1>1. ASSUME UNCHANGED <<recorded, execs>>
        PROVE  Kept /\ Known' = Known /\ Executed' = Executed
    BY <1>0, <1>1 DEF Known, Executed
  <1>2. ASSUME NEW l \in {"idle", "setPath", "tryLock", "initTable", "pending", "baseline"},
               Goto(m, l), UNCHANGED <<recorded, execs>>, ~err'[m],
               l = "baseline" => TRUE \in Baselines
        PROVE  Kept /\ Recorded(m)'
    <2>1. pc'[m] = l
      BY <1>0, <1>2 DEF Goto
    <2>2. QED
      BY <1>1, <1>2, <2>1 DEF Recorded
  <1>3. CASE Call(m)
    <2>1. ~err'[m]
      BY <1>0, <1>3 DEF Call, local, Recorded
    <2>2. QED
      BY <1>2, <1>3, <2>1 DEF Call, db
  <1>4. CASE Acquire(m)
    BY <1>0, <1>1, <1>4 DEF Acquire, db, local, Recorded, NextFile
  <1>5. CASE SetPath(m)
    <2>1. ~err'[m]
      BY <1>0, <1>5 DEF SetPath, Statement, local, Recorded
    <2>2. QED
      BY <1>2, <1>5, <2>1 DEF SetPath
  <1>6. CASE TryLock(m)
    <2>1. ~err'[m] /\ pc[m] = "tryLock" /\ UNCHANGED <<recorded, execs, todo>>
      BY <1>0, <1>6 DEF TryLock, Statement, Recorded
    <2>2. CASE Goto(m, "initTable") \/ Goto(m, "idle")
      BY <1>2, <2>1, <2>2
    <2>3. CASE UNCHANGED pc
      BY <1>1, <2>1, <2>3 DEF Recorded
    <2>4. QED
      BY <1>6, <2>2, <2>3 DEF TryLock
  <1>7. CASE InitTable(m)
    <2>1. ~err'[m]
      BY <1>0, <1>7 DEF InitTable, Statement, local, Recorded
    <2>2. QED
      BY <1>2, <1>7, <2>1 DEF InitTable
  <1>8. ASSUME NEW left \in SUBSET Version, Continue(m, left), ~err'[m],
               Version \ left \subseteq Known'
        PROVE  Recorded(m)'
    <2>1. todo'[m] = left /\ pc'[m] = (IF left = {} THEN "unlock" ELSE "exec")
      BY <1>0, <1>8 DEF Continue, Goto
    <2>2. QED
      BY <1>8, <2>1 DEF Recorded
  <1>9. CASE Pending(m)
    <2>1. ~err'[m] /\ UNCHANGED <<recorded, execs>>
      BY <1>0, <1>9 DEF Pending, Statement, Recorded, db
    <2>2. CASE Goto(m, "baseline") /\ TRUE \in Baselines
      BY <1>2, <2>1, <2>2
    <2>3. CASE Continue(m, Version \ recorded[SchemaOf(m)])
      <3>1. recorded[SchemaOf(m)] \subseteq Known'
        BY <1>1, <2>1, SchemaFound DEF Known
      <3>2. QED
        BY <1>1, <1>8, <2>1, <2>3, <3>1
    <2>4. QED
      BY <1>9, <2>2, <2>3 DEF Pending
  <1>10. CASE Baseline(m)
    <2>1. /\ ~err'[m] /\ UNCHANGED execs
          /\ recorded' = [recorded EXCEPT ![SchemaOf(m)] = @ \cup First]
          /\ Continue(m, Version \ First)
      BY <1>0, <1>10 DEF Baseline, Statement, Recorded
    <2>2. Known' = Known \cup First
      BY <1>0, <2>1, KnownGrows, SchemaFound DEF First
    <2>3. Recorded(m)'
      BY <1>8, <2>1, <2>2
    <2>4. Executed' = Executed
      BY <2>1 DEF Executed
    <2>5. \A v \in First : v = 1 /\ TRUE \in Baselines
      BY <1>0, <1>10 DEF Baseline, Statement, Recorded, First
    <2>6. QED
      BY <1>0, <2>2, <2>3, <2>4, <2>5
  <1>11. CASE Exec(m)
    <2>1. /\ pc[m] = "exec" /\ pc'[m] = "record"
          /\ UNCHANGED <<recorded, todo, err>>
      BY <1>0, <1>11 DEF Exec, Statement, Goto, local
    <2>2. PICK v \in Version : v = NextFile(m)
      BY <1>0, <2>1, NextFilePending DEF Recorded
    <2>3. execs' = [execs EXCEPT ![SchemaOf(m)][v] = @ + 1]
      BY <1>11, <2>2 DEF Exec
    <2>4. Executed' = Executed \cup {v}
      BY <1>0, <2>3, ExecutedGrows, SchemaFound
    <2>5. NextFile(m)' = v
      BY <2>1, <2>2 DEF NextFile
    <2>6. Known' = Known
      BY <2>1 DEF Known
    <2>7. Recorded(m)'
      BY <1>0, <2>1, <2>4, <2>5, <2>6 DEF Recorded
    <2>8. QED
      BY <1>0, <2>4, <2>6, <2>7
  <1>12. CASE Record(m)
    <2>1. /\ pc[m] = "record" /\ ~err[m]
          /\ UNCHANGED <<execs, err>>
          /\ recorded' = [recorded EXCEPT ![SchemaOf(m)] = @ \cup {NextFile(m)}]
          /\ Continue(m, todo[m] \ {NextFile(m)})
      BY <1>0, <1>12 DEF Record, Statement, Recorded
    <2>2. NextFile(m) \in Version /\ NextFile(m) \in Executed
      BY <1>0, <2>1, NextFilePending DEF Recorded
    <2>3. /\ Known' = Known \cup {NextFile(m)}
          /\ Executed' = Executed
      <3>1. {NextFile(m)} \in SUBSET Version
        BY <2>2
      <3>2. Known' = Known \cup {NextFile(m)}
        BY <1>0, <2>1, <3>1, KnownGrows, SchemaFound
      <3>3. QED
        BY <2>1, <3>2 DEF Executed
    <2>4. Recorded(m)'
      BY <1>0, <1>8, <2>1, <2>3 DEF Recorded
    <2>5. QED
      BY <1>0, <2>2, <2>3, <2>4
  <1>13. CASE Unlock(m) \/ UnlockFails(m)
    <2>1. /\ ~err'[m] /\ Goto(m, "idle") /\ UNCHANGED <<recorded, execs>>
      BY <1>0, <1>13 DEF Unlock, UnlockFails, Finish
    <2>2. QED
      BY <1>2, <2>1
  <1>14. CASE FailsOutside(m)
    <2>1. ~err'[m]
      BY <1>0, <1>14 DEF FailsOutside, Statement, Recorded
    <2>2. QED
      BY <1>2, <1>14, <2>1 DEF FailsOutside, db
  <1>15. CASE FailsInside(m)
    <2>1. err'[m] /\ pc'[m] = "unlock" /\ UNCHANGED <<recorded, execs>>
      BY <1>0, <1>15 DEF FailsInside, Goto
    <2>2. QED
      BY <1>1, <2>1 DEF Recorded
  <1>16. QED
    BY <1>3, <1>4, <1>5, <1>6, <1>7, <1>9, <1>10, <1>11, <1>12, <1>13, <1>14, <1>15
       DEF Step

\* A crash takes no revision back.
LEMMA CrashKeepsRecord ==
  ASSUME RecordInv, NEW r \in Replicas, Crash(r)
  PROVE  RecordedExecuted' /\ \A m \in Migrators : Recorded(m)'
  <1>1. /\ RecordedExecuted' /\ UNCHANGED <<recorded, execs>>
        /\ Known' = Known /\ Executed' = Executed
    BY DEF RecordInv, RecordedExecuted, Crash, Known, Executed
  <1>2. ASSUME NEW m \in Migrators, m \in Of(r)
        PROVE  Recorded(m)'
    <2>1. pc'[m] = "idle" /\ err'[m] = FALSE
      BY <1>2 DEF Crash, Fresh
    <2>2. QED
      BY <1>1, <2>1 DEF Recorded
  <1>3. ASSUME NEW m \in Migrators, m \notin Of(r)
        PROVE  Recorded(m)'
    <2>1. pc'[m] = pc[m] /\ todo'[m] = todo[m] /\ err'[m] = err[m]
      BY <1>3 DEF Crash, Fresh
    <2>2. NextFile(m)' = NextFile(m)
      BY <2>1 DEF NextFile
    <2>3. QED
      BY <1>1, <2>1, <2>2 DEF RecordInv, Recorded
  <1>4. QED
    BY <1>1, <1>2, <1>3

\* Every step preserves the invariant of the revisions table.
LEMMA RecordStep == RecordInv /\ Own /\ [Next]_vars => RecordInv'
  <1> SUFFICES ASSUME RecordInv, Own, [Next]_vars
               PROVE  RecordInv'
    OBVIOUS
  <1>1. TypeOK'
    <2>1. ValuesOK' /\ Own'
      BY ValuesStep, OwnStep
    <2>2. QED
      BY <2>1 DEF TypeOK, ValuesOK, Own
  <1>2. ASSUME NEW m \in Migrators, Call(m) \/ Step(m)
        PROVE  RecordedExecuted' /\ \A n \in Migrators : Recorded(n)'
    <2>1. recorded' \in [Schemas -> SUBSET Version]
      BY <1>1 DEF TypeOK
    <2>2. RecordedExecuted'
      BY <1>2, <2>1, OwnKeeps DEF RecordedExecuted, Known, Executed
    <2>3. QED
      BY <1>2, <2>2, OwnKeeps, OthersKeep
  <1>3. ASSUME UNCHANGED <<recorded, execs, pc, todo, err>>
        PROVE  RecordedExecuted' /\ \A n \in Migrators : Recorded(n)'
    <2>1. Known' = Known /\ Executed' = Executed
      BY <1>3 DEF Known, Executed
    <2>2. RecordedExecuted'
      BY <1>3 DEF RecordInv, RecordedExecuted
    <2>3. \A n \in Migrators : NextFile(n)' = NextFile(n)
      BY <1>3 DEF NextFile
    <2>4. QED
      BY <1>3, <2>1, <2>2, <2>3 DEF RecordInv, Recorded
  <1>4. ASSUME NEW r \in Replicas, AppTake(r) \/ AppGive(r)
        PROVE  UNCHANGED <<recorded, execs, pc, todo, err>>
    BY <1>4 DEF AppTake, AppGive, db, local
  <1>5. CASE UNCHANGED vars
    BY <1>1, <1>3, <1>5 DEF vars, db, local, RecordInv
  <1>6. CASE \E r \in Replicas : Crash(r)
    BY <1>1, <1>6, CrashKeepsRecord DEF RecordInv
  <1>7. QED
    BY <1>1, <1>2, <1>3, <1>4, <1>5, <1>6 DEF Next, Quiet, RecordInv

LEMMA RecordInvariant == Spec => []RecordInv
  <1>1. Init => Own /\ RecordInv
    BY OwnInit, RecordInit
  <1>2. Own /\ RecordInv /\ [Next]_vars => (Own /\ RecordInv)'
    BY OwnStep, RecordStep
  <1>3. QED
    BY <1>1, <1>2, PTL DEF Spec

\* Type correctness: idle lists, statements and applications have sessions of the pools,
\* and a file that is executed or recorded is a pending one.
THEOREM TypeCorrect == Spec => []TypeOK
  <1>1. RecordInv => TypeOK
    BY DEF RecordInv
  <1>2. QED
    BY <1>1, RecordInvariant, PTL

\* The revisions table has nothing that was not executed, but for the baseline, although
\* calls fail between a file and its revision and replicas crash there.
THEOREM RecordedExecutedHolds == Spec => []RecordedExecuted
  <1>1. RecordInv => RecordedExecuted
    BY DEF RecordInv
  <1>2. QED
    BY <1>1, RecordInvariant, PTL

\* Every version is recorded in a schema when a call returns without an error.
SuccessMeansRecorded ==
    [][\A m \in Migrators :
         ret'[m] = "ok" /\ ret[m] # "ok" => Version \subseteq Known]_vars

\* A call of runMigrations that returns without an error leaves every version recorded,
\* whatever else runs: it has applied what was missing when it held the lock, and
\* revisions are never taken back.  Which schema has a revision depends on the sessions
\* that its statements ran on.
THEOREM SuccessMeansRecordedHolds == Spec => SuccessMeansRecorded
  <1> DEFINE UpToDate == \A m \in Migrators :
                           ret'[m] = "ok" /\ ret[m] # "ok" => Version \subseteq Known
  <1>1. RecordInv /\ [Next]_vars => [UpToDate]_vars
    <2> SUFFICES ASSUME RecordInv, Next, NEW m \in Migrators, ret'[m] = "ok", ret[m] # "ok"
                 PROVE  Version \subseteq Known
      OBVIOUS
    <2>1. ret \in [Migrators -> {"none", "ok", "error"}]
      BY DEF RecordInv, TypeOK
    <2>2. ASSUME NEW n \in Migrators, Call(n) \/ Step(n)
          PROVE  Unlock(m) \/ UnlockFails(m)
      BY <2>1, <2>2 DEF Call, Step, Acquire, SetPath, TryLock, InitTable, Pending, Baseline,
                        Exec, Record, Unlock, UnlockFails, Finish, FailsOutside, FailsInside
    <2>3. ASSUME NEW r \in Replicas, AppTake(r) \/ AppGive(r) \/ Crash(r)
          PROVE  FALSE
      BY <2>1, <2>3 DEF AppTake, AppGive, Crash, Fresh
    <2>4. Unlock(m) \/ UnlockFails(m)
      BY <2>2, <2>3 DEF Next, Quiet, vars
    <2>5. pc[m] = "unlock" /\ ~err[m]
      BY <2>1, <2>4 DEF Unlock, UnlockFails, Finish, Statement
    <2>6. QED
      BY <2>5 DEF RecordInv, Recorded
  <1>2. QED
    BY <1>1, RecordInvariant, PTL DEF Spec, SuccessMeansRecorded

(***************************************************************************)
(* The order of versions, whatever goroutines migrate, in whatever schema. *)
(***************************************************************************)

\* A version that is recorded, or was executed, has every version before it recorded.
InOrder ==
    \A v \in Version : v \in Known \cup Executed => 1 .. (v - 1) \subseteq Known

Running == {"exec", "record"}

\* The next file of a goroutine that runs files: it is pending, and what is before it is
\* recorded.
LEMMA NextFileFirst ==
  ASSUME RecordInv, NEW m \in Migrators, pc[m] \in Running
  PROVE  /\ NextFile(m) \in todo[m]
         /\ NextFile(m) \in Version
         /\ 1 .. (NextFile(m) - 1) \subseteq Known
  <1>1. /\ todo[m] \in SUBSET Version
        /\ todo[m] # {}
        /\ Version \ todo[m] \subseteq Known
    BY DEF RecordInv, TypeOK, Recorded, Running
  <1>2. PICK v \in todo[m] : v = NextFile(m) /\ \A w \in todo[m] : v <= w
    BY <1>1, LeastVersion DEF NextFile
  <1>3. ASSUME NEW w \in 1 .. (v - 1)
        PROVE  w \in Known
    <2>1. v \in Nat /\ w \in Version /\ ~(v <= w)
      BY <1>1, <1>2, <1>3, MigrationAssumption DEF Version
    <2>2. QED
      BY <1>1, <1>2, <2>1
  <1>4. QED
    BY <1>1, <1>2, <1>3

LEMMA InOrderStep == RecordInv /\ InOrder /\ [Next]_vars => InOrder'
  <1> SUFFICES ASSUME RecordInv, InOrder, [Next]_vars
               PROVE  InOrder'
    OBVIOUS
  <1>0. /\ recorded \in [Schemas -> SUBSET Version]
        /\ execs \in [Schemas -> [Version -> Nat]]
    BY DEF RecordInv, TypeOK
  <1>1. ASSUME UNCHANGED <<recorded, execs>>
        PROVE  InOrder'
    <2>1. Known' = Known /\ Executed' = Executed
      BY <1>1 DEF Known, Executed
    <2>2. QED
      BY <2>1 DEF InOrder
  <1>2. ASSUME NEW m \in Migrators, Baseline(m)
        PROVE  InOrder'
    <2>1. Known' = Known \cup First
      BY <1>0, <1>2, KnownGrows, SchemaFound DEF Baseline, First
    <2>2. Executed' = Executed
      BY <1>2 DEF Baseline, Executed
    <2>3. ASSUME NEW v \in First
          PROVE  1 .. (v - 1) = {}
      BY DEF First
    <2>4. QED
      BY <2>1, <2>2, <2>3 DEF InOrder
  <1>3. ASSUME NEW m \in Migrators, Exec(m)
        PROVE  InOrder'
    <2>1. pc[m] = "exec" /\ UNCHANGED recorded
      BY <1>3 DEF Exec, Statement
    <2>2. PICK v \in Version : v = NextFile(m) /\ 1 .. (v - 1) \subseteq Known
      BY <2>1, NextFileFirst DEF Running
    <2>3. execs' = [execs EXCEPT ![SchemaOf(m)][v] = @ + 1]
      BY <1>3, <2>2 DEF Exec
    <2>4. Executed' = Executed \cup {v}
      BY <1>0, <2>3, ExecutedGrows, SchemaFound
    <2>5. Known' = Known
      BY <2>1 DEF Known
    <2>6. QED
      BY <2>2, <2>4, <2>5 DEF InOrder
  <1>4. ASSUME NEW m \in Migrators, Record(m)
        PROVE  InOrder'
    <2>1. pc[m] = "record" /\ UNCHANGED execs
      BY <1>4 DEF Record, Statement
    <2>2. PICK v \in Version : v = NextFile(m) /\ 1 .. (v - 1) \subseteq Known
      BY <2>1, NextFileFirst DEF Running
    <2>3. recorded' = [recorded EXCEPT ![SchemaOf(m)] = @ \cup {v}]
      BY <1>4, <2>2 DEF Record
    <2>4. Known' = Known \cup {v}
      <3>1. {v} \in SUBSET Version
        OBVIOUS
      <3>2. QED
        BY <1>0, <2>3, <3>1, KnownGrows, SchemaFound
    <2>5. Executed' = Executed
      BY <2>1 DEF Executed
    <2>6. QED
      BY <2>2, <2>4, <2>5 DEF InOrder
  <1>5. ASSUME NEW m \in Migrators, Call(m) \/ Step(m),
               ~Baseline(m), ~Exec(m), ~Record(m)
        PROVE  UNCHANGED <<recorded, execs>>
    BY <1>5 DEF Call, Step, Acquire, SetPath, TryLock, InitTable, Pending, Unlock,
                UnlockFails, Finish, FailsOutside, FailsInside, db
  <1>6. ASSUME NEW r \in Replicas, AppTake(r) \/ AppGive(r) \/ Crash(r)
        PROVE  UNCHANGED <<recorded, execs>>
    BY <1>6 DEF AppTake, AppGive, Crash, db
  <1>7. CASE UNCHANGED vars
    BY <1>1, <1>7 DEF vars, db
  <1>8. QED
    BY <1>1, <1>2, <1>3, <1>4, <1>5, <1>6, <1>7 DEF Next, Quiet

\* Versions are recorded and executed in order, for any number of goroutines and whatever
\* schemas their sessions find: nothing is executed before everything that precedes it is
\* recorded in one of them, although calls that overlap have looked for what is pending at
\* different times and in different tables.
THEOREM AppliedInOrder == Spec => []InOrder
  <1>1. Init => InOrder
    BY DEF Init, InOrder, Known, Executed
  <1>2. RecordInv /\ InOrder /\ [Next]_vars => InOrder'
    BY InOrderStep
  <1>3. QED
    BY <1>1, <1>2, RecordInvariant, PTL DEF Spec

(***************************************************************************)
(* The migration schema is the default one: every statement finds it,      *)
(* whatever session it runs on.                                            *)
(***************************************************************************)
Has == recorded[MigrationSchema]
Ran == execs[MigrationSchema]

LEMMA OneSchema ==
  ASSUME MigrationSchema = DefaultSchema
  PROVE  Schemas = {MigrationSchema} /\ \A m : SchemaOf(m) = MigrationSchema
  BY DEF Schemas, SchemaOf

\* What is recorded somewhere is recorded there, and so with what was executed.
LEMMA AllThere ==
  ASSUME MigrationSchema = DefaultSchema, TypeOK
  PROVE  /\ Known = Has /\ Has \in SUBSET Version
         /\ Executed = {v \in Version : Ran[v] > 0} /\ Ran \in [Version -> Nat]
  BY OneSchema DEF Known, Executed, Has, Ran, TypeOK

LEMMA RecordsThere ==
  ASSUME MigrationSchema = DefaultSchema, TypeOK, NEW m \in Migrators, NEW S,
         recorded' = [recorded EXCEPT ![SchemaOf(m)] = @ \cup S]
  PROVE  Has' = Has \cup S
  BY OneSchema DEF Has, TypeOK

LEMMA ExecutesThere ==
  ASSUME MigrationSchema = DefaultSchema, TypeOK, NEW m \in Migrators, NEW v \in Version,
         execs' = [execs EXCEPT ![SchemaOf(m)][v] = @ + 1]
  PROVE  Ran' = [Ran EXCEPT ![v] = @ + 1]
  BY OneSchema, ExecutedGrows DEF Ran, TypeOK

\* With the default schema, a call of runMigrations that returns without an error leaves
\* it up to date: "callers must not start the server" otherwise.
THEOREM SuccessMeansCurrentHolds ==
  ASSUME MigrationSchema = DefaultSchema
  PROVE  Spec => SuccessMeansCurrent
  <1>1. RecordInv /\ [\A m \in Migrators :
                        ret'[m] = "ok" /\ ret[m] # "ok" => Version \subseteq Known]_vars
          => [\A m \in Migrators :
                ret'[m] = "ok" /\ ret[m] # "ok" => recorded[MigrationSchema] = Version]_vars
    BY AllThere DEF RecordInv, Has
  <1>2. QED
    BY <1>1, RecordInvariant, SuccessMeansRecordedHolds, PTL
       DEF SuccessMeansRecorded, SuccessMeansCurrent

(***************************************************************************)
(* With one goroutine per replica, one goroutine migrates at a time.  It   *)
(* finds accounted for whatever was executed before it came.               *)
(***************************************************************************)
Alone == \A m, n \in Inside : m = n

\* A goroutine that runs files has left exactly those the schema does not have; one that
\* takes the schema for a baseline has found nothing recorded.
LeftInv ==
    \A m \in Migrators :
        /\ pc[m] \in Running => todo[m] \cap Has = {}
        /\ pc[m] = "baseline" => Has = {}

\* Nothing but a goroutine's own steps records while it runs files.
LEMMA LeftStep ==
  ASSUME MigrationSchema = DefaultSchema, RecordInv, Alone, LeftInv, [Next]_vars
  PROVE  LeftInv'
  <1> DEFINE Left(n) == /\ pc[n] \in Running => todo[n] \cap Has = {}
                        /\ pc[n] = "baseline" => Has = {}
             Looked == Running \cup {"baseline"}
  <1>0. /\ pc \in [Migrators -> {"idle"} \cup Stmts]
        /\ todo \in [Migrators -> SUBSET Version]
        /\ TypeOK
    BY DEF RecordInv, TypeOK
  <1>1. ASSUME UNCHANGED Has,
               \A n \in Migrators :
                  pc'[n] \in Looked => pc'[n] = pc[n] /\ todo'[n] = todo[n]
        PROVE  LeftInv'
    BY <1>1 DEF LeftInv
  <1>2. ASSUME UNCHANGED <<pc, todo, recorded>>
        PROVE  LeftInv'
    BY <1>1, <1>2 DEF Has
  <1>3. ASSUME NEW m \in Migrators, NEW l, Goto(m, l), UNCHANGED <<recorded, todo>>,
               l \notin Looked
        PROVE  LeftInv'
    BY <1>0, <1>1, <1>3 DEF Goto, Has
  <1>4. ASSUME NEW m \in Migrators, pc[m] \in Locked, Left(m)',
               \A n \in Migrators \ {m} : pc'[n] = pc[n]
        PROVE  LeftInv'
    <2>1. SUFFICES ASSUME NEW n \in Migrators, n # m, pc'[n] \in Looked
                   PROVE  FALSE
      BY <1>4 DEF LeftInv, Running
    <2>2. n \in Inside /\ m \in Inside
      BY <1>4, <2>1 DEF Inside, Running, Locked, Work
    <2>3. QED
      BY <2>1, <2>2 DEF Alone
  <1>5. ASSUME NEW m \in Migrators,
               Call(m) \/ SetPath(m) \/ InitTable(m) \/ Unlock(m) \/ UnlockFails(m)
                 \/ FailsOutside(m)
        PROVE  LeftInv'
    BY <1>3, <1>5 DEF Call, SetPath, InitTable, Unlock, UnlockFails, Finish, FailsOutside,
                      Statement, db, local, Running
  <1>6. ASSUME NEW m \in Migrators, TryLock(m)
        PROVE  LeftInv'
    <2>1. UNCHANGED <<recorded, todo>>
      BY <1>6 DEF TryLock
    <2>2. Goto(m, "initTable") \/ Goto(m, "idle") \/ UNCHANGED pc
      BY <1>6 DEF TryLock
    <2>3. QED
      BY <1>2, <1>3, <2>1, <2>2 DEF Running
  <1>7. ASSUME NEW m \in Migrators, Acquire(m)
        PROVE  LeftInv'
    BY <1>2, <1>7 DEF Acquire, db, local
  <1>8. ASSUME NEW m \in Migrators, NEW left, Continue(m, left), pc[m] \in Locked,
               left \cap Has' = {}
        PROVE  LeftInv'
    <2>1. /\ \A n \in Migrators \ {m} : pc'[n] = pc[n]
          /\ todo'[m] = left /\ pc'[m] \in {"exec", "unlock"}
      BY <1>0, <1>8 DEF Continue, Goto
    <2>2. QED
      BY <1>4, <1>8, <2>1
  <1>9. ASSUME NEW m \in Migrators, Pending(m)
        PROVE  LeftInv'
    <2>1. pc[m] \in Locked /\ UNCHANGED Has /\ SchemaOf(m) = MigrationSchema
      BY <1>9, OneSchema DEF Pending, Statement, db, Has, Locked, Work
    <2>2. CASE Continue(m, Version \ recorded[SchemaOf(m)])
      BY <1>8, <2>1, <2>2 DEF Has
    <2>3. CASE Goto(m, "baseline") /\ recorded[SchemaOf(m)] = {}
      <3>1. pc'[m] = "baseline" /\ \A n \in Migrators \ {m} : pc'[n] = pc[n]
        BY <1>0, <2>3 DEF Goto
      <3>2. Left(m)'
        BY <2>1, <2>3, <3>1 DEF Running, Has
      <3>3. QED
        BY <1>4, <2>1, <3>1, <3>2
    <2>4. QED
      BY <1>9, <2>2, <2>3 DEF Pending
  <1>10. ASSUME NEW m \in Migrators, Baseline(m)
         PROVE  LeftInv'
    <2>1. pc[m] = "baseline" /\ Continue(m, Version \ First)
      BY <1>10 DEF Baseline, Statement
    <2>2. Has' = Has \cup First /\ Has = {}
      BY <1>0, <1>10, <2>1, RecordsThere DEF Baseline, LeftInv
    <2>3. QED
      BY <1>8, <2>1, <2>2 DEF Locked, Work
  <1>11. ASSUME NEW m \in Migrators, Exec(m)
         PROVE  LeftInv'
    <2>1. /\ pc[m] = "exec" /\ pc'[m] = "record"
          /\ UNCHANGED Has /\ todo'[m] = todo[m]
          /\ \A n \in Migrators \ {m} : pc'[n] = pc[n]
      BY <1>0, <1>11 DEF Exec, Statement, Goto, local, Has
    <2>2. Left(m)'
      BY <2>1 DEF LeftInv, Running
    <2>3. QED
      BY <1>4, <2>1, <2>2 DEF Locked, Work
  <1>12. ASSUME NEW m \in Migrators, Record(m)
         PROVE  LeftInv'
    <2>1. pc[m] = "record" /\ Continue(m, todo[m] \ {NextFile(m)})
      BY <1>12 DEF Record, Statement
    <2>2. Has' = Has \cup {NextFile(m)} /\ todo[m] \cap Has = {}
      BY <1>0, <1>12, <2>1, RecordsThere DEF Record, LeftInv, Running
    <2>3. QED
      BY <1>8, <2>1, <2>2 DEF Locked, Work
  <1>13. ASSUME NEW m \in Migrators, FailsInside(m)
         PROVE  LeftInv'
    <2>1. /\ Goto(m, "unlock")
          /\ todo' = [todo EXCEPT ![m] = {}]
          /\ UNCHANGED Has
      BY <1>13 DEF FailsInside, Has
    <2>2. \A n \in Migrators :
             pc'[n] \in Looked => pc'[n] = pc[n] /\ todo'[n] = todo[n]
      BY <1>0, <2>1 DEF Goto, Running
    <2>3. QED
      BY <1>1, <2>1, <2>2
  <1>14. ASSUME NEW r \in Replicas, AppTake(r) \/ AppGive(r)
         PROVE  LeftInv'
    BY <1>2, <1>14 DEF AppTake, AppGive, db, local
  <1>15. ASSUME NEW r \in Replicas, Crash(r)
         PROVE  LeftInv'
    <2>1. UNCHANGED Has
      BY <1>15 DEF Crash, Has
    <2>2. \A n \in Migrators :
             pc'[n] \in Looked => pc'[n] = pc[n] /\ todo'[n] = todo[n]
      BY <1>15 DEF Crash, Fresh, Running
    <2>3. QED
      BY <1>1, <2>1, <2>2
  <1>16. CASE UNCHANGED vars
    BY <1>2, <1>16 DEF vars, db, local
  <1>17. QED
    BY <1>5, <1>6, <1>7, <1>9, <1>10, <1>11, <1>12, <1>13, <1>14, <1>15, <1>16
       DEF Next, Step, Quiet

\* Version v was executed and nobody is about to write its revision.
Accounted ==
    \A v \in Version :
        Ran[v] > 0 => \/ v \in Has \cup interrupted
                      \/ \E m \in Migrators : pc[m] = "record" /\ v = NextFile(m)

\* A pending file of m was executed by a call that could not record it, or by m.
Repeated(m) ==
    pc[m] \in Running =>
        \A v \in todo[m] :
            Ran[v] > 0 => v \in interrupted \/ (pc[m] = "record" /\ v = NextFile(m))

RanOnce == \A v \in Version : Ran[v] > 1 => v \in interrupted

OnceInv == RanOnce /\ Accounted /\ \A m \in Migrators : Repeated(m)

\* Steps at whose ends nobody is between two files.
LEMMA OnceSame ==
  ASSUME OnceInv, UNCHANGED <<Ran, Has, interrupted>>,
         \A n \in Migrators : pc[n] \in Running \/ pc'[n] \in Running
                                 => pc'[n] = pc[n] /\ todo'[n] = todo[n]
  PROVE  OnceInv'
  <1>1. RanOnce'
    BY DEF OnceInv, RanOnce
  <1>2. \A n \in Migrators :
          pc[n] \in Running \/ pc'[n] \in Running => NextFile(n)' = NextFile(n)
    BY DEF NextFile
  <1>3. Accounted'
    BY <1>2 DEF OnceInv, Accounted, Running
  <1>4. ASSUME NEW n \in Migrators
        PROVE  Repeated(n)'
    BY <1>2 DEF OnceInv, Repeated, Running
  <1>5. QED
    BY <1>1, <1>3, <1>4 DEF OnceInv

\* The goroutine that migrates goes from one statement to the next: it is enough to
\* look at its own files.
LEMMA OnceMoves ==
  ASSUME OnceInv, Alone, NEW m \in Migrators, pc[m] \in Locked,
         \A n \in Migrators \ {m} : pc'[n] = pc[n],
         RanOnce', Repeated(m)',
         \A v \in Version :
            Ran'[v] > 0 => \/ v \in Has' \cup interrupted'
                           \/ pc'[m] = "record" /\ v = NextFile(m)'
  PROVE  OnceInv'
  <1>1. \A n \in Migrators \ {m} : pc'[n] \notin Running
    BY DEF Alone, Inside, Locked, Work, Running
  <1>2. ASSUME NEW n \in Migrators
        PROVE  Repeated(n)'
    BY <1>1 DEF Repeated
  <1>3. Accounted'
    BY DEF Accounted
  <1>4. QED
    BY <1>2, <1>3 DEF OnceInv

LEMMA OnceStep ==
  ASSUME MigrationSchema = DefaultSchema, RecordInv, Alone, LeftInv, OnceInv, [Next]_vars
  PROVE  OnceInv'
  <1>0. /\ pc \in [Migrators -> {"idle"} \cup Stmts]
        /\ todo \in [Migrators -> SUBSET Version]
        /\ Ran \in [Version -> Nat]
        /\ Has \in SUBSET Version
        /\ RanOnce
        /\ Accounted
        /\ TypeOK
    BY AllThere DEF RecordInv, TypeOK, OnceInv
  <1>1. ASSUME NEW m \in Migrators, NEW l, Goto(m, l), l \notin Running,
               pc[m] \notin Running, UNCHANGED <<Ran, Has, interrupted, todo>>
        PROVE  OnceInv'
    <2>1. /\ pc'[m] \notin Running
          /\ \A n \in Migrators \ {m} : pc'[n] = pc[n]
      BY <1>0, <1>1 DEF Goto
    <2>2. QED
      BY <1>1, <2>1, OnceSame
  <1>2. ASSUME UNCHANGED <<Ran, Has, interrupted, pc, todo>>
        PROVE  OnceInv'
    BY <1>2, OnceSame
  <1>3. ASSUME NEW m \in Migrators,
               Call(m) \/ SetPath(m) \/ InitTable(m) \/ Unlock(m) \/ UnlockFails(m)
                 \/ FailsOutside(m)
        PROVE  OnceInv'
    BY <1>1, <1>3 DEF Call, SetPath, InitTable, Unlock, UnlockFails, Finish, FailsOutside,
                      Statement, db, local, Running, Has, Ran
  <1>4. ASSUME NEW m \in Migrators, TryLock(m)
        PROVE  OnceInv'
    <2>1. UNCHANGED <<Ran, Has, interrupted, todo>> /\ pc[m] = "tryLock"
      BY <1>4 DEF TryLock, Statement, Has, Ran
    <2>2. Goto(m, "initTable") \/ Goto(m, "idle") \/ UNCHANGED pc
      BY <1>4 DEF TryLock
    <2>3. QED
      BY <1>1, <1>2, <2>1, <2>2 DEF Running
  <1>5. ASSUME NEW m \in Migrators, Acquire(m)
        PROVE  OnceInv'
    BY <1>2, <1>5 DEF Acquire, db, local, Has, Ran
  <1>6. ASSUME NEW m \in Migrators, Pending(m)
        PROVE  OnceInv'
    <2>1. /\ pc[m] = "pending" /\ SchemaOf(m) = MigrationSchema
          /\ UNCHANGED <<Ran, Has, interrupted>>
      BY <1>6, OneSchema DEF Pending, Statement, db, Ran, Has
    <2>2. \A v \in Version : Ran[v] > 0 => v \in Has \cup interrupted
      BY <1>0, <2>1 DEF Accounted, Alone, Inside, Locked, Work
    <2>3. CASE Continue(m, Version \ Has)
      <3>1. /\ pc'[m] \in {"unlock", "exec"}
            /\ todo'[m] = Version \ Has
            /\ \A n \in Migrators \ {m} : pc'[n] = pc[n]
        BY <1>0, <2>3 DEF Continue, Goto
      <3>2. RanOnce' /\ Repeated(m)'
        BY <1>0, <2>1, <2>2, <3>1 DEF RanOnce, Repeated
      <3>3. QED
        BY <2>1, <2>2, <3>1, <3>2, OnceMoves DEF Locked, Work
    <2>4. CASE Goto(m, "baseline")
      <3>1. pc'[m] = "baseline" /\ \A n \in Migrators \ {m} : pc'[n] = pc[n]
        BY <1>0, <2>4 DEF Goto
      <3>2. RanOnce' /\ Repeated(m)'
        BY <1>0, <2>1, <3>1 DEF RanOnce, Repeated, Running
      <3>3. QED
        BY <2>1, <2>2, <3>1, <3>2, OnceMoves DEF Locked, Work
    <2>5. QED
      BY <1>6, <2>1, <2>3, <2>4 DEF Pending, Has
  <1>7. ASSUME NEW m \in Migrators, Baseline(m)
         PROVE  OnceInv'
    <2>1. /\ pc[m] = "baseline"
          /\ UNCHANGED <<Ran, interrupted>>
          /\ Continue(m, Version \ First)
      BY <1>7 DEF Baseline, Statement, Ran
    <2>2. Has = {} /\ Has' = Has \cup First
      BY <1>0, <1>7, <2>1, RecordsThere DEF Baseline, LeftInv
    <2>3. \A v \in Version : Ran[v] > 0 => v \in interrupted
      BY <1>0, <2>1, <2>2 DEF Accounted, Alone, Inside, Locked, Work
    <2>4. /\ pc'[m] \in {"unlock", "exec"}
          /\ todo'[m] = Version \ First
          /\ \A n \in Migrators \ {m} : pc'[n] = pc[n]
      BY <1>0, <2>1 DEF Continue, Goto
    <2>5. RanOnce' /\ Repeated(m)'
      BY <1>0, <2>1, <2>3, <2>4 DEF RanOnce, Repeated
    <2>6. QED
      BY <2>1, <2>3, <2>4, <2>5, OnceMoves DEF Locked, Work
  <1>8. ASSUME NEW m \in Migrators, pc[m] \in Running
        PROVE  /\ todo[m] # {}
               /\ NextFile(m) \in todo[m]
               /\ \A v \in Version :
                    Ran[v] > 0 => \/ v \in Has \cup interrupted
                                  \/ pc[m] = "record" /\ v = NextFile(m)
               /\ \A v \in todo[m] :
                    Ran[v] > 0 => \/ v \in interrupted
                                  \/ pc[m] = "record" /\ v = NextFile(m)
    <2>1. todo[m] # {} /\ NextFile(m) \in todo[m]
      BY <1>0, <1>8, NextFilePending DEF RecordInv, Recorded, Running
    <2>2. \A n \in Migrators : pc[n] = "record" => n = m
      BY <1>8 DEF Alone, Inside, Locked, Work, Running
    <2>3. QED
      BY <1>0, <1>8, <2>1, <2>2 DEF Accounted, OnceInv, Repeated
  <1>9. ASSUME NEW m \in Migrators, Exec(m)
        PROVE  OnceInv'
    <2>1. /\ pc[m] = "exec"
          /\ UNCHANGED <<Has, interrupted, todo>>
          /\ Goto(m, "record")
      BY <1>9 DEF Exec, Statement, local, Has
    <2>2. PICK v \in todo[m] : v = NextFile(m)
      BY <1>8, <2>1 DEF Running
    <2>3. Ran' = [Ran EXCEPT ![v] = @ + 1] /\ NextFile(m)' = v
      BY <1>0, <1>9, <2>1, <2>2, ExecutesThere DEF Exec, NextFile
    <2>4. /\ pc'[m] = "record"
          /\ \A n \in Migrators \ {m} : pc'[n] = pc[n]
      BY <1>0, <2>1 DEF Goto
    <2>5. v \in Version /\ Ran[v] \in Nat /\ \A w \in Version \ {v} : Ran'[w] = Ran[w]
      BY <1>0, <2>3
    <2>6. RanOnce'
      <3>1. Ran'[v] > 1 => v \in interrupted
        BY <1>0, <1>8, <2>1, <2>3, <2>5 DEF Running
      <3>2. QED
        BY <1>0, <2>1, <2>5, <3>1 DEF RanOnce
    <2>7. Repeated(m)'
      BY <1>8, <2>1, <2>3, <2>4, <2>5 DEF Repeated, Running
    <2>8. \A w \in Version :
             Ran'[w] > 0 => \/ w \in Has' \cup interrupted'
                            \/ pc'[m] = "record" /\ w = NextFile(m)'
      BY <1>8, <2>1, <2>3, <2>4, <2>5 DEF Running
    <2>9. QED
      BY <2>1, <2>4, <2>6, <2>7, <2>8, OnceMoves DEF Locked, Work
  <1>10. ASSUME NEW m \in Migrators, Record(m)
        PROVE  OnceInv'
    <2>1. /\ pc[m] = "record"
          /\ UNCHANGED <<Ran, interrupted>>
          /\ Has' = Has \cup {NextFile(m)}
          /\ Continue(m, todo[m] \ {NextFile(m)})
      BY <1>0, <1>10, RecordsThere DEF Record, Statement, Ran
    <2>2. /\ pc'[m] \in {"unlock", "exec"}
          /\ todo'[m] = todo[m] \ {NextFile(m)}
          /\ \A n \in Migrators \ {m} : pc'[n] = pc[n]
      BY <1>0, <2>1 DEF Continue, Goto
    <2>3. RanOnce'
      BY <1>0, <2>1 DEF RanOnce
    <2>4. Repeated(m)'
      BY <1>8, <2>1, <2>2 DEF Repeated, Running
    <2>5. \A w \in Version : Ran'[w] > 0 => w \in Has' \cup interrupted'
      BY <1>8, <2>1 DEF Running
    <2>6. QED
      BY <2>1, <2>2, <2>3, <2>4, <2>5, OnceMoves DEF Locked, Work
  <1>11. ASSUME NEW m \in Migrators, FailsInside(m)
         PROVE  OnceInv'
    <2>1. /\ pc[m] \in Work
          /\ UNCHANGED <<Ran, Has>>
          /\ interrupted' = IF pc[m] = "record" THEN interrupted \cup {NextFile(m)}
                                                ELSE interrupted
          /\ Goto(m, "unlock")
      BY <1>11 DEF FailsInside, Statement, Ran, Has
    <2>2. pc'[m] = "unlock" /\ \A n \in Migrators \ {m} : pc'[n] = pc[n]
      BY <1>0, <2>1 DEF Goto
    <2>3. RanOnce' /\ Repeated(m)'
      BY <1>0, <2>1, <2>2 DEF RanOnce, Repeated, Running
    <2>4. \A n \in Migrators : pc[n] = "record" => n = m
      BY <2>1 DEF Alone, Inside, Locked, Work
    <2>5. \A w \in Version : Ran'[w] > 0 => w \in Has' \cup interrupted'
      BY <1>0, <2>1, <2>4 DEF Accounted
    <2>6. QED
      BY <2>1, <2>2, <2>3, <2>5, OnceMoves DEF Locked, Work
  <1>12. ASSUME NEW r \in Replicas, AppTake(r) \/ AppGive(r)
         PROVE  OnceInv'
    BY <1>2, <1>12 DEF AppTake, AppGive, db, local, Has, Ran
  <1>13. ASSUME NEW r \in Replicas, Crash(r)
         PROVE  OnceInv'
    <2>1. /\ UNCHANGED <<Ran, Has>>
          /\ interrupted' = interrupted \cup
                {NextFile(m) : m \in {n \in Of(r) : pc[n] = "record"}}
          /\ pc' = [m \in Migrators |-> IF m \in Of(r) THEN "idle" ELSE pc[m]]
          /\ todo' = [m \in Migrators |-> IF m \in Of(r) THEN {} ELSE todo[m]]
      BY <1>13 DEF Crash, Fresh, Has, Ran
    <2>2. \A n \in Migrators : pc'[n] \in Running =>
             /\ pc'[n] = pc[n] /\ todo'[n] = todo[n] /\ NextFile(n)' = NextFile(n)
      BY <2>1 DEF Running, NextFile
    <2>3. \A n \in Migrators : pc[n] = "record" =>
             \/ NextFile(n) \in interrupted'
             \/ pc'[n] = "record" /\ NextFile(n)' = NextFile(n)
      BY <2>1 DEF NextFile
    <2>4. RanOnce'
      BY <1>0, <2>1 DEF RanOnce
    <2>5. Accounted'
      BY <1>0, <2>1, <2>3 DEF Accounted
    <2>6. ASSUME NEW n \in Migrators
          PROVE  Repeated(n)'
      BY <2>1, <2>2 DEF Repeated, OnceInv
    <2>7. QED
      BY <2>4, <2>5, <2>6 DEF OnceInv
  <1>14. CASE UNCHANGED vars
    BY <1>2, <1>14 DEF vars, db, local, Has, Ran
  <1>15. QED
    BY <1>3, <1>4, <1>5, <1>6, <1>9, <1>10, <1>11, <1>12, <1>13, <1>14,
       <1>7 DEF Next, Step, Quiet

\* With the default schema, when no two goroutines of a replica migrate, the SQL of a
\* version is executed again only after a call failed, or its replica crashed, between the
\* SQL and the revision: the lock keeps a second migrator out until the revisions of the
\* first are written.
THEOREM ExecutedOnceHolds ==
  ASSUME \A m, n \in Migrators : ReplicaOf[m] = ReplicaOf[n] => m = n,
         MigrationSchema = DefaultSchema
  PROVE  Spec => []ExecutedOnce
  <1>1. Init => OnceInv /\ LeftInv
    BY OneSchema DEF Init, OnceInv, RanOnce, Accounted, Repeated, Running, LeftInv, Ran
  <1>2. ReplicasExcluded => Alone
    BY DEF ReplicasExcluded, Alone, Inside
  <1>3. RecordInv /\ ReplicasExcluded /\ OnceInv /\ LeftInv /\ [Next]_vars
          => OnceInv' /\ LeftInv'
    BY <1>2, OnceStep, LeftStep
  <1>4. OnceInv => ExecutedOnce
    BY OneSchema DEF OnceInv, RanOnce, ExecutedOnce, Ran
  <1>5. QED
    BY <1>1, <1>3, <1>4, RecordInvariant, ReplicasExcludedHolds, PTL DEF Spec

(***************************************************************************)
(* The refinement, with one goroutine per replica: whatever is about to be *)
(* recorded, the goroutine inside executed it.                             *)
(***************************************************************************)

\* What the goroutine inside applies is all that is being applied.
LEMMA ApplyingAlone ==
  ASSUME Alone, NEW m \in Migrators, pc[m] \in Locked
  PROVE  Applying = IF pc[m] = "record" THEN {NextFile(m)} ELSE {}
  <1>1. \A n \in Migrators : pc[n] = "record" => n = m
    BY DEF Alone, Inside, Locked, Work
  <1>2. QED
    BY <1>1 DEF Applying

\* The same after a step of that goroutine.
LEMMA ApplyingNext ==
  ASSUME RecordInv, Alone, NEW m \in Migrators, pc[m] \in Locked, NEW l, Goto(m, l)
  PROVE  Applying' = IF l = "record" THEN {NextFile(m)'} ELSE {}
  <1>1. pc'[m] = l /\ \A n \in Migrators \ {m} : pc'[n] = pc[n]
    BY DEF RecordInv, TypeOK, Goto
  <1>2. \A n \in Migrators : pc'[n] = "record" => n = m
    BY <1>1 DEF Alone, Inside, Locked, Work
  <1>3. QED
    BY <1>1, <1>2 DEF Applying

\* Nobody comes to or leaves the place between a file's SQL and its revision.
LEMMA ApplyingSame ==
  ASSUME \A n \in Migrators : pc[n] = "record" \/ pc'[n] = "record"
                                 => pc'[n] = pc[n] /\ todo'[n] = todo[n]
  PROVE  Applying' = Applying
  <1>1. \A n \in Migrators : pc[n] = "record" => NextFile(n)' = NextFile(n)
    BY DEF NextFile
  <1>2. QED
    BY <1>1 DEF Applying

\* Every step is a step of SchemaHistory or leaves the history alone.
LEMMA HistoryStep ==
  ASSUME MigrationSchema = DefaultSchema, RecordInv, Alone, LeftInv, [Next]_vars
  PROVE  [History!Next]_(History!history)
  <1>0. /\ pc \in [Migrators -> {"idle"} \cup Stmts]
        /\ todo \in [Migrators -> SUBSET Version]
        /\ TypeOK /\ Known = Has
    BY AllThere DEF RecordInv, TypeOK
  <1>1. ASSUME UNCHANGED <<Has, Ran, interrupted>>,
               \A n \in Migrators : pc[n] = "record" \/ pc'[n] = "record"
                                      => pc'[n] = pc[n] /\ todo'[n] = todo[n]
        PROVE  [History!Next]_(History!history)
    BY <1>1, ApplyingSame DEF History!history, Has, Ran
  <1>2. ASSUME UNCHANGED <<Has, Ran, interrupted, pc, todo>>
        PROVE  [History!Next]_(History!history)
    BY <1>1, <1>2
  <1>3. ASSUME NEW m \in Migrators, NEW l, Goto(m, l), l # "record", pc[m] # "record",
               UNCHANGED <<Has, Ran, interrupted, todo>>
        PROVE  [History!Next]_(History!history)
    <2>1. pc'[m] = l /\ \A n \in Migrators \ {m} : pc'[n] = pc[n]
      BY <1>0, <1>3 DEF Goto
    <2>2. QED
      BY <1>1, <1>3, <2>1
  <1>4. ASSUME NEW m \in Migrators,
               Call(m) \/ SetPath(m) \/ InitTable(m) \/ Unlock(m) \/ UnlockFails(m)
                 \/ FailsOutside(m)
        PROVE  [History!Next]_(History!history)
    BY <1>3, <1>4 DEF Call, SetPath, InitTable, Unlock, UnlockFails, Finish, FailsOutside,
                      Statement, db, local, Has, Ran
  <1>5. ASSUME NEW m \in Migrators, TryLock(m)
        PROVE  [History!Next]_(History!history)
    <2>1. pc[m] = "tryLock" /\ UNCHANGED <<Has, Ran, interrupted, todo>>
      BY <1>5 DEF TryLock, Statement, Has, Ran
    <2>2. Goto(m, "initTable") \/ Goto(m, "idle") \/ UNCHANGED pc
      BY <1>5 DEF TryLock
    <2>3. QED
      BY <1>2, <1>3, <2>1, <2>2
  <1>6. ASSUME NEW m \in Migrators, Acquire(m)
        PROVE  [History!Next]_(History!history)
    BY <1>2, <1>6 DEF Acquire, db, local, Has, Ran
  <1>7. ASSUME NEW m \in Migrators, Pending(m)
        PROVE  [History!Next]_(History!history)
    <2>1. pc[m] = "pending" /\ UNCHANGED <<Has, Ran, interrupted>>
      BY <1>7 DEF Pending, Statement, db, Has, Ran
    <2>2. PICK l \in {"unlock", "exec", "baseline"} : Goto(m, l)
      BY <1>7 DEF Pending, Continue
    <2>3. Applying = {} /\ Applying' = {}
      BY <2>1, <2>2, ApplyingAlone, ApplyingNext DEF Locked, Work
    <2>4. QED
      BY <2>1, <2>3 DEF History!history, Has, Ran
  <1>8. ASSUME NEW m \in Migrators, Baseline(m)
         PROVE  [History!Next]_(History!history)
    <2>1. /\ pc[m] = "baseline"
          /\ UNCHANGED <<Ran, interrupted>>
          /\ Continue(m, Version \ First)
          /\ TRUE \in Baselines
      BY <1>8 DEF Baseline, Statement, Ran, RecordInv, Recorded
    <2>2. Has = {} /\ Has' = Has \cup First
      BY <1>0, <1>8, <2>1, RecordsThere DEF Baseline, LeftInv
    <2>3. PICK l \in {"unlock", "exec"} : Goto(m, l)
      BY <2>1 DEF Continue
    <2>4. Applying = {} /\ Applying' = {}
      BY <2>1, <2>3, ApplyingAlone, ApplyingNext DEF Locked, Work
    <2>5. History!Baseline
      BY <2>1, <2>2, <2>4 DEF History!Baseline, Version, First, Has, Ran
    <2>6. QED
      BY <2>5 DEF History!Next
  <1>9. ASSUME NEW m \in Migrators, Exec(m)
        PROVE  [History!Next]_(History!history)
    <2>1. /\ pc[m] = "exec"
          /\ UNCHANGED <<Has, interrupted, todo>>
          /\ Goto(m, "record")
      BY <1>9 DEF Exec, Statement, local, Has
    <2>2. PICK v \in Version : /\ v = NextFile(m)
                               /\ v \in todo[m]
                               /\ 1 .. (v - 1) \subseteq Has
      BY <1>0, <2>1, NextFileFirst DEF Running
    <2>3. Ran' = [Ran EXCEPT ![v] = @ + 1] /\ NextFile(m)' = v
      BY <1>0, <1>9, <2>1, <2>2, ExecutesThere DEF Exec, NextFile
    <2>4. v \notin Has
      BY <2>1, <2>2 DEF LeftInv, Running
    <2>5. Applying = {} /\ Applying' = {v}
      BY <2>1, <2>3, ApplyingAlone, ApplyingNext DEF Locked, Work
    <2>6. History!Execute(v)
      BY <2>1, <2>2, <2>3, <2>4, <2>5 DEF History!Execute, Has, Ran
    <2>7. QED
      BY <2>6 DEF History!Next, Version
  <1>10. ASSUME NEW m \in Migrators, Record(m)
        PROVE  [History!Next]_(History!history)
    <2>1. /\ pc[m] = "record"
          /\ UNCHANGED <<Ran, interrupted>>
          /\ Has' = Has \cup {NextFile(m)}
          /\ Continue(m, todo[m] \ {NextFile(m)})
      BY <1>0, <1>10, RecordsThere DEF Record, Statement, Ran
    <2>2. PICK v \in Version : v = NextFile(m)
      BY <2>1, NextFileFirst DEF Running
    <2>3. PICK l \in {"unlock", "exec"} : Goto(m, l)
      BY <2>1 DEF Continue
    <2>4. Applying = {v} /\ Applying' = {}
      BY <2>1, <2>2, <2>3, ApplyingAlone, ApplyingNext DEF Locked, Work
    <2>5. History!Record(v)
      BY <2>1, <2>2, <2>4 DEF History!Record, Has, Ran
    <2>6. QED
      BY <2>5 DEF History!Next, Version
  <1>11. ASSUME NEW m \in Migrators, FailsInside(m)
         PROVE  [History!Next]_(History!history)
    <2>1. /\ pc[m] \in Work
          /\ UNCHANGED <<Ran, Has>>
          /\ interrupted' = IF pc[m] = "record" THEN interrupted \cup {NextFile(m)}
                                                ELSE interrupted
          /\ Goto(m, "unlock")
      BY <1>11 DEF FailsInside, Statement, Ran, Has
    <2>2. Applying' = {} /\ (pc[m] # "record" => Applying = {})
      BY <2>1, ApplyingAlone, ApplyingNext DEF Locked, Work
    <2>3. CASE pc[m] # "record"
      BY <2>1, <2>2, <2>3 DEF History!history, Has, Ran
    <2>4. CASE pc[m] = "record"
      <3>1. PICK v \in Version : v = NextFile(m)
        BY <2>4, NextFileFirst DEF Running
      <3>2. Applying = {v}
        BY <2>4, <3>1, ApplyingAlone DEF Locked, Work
      <3>3. History!Interrupt(v)
        BY <2>1, <2>2, <2>4, <3>1, <3>2 DEF History!Interrupt, Has, Ran
      <3>4. QED
        BY <3>3 DEF History!Next, Version
    <2>5. QED
      BY <2>3, <2>4
  <1>12. ASSUME NEW r \in Replicas, AppTake(r) \/ AppGive(r)
         PROVE  [History!Next]_(History!history)
    BY <1>2, <1>12 DEF AppTake, AppGive, db, local, Has, Ran
  <1>13. ASSUME NEW r \in Replicas, Crash(r)
         PROVE  [History!Next]_(History!history)
    <2>1. /\ UNCHANGED <<Ran, Has>>
          /\ interrupted' = interrupted \cup
                {NextFile(m) : m \in {n \in Of(r) : pc[n] = "record"}}
          /\ pc' = [m \in Migrators |-> IF m \in Of(r) THEN "idle" ELSE pc[m]]
          /\ todo' = [m \in Migrators |-> IF m \in Of(r) THEN {} ELSE todo[m]]
      BY <1>13 DEF Crash, Fresh, Has, Ran
    <2>2. CASE \A m \in Of(r) : pc[m] # "record"
      <3>1. UNCHANGED interrupted
        BY <2>1, <2>2
      <3>2. \A n \in Migrators : pc[n] = "record" \/ pc'[n] = "record"
                                    => pc'[n] = pc[n] /\ todo'[n] = todo[n]
        BY <2>1, <2>2
      <3>3. QED
        BY <1>1, <2>1, <3>1, <3>2
    <2>3. CASE \E m \in Of(r) : pc[m] = "record"
      <3>1. PICK m \in Of(r) : pc[m] = "record"
        BY <2>3
      <3>2. m \in Migrators
        BY DEF Of
      <3>3. PICK v \in Version : v = NextFile(m)
        BY <3>1, <3>2, NextFileFirst DEF Running
      <3>4. \A n \in Migrators : pc[n] = "record" => n = m
        BY <3>1, <3>2 DEF Alone, Inside, Locked, Work
      <3>5. Applying = {v}
        BY <3>1, <3>2, <3>3, ApplyingAlone DEF Locked, Work
      <3>6. \A n \in Migrators : pc'[n] # "record"
        BY <2>1, <3>4
      <3>7. Applying' = {}
        BY <3>6 DEF Applying
      <3>8. {n \in Of(r) : pc[n] = "record"} = {m}
        BY <3>1, <3>4 DEF Of
      <3>9. interrupted' = interrupted \cup {v}
        BY <2>1, <3>3, <3>8
      <3>10. History!Interrupt(v)
        BY <2>1, <3>5, <3>7, <3>9 DEF History!Interrupt, Has, Ran
      <3>11. QED
        BY <3>10 DEF History!Next, Version
    <2>4. QED
      BY <2>2, <2>3
  <1>14. CASE UNCHANGED vars
    BY <1>2, <1>14 DEF vars, db, local, Has, Ran
  <1>15. QED
    BY <1>4, <1>5, <1>6, <1>7, <1>9, <1>10, <1>11, <1>12, <1>13, <1>14, <1>8
       DEF Next, Step, Quiet

\* With the default schema, when no two goroutines of a replica migrate, the schema has
\* the history of a database that one process migrates, file after file: the lock, the
\* look at the revisions under it and the revision after each file make any number of
\* replicas do so, whatever calls fail and whichever replicas crash.
THEOREM HistoryImplemented ==
  ASSUME \A m, n \in Migrators : ReplicaOf[m] = ReplicaOf[n] => m = n,
         MigrationSchema = DefaultSchema
  PROVE  Spec => ImplementsHistory
  <1>1. Init => LeftInv
    BY DEF Init, LeftInv, Running
  <1>2. ReplicasExcluded => Alone
    BY DEF ReplicasExcluded, Alone, Inside
  <1>3. RecordInv /\ ReplicasExcluded /\ LeftInv /\ [Next]_vars => LeftInv'
    BY <1>2, LeftStep
  <1>4. Init => History!Init
    BY OneSchema DEF Init, History!Init, Applying, Version
  <1>5. RecordInv /\ ReplicasExcluded /\ LeftInv /\ [Next]_vars
           => [History!Next]_(History!history)
    BY <1>2, HistoryStep
  <1>6. QED
    BY <1>1, <1>3, <1>4, <1>5, RecordInvariant, ReplicasExcludedHolds, PTL
       DEF Spec, ImplementsHistory, History!Spec

(***************************************************************************)
(* Calls are short: each statement is sent once for each file, the lock is *)
(* asked for as often as the deadline allows, and what is pending shrinks. *)
(***************************************************************************)
\* How far a call at statement l is from its end, files apart.
ToDo(l) ==
    CASE l = "setPath"   -> 8
      [] l = "tryLock"   -> 7
      [] l = "initTable" -> 6
      [] l = "pending"   -> 5
      [] l = "baseline"  -> 4
      [] l = "exec"      -> 3
      [] l = "record"    -> 2
      [] l = "unlock"    -> 1
      [] l = "idle"      -> 0

\* The call of m comes nearer to its end: it gets its session, another attempt at the lock
\* is over, a file is done, or it goes on to a later statement.
Advances(m) ==
    \/ /\ conn[m] = NoConn /\ conn'[m] # NoConn
       /\ pc'[m] = pc[m] /\ polls'[m] = polls[m] /\ todo'[m] = todo[m]
    \/ /\ pc[m] = "tryLock" /\ pc'[m] = "tryLock"
       /\ polls[m] < polls'[m] /\ polls'[m] <= MaxPolls
    \/ /\ pc[m] = "record" /\ pc'[m] = "exec"
       /\ todo'[m] \subseteq todo[m] /\ todo'[m] # todo[m]
    \/ /\ ToDo(pc'[m]) < ToDo(pc[m])
       /\ pc[m] \in {"exec", "record"} => todo'[m] \subseteq todo[m]

\* Nothing of m's call changes.
StaysPut(m) ==
    pc'[m] = pc[m] /\ conn'[m] = conn[m] /\ polls'[m] = polls[m] /\ todo'[m] = todo[m]

\* Where a call that has files left goes.
LEMMA ContinueTo ==
  ASSUME TypeOK, NEW m \in Migrators, NEW left, Continue(m, left)
  PROVE  todo'[m] = left /\ pc'[m] \in {"exec", "unlock"}
  BY DEF Continue, Goto, TypeOK

LEMMA StepAdvances ==
  ASSUME RecordInv, NEW m \in Migrators, Step(m)
  PROVE  pc[m] # "idle" /\ Advances(m)
  <1>1. /\ TypeOK /\ pc \in [Migrators -> {"idle"} \cup Stmts]
        /\ conn \in [Migrators -> Conn]
        /\ todo \in [Migrators -> SUBSET Version]
        /\ polls \in [Migrators -> 0 .. MaxPolls] /\ MaxPolls \in Nat
    BY MigrationAssumption DEF RecordInv, TypeOK
  <1>2. CASE Acquire(m)
    <2>1. NoConn \notin Session
      BY MigrationAssumption DEF Session
    <2>2. \A s \in SessionOf(ReplicaOf[m]) : s # NoConn
      BY <2>1 DEF SessionOf
    <2>3. conn[m] = NoConn /\ conn'[m] # NoConn /\ pc[m] # "idle"
      BY <1>1, <1>2, <2>2 DEF Acquire, Stmts, Locked, Work
    <2>4. QED
      BY <1>2, <2>3 DEF Acquire, Advances, local
  <1>3. CASE SetPath(m) \/ InitTable(m)
    BY <1>1, <1>3 DEF SetPath, InitTable, Statement, Goto, Advances, ToDo
  <1>4. CASE TryLock(m)
    BY <1>1, <1>4 DEF TryLock, Statement, Goto, Advances, ToDo
  <1>5. CASE Pending(m) \/ Baseline(m)
    <2>1. \/ pc[m] = "pending" /\ pc'[m] \in {"baseline", "exec", "unlock"}
          \/ pc[m] = "baseline" /\ pc'[m] \in {"exec", "unlock"}
      BY <1>1, <1>5, ContinueTo DEF Pending, Baseline, Statement, Goto
    <2>2. QED
      BY <2>1 DEF Advances, ToDo
  <1>6. CASE Exec(m)
    BY <1>1, <1>6 DEF Exec, Statement, Goto, Advances, ToDo, local
  <1>7. CASE Record(m)
    <2>1. NextFile(m) \in todo[m] /\ pc[m] = "record"
      BY <1>1, <1>7, NextFilePending DEF Record, Statement, RecordInv, Recorded
    <2>2. /\ todo'[m] = todo[m] \ {NextFile(m)}
          /\ pc'[m] \in {"exec", "unlock"}
      BY <1>1, <1>7, ContinueTo DEF Record
    <2>3. QED
      BY <2>1, <2>2 DEF Advances, ToDo
  <1>8. CASE Unlock(m) \/ UnlockFails(m) \/ FailsOutside(m)
    BY <1>1, <1>8 DEF Unlock, UnlockFails, Finish, FailsOutside, Statement, Goto, Advances,
       ToDo
  <1>9. CASE FailsInside(m)
    <2>1. pc[m] \in Work /\ pc'[m] = "unlock" /\ todo'[m] \subseteq todo[m]
      BY <1>1, <1>9 DEF FailsInside, Statement, Goto
    <2>2. QED
      BY <2>1 DEF Advances, ToDo, Work
  <1>10. QED
    BY <1>2, <1>3, <1>4, <1>5, <1>6, <1>7, <1>8, <1>9 DEF Step

\* What else happens leaves a call where it is, or is the crash of its replica.
LEMMA OthersStayPut ==
  ASSUME RecordInv, NEW m \in Migrators, pc[m] # "idle", ~Step(m), [Next]_vars
  PROVE  StaysPut(m) \/ pc'[m] = "idle"
  <1>1. TypeOK
    BY DEF RecordInv
  <1>2. ASSUME NEW n \in Migrators, Step(n) PROVE StaysPut(m)
    <2>1. n # m
      BY <1>2
    <2>2. CASE Acquire(n)
      BY <1>1, <2>1, <2>2 DEF Acquire, StaysPut, local, TypeOK
    <2>3. CASE SetPath(n) \/ TryLock(n) \/ InitTable(n) \/ Exec(n)
      BY <1>1, <2>1, <2>3 DEF SetPath, TryLock, InitTable, Exec, Statement, Goto, StaysPut,
         local, TypeOK
    <2>4. CASE Pending(n) \/ Baseline(n) \/ Record(n)
      BY <1>1, <2>1, <2>4 DEF Pending, Baseline, Record, Continue, Statement, Goto, StaysPut,
         TypeOK
    <2>5. CASE Unlock(n) \/ UnlockFails(n) \/ FailsOutside(n) \/ FailsInside(n)
      BY <1>1, <2>1, <2>5 DEF Unlock, UnlockFails, Finish, FailsOutside, FailsInside,
         Statement, Goto, StaysPut, TypeOK
    <2>6. QED
      BY <1>2, <2>2, <2>3, <2>4, <2>5 DEF Step
  <1>3. ASSUME NEW n \in Migrators, Call(n) PROVE StaysPut(m)
    BY <1>1, <1>3 DEF Call, Goto, StaysPut, local, TypeOK
  <1>4. ASSUME NEW r \in Replicas, Crash(r) PROVE StaysPut(m) \/ pc'[m] = "idle"
    BY <1>4 DEF Crash, Fresh, StaysPut
  <1>5. CASE (\E r \in Replicas : AppTake(r) \/ AppGive(r)) \/ UNCHANGED vars
    BY <1>5 DEF AppTake, AppGive, StaysPut, local, vars
  <1>6. QED
    BY <1>2, <1>3, <1>4, <1>5 DEF Next, Quiet

\* Every step of a migration brings its call nearer to its end, and nobody else sets it
\* back, although other goroutines and replicas change what is recorded and who holds the
\* lock: CallsReturn is left to depend on getting a session, and on nothing else.
CallsAdvance ==
    [][\A m \in Migrators :
         /\ Step(m) => Advances(m)
         /\ pc[m] # "idle" /\ ~Step(m) => StaysPut(m) \/ pc'[m] = "idle"]_vars

\* runMigrations does not poll beyond its deadline, nor run a file twice in a call.
THEOREM CallsAdvanceHolds == Spec => CallsAdvance
  <1>1. RecordInv /\ [Next]_vars =>
          [\A m \in Migrators :
             /\ Step(m) => Advances(m)
             /\ pc[m] # "idle" /\ ~Step(m) => StaysPut(m) \/ pc'[m] = "idle"]_vars
    BY StepAdvances, OthersStayPut
  <1>2. QED
    BY <1>1, RecordInvariant, PTL DEF Spec, CallsAdvance

(***************************************************************************)
(* The pool hands a session to one user at a time.                         *)
(***************************************************************************)
\* A session serves one statement, or the application.
OneUser ==
    /\ \A m, n \in Migrators : conn[m] # NoConn /\ conn[m] = conn[n] => m = n
    /\ \A m \in Migrators, r \in Replicas : conn[m] # NoConn => conn[m] # app[r]

\* No idle session is listed twice, or used.
IdleApart ==
    \A r \in Replicas :
        /\ \A i, j \in 1 .. Len(idle[r]) : idle[r][i] = idle[r][j] => i = j
        /\ \A i \in 1 .. Len(idle[r]) : idle[r][i] \notin Busy(r)

\* Sequences without repetitions that avoid B.
Apart(q, B) ==
    /\ \A i, j \in 1 .. Len(q) : q[i] = q[j] => i = j
    /\ \A i \in 1 .. Len(q) : q[i] \notin B

LEMMA ApartSmaller ==
  ASSUME NEW q, NEW A, NEW B, Apart(q, A), B \subseteq A
  PROVE  Apart(q, B)
  BY DEF Apart

\* The rest of the idle sessions is apart from the first one as well.
LEMMA ApartTail ==
  ASSUME NEW S, NEW q \in Seq(S), q # <<>>, NEW B, Apart(q, B)
  PROVE  Head(q) \notin B /\ Apart(Tail(q), B \cup {Head(q)})
  <1>1. /\ Len(q) \in Nat \ {0} /\ Head(q) = q[1]
        /\ Len(Tail(q)) = Len(q) - 1
        /\ \A i \in 1 .. Len(Tail(q)) : Tail(q)[i] = q[i + 1]
    OBVIOUS
  <1>2. \A i \in 1 .. Len(Tail(q)) : i + 1 \in 1 .. Len(q) /\ i + 1 # 1
    BY <1>1
  <1>3. \A i \in 1 .. Len(Tail(q)) : Tail(q)[i] \notin B \cup {Head(q)}
    BY <1>1, <1>2 DEF Apart
  <1>4. \A i, j \in 1 .. Len(Tail(q)) : Tail(q)[i] = Tail(q)[j] => i = j
    BY <1>1, <1>2 DEF Apart
  <1>5. QED
    BY <1>1, <1>3, <1>4 DEF Apart

\* A session that was used may be listed, once it is not used any more.
LEMMA ApartCons ==
  ASSUME NEW S, NEW q \in Seq(S), NEW s \in S, NEW A, NEW B, Apart(q, A), s \in A,
         s \notin B, B \subseteq A
  PROVE  Apart(<<s>> \o q, B)
  <1>1. /\ Len(q) \in Nat
        /\ Len(<<s>> \o q) = Len(q) + 1
        /\ (<<s>> \o q)[1] = s
        /\ \A i \in 2 .. Len(q) + 1 : (<<s>> \o q)[i] = q[i - 1]
    OBVIOUS
  <1>2. \A i \in 2 .. Len(q) + 1 : i - 1 \in 1 .. Len(q)
    BY <1>1
  <1>3. \A i \in 1 .. Len(q) + 1 : i = 1 \/ i \in 2 .. Len(q) + 1
    BY <1>1
  <1>4. \A i \in 2 .. Len(q) + 1 : (<<s>> \o q)[i] \notin B /\ (<<s>> \o q)[i] # s
    BY <1>1, <1>2 DEF Apart
  <1>5. \A i, j \in 2 .. Len(q) + 1 : (<<s>> \o q)[i] = (<<s>> \o q)[j] => i = j
    BY <1>1, <1>2 DEF Apart
  <1>6. QED
    BY <1>1, <1>3, <1>4, <1>5 DEF Apart

\* Whom a session of r is used by is of r.
LEMMA UsersOf ==
  ASSUME Own, NEW r \in Replicas, NEW s \in SessionOf(r)
  PROVE  /\ s \in Busy(r) <=> app[r] = s \/ \E m \in Migrators : conn[m] = s
         /\ s # NoConn
         /\ \A q \in Replicas : app[q] = s => q = r
  <1>1. \A q \in Replicas : s \in SessionOf(q) => q = r
    BY DEF SessionOf
  <1>2. s # NoConn
    BY MigrationAssumption DEF SessionOf, Session
  <1>3. \A m \in Migrators : ReplicaOf[m] \in Replicas
    BY MigrationAssumption
  <1>4. \A m \in Migrators : conn[m] = s => ReplicaOf[m] = r
    BY <1>1, <1>2, <1>3 DEF Own
  <1>5. QED
    BY <1>1, <1>2, <1>4 DEF Own, Busy

\* Who takes a session is its only user.
LEMMA TakenAlone ==
  ASSUME Own, IdleApart, NEW r \in Replicas, NEW s \in SessionOf(r), TakeSession(r, s)
  PROVE  /\ s \notin Busy(r)
         /\ Apart(idle'[r], Busy(r) \cup {s})
         /\ \A q \in Replicas \ {r} : idle'[q] = idle[q]
  <1>1. Apart(idle[r], Busy(r)) /\ idle[r] \in Seq(SessionOf(r))
    BY DEF IdleApart, Apart, Own
  <1>2. CASE idle[r] # <<>> /\ s = Head(idle[r]) /\ idle' = [idle EXCEPT ![r] = Tail(@)]
    <2>1. idle'[r] = Tail(idle[r]) /\ \A q \in Replicas \ {r} : idle'[q] = idle[q]
      BY <1>2 DEF Own
    <2>2. QED
      BY <1>1, <1>2, <2>1, ApartTail
  <1>3. CASE idle[r] = <<>> /\ s \in SessionOf(r) \ Busy(r) /\ UNCHANGED idle
    BY <1>3 DEF Apart
  <1>4. QED
    BY <1>2, <1>3 DEF TakeSession

\* A goroutine takes a session.
LEMMA AcquireExclusive ==
  ASSUME Own, OneUser, IdleApart, NEW m \in Migrators, Acquire(m)
  PROVE  (OneUser /\ IdleApart)'
  <1> DEFINE r == ReplicaOf[m]
  <1>1. PICK s \in SessionOf(r) : TakeSession(r, s) /\ conn' = [conn EXCEPT ![m] = s]
    BY DEF Acquire
  <1>2. r \in Replicas /\ app' = app /\ conn[m] = NoConn
    BY MigrationAssumption DEF Acquire
  <1>3. /\ s \notin Busy(r)
        /\ Apart(idle'[r], Busy(r) \cup {s})
        /\ \A q \in Replicas \ {r} : idle'[q] = idle[q]
    BY <1>1, <1>2, TakenAlone
  <1>4. /\ \A n \in Migrators : conn[n] # s
        /\ \A q \in Replicas : app[q] # s
        /\ s # NoConn
    BY <1>1, <1>2, <1>3, UsersOf
  <1>5. /\ conn'[m] = s
        /\ \A n \in Migrators \ {m} : conn'[n] = conn[n]
    BY <1>1 DEF Own
  <1>6. OneUser'
    BY <1>2, <1>4, <1>5 DEF OneUser
  <1>7. Busy(r)' \subseteq Busy(r) \cup {s}
    BY <1>2, <1>5 DEF Busy
  <1>8. \A q \in Replicas \ {r} : Busy(q)' = Busy(q)
    BY <1>2, <1>5 DEF Busy
  <1>9. Apart(idle'[r], Busy(r)')
    BY <1>3, <1>7, ApartSmaller
  <1>10. QED
    BY <1>3, <1>6, <1>8, <1>9 DEF IdleApart, Apart

\* A statement gives its session back.
LEMMA StatementExclusive ==
  ASSUME Own, OneUser, IdleApart, NEW m \in Migrators, NEW l, Statement(m, l)
  PROVE  (OneUser /\ IdleApart)'
  <1> DEFINE r == ReplicaOf[m]
             s == conn[m]
  <1>1. /\ r \in Replicas /\ app' = app /\ s # NoConn
        /\ idle' = [idle EXCEPT ![r] = <<s>> \o @]
        /\ conn' = [conn EXCEPT ![m] = NoConn]
    BY MigrationAssumption DEF Statement, GiveSession
  <1>2. /\ conn'[m] = NoConn
        /\ \A n \in Migrators \ {m} : conn'[n] = conn[n]
    BY <1>1 DEF Own
  <1>3. OneUser'
    BY <1>1, <1>2 DEF OneUser
  <1>4. s \in SessionOf(r) /\ s \in Busy(r) /\ idle[r] \in Seq(SessionOf(r))
    BY <1>1 DEF Own, Busy
  <1>5. Busy(r)' \subseteq Busy(r) \cup {NoConn} /\ s \notin Busy(r)'
    <2>1. \A n \in Migrators : conn'[n] # s
      BY <1>1, <1>2 DEF OneUser
    <2>2. app'[r] # s
      BY <1>1 DEF OneUser
    <2>3. QED
      BY <1>1, <1>2, <2>1, <2>2 DEF Busy
  <1>6. Apart(idle[r], Busy(r) \cup {NoConn})
    <2>1. NoConn \notin SessionOf(r)
      BY MigrationAssumption DEF SessionOf, Session
    <2>2. \A i \in 1 .. Len(idle[r]) : idle[r][i] \in SessionOf(r)
      BY <1>4
    <2>3. QED
      BY <1>1, <2>1, <2>2 DEF IdleApart, Apart
  <1>7. Apart(<<s>> \o idle[r], Busy(r)')
    BY <1>4, <1>5, <1>6, ApartCons
  <1>8. idle'[r] = <<s>> \o idle[r] /\ \A q \in Replicas \ {r} : idle'[q] = idle[q]
    BY <1>1 DEF Own
  <1>9. \A q \in Replicas \ {r} : Busy(q)' = Busy(q)
    BY <1>1, <1>2 DEF Busy
  <1>10. Apart(idle'[r], Busy(r)')
    BY <1>7, <1>8
  <1>11. \A q \in Replicas \ {r} : Apart(idle'[q], Busy(q)')
    BY <1>8, <1>9 DEF IdleApart, Apart
  <1>12. \A q \in Replicas : Apart(idle'[q], Busy(q)')
    BY <1>10, <1>11
  <1>13. QED
    BY <1>3, <1>12 DEF IdleApart, Apart

\* The application takes a session, or gives it back.
LEMMA AppExclusive ==
  ASSUME Own, OneUser, IdleApart, NEW r \in Replicas, AppTake(r) \/ AppGive(r)
  PROVE  (OneUser /\ IdleApart)'
  <1>1. conn' = conn
    BY DEF AppTake, AppGive
  <1>2. CASE AppTake(r)
    <2>1. PICK s \in SessionOf(r) : TakeSession(r, s) /\ app' = [app EXCEPT ![r] = s]
      BY <1>2 DEF AppTake
    <2>2. /\ s \notin Busy(r)
          /\ Apart(idle'[r], Busy(r) \cup {s})
          /\ \A q \in Replicas \ {r} : idle'[q] = idle[q]
      BY <2>1, TakenAlone
    <2>3. app'[r] = s /\ \A q \in Replicas \ {r} : app'[q] = app[q]
      BY <2>1 DEF Own
    <2>4. \A n \in Migrators : conn[n] # s
      BY <2>2, UsersOf
    <2>5. OneUser'
      BY <1>1, <2>3, <2>4 DEF OneUser
    <2>6. Busy(r)' \subseteq Busy(r) \cup {s} /\ \A q \in Replicas \ {r} : Busy(q)' = Busy(q)
      BY <1>1, <2>3 DEF Busy
    <2>7. Apart(idle'[r], Busy(r)')
      BY <2>2, <2>6, ApartSmaller
    <2>8. QED
      BY <2>2, <2>5, <2>6, <2>7 DEF IdleApart, Apart
  <1>3. CASE AppGive(r)
    <2> DEFINE s == app[r]
    <2>1. /\ s # NoConn /\ app' = [app EXCEPT ![r] = NoConn]
          /\ idle' = [idle EXCEPT ![r] = <<s>> \o @]
      BY <1>3 DEF AppGive, GiveSession
    <2>2. s \in SessionOf(r) /\ s \in Busy(r) /\ idle[r] \in Seq(SessionOf(r))
      BY <2>1 DEF Own, Busy
    <2>3. app'[r] = NoConn /\ \A q \in Replicas \ {r} : app'[q] = app[q]
      BY <2>1 DEF Own
    <2>4. OneUser'
      BY <1>1, <2>3 DEF OneUser
    <2>5. Busy(r)' \subseteq Busy(r) \cup {NoConn} /\ s \notin Busy(r)'
      BY <1>1, <2>1, <2>3 DEF Busy, OneUser
    <2>6. Apart(idle[r], Busy(r) \cup {NoConn})
      <3>1. NoConn \notin SessionOf(r)
        BY MigrationAssumption DEF SessionOf, Session
      <3>2. \A i \in 1 .. Len(idle[r]) : idle[r][i] \in SessionOf(r)
        BY <2>2
      <3>3. QED
        BY <3>1, <3>2 DEF IdleApart, Apart
    <2>7. Apart(<<s>> \o idle[r], Busy(r)')
      BY <2>2, <2>5, <2>6, ApartCons
    <2>8. idle'[r] = <<s>> \o idle[r] /\ \A q \in Replicas \ {r} : idle'[q] = idle[q]
      BY <2>1 DEF Own
    <2>9. \A q \in Replicas \ {r} : Busy(q)' = Busy(q)
      BY <1>1, <2>3 DEF Busy
    <2>10. QED
      BY <2>4, <2>7, <2>8, <2>9 DEF IdleApart, Apart
  <1>4. QED
    BY <1>2, <1>3

\* A replica that crashes loses its sessions, with their users.
LEMMA CrashExclusive ==
  ASSUME Own, OneUser, IdleApart, NEW r \in Replicas, Crash(r)
  PROVE  (OneUser /\ IdleApart)'
  <1>1. /\ idle'[r] = <<>> /\ \A q \in Replicas \ {r} : idle'[q] = idle[q]
        /\ app'[r] = NoConn /\ \A q \in Replicas \ {r} : app'[q] = app[q]
        /\ \A m \in Migrators : conn'[m] = IF ReplicaOf[m] = r THEN NoConn ELSE conn[m]
    BY DEF Crash, Own, Fresh, Of
  <1>2. OneUser'
    BY <1>1 DEF OneUser
  <1>3. \A q \in Replicas \ {r} : Busy(q)' = Busy(q)
    BY <1>1 DEF Busy
  <1>4. QED
    BY <1>1, <1>2, <1>3 DEF IdleApart

LEMMA ExclusiveStep == Own /\ OneUser /\ IdleApart /\ [Next]_vars => (OneUser /\ IdleApart)'
  <1> SUFFICES ASSUME Own, OneUser, IdleApart, [Next]_vars
               PROVE  (OneUser /\ IdleApart)'
    OBVIOUS
  <1>1. ASSUME NEW m \in Migrators, Step(m), ~Acquire(m) PROVE (OneUser /\ IdleApart)'
    <2>1. \E l \in Stmts : Statement(m, l)
      BY <1>1 DEF Step, SetPath, TryLock, InitTable, Pending, Baseline, Exec, Record,
                  Unlock, UnlockFails, FailsOutside, FailsInside, Stmts, Locked, Work
    <2>2. QED
      BY <2>1, StatementExclusive
  <1>2. ASSUME UNCHANGED <<pool, conn>> PROVE (OneUser /\ IdleApart)'
    BY <1>2 DEF pool, OneUser, IdleApart, Busy
  <1>3. QED
    BY <1>1, <1>2, AcquireExclusive, AppExclusive, CrashExclusive
       DEF Next, Quiet, Call, vars

\* Statements of different goroutines, and the queries of the application, never run on one
\* session at the same time: what goes wrong in migrations is what one session remembers
\* from one user to the next.
THEOREM SessionsExclusive == Spec => []OneUser
  <1>1. Init => Own /\ OneUser /\ IdleApart
    <2>1. Init => OneUser
      BY DEF Init, OneUser
    <2>2. Init => IdleApart
      BY DEF Init, IdleApart
    <2>3. QED
      BY <2>1, <2>2, OwnInit
  <1>2. Own /\ OneUser /\ IdleApart /\ [Next]_vars => (Own /\ OneUser /\ IdleApart)'
    BY OwnStep, ExclusiveStep
  <1>3. QED
    BY <1>1, <1>2, PTL DEF Spec
=============================================================================
