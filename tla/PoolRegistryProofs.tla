------------------------- MODULE PoolRegistryProofs -------------------------
(***************************************************************************)
(* What holds of PoolRegistry for every number of goroutines, keys and     *)
(* calls.  TypeInv strengthens TypeOK by what each goroutine's locals are  *)
(* at each program point (Frame), which is what makes it inductive.        *)
(***************************************************************************)
EXTENDS PoolRegistryRefinement, TLAPS

Making  == MakePc \cup EndPc
DrainPc == {"drain", "closePool", "take", "release"}
Holding == {"fastRead", "fastWait", "slowWait"} \cup DrainPc \cup Making

\* Goroutine t is at l in a call c on key k, its locals are e, g and i.
FrameOK(t, l, k, c, e, g, i) ==
    /\ t = GS => l \in GsPc \cup DrainPc
    /\ t \in Procs =>
         /\ l \notin GsPc
         /\ l \notin {"idle", "migrate"} => c \in Entry /\ k \in Keys
         /\ l \in Making => e = c
         /\ l = "tcAttach" => g \in Entry
    /\ l \in Holding => e \in Entry
    /\ l \in {"stopOld", "undoStop", "stopInst"} => i \in Entry

Frame(t) == FrameOK(t, pc[t], keyOf[call[t]], call[t], ent[t], tgt[t], inst[t])

FramesOK == \A t \in Threads : Frame(t)

TypeInv == RegistryOK /\ BackendsOK /\ CallsOK /\ LocalsOK /\ FramesOK

(***************************************************************************)
(* Facts about the constants.                                              *)
(***************************************************************************)
\* A reference is an entry or nil, and nil is no entry.
LEMMA RefFacts == Ref = Entry \cup {None} /\ None \notin Entry
BY PoolRegistryAssumption DEF PoolRegistryAssumption, Ref, Entry, None

\* gracefulShutdown is a goroutine of its own.
LEMMA GSFacts == GS \in Threads /\ GS \notin Procs /\ Threads = Procs \cup {GS}
BY PoolRegistryAssumption DEF PoolRegistryAssumption, Threads

\* Dropping the last element of a list of entries leaves a list of entries.
LEMMA DropLast ==
  ASSUME NEW s \in Seq(Entry), s # <<>>
  PROVE  /\ s[Len(s)] \in Entry
         /\ SubSeq(s, 1, Len(s) - 1) \in Seq(Entry)
<1>1. Len(s) \in Nat /\ Len(s) # 0 OBVIOUS
<1>2. s[Len(s)] \in Entry BY <1>1
<1>3. \A i \in 1 .. Len(s) - 1 : s[i] \in Entry BY <1>1
<1> QED BY <1>1, <1>2, <1>3

USE RefFacts, GSFacts

(***************************************************************************)
(* Type correctness.                                                       *)
(***************************************************************************)
\* A goroutine in a call has a call number and a key, up to its migrations.
LEMMA RunningCall ==
  ASSUME TypeInv, NEW p \in Procs, pc[p] \notin {"idle", "migrate"}
  PROVE  call[p] \in Entry /\ Key(p) \in Keys /\ p \in Threads /\ p # GS
BY DEF TypeInv, CallsOK, LocalsOK, FramesOK, Frame, FrameOK, Key

\* A return of resolvePool or ClosePoolWithKey keeps the locals well typed.
LEMMA Returned ==
  ASSUME CallsOK, LocalsOK, FramesOK, NEW p \in Procs, NEW g \in Ref, Return(p, g),
         UNCHANGED <<history, gsLocals>>
  PROVE  CallsOK' /\ LocalsOK' /\ FramesOK'
<1> USE DEF Return, Goto, history, gsLocals
<1>1. CallsOK' BY DEF CallsOK
<1>2. LocalsOK'
  <2>1. (/\ call \in [Threads -> Ref] /\ ent \in [Threads -> Ref]
         /\ tgt \in [Threads -> Ref] /\ inst \in [Threads -> Ref])' BY DEF LocalsOK
  <2>2. (rel \in [Threads -> Seq(Entry)])' BY DEF LocalsOK
  <2>3. PICK l \in {"idle", "migrate"} : Goto(p, l) OBVIOUS
  <2>4. (pc \in [Threads -> Pcs])' BY <2>3 DEF LocalsOK, Pcs
  <2> QED BY <2>1, <2>2, <2>4 DEF LocalsOK
<1>3. Frame(p)'
  <2>1. pc'[p] \in {"idle", "migrate"} BY DEF LocalsOK
  <2> QED BY <2>1 DEF Frame, FrameOK, Holding, Making, DrainPc, MakePc, EndPc, GsPc
<1>4. ASSUME NEW u \in Threads, u # p
      PROVE  Frame(u)'
  BY <1>4 DEF FramesOK, Frame, LocalsOK
<1>5. FramesOK' BY <1>3, <1>4 DEF FramesOK
<1> QED BY <1>1, <1>2, <1>5

\* Putting a fresh entry under a key keeps the registry and the locals well typed.
LEMMA Created ==
  ASSUME TypeInv, NEW p \in Procs, pc[p] \notin {"idle", "migrate"}, CreateEntry(p)
  PROVE  TypeInv'
<1> USE DEF TypeInv, CreateEntry, Goto, backends, embedded, history, gsLocals
<1> USE RunningCall
<1>1. RegistryOK' BY DEF RegistryOK
<1>2. BackendsOK' BY DEF BackendsOK
<1>3. CallsOK' BY DEF CallsOK
<1>4. LocalsOK' BY DEF LocalsOK, Pcs, MakePc
<1>5. Frame(p)'
  BY DEF LocalsOK, FramesOK, Frame, FrameOK, Holding, Making, MakePc, GsPc, Key
<1>6. FramesOK' BY <1>5 DEF FramesOK, Frame, LocalsOK
<1> QED BY <1>1, <1>2, <1>3, <1>4, <1>6

\* The steps of resolvePool before the creation.
LEMMA TypeInvOpening ==
  ASSUME TypeInv, NEW p \in Procs, Opening(p) PROVE TypeInv'
<1> USE DEF TypeInv, registry, backends, embedded, history, gsLocals, locals, Goto, None
<1> USE DEF OpenPc, MakePc, EndPc, ClosePc, GsPc, DrainPc, Making, Holding
<1>0. pc[p] \notin {"idle", "migrate"} /\ call[p] \in Entry /\ Key(p) \in Keys /\ p \in Threads /\ p # GS
  BY RunningCall
  DEF Opening, Lookup, FastRead, FastWait, Slow, SlowWait, Replace
<1> USE <1>0
<1>1. CASE Lookup(p)
  <2> USE <1>1 DEF Lookup
  <2>1. RegistryOK' BY DEF RegistryOK, LocalsOK, FramesOK, Frame, FrameOK
  <2>2. BackendsOK' BY DEF BackendsOK, LocalsOK, FramesOK, Frame, FrameOK
  <2>3. CallsOK' BY DEF CallsOK, LocalsOK
  <2>4. LocalsOK' BY DEF LocalsOK, RegistryOK, BackendsOK, Pcs
  <2>5. Frame(p)' BY DEF LocalsOK, RegistryOK, BackendsOK, FramesOK, Frame, FrameOK
  <2>6. FramesOK' BY <2>5 DEF FramesOK, Frame, LocalsOK
  <2> QED BY <2>1, <2>2, <2>3, <2>4, <2>6
<1>2. CASE FastRead(p)
  <2> USE <1>2 DEF FastRead
  <2>1. CASE ent[p] \in cached
    <3> USE <2>1
    <3>1. RegistryOK' BY DEF RegistryOK, LocalsOK, FramesOK, Frame, FrameOK
    <3>2. BackendsOK' BY DEF BackendsOK, LocalsOK, FramesOK, Frame, FrameOK
    <3>3. Return(p, ent[p]) /\ ent[p] \in Ref
      BY DEF RegistryOK, LocalsOK, FramesOK, Frame, FrameOK
    <3> QED BY <3>1, <3>2, <3>3, Returned
  <2>2. CASE ent[p] \notin cached
    <3> USE <2>2
    <3>1. RegistryOK' BY DEF RegistryOK, LocalsOK, FramesOK, Frame, FrameOK
    <3>2. BackendsOK' BY DEF BackendsOK, LocalsOK, FramesOK, Frame, FrameOK
    <3>3. CallsOK' BY DEF CallsOK, LocalsOK
    <3>4. LocalsOK' BY DEF LocalsOK, RegistryOK, BackendsOK, Pcs
    <3>5. Frame(p)' BY DEF LocalsOK, RegistryOK, BackendsOK, FramesOK, Frame, FrameOK
    <3>6. FramesOK' BY <3>5 DEF FramesOK, Frame, LocalsOK
    <3> QED BY <3>1, <3>2, <3>3, <3>4, <3>6
  <2> QED BY <2>1, <2>2
<1>3. CASE FastWait(p)
  <2> USE <1>3 DEF FastWait
  <2>1. CASE ent[p] \in cached
    <3> USE <2>1
    <3>1. RegistryOK' BY DEF RegistryOK, LocalsOK, FramesOK, Frame, FrameOK
    <3>2. BackendsOK' BY DEF BackendsOK, LocalsOK, FramesOK, Frame, FrameOK
    <3>3. Return(p, ent[p]) /\ ent[p] \in Ref
      BY DEF RegistryOK, LocalsOK, FramesOK, Frame, FrameOK
    <3> QED BY <3>1, <3>2, <3>3, Returned
  <2>2. CASE ent[p] \notin cached
    <3> USE <2>2
    <3>1. RegistryOK' BY DEF RegistryOK, LocalsOK, FramesOK, Frame, FrameOK
    <3>2. BackendsOK' BY DEF BackendsOK, LocalsOK, FramesOK, Frame, FrameOK
    <3>3. CallsOK' BY DEF CallsOK, LocalsOK
    <3>4. LocalsOK' BY DEF LocalsOK, RegistryOK, BackendsOK, Pcs
    <3>5. Frame(p)' BY DEF LocalsOK, RegistryOK, BackendsOK, FramesOK, Frame, FrameOK
    <3>6. FramesOK' BY <3>5 DEF FramesOK, Frame, LocalsOK
    <3> QED BY <3>1, <3>2, <3>3, <3>4, <3>6
  <2> QED BY <2>1, <2>2
<1>4. CASE Slow(p)
  <2> USE <1>4 DEF Slow
  <2>1. CASE entries[Key(p)] = None
    BY <2>1, Created DEF RegistryOK
  <2>2. CASE entries[Key(p)] # None /\ entries[Key(p)] \in cached
    <3> USE <2>2
    <3>1. RegistryOK' BY DEF RegistryOK, LocalsOK, FramesOK, Frame, FrameOK
    <3>2. BackendsOK' BY DEF BackendsOK, LocalsOK, FramesOK, Frame, FrameOK
    <3>3. Return(p, entries[Key(p)]) /\ entries[Key(p)] \in Ref
      BY DEF RegistryOK, LocalsOK, FramesOK, Frame, FrameOK
    <3> QED BY <3>1, <3>2, <3>3, Returned
  <2>3. CASE entries[Key(p)] # None /\ entries[Key(p)] \notin cached
    <3> USE <2>3
    <3>1. RegistryOK' BY DEF RegistryOK, LocalsOK, FramesOK, Frame, FrameOK
    <3>2. BackendsOK' BY DEF BackendsOK, LocalsOK, FramesOK, Frame, FrameOK
    <3>3. CallsOK' BY DEF CallsOK, LocalsOK
    <3>4p. PICK l \in {"slowWait"} : Goto(p, l) OBVIOUS
    <3>4q. l \in Pcs BY DEF Pcs
    <3>4a. (pc \in [Threads -> Pcs])' BY <3>4p, <3>4q DEF LocalsOK
    <3>4r. pc'[p] = l BY <3>4p DEF LocalsOK
    <3>4. LocalsOK' BY <3>4a DEF LocalsOK, RegistryOK, BackendsOK
    <3>5. Frame(p)' BY <3>4p, <3>4r
    DEF LocalsOK, RegistryOK, BackendsOK, FramesOK, Frame, FrameOK
    <3>6. FramesOK' BY <3>5 DEF FramesOK, Frame, LocalsOK
    <3> QED BY <3>1, <3>2, <3>3, <3>4, <3>6
  <2> QED BY <2>1, <2>2, <2>3
<1>5. CASE SlowWait(p)
  <2> USE <1>5 DEF SlowWait
  <2>1. CASE ent[p] \in cached
    <3> USE <2>1
    <3>1. RegistryOK' BY DEF RegistryOK, LocalsOK, FramesOK, Frame, FrameOK
    <3>2. BackendsOK' BY DEF BackendsOK, LocalsOK, FramesOK, Frame, FrameOK
    <3>3. Return(p, ent[p]) /\ ent[p] \in Ref
      BY DEF RegistryOK, LocalsOK, FramesOK, Frame, FrameOK
    <3> QED BY <3>1, <3>2, <3>3, Returned
  <2>2. CASE ent[p] \notin cached
    <3> USE <2>2
    <3>1. RegistryOK' BY DEF RegistryOK, LocalsOK, FramesOK, Frame, FrameOK
    <3>2. BackendsOK' BY DEF BackendsOK, LocalsOK, FramesOK, Frame, FrameOK
    <3>3. CallsOK' BY DEF CallsOK, LocalsOK
    <3>4. LocalsOK' BY DEF LocalsOK, RegistryOK, BackendsOK, Pcs
    <3>5. Frame(p)' BY DEF LocalsOK, RegistryOK, BackendsOK, FramesOK, Frame, FrameOK
    <3>6. FramesOK' BY <3>5 DEF FramesOK, Frame, LocalsOK
    <3> QED BY <3>1, <3>2, <3>3, <3>4, <3>6
  <2> QED BY <2>1, <2>2
<1>6. CASE Replace(p)
  <2> USE <1>6 DEF Replace, CreateEntry
  <2>1. RegistryOK' BY DEF RegistryOK, LocalsOK, FramesOK, Frame, FrameOK
  <2>2. BackendsOK' BY DEF BackendsOK, LocalsOK, FramesOK, Frame, FrameOK
  <2>3. CallsOK' BY DEF CallsOK, LocalsOK
  <2>4. LocalsOK' BY DEF LocalsOK, RegistryOK, BackendsOK, Pcs
  <2>5. Frame(p)' BY DEF LocalsOK, RegistryOK, BackendsOK, FramesOK, Frame, FrameOK
  <2>6. FramesOK' BY <2>5 DEF FramesOK, Frame, LocalsOK
  <2> QED BY <2>1, <2>2, <2>3, <2>4, <2>6
<1> QED BY <1>1, <1>2, <1>3, <1>4, <1>5, <1>6 DEF Opening

\* The migrations of a call, and its return.
LEMMA TypeInvMigrate ==
  ASSUME TypeInv, NEW p \in Procs, Migrate(p) PROVE TypeInv'
<1> USE DEF TypeInv, Migrate, Goto, registry, backends, embedded, history, locals, gsLocals
<1>1. RegistryOK' BY DEF RegistryOK
<1>2. BackendsOK' BY DEF BackendsOK
<1>3. CallsOK' BY DEF CallsOK
<1>4. LocalsOK' BY DEF LocalsOK, Pcs
<1>5. Frame(p)'
  BY DEF LocalsOK, Frame, FrameOK, Holding, Making, DrainPc, MakePc, EndPc, GsPc
<1>6. FramesOK' BY <1>5 DEF FramesOK, Frame, LocalsOK
<1> QED BY <1>1, <1>2, <1>3, <1>4, <1>6

\* The steps of Connect.
LEMMA TypeInvProvisioning ==
  ASSUME TypeInv, NEW p \in Procs, Provisioning(p) PROVE TypeInv'
<1> USE DEF TypeInv, registry, backends, embedded, history, gsLocals, locals, Goto, None
<1> USE DEF OpenPc, MakePc, EndPc, ClosePc, GsPc, DrainPc, Making, Holding
<1>0. pc[p] \notin {"idle", "migrate"} /\ call[p] \in Entry /\ Key(p) \in Keys /\ p \in Threads /\ p # GS
  BY RunningCall
  DEF Provisioning, ProvisionFails, ProvisionPlain, NewDialer,
       StartContainer, TcLookup, TcAttach, StartServer, Register,
       StopOld, NewPool, NewPoolFails, UndoTake, UndoStop, StopHeld
<1> USE <1>0
<1>1. CASE ProvisionFails(p)
  <2> USE <1>1 DEF ProvisionFails
  <2>1. RegistryOK' BY DEF RegistryOK, LocalsOK, FramesOK, Frame, FrameOK
  <2>2. BackendsOK' BY DEF BackendsOK, LocalsOK, FramesOK, Frame, FrameOK
  <2>3. CallsOK' BY DEF CallsOK, LocalsOK
  <2>4. LocalsOK' BY DEF LocalsOK, RegistryOK, BackendsOK, Pcs
  <2>5. Frame(p)' BY DEF LocalsOK, RegistryOK, BackendsOK, FramesOK, Frame, FrameOK
  <2>6. FramesOK' BY <2>5 DEF FramesOK, Frame, LocalsOK
  <2> QED BY <2>1, <2>2, <2>3, <2>4, <2>6
<1>2. CASE ProvisionPlain(p)
  <2> USE <1>2 DEF ProvisionPlain
  <2>1. RegistryOK' BY DEF RegistryOK, LocalsOK, FramesOK, Frame, FrameOK
  <2>2. BackendsOK' BY DEF BackendsOK, LocalsOK, FramesOK, Frame, FrameOK
  <2>3. CallsOK' BY DEF CallsOK, LocalsOK
  <2>4. LocalsOK' BY DEF LocalsOK, RegistryOK, BackendsOK, Pcs
  <2>5. Frame(p)' BY DEF LocalsOK, RegistryOK, BackendsOK, FramesOK, Frame, FrameOK
  <2>6. FramesOK' BY <2>5 DEF FramesOK, Frame, LocalsOK
  <2> QED BY <2>1, <2>2, <2>3, <2>4, <2>6
<1>3. CASE NewDialer(p)
  <2> USE <1>3 DEF NewDialer
  <2>1. RegistryOK' BY DEF RegistryOK, LocalsOK, FramesOK, Frame, FrameOK
  <2>2. BackendsOK' BY DEF BackendsOK, LocalsOK, FramesOK, Frame, FrameOK
  <2>3. CallsOK' BY DEF CallsOK, LocalsOK
  <2>4. LocalsOK' BY DEF LocalsOK, RegistryOK, BackendsOK, Pcs
  <2>5. Frame(p)' BY DEF LocalsOK, RegistryOK, BackendsOK, FramesOK, Frame, FrameOK
  <2>6. FramesOK' BY <2>5 DEF FramesOK, Frame, LocalsOK
  <2> QED BY <2>1, <2>2, <2>3, <2>4, <2>6
<1>4. CASE StartContainer(p)
  <2> USE <1>4 DEF StartContainer
  <2>1. RegistryOK' BY DEF RegistryOK, LocalsOK, FramesOK, Frame, FrameOK
  <2>2. BackendsOK' BY DEF BackendsOK, LocalsOK, FramesOK, Frame, FrameOK
  <2>3. CallsOK' BY DEF CallsOK, LocalsOK
  <2>4. LocalsOK' BY DEF LocalsOK, RegistryOK, BackendsOK, Pcs
  <2>5. Frame(p)' BY DEF LocalsOK, RegistryOK, BackendsOK, FramesOK, Frame, FrameOK
  <2>6. FramesOK' BY <2>5 DEF FramesOK, Frame, LocalsOK
  <2> QED BY <2>1, <2>2, <2>3, <2>4, <2>6
<1>5. CASE TcLookup(p)
  <2> USE <1>5 DEF TcLookup
  <2>1. RegistryOK' BY DEF RegistryOK, LocalsOK, FramesOK, Frame, FrameOK
  <2>2. BackendsOK' BY DEF BackendsOK, LocalsOK, FramesOK, Frame, FrameOK
  <2>3. CallsOK' BY DEF CallsOK, LocalsOK
  <2>4. LocalsOK' BY DEF LocalsOK, RegistryOK, BackendsOK, Pcs
  <2>5. Frame(p)' BY DEF LocalsOK, RegistryOK, BackendsOK, FramesOK, Frame, FrameOK
  <2>6. FramesOK' BY <2>5 DEF FramesOK, Frame, LocalsOK
  <2> QED BY <2>1, <2>2, <2>3, <2>4, <2>6
<1>6. CASE TcAttach(p)
  <2> USE <1>6 DEF TcAttach
  <2>1. RegistryOK' BY DEF RegistryOK, LocalsOK, FramesOK, Frame, FrameOK
  <2>2. BackendsOK' BY DEF BackendsOK, LocalsOK, FramesOK, Frame, FrameOK
  <2>3. CallsOK' BY DEF CallsOK, LocalsOK
  <2>4. LocalsOK' BY DEF LocalsOK, RegistryOK, BackendsOK, Pcs
  <2>5. Frame(p)' BY DEF LocalsOK, RegistryOK, BackendsOK, FramesOK, Frame, FrameOK
  <2>6. FramesOK' BY <2>5 DEF FramesOK, Frame, LocalsOK
  <2> QED BY <2>1, <2>2, <2>3, <2>4, <2>6
<1>7. CASE StartServer(p)
  <2> USE <1>7 DEF StartServer
  <2>1. RegistryOK' BY DEF RegistryOK, LocalsOK, FramesOK, Frame, FrameOK
  <2>2. BackendsOK' BY DEF BackendsOK, LocalsOK, FramesOK, Frame, FrameOK
  <2>3. CallsOK' BY DEF CallsOK, LocalsOK
  <2>4. LocalsOK' BY DEF LocalsOK, RegistryOK, BackendsOK, Pcs
  <2>5. Frame(p)' BY DEF LocalsOK, RegistryOK, BackendsOK, FramesOK, Frame, FrameOK
  <2>6. FramesOK' BY <2>5 DEF FramesOK, Frame, LocalsOK
  <2> QED BY <2>1, <2>2, <2>3, <2>4, <2>6
<1>8. CASE Register(p)
  <2> USE <1>8 DEF Register
  <2>1. RegistryOK' BY DEF RegistryOK, LocalsOK, FramesOK, Frame, FrameOK
  <2>2. BackendsOK' BY DEF BackendsOK, LocalsOK, FramesOK, Frame, FrameOK
  <2>3. CallsOK' BY DEF CallsOK, LocalsOK
  <2>4p. PICK l \in {"newPool", "stopOld", "undoStop"} : Goto(p, l) OBVIOUS
  <2>4q. l \in Pcs BY DEF Pcs
  <2>4a. (pc \in [Threads -> Pcs])' BY <2>4p, <2>4q DEF LocalsOK
  <2>4r. pc'[p] = l BY <2>4p DEF LocalsOK
  <2>4. LocalsOK' BY <2>4a DEF LocalsOK, RegistryOK, BackendsOK
  <2>5. Frame(p)' BY <2>4p, <2>4r
    DEF LocalsOK, RegistryOK, BackendsOK, FramesOK, Frame, FrameOK
  <2>6. FramesOK' BY <2>5 DEF FramesOK, Frame, LocalsOK
  <2> QED BY <2>1, <2>2, <2>3, <2>4, <2>6
<1>9. CASE StopOld(p)
  <2> USE <1>9 DEF StopOld, StopHeld
  <2>1. RegistryOK' BY DEF RegistryOK, LocalsOK, FramesOK, Frame, FrameOK
  <2>2. BackendsOK' BY DEF BackendsOK, LocalsOK, FramesOK, Frame, FrameOK
  <2>3. CallsOK' BY DEF CallsOK, LocalsOK
  <2>4. LocalsOK' BY DEF LocalsOK, RegistryOK, BackendsOK, Pcs
  <2>5. Frame(p)' BY DEF LocalsOK, RegistryOK, BackendsOK, FramesOK, Frame, FrameOK
  <2>6. FramesOK' BY <2>5 DEF FramesOK, Frame, LocalsOK
  <2> QED BY <2>1, <2>2, <2>3, <2>4, <2>6
<1>10. CASE NewPool(p)
  <2> USE <1>10 DEF NewPool
  <2>1. RegistryOK' BY DEF RegistryOK, LocalsOK, FramesOK, Frame, FrameOK
  <2>2. BackendsOK' BY DEF BackendsOK, LocalsOK, FramesOK, Frame, FrameOK
  <2>3. CallsOK' BY DEF CallsOK, LocalsOK
  <2>4. LocalsOK' BY DEF LocalsOK, RegistryOK, BackendsOK, Pcs
  <2>5. Frame(p)' BY DEF LocalsOK, RegistryOK, BackendsOK, FramesOK, Frame, FrameOK
  <2>6. FramesOK' BY <2>5 DEF FramesOK, Frame, LocalsOK
  <2> QED BY <2>1, <2>2, <2>3, <2>4, <2>6
<1>11. CASE NewPoolFails(p)
  <2> USE <1>11 DEF NewPoolFails
  <2>1. RegistryOK' BY DEF RegistryOK, LocalsOK, FramesOK, Frame, FrameOK
  <2>2. BackendsOK' BY DEF BackendsOK, LocalsOK, FramesOK, Frame, FrameOK
  <2>3. CallsOK' BY DEF CallsOK, LocalsOK
  <2>4. LocalsOK' BY DEF LocalsOK, RegistryOK, BackendsOK, Pcs
  <2>5. Frame(p)' BY DEF LocalsOK, RegistryOK, BackendsOK, FramesOK, Frame, FrameOK
  <2>6. FramesOK' BY <2>5 DEF FramesOK, Frame, LocalsOK
  <2> QED BY <2>1, <2>2, <2>3, <2>4, <2>6
<1>12. CASE UndoTake(p)
  <2> USE <1>12 DEF UndoTake
  <2>1. RegistryOK' BY DEF RegistryOK, LocalsOK, FramesOK, Frame, FrameOK
  <2>2. BackendsOK' BY DEF BackendsOK, LocalsOK, FramesOK, Frame, FrameOK
  <2>3. CallsOK' BY DEF CallsOK, LocalsOK
  <2>4. LocalsOK' BY DEF LocalsOK, RegistryOK, BackendsOK, Pcs
  <2>5. Frame(p)' BY DEF LocalsOK, RegistryOK, BackendsOK, FramesOK, Frame, FrameOK
  <2>6. FramesOK' BY <2>5 DEF FramesOK, Frame, LocalsOK
  <2> QED BY <2>1, <2>2, <2>3, <2>4, <2>6
<1>13. CASE UndoStop(p)
  <2> USE <1>13 DEF UndoStop, StopHeld
  <2>1. RegistryOK' BY DEF RegistryOK, LocalsOK, FramesOK, Frame, FrameOK
  <2>2. BackendsOK' BY DEF BackendsOK, LocalsOK, FramesOK, Frame, FrameOK
  <2>3. CallsOK' BY DEF CallsOK, LocalsOK
  <2>4. LocalsOK' BY DEF LocalsOK, RegistryOK, BackendsOK, Pcs
  <2>5. Frame(p)' BY DEF LocalsOK, RegistryOK, BackendsOK, FramesOK, Frame, FrameOK
  <2>6. FramesOK' BY <2>5 DEF FramesOK, Frame, LocalsOK
  <2> QED BY <2>1, <2>2, <2>3, <2>4, <2>6
<1> QED
  BY <1>1, <1>2, <1>3, <1>4, <1>5, <1>6, <1>7, <1>8, <1>9, <1>10, <1>11, <1>12, <1>13
  DEF Provisioning

\* The end of the creation.
LEMMA TypeInvEnding ==
  ASSUME TypeInv, NEW p \in Procs, Ending(p) PROVE TypeInv'
<1> USE DEF TypeInv, registry, backends, embedded, history, gsLocals, locals, Goto, None
<1> USE DEF OpenPc, MakePc, EndPc, ClosePc, GsPc, DrainPc, Making, Holding
<1>0. pc[p] \notin {"idle", "migrate"} /\ call[p] \in Entry /\ Key(p) \in Keys /\ p \in Threads /\ p # GS
  BY RunningCall
  DEF Ending, Store, CloseDone, Fail, FailReleaseOne, FailReleased,
       RemoveFailed, TakeResources, ReleaseOne
<1> USE <1>0
<1>1. CASE Store(p)
  <2> USE <1>1 DEF Store
  <2>1. RegistryOK' BY DEF RegistryOK, LocalsOK, FramesOK, Frame, FrameOK
  <2>2. BackendsOK' BY DEF BackendsOK, LocalsOK, FramesOK, Frame, FrameOK
  <2>3. CallsOK' BY DEF CallsOK, LocalsOK
  <2>4. LocalsOK' BY DEF LocalsOK, RegistryOK, BackendsOK, Pcs
  <2>5. Frame(p)' BY DEF LocalsOK, RegistryOK, BackendsOK, FramesOK, Frame, FrameOK
  <2>6. FramesOK' BY <2>5 DEF FramesOK, Frame, LocalsOK
  <2> QED BY <2>1, <2>2, <2>3, <2>4, <2>6
<1>2. CASE CloseDone(p)
  <2> USE <1>2 DEF CloseDone
  <2>1. RegistryOK' BY DEF RegistryOK, LocalsOK, FramesOK, Frame, FrameOK
  <2>2. BackendsOK' BY DEF BackendsOK, LocalsOK, FramesOK, Frame, FrameOK
  <2>3. /\ Return(p, (IF pc[p] = "closeDone" THEN ent[p] ELSE None))
        /\ (IF pc[p] = "closeDone" THEN ent[p] ELSE None) \in Ref
    BY DEF RegistryOK, LocalsOK, FramesOK, Frame, FrameOK
  <2> QED BY <2>1, <2>2, <2>3, Returned
<1>3. CASE Fail(p)
  <2> USE <1>3 DEF Fail, TakeResources
  <2>0. rel' = [rel EXCEPT ![p] = res[ent[p]]] /\ res[ent[p]] \in Seq(Entry)
    BY DEF RegistryOK, LocalsOK, FramesOK, Frame, FrameOK
  <2>1. RegistryOK' BY DEF RegistryOK, LocalsOK, FramesOK, Frame, FrameOK
  <2>2. BackendsOK' BY DEF BackendsOK, LocalsOK, FramesOK, Frame, FrameOK
  <2>3. CallsOK' BY DEF CallsOK, LocalsOK
  <2>4a. (pc \in [Threads -> Pcs])' BY DEF LocalsOK, Pcs
  <2>4. LocalsOK' BY <2>4a, <2>0 DEF LocalsOK, RegistryOK, BackendsOK
  <2>5. Frame(p)' BY DEF LocalsOK, RegistryOK, BackendsOK, FramesOK, Frame, FrameOK
  <2>6. FramesOK' BY <2>5 DEF FramesOK, Frame, LocalsOK
  <2> QED BY <2>1, <2>2, <2>3, <2>4, <2>6
<1>4. CASE FailReleaseOne(p)
  <2> USE <1>4 DEF FailReleaseOne, ReleaseOne
  <2>1. RegistryOK' BY DEF RegistryOK, LocalsOK, FramesOK, Frame, FrameOK
  <2>2. BackendsOK' BY DropLast DEF BackendsOK, LocalsOK, FramesOK, Frame, FrameOK
  <2>3. CallsOK' BY DEF CallsOK, LocalsOK
  <2>4a. (pc \in [Threads -> Pcs])' BY DEF LocalsOK, Pcs
  <2>4. LocalsOK' BY <2>4a, DropLast DEF LocalsOK, RegistryOK, BackendsOK
  <2>5. Frame(p)' BY DEF LocalsOK, RegistryOK, BackendsOK, FramesOK, Frame, FrameOK
  <2>6. FramesOK' BY <2>5 DEF FramesOK, Frame, LocalsOK
  <2> QED BY <2>1, <2>2, <2>3, <2>4, <2>6
<1>5. CASE FailReleased(p)
  <2> USE <1>5 DEF FailReleased
  <2>1. RegistryOK' BY DEF RegistryOK, LocalsOK, FramesOK, Frame, FrameOK
  <2>2. BackendsOK' BY DEF BackendsOK, LocalsOK, FramesOK, Frame, FrameOK
  <2>3. CallsOK' BY DEF CallsOK, LocalsOK
  <2>4. LocalsOK' BY DEF LocalsOK, RegistryOK, BackendsOK, Pcs
  <2>5. Frame(p)' BY DEF LocalsOK, RegistryOK, BackendsOK, FramesOK, Frame, FrameOK
  <2>6. FramesOK' BY <2>5 DEF FramesOK, Frame, LocalsOK
  <2> QED BY <2>1, <2>2, <2>3, <2>4, <2>6
<1>6. CASE RemoveFailed(p)
  <2> USE <1>6 DEF RemoveFailed
  <2>1. RegistryOK' BY DEF RegistryOK, LocalsOK, FramesOK, Frame, FrameOK
  <2>2. BackendsOK' BY DEF BackendsOK, LocalsOK, FramesOK, Frame, FrameOK
  <2>3. CallsOK' BY DEF CallsOK, LocalsOK
  <2>4. LocalsOK' BY DEF LocalsOK, RegistryOK, BackendsOK, Pcs
  <2>5. Frame(p)' BY DEF LocalsOK, RegistryOK, BackendsOK, FramesOK, Frame, FrameOK
  <2>6. FramesOK' BY <2>5 DEF FramesOK, Frame, LocalsOK
  <2> QED BY <2>1, <2>2, <2>3, <2>4, <2>6
<1> QED BY <1>1, <1>2, <1>3, <1>4, <1>5, <1>6 DEF Ending

\* The steps of ClosePoolWithKey around the drain.
LEMMA TypeInvClosing ==
  ASSUME TypeInv, NEW p \in Procs, Closing(p) PROVE TypeInv'
<1> USE DEF TypeInv, registry, backends, embedded, history, gsLocals, locals, Goto, None
<1> USE DEF OpenPc, MakePc, EndPc, ClosePc, GsPc, DrainPc, Making, Holding
<1>0. pc[p] \notin {"idle", "migrate"} /\ call[p] \in Entry /\ Key(p) \in Keys /\ p \in Threads /\ p # GS
  BY RunningCall
  DEF Closing, CloseRemove, CloseInst, CloseStop
<1> USE <1>0
<1>1. CASE CloseRemove(p)
  <2> USE <1>1 DEF CloseRemove
  <2>1. RegistryOK' BY DEF RegistryOK, LocalsOK, FramesOK, Frame, FrameOK
  <2>2. BackendsOK' BY DEF BackendsOK, LocalsOK, FramesOK, Frame, FrameOK
  <2>3. CallsOK' BY DEF CallsOK, LocalsOK
  <2>4. LocalsOK' BY DEF LocalsOK, RegistryOK, BackendsOK, Pcs
  <2>5. Frame(p)' BY DEF LocalsOK, RegistryOK, BackendsOK, FramesOK, Frame, FrameOK
  <2>6. FramesOK' BY <2>5 DEF FramesOK, Frame, LocalsOK
  <2> QED BY <2>1, <2>2, <2>3, <2>4, <2>6
<1>2. CASE CloseInst(p)
  <2> USE <1>2 DEF CloseInst
  <2>1. CASE ent[p] = None /\ instances[Key(p)] = None
    <3> USE <2>1
    <3>1. RegistryOK' BY DEF RegistryOK, LocalsOK, FramesOK, Frame, FrameOK
    <3>2. BackendsOK' BY DEF BackendsOK, LocalsOK, FramesOK, Frame, FrameOK
    <3>3. Return(p, None) /\ None \in Ref
      BY DEF RegistryOK, LocalsOK, FramesOK, Frame, FrameOK
    <3> QED BY <3>1, <3>2, <3>3, Returned
  <2>2. CASE ent[p] = None /\ instances[Key(p)] # None
    <3> USE <2>2
    <3>0. /\ UNCHANGED <<call, ent, tgt, rel>>
          /\ inst' = [inst EXCEPT ![p] = instances[Key(p)]] OBVIOUS
    <3>1. RegistryOK' BY DEF RegistryOK, LocalsOK, FramesOK, Frame, FrameOK
    <3>2. BackendsOK' BY DEF BackendsOK, LocalsOK, FramesOK, Frame, FrameOK
    <3>3. CallsOK' BY DEF CallsOK, LocalsOK
    <3>4p. PICK l \in {"stopInst", "drain"} : Goto(p, l) OBVIOUS
    <3>4q. l \in Pcs BY DEF Pcs
    <3>4a. (pc \in [Threads -> Pcs])' BY <3>4p, <3>4q DEF LocalsOK
    <3>4r. pc'[p] = l BY <3>4p DEF LocalsOK
    <3>4. LocalsOK' BY <3>4a, <3>0 DEF LocalsOK, RegistryOK, BackendsOK
    <3>5. Frame(p)' BY <3>4p, <3>4r
    DEF LocalsOK, RegistryOK, BackendsOK, FramesOK, Frame, FrameOK
    <3>6. FramesOK' BY <3>5 DEF FramesOK, Frame, LocalsOK
    <3> QED BY <3>1, <3>2, <3>3, <3>4, <3>6
  <2>3. CASE ent[p] # None
    <3> USE <2>3
    <3>0. /\ UNCHANGED <<call, ent, tgt, rel>>
          /\ inst' = [inst EXCEPT ![p] = instances[Key(p)]] OBVIOUS
    <3>1. RegistryOK' BY DEF RegistryOK, LocalsOK, FramesOK, Frame, FrameOK
    <3>2. BackendsOK' BY DEF BackendsOK, LocalsOK, FramesOK, Frame, FrameOK
    <3>3. CallsOK' BY DEF CallsOK, LocalsOK
    <3>4p. PICK l \in {"stopInst", "drain"} : Goto(p, l) OBVIOUS
    <3>4q. l \in Pcs BY DEF Pcs
    <3>4a. (pc \in [Threads -> Pcs])' BY <3>4p, <3>4q DEF LocalsOK
    <3>4r. pc'[p] = l BY <3>4p DEF LocalsOK
    <3>4. LocalsOK' BY <3>4a, <3>0 DEF LocalsOK, RegistryOK, BackendsOK
    <3>5. Frame(p)' BY <3>4p, <3>4r
    DEF LocalsOK, RegistryOK, BackendsOK, FramesOK, Frame, FrameOK
    <3>6. FramesOK' BY <3>5 DEF FramesOK, Frame, LocalsOK
    <3> QED BY <3>1, <3>2, <3>3, <3>4, <3>6
  <2> QED BY <2>1, <2>2, <2>3
<1>3. CASE CloseStop(p)
  <2> USE <1>3 DEF CloseStop
  <2>1. RegistryOK' BY DEF RegistryOK, LocalsOK, FramesOK, Frame, FrameOK
  <2>2. BackendsOK' BY DEF BackendsOK, LocalsOK, FramesOK, Frame, FrameOK
  <2>3. Return(p, None) /\ None \in Ref
    BY DEF RegistryOK, LocalsOK, FramesOK, Frame, FrameOK
  <2> QED BY <2>1, <2>2, <2>3, Returned
<1> QED BY <1>1, <1>2, <1>3 DEF Closing

\* The steps that ClosePoolWithKey and gracefulShutdown run on an entry.
LEMMA TypeInvDraining ==
  ASSUME TypeInv, NEW t \in Threads, Draining(t) PROVE TypeInv'
<1> USE DEF TypeInv, registry, backends, embedded, history, gsLocals, locals, Goto, None
<1> USE DEF OpenPc, MakePc, EndPc, ClosePc, GsPc, DrainPc, Making, Holding
<1>0. ent[t] \in Entry
  BY DEF Draining, Drain, ClosePool, Take, TakeResources, DrainReleaseOne, ReleaseOne,
         Released, FramesOK, Frame, FrameOK
<1> USE <1>0
<1>1. CASE Drain(t)
  <2> USE <1>1 DEF Drain
  <2>1. RegistryOK' BY DEF RegistryOK
  <2>2. BackendsOK' BY DEF BackendsOK
  <2>3. CallsOK' BY DEF CallsOK
  <2>4. LocalsOK' BY DEF LocalsOK, Pcs
  <2>5. Frame(t)' BY DEF LocalsOK, FramesOK, Frame, FrameOK
  <2>6. FramesOK' BY <2>5 DEF FramesOK, Frame, LocalsOK
  <2> QED BY <2>1, <2>2, <2>3, <2>4, <2>6
<1>2. CASE ClosePool(t)
  <2> USE <1>2 DEF ClosePool
  <2>1. RegistryOK' BY DEF RegistryOK
  <2>2. BackendsOK' BY DEF BackendsOK
  <2>3. CallsOK' BY DEF CallsOK
  <2>4. LocalsOK' BY DEF LocalsOK, Pcs
  <2>5. Frame(t)' BY DEF LocalsOK, FramesOK, Frame, FrameOK
  <2>6. FramesOK' BY <2>5 DEF FramesOK, Frame, LocalsOK
  <2> QED BY <2>1, <2>2, <2>3, <2>4, <2>6
<1>3. CASE Take(t)
  <2> USE <1>3 DEF Take, TakeResources
  <2>0. res[ent[t]] \in Seq(Entry) BY DEF RegistryOK
  <2>1. RegistryOK' BY DEF RegistryOK
  <2>2. BackendsOK' BY DEF BackendsOK
  <2>3. CallsOK' BY DEF CallsOK
  <2>4a. (pc \in [Threads -> Pcs])' BY DEF LocalsOK, Pcs
  <2>4. LocalsOK' BY <2>0, <2>4a DEF LocalsOK
  <2>5. Frame(t)' BY DEF LocalsOK, FramesOK, Frame, FrameOK
  <2>6. FramesOK' BY <2>5 DEF FramesOK, Frame, LocalsOK
  <2> QED BY <2>1, <2>2, <2>3, <2>4, <2>6
<1>4. CASE DrainReleaseOne(t)
  <2> USE <1>4 DEF DrainReleaseOne, ReleaseOne
  <2>1. RegistryOK' BY DEF RegistryOK
  <2>2. BackendsOK' BY DropLast DEF BackendsOK, LocalsOK
  <2>3. CallsOK' BY DEF CallsOK
  <2>4. LocalsOK' BY DropLast DEF LocalsOK
  <2>5. FramesOK' BY DEF FramesOK, Frame
  <2> QED BY <2>1, <2>2, <2>3, <2>4, <2>5
<1>5. CASE Released(t)
  <2> USE <1>5 DEF Released
  <2>1. RegistryOK' BY DEF RegistryOK
  <2>2. BackendsOK' BY DEF BackendsOK
  <2>3. CASE t = GS
    <3> USE <2>3
    <3>0. /\ pc' = [pc EXCEPT ![GS] = "gsNext"]
          /\ ent' = [ent EXCEPT ![GS] = None]
          /\ UNCHANGED <<calls, keyOf, ret, call, tgt, inst, rel, snap, stopping>>
      OBVIOUS
    <3> HIDE <1>5
    <3>1. CallsOK' BY <3>0 DEF CallsOK
    <3>2. (pc \in [Threads -> Pcs])' BY <3>0 DEF LocalsOK, Pcs
    <3>3. LocalsOK' BY <3>0, <3>2 DEF LocalsOK
    <3>4. Frame(t)' BY <3>0 DEF LocalsOK, FramesOK, Frame, FrameOK
    <3>5. FramesOK' BY <3>0, <3>4 DEF FramesOK, Frame, LocalsOK
    <3> QED BY <2>1, <2>2, <3>1, <3>3, <3>5
  <2>4. CASE t \in Procs /\ inst[t] # None
    <3> USE <2>4
    <3>0. /\ pc' = [pc EXCEPT ![t] = "stopInst"]
          /\ UNCHANGED <<calls, keyOf, ret, call, ent, tgt, inst, rel, snap, stopping>>
      OBVIOUS
    <3> HIDE <1>5
    <3>1. CallsOK' BY <3>0 DEF CallsOK
    <3>2. (pc \in [Threads -> Pcs])' BY <3>0 DEF LocalsOK, Pcs
    <3>3. LocalsOK' BY <3>0, <3>2 DEF LocalsOK
    <3>4. pc[t] = "release" BY <1>5
    <3>5. Frame(t)' BY <3>0, <3>4 DEF LocalsOK, FramesOK, Frame, FrameOK
    <3>6. FramesOK' BY <3>0, <3>5 DEF FramesOK, Frame, LocalsOK
    <3> QED BY <2>1, <2>2, <3>1, <3>3, <3>6
  <2>5. CASE t \in Procs /\ inst[t] = None
    BY <2>1, <2>2, <2>5, Returned
  <2> QED BY <2>3, <2>4, <2>5
<1> QED BY <1>1, <1>2, <1>3, <1>4, <1>5 DEF Draining

\* The arrival of a call of OpenPoolWithKey or ClosePoolWithKey.
LEMMA TypeInvArrive ==
  ASSUME TypeInv, NEW p \in Procs, NEW k \in Keys, NEW l \in {"lookup", "closeRemove"},
         Arrive(p, k, l)
  PROVE  TypeInv'
<1> USE DEF TypeInv, Arrive, registry, backends, embedded, gsLocals, Goto
<1>0. calls + 1 \in Entry
  BY PoolRegistryAssumption DEF PoolRegistryAssumption, CallsOK, Ref, Entry
<1>1. RegistryOK' BY DEF RegistryOK
<1>2. BackendsOK' BY DEF BackendsOK
<1>3. CallsOK'
  <2>1. (calls \in Ref)' BY <1>0
  <2>2. (keyOf \in [Entry -> Keys \cup {NoKey}])' BY <1>0 DEF CallsOK
  <2>3. (ret \in [Procs -> Ref])' BY DEF CallsOK
  <2> QED BY <2>1, <2>2, <2>3 DEF CallsOK
<1>4. LocalsOK'
  <2>1. (pc \in [Threads -> Pcs])' BY DEF LocalsOK, Pcs, OpenPc, ClosePc
  <2>2. (call \in [Threads -> Ref])' BY <1>0 DEF LocalsOK
  <2> QED BY <2>1, <2>2 DEF LocalsOK
<1>5. Frame(p)'
  <2>1. /\ pc'[p] = l
        /\ call'[p] = calls + 1
        /\ keyOf'[call'[p]] = k
    BY <1>0 DEF LocalsOK, CallsOK
  <2> QED
    BY <1>0, <2>1
    DEF Frame, FrameOK, Holding, Making, DrainPc, MakePc, EndPc, GsPc
<1>6. ASSUME NEW u \in Threads, u # p
      PROVE  Frame(u)'
  <2>1. /\ pc'[u] = pc[u] /\ call'[u] = call[u] /\ ent'[u] = ent[u]
        /\ tgt'[u] = tgt[u] /\ inst'[u] = inst[u]
    BY <1>6 DEF LocalsOK
  <2>2. keyOf[call[u]] \in Keys => keyOf'[call[u]] \in Keys
    BY <1>0 DEF CallsOK
  <2>3. Frame(u) BY DEF FramesOK
  <2> QED BY <2>1, <2>2, <2>3 DEF Frame, FrameOK
<1>7. FramesOK' BY <1>5, <1>6 DEF FramesOK
<1> QED BY <1>1, <1>2, <1>3, <1>4, <1>7

\* The steps of gracefulShutdown outside the drain of an entry, and the signal.
LEMMA TypeInvShutdown ==
  ASSUME TypeInv,
         \/ Signal \/ GsSnapshot \/ GsNext \/ GsInstances \/ GsStop
         \/ GsStragglers \/ GsStop2
  PROVE  TypeInv'
<1> USE DEF TypeInv, registry, backends, embedded, history, gsLocals, locals, Goto
<1> USE DEF DrainPc, Making, Holding, MakePc, EndPc, GsPc
<1>1. CASE Signal
  <2> USE <1>1 DEF Signal
  <2>1. RegistryOK' BY DEF RegistryOK
  <2>2. BackendsOK' BY DEF BackendsOK
  <2>3. CallsOK' BY DEF CallsOK
  <2>4. LocalsOK' BY DEF LocalsOK, Pcs
  <2>5. Frame(GS)' BY DEF LocalsOK, FramesOK, Frame, FrameOK
  <2>6. FramesOK' BY <2>5 DEF FramesOK, Frame, LocalsOK
  <2> QED BY <2>1, <2>2, <2>3, <2>4, <2>6
<1>2. CASE GsSnapshot
  <2> USE <1>2 DEF GsSnapshot
  <2>1. RegistryOK' BY DEF RegistryOK
  <2>2. BackendsOK' BY DEF BackendsOK
  <2>3. CallsOK' BY DEF CallsOK
  <2>4. LocalsOK'
    <3>1. (snap \in SUBSET Entry)' BY DEF RegistryOK
    <3>2. (pc \in [Threads -> Pcs])' BY DEF LocalsOK, Pcs
    <3> QED BY <3>1, <3>2 DEF LocalsOK
  <2>5. Frame(GS)' BY DEF LocalsOK, FramesOK, Frame, FrameOK
  <2>6. FramesOK' BY <2>5 DEF FramesOK, Frame, LocalsOK
  <2> QED BY <2>1, <2>2, <2>3, <2>4, <2>6
<1>3. CASE GsNext
  <2> USE <1>3 DEF GsNext
  <2>1. RegistryOK' BY DEF RegistryOK
  <2>2. BackendsOK' BY DEF BackendsOK
  <2>3. CallsOK' BY DEF CallsOK
  <2>4. CASE snap = {}
    <3> USE <2>4
    <3>1. LocalsOK' BY DEF LocalsOK, Pcs
    <3>2. Frame(GS)' BY DEF LocalsOK, FramesOK, Frame, FrameOK
    <3>3. FramesOK' BY <3>2 DEF FramesOK, Frame, LocalsOK
    <3> QED BY <2>1, <2>2, <2>3, <3>1, <3>3
  <2>5. ASSUME NEW e \in snap, ent' = [ent EXCEPT ![GS] = e], snap' = snap \ {e},
               Goto(GS, "drain")
        PROVE  TypeInv'
    <3>0. e \in Entry BY DEF LocalsOK
    <3>1. (pc \in [Threads -> Pcs])' BY <2>5 DEF LocalsOK, Pcs, ClosePc
    <3>2. LocalsOK' BY <2>5, <3>0, <3>1 DEF LocalsOK
    <3>3. Frame(GS)' BY <2>5, <3>0 DEF LocalsOK, FramesOK, Frame, FrameOK
    <3>4. FramesOK' BY <2>5, <3>3 DEF FramesOK, Frame, LocalsOK
    <3> QED BY <2>1, <2>2, <2>3, <3>2, <3>4
  <2> QED BY <2>4, <2>5
<1>4. ASSUME NEW from, NEW to \in {"gsStop", "gsStop2"}, SnapshotInstances(from, to)
      PROVE  TypeInv'
  <2> USE <1>4 DEF SnapshotInstances
  <2>1. RegistryOK' BY DEF RegistryOK
  <2>2. BackendsOK' BY DEF BackendsOK
  <2>3. CallsOK' BY DEF CallsOK
  <2>4. LocalsOK'
    <3>1. (stopping \in SUBSET Entry)' BY DEF BackendsOK
    <3>2. (pc \in [Threads -> Pcs])' BY DEF LocalsOK, Pcs
    <3> QED BY <3>1, <3>2 DEF LocalsOK
  <2>5. Frame(GS)' BY DEF LocalsOK, FramesOK, Frame, FrameOK
  <2>6. FramesOK' BY <2>5 DEF FramesOK, Frame, LocalsOK
  <2> QED BY <2>1, <2>2, <2>3, <2>4, <2>6
<1>5. ASSUME NEW l, StopSnapshot(l)
      PROVE  TypeInv'
  <2> USE <1>5 DEF StopSnapshot
  <2>1. RegistryOK' BY DEF RegistryOK
  <2>2. BackendsOK' BY DEF BackendsOK, LocalsOK
  <2>3. CallsOK' BY DEF CallsOK
  <2>4. LocalsOK' BY DEF LocalsOK
  <2>5. FramesOK' BY DEF FramesOK, Frame
  <2> QED BY <2>1, <2>2, <2>3, <2>4, <2>5
<1>6. ASSUME NEW from, NEW to \in {"gsStragglers", "gsDone"}, SnapshotStopped(from, to)
      PROVE  TypeInv'
  <2> USE <1>6 DEF SnapshotStopped
  <2>1. RegistryOK' BY DEF RegistryOK
  <2>2. BackendsOK' BY DEF BackendsOK
  <2>3. CallsOK' BY DEF CallsOK
  <2>4. LocalsOK' BY DEF LocalsOK, Pcs
  <2>5. Frame(GS)' BY DEF LocalsOK, FramesOK, Frame, FrameOK
  <2>6. FramesOK' BY <2>5 DEF FramesOK, Frame, LocalsOK
  <2> QED BY <2>1, <2>2, <2>3, <2>4, <2>6
<1> QED
  BY <1>1, <1>2, <1>3, <1>4, <1>5, <1>6 DEF GsInstances, GsStop, GsStragglers, GsStop2

\* TypeInv holds of every initial state,
LEMMA TypeInvInit == Init => TypeInv
<1> SUFFICES ASSUME Init PROVE TypeInv OBVIOUS
<1> USE DEF Init
<1>1. RegistryOK BY DEF RegistryOK
<1>2. BackendsOK BY DEF BackendsOK
<1>3. CallsOK BY DEF CallsOK, None
<1>4. LocalsOK BY DEF LocalsOK, Pcs, GsPc
<1>5. FramesOK
  BY DEF FramesOK, Frame, FrameOK, Holding, Making, DrainPc, MakePc, EndPc, GsPc
<1> QED BY <1>1, <1>2, <1>3, <1>4, <1>5 DEF TypeInv

\* and every step keeps it.
LEMMA TypeInvNext == TypeInv /\ [Next]_vars => TypeInv'
<1> SUFFICES ASSUME TypeInv, [Next]_vars PROVE TypeInv' OBVIOUS
<1>1. ASSUME NEW p \in Procs, NEW k \in Keys, OpenCall(p, k) \/ CloseCall(p, k)
      PROVE  TypeInv'
  BY <1>1, TypeInvArrive DEF OpenCall, CloseCall
<1>2. ASSUME NEW p \in Procs, Work(p)
      PROVE  TypeInv'
  BY <1>2, TypeInvOpening, TypeInvProvisioning, TypeInvEnding, TypeInvDraining,
     TypeInvClosing, TypeInvMigrate DEF Work
<1>3. CASE Signal BY <1>3, TypeInvShutdown
<1>4. CASE Shutdown BY <1>4, TypeInvShutdown, TypeInvDraining DEF Shutdown
<1>5. CASE UNCHANGED vars
  <2> USE <1>5 DEF TypeInv, vars, registry, backends, embedded, history, locals, gsLocals
  <2>1. RegistryOK' BY DEF RegistryOK
  <2>2. BackendsOK' BY DEF BackendsOK
  <2>3. CallsOK' BY DEF CallsOK
  <2>4. LocalsOK' BY DEF LocalsOK
  <2>5. FramesOK' BY DEF FramesOK, Frame
  <2> QED BY <2>1, <2>2, <2>3, <2>4, <2>5
<1> QED BY <1>1, <1>2, <1>3, <1>4, <1>5 DEF Next, Quiet

FlagOK == shuttingDown \in BOOLEAN

\* shuttingDown is only ever set to TRUE.
LEMMA FlagInvariance == Spec => []FlagOK
<1>0. FlagOK /\ [Next]_vars => FlagOK'
  <2> SUFFICES ASSUME FlagOK, [Next]_vars, shuttingDown' # shuttingDown
               PROVE  shuttingDown' = TRUE
    BY DEF FlagOK
  <2> USE DEF embedded
  <2>1. ASSUME NEW p \in Procs, NEW k \in Keys, OpenCall(p, k) \/ CloseCall(p, k)
        PROVE  FALSE
    BY <2>1 DEF OpenCall, CloseCall, Arrive
  <2>2. ASSUME NEW t, Draining(t)
        PROVE  FALSE
    BY <2>2 DEF Draining, Drain, ClosePool, Take, TakeResources, DrainReleaseOne,
       ReleaseOne, Released
  <2>3. ASSUME NEW p \in Procs, Opening(p)
        PROVE  FALSE
    BY <2>3 DEF Opening, Lookup, FastRead, FastWait, Slow, SlowWait, Replace, CreateEntry
  <2>4. ASSUME NEW p \in Procs, Provisioning(p)
        PROVE  FALSE
    BY <2>4 DEF Provisioning, ProvisionFails, ProvisionPlain, NewDialer, StartContainer,
       TcLookup, TcAttach, StartServer, Register, StopOld, NewPool, NewPoolFails, UndoTake,
       UndoStop, StopHeld
  <2>5. ASSUME NEW p \in Procs, Ending(p) \/ Closing(p)
        PROVE  FALSE
    BY <2>5
    DEF Ending, Store, CloseDone, Fail, FailReleaseOne, FailReleased, RemoveFailed,
       TakeResources, ReleaseOne, Closing, CloseRemove, CloseInst, CloseStop
  <2>6. CASE Signal BY <2>6 DEF Signal
  <2>7. CASE Shutdown
    BY <2>2, <2>7 DEF Shutdown, GsSnapshot, GsNext, GsInstances, GsStop, GsStragglers,
       GsStop2, SnapshotInstances, StopSnapshot, SnapshotStopped
  <2>8. CASE UNCHANGED vars BY <2>8 DEF vars
  <2>9. ASSUME NEW p \in Procs, Migrate(p)
        PROVE  FALSE
    BY <2>9 DEF Migrate
  <2> QED BY <2>1, <2>2, <2>3, <2>4, <2>5, <2>6, <2>7, <2>8, <2>9 DEF Next, Work, Quiet
<1> QED
  <2>1. Init => FlagOK BY DEF Init, FlagOK
  <2> QED BY <1>0, <2>1, PTL DEF Spec

\* TypeInv is an invariant.
LEMMA TypeInvariance == Spec => []TypeInv
BY TypeInvInit, TypeInvNext, PTL DEF Spec

\* The registry's maps, the entries and every goroutine's locals have their types in
\* every reachable state of every instance; in particular the entry that a creation,
\* a wait or a drain works on is never nil.
THEOREM TypeCorrect == Spec => []TypeOK
<1>1. TypeInv /\ FlagOK => TypeOK
  <2> SUFFICES ASSUME TypeInv, FlagOK PROVE TypeOK
    OBVIOUS
  <2> QED BY Zenon DEF TypeInv, FlagOK, TypeOK
<1> QED BY <1>1, FlagInvariance, TypeInvariance, PTL

=============================================================================
