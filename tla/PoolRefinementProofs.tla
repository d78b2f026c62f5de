----------------------- MODULE PoolRefinementProofs -----------------------
(***************************************************************************)
(* PoolRegistry implements PoolLifecycle, for every number of goroutines,  *)
(* keys and calls, and its remaining safety properties hold.               *)
(*                                                                         *)
(* LifeInv says which pools may be closed; DialerInv adds which backends   *)
(* may be released.  A dialer is on no list but that of the entry whose    *)
(* call created it (ResOK, RelOK), and what the code stops as an embedded  *)
(* server is an embedded server (HeldOK, InstancesOK, StoppingOK), so a    *)
(* release or a stop never hits the dialer of another generation.          *)
(*                                                                         *)
(* The sections after the refinement add four more invariants, one each    *)
(* for the shutdown (ShutdownInv), the embedded servers in hand            *)
(* (ServerInv), the owners of dialers (OwnerInv) and the openings that     *)
(* nothing disturbs (CalmInv).                                             *)
(***************************************************************************)
EXTENDS PoolLifecycleProofs, SequenceTheorems

Elems(s) == {s[i] : i \in 1 .. Len(s)}

\* Backend g may be on the list of entry e.
Listed(g, e) ==
    /\ keyOf[g] \in Keys
    /\ ext[g] # "none"
    /\ Kind[keyOf[g]] = "cloudsql" => g = e

Server(g) == keyOf[g] \in Keys /\ ext[g] # "none" /\ Kind[keyOf[g]] = "embedded"

ResOK == \A e \in Entry : \A g \in Elems(res[e]) : Listed(g, e)

RelOK ==
    \A t \in Threads :
        /\ \A g \in Elems(rel[t]) : Listed(g, ent[t])
        /\ pc[t] \notin {"failRelease", "release"} => rel[t] = <<>>

HeldOK      == \A t \in Threads : inst[t] # None => Server(inst[t])
InstancesOK == \A k \in Keys : instances[k] # None => Server(instances[k])
StoppingOK  == \A g \in stopping : Server(g)

FutureKeyless == \A e \in Entry : e > calls => keyOf[e] = NoKey /\ ext[e] = "none"

\* What the call of p has acquired when it is at l.
Acquired(p, l) ==
    /\ l \in OpenPc \cup {"provision"} => ext[call[p]] = "none"
    /\ l \in {"tcLookup", "tcAttach"} =>
          Kind[Key(p)] = "testcontainer" /\ ext[call[p]] # "none"
    /\ l \in {"register", "stopOld", "undoTake"} =>
          Kind[Key(p)] = "embedded" /\ ext[call[p]] # "none"
    /\ l = "newPool" =>
          /\ Kind[Key(p)] # "plain" => ext[call[p]] # "none"
          /\ Kind[Key(p)] = "cloudsql" => ext[call[p]] = "live"

Acquisitions == \A p \in Procs : Acquired(p, pc[p])

DialerInv ==
    /\ ResOK /\ RelOK /\ HeldOK /\ InstancesOK /\ StoppingOK
    /\ FutureKeyless /\ Acquisitions /\ DialerOutlivesPool

(***************************************************************************)
(* Lists of backends.                                                      *)
(***************************************************************************)
\* The empty list has no element,
LEMMA ElemsEmpty == Elems(<<>>) = {}
BY DEF Elems

\* an addition adds one,
LEMMA ElemsAppend ==
  ASSUME NEW s \in Seq(Entry), NEW x \in Entry
  PROVE  Elems(Append(s, x)) = Elems(s) \cup {x}
<1>1. Len(Append(s, x)) = Len(s) + 1 /\ Len(s) \in Nat OBVIOUS
<1>2. ASSUME NEW g \in Elems(Append(s, x)) PROVE g \in Elems(s) \cup {x}
  <2>1. PICK i \in 1 .. Len(s) + 1 : g = Append(s, x)[i] BY <1>1 DEF Elems
  <2>2. CASE i = Len(s) + 1 BY <2>1, <2>2
  <2>3. CASE i \in 1 .. Len(s) BY <2>1, <2>3 DEF Elems
  <2> QED BY <1>1, <2>2, <2>3
<1>3. x \in Elems(Append(s, x))
  <2>1. Append(s, x)[Len(s) + 1] = x OBVIOUS
  <2> QED BY <1>1, <2>1 DEF Elems
<1>4. ASSUME NEW i \in 1 .. Len(s) PROVE s[i] \in Elems(Append(s, x))
  <2>1. Append(s, x)[i] = s[i] /\ i \in 1 .. Len(s) + 1 BY <1>1
  <2> QED BY <1>1, <2>1 DEF Elems
<1>5. ASSUME NEW g \in Elems(s) PROVE g \in Elems(Append(s, x)) BY <1>4 DEF Elems
<1> QED BY <1>2, <1>3, <1>5

\* A list without its last element is one shorter,
LEMMA LenDropped ==
  ASSUME NEW s \in Seq(Entry), s # <<>>
  PROVE  Len(SubSeq(s, 1, Len(s) - 1)) = Len(s) - 1
<1>1. Len(s) \in Nat /\ Len(s) # 0 OBVIOUS
<1>2. 1 \in Int /\ Len(s) - 1 \in Int /\ \A i \in 1 .. Len(s) - 1 : s[i] \in Entry
  BY <1>1
<1>3. Len(SubSeq(s, 1, Len(s) - 1))
        = IF 1 <= Len(s) - 1 THEN (Len(s) - 1) - 1 + 1 ELSE 0
  BY <1>2, SubSeqProperties
<1>4. ASSUME NEW n \in Nat, n # 0
      PROVE  (IF 1 <= n - 1 THEN (n - 1) - 1 + 1 ELSE 0) = n - 1
  BY <1>4
<1> QED BY <1>1, <1>3, <1>4

\* and the last one, which is released next, is an element, without which the others
\* remain.
LEMMA ElemsDrop ==
  ASSUME NEW s \in Seq(Entry), s # <<>>
  PROVE  /\ s[Len(s)] \in Elems(s)
         /\ Elems(SubSeq(s, 1, Len(s) - 1)) \subseteq Elems(s)
<1>1. Len(s) \in Nat /\ Len(s) # 0 OBVIOUS
<1>2. s[Len(s)] \in Elems(s) BY <1>1 DEF Elems
<1>3. Len(SubSeq(s, 1, Len(s) - 1)) = Len(s) - 1 BY LenDropped
<1>4. \A i \in 1 .. Len(s) - 1 : SubSeq(s, 1, Len(s) - 1)[i] = s[i] /\ i \in 1 .. Len(s)
  BY <1>1
<1>5. Elems(SubSeq(s, 1, Len(s) - 1)) \subseteq Elems(s) BY <1>3, <1>4 DEF Elems
<1> QED BY <1>2, <1>5

\* A call number is not one to come.
LEMMA CallMade ==
  ASSUME TypeInv, LifeInv, NEW p \in Procs
  PROVE  ~(call[p] > calls)
<1>1. call[p] \in Nat /\ calls \in Nat
  BY RefNat, GSFacts DEF TypeInv, LocalsOK, CallsOK
<1>2. call[p] <= calls BY DEF LifeInv, CallsMade
<1> QED BY <1>1, <1>2

USE RefFacts, GSFacts

\* A step that moves a goroutine on and acquires, releases and stops nothing keeps
\* DialerInv.
LEMMA DialerWalk ==
  ASSUME TypeInv,
         LifeInv,
         DialerInv,
         NEW t \in Threads, NEW y, Goto(t, y),
         t \in Procs => Acquired(t, y),
         y \in {"failRelease", "release"} \/ rel[t] = <<>>,
         ent' = ent \/ (rel[t] = <<>> /\ \E e : ent' = [ent EXCEPT ![t] = e]),
         UNCHANGED <<ext, res, rel, inst, instances, stopping, calls, keyOf, call, pg>>
  PROVE  DialerInv'
<1> USE DEF TypeInv, DialerInv, Goto, None, Making, DrainPc, Holding
<1> USE DEF FailPc, OpenPc, MakePc, EndPc, ClosePc, GsPc
<1>0. ResOK' BY DEF ResOK, Listed, RegistryOK, BackendsOK
<1>1. RelOK' BY ElemsEmpty DEF RelOK, Listed, LocalsOK, BackendsOK
<1>2. HeldOK' BY DEF HeldOK, Server, LocalsOK, BackendsOK
<1>3. InstancesOK' BY DEF InstancesOK, Server, BackendsOK
<1>4. StoppingOK' BY DEF StoppingOK, Server, LocalsOK, BackendsOK
<1>5. FutureKeyless' BY DEF FutureKeyless, CallsOK, BackendsOK
<1>6. Acquisitions' BY DEF Acquisitions, Acquired, Key, LocalsOK, BackendsOK
<1>7. DialerOutlivesPool' BY DEF DialerOutlivesPool, KindOf, BackendsOK
<1> QED BY <1>0, <1>1, <1>2, <1>3, <1>4, <1>5, <1>6, <1>7

\* So does a return.
LEMMA DialerLeave ==
  ASSUME TypeInv,
         LifeInv,
         DialerInv,
         NEW p \in Procs, NEW g, Return(p, g),
         UNCHANGED <<ext, res, instances, stopping, calls, keyOf, pg>>
  PROVE  DialerInv'
<1> USE DEF TypeInv, DialerInv, Goto, None, Making, DrainPc, Holding
<1> USE DEF FailPc, OpenPc, MakePc, EndPc, ClosePc, GsPc
<1> USE DEF Return
<1>0. ResOK' BY DEF ResOK, Listed, RegistryOK, BackendsOK
<1>1. RelOK' BY ElemsEmpty DEF RelOK, Listed, LocalsOK, BackendsOK
<1>2. HeldOK' BY DEF HeldOK, Server, LocalsOK, BackendsOK
<1>3. InstancesOK' BY DEF InstancesOK, Server, BackendsOK
<1>4. StoppingOK' BY DEF StoppingOK, Server, LocalsOK, BackendsOK
<1>5. FutureKeyless' BY DEF FutureKeyless, CallsOK, BackendsOK
<1>6. Acquisitions' BY DEF Acquisitions, Acquired, Key, LocalsOK, BackendsOK
<1>7. DialerOutlivesPool' BY DEF DialerOutlivesPool, KindOf, BackendsOK
<1> QED BY <1>0, <1>1, <1>2, <1>3, <1>4, <1>5, <1>6, <1>7

\* A new dialer is put on the list of its own entry.
LEMMA DialerNew ==
  ASSUME TypeInv,
         LifeInv,
         DialerInv,
         NEW p \in Procs,
         NewDialer(p)
  PROVE  DialerInv'
<1> USE DEF TypeInv, DialerInv, Goto, None, Making, DrainPc, Holding
<1> USE DEF FailPc, OpenPc, MakePc, EndPc, ClosePc, GsPc
<1> USE DEF NewDialer, registry, backends, embedded, history, locals, gsLocals
<1>0. /\ call[p] \in Entry /\ Key(p) \in Keys /\ p # GS
    /\ keyOf[call[p]] = Key(p)
  BY RunningCall DEF Key
<1> USE <1>0
<1>1. ent[p] = call[p]
  BY DEF FramesOK, Frame, FrameOK
<1> USE <1>1
<1>2. ~(call[p] > calls)
  BY CallMade
<1> USE <1>2
<1>3. ResOK' BY ElemsAppend DEF ResOK, Listed, RegistryOK, BackendsOK
<1>4. RelOK' BY DEF RelOK, Listed, LocalsOK, BackendsOK
<1>5. HeldOK' BY DEF HeldOK, Server, LocalsOK, BackendsOK
<1>6. InstancesOK' BY DEF InstancesOK, Server, BackendsOK
<1>7. StoppingOK' BY DEF StoppingOK, Server, LocalsOK, BackendsOK
<1>8. FutureKeyless' BY DEF FutureKeyless, CallsOK, BackendsOK
<1>9. Acquisitions'
  BY DEF Acquisitions, Acquired, Key, LocalsOK, BackendsOK, LifeInv, UniqueCalls,
     FramesOK, Frame, FrameOK
<1>10. DialerOutlivesPool' BY DEF DialerOutlivesPool, KindOf, BackendsOK
<1> QED BY <1>3, <1>4, <1>5, <1>6, <1>7, <1>8, <1>9, <1>10

\* A test container is started for a key without dialers,
LEMMA DialerContainer ==
  ASSUME TypeInv,
         LifeInv,
         DialerInv,
         NEW p \in Procs,
         StartContainer(p)
  PROVE  DialerInv'
<1> USE DEF TypeInv, DialerInv, Goto, None, Making, DrainPc, Holding
<1> USE DEF FailPc, OpenPc, MakePc, EndPc, ClosePc, GsPc
<1> USE DEF StartContainer, registry, backends, embedded, history, locals, gsLocals
<1>0. /\ call[p] \in Entry /\ Key(p) \in Keys /\ p # GS
    /\ keyOf[call[p]] = Key(p)
  BY RunningCall DEF Key
<1> USE <1>0
<1>1. ent[p] = call[p]
  BY DEF FramesOK, Frame, FrameOK
<1> USE <1>1
<1>2. ~(call[p] > calls)
  BY CallMade
<1> USE <1>2
<1>3. ResOK' BY DEF ResOK, Listed, RegistryOK, BackendsOK
<1>4. RelOK' BY DEF RelOK, Listed, LocalsOK, BackendsOK
<1>5. HeldOK' BY DEF HeldOK, Server, LocalsOK, BackendsOK
<1>6. InstancesOK' BY DEF InstancesOK, Server, BackendsOK
<1>7. StoppingOK' BY DEF StoppingOK, Server, LocalsOK, BackendsOK
<1>8. FutureKeyless' BY DEF FutureKeyless, CallsOK, BackendsOK
<1>9. Acquisitions'
  BY DEF Acquisitions, Acquired, Key, LocalsOK, BackendsOK, LifeInv, UniqueCalls,
     FramesOK, Frame, FrameOK
<1>10. DialerOutlivesPool' BY DEF DialerOutlivesPool, KindOf, BackendsOK
<1> QED BY <1>3, <1>4, <1>5, <1>6, <1>7, <1>8, <1>9, <1>10

\* and so is an embedded server.
LEMMA DialerServer ==
  ASSUME TypeInv,
         LifeInv,
         DialerInv,
         NEW p \in Procs,
         StartServer(p)
  PROVE  DialerInv'
<1> USE DEF TypeInv, DialerInv, Goto, None, Making, DrainPc, Holding
<1> USE DEF FailPc, OpenPc, MakePc, EndPc, ClosePc, GsPc
<1> USE DEF StartServer, registry, backends, embedded, history, locals, gsLocals
<1>0. /\ call[p] \in Entry /\ Key(p) \in Keys /\ p # GS
    /\ keyOf[call[p]] = Key(p)
  BY RunningCall DEF Key
<1> USE <1>0
<1>1. ent[p] = call[p]
  BY DEF FramesOK, Frame, FrameOK
<1> USE <1>1
<1>2. ~(call[p] > calls)
  BY CallMade
<1> USE <1>2
<1>3. ResOK' BY DEF ResOK, Listed, RegistryOK, BackendsOK
<1>4. RelOK' BY DEF RelOK, Listed, LocalsOK, BackendsOK
<1>5. HeldOK' BY DEF HeldOK, Server, LocalsOK, BackendsOK
<1>6. InstancesOK' BY DEF InstancesOK, Server, BackendsOK
<1>7. StoppingOK' BY DEF StoppingOK, Server, LocalsOK, BackendsOK
<1>8. FutureKeyless' BY DEF FutureKeyless, CallsOK, BackendsOK
<1>9. Acquisitions'
  BY DEF Acquisitions, Acquired, Key, LocalsOK, BackendsOK, LifeInv, UniqueCalls,
     FramesOK, Frame, FrameOK
<1>10. DialerOutlivesPool' BY DEF DialerOutlivesPool, KindOf, BackendsOK
<1> QED BY <1>3, <1>4, <1>5, <1>6, <1>7, <1>8, <1>9, <1>10

\* The container may go on any list.
LEMMA DialerAttach ==
  ASSUME TypeInv,
         LifeInv,
         DialerInv,
         NEW p \in Procs,
         TcAttach(p)
  PROVE  DialerInv'
<1> USE DEF TypeInv, DialerInv, Goto, None, Making, DrainPc, Holding
<1> USE DEF FailPc, OpenPc, MakePc, EndPc, ClosePc, GsPc
<1> USE DEF TcAttach, registry, backends, embedded, history, locals, gsLocals
<1>0. /\ call[p] \in Entry /\ Key(p) \in Keys /\ p # GS
    /\ keyOf[call[p]] = Key(p)
  BY RunningCall DEF Key
<1> USE <1>0
<1>1. ent[p] = call[p]
  BY DEF FramesOK, Frame, FrameOK
<1> USE <1>1
<1>2. tgt[p] \in Entry
  BY DEF FramesOK, Frame, FrameOK
<1> USE <1>2
<1>3. ResOK'
  BY ElemsAppend DEF ResOK, Listed, RegistryOK, BackendsOK, Acquisitions, Acquired,
     FramesOK, Frame, FrameOK
<1>4. RelOK' BY DEF RelOK, Listed, LocalsOK, BackendsOK
<1>5. HeldOK' BY DEF HeldOK, Server, LocalsOK, BackendsOK
<1>6. InstancesOK' BY DEF InstancesOK, Server, BackendsOK
<1>7. StoppingOK' BY DEF StoppingOK, Server, LocalsOK, BackendsOK
<1>8. FutureKeyless' BY DEF FutureKeyless, CallsOK, BackendsOK
<1>9. Acquisitions' BY DEF Acquisitions, Acquired, Key, LocalsOK, BackendsOK
<1>10. DialerOutlivesPool' BY DEF DialerOutlivesPool, KindOf, BackendsOK
<1> QED BY <1>3, <1>4, <1>5, <1>6, <1>7, <1>8, <1>9, <1>10

\* A registration concerns servers only,
LEMMA DialerRegister ==
  ASSUME TypeInv,
         LifeInv,
         DialerInv,
         NEW p \in Procs,
         Register(p)
  PROVE  DialerInv'
<1> USE DEF TypeInv, DialerInv, Goto, None, Making, DrainPc, Holding
<1> USE DEF FailPc, OpenPc, MakePc, EndPc, ClosePc, GsPc
<1>0. /\ pc[p] = "register"
      /\ UNCHANGED <<ext, res, rel, stopping, calls, keyOf, call, ent, pg>>
  BY DEF Register, registry, backends, embedded, history, locals, gsLocals
<1> USE <1>0
<1>1. /\ call[p] \in Entry /\ Key(p) \in Keys /\ p # GS
    /\ keyOf[call[p]] = Key(p)
  BY RunningCall DEF Key
<1> USE <1>1
<1>2. Server(call[p])
  BY DEF Register, Acquisitions, Acquired, Server
<1> USE <1>2
<1>3. PICK v \in {None, call[p], instances[Key(p)]} : inst' = [inst EXCEPT ![p] = v]
  BY DEF Register
<1> USE <1>3
<1>4. v # None => Server(v)
  BY DEF InstancesOK
<1> USE <1>4
<1>5. \/ instances' = instances
      \/ instances' = [instances EXCEPT ![Key(p)] = call[p]]
  BY DEF Register, registry, backends, embedded, history, locals, gsLocals
<1> USE <1>5
<1>6. PICK y \in {"newPool", "stopOld", "undoStop"} : Goto(p, y)
  BY DEF Register
<1> USE <1>6
<1>7. ResOK' BY DEF ResOK, Listed, RegistryOK, BackendsOK
<1>8. RelOK' BY DEF RelOK, Listed, LocalsOK, BackendsOK
<1>9. HeldOK' BY DEF HeldOK, Server, LocalsOK, BackendsOK
<1>10. InstancesOK' BY DEF InstancesOK, Server, BackendsOK
<1>11. StoppingOK' BY DEF StoppingOK, Server, LocalsOK, BackendsOK
<1>12. FutureKeyless' BY DEF FutureKeyless, CallsOK, BackendsOK
<1>13. Acquisitions'
  <2>1. Acquired(p, pc[p])' BY DEF Acquisitions, Acquired, Key, LocalsOK
  <2>2. ASSUME NEW q \in Procs, q # p PROVE Acquired(q, pc[q])'
    BY <2>2 DEF Acquisitions, Acquired, Key, LocalsOK
  <2> QED BY <2>1, <2>2 DEF Acquisitions
<1>14. DialerOutlivesPool' BY DEF DialerOutlivesPool, KindOf, BackendsOK
<1> QED BY <1>7, <1>8, <1>9, <1>10, <1>11, <1>12, <1>13, <1>14

\* and so does the stop of one.
LEMMA DialerHeld ==
  ASSUME TypeInv,
         LifeInv,
         DialerInv,
         NEW p \in Procs, NEW y \in {"newPool", "fail"}, StopHeld(p, y),
         <<pc[p], y>> \in {<<"stopOld", "newPool">>, <<"undoStop", "fail">>}
  PROVE  DialerInv'
<1> USE DEF TypeInv, DialerInv, Goto, None, Making, DrainPc, Holding
<1> USE DEF FailPc, OpenPc, MakePc, EndPc, ClosePc, GsPc
<1> USE DEF StopHeld, registry, backends, embedded, history, locals, gsLocals
<1>0. /\ call[p] \in Entry /\ Key(p) \in Keys /\ p # GS
    /\ keyOf[call[p]] = Key(p)
  BY RunningCall DEF Key
<1> USE <1>0
<1>1. ent[p] = call[p]
  BY DEF FramesOK, Frame, FrameOK
<1> USE <1>1
<1>2. inst[p] \in Entry
  BY DEF FramesOK, Frame, FrameOK
<1> USE <1>2
<1>3. ResOK' BY DEF ResOK, Listed, RegistryOK, BackendsOK
<1>4. RelOK' BY DEF RelOK, Listed, LocalsOK, BackendsOK
<1>5. HeldOK' BY DEF HeldOK, Server, LocalsOK, BackendsOK
<1>6. InstancesOK' BY DEF InstancesOK, Server, BackendsOK
<1>7. StoppingOK' BY DEF StoppingOK, Server, LocalsOK, BackendsOK
<1>8. FutureKeyless' BY DEF FutureKeyless, CallsOK, BackendsOK, HeldOK, Server
<1>9. Acquisitions'
  <2>1. Acquired(p, pc[p])'
    BY DEF Acquisitions, Acquired, Key, LocalsOK, BackendsOK, HeldOK, Server
  <2>2. ASSUME NEW q \in Procs, q # p PROVE Acquired(q, pc[q])'
    BY <2>2
    DEF Acquisitions, Acquired, Key, LocalsOK, BackendsOK, FramesOK, Frame, FrameOK,
       HeldOK, Server
  <2> QED BY <2>1, <2>2 DEF Acquisitions
<1>10. DialerOutlivesPool' BY DEF DialerOutlivesPool, KindOf, BackendsOK, HeldOK, Server
<1> QED BY <1>3, <1>4, <1>5, <1>6, <1>7, <1>8, <1>9, <1>10

\* A Cloud SQL pool is opened when its dialer is live.
LEMMA DialerPool ==
  ASSUME TypeInv,
         LifeInv,
         DialerInv,
         NEW p \in Procs,
         NewPool(p)
  PROVE  DialerInv'
<1> USE DEF TypeInv, DialerInv, Goto, None, Making, DrainPc, Holding
<1> USE DEF FailPc, OpenPc, MakePc, EndPc, ClosePc, GsPc
<1> USE DEF NewPool, registry, backends, embedded, history, locals, gsLocals
<1>0. /\ call[p] \in Entry /\ Key(p) \in Keys /\ p # GS
    /\ keyOf[call[p]] = Key(p)
  BY RunningCall DEF Key
<1> USE <1>0
<1>1. ent[p] = call[p]
  BY DEF FramesOK, Frame, FrameOK
<1> USE <1>1
<1>2. ResOK' BY DEF ResOK, Listed, RegistryOK, BackendsOK
<1>3. RelOK' BY DEF RelOK, Listed, LocalsOK, BackendsOK
<1>4. HeldOK' BY DEF HeldOK, Server, LocalsOK, BackendsOK
<1>5. InstancesOK' BY DEF InstancesOK, Server, BackendsOK
<1>6. StoppingOK' BY DEF StoppingOK, Server, LocalsOK, BackendsOK
<1>7. FutureKeyless' BY DEF FutureKeyless, CallsOK, BackendsOK
<1>8. Acquisitions' BY DEF Acquisitions, Acquired, Key, LocalsOK, BackendsOK
<1>9. DialerOutlivesPool'
  BY DEF DialerOutlivesPool, KindOf, BackendsOK, Acquisitions, Acquired
<1> QED BY <1>2, <1>3, <1>4, <1>5, <1>6, <1>7, <1>8, <1>9

\* A pool that cannot be opened costs a container at most.
LEMMA DialerPoolFails ==
  ASSUME TypeInv,
         LifeInv,
         DialerInv,
         NEW p \in Procs,
         NewPoolFails(p)
  PROVE  DialerInv'
<1> USE DEF TypeInv, DialerInv, Goto, None, Making, DrainPc, Holding
<1> USE DEF FailPc, OpenPc, MakePc, EndPc, ClosePc, GsPc
<1> USE DEF NewPoolFails, registry, backends, embedded, history, locals, gsLocals
<1>0. /\ call[p] \in Entry /\ Key(p) \in Keys /\ p # GS
    /\ keyOf[call[p]] = Key(p)
  BY RunningCall DEF Key
<1> USE <1>0
<1>1. ent[p] = call[p]
  BY DEF FramesOK, Frame, FrameOK
<1> USE <1>1
<1>2. ~(call[p] > calls)
  BY CallMade
<1> USE <1>2
<1>3. ResOK' BY DEF ResOK, Listed, RegistryOK, BackendsOK
<1>4. RelOK' BY DEF RelOK, Listed, LocalsOK, BackendsOK
<1>5. HeldOK' BY DEF HeldOK, Server, LocalsOK, BackendsOK
<1>6. InstancesOK' BY DEF InstancesOK, Server, BackendsOK
<1>7. StoppingOK' BY DEF StoppingOK, Server, LocalsOK, BackendsOK
<1>8. FutureKeyless' BY DEF FutureKeyless, CallsOK, BackendsOK
<1>9. Acquisitions'
  BY DEF Acquisitions, Acquired, Key, LocalsOK, BackendsOK, LifeInv, UniqueCalls,
     FramesOK, Frame, FrameOK
<1>10. DialerOutlivesPool' BY DEF DialerOutlivesPool, KindOf, BackendsOK
<1> QED BY <1>3, <1>4, <1>5, <1>6, <1>7, <1>8, <1>9, <1>10

\* The undo of a failed creation takes a server.
LEMMA DialerUndo ==
  ASSUME TypeInv,
         LifeInv,
         DialerInv,
         NEW p \in Procs,
         UndoTake(p)
  PROVE  DialerInv'
<1> USE DEF TypeInv, DialerInv, Goto, None, Making, DrainPc, Holding
<1> USE DEF FailPc, OpenPc, MakePc, EndPc, ClosePc, GsPc
<1> USE DEF UndoTake, registry, backends, embedded, history, locals, gsLocals
<1>0. /\ call[p] \in Entry /\ Key(p) \in Keys /\ p # GS
    /\ keyOf[call[p]] = Key(p)
  BY RunningCall DEF Key
<1> USE <1>0
<1>1. ent[p] = call[p]
  BY DEF FramesOK, Frame, FrameOK
<1> USE <1>1
<1>2. ResOK' BY DEF ResOK, Listed, RegistryOK, BackendsOK
<1>3. RelOK' BY DEF RelOK, Listed, LocalsOK, BackendsOK
<1>4. HeldOK'
  BY DEF HeldOK, Server, LocalsOK, BackendsOK, InstancesOK, Acquisitions, Acquired
<1>5. InstancesOK' BY DEF InstancesOK, Server, BackendsOK
<1>6. StoppingOK' BY DEF StoppingOK, Server, LocalsOK, BackendsOK
<1>7. FutureKeyless' BY DEF FutureKeyless, CallsOK, BackendsOK
<1>8. Acquisitions' BY DEF Acquisitions, Acquired, Key, LocalsOK, BackendsOK
<1>9. DialerOutlivesPool' BY DEF DialerOutlivesPool, KindOf, BackendsOK
<1> QED BY <1>2, <1>3, <1>4, <1>5, <1>6, <1>7, <1>8, <1>9

\* A list moves as a whole to the goroutine that works on its entry.
LEMMA DialerTake ==
  ASSUME TypeInv,
         LifeInv,
         DialerInv,
         NEW t \in Threads, NEW x, NEW y,
         <<x, y>> \in {<<"fail", "failRelease">>, <<"take", "release">>},
         TakeResources(t, x, y)
  PROVE  DialerInv'
<1> USE DEF TypeInv, DialerInv, Goto, None, Making, DrainPc, Holding
<1> USE DEF FailPc, OpenPc, MakePc, EndPc, ClosePc, GsPc
<1> USE DEF TakeResources, registry, backends, embedded, history, locals, gsLocals
<1>0. ent[t] \in Entry
  BY DEF FramesOK, Frame, FrameOK
<1> USE <1>0
<1>1. ResOK' BY ElemsEmpty DEF ResOK, Listed, RegistryOK, BackendsOK
<1>2. RelOK' BY DEF RelOK, Listed, LocalsOK, BackendsOK, ResOK, RegistryOK
<1>3. HeldOK' BY DEF HeldOK, Server, LocalsOK, BackendsOK
<1>4. InstancesOK' BY DEF InstancesOK, Server, BackendsOK
<1>5. StoppingOK' BY DEF StoppingOK, Server, LocalsOK, BackendsOK
<1>6. FutureKeyless' BY DEF FutureKeyless, CallsOK, BackendsOK
<1>7. Acquisitions' BY DEF Acquisitions, Acquired, Key, LocalsOK, BackendsOK
<1>8. DialerOutlivesPool' BY DEF DialerOutlivesPool, KindOf, BackendsOK
<1> QED BY <1>1, <1>2, <1>3, <1>4, <1>5, <1>6, <1>7, <1>8

\* A release hits the dialer of a closed or failed generation only.
LEMMA DialerRelease ==
  ASSUME TypeInv,
         LifeInv,
         DialerInv,
         NEW t \in Threads, NEW l \in {"failRelease", "release"},
         ReleaseOne(t, l)
  PROVE  DialerInv'
<1> USE DEF TypeInv, DialerInv, Goto, None, Making, DrainPc, Holding
<1> USE DEF FailPc, OpenPc, MakePc, EndPc, ClosePc, GsPc
<1> USE DEF ReleaseOne, registry, backends, embedded, history, locals, gsLocals
<1>0. ent[t] \in Entry
  BY DEF FramesOK, Frame, FrameOK
<1> USE <1>0
<1>1. rel[t][Len(rel[t])] \in Entry
  BY DropLast DEF LocalsOK
<1> USE <1>1
<1>2. Listed(rel[t][Len(rel[t])], ent[t])
  BY ElemsDrop DEF RelOK, LocalsOK
<1> USE <1>2
<1>3. ResOK' BY DEF ResOK, Listed, RegistryOK, BackendsOK
<1>4. RelOK' BY ElemsDrop DEF RelOK, Listed, LocalsOK, BackendsOK
<1>5. HeldOK' BY DEF HeldOK, Server, LocalsOK, BackendsOK
<1>6. InstancesOK' BY DEF InstancesOK, Server, BackendsOK
<1>7. StoppingOK' BY DEF StoppingOK, Server, LocalsOK, BackendsOK
<1>8. FutureKeyless' BY DEF FutureKeyless, CallsOK, BackendsOK, Listed
<1>9. Acquisitions'
  <2>1. ASSUME NEW q \in Procs, pc[q] = "newPool", Kind[Key(q)] = "cloudsql",
               call[q] = rel[t][Len(rel[t])]
        PROVE FALSE
    <3>1. call[q] = ent[t] BY <2>1 DEF Listed, Key
    <3>2. call[q] \notin done BY <2>1 DEF LifeInv, Creations, Creation
    <3>3. CASE l = "release" BY <3>1, <3>2, <3>3 DEF LifeInv, Drains, Draining1
    <3>4. CASE l = "failRelease"
      <4>1. t \in Procs /\ ent[t] = call[t] BY <3>4 DEF FramesOK, Frame, FrameOK
      <4>2. t = q BY <2>1, <3>1, <4>1 DEF LifeInv, UniqueCalls
      <4> QED BY <2>1, <3>4, <4>2
    <3> QED BY <3>3, <3>4
  <2> SUFFICES ASSUME NEW q \in Procs PROVE Acquired(q, pc[q])'
    BY DEF Acquisitions
  <2>2. Acquired(q, pc[q]) BY DEF Acquisitions
  <2> QED BY <2>1, <2>2 DEF Acquired, Key, LocalsOK, BackendsOK, Listed
<1>10. DialerOutlivesPool'
  BY DEF DialerOutlivesPool, KindOf, BackendsOK, Listed, LifeInv, Drains, Draining1,
     Creations, Creation, FramesOK, Frame, FrameOK
<1> QED BY <1>3, <1>4, <1>5, <1>6, <1>7, <1>8, <1>9, <1>10

\* A close takes the server under its key.
LEMMA DialerClose ==
  ASSUME TypeInv,
         LifeInv,
         DialerInv,
         NEW p \in Procs,
         NEW y \in {"stopInst", "drain"},
         CloseInst(p), Goto(p, y), inst' = [inst EXCEPT ![p] = instances[Key(p)]],
         UNCHANGED <<ret, call, ent, tgt, rel>>
  PROVE  DialerInv'
<1> USE DEF TypeInv, DialerInv, Goto, None, Making, DrainPc, Holding
<1> USE DEF FailPc, OpenPc, MakePc, EndPc, ClosePc, GsPc
<1>0. /\ pc[p] = "closeInst"
      /\ instances' = [instances EXCEPT ![Key(p)] = None]
      /\ UNCHANGED <<ext, res, stopping, calls, keyOf, pg>>
  BY DEF CloseInst, registry, backends, embedded, history, locals, gsLocals
<1> USE <1>0
<1>1. /\ call[p] \in Entry /\ Key(p) \in Keys /\ p # GS
    /\ keyOf[call[p]] = Key(p)
  BY RunningCall DEF Key
<1> USE <1>1
<1>2. ResOK' BY DEF ResOK, Listed, RegistryOK, BackendsOK
<1>3. RelOK' BY DEF RelOK, Listed, LocalsOK, BackendsOK
<1>4. HeldOK' BY DEF HeldOK, Server, LocalsOK, BackendsOK, InstancesOK
<1>5. InstancesOK' BY DEF InstancesOK, Server, BackendsOK
<1>6. StoppingOK' BY DEF StoppingOK, Server, LocalsOK, BackendsOK
<1>7. FutureKeyless' BY DEF FutureKeyless, CallsOK, BackendsOK
<1>8. Acquisitions' BY DEF Acquisitions, Acquired, Key, LocalsOK, BackendsOK
<1>9. DialerOutlivesPool' BY DEF DialerOutlivesPool, KindOf, BackendsOK
<1> QED BY <1>2, <1>3, <1>4, <1>5, <1>6, <1>7, <1>8, <1>9

\* A closed pool needs no dialer.
LEMMA DialerClosed ==
  ASSUME TypeInv,
         LifeInv,
         DialerInv,
         NEW t \in Threads, ClosePool(t)
  PROVE  DialerInv'
<1> USE DEF TypeInv, DialerInv, Goto, None, Making, DrainPc, Holding
<1> USE DEF FailPc, OpenPc, MakePc, EndPc, ClosePc, GsPc
<1> USE DEF ClosePool, registry, backends, embedded, history, locals, gsLocals
<1>0. ent[t] \in Entry
  BY DEF FramesOK, Frame, FrameOK
<1> USE <1>0
<1>1. ResOK' BY DEF ResOK, Listed, RegistryOK, BackendsOK
<1>2. RelOK' BY DEF RelOK, Listed, LocalsOK, BackendsOK
<1>3. HeldOK' BY DEF HeldOK, Server, LocalsOK, BackendsOK
<1>4. InstancesOK' BY DEF InstancesOK, Server, BackendsOK
<1>5. StoppingOK' BY DEF StoppingOK, Server, LocalsOK, BackendsOK
<1>6. FutureKeyless' BY DEF FutureKeyless, CallsOK, BackendsOK
<1>7. Acquisitions' BY DEF Acquisitions, Acquired, Key, LocalsOK, BackendsOK
<1>8. DialerOutlivesPool' BY DEF DialerOutlivesPool, KindOf, BackendsOK
<1> QED BY <1>1, <1>2, <1>3, <1>4, <1>5, <1>6, <1>7, <1>8

\* ClosePoolWithKey stops the server it took.
LEMMA DialerStop ==
  ASSUME TypeInv,
         LifeInv,
         DialerInv,
         NEW p \in Procs,
         CloseStop(p)
  PROVE  DialerInv'
<1> USE DEF TypeInv, DialerInv, Goto, None, Making, DrainPc, Holding
<1> USE DEF FailPc, OpenPc, MakePc, EndPc, ClosePc, GsPc
<1> USE DEF CloseStop, Return, registry, backends, embedded, history, locals, gsLocals
<1>0. /\ call[p] \in Entry /\ Key(p) \in Keys /\ p # GS
    /\ keyOf[call[p]] = Key(p)
  BY RunningCall DEF Key
<1> USE <1>0
<1>1. inst[p] \in Entry
  BY DEF FramesOK, Frame, FrameOK
<1> USE <1>1
<1>2. ResOK' BY DEF ResOK, Listed, RegistryOK, BackendsOK
<1>3. RelOK' BY ElemsEmpty DEF RelOK, Listed, LocalsOK, BackendsOK
<1>4. HeldOK' BY DEF HeldOK, Server, LocalsOK, BackendsOK
<1>5. InstancesOK' BY DEF InstancesOK, Server, BackendsOK
<1>6. StoppingOK' BY DEF StoppingOK, Server, LocalsOK, BackendsOK
<1>7. FutureKeyless' BY DEF FutureKeyless, CallsOK, BackendsOK, HeldOK, Server
<1>8. Acquisitions'
  BY DEF Acquisitions, Acquired, Key, LocalsOK, BackendsOK, HeldOK, Server
<1>9. DialerOutlivesPool' BY DEF DialerOutlivesPool, KindOf, BackendsOK, HeldOK, Server
<1> QED BY <1>2, <1>3, <1>4, <1>5, <1>6, <1>7, <1>8, <1>9

\* gracefulShutdown takes all servers,
LEMMA DialerSnapshot ==
  ASSUME TypeInv,
         LifeInv,
         DialerInv,
         NEW x \in GsPc, NEW y \in GsPc, SnapshotInstances(x, y)
  PROVE  DialerInv'
<1> USE DEF TypeInv, DialerInv, Goto, None, Making, DrainPc, Holding
<1> USE DEF FailPc, OpenPc, MakePc, EndPc, ClosePc, GsPc
<1> USE DEF SnapshotInstances, registry, backends, embedded, history, locals, gsLocals
<1>0. ResOK' BY DEF ResOK, Listed, RegistryOK, BackendsOK
<1>1. RelOK' BY DEF RelOK, Listed, LocalsOK, BackendsOK
<1>2. HeldOK' BY DEF HeldOK, Server, LocalsOK, BackendsOK
<1>3. InstancesOK' BY DEF InstancesOK, Server, BackendsOK
<1>4. StoppingOK' BY DEF StoppingOK, Server, LocalsOK, BackendsOK, InstancesOK
<1>5. FutureKeyless' BY DEF FutureKeyless, CallsOK, BackendsOK
<1>6. Acquisitions' BY DEF Acquisitions, Acquired, Key, LocalsOK, BackendsOK
<1>7. DialerOutlivesPool' BY DEF DialerOutlivesPool, KindOf, BackendsOK
<1> QED BY <1>0, <1>1, <1>2, <1>3, <1>4, <1>5, <1>6, <1>7

\* and stops them.
LEMMA DialerSnapshotStop ==
  ASSUME TypeInv,
         LifeInv,
         DialerInv,
         NEW x \in GsPc, StopSnapshot(x)
  PROVE  DialerInv'
<1> USE DEF TypeInv, DialerInv, Goto, None, Making, DrainPc, Holding
<1> USE DEF FailPc, OpenPc, MakePc, EndPc, ClosePc, GsPc
<1> USE DEF StopSnapshot, registry, backends, embedded, history, locals, gsLocals
<1>0. ResOK' BY DEF ResOK, Listed, RegistryOK, BackendsOK
<1>1. RelOK' BY DEF RelOK, Listed, LocalsOK, BackendsOK
<1>2. HeldOK' BY DEF HeldOK, Server, LocalsOK, BackendsOK
<1>3. InstancesOK' BY DEF InstancesOK, Server, BackendsOK
<1>4. StoppingOK' BY DEF StoppingOK, Server, LocalsOK, BackendsOK
<1>5. FutureKeyless' BY DEF FutureKeyless, CallsOK, BackendsOK, StoppingOK, Server
<1>6. Acquisitions'
  BY DEF Acquisitions, Acquired, Key, LocalsOK, BackendsOK, StoppingOK, Server
<1>7. DialerOutlivesPool'
  BY DEF DialerOutlivesPool, KindOf, BackendsOK, StoppingOK, Server
<1> QED BY <1>0, <1>1, <1>2, <1>3, <1>4, <1>5, <1>6, <1>7

\* No list and no server belongs to a call that is yet to come.
LEMMA DialerArrive ==
  ASSUME TypeInv,
         LifeInv,
         DialerInv,
         NEW p \in Procs, NEW k \in Keys, NEW l \in {"lookup", "closeRemove"},
         Arrive(p, k, l)
  PROVE  DialerInv'
<1> USE DEF TypeInv, DialerInv, Goto, None, Making, DrainPc, Holding
<1> USE DEF FailPc, OpenPc, MakePc, EndPc, ClosePc, GsPc
<1> USE DEF Arrive, registry, backends, embedded, history, locals, gsLocals
<1>0. calls + 1 \in Entry /\ calls \in Nat /\ calls + 1 > calls
  BY PoolRegistryAssumption DEF PoolRegistryAssumption, CallsOK, Ref, Entry
<1> USE <1>0
<1>1. keyOf[calls + 1] = NoKey /\ NoKey \notin Keys /\ ext[calls + 1] = "none"
  BY PoolRegistryAssumption DEF PoolRegistryAssumption, FutureKeyless
<1> USE <1>1
<1>2. ResOK' BY DEF ResOK, Listed, RegistryOK, BackendsOK
<1>3. RelOK' BY DEF RelOK, Listed, LocalsOK, BackendsOK
<1>4. HeldOK' BY DEF HeldOK, Server, LocalsOK, BackendsOK
<1>5. InstancesOK' BY DEF InstancesOK, Server, BackendsOK
<1>6. StoppingOK' BY DEF StoppingOK, Server, LocalsOK, BackendsOK
<1>7. FutureKeyless' BY RefNat DEF FutureKeyless, CallsOK, BackendsOK
<1>8. Acquisitions'
  <2>1. Acquired(p, pc[p])'
    BY DEF Acquisitions, Acquired, Key, LocalsOK, BackendsOK, CallsOK
  <2>2. ASSUME NEW q \in Procs, q # p PROVE Acquired(q, pc[q])'
    BY <2>2, RefNat
    DEF Acquisitions, Acquired, Key, LocalsOK, BackendsOK, FramesOK, Frame, FrameOK,
       CallsOK, LifeInv, CallsMade
  <2> QED BY <2>1, <2>2 DEF Acquisitions
<1>9. DialerOutlivesPool'
  BY DEF DialerOutlivesPool, KindOf, BackendsOK, FutureKeyless, LifeInv,
     FutureVirgin, Virgin
<1> QED BY <1>2, <1>3, <1>4, <1>5, <1>6, <1>7, <1>8, <1>9

\* The steps of resolvePool before the creation.
LEMMA DialerOpening ==
  ASSUME TypeInv, LifeInv, DialerInv, NEW p \in Procs, Opening(p)
  PROVE  DialerInv'
<1> USE DEF registry, backends, embedded, history, locals, gsLocals
<1> USE DEF OpenPc, MakePc, FailPc, GsPc
<1>1. CASE Lookup(p)
  <2>1. PICK y \in {"slow", "fastRead"} : Goto(p, y) BY <1>1 DEF Lookup
  <2>2. /\ \E e : ent' = [ent EXCEPT ![p] = e] /\ rel[p] = <<>>
        /\ UNCHANGED <<ext, res, rel, inst, instances, stopping, calls, keyOf, call, pg>>
    BY <1>1 DEF Lookup, DialerInv, RelOK
  <2>3. Acquired(p, y)
    BY <1>1, <2>1 DEF Lookup, DialerInv, Acquisitions, Acquired, Goto, TypeInv, LocalsOK
  <2> QED BY <2>1, <2>2, <2>3, DialerWalk
<1>2. CASE FastRead(p)
  <2>1. CASE ent[p] \in cached
    BY <1>2, <2>1, DialerLeave DEF FastRead
  <2>2. CASE ent[p] \notin cached
    <3>1. PICK y \in OpenPc : Goto(p, y) BY <1>2, <2>2 DEF FastRead
    <3>2. /\ ent' = ent /\ rel[p] = <<>>
          /\ UNCHANGED <<ext, res, rel, inst, instances, stopping, calls, keyOf, call, pg>>
      BY <1>2, <2>2 DEF FastRead, DialerInv, RelOK
    <3>3. Acquired(p, y) BY <1>2 DEF FastRead, DialerInv, Acquisitions, Acquired
    <3> QED BY <3>1, <3>2, <3>3, DialerWalk
  <2> QED BY <2>1, <2>2
<1>3. CASE FastWait(p)
  <2>1. CASE ent[p] \in cached
    BY <1>3, <2>1, DialerLeave DEF FastWait
  <2>2. CASE ent[p] \notin cached
    <3>1. PICK y \in OpenPc : Goto(p, y) BY <1>3, <2>2 DEF FastWait
    <3>2. /\ ent' = ent /\ rel[p] = <<>>
          /\ UNCHANGED <<ext, res, rel, inst, instances, stopping, calls, keyOf, call, pg>>
      BY <1>3, <2>2 DEF FastWait, DialerInv, RelOK
    <3>3. Acquired(p, y) BY <1>3 DEF FastWait, DialerInv, Acquisitions, Acquired
    <3> QED BY <3>1, <3>2, <3>3, DialerWalk
  <2> QED BY <2>1, <2>2
<1>4. CASE Slow(p)
  <2>1. CASE CreateEntry(p)
    <3>1. /\ Goto(p, "provision") /\ (\E e : ent' = [ent EXCEPT ![p] = e]) /\ rel[p] = <<>>
          /\ UNCHANGED <<ext, res, rel, inst, instances, stopping, calls, keyOf, call, pg>>
      BY <1>4, <2>1 DEF Slow, CreateEntry, DialerInv, RelOK
    <3>2. Acquired(p, "provision") BY <1>4 DEF Slow, DialerInv, Acquisitions, Acquired
    <3> QED BY <3>1, <3>2, DialerWalk
  <2>2. CASE entries[Key(p)] \in cached /\ ~CreateEntry(p)
    BY <1>4, <2>2, DialerLeave DEF Slow
  <2>3. CASE entries[Key(p)] \notin cached /\ ~CreateEntry(p)
    <3>1. /\ Goto(p, "slowWait") /\ (\E e : ent' = [ent EXCEPT ![p] = e]) /\ rel[p] = <<>>
          /\ UNCHANGED <<ext, res, rel, inst, instances, stopping, calls, keyOf, call, pg>>
      BY <1>4, <2>3 DEF Slow, DialerInv, RelOK
    <3>2. Acquired(p, "slowWait") BY <1>4 DEF Slow, DialerInv, Acquisitions, Acquired
    <3> QED BY <3>1, <3>2, DialerWalk
  <2> QED BY <2>1, <2>2, <2>3
<1>5. CASE SlowWait(p)
  <2>1. CASE ent[p] \in cached
    BY <1>5, <2>1, DialerLeave DEF SlowWait
  <2>2. CASE ent[p] \notin cached
    <3>1. PICK y \in OpenPc : Goto(p, y) BY <1>5, <2>2 DEF SlowWait
    <3>2. /\ ent' = ent /\ rel[p] = <<>>
          /\ UNCHANGED <<ext, res, rel, inst, instances, stopping, calls, keyOf, call, pg>>
      BY <1>5, <2>2 DEF SlowWait, DialerInv, RelOK
    <3>3. Acquired(p, y) BY <1>5 DEF SlowWait, DialerInv, Acquisitions, Acquired
    <3> QED BY <3>1, <3>2, <3>3, DialerWalk
  <2> QED BY <2>1, <2>2
<1>6. CASE Replace(p)
  <2>1. /\ Goto(p, "provision") /\ \E e : ent' = [ent EXCEPT ![p] = e] /\ rel[p] = <<>>
        /\ UNCHANGED <<ext, res, rel, inst, instances, stopping, calls, keyOf, call, pg>>
    BY <1>6 DEF Replace, CreateEntry, DialerInv, RelOK
  <2>2. Acquired(p, "provision")
    BY <1>6 DEF Replace, CreateEntry, DialerInv, Acquisitions, Acquired
  <2> QED BY <2>1, <2>2, DialerWalk
<1> QED BY <1>1, <1>2, <1>3, <1>4, <1>5, <1>6 DEF Opening

\* The steps of Connect.
LEMMA DialerProvisioning ==
  ASSUME TypeInv, LifeInv, DialerInv, NEW p \in Procs, Provisioning(p)
  PROVE  DialerInv'
<1> USE DEF registry, backends, embedded, history, locals, gsLocals
<1> USE DEF OpenPc, MakePc, FailPc, GsPc
<1>1. CASE ProvisionFails(p)
  <2>1. /\ Goto(p, "fail") /\ ent' = ent /\ rel[p] = <<>>
        /\ UNCHANGED <<ext, res, rel, inst, instances, stopping, calls, keyOf, call, pg>>
    BY <1>1 DEF ProvisionFails, DialerInv, RelOK
  <2>2. Acquired(p, "fail") BY <1>1 DEF ProvisionFails, DialerInv, Acquisitions, Acquired
  <2> QED BY <2>1, <2>2, DialerWalk
<1>2. CASE ProvisionPlain(p)
  <2>1. /\ Goto(p, "newPool") /\ ent' = ent /\ rel[p] = <<>>
        /\ UNCHANGED <<ext, res, rel, inst, instances, stopping, calls, keyOf, call, pg>>
    BY <1>2 DEF ProvisionPlain, DialerInv, RelOK
  <2>2. Acquired(p, "newPool")
    BY <1>2 DEF ProvisionPlain, DialerInv, Acquisitions, Acquired
  <2> QED BY <2>1, <2>2, DialerWalk
<1>3. CASE NewDialer(p) BY <1>3, DialerNew
<1>4. CASE StartContainer(p) BY <1>4, DialerContainer
<1>5. CASE TcLookup(p)
  <2>1. PICK y \in {"newPool", "tcAttach"} : Goto(p, y) BY <1>5 DEF TcLookup
  <2>2. /\ ent' = ent /\ rel[p] = <<>>
        /\ UNCHANGED <<ext, res, rel, inst, instances, stopping, calls, keyOf, call, pg>>
    BY <1>5 DEF TcLookup, DialerInv, RelOK
  <2>3. Acquired(p, y)
    BY <1>5, <2>1 DEF TcLookup, DialerInv, Acquisitions, Acquired, Goto, TypeInv, LocalsOK
  <2> QED BY <2>1, <2>2, <2>3, DialerWalk
<1>6. CASE TcAttach(p) BY <1>6, DialerAttach
<1>7. CASE StartServer(p) BY <1>7, DialerServer
<1>8. CASE Register(p) BY <1>8, DialerRegister
<1>9. CASE StopOld(p)
  <2>1. StopHeld(p, "newPool") /\ pc[p] = "stopOld" BY <1>9 DEF StopOld
  <2> QED BY <2>1, DialerHeld
<1>10. CASE NewPool(p) BY <1>10, DialerPool
<1>11. CASE NewPoolFails(p) BY <1>11, DialerPoolFails
<1>12. CASE UndoTake(p) BY <1>12, DialerUndo
<1>13. CASE UndoStop(p) BY <1>13, DialerHeld DEF UndoStop
<1> QED BY <1>1, <1>2, <1>3, <1>4, <1>5, <1>6, <1>7, <1>8, <1>9, <1>10, <1>11,
       <1>12, <1>13 DEF Provisioning

\* The end of the creation.
LEMMA DialerEnding ==
  ASSUME TypeInv, LifeInv, DialerInv, NEW p \in Procs, Ending(p)
  PROVE  DialerInv'
<1> USE DEF registry, backends, embedded, history, locals, gsLocals
<1> USE DEF OpenPc, MakePc, FailPc, GsPc
<1>1. CASE Store(p)
  <2>1. /\ Goto(p, "closeDone") /\ ent' = ent /\ rel[p] = <<>>
        /\ UNCHANGED <<ext, res, rel, inst, instances, stopping, calls, keyOf, call, pg>>
    BY <1>1 DEF Store, DialerInv, RelOK
  <2>2. Acquired(p, "closeDone") BY <1>1 DEF Store, DialerInv, Acquisitions, Acquired
  <2> QED BY <2>1, <2>2, DialerWalk
<1>2. CASE CloseDone(p) BY <1>2, DialerLeave DEF CloseDone
<1>3. CASE Fail(p) BY <1>3, DialerTake, GSFacts DEF Fail
<1>4. CASE FailReleaseOne(p) BY <1>4, DialerRelease, GSFacts DEF FailReleaseOne
<1>5. CASE FailReleased(p)
  <2>1. /\ Goto(p, "remove") /\ ent' = ent /\ rel[p] = <<>>
        /\ UNCHANGED <<ext, res, rel, inst, instances, stopping, calls, keyOf, call, pg>>
    BY <1>5 DEF FailReleased, DialerInv, RelOK
  <2>2. Acquired(p, "remove") BY <1>5 DEF FailReleased, DialerInv, Acquisitions, Acquired
  <2> QED BY <2>1, <2>2, DialerWalk
<1>6. CASE RemoveFailed(p)
  <2>1. /\ Goto(p, "closeDoneErr") /\ ent' = ent /\ rel[p] = <<>>
        /\ UNCHANGED <<ext, res, rel, inst, instances, stopping, calls, keyOf, call, pg>>
    BY <1>6 DEF RemoveFailed, DialerInv, RelOK
  <2>2. Acquired(p, "closeDoneErr")
    BY <1>6 DEF RemoveFailed, DialerInv, Acquisitions, Acquired
  <2> QED BY <2>1, <2>2, DialerWalk
<1> QED BY <1>1, <1>2, <1>3, <1>4, <1>5, <1>6 DEF Ending

\* The drain of an entry.
LEMMA DialerDraining ==
  ASSUME TypeInv, LifeInv, DialerInv, NEW t \in Threads, Draining(t)
  PROVE  DialerInv'
<1> USE DEF registry, backends, embedded, history, locals, gsLocals
<1> USE DEF OpenPc, MakePc, FailPc, GsPc
<1>1. CASE Drain(t)
  <2>1. PICK y \in {"closePool", "take"} : Goto(t, y) BY <1>1 DEF Drain
  <2>2. /\ ent' = ent /\ rel[t] = <<>>
        /\ UNCHANGED <<ext, res, rel, inst, instances, stopping, calls, keyOf, call, pg>>
    BY <1>1 DEF Drain, DialerInv, RelOK
  <2>3. Acquired(t, y)
    BY <1>1, <2>1 DEF Drain, DialerInv, Acquisitions, Acquired, Goto, TypeInv, LocalsOK
  <2> QED BY <2>1, <2>2, <2>3, DialerWalk
<1>2. CASE ClosePool(t) BY <1>2, DialerClosed
<1>3. CASE Take(t) BY <1>3, DialerTake DEF Take
<1>4. CASE DrainReleaseOne(t) BY <1>4, DialerRelease DEF DrainReleaseOne
<1>5. CASE Released(t)
  <2>1. CASE t = GS
    <3>1. /\ Goto(t, "gsNext") /\ (\E e : ent' = [ent EXCEPT ![t] = e]) /\ rel[t] = <<>>
          /\ UNCHANGED <<ext, res, rel, inst, instances, stopping, calls, keyOf, call, pg>>
      BY <1>5, <2>1, GSFacts DEF Released
    <3> QED BY <2>1, <3>1, DialerWalk, GSFacts
  <2>2. CASE t \in Procs /\ inst[t] # None
    <3>1. /\ Goto(t, "stopInst") /\ ent' = ent /\ rel[t] = <<>>
          /\ UNCHANGED <<ext, res, rel, inst, instances, stopping, calls, keyOf, call, pg>>
      BY <1>5, <2>2, GSFacts DEF Released
    <3>2. Acquired(t, "stopInst") BY DEF Acquired
    <3> QED BY <3>1, <3>2, DialerWalk
  <2>3. CASE t \in Procs /\ inst[t] = None
    BY <1>5, <2>3, DialerLeave, GSFacts DEF Released
  <2> QED BY <2>1, <2>2, <2>3, GSFacts
<1> QED BY <1>1, <1>2, <1>3, <1>4, <1>5 DEF Draining

\* The steps of ClosePoolWithKey around the drain.
LEMMA DialerClosing ==
  ASSUME TypeInv, LifeInv, DialerInv, NEW p \in Procs, Closing(p)
  PROVE  DialerInv'
<1> USE DEF registry, backends, embedded, history, locals, gsLocals
<1> USE DEF OpenPc, MakePc, FailPc, GsPc
<1>1. CASE CloseRemove(p)
  <2>1. /\ Goto(p, "closeInst") /\ \E e : ent' = [ent EXCEPT ![p] = e] /\ rel[p] = <<>>
        /\ UNCHANGED <<ext, res, rel, inst, instances, stopping, calls, keyOf, call, pg>>
    BY <1>1 DEF CloseRemove, DialerInv, RelOK
  <2>2. Acquired(p, "closeInst")
    BY <1>1 DEF CloseRemove, DialerInv, Acquisitions, Acquired
  <2> QED BY <2>1, <2>2, DialerWalk
<1>2. CASE CloseInst(p)
  <2>1. CASE instances[Key(p)] = None /\ Return(p, None)
    <3>1. UNCHANGED <<ext, res, instances, stopping, calls, keyOf, pg>>
      BY <1>2, <2>1 DEF CloseInst, TypeInv, BackendsOK
    <3> QED BY <2>1, <3>1, DialerLeave
  <2>2. CASE ~(instances[Key(p)] = None /\ Return(p, None))
    <3>1. PICK y \in {"stopInst", "drain"} :
            /\ Goto(p, y)
            /\ inst' = [inst EXCEPT ![p] = instances[Key(p)]]
            /\ UNCHANGED <<ret, call, ent, tgt, rel>>
      BY <1>2, <2>2 DEF CloseInst
    <3> QED BY <1>2, <3>1, DialerClose
  <2> QED BY <2>1, <2>2
<1>3. CASE CloseStop(p) BY <1>3, DialerStop
<1> QED BY <1>1, <1>2, <1>3 DEF Closing

\* The steps of gracefulShutdown outside the drain of an entry, and the signal.
LEMMA DialerShutdown ==
  ASSUME TypeInv, LifeInv, DialerInv,
         \/ Signal \/ GsSnapshot \/ GsNext \/ GsInstances \/ GsStop
         \/ GsStragglers \/ GsStop2
  PROVE  DialerInv'
<1> USE DEF registry, backends, embedded, history, locals, gsLocals
<1> USE DEF GsPc
<1>1. CASE Signal
  <2>1. /\ Goto(GS, "gsSnap") /\ ent' = ent /\ rel[GS] = <<>>
        /\ UNCHANGED <<ext, res, rel, inst, instances, stopping, calls, keyOf, call, pg>>
    BY <1>1, GSFacts DEF Signal, DialerInv, RelOK
  <2> QED BY <2>1, DialerWalk, GSFacts
<1>2. CASE GsSnapshot
  <2>1. /\ Goto(GS, "gsNext") /\ ent' = ent /\ rel[GS] = <<>>
        /\ UNCHANGED <<ext, res, rel, inst, instances, stopping, calls, keyOf, call, pg>>
    BY <1>2, GSFacts DEF GsSnapshot, DialerInv, RelOK
  <2> QED BY <2>1, DialerWalk, GSFacts
<1>3. CASE GsNext
  <2>1. PICK y \in {"drain", "gsInst"} :
          Goto(GS, y) /\ (ent' = ent \/ \E e : ent' = [ent EXCEPT ![GS] = e])
    BY <1>3 DEF GsNext
  <2>2. /\ rel[GS] = <<>>
        /\ UNCHANGED <<ext, res, rel, inst, instances, stopping, calls, keyOf, call, pg>>
    BY <1>3, GSFacts DEF GsNext, DialerInv, RelOK
  <2> QED BY <2>1, <2>2, DialerWalk, GSFacts
<1>4. ASSUME NEW x \in GsPc, NEW y \in GsPc, SnapshotInstances(x, y)
      PROVE  DialerInv'
  BY <1>4, DialerSnapshot
<1>5. ASSUME NEW x \in GsPc, StopSnapshot(x)
      PROVE  DialerInv'
  BY <1>5, DialerSnapshotStop
<1>6. ASSUME NEW x \in GsPc, NEW y \in GsPc, SnapshotStopped(x, y)
      PROVE  DialerInv'
  <2>1. /\ Goto(GS, y) /\ ent' = ent /\ rel[GS] = <<>>
        /\ UNCHANGED <<ext, res, rel, inst, instances, stopping, calls, keyOf, call, pg>>
    BY <1>6, GSFacts DEF SnapshotStopped, DialerInv, RelOK
  <2> QED BY <2>1, DialerWalk, GSFacts
<1> QED
  BY <1>1, <1>2, <1>3, <1>4, <1>5, <1>6 DEF GsInstances, GsStop, GsStragglers, GsStop2

\* The end of a call's migrations moves its goroutine alone.
LEMMA DialerMigrate ==
  ASSUME TypeInv, LifeInv, DialerInv, NEW p \in Procs, Migrate(p)
  PROVE  DialerInv'
<1> USE DEF registry, backends, embedded, history, locals, gsLocals
<1>1. /\ pc[p] = "migrate" /\ Goto(p, "idle") /\ ent' = ent
      /\ UNCHANGED <<ext, res, rel, inst, instances, stopping, calls, keyOf, call, pg>>
  BY DEF Migrate
<1>2. rel[p] = <<>> BY <1>1, GSFacts DEF DialerInv, RelOK
<1>3. Acquired(p, "idle") BY DEF Acquired, OpenPc
<1> QED BY <1>1, <1>2, <1>3, DialerWalk, GSFacts

\* DialerInv holds of every initial state,
LEMMA DialerInit == Init => DialerInv
<1> SUFFICES ASSUME Init PROVE DialerInv OBVIOUS
<1> USE DEF Init, None
<1>1. ResOK BY ElemsEmpty DEF ResOK
<1>2. RelOK BY ElemsEmpty DEF RelOK
<1>3. HeldOK BY DEF HeldOK
<1>4. InstancesOK BY DEF InstancesOK
<1>5. StoppingOK BY DEF StoppingOK
<1>6. FutureKeyless BY DEF FutureKeyless
<1>7. Acquisitions BY DEF Acquisitions, Acquired, OpenPc
<1>8. DialerOutlivesPool BY DEF DialerOutlivesPool
<1> QED BY <1>1, <1>2, <1>3, <1>4, <1>5, <1>6, <1>7, <1>8 DEF DialerInv

\* and every step keeps it.
LEMMA DialerNext == TypeInv /\ LifeInv /\ DialerInv /\ [Next]_vars => DialerInv'
<1> SUFFICES ASSUME TypeInv, LifeInv, DialerInv, [Next]_vars PROVE DialerInv' OBVIOUS
<1>1. ASSUME NEW p \in Procs, NEW k \in Keys, OpenCall(p, k) \/ CloseCall(p, k)
      PROVE  DialerInv'
  BY <1>1, DialerArrive DEF OpenCall, CloseCall
<1>2. ASSUME NEW p \in Procs, Work(p)
      PROVE  DialerInv'
  BY <1>2, DialerOpening, DialerMigrate, DialerProvisioning, DialerEnding, DialerDraining,
     DialerClosing
  DEF Work
<1>3. CASE Signal BY <1>3, DialerShutdown
<1>4. CASE Shutdown BY <1>4, DialerShutdown, DialerDraining DEF Shutdown
<1>5. CASE UNCHANGED vars
  <2>1. /\ Goto(GS, pc[GS]) /\ ent' = ent
        /\ UNCHANGED <<ext, res, rel, inst, instances, stopping, calls, keyOf, call, pg>>
    BY <1>5 DEF vars, Goto, TypeInv, LocalsOK, registry, backends, embedded, history,
       locals, gsLocals
  <2>2. pc[GS] \in {"failRelease", "release"} \/ rel[GS] = <<>>
    BY GSFacts DEF DialerInv, RelOK
  <2> QED BY <2>1, <2>2, DialerWalk, GSFacts
<1> QED BY <1>1, <1>2, <1>3, <1>4, <1>5 DEF Next, Quiet

\* DialerInv is an invariant.
LEMMA DialerInvariance == Spec => []DialerInv
BY TypeInvariance, LifeInvariance, DialerInit, DialerNext, PTL DEF Spec

\* While a Cloud SQL pool is open, the dialer it dials through is live: the pool is
\* closed before the entry's resources are released, and no release on behalf of
\* another generation, of the same key or another, hits this dialer.
THEOREM DialerOutlivesPoolHolds == Spec => []DialerOutlivesPool
<1>1. DialerInv => DialerOutlivesPool BY DEF DialerInv
<1> QED BY <1>1, DialerInvariance, PTL

(***************************************************************************)
(* The refinement.  Most steps change neither the phase nor the backend of *)
(* any generation.                                                         *)
(***************************************************************************)
\* The phase of a generation depends on its pool, on whether the pool is cached and
\* settled, and on whether its creation is failing.
LEMMA PhaseKept ==
  ASSUME NEW e \in Entry, pg'[e] = pg[e], e \in cached' <=> e \in cached,
         e \in done' <=> e \in done, Failing(e)' <=> Failing(e)
  PROVE  Phase(e)' = Phase(e)
BY DEF Phase

\* A step of t that neither starts nor ends a failure changes no phase,
LEMMA PhaseWalk ==
  ASSUME TypeInv, NEW t \in Threads, NEW y, Goto(t, y),
         t \in Procs => (y \in FailPc <=> pc[t] \in FailPc),
         UNCHANGED <<pg, cached, done, call>>, NEW e \in Entry
  PROVE  Phase(e)' = Phase(e)
<1>1. \A q \in Procs : pc'[q] \in FailPc <=> pc[q] \in FailPc
  BY GSFacts DEF Goto, TypeInv, LocalsOK
<1>2. Failing(e)' <=> Failing(e) BY <1>1 DEF Failing
<1> QED BY <1>2, PhaseKept

\* and so does a return after a success.
LEMMA PhaseReturn ==
  ASSUME TypeInv, NEW p \in Procs, NEW g, Return(p, g), pc[p] \notin FailPc,
         UNCHANGED <<pg, cached, done>>, NEW e \in Entry
  PROVE  Phase(e)' = Phase(e)
<1>1. /\ pc'[p] \in {"idle", "migrate"}
      /\ \A q \in Procs : q # p => pc'[q] = pc[q] /\ call'[q] = call[q]
  BY GSFacts DEF Return, Goto, TypeInv, LocalsOK
<1>2. pc'[p] \notin FailPc BY <1>1 DEF FailPc
<1>3. Failing(e)' <=> Failing(e) BY <1>1, <1>2 DEF Failing
<1> QED BY <1>3, PhaseKept

\* A backend that is no dialer does not count.
LEMMA BackendKept ==
  ASSUME TypeInv, UNCHANGED keyOf, NEW e \in Entry,
         \/ ext' = ext
         \/ \E x, v : ext' = [ext EXCEPT ![x] = v] /\ KindOf(x) # "cloudsql"
  PROVE  Backend(e)' = Backend(e)
<1>1. KindOf(e)' = KindOf(e) BY DEF KindOf
<1>2. KindOf(e) = "cloudsql" => ext'[e] = ext[e] BY DEF TypeInv, BackendsOK
<1> QED BY <1>1, <1>2 DEF Backend

\* Steps that keep phases and backends are stuttering steps,
LEMMA Stutters ==
  ASSUME \A e \in Entry : Phase(e)' = Phase(e) /\ Backend(e)' = Backend(e)
  PROVE  UNCHANGED <<phaseBar, backendBar>>
BY DEF phaseBar, backendBar

\* and the others are steps of one generation.
LEMMA Moves ==
  ASSUME NEW g \in Entry, Phase(g)' # Phase(g),
         \A e \in Entry : e # g => Phase(e)' = Phase(e),
         \A e \in Entry : Backend(e)' = Backend(e)
  PROVE  Lifecycle!Move(g, Phase(g), Phase(g)')
BY DEF Lifecycle!Move, phaseBar, backendBar

\* A backend that is acquired or released is a change of one generation's.
LEMMA BackendMoves ==
  ASSUME NEW g \in Entry, NEW v, Backend(g)' = v,
         \A e \in Entry : e # g => Backend(e)' = Backend(e)
  PROVE  backendBar' = [backendBar EXCEPT ![g] = v]
BY DEF backendBar

Lifecycles == [Lifecycle!Next]_(Lifecycle!lifecycle)

\* A running creation that has not failed is new.
LEMMA NewPhase ==
  ASSUME TypeInv, LifeInv, NEW p \in Procs,
         pc[p] \in MakePc \cup {"store"}
  PROVE  /\ Phase(call[p]) = "new"
         /\ call[p] \in Entry
         /\ \A q \in Procs : pc[q] \in FailPc => call[q] # call[p]
<1>1. call[p] \in Entry
  BY RunningCall DEF MakePc
<1>2. \A q \in Procs : pc[q] \in FailPc => call[q] # call[p]
  BY <1>1, RefFacts DEF LifeInv, UniqueCalls, MakePc, FailPc
<1>3. call[p] \notin done /\ call[p] \notin cached /\ pg[call[p]] \in {"none", "open"}
  BY DEF LifeInv, Creations, Creation, Making, MakePc, EndPc
<1> QED BY <1>1, <1>2, <1>3 DEF Phase, Failing

\* A creation fails.
LEMMA RefFails ==
  ASSUME TypeInv, LifeInv, NEW p \in Procs, pc[p] \in MakePc, Goto(p, "fail"),
         UNCHANGED <<pg, cached, done, call>>,
         \A e \in Entry : Backend(e)' = Backend(e)
  PROVE  Lifecycles
<1>1. pg[call[p]] = "none" BY DEF LifeInv, Creations, Creation
<1>2. pc'[p] = "fail" /\ \A q \in Procs : q # p => pc'[q] = pc[q]
  BY GSFacts DEF Goto, TypeInv, LocalsOK
<1>3. Phase(call[p])' = "failed" BY <1>1, <1>2 DEF Phase, Failing, FailPc
<1>4. ASSUME NEW e \in Entry, e # call[p]
      PROVE  Phase(e)' = Phase(e)
  <2>1. Failing(e)' <=> Failing(e) BY <1>2, <1>4 DEF Failing
  <2> QED BY <2>1, PhaseKept
<1>5. Lifecycle!Move(call[p], "new", "failed") BY <1>3, <1>4, NewPhase, Moves
<1> QED BY <1>5, NewPhase DEF Lifecycles, Lifecycle!Next, Lifecycle!Fail

\* The steps of resolvePool before the creation stutter.
LEMMA RefOpening ==
  ASSUME TypeInv, LifeInv, DialerInv, NEW p \in Procs, Opening(p)
  PROVE  UNCHANGED <<phaseBar, backendBar>>
<1> USE DEF registry, backends, embedded, history, locals, gsLocals
<1>1. pc[p] \in OpenPc /\ UNCHANGED <<pg, cached, done, ext, keyOf>>
  BY DEF Opening, Lookup, FastRead, FastWait, Slow, SlowWait, Replace, CreateEntry, OpenPc
<1>2. \/ \E y \in OpenPc \cup {"provision"} : Goto(p, y) /\ UNCHANGED call
      \/ \E g : Return(p, g)
  BY DEF Opening, Lookup, FastRead, FastWait, Slow, SlowWait, Replace, CreateEntry, OpenPc
<1>3. ASSUME NEW e \in Entry PROVE Phase(e)' = Phase(e) /\ Backend(e)' = Backend(e)
  <2>1. Backend(e)' = Backend(e) BY <1>1, BackendKept
  <2>2. pc[p] \notin FailPc BY <1>1 DEF OpenPc, FailPc
  <2>3. ASSUME NEW y \in OpenPc \cup {"provision"}, Goto(p, y), UNCHANGED call
        PROVE  Phase(e)' = Phase(e)
    <3>1. y \notin FailPc BY DEF OpenPc, FailPc
    <3> QED BY <1>1, <2>2, <2>3, <3>1, PhaseWalk, GSFacts
  <2>4. ASSUME NEW g, Return(p, g)
        PROVE  Phase(e)' = Phase(e)
    BY <1>1, <2>2, <2>4, PhaseReturn
  <2> QED BY <1>2, <2>1, <2>3, <2>4
<1> QED BY <1>3, Stutters

\* A step of the creation that only moves its goroutine on stutters.
LEMMA RefMake ==
  ASSUME TypeInv, NEW p \in Procs, NEW y, pc[p] \notin FailPc, y \notin FailPc, Goto(p, y),
         UNCHANGED <<pg, cached, done, call, keyOf>>,
         \/ ext' = ext
         \/ \E x, v : ext' = [ext EXCEPT ![x] = v] /\ KindOf(x) # "cloudsql"
  PROVE  UNCHANGED <<phaseBar, backendBar>>
<1>1. \A e \in Entry : Phase(e)' = Phase(e) BY PhaseWalk, GSFacts
<1>2. \A e \in Entry : Backend(e)' = Backend(e) BY BackendKept
<1> QED BY <1>1, <1>2, Stutters

\* A server is no dialer.
LEMMA ServerKind == ASSUME NEW g, Server(g) PROVE KindOf(g) # "cloudsql"
BY DEF Server, KindOf

\* The steps of Connect: a dialer is acquired, a creation fails, or nothing happens.
LEMMA RefProvisioning ==
  ASSUME TypeInv, LifeInv, DialerInv, NEW p \in Procs, Provisioning(p)
  PROVE  Lifecycles
<1> USE DEF registry, backends, embedded, history, locals, gsLocals, MakePc, FailPc
<1>0. pc[p] \in MakePc /\ call[p] \in Entry /\ KindOf(call[p]) = Kind[Key(p)]
  BY RunningCall
  DEF Provisioning, ProvisionFails, ProvisionPlain, NewDialer, StartContainer, TcLookup,
      TcAttach, StartServer, Register, StopOld, NewPool, NewPoolFails, UndoTake,
      UndoStop, KindOf, Key
<1> USE DEF Lifecycles, Lifecycle!lifecycle
<1>1. CASE ProvisionFails(p)
  <2>1. \A e \in Entry : Backend(e)' = Backend(e) BY <1>1, BackendKept DEF ProvisionFails
  <2> QED BY <1>0, <1>1, <2>1, RefFails DEF ProvisionFails
<1>2. CASE ProvisionPlain(p) BY <1>2, RefMake DEF ProvisionPlain
<1>3. CASE NewDialer(p)
  <2>1. PICK g \in Entry : g = call[p] BY <1>0
  <2>2. \A e \in Entry : Phase(e)' = Phase(e) BY <1>3, PhaseWalk, GSFacts DEF NewDialer
  <2>3. ext[g] = "none" BY <1>3, <2>1 DEF NewDialer, DialerInv, Acquisitions, Acquired
  <2>4. ext' = [ext EXCEPT ![g] = "live"] /\ UNCHANGED keyOf BY <1>3, <2>1 DEF NewDialer
  <2>5. KindOf(g) = "cloudsql" BY <1>0, <1>3, <2>1 DEF NewDialer
  <2>6. \A e \in Entry : KindOf(e)' = KindOf(e) BY <2>4 DEF KindOf
  <2>7. Backend(g) = "none" BY <2>3, <2>5 DEF Backend
  <2>8. Backend(g)' = "live" BY <2>4, <2>5, <2>6 DEF Backend, TypeInv, BackendsOK
  <2>9. \A e \in Entry : e # g => Backend(e)' = Backend(e)
    BY <2>4, <2>6 DEF Backend, TypeInv, BackendsOK
  <2>10. Phase(g) = "new" BY <1>0, <2>1, NewPhase
  <2>11. backendBar' = [backendBar EXCEPT ![g] = "live"] BY <2>8, <2>9, BackendMoves
  <2>12. phaseBar' = phaseBar BY <2>2 DEF phaseBar
  <2>13. Lifecycle!Acquire(g)
    BY <2>7, <2>10, <2>11, <2>12 DEF Lifecycle!Acquire, phaseBar, backendBar
  <2> QED BY <2>13 DEF Lifecycle!Next
<1>4. CASE StartContainer(p) BY <1>0, <1>4, RefMake DEF StartContainer
<1>5. CASE TcLookup(p)
  <2>1. PICK y \in {"newPool", "tcAttach"} : Goto(p, y) BY <1>5 DEF TcLookup
  <2> QED BY <1>5, <2>1, RefMake DEF TcLookup
<1>6. CASE TcAttach(p) BY <1>6, RefMake DEF TcAttach
<1>7. CASE StartServer(p) BY <1>0, <1>7, RefMake DEF StartServer
<1>8. CASE Register(p)
  <2>1. PICK y \in {"newPool", "stopOld", "undoStop"} : Goto(p, y) BY <1>8 DEF Register
  <2> QED BY <1>8, <2>1, RefMake DEF Register
<1>9. CASE StopOld(p)
  <2>1. inst[p] # None
    BY <1>9, RefFacts, GSFacts DEF StopOld, TypeInv, FramesOK, Frame, FrameOK
  <2>2. KindOf(inst[p]) # "cloudsql"
    BY <2>1, ServerKind, GSFacts DEF DialerInv, HeldOK
  <2> QED BY <1>9, <2>2, RefMake DEF StopOld, StopHeld
<1>10. CASE NewPool(p)
  <2>1. PICK g \in Entry : g = call[p] BY <1>0
  <2>2. /\ \A q \in Procs : pc'[q] \in FailPc <=> pc[q] \in FailPc
        /\ pg' = [pg EXCEPT ![g] = "open"]
        /\ UNCHANGED <<cached, done, call, ext, keyOf>>
    BY <1>10, <2>1, GSFacts DEF NewPool, Goto, TypeInv, LocalsOK
  <2>3. g \notin done /\ g \notin cached
    BY <1>10, <2>1 DEF NewPool, LifeInv, Creations, Creation, Making, EndPc
  <2>4. Phase(g)' = "new"
    <3>1. pg'[g] = "open" BY <2>2 DEF TypeInv, BackendsOK
    <3> QED BY <2>2, <2>3, <3>1 DEF Phase
  <2>5. Phase(g) = "new" BY <1>0, <2>1, NewPhase
  <2>6. ASSUME NEW e \in Entry, e # g
        PROVE  Phase(e)' = Phase(e)
    <3>1. Failing(e)' <=> Failing(e) BY <2>2 DEF Failing
    <3> QED BY <2>2, <2>6, <3>1, PhaseKept DEF TypeInv, BackendsOK
  <2>7. ASSUME NEW e \in Entry PROVE Phase(e)' = Phase(e) BY <2>4, <2>5, <2>6
  <2>8. \A e \in Entry : Backend(e)' = Backend(e) BY <2>2, BackendKept
  <2> QED BY <2>7, <2>8, Stutters
<1>11. CASE NewPoolFails(p)
  <2>1. \/ ext' = ext
        \/ \E x, v : ext' = [ext EXCEPT ![x] = v] /\ KindOf(x) # "cloudsql"
    BY <1>0, <1>11 DEF NewPoolFails
  <2>2. CASE Goto(p, "fail")
    <3>1. \A e \in Entry : Backend(e)' = Backend(e)
      BY <1>11, <2>1, BackendKept DEF NewPoolFails
    <3> QED BY <1>0, <1>11, <2>2, <3>1, RefFails DEF NewPoolFails
  <2>3. CASE Goto(p, "undoTake") BY <1>11, <2>1, <2>3, RefMake DEF NewPoolFails
  <2> QED BY <1>11, <2>2, <2>3 DEF NewPoolFails
<1>12. CASE UndoTake(p) BY <1>12, RefMake DEF UndoTake
<1>13. CASE UndoStop(p)
  <2>1. inst[p] # None
    BY <1>13, RefFacts, GSFacts DEF UndoStop, TypeInv, FramesOK, Frame, FrameOK
  <2>2. KindOf(inst[p]) # "cloudsql"
    BY <2>1, ServerKind, GSFacts DEF DialerInv, HeldOK
  <2>3. \A e \in Entry : Backend(e)' = Backend(e)
    BY <1>13, <2>2, BackendKept DEF UndoStop, StopHeld
  <2> QED BY <1>0, <1>13, <2>3, RefFails DEF UndoStop, StopHeld
<1> QED
  BY <1>1, <1>2, <1>3, <1>4, <1>5, <1>6, <1>7, <1>8, <1>9, <1>10, <1>11, <1>12, <1>13
  DEF Provisioning


\* A release concerns the dialer of a pool that is closed or was never opened, or is
\* none of a dialer, or releases again what was released.
LEMMA RefRelease ==
  ASSUME TypeInv, LifeInv, DialerInv, NEW t \in Threads,
         NEW l \in {"failRelease", "release"}, ReleaseOne(t, l)
  PROVE  Lifecycles
<1>0. PICK g : g = rel[t][Len(rel[t])] OBVIOUS
<1>1. /\ pc[t] = l /\ rel[t] # <<>>
      /\ ext' = [ext EXCEPT ![g] = "released"]
      /\ UNCHANGED <<pg, cached, done, call, pc, keyOf>>
  BY <1>0 DEF ReleaseOne, registry, history
<1>2. rel[t] \in Seq(Entry) BY DEF TypeInv, LocalsOK
<1>3. g \in Entry /\ g \in Elems(rel[t]) BY <1>0, <1>1, <1>2, DropLast, ElemsDrop
<1>4. Listed(g, ent[t]) BY <1>3 DEF DialerInv, RelOK
<1>5. ASSUME NEW e \in Entry PROVE Phase(e)' = Phase(e)
  <2>1. Failing(e)' <=> Failing(e) BY <1>1 DEF Failing
  <2> QED BY <1>1, <2>1, PhaseKept
<1>6. \A e \in Entry : KindOf(e)' = KindOf(e) BY <1>1 DEF KindOf
<1>7. CASE KindOf(g) # "cloudsql"
  <2>1. \A e \in Entry : Backend(e)' = Backend(e) BY <1>1, <1>7, BackendKept
  <2> QED BY <1>5, <2>1, Stutters DEF Lifecycles, Lifecycle!lifecycle
<1>8. CASE KindOf(g) = "cloudsql"
  <2>1. g = ent[t] /\ ext[g] \in {"live", "released"}
    BY <1>3, <1>4, <1>8 DEF Listed, KindOf, TypeInv, BackendsOK
  <2>2. Phase(g) \in {"closed", "failed"}
    <3>1. CASE l = "failRelease"
      <4>1. t \in Procs /\ call[t] = g
        BY <1>1, <2>1, <3>1, GSFacts DEF TypeInv, FramesOK, Frame, FrameOK, GsPc, DrainPc,
           Making, EndPc
      <4>2. pg[g] = "none"
        BY <1>1, <3>1, <4>1 DEF LifeInv, Creations, Creation, FailPc
      <4>3. Failing(g) BY <1>1, <3>1, <4>1 DEF Failing, FailPc
      <4> QED BY <4>2, <4>3 DEF Phase
    <3>2. CASE l = "release"
      <4>1. g \in done /\ g \notin cached /\ pg[g] # "open"
        BY <1>1, <2>1, <3>2 DEF LifeInv, Drains, Draining1
      <4>2. pg[g] \in {"none", "closed"} BY <1>3, <4>1 DEF TypeInv, BackendsOK
      <4> QED BY <4>1, <4>2 DEF Phase
    <3> QED BY <3>1, <3>2
  <2>3. CASE ext[g] = "live"
    <3>1. Backend(g) = "live" BY <1>8, <2>3 DEF Backend
    <3>2. Backend(g)' = "released"
      BY <1>1, <1>3, <1>6, <1>8 DEF Backend, TypeInv, BackendsOK
    <3>3. \A e \in Entry : e # g => Backend(e)' = Backend(e)
      BY <1>1, <1>6 DEF Backend, TypeInv, BackendsOK
    <3>4. backendBar' = [backendBar EXCEPT ![g] = "released"]
      BY <1>3, <3>2, <3>3, BackendMoves
    <3>5. phaseBar' = phaseBar BY <1>5 DEF phaseBar
    <3>6. Lifecycle!Release(g)
      BY <1>3, <2>2, <3>1, <3>4, <3>5 DEF Lifecycle!Release, phaseBar, backendBar
    <3> QED BY <1>3, <3>6 DEF Lifecycles, Lifecycle!Next
  <2>4. CASE ext[g] = "released"
    <3>1. ext' = ext BY <1>1, <1>3, <2>4 DEF TypeInv, BackendsOK
    <3>2. \A e \in Entry : Backend(e)' = Backend(e) BY <1>1, <3>1, BackendKept
    <3> QED BY <1>5, <3>2, Stutters DEF Lifecycles, Lifecycle!lifecycle
  <2> QED BY <2>1, <2>3, <2>4
<1> QED BY <1>7, <1>8

\* A step that only moves a goroutine on stutters,
LEMMA RefWalk ==
  ASSUME TypeInv, NEW t \in Threads, NEW y, Goto(t, y),
         t \in Procs => (y \in FailPc <=> pc[t] \in FailPc),
         UNCHANGED <<pg, cached, done, call, ext, keyOf>>
  PROVE  Lifecycles
<1>1. \A e \in Entry : Phase(e)' = Phase(e) BY PhaseWalk
<1>2. \A e \in Entry : Backend(e)' = Backend(e) BY BackendKept
<1> QED BY <1>1, <1>2, Stutters DEF Lifecycles, Lifecycle!lifecycle

\* and so does the end of a call that stops at most a server.
LEMMA RefReturn ==
  ASSUME TypeInv, NEW p \in Procs, NEW g, Return(p, g), pc[p] \notin FailPc,
         UNCHANGED <<pg, cached, done, keyOf>>,
         \/ ext' = ext
         \/ \E x, v : ext' = [ext EXCEPT ![x] = v] /\ KindOf(x) # "cloudsql"
  PROVE  Lifecycles
<1>1. \A e \in Entry : Phase(e)' = Phase(e) BY PhaseReturn
<1>2. \A e \in Entry : Backend(e)' = Backend(e) BY BackendKept
<1> QED BY <1>1, <1>2, Stutters DEF Lifecycles, Lifecycle!lifecycle

\* A pool is stored: it starts to serve.
LEMMA RefStore ==
  ASSUME TypeInv, LifeInv, NEW p \in Procs, Store(p)
  PROVE  Lifecycles
<1>1. PICK g \in Entry : g = call[p] BY RunningCall DEF Store
<1>2. pc[p] = "store" /\ ent[p] = g /\ pg[g] = "open"
  BY <1>1 DEF Store, TypeInv, FramesOK, Frame, FrameOK, Making, EndPc, LifeInv,
     Creations, Creation
<1>3. /\ cached' = cached \cup {g}
      /\ Goto(p, "closeDone")
      /\ UNCHANGED <<pg, done, call, ext, keyOf>>
  BY <1>2 DEF Store, backends, history, locals
<1>4. ASSUME NEW e \in Entry PROVE Failing(e)' <=> Failing(e)
  <2>1. \A q \in Procs : pc'[q] \in FailPc <=> pc[q] \in FailPc
    BY <1>2, <1>3, GSFacts DEF Goto, TypeInv, LocalsOK, FailPc
  <2> QED BY <1>3, <2>1 DEF Failing
<1>5. Phase(g)' = "serving" BY <1>2, <1>3 DEF Phase
<1>6. Phase(g) = "new" BY <1>1, <1>2, NewPhase
<1>7. ASSUME NEW e \in Entry, e # g PROVE Phase(e)' = Phase(e)
  BY <1>3, <1>4, <1>7, PhaseKept
<1>8. \A e \in Entry : Backend(e)' = Backend(e) BY <1>3, BackendKept
<1>9. Lifecycle!Move(g, "new", "serving") BY <1>5, <1>6, <1>7, <1>8, Moves
<1> QED BY <1>9 DEF Lifecycles, Lifecycle!Next, Lifecycle!Serve

\* The end of a creation settles what Store or the failure decided.
LEMMA RefCloseDone ==
  ASSUME TypeInv, LifeInv, NEW p \in Procs, CloseDone(p)
  PROVE  Lifecycles
<1>1. /\ pc[p] \in {"closeDone", "closeDoneErr"}
      /\ done' = done \cup {ent[p]}
      /\ \E g : Return(p, g)
      /\ UNCHANGED <<pg, cached, ext, keyOf>>
  BY DEF CloseDone, backends, history
<1>2. PICK g \in Entry : g = call[p] BY <1>1, RunningCall
<1>3. ent[p] = g
  BY <1>1, <1>2 DEF TypeInv, FramesOK, Frame, FrameOK, Making, EndPc
<1>4. /\ pc'[p] \in {"idle", "migrate"}
      /\ \A q \in Procs : q # p => pc'[q] = pc[q] /\ call'[q] = call[q]
  BY <1>1, GSFacts DEF Return, Goto, TypeInv, LocalsOK
<1>5. Phase(g)' = Phase(g)
  <2>1. CASE pc[p] = "closeDone"
    <3>1. pg[g] = "open" /\ g \in cached BY <1>2, <2>1 DEF LifeInv, Creations, Creation
    <3> QED BY <1>1, <3>1 DEF Phase
  <2>2. CASE pc[p] = "closeDoneErr"
    <3>1. pg[g] = "none" BY <1>2, <2>2 DEF LifeInv, Creations, Creation, FailPc
    <3>2. Failing(g) BY <1>2, <2>2 DEF Failing, FailPc
    <3> QED BY <1>1, <1>3, <3>1, <3>2 DEF Phase
  <2> QED BY <1>1, <2>1, <2>2
<1>6. ASSUME NEW e \in Entry, e # g PROVE Phase(e)' = Phase(e)
  <2>1. pc'[p] \notin FailPc BY <1>4 DEF FailPc
  <2>2. Failing(e)' <=> Failing(e) BY <1>2, <1>4, <1>6, <2>1 DEF Failing
  <2> QED BY <1>1, <1>3, <1>6, <2>2, PhaseKept
<1>7. ASSUME NEW e \in Entry PROVE Phase(e)' = Phase(e) BY <1>5, <1>6
<1>8. \A e \in Entry : Backend(e)' = Backend(e) BY <1>1, BackendKept
<1> QED BY <1>7, <1>8, Stutters DEF Lifecycles, Lifecycle!lifecycle

\* The end of a creation: a pool starts to serve, or a failed creation releases.
LEMMA RefEnding ==
  ASSUME TypeInv, LifeInv, DialerInv, NEW p \in Procs, Ending(p)
  PROVE  Lifecycles
<1> USE DEF registry, backends, history, locals, FailPc
<1>1. CASE Store(p) BY <1>1, RefStore
<1>2. CASE CloseDone(p) BY <1>2, RefCloseDone
<1>3. CASE Fail(p) BY <1>3, RefWalk, GSFacts DEF Fail, TakeResources
<1>4. CASE FailReleaseOne(p) BY <1>4, RefRelease, GSFacts DEF FailReleaseOne
<1>5. CASE FailReleased(p) BY <1>5, RefWalk, GSFacts DEF FailReleased
<1>6. CASE RemoveFailed(p) BY <1>6, RefWalk, GSFacts DEF RemoveFailed
<1> QED BY <1>1, <1>2, <1>3, <1>4, <1>5, <1>6 DEF Ending

\* A closer takes the pool out of its entry.
LEMMA RefDrain ==
  ASSUME TypeInv, LifeInv, NEW t \in Threads, Drain(t)
  PROVE  Lifecycles
<1>1. /\ pc[t] = "drain" /\ ent[t] \in done
      /\ cached' = cached \ {ent[t]}
      /\ \E y \in {"closePool", "take"} : Goto(t, y)
      /\ UNCHANGED <<pg, done, call, ext, keyOf>>
  BY DEF Drain, backends, history, locals
<1>2. ent[t] \in Entry BY <1>1 DEF TypeInv, RegistryOK
<1>3. CASE ent[t] \notin cached
  <2>1. cached' = cached BY <1>1, <1>3
  <2> QED BY <1>1, <2>1, RefWalk DEF FailPc
<1>4. CASE ent[t] \in cached
  <2>1. pg[ent[t]] = "open" BY <1>4 DEF LifeInv, CachedPoolOpen
  <2>2. ASSUME NEW e \in Entry PROVE Failing(e)' <=> Failing(e)
    <3>1. \A q \in Procs : pc'[q] \in FailPc <=> pc[q] \in FailPc
      BY <1>1, GSFacts DEF Goto, TypeInv, LocalsOK, FailPc
    <3> QED BY <1>1, <3>1 DEF Failing
  <2>3. Phase(ent[t]) = "serving" BY <1>4, <2>1 DEF Phase
  <2>4. Phase(ent[t])' = "retired"
    <3>1. /\ ent'[t] = ent[t]
          /\ ent[t] \in done'
          /\ ent[t] \notin cached'
          /\ pg'[ent[t]] = "open"
      BY <1>1, <2>1 DEF Drain, locals
    <3>2. ent' = ent BY DEF Drain, locals
    <3> QED BY <3>1, <3>2 DEF Phase
  <2>5. ASSUME NEW e \in Entry, e # ent[t] PROVE Phase(e)' = Phase(e)
    BY <1>1, <2>2, <2>5, PhaseKept
  <2>6. \A e \in Entry : Backend(e)' = Backend(e) BY <1>1, BackendKept
  <2>7. Lifecycle!Move(ent[t], "serving", "retired")
    <3>1. ent' = ent BY DEF Drain, locals
    <3> QED BY <1>2, <2>3, <2>4, <2>5, <2>6, <3>1, Moves
  <2> QED BY <1>2, <2>7 DEF Lifecycles, Lifecycle!Next, Lifecycle!Retire
<1> QED BY <1>3, <1>4

\* A closer closes the pool it took.
LEMMA RefClosePool ==
  ASSUME TypeInv, LifeInv, NEW t \in Threads, ClosePool(t)
  PROVE  Lifecycles
<1>1. /\ pc[t] = "closePool" /\ Goto(t, "take")
      /\ pg' = [pg EXCEPT ![ent[t]] = "closed"]
      /\ UNCHANGED <<cached, done, call, ext, keyOf, ent>>
  BY DEF ClosePool, registry, history, locals
<1>2. ent[t] \in done /\ ent[t] \notin cached /\ pg[ent[t]] = "open"
  BY <1>1 DEF LifeInv, Drains, Draining1
<1>3. ent[t] \in Entry BY <1>2 DEF TypeInv, RegistryOK
<1>4. Phase(ent[t]) = "retired" BY <1>2 DEF Phase
<1>5. pg'[ent[t]] = "closed" /\ \A e \in Entry : e # ent[t] => pg'[e] = pg[e]
  BY <1>1, <1>3 DEF TypeInv, BackendsOK
<1>6. Phase(ent[t])' = "closed" BY <1>1, <1>5 DEF Phase
<1>7. ASSUME NEW e \in Entry, e # ent[t] PROVE Phase(e)' = Phase(e)
  <2>1. \A q \in Procs : pc'[q] \in FailPc <=> pc[q] \in FailPc
    BY <1>1, GSFacts DEF Goto, TypeInv, LocalsOK, FailPc
  <2>2. Failing(e)' <=> Failing(e) BY <1>1, <2>1 DEF Failing
  <2> QED BY <1>1, <1>5, <1>7, <2>2, PhaseKept
<1>8. \A e \in Entry : Backend(e)' = Backend(e) BY <1>1, BackendKept
<1>9. Lifecycle!Move(ent[t], "retired", "closed")
  BY <1>1, <1>3, <1>4, <1>6, <1>7, <1>8, Moves
<1> QED BY <1>3, <1>9 DEF Lifecycles, Lifecycle!Next, Lifecycle!Close

\* Draining an entry retires and closes its pool, then releases its backend.
LEMMA RefDraining ==
  ASSUME TypeInv, LifeInv, DialerInv, NEW t \in Threads, Draining(t)
  PROVE  Lifecycles
<1> USE DEF registry, backends, history, locals, FailPc
<1>1. CASE Drain(t) BY <1>1, RefDrain
<1>2. CASE ClosePool(t) BY <1>2, RefClosePool
<1>3. CASE Take(t) BY <1>3, RefWalk DEF Take, TakeResources
<1>4. CASE DrainReleaseOne(t) BY <1>4, RefRelease DEF DrainReleaseOne
<1>5. CASE Released(t)
  <2>1. \/ \E y \in {"gsNext", "stopInst"} : Goto(t, y) /\ UNCHANGED call
        \/ t \in Procs /\ Return(t, None)
    BY <1>5 DEF Released
  <2>2. pc[t] = "release" /\ UNCHANGED <<pg, cached, done, ext, keyOf>>
    BY <1>5 DEF Released
  <2>3. CASE \E y \in {"gsNext", "stopInst"} : Goto(t, y) /\ UNCHANGED call
    BY <2>2, <2>3, RefWalk
  <2>4. CASE t \in Procs /\ Return(t, None) BY <2>2, <2>4, RefReturn
  <2> QED BY <2>1, <2>3, <2>4
<1> QED BY <1>1, <1>2, <1>3, <1>4, <1>5 DEF Draining

\* ClosePoolWithKey itself touches the registry and embedded servers only.
LEMMA RefClosing ==
  ASSUME TypeInv, LifeInv, DialerInv, NEW p \in Procs, Closing(p)
  PROVE  Lifecycles
<1> USE DEF registry, backends, history, locals, FailPc
<1>1. CASE CloseRemove(p) BY <1>1, RefWalk, GSFacts DEF CloseRemove
<1>2. CASE CloseInst(p)
  <2>1. pc[p] = "closeInst" /\ UNCHANGED <<pg, cached, done, ext, keyOf>>
    BY <1>2 DEF CloseInst
  <2>2. \/ Return(p, None)
        \/ \E y \in {"stopInst", "drain"} : Goto(p, y) /\ UNCHANGED call
    BY <1>2 DEF CloseInst
  <2>3. CASE Return(p, None) BY <2>1, <2>3, RefReturn
  <2>4. CASE \E y \in {"stopInst", "drain"} : Goto(p, y) /\ UNCHANGED call
    BY <2>1, <2>4, RefWalk, GSFacts
  <2> QED BY <2>2, <2>3, <2>4
<1>3. CASE CloseStop(p)
  <2>1. inst[p] # None
    BY <1>3, RefFacts, GSFacts DEF CloseStop, TypeInv, FramesOK, Frame, FrameOK
  <2>2. KindOf(inst[p]) # "cloudsql"
    BY <2>1, ServerKind, GSFacts DEF DialerInv, HeldOK
  <2>3. /\ ext' = [ext EXCEPT ![inst[p]] = "released"]
        /\ Return(p, None) /\ pc[p] = "stopInst"
        /\ UNCHANGED <<pg, cached, done, keyOf>>
    BY <1>3 DEF CloseStop
  <2> QED BY <2>2, <2>3, RefReturn
<1> QED BY <1>1, <1>2, <1>3 DEF Closing

\* gracefulShutdown drains entries and stops servers.
LEMMA RefShutdown ==
  ASSUME TypeInv, LifeInv, DialerInv, Shutdown
  PROVE  Lifecycles
<1> USE DEF registry, backends, history, locals
<1>1. CASE GsSnapshot BY <1>1, RefWalk, GSFacts DEF GsSnapshot
<1>2. CASE GsNext
  <2>1. \E y : Goto(GS, y) BY <1>2 DEF GsNext
  <2>2. UNCHANGED <<pg, cached, done, call, ext, keyOf>> BY <1>2 DEF GsNext
  <2> QED BY <2>1, <2>2, RefWalk, GSFacts
<1>3. CASE Draining(GS) BY <1>3, RefDraining, GSFacts
<1>4. ASSUME NEW l, NEW m, SnapshotInstances(l, m) \/ SnapshotStopped(l, m)
      PROVE  Lifecycles
  BY <1>4, RefWalk, GSFacts DEF SnapshotInstances, SnapshotStopped
<1>5. ASSUME NEW l, StopSnapshot(l)
      PROVE  Lifecycles
  <2>1. PICK g \in stopping : ext' = [ext EXCEPT ![g] = "released"]
    BY <1>5 DEF StopSnapshot
  <2>2. UNCHANGED <<pg, cached, done, call, pc, keyOf>> BY <1>5 DEF StopSnapshot
  <2>3. KindOf(g) # "cloudsql" BY ServerKind DEF DialerInv, StoppingOK
  <2>4. ASSUME NEW e \in Entry PROVE Phase(e)' = Phase(e)
    <3>1. Failing(e)' <=> Failing(e) BY <2>2 DEF Failing
    <3> QED BY <2>2, <3>1, PhaseKept
  <2>5. \A e \in Entry : Backend(e)' = Backend(e) BY <2>1, <2>2, <2>3, BackendKept
  <2> QED BY <2>4, <2>5, Stutters DEF Lifecycles, Lifecycle!lifecycle
<1> QED
  BY <1>1, <1>2, <1>3, <1>4, <1>5 DEF Shutdown, GsInstances, GsStop, GsStragglers, GsStop2

\* A call brings a number that stood for nothing.
LEMMA RefArrive ==
  ASSUME TypeInv, LifeInv, DialerInv, NEW p \in Procs, NEW k \in Keys,
         OpenCall(p, k) \/ CloseCall(p, k)
  PROVE  Lifecycles
<1>1. PICK l \in {"lookup", "closeRemove"} : Arrive(p, k, l)
  BY DEF OpenCall, CloseCall
<1> DEFINE n == calls + 1
<1>2. n \in Entry /\ n > calls
  <2>1. calls \in Nat /\ calls < MaxCalls /\ MaxCalls \in Nat
    BY <1>1, RefNat, PoolRegistryAssumption
    DEF Arrive, TypeInv, CallsOK, PoolRegistryAssumption
  <2> QED BY <2>1 DEF Entry
<1>3. ext[n] = "none" BY <1>2 DEF DialerInv, FutureKeyless
<1>4. /\ keyOf' = [keyOf EXCEPT ![n] = k] /\ call' = [call EXCEPT ![p] = n]
      /\ pc[p] = "idle" /\ Goto(p, l)
      /\ UNCHANGED <<pg, cached, done, ext>>
  BY <1>1 DEF Arrive, registry, backends
<1> HIDE DEF n
<1>5. ASSUME NEW e \in Entry PROVE Phase(e)' = Phase(e)
  <2>1. /\ pc[p] \notin FailPc /\ pc'[p] \notin FailPc
        /\ \A q \in Procs : q # p => pc'[q] = pc[q] /\ call'[q] = call[q]
    BY <1>4, GSFacts DEF Goto, TypeInv, LocalsOK, FailPc
  <2>2. Failing(e)' <=> Failing(e) BY <2>1 DEF Failing
  <2> QED BY <1>4, <2>2, PhaseKept
<1>6. ASSUME NEW e \in Entry PROVE Backend(e)' = Backend(e)
  <2>1. CASE e = n BY <1>3, <1>4, <2>1 DEF Backend
  <2>2. CASE e # n
    <3>1. keyOf'[e] = keyOf[e] BY <1>4, <2>2 DEF TypeInv, CallsOK
    <3>2. KindOf(e)' = KindOf(e) BY <3>1 DEF KindOf
    <3> QED BY <1>4, <3>2 DEF Backend
  <2> QED BY <2>1, <2>2
<1> QED BY <1>5, <1>6, Stutters DEF Lifecycles, Lifecycle!lifecycle

\* The end of a call's migrations is no step of a pool's life.
LEMMA RefMigrate ==
  ASSUME TypeInv, NEW p \in Procs, Migrate(p)
  PROVE  Lifecycles
<1>1. /\ pc[p] = "migrate" /\ Goto(p, "idle")
      /\ UNCHANGED <<pg, cached, done, call, ext, keyOf>>
  BY DEF Migrate, registry, backends, history, locals
<1> QED BY <1>1, RefWalk, GSFacts DEF FailPc

\* Every step of the registry is a step of one pool's life or leaves them all alone.
LEMMA RefNext ==
  ASSUME TypeInv, LifeInv, DialerInv, [Next]_vars
  PROVE  Lifecycles
<1> USE DEF Lifecycles, Lifecycle!lifecycle
<1>1. ASSUME NEW p \in Procs, NEW k \in Keys, OpenCall(p, k) \/ CloseCall(p, k)
      PROVE  Lifecycles
  BY <1>1, RefArrive
<1>2. ASSUME NEW p \in Procs, Work(p)
      PROVE  Lifecycles
  BY <1>2, RefOpening, RefMigrate, RefProvisioning, RefEnding, RefDraining, RefClosing,
     GSFacts
  DEF Work
<1>3. CASE Signal
  BY <1>3, RefWalk, GSFacts DEF Signal, registry, backends, history, locals
<1>4. CASE Shutdown BY <1>4, RefShutdown
<1>5. CASE UNCHANGED vars
  <2>1. UNCHANGED <<pg, cached, done, call, pc, ext, keyOf>>
    BY <1>5 DEF vars, registry, backends, history, locals
  <2>2. ASSUME NEW e \in Entry PROVE Phase(e)' = Phase(e)
    <3>1. Failing(e)' <=> Failing(e) BY <2>1 DEF Failing
    <3> QED BY <2>1, <3>1, PhaseKept
  <2>3. \A e \in Entry : Backend(e)' = Backend(e) BY <2>1, BackendKept
  <2> QED BY <2>2, <2>3, Stutters
<1> QED BY <1>1, <1>2, <1>3, <1>4, <1>5 DEF Next, Quiet

\* Before the first call every generation is new and has no backend.
LEMMA RefInit == Init => Lifecycle!Init
<1> SUFFICES ASSUME Init PROVE Lifecycle!Init OBVIOUS
<1>1. ASSUME NEW e \in Entry PROVE Phase(e) = "new" /\ Backend(e) = "none"
  <2>1. pg[e] = "none" /\ ext[e] = "none" /\ e \notin done /\ e \notin cached
    BY DEF Init
  <2>2. ~Failing(e) BY GSFacts DEF Init, Failing, FailPc
  <2> QED BY <2>1, <2>2 DEF Phase, Backend
<1> QED BY <1>1 DEF Lifecycle!Init, phaseBar, backendBar

\* The registry implements the life of a pool: for every number of goroutines, keys and
\* calls, a pool is handed out only while it serves, it is closed once and after that,
\* and its dialer is released last.
THEOREM LifecycleImplemented == Spec => ImplementsLifecycle
<1>1. TypeInv /\ LifeInv /\ DialerInv /\ [Next]_vars
        => [Lifecycle!Next]_(Lifecycle!lifecycle)
  BY RefNext DEF Lifecycles
<1> QED
  BY <1>1, RefInit, TypeInvariance, LifeInvariance, DialerInvariance, PTL
  DEF Spec, ImplementsLifecycle, Lifecycle!Spec

(***************************************************************************)
(* The shutdown.  Once shuttingDown is set nothing is registered any more, *)
(* so the second snapshot of the instances leaves none.                    *)
(***************************************************************************)
Warned     == pc[GS] # "waitSignal" => shuttingDown
Cleared    == pc[GS] \in {"gsStop2", "gsDone"} => \A k \in Keys : instances[k] = None
SnapAt     == snap # {} => pc[GS] \in {"gsNext"} \cup DrainPc
StoppingAt == stopping # {} => pc[GS] \in {"gsStop", "gsStop2"}

ShutdownInv == Warned /\ Cleared /\ SnapAt /\ StoppingAt

\* A step of another goroutine registers no server after the signal.
LEMMA OthersRegister ==
  ASSUME TypeInv, NEW p \in Procs,
         Work(p) \/ \E k \in Keys : OpenCall(p, k) \/ CloseCall(p, k)
  PROVE  /\ pc'[GS] = pc[GS] /\ UNCHANGED <<snap, stopping, shuttingDown>>
         /\ \/ ~shuttingDown
            \/ \A k \in Keys : instances'[k] \in {None, instances[k]}
<1> USE DEF registry, backends, embedded, history, locals, gsLocals, TypeInv, LocalsOK,
            BackendsOK, Goto
<1>1. CASE \E k \in Keys : OpenCall(p, k) \/ CloseCall(p, k)
  BY <1>1 DEF OpenCall, CloseCall, Arrive
<1>2. CASE Opening(p)
  BY <1>2 DEF Opening, Lookup, FastRead, FastWait, Slow, SlowWait, Replace, CreateEntry,
     Return
<1>3. CASE Provisioning(p)
  BY <1>3
  DEF Provisioning, ProvisionFails, ProvisionPlain, NewDialer, StartContainer, TcLookup,
      TcAttach, StartServer, Register, StopOld, NewPool, NewPoolFails, UndoTake, UndoStop,
      StopHeld
<1>4. CASE Ending(p)
  BY <1>4
  DEF Ending, Store, CloseDone, Fail, FailReleaseOne, FailReleased, RemoveFailed, Return,
      TakeResources, ReleaseOne
<1>5. CASE Draining(p)
  BY <1>5
  DEF Draining, Drain, ClosePool, Take, DrainReleaseOne, Released, Return, TakeResources,
      ReleaseOne
<1>6. CASE Closing(p)
  BY <1>6 DEF Closing, CloseRemove, CloseInst, CloseStop, Return
<1>7. CASE Migrate(p) BY <1>7 DEF Migrate
<1> QED BY <1>1, <1>2, <1>3, <1>4, <1>5, <1>6, <1>7 DEF Work

\* ShutdownInv holds of every initial state,
LEMMA ShutdownInit == Init => ShutdownInv
BY GSFacts DEF Init, ShutdownInv, Warned, Cleared, SnapAt, StoppingAt

\* and every step keeps it.
LEMMA ShutdownNext == TypeInv /\ ShutdownInv /\ [Next]_vars => ShutdownInv'
<1> SUFFICES ASSUME TypeInv, ShutdownInv, [Next]_vars PROVE ShutdownInv' OBVIOUS
<1> USE DEF ShutdownInv, Warned, Cleared, SnapAt, StoppingAt
<1>1. ASSUME NEW p \in Procs,
             Work(p) \/ \E k \in Keys : OpenCall(p, k) \/ CloseCall(p, k)
      PROVE  ShutdownInv'
  BY <1>1, OthersRegister
<1>2. CASE Signal \/ GsSnapshot \/ GsNext
  BY <1>2
  DEF Signal, GsSnapshot, GsNext, Goto, TypeInv, LocalsOK, DrainPc, embedded, registry,
      gsLocals
<1>3. CASE Draining(GS)
  <2>1. pc[GS] \in DrainPc /\ UNCHANGED <<instances, shuttingDown, snap, stopping>>
    BY <1>3
    DEF Draining, Drain, ClosePool, Take, DrainReleaseOne, Released, Return,
        TakeResources, ReleaseOne, DrainPc, embedded, gsLocals
  <2>2. pc'[GS] \in {"gsNext"} \cup DrainPc
    BY <1>3
    DEF Draining, Drain, ClosePool, Take, DrainReleaseOne, Released, Return,
        TakeResources, ReleaseOne, Goto, DrainPc, TypeInv, LocalsOK
  <2> QED BY <2>1, <2>2 DEF DrainPc
<1>4. CASE GsInstances \/ GsStop \/ GsStragglers \/ GsStop2
  BY <1>4
  DEF GsInstances, GsStop, GsStragglers, GsStop2, SnapshotInstances, StopSnapshot,
      SnapshotStopped, Goto, TypeInv, LocalsOK, DrainPc, embedded, gsLocals
<1>5. CASE UNCHANGED vars
  BY <1>5 DEF vars, embedded, gsLocals
<1> QED BY <1>1, <1>2, <1>3, <1>4, <1>5 DEF Next, Shutdown, Quiet

\* ShutdownInv is an invariant.
LEMMA ShutdownInvariance == Spec => []ShutdownInv
BY TypeInvariance, ShutdownInit, ShutdownNext, PTL DEF Spec

\* When WaitForGracefulShutdown has returned, no embedded server is registered and no
\* entry or server of a snapshot is left, whatever opens and closes ran beside
\* gracefulShutdown.
THEOREM ShutdownLeavesNoServerHolds == Spec => []ShutdownLeavesNoServer
<1>1. ShutdownInv => ShutdownLeavesNoServer
  BY DEF ShutdownInv, Cleared, SnapAt, StoppingAt, ShutdownLeavesNoServer, DrainPc
<1> QED BY <1>1, ShutdownInvariance, PTL

(***************************************************************************)
(* The embedded servers.  A live server is registered or in some           *)
(* goroutine's hand, and a goroutine lets go of it by registering or by    *)
(* stopping it.                                                            *)
(***************************************************************************)
\* Where a goroutine may hold a server that it is going to stop.
HeldPc == {"stopOld", "undoStop", "stopInst"} \cup DrainPc

HeldAt == \A t \in Threads : inst[t] # None => t # GS /\ pc[t] \in HeldPc

\* Some goroutine has yet to stop or register server g.
InHand(g) ==
    \/ \E t \in Threads : inst[t] = g
    \/ g \in stopping
    \/ \E q \in Procs : pc[q] = "register" /\ call[q] = g

\* NoForgottenServer, one server at a time.
Kept(g) ==
    KindOf(g) = "embedded" /\ ext[g] = "live" => g = instances[keyOf[g]] \/ InHand(g)

AllKept == \A g \in Entry : Kept(g)

ServerInv == HeldAt /\ AllKept

\* No embedded server starts.
NoServerStarts ==
    \A g \in Entry : KindOf(g) = "embedded" /\ ext'[g] = "live" => ext[g] = "live"

\* A goroutine that moves on with the server it holds keeps ServerInv,
LEMMA ServerWalk ==
  ASSUME TypeInv, ServerInv, NEW t \in Threads, NEW y, Goto(t, y), pc[t] # "register",
         inst[t] # None => y \in HeldPc, NoServerStarts,
         UNCHANGED <<inst, instances, stopping, call, keyOf>>
  PROVE  ServerInv'
<1> USE DEF TypeInv, LocalsOK, BackendsOK, Goto, ServerInv
<1>1. HeldAt' BY DEF HeldAt
<1>2. AllKept'
  BY DEF AllKept, Kept, InHand, KindOf, NoServerStarts
<1> QED BY <1>1, <1>2

\* and so does one that returns without any.
LEMMA ServerLeave ==
  ASSUME TypeInv, ServerInv, NEW p \in Procs, NEW g, Return(p, g), pc[p] # "register",
         inst[p] # None => ext'[inst[p]] # "live", NoServerStarts,
         UNCHANGED <<instances, stopping, keyOf>>
  PROVE  ServerInv'
<1> USE DEF TypeInv, LocalsOK, BackendsOK, Goto, ServerInv, Return
<1>1. HeldAt' BY DEF HeldAt
<1>2. ASSUME NEW g1 \in Entry, KindOf(g1)' = "embedded", ext'[g1] = "live"
      PROVE  g1 = instances'[keyOf'[g1]] \/ InHand(g1)'
  <2>1. Kept(g1) /\ KindOf(g1) = "embedded" /\ ext[g1] = "live"
    BY <1>2 DEF AllKept, KindOf, NoServerStarts
  <2>2. \A t \in Threads : inst[t] = g1 => inst'[t] = g1 BY <1>2
  <2>3. \A q \in Procs : pc[q] = "register" => pc'[q] = pc[q] /\ call'[q] = call[q]
    OBVIOUS
  <2> QED BY <2>1, <2>2, <2>3 DEF Kept, InHand
<1> QED BY <1>1, <1>2 DEF AllKept, Kept

\* A new server is in the hand of the goroutine that registers it,
LEMMA ServerNew ==
  ASSUME TypeInv, LifeInv, ServerInv, NEW p \in Procs, StartServer(p)
  PROVE  ServerInv'
<1> USE DEF TypeInv, LocalsOK, BackendsOK, Goto, ServerInv, StartServer, registry,
            embedded, history, locals, gsLocals
<1>1. HeldAt' BY DEF HeldAt, HeldPc, DrainPc
<1>2. AllKept' BY DEF AllKept, Kept, InHand, KindOf
<1> QED BY <1>1, <1>2

\* which puts it under the key of its call, or keeps it to stop it; the server it
\* replaces is in its hand next.
LEMMA ServerRegister ==
  ASSUME TypeInv, LifeInv, ServerInv, NEW p \in Procs, Register(p)
  PROVE  ServerInv'
<1> USE DEF TypeInv, LocalsOK, BackendsOK, Goto, ServerInv, registry, backends, history,
            gsLocals
<1>0. pc[p] = "register" /\ inst[p] = None /\ call[p] \in Entry /\ Key(p) \in Keys
  BY RunningCall DEF Register, HeldAt, HeldPc, DrainPc
<1>1. CASE shuttingDown
  <2>1. HeldAt' BY <1>0, <1>1 DEF Register, HeldAt, HeldPc
  <2>2. /\ inst' = [inst EXCEPT ![p] = call[p]] /\ Goto(p, "undoStop")
        /\ UNCHANGED <<instances, ext, stopping, call, keyOf>>
    BY <1>1 DEF Register
  <2>3. ASSUME NEW g \in Entry PROVE Kept(g)'
    <3>1. CASE g = call[p] BY <2>2, <3>1 DEF Kept, InHand
    <3>2. CASE g # call[p]
      <4>1. KindOf(g)' = KindOf(g) BY <2>2 DEF KindOf
      <4>2. InHand(g) => InHand(g)' BY <1>0, <2>2, <3>2 DEF InHand
      <4> QED BY <2>2, <4>1, <4>2 DEF AllKept, Kept
    <3> QED BY <3>1, <3>2
  <2> QED BY <2>1, <2>3 DEF AllKept
<1>2. CASE ~shuttingDown
  <2>1. HeldAt' BY <1>0, <1>2 DEF Register, HeldAt, HeldPc
  <2>2. /\ inst' = [inst EXCEPT ![p] = instances[Key(p)]]
        /\ instances' = [instances EXCEPT ![Key(p)] = call[p]]
        /\ pc' = [pc EXCEPT ![p] = IF instances[Key(p)] = None THEN "newPool" ELSE "stopOld"]
        /\ UNCHANGED <<ext, stopping, call, keyOf>>
    BY <1>2 DEF Register
  <2>3. ASSUME NEW g \in Entry PROVE Kept(g)'
    <3>1. CASE g = call[p] BY <1>0, <2>2, <3>1 DEF Kept, InHand, Key
    <3>2. CASE g = instances[Key(p)]
      <4>1. inst'[p] = g BY <2>2, <3>2
      <4> QED BY <4>1 DEF Kept, InHand
    <3>3. CASE g # call[p] /\ g # instances[Key(p)]
      <4>1. KindOf(g)' = KindOf(g) BY <2>2 DEF KindOf
      <4>2. InHand(g) => InHand(g)' BY <1>0, <2>2, <3>3 DEF InHand
      <4>3. g = instances[keyOf[g]] /\ KindOf(g) = "embedded" => g = instances'[keyOf'[g]]
        BY <2>2, <3>3 DEF KindOf
      <4> QED BY <2>2, <4>1, <4>2, <4>3 DEF AllKept, Kept
    <3> QED BY <3>1, <3>2, <3>3
  <2> QED BY <2>1, <2>3 DEF AllKept
<1> QED BY <1>1, <1>2

\* A held server is stopped before the hand is empty.
LEMMA ServerHeld ==
  ASSUME TypeInv, ServerInv, NEW p \in Procs, NEW y, StopHeld(p, y),
         pc[p] \in {"stopOld", "undoStop"}
  PROVE  ServerInv'
<1> USE DEF TypeInv, LocalsOK, BackendsOK, Goto, ServerInv, StopHeld, registry, embedded,
            history, gsLocals
<1>1. HeldAt' BY DEF HeldAt
<1>2. AllKept' BY DEF AllKept, Kept, InHand, KindOf
<1> QED BY <1>1, <1>2

\* Server g, the one under the key of p's call if there is one, is taken by p.
TakenBy(p, g) ==
    /\ inst' = [inst EXCEPT ![p] = g]
    /\ instances[Key(p)] # None => g = instances[Key(p)]
    /\ instances' = [instances EXCEPT ![Key(p)] = None]

\* The undo of a creation and a close take what is registered into their hands,
LEMMA ServerTaken ==
  ASSUME TypeInv, ServerInv, NEW p \in Procs, NEW y \in HeldPc, NEW g,
         pc[p] \in {"undoTake", "closeInst"}, Goto(p, y), TakenBy(p, g),
         UNCHANGED <<ext, stopping, call, keyOf>>
  PROVE  ServerInv'
<1> USE DEF TypeInv, LocalsOK, BackendsOK, Goto, ServerInv, TakenBy
<1>0. inst[p] = None /\ p # GS /\ Key(p) \in Keys
  BY RunningCall DEF HeldAt, HeldPc, DrainPc
<1>1. HeldAt' BY <1>0 DEF HeldAt
<1>2. AllKept' BY <1>0 DEF AllKept, Kept, InHand, KindOf
<1> QED BY <1>1, <1>2

\* and gracefulShutdown takes all of it into its snapshot,
LEMMA ServerSnapshot ==
  ASSUME TypeInv, ServerInv, stopping = {}, NEW x \in GsPc, NEW y \in GsPc,
         SnapshotInstances(x, y)
  PROVE  ServerInv'
<1> USE DEF TypeInv, LocalsOK, BackendsOK, Goto, ServerInv, SnapshotInstances, registry,
            backends, history, locals
<1>1. HeldAt' BY DEF HeldAt
<1>2. AllKept'
  <2> SUFFICES ASSUME NEW g \in Entry, KindOf(g)' = "embedded", ext'[g] = "live"
               PROVE  InHand(g)'
    BY DEF AllKept, Kept
  <2>1. keyOf[g] \in Keys /\ KindOf(g) = "embedded" /\ ext[g] = "live" BY DEF KindOf
  <2>2. CASE g = instances[keyOf[g]] BY <2>1, <2>2 DEF InHand
  <2>3. CASE InHand(g)
    <3>1. \A q \in Procs : pc[q] = "register" => pc'[q] = "register" BY GSFacts
    <3>2. \A q \in Procs : pc[q] = "register" => call'[q] = call[q] OBVIOUS
    <3> QED BY <2>3, <3>1, <3>2 DEF InHand
  <2> QED BY <2>1, <2>2, <2>3 DEF AllKept, Kept
<1> QED BY <1>1, <1>2

\* from which a server goes when it has stopped.
LEMMA ServerSnapshotStop ==
  ASSUME TypeInv, ServerInv, NEW x \in GsPc, StopSnapshot(x)
  PROVE  ServerInv'
<1> USE DEF TypeInv, LocalsOK, BackendsOK, Goto, ServerInv, StopSnapshot, registry,
            embedded, history, locals
<1>1. HeldAt' BY DEF HeldAt
<1>2. ASSUME NEW g \in Entry PROVE Kept(g)'
  <2>1. KindOf(g)' = KindOf(g) BY DEF KindOf
  <2>2. InHand(g) /\ ext'[g] = "live" => InHand(g)' BY DEF InHand
  <2>3. ext'[g] = "live" => ext[g] = "live" OBVIOUS
  <2> QED BY <2>1, <2>2, <2>3 DEF AllKept, Kept
<1> QED BY <1>1, <1>2 DEF AllKept

\* A call that arrives has no server yet.
LEMMA ServerArrive ==
  ASSUME TypeInv, LifeInv, DialerInv, ServerInv, NEW p \in Procs, NEW k \in Keys,
         NEW l \in {"lookup", "closeRemove"}, Arrive(p, k, l)
  PROVE  ServerInv'
<1> USE DEF TypeInv, LocalsOK, BackendsOK, CallsOK, Goto, ServerInv, Arrive, registry,
            backends, embedded, gsLocals
<1>0. calls + 1 \in Entry /\ calls \in Nat /\ calls + 1 > calls
  BY PoolRegistryAssumption DEF PoolRegistryAssumption, Ref, Entry
<1>1. ext[calls + 1] = "none" BY <1>0 DEF DialerInv, FutureKeyless
<1>2. HeldAt' BY DEF HeldAt, HeldPc, DrainPc
<1>3. ASSUME NEW g \in Entry PROVE Kept(g)'
  <2>1. CASE g = calls + 1 BY <1>1, <2>1 DEF Kept
  <2>2. CASE g # calls + 1
    <3>1. KindOf(g)' = KindOf(g) /\ keyOf'[g] = keyOf[g] BY <2>2 DEF KindOf
    <3>2. \A q \in Procs : pc[q] = "register" => pc'[q] = pc[q] /\ call'[q] = call[q]
      OBVIOUS
    <3>3. InHand(g) => InHand(g)' BY <3>2 DEF InHand
    <3> QED BY <3>1, <3>3 DEF AllKept, Kept
  <2> QED BY <2>1, <2>2
<1> QED BY <1>2, <1>3 DEF AllKept

\* Most steps of a call are taken with empty hands and start no server.
LEMMA ServerQuiet ==
  ASSUME TypeInv, ServerInv, NEW p \in Procs, pc[p] \notin HeldPc \cup {"register"},
         NoServerStarts, UNCHANGED <<instances, stopping, keyOf>>,
         \/ (\E y : Goto(p, y)) /\ UNCHANGED <<inst, call>>
         \/ \E g : Return(p, g)
  PROVE  ServerInv'
<1>1. inst[p] = None BY DEF ServerInv, HeldAt
<1>2. ASSUME NEW y, Goto(p, y), UNCHANGED <<inst, call>> PROVE ServerInv'
  BY <1>1, <1>2, ServerWalk
<1>3. ASSUME NEW g, Return(p, g) PROVE ServerInv'
  BY <1>1, <1>3, ServerLeave
<1> QED BY <1>2, <1>3

\* The creation of a pool.
LEMMA ServerProvisioning ==
  ASSUME TypeInv, LifeInv, ServerInv, NEW p \in Procs, Provisioning(p)
  PROVE  ServerInv'
<1> USE DEF registry, backends, embedded, history, locals, gsLocals, NoServerStarts
<1> USE DEF HeldPc, DrainPc
<1>1. CASE \/ ProvisionFails(p) \/ ProvisionPlain(p) \/ TcLookup(p) \/ TcAttach(p)
           \/ NewPool(p)
  <2>1. /\ pc[p] \notin HeldPc \cup {"register"}
        /\ UNCHANGED <<ext, instances, stopping, keyOf, inst, call>>
        /\ \E y : Goto(p, y)
    BY <1>1 DEF ProvisionFails, ProvisionPlain, TcLookup, TcAttach, NewPool
  <2>2. NoServerStarts BY <2>1
  <2> QED BY <2>1, <2>2, ServerQuiet
<1>2. CASE NewDialer(p) \/ StartContainer(p) \/ NewPoolFails(p)
  <2>1. /\ pc[p] \notin HeldPc \cup {"register"}
        /\ UNCHANGED <<instances, stopping, keyOf, inst, call>>
        /\ \E y : Goto(p, y)
    BY <1>2 DEF NewDialer, StartContainer, NewPoolFails
  <2>2. KindOf(call[p]) = Kind[Key(p)] BY <2>1, <1>2, RunningCall DEF KindOf, Key,
                                          NewDialer, StartContainer, NewPoolFails
  <2>3. \/ ext' = ext
        \/ ext' = [ext EXCEPT ![call[p]] = "released"]
        \/ ext' = [ext EXCEPT ![call[p]] = "live"] /\ KindOf(call[p]) # "embedded"
    BY <1>2, <2>2 DEF NewDialer, StartContainer, NewPoolFails
  <2>4. NoServerStarts BY <2>3 DEF TypeInv, BackendsOK
  <2> QED BY <2>1, <2>4, ServerQuiet
<1>3. CASE StartServer(p) BY <1>3, ServerNew
<1>4. CASE Register(p) BY <1>4, ServerRegister
<1>5. CASE StopOld(p) \/ UndoStop(p) BY <1>5, ServerHeld DEF StopOld, UndoStop
<1>6. CASE UndoTake(p)
  <2>1. PICK g : TakenBy(p, g) BY <1>6 DEF UndoTake, TakenBy
  <2>2. /\ pc[p] = "undoTake" /\ Goto(p, "undoStop")
        /\ UNCHANGED <<ext, stopping, call, keyOf>>
    BY <1>6 DEF UndoTake
  <2>3. "undoStop" \in HeldPc /\ pc[p] \in {"undoTake", "closeInst"} BY <2>2
  <2> HIDE DEF HeldPc, DrainPc
  <2> QED BY <2>1, <2>2, <2>3, ServerTaken
<1> QED BY <1>1, <1>2, <1>3, <1>4, <1>5, <1>6 DEF Provisioning

\* A list of resources is released without starting anything.
LEMMA NoneStarts ==
  ASSUME TypeInv, NEW t \in Threads,
         ext' = ext \/ \E x : ext' = [ext EXCEPT ![x] = "released"]
  PROVE  NoServerStarts
BY DEF NoServerStarts, TypeInv, BackendsOK

\* The drain of an entry, with a server in the hand that is stopped after it.
LEMMA ServerDraining ==
  ASSUME TypeInv, ServerInv, NEW t \in Threads, Draining(t)
  PROVE  ServerInv'
<1> USE DEF registry, backends, embedded, history, locals, gsLocals, HeldPc, DrainPc
<1>1. NoServerStarts
  BY NoneStarts
  DEF Draining, Drain, ClosePool, Take, DrainReleaseOne, Released, TakeResources, ReleaseOne
<1>2. CASE Drain(t) \/ ClosePool(t) \/ Take(t)
  BY <1>1, <1>2, ServerWalk DEF Drain, ClosePool, Take, TakeResources
<1>3. CASE DrainReleaseOne(t)
  <2>1. pc[t] = "release" /\ Goto(t, "release")
    BY <1>3 DEF DrainReleaseOne, ReleaseOne, Goto, TypeInv, LocalsOK
  <2>2. UNCHANGED <<inst, instances, stopping, call, keyOf>>
    BY <1>3 DEF DrainReleaseOne, ReleaseOne
  <2> QED BY <1>1, <2>1, <2>2, ServerWalk
<1>4. CASE Released(t)
  <2>0. pc[t] = "release" /\ UNCHANGED <<ext, instances, stopping, keyOf>>
    BY <1>4 DEF Released
  <2>1. CASE t = GS
    <3>1. Goto(t, "gsNext") /\ UNCHANGED <<inst, call>>
      BY <1>4, <2>1, GSFacts DEF Released
    <3>2. inst[t] = None BY <2>1 DEF ServerInv, HeldAt
    <3> QED BY <1>1, <2>0, <3>1, <3>2, ServerWalk
  <2>2. CASE t \in Procs /\ inst[t] # None
    <3>1. Goto(t, "stopInst") /\ UNCHANGED <<inst, call>>
      BY <1>4, <2>2, GSFacts DEF Released
    <3> QED BY <1>1, <2>0, <3>1, ServerWalk
  <2>3. CASE t \in Procs /\ inst[t] = None
    <3>1. Return(t, None) BY <1>4, <2>3, GSFacts DEF Released
    <3> QED BY <1>1, <2>0, <2>3, <3>1, ServerLeave
  <2> QED BY <2>1, <2>2, <2>3, GSFacts
<1> QED BY <1>2, <1>3, <1>4 DEF Draining

\* The steps of a call.
LEMMA ServerWork ==
  ASSUME TypeInv, LifeInv, ServerInv, NEW p \in Procs, Work(p)
  PROVE  ServerInv'
<1> USE DEF registry, backends, embedded, history, locals, gsLocals, HeldPc, DrainPc
<1>1. CASE Opening(p)
  <2>1. /\ pc[p] \notin HeldPc \cup {"register"}
        /\ UNCHANGED <<ext, instances, stopping, keyOf>>
        /\ \/ (\E y : Goto(p, y)) /\ UNCHANGED <<inst, call>>
           \/ \E g : Return(p, g)
    BY <1>1
    DEF Opening, Lookup, FastRead, FastWait, Slow, SlowWait, Replace, CreateEntry
  <2>2. NoServerStarts BY <2>1, NoneStarts
  <2> QED BY <2>1, <2>2, ServerQuiet
<1>2. CASE Provisioning(p) BY <1>2, ServerProvisioning
<1>3. CASE Ending(p)
  <2>1. /\ pc[p] \notin HeldPc \cup {"register"}
        /\ UNCHANGED <<instances, stopping, keyOf>>
        /\ ext' = ext \/ \E x : ext' = [ext EXCEPT ![x] = "released"]
    BY <1>3
    DEF Ending, Store, CloseDone, Fail, FailReleaseOne, FailReleased, RemoveFailed,
        TakeResources, ReleaseOne
  <2>2. \/ (\E y : Goto(p, y)) /\ UNCHANGED <<inst, call>>
        \/ \E g : Return(p, g)
    <3>1. CASE FailReleaseOne(p)
      <4>1. Goto(p, "failRelease") /\ UNCHANGED <<inst, call>>
        BY <3>1 DEF FailReleaseOne, ReleaseOne, Goto, TypeInv, LocalsOK
      <4> QED BY <4>1
    <3>2. CASE ~FailReleaseOne(p)
      BY <1>3, <3>2
      DEF Ending, Store, CloseDone, Fail, FailReleased, RemoveFailed, TakeResources
    <3> QED BY <3>1, <3>2
  <2>3. NoServerStarts BY <2>1, NoneStarts
  <2> QED BY <2>1, <2>2, <2>3, ServerQuiet
<1>4. CASE Draining(p) BY <1>4, ServerDraining, GSFacts
<1>5. CASE CloseRemove(p)
  <2>1. NoServerStarts BY <1>5, NoneStarts DEF CloseRemove
  <2> QED BY <1>5, <2>1, ServerQuiet DEF CloseRemove
<1>6. CASE CloseInst(p)
  <2>1. CASE instances[Key(p)] = None /\ Return(p, None)
    <3>1. UNCHANGED <<ext, instances, stopping, keyOf>> /\ pc[p] = "closeInst"
      BY <1>6, <2>1 DEF CloseInst, TypeInv, BackendsOK
    <3>2. NoServerStarts BY <3>1, NoneStarts
    <3> QED BY <2>1, <3>1, <3>2, ServerQuiet
  <2>2. CASE ~(instances[Key(p)] = None /\ Return(p, None))
    <3>1. PICK y \in {"stopInst", "drain"} :
            /\ Goto(p, y)
            /\ TakenBy(p, instances[Key(p)])
            /\ UNCHANGED call
      BY <1>6, <2>2 DEF CloseInst, TakenBy
    <3>2. pc[p] = "closeInst" /\ y \in HeldPc /\ UNCHANGED <<ext, stopping, keyOf>>
      BY <1>6, <3>1 DEF CloseInst
    <3>3. pc[p] \in {"undoTake", "closeInst"} BY <3>2
    <3> HIDE DEF HeldPc, DrainPc
    <3> QED BY <3>1, <3>2, <3>3, ServerTaken
  <2> QED BY <2>1, <2>2
<1>7. CASE CloseStop(p)
  <2>1. /\ pc[p] = "stopInst" /\ Return(p, None)
        /\ ext' = [ext EXCEPT ![inst[p]] = "released"]
        /\ UNCHANGED <<instances, stopping, keyOf>>
    BY <1>7 DEF CloseStop
  <2>2. inst[p] # None => ext'[inst[p]] # "live" BY <2>1 DEF TypeInv, BackendsOK, LocalsOK
  <2>3. NoServerStarts BY <2>1, NoneStarts
  <2> QED BY <2>1, <2>2, <2>3, ServerLeave
<1>8. CASE Closing(p) BY <1>5, <1>6, <1>7, <1>8 DEF Closing
<1>9. CASE Migrate(p)
  <2>1. /\ pc[p] \notin HeldPc \cup {"register"} /\ Goto(p, "idle")
        /\ UNCHANGED <<ext, inst, call, instances, stopping, keyOf>>
    BY <1>9 DEF Migrate
  <2>2. NoServerStarts BY <2>1, NoneStarts
  <2> QED BY <2>1, <2>2, ServerQuiet
<1> QED BY <1>1, <1>2, <1>3, <1>4, <1>8, <1>9 DEF Work

\* ServerInv holds of every initial state,
LEMMA ServerInit == Init => ServerInv
<1> SUFFICES ASSUME Init PROVE ServerInv OBVIOUS
<1>1. (\A t \in Threads : inst[t] = None) /\ \A g \in Entry : ext[g] # "live"
  BY DEF Init
<1> QED BY <1>1 DEF ServerInv, HeldAt, AllKept, Kept

\* and every step keeps it.
LEMMA ServerNext ==
  TypeInv /\ LifeInv /\ DialerInv /\ ShutdownInv /\ ServerInv /\ [Next]_vars => ServerInv'
<1> SUFFICES ASSUME TypeInv, LifeInv, DialerInv, ShutdownInv, ServerInv, [Next]_vars
             PROVE  ServerInv'
  OBVIOUS
<1> USE DEF registry, backends, embedded, history, locals, gsLocals
<1>1. ASSUME NEW p \in Procs, NEW k \in Keys, OpenCall(p, k) \/ CloseCall(p, k)
      PROVE  ServerInv'
  BY <1>1, ServerArrive DEF OpenCall, CloseCall
<1>2. ASSUME NEW p \in Procs, Work(p) PROVE ServerInv'
  BY <1>2, ServerWork
<1>3. ASSUME NEW y, Goto(GS, y), pc[GS] # "register",
             UNCHANGED <<ext, inst, instances, stopping, call, keyOf>>
      PROVE  ServerInv'
  <2>1. inst[GS] = None BY GSFacts DEF ServerInv, HeldAt
  <2>2. NoServerStarts BY <1>3, NoneStarts, GSFacts
  <2> QED BY <1>3, <2>1, <2>2, ServerWalk, GSFacts
<1>4. CASE Signal BY <1>3, <1>4 DEF Signal
<1>5. CASE Shutdown
  <2>1. CASE GsSnapshot BY <1>3, <2>1 DEF GsSnapshot
  <2>2. CASE GsNext
    <3>1. /\ \E y : Goto(GS, y)
          /\ pc[GS] # "register"
          /\ UNCHANGED <<ext, inst, instances, stopping, call, keyOf>>
      BY <2>2 DEF GsNext
    <3> QED BY <1>3, <3>1
  <2>3. CASE Draining(GS) BY <2>3, ServerDraining, GSFacts
  <2>4. CASE GsInstances \/ GsStragglers
    <3>1. stopping = {}
      BY <2>4 DEF GsInstances, GsStragglers, SnapshotInstances, ShutdownInv, StoppingAt
    <3> QED BY <2>4, <3>1, ServerSnapshot DEF GsInstances, GsStragglers, GsPc
  <2>5. CASE GsStop \/ GsStop2
    <3>1. CASE StopSnapshot("gsStop") \/ StopSnapshot("gsStop2")
      BY <3>1, ServerSnapshotStop DEF GsPc
    <3>2. CASE SnapshotStopped("gsStop", "gsStragglers") \/ SnapshotStopped("gsStop2", "gsDone")
      BY <1>3, <3>2 DEF SnapshotStopped
    <3> QED BY <2>5, <3>1, <3>2 DEF GsStop, GsStop2
  <2> QED BY <1>5, <2>1, <2>2, <2>3, <2>4, <2>5 DEF Shutdown
<1>6. CASE UNCHANGED vars
  BY <1>6 DEF vars, ServerInv, HeldAt, AllKept, Kept, InHand, KindOf
<1> QED BY <1>1, <1>2, <1>4, <1>5, <1>6 DEF Next, Quiet

\* ServerInv is an invariant.
LEMMA ServerInvariance == Spec => []ServerInv
BY TypeInvariance, LifeInvariance, DialerInvariance, ShutdownInvariance, ServerInit,
   ServerNext, PTL DEF Spec

\* No embedded server is forgotten: as long as it runs it is registered under the key of
\* the call that started it, or some goroutine has yet to register or to stop it.
THEOREM NoForgottenServerHolds == Spec => []NoForgottenServer
<1>1. ServerInv => NoForgottenServer
  BY DEF ServerInv, AllKept, Kept, InHand, NoForgottenServer, HeldServers
<1> QED BY <1>1, ServerInvariance, PTL

(***************************************************************************)
(* The dialers.  A live dialer is on the list of its entry, or on the list *)
(* that a goroutine has taken from there and works off.  It stays on the   *)
(* entry's list only until the generation is over: whoever ends it takes   *)
(* the list next.                                                          *)
(***************************************************************************)
\* The failure path behind the point where the list was taken.
EmptiedPc == {"failRelease", "remove", "closeDoneErr"}

\* The dialer of generation e is on the list of its entry, rightly.
OnList(e) ==
    /\ e \in Elems(res[e])
    /\ \/ e \notin done
       \/ pg[e] = "open"
       \/ \E t \in Threads : ent[t] = e /\ pc[t] = "take"

InRelease(e) == \E t \in Threads : e \in Elems(rel[t])

Owned(e) == KindOf(e) = "cloudsql" /\ ext[e] = "live" => OnList(e) \/ InRelease(e)

AllOwned == \A e \in Entry : Owned(e)

Emptied == \A p \in Procs : pc[p] \in EmptiedPc => call[p] \notin Elems(res[call[p]])

OwnerInv == AllOwned /\ Emptied

\* The elements of a list are its last one and those of the rest.
LEMMA ElemsLast ==
  ASSUME NEW s \in Seq(Entry), s # <<>>, NEW g \in Elems(s), g # s[Len(s)]
  PROVE  g \in Elems(SubSeq(s, 1, Len(s) - 1))
<1>1. Len(s) \in Nat /\ Len(s) # 0 OBVIOUS
<1>2. PICK i \in 1 .. Len(s) : g = s[i] BY DEF Elems
<1>3. i \in 1 .. Len(s) - 1 BY <1>1, <1>2
<1>4. SubSeq(s, 1, Len(s) - 1)[i] = s[i] BY <1>1, <1>3
<1>5. Len(SubSeq(s, 1, Len(s) - 1)) = Len(s) - 1 BY LenDropped
<1> QED BY <1>2, <1>3, <1>4, <1>5 DEF Elems

\* Goroutine t moves, and nobody else.
OnlyMoves(t) ==
    \A u \in Threads : u # t => pc'[u] = pc[u] /\ ent'[u] = ent[u] /\ call'[u] = call[u]

\* No Cloud SQL dialer is created and no pool closed.
NoDialerChanges ==
    \A e \in Entry :
        /\ KindOf(e) = "cloudsql" /\ ext'[e] = "live" => ext[e] = "live"
        /\ pg[e] = "open" => pg'[e] = "open"

\* A step that leaves all lists alone keeps OwnerInv.
LEMMA OwnerWalk ==
  ASSUME OwnerInv, NEW t \in Threads, OnlyMoves(t), NoDialerChanges, pc[t] # "take",
         t \in Procs /\ pc'[t] \in EmptiedPc => pc[t] \in EmptiedPc /\ call'[t] = call[t],
         UNCHANGED <<res, rel, done, keyOf>>
  PROVE  OwnerInv'
<1> USE DEF OwnerInv
<1>1. ASSUME NEW e \in Entry PROVE Owned(e)'
  <2>1. KindOf(e)' = KindOf(e) BY DEF KindOf
  <2>2. InRelease(e) => InRelease(e)' BY DEF InRelease
  <2>3. OnList(e) => OnList(e)'
    <3>1. pg[e] = "open" => pg'[e] = "open" BY DEF NoDialerChanges
    <3>2. \A u \in Threads : ent[u] = e /\ pc[u] = "take" => ent'[u] = e /\ pc'[u] = "take"
      BY DEF OnlyMoves
    <3> QED BY <3>1, <3>2 DEF OnList
  <2> QED BY <2>1, <2>2, <2>3 DEF AllOwned, Owned, NoDialerChanges
<1>2. Emptied' BY GSFacts DEF Emptied, OnlyMoves
<1> QED BY <1>1, <1>2 DEF AllOwned

\* A new dialer goes on the list of its own entry, which is not settled.
LEMMA OwnerNew ==
  ASSUME TypeInv, LifeInv, OwnerInv, NEW p \in Procs, NewDialer(p)
  PROVE  OwnerInv'
<1> USE DEF OwnerInv, TypeInv, RegistryOK, BackendsOK, LocalsOK, Goto, NewDialer
<1> USE DEF embedded, history, locals, gsLocals
<1>0. call[p] \in Entry /\ ent[p] = call[p] /\ call[p] \notin done
  BY RunningCall DEF FramesOK, Frame, FrameOK, LifeInv, Creations, Creation, Making, MakePc
<1>1. call[p] \in Elems(res'[call[p]]) BY <1>0, ElemsAppend
<1>2. ASSUME NEW e \in Entry PROVE Owned(e)'
  <2>1. CASE e = call[p] BY <1>0, <1>1, <2>1 DEF Owned, OnList
  <2>2. CASE e # call[p]
    <3>1. KindOf(e)' = KindOf(e) /\ ext'[e] = ext[e] BY <2>2 DEF KindOf
    <3>2. InRelease(e) => InRelease(e)' BY DEF InRelease
    <3>3. OnList(e) => OnList(e)'
      <4>1. res'[e] = res[e] BY <1>0, <2>2
      <4>2. \A u \in Threads : pc[u] = "take" => pc'[u] = "take" OBVIOUS
      <4> QED BY <4>1, <4>2 DEF OnList
    <3> QED BY <3>1, <3>2, <3>3 DEF AllOwned, Owned
  <2> QED BY <2>1, <2>2
<1>3. ASSUME NEW q \in Procs, pc'[q] \in EmptiedPc PROVE call'[q] \notin Elems(res'[call'[q]])
  <2>1. q # p /\ pc[q] \in EmptiedPc BY <1>3 DEF EmptiedPc
  <2>2. call[q] # call[p] BY <1>0, <2>1 DEF LifeInv, UniqueCalls
  <2>3. call[q] \in Entry BY <2>1, RunningCall DEF EmptiedPc
  <2> QED BY <1>0, <2>1, <2>2, <2>3 DEF Emptied
<1> QED BY <1>2, <1>3 DEF AllOwned, Emptied

\* A container on another list hides no dialer.
LEMMA OwnerAttach ==
  ASSUME TypeInv, LifeInv, OwnerInv, NEW p \in Procs, TcAttach(p)
  PROVE  OwnerInv'
<1> USE DEF OwnerInv, TypeInv, RegistryOK, BackendsOK, LocalsOK, Goto, TcAttach
<1> USE DEF backends, embedded, history, locals, gsLocals
<1>0. call[p] \in Entry /\ tgt[p] \in Entry
  BY RunningCall DEF FramesOK, Frame, FrameOK
<1>1. \A e \in Entry : \A g : g \in Elems(res'[e]) => g \in Elems(res[e]) \/ g = call[p]
  BY <1>0, ElemsAppend
<1>2. \A e \in Entry : \A g : g \in Elems(res[e]) => g \in Elems(res'[e])
  BY <1>0, ElemsAppend
<1>3. ASSUME NEW e \in Entry PROVE Owned(e)'
  <2>1. KindOf(e)' = KindOf(e) /\ ext'[e] = ext[e] BY DEF KindOf
  <2>2. InRelease(e) => InRelease(e)' BY DEF InRelease
  <2>3. \A u \in Threads : pc[u] = "take" => pc'[u] = "take" OBVIOUS
  <2>4. OnList(e) => OnList(e)' BY <1>2, <2>3 DEF OnList
  <2> QED BY <2>1, <2>2, <2>4 DEF AllOwned, Owned
<1>4. ASSUME NEW q \in Procs, pc'[q] \in EmptiedPc PROVE call'[q] \notin Elems(res'[call'[q]])
  <2>1. q # p /\ pc[q] \in EmptiedPc BY <1>4 DEF EmptiedPc
  <2>2. call[q] # call[p] BY <1>0, <2>1 DEF LifeInv, UniqueCalls
  <2>3. call[q] \in Entry BY <2>1, RunningCall DEF EmptiedPc
  <2> QED BY <1>1, <2>1, <2>2, <2>3 DEF Emptied
<1> QED BY <1>3, <1>4 DEF AllOwned, Emptied

\* Whoever takes a list has all of it.
LEMMA OwnerTake ==
  ASSUME TypeInv, DialerInv, OwnerInv, NEW t \in Threads, NEW x, NEW y,
         <<x, y>> \in {<<"fail", "failRelease">>, <<"take", "release">>},
         t = GS => x = "take", TakeResources(t, x, y)
  PROVE  OwnerInv'
<1> USE DEF OwnerInv, TypeInv, RegistryOK, BackendsOK, LocalsOK, Goto, TakeResources
<1> USE DEF backends, embedded, history, locals, gsLocals
<1>0. ent[t] \in Entry /\ rel[t] = <<>>
  BY DEF FramesOK, Frame, FrameOK, Holding, Making, EndPc, DrainPc, DialerInv, RelOK
<1>1. /\ rel'[t] = res[ent[t]] /\ res'[ent[t]] = <<>>
      /\ \A u \in Threads : u # t => rel'[u] = rel[u] /\ pc'[u] = pc[u]
      /\ \A e \in Entry : e # ent[t] => res'[e] = res[e]
  BY <1>0
<1>2. ASSUME NEW e \in Entry PROVE Owned(e)'
  <2>1. KindOf(e)' = KindOf(e) /\ ext'[e] = ext[e] BY DEF KindOf
  <2>2. InRelease(e) => InRelease(e)' BY <1>0, <1>1, ElemsEmpty DEF InRelease
  <2>3. CASE e = ent[t]
    <3>1. OnList(e) => InRelease(e)' BY <1>1, <2>3 DEF OnList, InRelease
    <3> QED BY <2>1, <2>2, <3>1 DEF AllOwned, Owned
  <2>4. CASE e # ent[t]
    <3>1. OnList(e) => OnList(e)' BY <1>1, <2>4 DEF OnList
    <3> QED BY <2>1, <2>2, <3>1 DEF AllOwned, Owned
  <2> QED BY <2>3, <2>4
<1>3. ASSUME NEW q \in Procs, pc'[q] \in EmptiedPc PROVE call'[q] \notin Elems(res'[call'[q]])
  <2>1. call[q] \in Entry
    <3>1. pc[q] \notin {"idle", "migrate"} BY <1>1, <1>3 DEF EmptiedPc
    <3> QED BY <3>1, RunningCall
  <2>2. CASE q = t
    <3>1. pc[t] = "fail" BY <1>3, <2>2 DEF EmptiedPc
    <3>2. ent[t] = call[t]
      BY <2>2, <3>1 DEF FramesOK, Frame, FrameOK, Making, EndPc
    <3> QED BY <1>1, <2>2, <3>2, ElemsEmpty
  <2>3. CASE q # t
    <3>1. call[q] \notin Elems(res[call[q]]) BY <1>1, <1>3, <2>3 DEF Emptied
    <3> QED BY <1>1, <2>1, <3>1, ElemsEmpty
  <2> QED BY <2>2, <2>3
<1> QED BY <1>2, <1>3 DEF AllOwned, Emptied

\* What leaves a list that was taken is released.
LEMMA OwnerRelease ==
  ASSUME TypeInv, OwnerInv, NEW t \in Threads, NEW l, ReleaseOne(t, l)
  PROVE  OwnerInv'
<1> USE DEF OwnerInv, TypeInv, RegistryOK, BackendsOK, LocalsOK, ReleaseOne
<1> USE DEF registry, embedded, history, gsLocals
<1>1. rel[t] \in Seq(Entry) /\ rel[t] # <<>> /\ rel[t][Len(rel[t])] \in Entry
  BY DropLast
<1>2. /\ ext'[rel[t][Len(rel[t])]] = "released"
      /\ rel'[t] = SubSeq(rel[t], 1, Len(rel[t]) - 1)
      /\ \A u \in Threads : u # t => rel'[u] = rel[u]
      /\ \A e \in Entry : ext'[e] = "live" => ext[e] = "live"
  BY <1>1
<1>3. ASSUME NEW e \in Entry PROVE Owned(e)'
  <2>1. KindOf(e)' = KindOf(e) BY DEF KindOf
  <2>2. OnList(e)' = OnList(e) BY DEF OnList
  <2>3. CASE e = rel[t][Len(rel[t])] BY <1>2, <2>3 DEF Owned
  <2>4. CASE e # rel[t][Len(rel[t])]
    <3>1. e \in Elems(rel[t]) => e \in Elems(rel'[t]) BY <1>1, <1>2, <2>4, ElemsLast
    <3>2. InRelease(e) => InRelease(e)' BY <1>2, <3>1 DEF InRelease
    <3> QED BY <1>2, <2>1, <2>2, <3>2 DEF AllOwned, Owned
  <2> QED BY <2>3, <2>4
<1>4. Emptied' BY DEF Emptied
<1> QED BY <1>3, <1>4 DEF AllOwned

\* A creation settles with its pool open, or with its list empty.
LEMMA OwnerSettle ==
  ASSUME TypeInv, LifeInv, DialerInv, OwnerInv, NEW p \in Procs, CloseDone(p)
  PROVE  OwnerInv'
<1> USE DEF OwnerInv, TypeInv, RegistryOK, BackendsOK, LocalsOK, Goto, CloseDone, Return
<1> USE DEF backends, embedded, history, gsLocals
<1>0. /\ call[p] \in Entry /\ ent[p] = call[p] /\ rel[p] = <<>>
      /\ pc[p] = "closeDone" => pg[call[p]] = "open"
  BY RunningCall
  DEF FramesOK, Frame, FrameOK, Making, EndPc, LifeInv, Creations, Creation, DialerInv,
      RelOK
<1>1. rel' = rel BY <1>0
<1>2. ASSUME NEW e \in Entry PROVE Owned(e)'
  <2>1. KindOf(e)' = KindOf(e) /\ ext'[e] = ext[e] BY DEF KindOf
  <2>2. InRelease(e) => InRelease(e)' BY <1>1 DEF InRelease
  <2>3. OnList(e) => OnList(e)'
    <3>1. \A u \in Threads : pc[u] = "take" => pc'[u] = pc[u] /\ ent'[u] = ent[u]
      OBVIOUS
    <3>2. CASE e = call[p]
      <4>1. e \in Elems(res[e]) => pg[e] = "open" BY <1>0, <3>2 DEF Emptied, EmptiedPc
      <4> QED BY <4>1 DEF OnList
    <3>3. CASE e # call[p] BY <1>0, <3>1, <3>3 DEF OnList
    <3> QED BY <3>2, <3>3
  <2> QED BY <2>1, <2>2, <2>3 DEF AllOwned, Owned
<1>3. Emptied' BY DEF Emptied, EmptiedPc
<1> QED BY <1>2, <1>3 DEF AllOwned

\* Whoever closes a pool takes its list next.
LEMMA OwnerClosed ==
  ASSUME TypeInv, OwnerInv, NEW t \in Threads, ClosePool(t)
  PROVE  OwnerInv'
<1> USE DEF OwnerInv, TypeInv, RegistryOK, BackendsOK, LocalsOK, Goto, ClosePool
<1> USE DEF registry, embedded, history, locals, gsLocals
<1>1. ASSUME NEW e \in Entry PROVE Owned(e)'
  <2>1. KindOf(e)' = KindOf(e) /\ ext'[e] = ext[e] BY DEF KindOf
  <2>2. InRelease(e) => InRelease(e)' BY DEF InRelease
  <2>3. OnList(e) => OnList(e)'
    <3>1. pc'[t] = "take" /\ \A u \in Threads : pc[u] = "take" => pc'[u] = "take" OBVIOUS
    <3>2. pg[e] = "open" => pg'[e] = "open" \/ ent[t] = e OBVIOUS
    <3> QED BY <3>1, <3>2 DEF OnList
  <2> QED BY <2>1, <2>2, <2>3 DEF AllOwned, Owned
<1>2. Emptied' BY DEF Emptied, EmptiedPc
<1> QED BY <1>1, <1>2 DEF AllOwned

\* A call that arrives has no dialer yet.
LEMMA OwnerArrive ==
  ASSUME TypeInv, DialerInv, OwnerInv, NEW p \in Procs, NEW k \in Keys,
         NEW l \in {"lookup", "closeRemove"}, Arrive(p, k, l)
  PROVE  OwnerInv'
<1> USE DEF OwnerInv, TypeInv, RegistryOK, BackendsOK, LocalsOK, CallsOK, Goto, Arrive
<1> USE DEF registry, backends, embedded, gsLocals
<1>0. calls + 1 \in Entry /\ calls \in Nat /\ calls + 1 > calls
  BY PoolRegistryAssumption DEF PoolRegistryAssumption, Ref, Entry
<1>1. ext[calls + 1] = "none" BY <1>0 DEF DialerInv, FutureKeyless
<1>2. ASSUME NEW e \in Entry PROVE Owned(e)'
  <2>1. CASE e = calls + 1 BY <1>1, <2>1 DEF Owned
  <2>2. CASE e # calls + 1
    <3>1. KindOf(e)' = KindOf(e) BY <2>2 DEF KindOf
    <3>2. InRelease(e) => InRelease(e)' BY DEF InRelease
    <3>3. \A u \in Threads : pc[u] = "take" => pc'[u] = "take" OBVIOUS
    <3>4. OnList(e) => OnList(e)' BY <3>3 DEF OnList
    <3> QED BY <3>1, <3>2, <3>4 DEF AllOwned, Owned
  <2> QED BY <2>1, <2>2
<1>3. Emptied' BY DEF Emptied, EmptiedPc
<1> QED BY <1>2, <1>3 DEF AllOwned

\* A call moves no goroutine but its own.
LEMMA WorkMoves ==
  ASSUME TypeInv, NEW t \in Threads, (t \in Procs /\ Work(t)) \/ Draining(t)
  PROVE  OnlyMoves(t)
<1> USE DEF OnlyMoves, locals, TypeInv, LocalsOK, Goto
<1>1. CASE Opening(t) /\ t \in Procs
  BY <1>1 DEF Opening, Lookup, FastRead, FastWait, Slow, SlowWait, Replace, CreateEntry,
     Return
<1>2. CASE Provisioning(t) /\ t \in Procs
  BY <1>2
  DEF Provisioning, ProvisionFails, ProvisionPlain, NewDialer, StartContainer, TcLookup,
      TcAttach, StartServer, Register, StopOld, NewPool, NewPoolFails, UndoTake, UndoStop,
      StopHeld
<1>3. CASE Ending(t) /\ t \in Procs
  BY <1>3
  DEF Ending, Store, CloseDone, Fail, FailReleaseOne, FailReleased, RemoveFailed, Return,
      TakeResources, ReleaseOne
<1>4. CASE Draining(t)
  BY <1>4
  DEF Draining, Drain, ClosePool, Take, DrainReleaseOne, Released, Return, TakeResources,
      ReleaseOne
<1>5. CASE Closing(t) /\ t \in Procs
  BY <1>5 DEF Closing, CloseRemove, CloseInst, CloseStop, Return
<1>6. CASE Migrate(t) /\ t \in Procs BY <1>6 DEF Migrate
<1> QED BY <1>1, <1>2, <1>3, <1>4, <1>5, <1>6 DEF Work

\* A return with an empty list changes no list.
LEMMA ReturnLists ==
  ASSUME TypeInv, NEW p \in Procs, NEW g, Return(p, g), rel[p] = <<>>
  PROVE  rel' = rel /\ pc'[p] \in {"idle", "migrate"}
BY GSFacts DEF Return, Goto, TypeInv, LocalsOK

\* The steps of resolvePool and of a close around the drain.
LEMMA OwnerAround ==
  ASSUME TypeInv, DialerInv, OwnerInv, NEW p \in Procs, Opening(p) \/ Closing(p)
  PROVE  OwnerInv'
<1> USE DEF registry, backends, embedded, history, locals, gsLocals
<1>0. pc[p] \in OpenPc \cup {"closeRemove", "closeInst", "stopInst"}
  BY DEF Opening, Lookup, FastRead, FastWait, Slow, SlowWait, Replace, Closing,
     CloseRemove, CloseInst, CloseStop, OpenPc
<1>1. rel[p] = <<>> BY <1>0, GSFacts DEF DialerInv, RelOK, OpenPc
<1>2. rel' = rel /\ pc'[p] \notin EmptiedPc
  <2>1. CASE \E g : Return(p, g) BY <1>1, <2>1, ReturnLists DEF EmptiedPc
  <2>2. CASE ~\E g : Return(p, g)
    BY <2>2, GSFacts
    DEF Opening, Lookup, FastRead, FastWait, Slow, SlowWait, Replace, CreateEntry,
        Closing, CloseRemove, CloseInst, CloseStop, Goto, TypeInv, LocalsOK, EmptiedPc
  <2> QED BY <2>1, <2>2
<1>3. /\ UNCHANGED <<res, done, keyOf, pg>>
      /\ ext' = ext \/ \E x : ext' = [ext EXCEPT ![x] = "released"]
  BY DEF Opening, Lookup, FastRead, FastWait, Slow, SlowWait, Replace, CreateEntry,
     Closing, CloseRemove, CloseInst, CloseStop
<1>4. NoDialerChanges BY <1>3 DEF NoDialerChanges, TypeInv, BackendsOK
<1>5. OnlyMoves(p) BY WorkMoves, GSFacts DEF Work
<1> QED BY <1>0, <1>2, <1>3, <1>4, <1>5, OwnerWalk, GSFacts DEF OpenPc

\* The creation of a pool.
LEMMA OwnerProvisioning ==
  ASSUME TypeInv, LifeInv, OwnerInv, NEW p \in Procs, Provisioning(p)
  PROVE  OwnerInv'
<1> USE DEF registry, backends, embedded, history, locals, gsLocals
<1>1. CASE NewDialer(p) BY <1>1, OwnerNew
<1>2. CASE TcAttach(p) BY <1>2, OwnerAttach
<1>3. CASE ~NewDialer(p) /\ ~TcAttach(p)
  <2>1. /\ pc[p] \in MakePc
        /\ UNCHANGED <<res, rel, done, keyOf>>
    BY <1>3
    DEF Provisioning, ProvisionFails, ProvisionPlain, StartContainer, TcLookup,
        StartServer, Register, StopOld, NewPool, NewPoolFails, UndoTake, UndoStop,
        StopHeld, MakePc
  <2>2. pc'[p] \notin EmptiedPc
    BY <1>3, GSFacts
    DEF Provisioning, ProvisionFails, ProvisionPlain, StartContainer, TcLookup,
        StartServer, Register, StopOld, NewPool, NewPoolFails, UndoTake, UndoStop,
        StopHeld, EmptiedPc, Goto, TypeInv, LocalsOK
  <2>3. KindOf(call[p]) = Kind[Key(p)]
    BY <2>1, RunningCall DEF KindOf, Key, MakePc
  <2>4. /\ \/ ext' = ext
           \/ \E x : ext' = [ext EXCEPT ![x] = "released"]
           \/ ext' = [ext EXCEPT ![call[p]] = "live"] /\ KindOf(call[p]) # "cloudsql"
        /\ pg' = pg \/ pg' = [pg EXCEPT ![call[p]] = "open"]
    BY <1>3, <2>3
    DEF Provisioning, ProvisionFails, ProvisionPlain, StartContainer, TcLookup,
        StartServer, Register, StopOld, NewPool, NewPoolFails, UndoTake, UndoStop,
        StopHeld
  <2>5. NoDialerChanges BY <2>4 DEF NoDialerChanges, TypeInv, BackendsOK
  <2>6. OnlyMoves(p) BY WorkMoves, GSFacts DEF Work
  <2> QED BY <2>1, <2>2, <2>5, <2>6, OwnerWalk, GSFacts DEF MakePc
<1> QED BY <1>1, <1>2, <1>3

\* The end of the creation.
LEMMA OwnerEnding ==
  ASSUME TypeInv, LifeInv, DialerInv, OwnerInv, NEW p \in Procs, Ending(p)
  PROVE  OwnerInv'
<1> USE DEF registry, backends, embedded, history, locals, gsLocals
<1>1. CASE CloseDone(p) BY <1>1, OwnerSettle
<1>2. CASE Fail(p) BY <1>2, OwnerTake, GSFacts DEF Fail
<1>3. CASE FailReleaseOne(p) BY <1>3, OwnerRelease, GSFacts DEF FailReleaseOne
<1>4. CASE Store(p) \/ FailReleased(p) \/ RemoveFailed(p)
  <2>1. /\ UNCHANGED <<res, rel, done, keyOf, ext, pg, call>> /\ pc[p] # "take"
        /\ pc'[p] \in EmptiedPc => pc[p] \in EmptiedPc
    BY <1>4, GSFacts
    DEF Store, FailReleased, RemoveFailed, Goto, TypeInv, LocalsOK, EmptiedPc
  <2>2. NoDialerChanges BY <2>1 DEF NoDialerChanges
  <2>3. OnlyMoves(p) BY WorkMoves, GSFacts DEF Work
  <2> QED BY <2>1, <2>2, <2>3, OwnerWalk, GSFacts
<1> QED BY <1>1, <1>2, <1>3, <1>4 DEF Ending

\* The drain of an entry.
LEMMA OwnerDraining ==
  ASSUME TypeInv, DialerInv, OwnerInv, NEW t \in Threads, Draining(t)
  PROVE  OwnerInv'
<1> USE DEF registry, backends, embedded, history, locals, gsLocals
<1>1. CASE ClosePool(t) BY <1>1, OwnerClosed
<1>2. CASE Take(t) BY <1>2, OwnerTake DEF Take
<1>3. CASE DrainReleaseOne(t) BY <1>3, OwnerRelease DEF DrainReleaseOne
<1>4. CASE Drain(t) \/ Released(t)
  <2>1. UNCHANGED <<res, done, keyOf, ext, pg>> /\ pc[t] # "take"
    BY <1>4 DEF Drain, Released
  <2>2. rel' = rel /\ pc'[t] \notin EmptiedPc
    <3>1. CASE Drain(t) BY <3>1 DEF Drain, Goto, TypeInv, LocalsOK, EmptiedPc
    <3>2. CASE Released(t) /\ t = GS
      BY <3>2, GSFacts DEF Released, Goto, TypeInv, LocalsOK, EmptiedPc
    <3>3. CASE Released(t) /\ t \in Procs /\ inst[t] # None
      BY <3>3, GSFacts DEF Released, Goto, TypeInv, LocalsOK, EmptiedPc
    <3>4. CASE Released(t) /\ t \in Procs /\ inst[t] = None
      <4>1. Return(t, None) /\ rel[t] = <<>> BY <3>4, GSFacts DEF Released
      <4> QED BY <3>4, <4>1, ReturnLists DEF EmptiedPc
    <3> QED BY <1>4, <3>1, <3>2, <3>3, <3>4, GSFacts
  <2>3. NoDialerChanges BY <2>1 DEF NoDialerChanges
  <2>4. OnlyMoves(t) BY WorkMoves
  <2> QED BY <2>1, <2>2, <2>3, <2>4, OwnerWalk
<1> QED BY <1>1, <1>2, <1>3, <1>4 DEF Draining

\* The steps of gracefulShutdown outside the drain of an entry, and the signal.
LEMMA OwnerShutdown ==
  ASSUME TypeInv, OwnerInv,
         \/ Signal \/ GsSnapshot \/ GsNext \/ GsInstances \/ GsStop
         \/ GsStragglers \/ GsStop2
  PROVE  OwnerInv'
<1> USE DEF registry, backends, embedded, history, locals, gsLocals
<1> USE DEF GsInstances, GsStop, GsStragglers, GsStop2, SnapshotInstances, StopSnapshot,
            SnapshotStopped, Signal, GsSnapshot, GsNext
<1>1. /\ pc[GS] # "take" /\ UNCHANGED <<res, rel, done, keyOf, pg>>
      /\ ext' = ext \/ \E x : ext' = [ext EXCEPT ![x] = "released"]
  OBVIOUS
<1>2. OnlyMoves(GS) BY DEF OnlyMoves, Goto, TypeInv, LocalsOK
<1>3. NoDialerChanges BY <1>1 DEF NoDialerChanges, TypeInv, BackendsOK
<1> QED BY <1>1, <1>2, <1>3, OwnerWalk, GSFacts

\* The end of a call's migrations.
LEMMA OwnerMigrate ==
  ASSUME TypeInv, OwnerInv, NEW p \in Procs, Migrate(p)
  PROVE  OwnerInv'
<1> USE DEF registry, backends, history, locals
<1>1. /\ pc[p] = "migrate" /\ pc'[p] = "idle"
      /\ UNCHANGED <<res, rel, done, keyOf, pg, ext>>
  BY GSFacts DEF Migrate, Goto, TypeInv, LocalsOK
<1>2. OnlyMoves(p) BY WorkMoves, GSFacts DEF Work
<1>3. NoDialerChanges BY <1>1 DEF NoDialerChanges
<1> QED BY <1>1, <1>2, <1>3, OwnerWalk, GSFacts DEF EmptiedPc

\* OwnerInv holds of every initial state,
LEMMA OwnerInit == Init => OwnerInv
<1> SUFFICES ASSUME Init PROVE OwnerInv OBVIOUS
<1>1. (\A e \in Entry : ext[e] = "none") /\ \A p \in Procs : pc[p] \notin EmptiedPc
  BY GSFacts DEF Init, EmptiedPc
<1> QED BY <1>1 DEF OwnerInv, AllOwned, Owned, Emptied

\* and every step keeps it.
LEMMA OwnerNext == TypeInv /\ LifeInv /\ DialerInv /\ OwnerInv /\ [Next]_vars => OwnerInv'
<1> SUFFICES ASSUME TypeInv, LifeInv, DialerInv, OwnerInv, [Next]_vars PROVE OwnerInv'
  OBVIOUS
<1>1. ASSUME NEW p \in Procs, NEW k \in Keys, OpenCall(p, k) \/ CloseCall(p, k)
      PROVE  OwnerInv'
  BY <1>1, OwnerArrive DEF OpenCall, CloseCall
<1>2. ASSUME NEW p \in Procs, Work(p) PROVE OwnerInv'
  BY <1>2, OwnerAround, OwnerMigrate, OwnerProvisioning, OwnerEnding, OwnerDraining, GSFacts
  DEF Work
<1>3. CASE Signal \/ Shutdown
  BY <1>3, OwnerShutdown, OwnerDraining, GSFacts DEF Shutdown
<1>4. CASE UNCHANGED vars
  <2>1. UNCHANGED <<res, rel, done, keyOf, pg, ext, pc, ent, call>>
    BY <1>4 DEF vars, registry, backends, history, locals
  <2>2. \A e \in Entry : Owned(e)' <=> Owned(e)
    BY <2>1 DEF Owned, OnList, InRelease, KindOf
  <2>3. Emptied' <=> Emptied BY <2>1 DEF Emptied
  <2> QED BY <2>2, <2>3 DEF OwnerInv, AllOwned
<1> QED BY <1>1, <1>2, <1>3, <1>4 DEF Next, Quiet

\* OwnerInv is an invariant.
LEMMA OwnerInvariance == Spec => []OwnerInv
BY TypeInvariance, LifeInvariance, DialerInvariance, OwnerInit, OwnerNext, PTL DEF Spec

\* When a Cloud SQL generation is over, its pool closed or its creation failed, and
\* nobody is working on its resources any more, its dialer has been released.
THEOREM DialerReleasedHolds == Spec => []DialerReleased
<1>1. TypeInv /\ OwnerInv => DialerReleased
  <2> SUFFICES ASSUME TypeInv, OwnerInv, NEW e \in done, KindOf(e) = "cloudsql",
                      pg[e] # "open", \A t \in Threads : ~Attending(t, e),
                      ext[e] = "live"
               PROVE  FALSE
    BY DEF DialerReleased, OverMeansReleased
  <2>1. e \in Entry BY DEF TypeInv, RegistryOK
  <2>2. ~InRelease(e) BY DEF InRelease, Elems, Attending
  <2>3. ~OnList(e) BY DEF OnList, Attending
  <2> QED BY <2>1, <2>2, <2>3 DEF OwnerInv, AllOwned, Owned
<1> QED BY <1>1, TypeInvariance, OwnerInvariance, PTL

(***************************************************************************)
(* Opens beside opens.  Until a creation fails, a close finds a pool or    *)
(* the signal arrives, every entry that was created is the one under its   *)
(* key, so there is one for each key and a container finds its own.        *)
(***************************************************************************)
\* Something other than opens has happened; it cannot be undone.
Disturbed ==
    \/ shuttingDown
    \/ \E p \in Procs : pc[p] \in {"undoTake", "undoStop"} \cup FailPc \/ Drainer(p)
    \/ \E e \in done : pg[e] # "open"

ListedMaking == \A p \in Procs : pc[p] \in Making => entries[Key(p)] = call[p]
ListedDone   == \A e \in done : keyOf[e] \in Keys /\ entries[keyOf[e]] = e
NoReplace    == \A p \in Procs : pc[p] # "replace"

OpenMade ==
    \A e \in Entry : pg[e] = "open" =>
        \/ e \in done
        \/ \E p \in Procs : pc[p] \in {"store", "closeDone"} /\ call[p] = e

\* The list of p's entry, before and after its container is attached.
Attached(p) ==
    /\ pc[p] \in OpenPc \cup {"provision", "tcLookup", "tcAttach"} => res[call[p]] = <<>>
    /\ pc[p] = "tcAttach" => tgt[p] = call[p]
    /\ pc[p] \in {"newPool", "store", "closeDone"} /\ KindOf(call[p]) = "testcontainer"
         => res[call[p]] = <<call[p]>>

AttachedDone == \A e \in done : KindOf(e) = "testcontainer" => res[e] = <<e>>
FutureEmpty  == \A e \in Entry : e > calls => res[e] = <<>>

Calm ==
    /\ ListedMaking /\ ListedDone /\ NoReplace /\ OpenMade
    /\ (\A p \in Procs : Attached(p)) /\ AttachedDone /\ FutureEmpty

CalmInv == Disturbed \/ Calm

\* The steps of gracefulShutdown move no other goroutine.
LEMMA ShutdownMoves ==
  ASSUME TypeInv, Signal \/ Shutdown
  PROVE  OnlyMoves(GS)
<1>1. CASE Draining(GS) BY <1>1, WorkMoves, GSFacts
<1>2. CASE ~Draining(GS)
  BY <1>2
  DEF OnlyMoves, Signal, Shutdown, GsSnapshot, GsNext, GsInstances, GsStop, GsStragglers,
      GsStop2, SnapshotInstances, StopSnapshot, SnapshotStopped, Goto, TypeInv, LocalsOK,
      locals
<1> QED BY <1>1, <1>2

\* A settled creation stays settled, and its pool is not opened again.
LEMMA OverStays ==
  ASSUME TypeInv, LifeInv, [Next]_vars, NEW e \in done
  PROVE  e \in done' /\ (pg'[e] = "open" => pg[e] = "open")
<1> USE DEF registry, backends, embedded, history, locals, gsLocals
<1> USE DEF TypeInv, BackendsOK, RegistryOK
<1>1. ASSUME NEW p \in Procs, NEW k \in Keys, OpenCall(p, k) \/ CloseCall(p, k)
      PROVE  UNCHANGED <<done, pg>>
  BY <1>1 DEF OpenCall, CloseCall, Arrive
<1>2. ASSUME NEW p \in Procs, Work(p), ~Draining(p), ~CloseDone(p), ~NewPool(p)
      PROVE  UNCHANGED <<done, pg>>
  <2>1. CASE Opening(p)
    BY <2>1
    DEF Opening, Lookup, FastRead, FastWait, Slow, SlowWait, Replace, CreateEntry
  <2>2. CASE Provisioning(p)
    BY <1>2, <2>2
    DEF Provisioning, ProvisionFails, ProvisionPlain, NewDialer, StartContainer, TcLookup,
        TcAttach, StartServer, Register, StopOld, NewPoolFails, UndoTake, UndoStop,
        StopHeld
  <2>3. CASE Ending(p)
    BY <1>2, <2>3
    DEF Ending, Store, Fail, FailReleaseOne, FailReleased, RemoveFailed, TakeResources,
        ReleaseOne
  <2>4. CASE Closing(p)
    BY <2>4 DEF Closing, CloseRemove, CloseInst, CloseStop
  <2>5. CASE Migrate(p) BY <2>5 DEF Migrate
  <2> QED BY <1>2, <2>1, <2>2, <2>3, <2>4, <2>5 DEF Work
<1>3. ASSUME NEW t \in Threads, Draining(t)
      PROVE  done' = done /\ (pg'[e] = "open" => pg[e] = "open")
  BY <1>3
  DEF Draining, Drain, ClosePool, Take, DrainReleaseOne, Released, TakeResources,
      ReleaseOne
<1>4. ASSUME NEW p \in Procs, CloseDone(p)
      PROVE  done \subseteq done' /\ pg' = pg
  BY <1>4 DEF CloseDone
<1>5. ASSUME NEW p \in Procs, NewPool(p)
      PROVE  done' = done /\ pg'[e] = pg[e]
  <2>1. call[p] \notin done BY <1>5 DEF NewPool, LifeInv, Creations, Creation, Making, MakePc
  <2> QED BY <1>5, <2>1 DEF NewPool
<1>6. CASE Signal \/ (Shutdown /\ ~Draining(GS)) \/ UNCHANGED vars
  BY <1>6
  DEF Signal, Shutdown, GsSnapshot, GsNext, GsInstances, GsStop, GsStragglers, GsStop2,
      SnapshotInstances, StopSnapshot, SnapshotStopped, vars
<1>7. ASSUME NEW p \in Procs, Work(p)
      PROVE  e \in done' /\ (pg'[e] = "open" => pg[e] = "open")
  BY <1>2, <1>3, <1>4, <1>5, <1>7, GSFacts
<1> QED BY <1>1, <1>3, <1>6, <1>7, GSFacts DEF Next, Quiet

\* A creation that fails goes on to fail until it has settled without a pool,
LEMMA FailureStays ==
  ASSUME TypeInv, LifeInv, NEW p \in Procs, pc[p] \in {"undoTake", "undoStop"} \cup FailPc,
         Work(p)
  PROVE  Disturbed'
<1> USE DEF registry, backends, embedded, history, locals, gsLocals
<1>1. CASE CloseDone(p)
  <2>1. /\ call[p] \in Entry /\ ent[p] = call[p] /\ pg[call[p]] = "none"
        /\ pc[p] = "closeDoneErr"
    BY <1>1, RunningCall
    DEF CloseDone, TypeInv, FramesOK, Frame, FrameOK, Making, EndPc, FailPc, LifeInv,
        Creations, Creation
  <2>2. call[p] \in done' /\ pg'[call[p]] # "open" BY <1>1, <2>1 DEF CloseDone
  <2> QED BY <2>2 DEF Disturbed
<1>2. CASE ~CloseDone(p)
  <2>1. ~Opening(p) /\ ~Migrate(p) /\ ~Draining(p) /\ ~Closing(p)
    BY DEF Opening, Migrate, Lookup, FastRead, FastWait, Slow, SlowWait, Replace, Draining, Drain,
       ClosePool, Take, DrainReleaseOne, Released, TakeResources, ReleaseOne, Closing,
       CloseRemove, CloseInst, CloseStop, FailPc
  <2>2. CASE Provisioning(p)
    <3>1. UndoTake(p) \/ UndoStop(p)
      BY <2>2
      DEF Provisioning, ProvisionFails, ProvisionPlain, NewDialer, StartContainer,
          TcLookup, TcAttach, StartServer, Register, StopOld, NewPool, NewPoolFails,
          FailPc
    <3>2. pc'[p] \in {"undoStop", "fail"}
      BY <3>1, GSFacts DEF UndoTake, UndoStop, StopHeld, Goto, TypeInv, LocalsOK
    <3> QED BY <3>2 DEF Disturbed, FailPc
  <2>3. CASE Ending(p)
    <3>1. Fail(p) \/ FailReleaseOne(p) \/ FailReleased(p) \/ RemoveFailed(p)
      BY <1>2, <2>3 DEF Ending, Store, FailPc
    <3>2. pc'[p] \in FailPc
      BY <3>1, GSFacts
      DEF Fail, FailReleaseOne, FailReleased, RemoveFailed, TakeResources, ReleaseOne,
          Goto, TypeInv, LocalsOK, FailPc
    <3> QED BY <3>2 DEF Disturbed
  <2> QED BY <2>1, <2>2, <2>3 DEF Work
<1> QED BY <1>1, <1>2

\* and a close that took an entry goes on until its pool is closed.
LEMMA DrainStays ==
  ASSUME TypeInv, LifeInv, NEW p \in Procs, Drainer(p), Work(p)
  PROVE  Disturbed'
<1> USE DEF registry, backends, embedded, history, locals, gsLocals
<1>1. CASE Released(p)
  <2>1. ent[p] \in done /\ pg[ent[p]] # "open" /\ UNCHANGED <<done, pg>>
    BY <1>1, GSFacts DEF Released, LifeInv, Drains, Draining1
  <2> QED BY <2>1 DEF Disturbed
<1>2. CASE ~Released(p)
  <2>1. /\ ~Opening(p) /\ ~Migrate(p) /\ ~Provisioning(p) /\ ~Ending(p)
        /\ ~CloseRemove(p) /\ ~CloseStop(p)
    BY DEF Opening, Lookup, FastRead, FastWait, Slow, SlowWait, Replace, Migrate, Provisioning,
       ProvisionFails, ProvisionPlain, NewDialer, StartContainer, TcLookup, TcAttach,
       StartServer, Register, StopOld, NewPool, NewPoolFails, UndoTake, UndoStop, Ending,
       Store, CloseDone, Fail, FailReleaseOne, FailReleased, RemoveFailed, TakeResources,
       ReleaseOne, CloseRemove, CloseStop, Drainer, DrainPc
  <2>2. CASE CloseInst(p)
    <3>1. ent[p] # None BY DEF Drainer
    <3>2. Goto(p, "drain") /\ ent' = ent BY <2>2, <3>1 DEF CloseInst
    <3>3. Drainer(p)' BY <3>1, <3>2, GSFacts DEF Goto, Drainer, DrainPc, TypeInv, LocalsOK
    <3> QED BY <3>3 DEF Disturbed
  <2>3. CASE Draining(p)
    <3>1. pc'[p] \in DrainPc /\ ent' = ent
      BY <1>2, <2>3, GSFacts
      DEF Draining, Drain, ClosePool, Take, DrainReleaseOne, TakeResources, ReleaseOne,
          Goto, TypeInv, LocalsOK, DrainPc
    <3>2. Drainer(p)' BY <3>1 DEF Drainer
    <3> QED BY <3>2 DEF Disturbed
  <2> QED BY <2>1, <2>2, <2>3 DEF Work, Closing
<1> QED BY <1>1, <1>2

\* A disturbance stays.
LEMMA DisturbedStays ==
  ASSUME TypeInv, LifeInv, Disturbed, [Next]_vars
  PROVE  Disturbed'
<1> USE DEF registry, backends, embedded, history, locals, gsLocals
<1>1. CASE shuttingDown
  <2>1. ASSUME NEW p \in Procs,
               Work(p) \/ \E k \in Keys : OpenCall(p, k) \/ CloseCall(p, k)
        PROVE  UNCHANGED shuttingDown
    BY <2>1, OthersRegister
  <2>2. CASE Draining(GS)
    BY <1>1, <2>2
    DEF Draining, Drain, ClosePool, Take, DrainReleaseOne, Released, TakeResources,
        ReleaseOne, Disturbed
  <2>3. CASE Signal \/ (Shutdown /\ ~Draining(GS)) \/ UNCHANGED vars
    BY <1>1, <2>3
    DEF Signal, Shutdown, GsSnapshot, GsNext, GsInstances, GsStop, GsStragglers, GsStop2,
        SnapshotInstances, StopSnapshot, SnapshotStopped, vars, Disturbed
  <2> QED BY <1>1, <2>1, <2>2, <2>3 DEF Next, Quiet, Disturbed
<1>2. ASSUME NEW p \in Procs, pc[p] \in {"undoTake", "undoStop"} \cup FailPc \/ Drainer(p)
      PROVE  Disturbed'
  <2>1. CASE Work(p) BY <1>2, <2>1, FailureStays, DrainStays
  <2>2. CASE ~Work(p)
    <3>1. pc'[p] = pc[p] /\ ent'[p] = ent[p]
      <4>1. ASSUME NEW q \in Procs, NEW k \in Keys, OpenCall(q, k) \/ CloseCall(q, k)
            PROVE  pc'[p] = pc[p] /\ ent'[p] = ent[p]
        <5>1. q # p BY <1>2, <4>1 DEF OpenCall, CloseCall, Arrive, FailPc, Drainer, DrainPc
        <5> QED BY <4>1, <5>1, GSFacts DEF OpenCall, CloseCall, Arrive, Goto, TypeInv, LocalsOK
      <4>2. ASSUME NEW q \in Procs, Work(q), q # p
            PROVE  pc'[p] = pc[p] /\ ent'[p] = ent[p]
        BY <4>2, WorkMoves, GSFacts DEF OnlyMoves
      <4>3. CASE Signal \/ Shutdown
        BY <4>3, ShutdownMoves, GSFacts DEF OnlyMoves
      <4>4. CASE UNCHANGED vars BY <4>4 DEF vars
      <4> QED BY <2>2, <4>1, <4>2, <4>3, <4>4 DEF Next, Quiet
    <3>2. Drainer(p) => Drainer(p)' BY <3>1 DEF Drainer
    <3> QED BY <1>2, <3>1, <3>2 DEF Disturbed
  <2> QED BY <2>1, <2>2
<1>3. ASSUME NEW e \in done, pg[e] # "open" PROVE Disturbed'
  BY <1>3, OverStays DEF Disturbed
<1> QED BY <1>1, <1>2, <1>3 DEF Disturbed

\* Goroutine t alone moves, and what it looked up is its own.
MovesAlone(t) == OnlyMoves(t) /\ \A u \in Threads : u # t => tgt'[u] = tgt[u]

\* A step keeps Calm if it changes no table, and leaves and enters no creation.
LEMMA CalmWalk ==
  ASSUME Calm, NEW t \in Threads, MovesAlone(t),
         t \in Procs =>
           /\ pc'[t] \in Making => pc[t] \in Making /\ call'[t] = call[t]
           /\ pc[t] \in {"store", "closeDone"} =>
                 pc'[t] \in {"store", "closeDone"} /\ call'[t] = call[t]
           /\ pc'[t] # "replace"
           /\ Attached(t)',
         UNCHANGED <<entries, done, res, pg, keyOf, calls>>
  PROVE  Calm'
<1> USE DEF Calm, MovesAlone, OnlyMoves
<1>1. ListedMaking' BY GSFacts DEF ListedMaking, Key
<1>2. ListedDone' BY DEF ListedDone
<1>3. NoReplace' BY GSFacts DEF NoReplace
<1>4. OpenMade' BY GSFacts DEF OpenMade
<1>5. ASSUME NEW q \in Procs PROVE Attached(q)'
  <2>1. CASE q = t BY <2>1
  <2>2. CASE q # t
    <3>1. pc'[q] = pc[q] /\ call'[q] = call[q] /\ tgt'[q] = tgt[q] BY <2>2, GSFacts
    <3>2. KindOf(call[q])' = KindOf(call[q]) BY <3>1 DEF KindOf
    <3> QED BY <3>1, <3>2 DEF Attached
  <2> QED BY <2>1, <2>2
<1>6. AttachedDone' BY DEF AttachedDone, KindOf
<1>7. FutureEmpty' BY DEF FutureEmpty
<1> QED BY <1>1, <1>2, <1>3, <1>4, <1>5, <1>6, <1>7

\* An entry is created when there is none under its key.
LEMMA CalmCreate ==
  ASSUME TypeInv, LifeInv, Calm, NEW p \in Procs, pc[p] = "slow",
         entries[Key(p)] = None, CreateEntry(p)
  PROVE  Calm'
<1> USE DEF Calm, CreateEntry, TypeInv, RegistryOK, LocalsOK, Goto
<1> USE DEF backends, embedded, history, gsLocals
<1>0. call[p] \in Entry /\ Key(p) \in Keys /\ p \in Threads BY RunningCall
<1>1. ListedMaking'
  <2> SUFFICES ASSUME NEW q \in Procs, pc'[q] \in Making
               PROVE  entries'[Key(q)] = call[q]
    BY DEF ListedMaking, Key
  <2>1. CASE q = p BY <1>0, <2>1
  <2>2. CASE q # p
    <3>1. pc[q] \in Making BY <2>2, GSFacts
    <3>2. entries[Key(q)] = call[q] /\ call[q] \in Entry /\ Key(q) \in Keys
      BY <3>1, RunningCall DEF ListedMaking, Making, MakePc, EndPc
    <3> QED BY <3>2
  <2> QED BY <2>1, <2>2
<1>2. ListedDone' BY <1>0 DEF ListedDone
<1>3. NoReplace' BY <1>0 DEF NoReplace
<1>4. OpenMade' BY <1>0 DEF OpenMade
<1>5. ASSUME NEW q \in Procs PROVE Attached(q)'
  <2>1. CASE q = p BY <1>0, <2>1 DEF Attached, OpenPc
  <2>2. CASE q # p
    <3>1. pc'[q] = pc[q] BY <2>2, GSFacts
    <3>2. KindOf(call[q])' = KindOf(call[q]) BY DEF KindOf
    <3> QED BY <3>1, <3>2 DEF Attached
  <2> QED BY <2>1, <2>2
<1>6. AttachedDone' BY DEF AttachedDone, KindOf
<1>7. FutureEmpty' BY DEF FutureEmpty
<1> QED BY <1>1, <1>2, <1>3, <1>4, <1>5, <1>6, <1>7

\* The waiter for a settled creation finds its pool.
LEMMA WaiterFinds ==
  ASSUME TypeInv, LifeInv, ShutdownInv, ~Disturbed, NEW e \in done
  PROVE  e \in cached
<1>1. SUFFICES ASSUME e \notin cached PROVE FALSE OBVIOUS
<1>2. pg[e] = "open" BY DEF Disturbed
<1>3. PICK t \in Threads : pc[t] = "closePool" /\ ent[t] = e
  BY <1>1, <1>2 DEF LifeInv, RetiredHeld
<1>4. e # None BY DEF TypeInv, RegistryOK
<1>5. CASE t \in Procs BY <1>3, <1>4, <1>5 DEF Disturbed, Drainer, DrainPc
<1>6. CASE t = GS BY <1>3, <1>6 DEF Disturbed, ShutdownInv, Warned
<1> QED BY <1>5, <1>6, GSFacts

\* The steps of resolvePool before the creation.
LEMMA CalmOpening ==
  ASSUME TypeInv, LifeInv, ShutdownInv, Calm, ~Disturbed, NEW p \in Procs, Opening(p)
  PROVE  Calm'
<1> USE DEF registry, backends, embedded, history, locals, gsLocals
<1>1. CASE Slow(p) /\ entries[Key(p)] = None
  <2>1. None \notin cached BY DEF TypeInv, RegistryOK
  <2> QED BY <1>1, <2>1, CalmCreate DEF Slow
<1>2. CASE Replace(p) BY <1>2 DEF Replace, Calm, NoReplace
<1>3. CASE ~(Slow(p) /\ entries[Key(p)] = None) /\ ~Replace(p)
  <2>1. UNCHANGED <<entries, done, res, pg, keyOf, calls>> /\ pc[p] \in OpenPc
    BY <1>3 DEF Opening, Lookup, FastRead, FastWait, Slow, SlowWait, OpenPc
  <2>2. \/ (\E y \in OpenPc : Goto(p, y)) /\ UNCHANGED call
        \/ \E g : Return(p, g)
    BY <1>3 DEF Opening, Lookup, FastRead, FastWait, Slow, SlowWait, OpenPc
  <2>3. pc'[p] # "replace"
    <3>1. CASE SlowWait(p)
      <4>1. ent[p] \in cached BY <3>1, WaiterFinds DEF SlowWait
      <4> QED BY <3>1, <4>1, GSFacts DEF SlowWait, Return, Goto, TypeInv, LocalsOK
    <3>2. CASE ~SlowWait(p)
      BY <1>3, <3>2, GSFacts
      DEF Opening, Lookup, FastRead, FastWait, Slow, Return, Goto, TypeInv, LocalsOK
    <3> QED BY <3>1, <3>2
  <2>4. (pc'[p] \in OpenPc /\ call' = call) \/ pc'[p] \in {"idle", "migrate"}
    BY <2>2, GSFacts DEF Return, Goto, TypeInv, LocalsOK
  <2>5. Attached(p)'
    <3>1. pc[p] \in OpenPc => res[call[p]] = <<>> BY DEF Calm, Attached
    <3> QED BY <2>1, <2>4, <3>1 DEF Attached, OpenPc
  <2>6. OnlyMoves(p) BY WorkMoves, GSFacts DEF Work
  <2>7. \A u \in Threads : u # p => tgt'[u] = tgt[u]
    BY <1>3, GSFacts
    DEF Opening, Lookup, FastRead, FastWait, Slow, SlowWait, Return, TypeInv, LocalsOK
  <2> QED BY <2>1, <2>3, <2>4, <2>5, <2>6, <2>7, CalmWalk, GSFacts
          DEF OpenPc, Making, MakePc, EndPc, MovesAlone
<1> QED BY <1>1, <1>2, <1>3

\* A dialer goes on the list of a key without containers,
LEMMA CalmDialer ==
  ASSUME TypeInv, LifeInv, Calm, NEW p \in Procs, NewDialer(p)
  PROVE  Calm'
<1> USE DEF Calm, NewDialer, TypeInv, RegistryOK, LocalsOK, CallsOK, Goto
<1> USE DEF embedded, history, locals, gsLocals
<1>0. /\ call[p] \in Entry /\ ent[p] = call[p] /\ call[p] \notin done
      /\ KindOf(call[p]) = "cloudsql" /\ ~(call[p] > calls) /\ p \in Threads
  BY RunningCall, CallMade
  DEF FramesOK, Frame, FrameOK, LifeInv, Creations, Creation, Making, MakePc, KindOf, Key
<1>1. ListedMaking' BY DEF ListedMaking, Key, Making, MakePc
<1>2. ListedDone' BY DEF ListedDone
<1>3. NoReplace' BY DEF NoReplace
<1>4. OpenMade' BY DEF OpenMade
<1>5. ASSUME NEW q \in Procs PROVE Attached(q)'
  <2>1. CASE q = p
    <3>1. pc'[q] = "newPool" /\ KindOf(call[q])' # "testcontainer" BY <1>0, <2>1 DEF KindOf
    <3> QED BY <1>0, <2>1, <3>1 DEF Attached, OpenPc
  <2>2. CASE q # p
    <3>1. pc'[q] = pc[q] BY <2>2, GSFacts
    <3>2. KindOf(call[q])' = KindOf(call[q]) BY DEF KindOf
    <3>3. call[q] = None \/ call[q] # call[p] BY <1>0, <2>2 DEF LifeInv, UniqueCalls
    <3>4. pc[q] # "idle" => res'[call[q]] = res[call[q]] BY <1>0, <3>3, RunningCall
    <3> QED BY <3>1, <3>2, <3>4 DEF Attached, OpenPc
  <2> QED BY <2>1, <2>2
<1>6. AttachedDone'
  <2>1. \A e \in Entry : KindOf(e)' = KindOf(e) BY DEF KindOf
  <2> QED BY <1>0, <2>1 DEF AttachedDone
<1>7. FutureEmpty' BY <1>0 DEF FutureEmpty
<1> QED BY <1>1, <1>2, <1>3, <1>4, <1>5, <1>6, <1>7

\* and a container on the list of its own entry.
LEMMA CalmAttach ==
  ASSUME TypeInv, LifeInv, Calm, NEW p \in Procs, TcAttach(p)
  PROVE  Calm'
<1> USE DEF Calm, TcAttach, TypeInv, RegistryOK, LocalsOK, CallsOK, Goto
<1> USE DEF backends, embedded, history, locals, gsLocals
<1>0. /\ call[p] \in Entry /\ tgt[p] = call[p] /\ call[p] \notin done
      /\ res[call[p]] = <<>> /\ ~(call[p] > calls) /\ p \in Threads
  BY RunningCall, CallMade DEF LifeInv, Creations, Creation, Making, MakePc, Attached
<1>1. ListedMaking' BY DEF ListedMaking, Key, Making, MakePc
<1>2. ListedDone' BY DEF ListedDone
<1>3. NoReplace' BY DEF NoReplace
<1>4. OpenMade' BY DEF OpenMade
<1>5. ASSUME NEW q \in Procs PROVE Attached(q)'
  <2>1. CASE q = p
    <3>1. pc'[q] = "newPool" /\ res'[call[q]] = <<call[q]>> BY <1>0, <2>1
    <3> QED BY <2>1, <3>1 DEF Attached, OpenPc
  <2>2. CASE q # p
    <3>1. pc'[q] = pc[q] BY <2>2, GSFacts
    <3>2. KindOf(call[q])' = KindOf(call[q]) BY DEF KindOf
    <3>3. call[q] = None \/ call[q] # call[p] BY <1>0, <2>2 DEF LifeInv, UniqueCalls
    <3>4. pc[q] # "idle" => res'[call[q]] = res[call[q]] BY <1>0, <3>3, RunningCall
    <3> QED BY <3>1, <3>2, <3>4 DEF Attached, OpenPc
  <2> QED BY <2>1, <2>2
<1>6. AttachedDone'
  <2>1. \A e \in Entry : KindOf(e)' = KindOf(e) BY DEF KindOf
  <2> QED BY <1>0, <2>1 DEF AttachedDone
<1>7. FutureEmpty' BY <1>0 DEF FutureEmpty
<1> QED BY <1>1, <1>2, <1>3, <1>4, <1>5, <1>6, <1>7

\* A pool is opened by the creation of its entry.
LEMMA CalmPool ==
  ASSUME TypeInv, Calm, NEW p \in Procs, NewPool(p)
  PROVE  Calm'
<1> USE DEF Calm, NewPool, TypeInv, BackendsOK, LocalsOK, CallsOK, Goto
<1> USE DEF registry, embedded, history, locals, gsLocals
<1>0. call[p] \in Entry /\ p \in Threads BY RunningCall
<1>1. ListedMaking' BY DEF ListedMaking, Key, Making, MakePc
<1>2. ListedDone' BY DEF ListedDone
<1>3. NoReplace' BY DEF NoReplace
<1>4. OpenMade' BY <1>0 DEF OpenMade
<1>5. ASSUME NEW q \in Procs PROVE Attached(q)'
  <2>1. KindOf(call[q])' = KindOf(call[q]) BY DEF KindOf
  <2> QED BY <2>1 DEF Attached, OpenPc
<1>6. AttachedDone' BY DEF AttachedDone, KindOf
<1>7. FutureEmpty' BY DEF FutureEmpty
<1> QED BY <1>1, <1>2, <1>3, <1>4, <1>5, <1>6, <1>7

\* The other steps of the creation of a pool.
LEMMA CalmProvisioning ==
  ASSUME TypeInv, LifeInv, DialerInv, Calm, ~Disturbed, ~Disturbed', NEW p \in Procs,
         Provisioning(p)
  PROVE  Calm'
<1> USE DEF registry, backends, embedded, history, locals, gsLocals
<1>1. CASE NewDialer(p) BY <1>1, CalmDialer
<1>2. CASE TcAttach(p) BY <1>2, CalmAttach
<1>3. CASE NewPool(p) BY <1>3, CalmPool
<1>4. CASE ~NewDialer(p) /\ ~TcAttach(p) /\ ~NewPool(p)
  <2>0. /\ pc[p] \in MakePc /\ pc'[p] \in MakePc
        /\ UNCHANGED <<entries, done, res, pg, keyOf, calls, call>>
    <3>1. /\ pc[p] \in MakePc
          /\ UNCHANGED <<entries, done, res, pg, keyOf, calls, call>>
      BY <1>4
      DEF Provisioning, ProvisionFails, ProvisionPlain, StartContainer, TcLookup,
          StartServer, Register, StopOld, NewPoolFails, UndoTake, UndoStop, StopHeld,
          MakePc
    <3>2. pc'[p] \in MakePc \cup {"fail"}
      BY <1>4, GSFacts
      DEF Provisioning, ProvisionFails, ProvisionPlain, StartContainer, TcLookup,
          StartServer, Register, StopOld, NewPoolFails, UndoTake, UndoStop, StopHeld,
          MakePc, Goto, TypeInv, LocalsOK
    <3>3. pc'[p] # "fail" BY DEF Disturbed, FailPc
    <3> QED BY <3>1, <3>2, <3>3
  <2>1. entries[Key(p)] = call[p] /\ call[p] \in Entry /\ KindOf(call[p]) = Kind[Key(p)]
    BY <2>0, RunningCall DEF Calm, ListedMaking, Making, MakePc, KindOf, Key
  <2>2. Attached(p)'
    <3>0. KindOf(call[p])' = KindOf(call[p]) BY <2>0 DEF KindOf
    <3>1. CASE StartContainer(p)
      BY <2>0, <3>0, <3>1, GSFacts
      DEF StartContainer, Attached, Calm, OpenPc, Goto, TypeInv, LocalsOK
    <3>2. CASE TcLookup(p)
      <4>1. pc'[p] = "tcAttach" /\ tgt'[p] = call[p]
        BY <2>1, <3>2, GSFacts DEF TcLookup, Goto, TypeInv, LocalsOK
      <4>2. res[call[p]] = <<>> BY <3>2 DEF TcLookup, Calm, Attached
      <4> QED BY <2>0, <4>1, <4>2 DEF Attached, OpenPc
    <3>3. CASE ~StartContainer(p) /\ ~TcLookup(p)
      <4>1. pc'[p] \in {"register", "stopOld", "newPool", "undoTake", "undoStop"}
        BY <1>4, <2>0, <3>3, GSFacts
        DEF Provisioning, ProvisionFails, ProvisionPlain, StartServer, Register, StopOld,
            NewPoolFails, UndoTake, UndoStop, StopHeld, MakePc, Goto, TypeInv, LocalsOK
      <4>2. pc'[p] = "newPool" => KindOf(call[p]) # "testcontainer"
        <5>1. pc[p] \in {"register", "stopOld"} => Kind[Key(p)] = "embedded"
          BY DEF DialerInv, Acquisitions, Acquired
        <5> QED BY <1>4, <2>0, <2>1, <3>3, <5>1, GSFacts
            DEF Provisioning, ProvisionFails, ProvisionPlain, StartServer, Register,
                StopOld, NewPoolFails, UndoTake, UndoStop, StopHeld, Goto, TypeInv,
                LocalsOK
      <4> QED BY <2>0, <3>0, <4>1, <4>2 DEF Attached, OpenPc
    <3> QED BY <3>1, <3>2, <3>3
  <2>3. OnlyMoves(p) BY WorkMoves, GSFacts DEF Work
  <2>4. \A u \in Threads : u # p => tgt'[u] = tgt[u]
    BY <1>4, GSFacts
    DEF Provisioning, ProvisionFails, ProvisionPlain, StartContainer, TcLookup,
        StartServer, Register, StopOld, NewPoolFails, UndoTake, UndoStop, StopHeld,
        TypeInv, LocalsOK
  <2> QED BY <2>0, <2>2, <2>3, <2>4, CalmWalk, GSFacts DEF MakePc, Making, MovesAlone
<1> QED BY <1>1, <1>2, <1>3, <1>4

\* A creation settles with its entry under its key.
LEMMA CalmSettle ==
  ASSUME TypeInv, LifeInv, Calm, NEW p \in Procs, CloseDone(p), pc[p] = "closeDone"
  PROVE  Calm'
<1> USE DEF Calm, CloseDone, Return, TypeInv, RegistryOK, LocalsOK, CallsOK, Goto
<1> USE DEF backends, embedded, history, gsLocals
<1>0. /\ call[p] \in Entry /\ ent[p] = call[p] /\ Key(p) \in Keys
      /\ entries[Key(p)] = call[p] /\ p \in Threads
  BY RunningCall DEF FramesOK, Frame, FrameOK, Making, EndPc, ListedMaking
<1>1. ListedMaking'
  <2> SUFFICES ASSUME NEW q \in Procs, pc'[q] \in Making
               PROVE  entries[keyOf[call'[q]]] = call'[q]
    BY DEF ListedMaking, Key
  <2>1. q # p BY <1>0 DEF Making, MakePc, EndPc
  <2> QED BY <2>1, GSFacts DEF ListedMaking, Key
<1>2. ListedDone' BY <1>0 DEF ListedDone, Key
<1>3. NoReplace' BY DEF NoReplace
<1>4. OpenMade'
  <2> SUFFICES ASSUME NEW e \in Entry, pg[e] = "open", e \notin done'
               PROVE  \E q \in Procs : pc'[q] \in {"store", "closeDone"} /\ call'[q] = e
    BY DEF OpenMade
  <2>1. e # call[p] /\ e \notin done BY <1>0
  <2>2. PICK q \in Procs : pc[q] \in {"store", "closeDone"} /\ call[q] = e
    BY <2>1 DEF OpenMade
  <2> QED BY <2>1, <2>2, GSFacts
<1>5. ASSUME NEW q \in Procs PROVE Attached(q)'
  <2>1. CASE q = p
    <3>1. pc'[q] \in {"idle", "migrate"} BY <1>0, <2>1
    <3> QED BY <3>1 DEF Attached, OpenPc
  <2>2. CASE q # p
    <3>1. pc'[q] = pc[q] /\ call'[q] = call[q] /\ tgt'[q] = tgt[q] BY <2>2, GSFacts
    <3>2. KindOf(call[q])' = KindOf(call[q]) BY <3>1 DEF KindOf
    <3> QED BY <3>1, <3>2 DEF Attached
  <2> QED BY <2>1, <2>2
<1>6. AttachedDone'
  <2>1. \A e \in Entry : KindOf(e)' = KindOf(e) BY DEF KindOf
  <2>2. KindOf(call[p]) = "testcontainer" => res[call[p]] = <<call[p]>> BY DEF Attached
  <2> QED BY <1>0, <2>1, <2>2 DEF AttachedDone
<1>7. FutureEmpty' BY DEF FutureEmpty
<1> QED BY <1>1, <1>2, <1>3, <1>4, <1>5, <1>6, <1>7

\* A call that arrives creates nothing yet.
LEMMA CalmArrive ==
  ASSUME TypeInv, LifeInv, DialerInv, Calm, NEW p \in Procs, NEW k \in Keys,
         NEW l \in {"lookup", "closeRemove"}, Arrive(p, k, l)
  PROVE  Calm'
<1> USE DEF Calm, Arrive, TypeInv, RegistryOK, LocalsOK, CallsOK, Goto
<1> USE DEF registry, backends, embedded, gsLocals
<1>0. calls + 1 \in Entry /\ calls \in Nat /\ calls + 1 > calls /\ p \in Threads
  BY PoolRegistryAssumption, GSFacts DEF PoolRegistryAssumption, Ref, Entry
<1>1. \A q \in Procs : q # p => call[q] # calls + 1
  <2>1. ASSUME NEW q \in Procs PROVE call[q] # calls + 1
    <3>1. call[q] <= calls /\ call[q] \in Nat BY RefNat, GSFacts DEF LifeInv, CallsMade
    <3> QED BY <1>0, <3>1
  <2> QED BY <2>1
<1>2. calls + 1 \notin done
  <2>1. keyOf[calls + 1] = NoKey /\ NoKey \notin Keys
    BY <1>0, PoolRegistryAssumption DEF PoolRegistryAssumption, DialerInv, FutureKeyless
  <2> QED BY <2>1 DEF ListedDone
<1>3. \A e \in Entry : e # calls + 1 => keyOf'[e] = keyOf[e] /\ KindOf(e)' = KindOf(e)
  BY DEF KindOf
<1>4. ListedMaking'
  <2> SUFFICES ASSUME NEW q \in Procs, pc'[q] \in Making
               PROVE  entries[keyOf'[call'[q]]] = call'[q]
    BY DEF ListedMaking, Key
  <2>1. q # p BY <1>0 DEF Making, MakePc, EndPc
  <2>2. pc[q] \in Making /\ call'[q] = call[q] BY <2>1, GSFacts
  <2>3. call[q] \in Entry BY <2>2, RunningCall DEF Making, MakePc, EndPc
  <2> QED BY <1>1, <1>3, <2>1, <2>2, <2>3 DEF ListedMaking, Key
<1>5. ListedDone' BY <1>2, <1>3 DEF ListedDone
<1>6. NoReplace' BY DEF NoReplace
<1>7. OpenMade' BY DEF OpenMade
<1>8. ASSUME NEW q \in Procs PROVE Attached(q)'
  <2>1. CASE q = p
    <3>1. res[calls + 1] = <<>> BY <1>0 DEF FutureEmpty
    <3> QED BY <1>0, <2>1, <3>1 DEF Attached
  <2>2. CASE q # p
    <3>1. pc'[q] = pc[q] /\ call'[q] = call[q] BY <2>2, GSFacts
    <3>2. pc[q] # "idle" => KindOf(call[q])' = KindOf(call[q])
      BY <1>1, <1>3, <2>2, <3>1, RunningCall DEF KindOf
    <3> QED BY <3>1, <3>2 DEF Attached, OpenPc
  <2> QED BY <2>1, <2>2
<1>9. AttachedDone' BY <1>2, <1>3 DEF AttachedDone
<1>10. FutureEmpty' BY <1>0, RefNat DEF FutureEmpty
<1> QED BY <1>4, <1>5, <1>6, <1>7, <1>8, <1>9, <1>10

\* The end of the creation: a failure would disturb.
LEMMA CalmEnding ==
  ASSUME TypeInv, LifeInv, Calm, ~Disturbed, NEW p \in Procs, Ending(p)
  PROVE  Calm'
<1> USE DEF registry, backends, embedded, history, locals, gsLocals
<1>0. pc[p] \notin FailPc BY DEF Disturbed
<1>1. CASE Store(p)
  <2>1. /\ UNCHANGED <<entries, done, res, pg, keyOf, calls, call, tgt>>
        /\ pc[p] = "store" /\ pc'[p] = "closeDone"
    BY <1>1, GSFacts DEF Store, Goto, TypeInv, LocalsOK
  <2>2. Attached(p)'
    <3>1. KindOf(call[p])' = KindOf(call[p]) BY <2>1 DEF KindOf
    <3> QED BY <2>1, <3>1 DEF Attached, Calm, OpenPc
  <2>3. MovesAlone(p) BY <2>1, WorkMoves, GSFacts DEF Work, MovesAlone
  <2> QED BY <2>1, <2>2, <2>3, CalmWalk, GSFacts DEF Making, EndPc
<1>2. CASE CloseDone(p) BY <1>0, <1>2, CalmSettle DEF CloseDone, FailPc
<1>3. CASE Fail(p) \/ FailReleaseOne(p) \/ FailReleased(p) \/ RemoveFailed(p)
  BY <1>0, <1>3
  DEF Fail, FailReleaseOne, FailReleased, RemoveFailed, TakeResources, ReleaseOne, FailPc
<1> QED BY <1>1, <1>2, <1>3 DEF Ending

\* A close that finds an entry would disturb.
LEMMA CalmClosing ==
  ASSUME TypeInv, Calm, ~Disturbed, ~Disturbed', NEW p \in Procs, Closing(p)
  PROVE  Calm'
<1> USE DEF registry, backends, embedded, history, locals, gsLocals
<1>0. ~Drainer(p) /\ ~Drainer(p)' BY DEF Disturbed
<1>1. /\ UNCHANGED <<entries, done, res, pg, keyOf, calls>>
      /\ pc[p] \in ClosePc /\ pc'[p] \in {"closeInst", "stopInst", "idle"}
  <2>1. CASE CloseRemove(p)
    <3>1. Key(p) \in Keys BY <2>1, RunningCall DEF CloseRemove
    <3>2. pc'[p] = "closeInst" /\ ent'[p] = entries[Key(p)]
      BY <2>1, GSFacts DEF CloseRemove, Goto, TypeInv, LocalsOK
    <3>3. entries[Key(p)] = None BY <1>0, <3>2 DEF Drainer
    <3>4. entries' = entries BY <2>1, <3>1, <3>3 DEF CloseRemove, TypeInv, RegistryOK
    <3> QED BY <2>1, <3>2, <3>4 DEF CloseRemove, ClosePc
  <2>2. CASE CloseInst(p)
    <3>1. ent[p] = None BY <1>0, <2>2 DEF CloseInst, Drainer
    <3>2. pc'[p] \in {"stopInst", "idle"}
      BY <2>2, <3>1, GSFacts DEF CloseInst, Return, Goto, TypeInv, LocalsOK
    <3> QED BY <2>2, <3>2 DEF CloseInst, ClosePc
  <2>3. CASE CloseStop(p)
    BY <2>3, GSFacts DEF CloseStop, Return, Goto, TypeInv, LocalsOK, ClosePc
  <2> QED BY <2>1, <2>2, <2>3 DEF Closing
<1>2. Attached(p)' BY <1>1 DEF Attached, OpenPc
<1>3. OnlyMoves(p) BY WorkMoves, GSFacts DEF Work
<1>4. \A u \in Threads : u # p => tgt'[u] = tgt[u]
  BY GSFacts DEF Closing, CloseRemove, CloseInst, CloseStop, Return, TypeInv, LocalsOK
<1> QED BY <1>1, <1>2, <1>3, <1>4, CalmWalk, GSFacts
        DEF ClosePc, Making, MakePc, EndPc, MovesAlone

\* The end of a call's migrations creates nothing.
LEMMA CalmMigrate ==
  ASSUME TypeInv, Calm, NEW p \in Procs, Migrate(p)
  PROVE  Calm'
<1> USE DEF registry, backends, embedded, history, locals, gsLocals
<1>1. /\ pc[p] = "migrate" /\ pc'[p] = "idle"
      /\ UNCHANGED <<entries, done, res, pg, keyOf, calls, tgt>>
  BY GSFacts DEF Migrate, Goto, TypeInv, LocalsOK
<1>2. Attached(p)' BY <1>1 DEF Attached, OpenPc
<1>3. OnlyMoves(p) BY WorkMoves, GSFacts DEF Work
<1> QED BY <1>1, <1>2, <1>3, CalmWalk, GSFacts DEF Making, MakePc, EndPc, MovesAlone

\* So would a drain,
LEMMA DrainDisturbs ==
  ASSUME TypeInv, ShutdownInv, NEW t \in Threads, Draining(t)
  PROVE  Disturbed
<1>1. pc[t] \in DrainPc
  BY DEF Draining, Drain, ClosePool, Take, DrainReleaseOne, Released, TakeResources,
     ReleaseOne, DrainPc
<1>2. ent[t] # None BY <1>1 DEF TypeInv, FramesOK, Frame, FrameOK, Holding
<1>3. CASE t \in Procs BY <1>1, <1>2, <1>3 DEF Disturbed, Drainer
<1>4. CASE t = GS BY <1>1, <1>4 DEF Disturbed, ShutdownInv, Warned, DrainPc
<1> QED BY <1>3, <1>4, GSFacts

\* and the shutdown does.
LEMMA ShutdownDisturbs ==
  ASSUME TypeInv, ShutdownInv, Shutdown
  PROVE  Disturbed
<1>1. CASE Draining(GS) BY <1>1, DrainDisturbs, GSFacts
<1>2. CASE ~Draining(GS)
  <2>1. pc[GS] # "waitSignal"
    BY <1>2
    DEF Shutdown, GsSnapshot, GsNext, GsInstances, GsStop, GsStragglers, GsStop2,
        SnapshotInstances, StopSnapshot, SnapshotStopped
  <2> QED BY <2>1 DEF Disturbed, ShutdownInv, Warned
<1> QED BY <1>1, <1>2

\* CalmInv holds of every initial state,
LEMMA CalmInit == Init => CalmInv
<1> SUFFICES ASSUME Init PROVE Calm BY DEF CalmInv
<1>1. ASSUME NEW p \in Procs PROVE pc[p] = "idle"
  <2>1. p \in Threads /\ p # GS BY GSFacts
  <2> QED BY <2>1 DEF Init
<1>2. done = {} BY DEF Init
<1>3. \A e \in Entry : pg[e] = "none" BY DEF Init
<1>4. \A e \in Entry : res[e] = <<>> BY DEF Init
<1>5. ListedMaking BY <1>1 DEF ListedMaking, Making, MakePc, EndPc
<1>6. ListedDone BY <1>2 DEF ListedDone
<1>7. AttachedDone BY <1>2 DEF AttachedDone
<1>8. NoReplace
  <2>1. ASSUME NEW p \in Procs PROVE pc[p] # "replace"
    <3>1. pc[p] = "idle" BY <1>1
    <3> QED BY <3>1
  <2> QED BY <2>1, Zenon DEF NoReplace
<1>9. OpenMade BY <1>3 DEF OpenMade
<1>10. ASSUME NEW p \in Procs PROVE Attached(p)
  <2>1. pc[p] = "idle" BY <1>1
  <2> QED BY <2>1 DEF Attached, OpenPc
<1>11. FutureEmpty BY <1>4 DEF FutureEmpty
<1> QED BY <1>5, <1>6, <1>7, <1>8, <1>9, <1>10, <1>11 DEF Calm

\* and every step keeps it.
LEMMA CalmNext ==
  TypeInv /\ LifeInv /\ DialerInv /\ ShutdownInv /\ CalmInv /\ [Next]_vars => CalmInv'
<1> SUFFICES ASSUME TypeInv, LifeInv, DialerInv, ShutdownInv, CalmInv, [Next]_vars,
                    ~Disturbed'
             PROVE  Calm'
  BY DEF CalmInv
<1>1. ~Disturbed /\ Calm BY DisturbedStays DEF CalmInv
<1>2. ASSUME NEW p \in Procs, NEW k \in Keys, OpenCall(p, k) \/ CloseCall(p, k)
      PROVE  Calm'
  BY <1>1, <1>2, CalmArrive DEF OpenCall, CloseCall
<1>3. ASSUME NEW p \in Procs, Work(p) PROVE Calm'
  <2>1. ~Draining(p) BY <1>1, DrainDisturbs, GSFacts
  <2> QED BY <1>1, <1>3, <2>1, CalmOpening, CalmMigrate, CalmProvisioning, CalmEnding,
             CalmClosing
          DEF Work
<1>4. CASE Signal BY <1>4 DEF Signal, Disturbed
<1>5. CASE Shutdown BY <1>1, <1>5, ShutdownDisturbs
<1>6. CASE UNCHANGED vars
  <2>1. UNCHANGED <<entries, done, res, pg, keyOf, calls, pc, ent, call, tgt>>
    BY <1>6 DEF vars, registry, backends, history, locals
  <2>2. (\A p \in Procs : Attached(p)) => (\A p \in Procs : Attached(p))'
    BY <2>1 DEF Attached, KindOf
  <2> QED BY <1>1, <2>1, <2>2
          DEF Calm, ListedMaking, ListedDone, NoReplace, OpenMade, AttachedDone,
              FutureEmpty, Key, KindOf
<1> QED BY <1>2, <1>3, <1>4, <1>5, <1>6 DEF Next, Quiet

\* CalmInv is an invariant.
LEMMA CalmInvariance == Spec => []CalmInv
BY TypeInvariance, LifeInvariance, DialerInvariance, ShutdownInvariance, CalmInit,
   CalmNext, PTL DEF Spec

\* What the properties call undisturbed is not disturbed.
LEMMA UndisturbedCalm ==
  ASSUME CalmInv, Undisturbed
  PROVE  Calm
BY DEF CalmInv, Undisturbed, Disturbed, FailPc, Drainer, DrainPc, ClosePc

\* As long as nothing fails and nothing is closed, each key has one open pool however
\* many goroutines open it at once.
THEOREM OneUndisturbedPoolHolds == Spec => []OneUndisturbedPool
<1>1. TypeInv /\ CalmInv => OneUndisturbedPool
  <2> SUFFICES ASSUME TypeInv, Calm, NEW e \in Entry, NEW f \in Entry, pg[e] = "open",
                      pg[f] = "open", keyOf[e] = keyOf[f]
               PROVE  e = f
    BY UndisturbedCalm DEF OneUndisturbedPool, OnePoolPerKey
  <2>1. ASSUME NEW g \in Entry, pg[g] = "open" PROVE entries[keyOf[g]] = g
    <3>1. CASE g \in done BY <3>1 DEF Calm, ListedDone
    <3>2. CASE \E p \in Procs : pc[p] \in {"store", "closeDone"} /\ call[p] = g
      BY <3>2 DEF Calm, ListedMaking, Making, EndPc, Key
    <3> QED BY <2>1, <3>1, <3>2 DEF Calm, OpenMade
  <2> QED BY <2>1
<1> QED BY <1>1, TypeInvariance, CalmInvariance, PTL

\* As long as nothing fails and nothing is closed, the test container behind a cached
\* pool is the one resource on the list of the pool's own entry.
THEOREM ContainerOnOwnEntryHolds == Spec => []ContainerOnOwnEntry
<1>1. TypeInv /\ LifeInv /\ CalmInv => ContainerOnOwnEntry
  <2> SUFFICES ASSUME TypeInv, LifeInv, Calm, NEW e \in cached,
                      KindOf(e) = "testcontainer"
               PROVE  res[e] = <<e>>
    BY UndisturbedCalm DEF ContainerOnOwnEntry
  <2>1. e \in Entry /\ pg[e] = "open" BY DEF TypeInv, RegistryOK, LifeInv, CachedPoolOpen
  <2>2. CASE e \in done BY <2>2 DEF Calm, AttachedDone
  <2>3. CASE \E p \in Procs : pc[p] \in {"store", "closeDone"} /\ call[p] = e
    BY <2>3 DEF Calm, Attached
  <2> QED BY <2>1, <2>2, <2>3 DEF Calm, OpenMade
<1> QED BY <1>1, TypeInvariance, LifeInvariance, CalmInvariance, PTL
=============================================================================
