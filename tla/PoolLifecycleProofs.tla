------------------------ MODULE PoolLifecycleProofs ------------------------
(***************************************************************************)
(* The life of a pool in PoolRegistry, for every number of goroutines,     *)
(* keys and calls: a cached pool is open, a pool is closed by one          *)
(* goroutine, a call hands out open pools only and a drained entry stays   *)
(* drained.                                                                *)
(*                                                                         *)
(* The argument is about who may touch an entry.  Its creator is the one   *)
(* goroutine that runs the call it is named after (UniqueCalls), and no    *)
(* one knows the entry before that call creates it (Virgin).  The creator  *)
(* opens the pool, stores it and closes done, in this order (Creations).   *)
(* A drain starts when done is closed, works on an entry that no other     *)
(* goroutine can take (OneDrainer, DrainedUnlisted), and moves the pool    *)
(* out of the entry before it closes it (Drains).                          *)
(*                                                                         *)
(* The last two sections are why calls return, as far as it is a matter of *)
(* safety: who waits is waited on by a creation in progress (ClaimInv,     *)
(* WaitsForCreator), and a call never comes back to a program point        *)
(* (CallsAdvance).                                                         *)
(***************************************************************************)
EXTENDS PoolRegistryProofs

\* Nobody has seen entry e, and nothing has been done for it.
Virgin(e) ==
    /\ pg[e] = "none"
    /\ e \notin cached
    /\ e \notin done
    /\ e \notin snap
    /\ \A k \in Keys : entries[k] # e
    /\ \A t \in Threads : ent[t] # e

\* Goroutine t has taken an entry out of the registry to drain it.
Drainer(t) == pc[t] \in {"closeInst"} \cup DrainPc /\ ent[t] # None

UniqueCalls == \A p, q \in Procs : call[p] = call[q] /\ call[p] # None => p = q

CallsMade == \A p \in Procs : call[p] <= calls

FutureVirgin == \A e \in Entry : e > calls => Virgin(e)

NotCreated == \A p \in Procs : pc[p] \in OpenPc \cup ClosePc => Virgin(call[p])

\* The entry of the creation that p runs, at each program point.
Creation(p) ==
    /\ pc[p] \in Making => call[p] \notin done
    /\ pc[p] \in Making \ {"closeDone"} => call[p] \notin cached
    /\ pc[p] \in MakePc \cup FailPc => pg[call[p]] = "none"
    /\ pc[p] \in {"store", "closeDone"} => pg[call[p]] = "open"
    /\ pc[p] = "closeDone" => call[p] \in cached

Creations == \A p \in Procs : Creation(p)

\* The entry that t drains, at each program point.
Draining1(t) ==
    /\ pc[t] \in {"closePool", "take", "release"} =>
          ent[t] \in done /\ ent[t] \notin cached
    /\ pc[t] = "closePool" => pg[ent[t]] = "open"
    /\ pc[t] \in {"take", "release"} => pg[ent[t]] # "open"

Drains == \A t \in Threads : Draining1(t)

OneDrainer ==
    \A t, u \in Threads : Drainer(t) /\ Drainer(u) /\ ent[t] = ent[u] => t = u

Unlisted(e) == e \notin snap /\ \A k \in Keys : entries[k] # e

DrainedUnlisted == \A t \in Threads : Drainer(t) => Unlisted(ent[t])

SnapUnlisted == \A e \in snap : \A k \in Keys : entries[k] # e

ListedUnderKey == \A k \in Keys : entries[k] # None => keyOf[entries[k]] = k

\* A pool that left its entry is open only until its drainer closes it.
RetiredHeld ==
    \A e \in done \ cached :
        pg[e] = "open" => \E t \in Threads : pc[t] = "closePool" /\ ent[t] = e

LifeInv ==
    /\ UniqueCalls /\ CallsMade /\ FutureVirgin /\ NotCreated
    /\ Creations /\ CachedPoolOpen /\ Drains /\ OneDrainer
    /\ DrainedUnlisted /\ SnapUnlisted /\ ListedUnderKey /\ RetiredHeld

WalkOK(x, y) ==
    \/ x \in OpenPc /\ y \in OpenPc
    \/ x \in MakePc \cup FailPc /\ y \in MakePc \cup FailPc
    \/ x = "take" /\ y = "release"
    \/ x = "release" /\ y = "stopInst"
    \/ x \in GsPc /\ y \in GsPc
    \/ x = y

\* A call whose entry is not created yet, or that is a close, has a number.
LEMMA UncreatedCalls ==
  ASSUME TypeInv
  PROVE  \A q \in Procs : pc[q] \in OpenPc \cup ClosePc => call[q] \in Entry
BY RunningCall DEF OpenPc, ClosePc

\* Calls are numbers.
LEMMA RefNat == Ref \subseteq Nat /\ Entry \subseteq Nat
BY PoolRegistryAssumption DEF PoolRegistryAssumption, Ref, Entry

USE RefFacts, GSFacts

\* A step that only moves a goroutine on within its phase keeps the invariant.
LEMMA Walk ==
  ASSUME TypeInv,
         LifeInv,
         NEW t \in Threads, NEW y, Goto(t, y), WalkOK(pc[t], y),
         UNCHANGED <<entries, cached, done, pg, calls, keyOf, call, ent, snap>>
  PROVE  LifeInv'
<1> USE DEF TypeInv, LifeInv, Goto, None, Making, DrainPc, Holding
<1> USE DEF FailPc, OpenPc, MakePc, EndPc, ClosePc, GsPc
<1> USE DEF WalkOK
<1>0. UniqueCalls' BY DEF UniqueCalls, LocalsOK
<1>1. CallsMade' BY DEF CallsMade, LocalsOK, CallsOK
<1>2. FutureVirgin' BY DEF FutureVirgin, Virgin, LocalsOK, RegistryOK, BackendsOK
<1>3. NotCreated'
  BY UncreatedCalls DEF NotCreated, Virgin, LocalsOK, RegistryOK, BackendsOK
<1>4. Creations' BY DEF Creations, Creation, LocalsOK, FramesOK, Frame, FrameOK
<1>5. CachedPoolOpen' BY DEF CachedPoolOpen, LocalsOK, BackendsOK
<1>6. Drains' BY DEF Drains, Draining1, LocalsOK, BackendsOK
<1>7. OneDrainer' BY DEF OneDrainer, Drainer, LocalsOK
<1>8. DrainedUnlisted' BY DEF DrainedUnlisted, Drainer, Unlisted, LocalsOK, RegistryOK
<1>9. SnapUnlisted' BY DEF SnapUnlisted, RegistryOK
<1>10. ListedUnderKey' BY DEF ListedUnderKey, RegistryOK
<1>11. RetiredHeld' BY DEF RetiredHeld, LocalsOK, BackendsOK, FramesOK, Frame, FrameOK
<1> QED BY <1>0, <1>1, <1>2, <1>3, <1>4, <1>5, <1>6, <1>7, <1>8, <1>9, <1>10, <1>11

\* So does a return: the goroutine lets go of its call and its entry.
LEMMA Leave ==
  ASSUME TypeInv,
         LifeInv,
         NEW p \in Procs, NEW g, Return(p, g), pc[p] # "closePool",
         UNCHANGED <<entries, cached, done, pg, calls, keyOf, snap>>
  PROVE  LifeInv'
<1> USE DEF TypeInv, LifeInv, Goto, None, Making, DrainPc, Holding
<1> USE DEF FailPc, OpenPc, MakePc, EndPc, ClosePc, GsPc
<1> USE DEF Return
<1>0. UniqueCalls' BY DEF UniqueCalls, LocalsOK
<1>1. CallsMade' BY RefNat DEF CallsMade, LocalsOK, CallsOK
<1>2. FutureVirgin' BY DEF FutureVirgin, Virgin, LocalsOK, RegistryOK, BackendsOK
<1>3. NotCreated'
  BY UncreatedCalls DEF NotCreated, Virgin, LocalsOK, RegistryOK, BackendsOK
<1>4. Creations' BY DEF Creations, Creation, LocalsOK
<1>5. CachedPoolOpen' BY DEF CachedPoolOpen, LocalsOK, BackendsOK
<1>6. Drains' BY DEF Drains, Draining1, LocalsOK, BackendsOK
<1>7. OneDrainer' BY DEF OneDrainer, Drainer, LocalsOK
<1>8. DrainedUnlisted' BY DEF DrainedUnlisted, Drainer, Unlisted, LocalsOK, RegistryOK
<1>9. SnapUnlisted' BY DEF SnapUnlisted, RegistryOK
<1>10. ListedUnderKey' BY DEF ListedUnderKey, RegistryOK
<1>11. RetiredHeld' BY DEF RetiredHeld, LocalsOK, BackendsOK
<1> QED BY <1>0, <1>1, <1>2, <1>3, <1>4, <1>5, <1>6, <1>7, <1>8, <1>9, <1>10, <1>11

\* And so do the migrations of a call, which touch nothing the registry has.
LEMMA LifeMigrate ==
  ASSUME TypeInv, LifeInv, NEW p \in Procs, Migrate(p)
  PROVE  LifeInv'
<1> USE DEF TypeInv, LifeInv, Migrate, Goto, registry, backends, history, locals, gsLocals
<1> USE DEF FailPc, OpenPc, MakePc, EndPc, ClosePc, Making, DrainPc
<1>0. UniqueCalls' BY DEF UniqueCalls
<1>1. CallsMade' BY DEF CallsMade
<1>2. FutureVirgin' BY DEF FutureVirgin, Virgin
<1>3. NotCreated' BY DEF NotCreated, Virgin, LocalsOK
<1>4. Creations' BY DEF Creations, Creation, LocalsOK
<1>5. CachedPoolOpen' BY DEF CachedPoolOpen
<1>6. Drains' BY DEF Drains, Draining1, LocalsOK
<1>7. OneDrainer' BY DEF OneDrainer, Drainer, LocalsOK
<1>8. DrainedUnlisted' BY DEF DrainedUnlisted, Drainer, Unlisted, LocalsOK
<1>9. SnapUnlisted' BY DEF SnapUnlisted
<1>10. ListedUnderKey' BY DEF ListedUnderKey
<1>11. RetiredHeld' BY DEF RetiredHeld, LocalsOK
<1> QED BY <1>0, <1>1, <1>2, <1>3, <1>4, <1>5, <1>6, <1>7, <1>8, <1>9, <1>10, <1>11

\* A look at the entry under the key keeps the invariant: it is no entry to come.
LEMMA Looked ==
  ASSUME TypeInv,
         LifeInv,
         NEW p \in Procs, NEW y \in OpenPc, pc[p] \in OpenPc, Goto(p, y),
         ent' = [ent EXCEPT ![p] = entries[Key(p)]],
         UNCHANGED <<entries, cached, done, pg, calls, keyOf, call, snap>>
  PROVE  LifeInv'
<1> USE DEF TypeInv, LifeInv, Goto, None, Making, DrainPc, Holding
<1> USE DEF FailPc, OpenPc, MakePc, EndPc, ClosePc, GsPc
<1>0. call[p] \in Entry /\ Key(p) \in Keys
  BY RunningCall
<1> USE <1>0
<1>1. UniqueCalls' BY DEF UniqueCalls, LocalsOK
<1>2. CallsMade' BY DEF CallsMade, LocalsOK, CallsOK
<1>3. FutureVirgin' BY DEF FutureVirgin, Virgin, LocalsOK, RegistryOK, BackendsOK
<1>4. NotCreated' BY DEF NotCreated, Virgin, LocalsOK, RegistryOK, BackendsOK
<1>5. Creations' BY DEF Creations, Creation, LocalsOK
<1>6. CachedPoolOpen' BY DEF CachedPoolOpen, LocalsOK, BackendsOK
<1>7. Drains' BY DEF Drains, Draining1, LocalsOK, BackendsOK
<1>8. OneDrainer' BY DEF OneDrainer, Drainer, LocalsOK
<1>9. DrainedUnlisted' BY DEF DrainedUnlisted, Drainer, Unlisted, LocalsOK, RegistryOK
<1>10. SnapUnlisted' BY DEF SnapUnlisted, RegistryOK
<1>11. ListedUnderKey' BY DEF ListedUnderKey, RegistryOK
<1>12. RetiredHeld' BY DEF RetiredHeld, LocalsOK, BackendsOK
<1> QED BY <1>1, <1>2, <1>3, <1>4, <1>5, <1>6, <1>7, <1>8, <1>9, <1>10, <1>11, <1>12

\* So does the creation of an entry: it was virgin.
LEMMA CreatedLife ==
  ASSUME TypeInv,
         LifeInv,
         NEW p \in Procs, pc[p] \in OpenPc, CreateEntry(p)
  PROVE  LifeInv'
<1> USE DEF TypeInv, LifeInv, Goto, None, Making, DrainPc, Holding
<1> USE DEF FailPc, OpenPc, MakePc, EndPc, ClosePc, GsPc
<1> USE DEF CreateEntry, backends, embedded, history, gsLocals
<1>0. call[p] \in Entry /\ Key(p) \in Keys /\ p # GS
  BY RunningCall
<1> USE <1>0
<1>1. UniqueCalls' BY DEF UniqueCalls, LocalsOK
<1>2. CallsMade' BY DEF CallsMade, LocalsOK, CallsOK
<1>3. FutureVirgin'
  <2> SUFFICES ASSUME NEW e \in Entry, e > calls PROVE Virgin(e)'
    BY DEF FutureVirgin
  <2>1. call[p] # e BY RefNat DEF CallsMade, CallsOK
  <2> QED BY <2>1 DEF FutureVirgin, Virgin, LocalsOK, RegistryOK
<1>4. NotCreated'
  BY UncreatedCalls DEF NotCreated, Virgin, LocalsOK, RegistryOK, BackendsOK, UniqueCalls
<1>5. Creations'
  BY DEF Creations, Creation, LocalsOK, NotCreated, Virgin, UniqueCalls, CallsMade,
     CallsOK, Key, FramesOK, Frame, FrameOK
<1>6. CachedPoolOpen' BY DEF CachedPoolOpen, LocalsOK, BackendsOK
<1>7. Drains' BY DEF Drains, Draining1, LocalsOK, BackendsOK
<1>8. OneDrainer' BY DEF OneDrainer, Drainer, LocalsOK
<1>9. DrainedUnlisted'
  BY DEF DrainedUnlisted, Drainer, Unlisted, LocalsOK, RegistryOK, NotCreated,
     Virgin, UniqueCalls, CallsMade, CallsOK, Key, FramesOK, Frame, FrameOK
<1>10. SnapUnlisted'
  BY DEF SnapUnlisted, RegistryOK, NotCreated, Virgin, UniqueCalls, CallsMade,
     CallsOK, Key, FramesOK, Frame, FrameOK
<1>11. ListedUnderKey'
  BY DEF ListedUnderKey, RegistryOK, NotCreated, Virgin, UniqueCalls, CallsMade,
     CallsOK, Key, FramesOK, Frame, FrameOK
<1>12. RetiredHeld' BY DEF RetiredHeld, LocalsOK, BackendsOK
<1> QED BY <1>1, <1>2, <1>3, <1>4, <1>5, <1>6, <1>7, <1>8, <1>9, <1>10, <1>11, <1>12

\* pgxpool.New gives the entry of the creation an open pool, which nobody else knows.
LEMMA NewPoolLife ==
  ASSUME TypeInv,
         LifeInv,
         NEW p \in Procs, NewPool(p)
  PROVE  LifeInv'
<1> USE DEF TypeInv, LifeInv, Goto, None, Making, DrainPc, Holding
<1> USE DEF FailPc, OpenPc, MakePc, EndPc, ClosePc, GsPc
<1> USE DEF NewPool, registry, backends, embedded, history, locals, gsLocals
<1>0. call[p] \in Entry /\ Key(p) \in Keys /\ p # GS
  BY RunningCall
<1> USE <1>0
<1>1. ent[p] = call[p]
  BY DEF FramesOK, Frame, FrameOK
<1> USE <1>1
<1>2. UniqueCalls' BY DEF UniqueCalls, LocalsOK
<1>3. CallsMade' BY DEF CallsMade, LocalsOK, CallsOK
<1>4. FutureVirgin'
  BY DEF FutureVirgin, Virgin, LocalsOK, RegistryOK, BackendsOK, NotCreated,
     CallsMade
<1>5. NotCreated'
  BY UncreatedCalls DEF NotCreated, Virgin, LocalsOK, RegistryOK, BackendsOK, UniqueCalls
<1>6. Creations'
  <2>1. Creation(p)'
    BY DEF Creations, Creation, LocalsOK, RegistryOK, BackendsOK, FramesOK, Frame, FrameOK
  <2>2. ASSUME NEW q \in Procs, q # p PROVE Creation(q)'
    <3>1. pc'[q] # "idle" => call[q] # call[p]
      BY <2>2 DEF UniqueCalls, LocalsOK, FramesOK, Frame, FrameOK
    <3> QED BY <2>2, <3>1 DEF Creations, Creation, LocalsOK, RegistryOK, BackendsOK
  <2> QED BY <2>1, <2>2 DEF Creations
<1>7. CachedPoolOpen' BY DEF CachedPoolOpen, LocalsOK, BackendsOK, Creations, Creation
<1>8. Drains'
  BY DEF Drains, Draining1, LocalsOK, BackendsOK, Creations, Creation, FramesOK,
     Frame, FrameOK
<1>9. OneDrainer' BY DEF OneDrainer, Drainer, LocalsOK
<1>10. DrainedUnlisted' BY DEF DrainedUnlisted, Drainer, Unlisted, LocalsOK, RegistryOK
<1>11. SnapUnlisted' BY DEF SnapUnlisted, RegistryOK
<1>12. ListedUnderKey' BY DEF ListedUnderKey, RegistryOK
<1>13. RetiredHeld' BY DEF RetiredHeld, LocalsOK, BackendsOK, Creations, Creation
<1> QED BY <1>2, <1>3, <1>4, <1>5, <1>6, <1>7, <1>8, <1>9, <1>10, <1>11, <1>12,
       <1>13

\* The creator stores an open pool in an entry that is not settled yet.
LEMMA StoreLife ==
  ASSUME TypeInv,
         LifeInv,
         NEW p \in Procs, Store(p)
  PROVE  LifeInv'
<1> USE DEF TypeInv, LifeInv, Goto, None, Making, DrainPc, Holding
<1> USE DEF FailPc, OpenPc, MakePc, EndPc, ClosePc, GsPc
<1> USE DEF Store, registry, backends, embedded, history, locals, gsLocals
<1>0. call[p] \in Entry /\ Key(p) \in Keys /\ p # GS
  BY RunningCall
<1> USE <1>0
<1>1. ent[p] = call[p]
  BY DEF FramesOK, Frame, FrameOK
<1> USE <1>1
<1>2. UniqueCalls' BY DEF UniqueCalls, LocalsOK
<1>3. CallsMade' BY DEF CallsMade, LocalsOK, CallsOK
<1>4. FutureVirgin' BY DEF FutureVirgin, Virgin, LocalsOK, RegistryOK, BackendsOK
<1>5. NotCreated'
  BY UncreatedCalls DEF NotCreated, Virgin, LocalsOK, RegistryOK, BackendsOK, UniqueCalls
<1>6. Creations'
  <2>1. Creation(p)'
    BY DEF Creations, Creation, LocalsOK, RegistryOK, BackendsOK, FramesOK, Frame, FrameOK
  <2>2. ASSUME NEW q \in Procs, q # p PROVE Creation(q)'
    <3>1. pc'[q] # "idle" => call[q] # call[p]
      BY <2>2 DEF UniqueCalls, LocalsOK, FramesOK, Frame, FrameOK
    <3> QED BY <2>2, <3>1 DEF Creations, Creation, LocalsOK, RegistryOK, BackendsOK
  <2> QED BY <2>1, <2>2 DEF Creations
<1>7. CachedPoolOpen' BY DEF CachedPoolOpen, LocalsOK, BackendsOK, Creations, Creation
<1>8. Drains'
  BY DEF Drains, Draining1, LocalsOK, BackendsOK, Creations, Creation, FramesOK,
     Frame, FrameOK
<1>9. OneDrainer' BY DEF OneDrainer, Drainer, LocalsOK
<1>10. DrainedUnlisted' BY DEF DrainedUnlisted, Drainer, Unlisted, LocalsOK, RegistryOK
<1>11. SnapUnlisted' BY DEF SnapUnlisted, RegistryOK
<1>12. ListedUnderKey' BY DEF ListedUnderKey, RegistryOK
<1>13. RetiredHeld' BY DEF RetiredHeld, LocalsOK, BackendsOK, Creations, Creation
<1> QED BY <1>2, <1>3, <1>4, <1>5, <1>6, <1>7, <1>8, <1>9, <1>10, <1>11, <1>12,
       <1>13

\* The creation settles, with its pool cached or without a pool.
LEMMA CloseDoneLife ==
  ASSUME TypeInv,
         LifeInv,
         NEW p \in Procs, CloseDone(p)
  PROVE  LifeInv'
<1> USE DEF TypeInv, LifeInv, Goto, None, Making, DrainPc, Holding
<1> USE DEF FailPc, OpenPc, MakePc, EndPc, ClosePc, GsPc
<1> USE DEF CloseDone, Return, registry, backends, embedded, history, locals, gsLocals
<1>0. call[p] \in Entry /\ Key(p) \in Keys /\ p # GS
  BY RunningCall
<1> USE <1>0
<1>1. ent[p] = call[p]
  BY DEF FramesOK, Frame, FrameOK
<1> USE <1>1
<1>2. UniqueCalls' BY DEF UniqueCalls, LocalsOK
<1>3. CallsMade' BY RefNat DEF CallsMade, LocalsOK, CallsOK
<1>4. FutureVirgin' BY DEF FutureVirgin, Virgin, LocalsOK, RegistryOK, BackendsOK
<1>5. NotCreated'
  BY UncreatedCalls DEF NotCreated, Virgin, LocalsOK, RegistryOK, BackendsOK, UniqueCalls
<1>6. Creations'
  <2>1. Creation(p)'
    BY DEF Creations, Creation, LocalsOK, RegistryOK, BackendsOK, FramesOK, Frame, FrameOK
  <2>2. ASSUME NEW q \in Procs, q # p PROVE Creation(q)'
    <3>1. pc'[q] # "idle" => call[q] # call[p]
      BY <2>2 DEF UniqueCalls, LocalsOK, FramesOK, Frame, FrameOK
    <3> QED BY <2>2, <3>1 DEF Creations, Creation, LocalsOK, RegistryOK, BackendsOK
  <2> QED BY <2>1, <2>2 DEF Creations
<1>7. CachedPoolOpen' BY DEF CachedPoolOpen, LocalsOK, BackendsOK
<1>8. Drains' BY DEF Drains, Draining1, LocalsOK, BackendsOK
<1>9. OneDrainer' BY DEF OneDrainer, Drainer, LocalsOK
<1>10. DrainedUnlisted' BY DEF DrainedUnlisted, Drainer, Unlisted, LocalsOK, RegistryOK
<1>11. SnapUnlisted' BY DEF SnapUnlisted, RegistryOK
<1>12. ListedUnderKey' BY DEF ListedUnderKey, RegistryOK
<1>13. RetiredHeld' BY DEF RetiredHeld, LocalsOK, BackendsOK, Creations, Creation
<1> QED BY <1>2, <1>3, <1>4, <1>5, <1>6, <1>7, <1>8, <1>9, <1>10, <1>11, <1>12,
       <1>13

\* Removing the entry under a key, whoever does it, keeps the invariant.
LEMMA UnlistLife ==
  ASSUME TypeInv,
         LifeInv,
         NEW p \in Procs, RemoveFailed(p)
  PROVE  LifeInv'
<1> USE DEF TypeInv, LifeInv, Goto, None, Making, DrainPc, Holding
<1> USE DEF FailPc, OpenPc, MakePc, EndPc, ClosePc, GsPc
<1> USE DEF RemoveFailed, registry, backends, embedded, history, locals, gsLocals
<1>0. call[p] \in Entry /\ Key(p) \in Keys /\ p # GS
  BY RunningCall
<1> USE <1>0
<1>1. ent[p] = call[p]
  BY DEF FramesOK, Frame, FrameOK
<1> USE <1>1
<1>2. UniqueCalls' BY DEF UniqueCalls, LocalsOK
<1>3. CallsMade' BY DEF CallsMade, LocalsOK, CallsOK
<1>4. FutureVirgin' BY DEF FutureVirgin, Virgin, LocalsOK, RegistryOK, BackendsOK
<1>5. NotCreated'
  BY UncreatedCalls DEF NotCreated, Virgin, LocalsOK, RegistryOK, BackendsOK
<1>6. Creations'
  <2>1. Creation(p)'
    BY DEF Creations, Creation, LocalsOK, RegistryOK, BackendsOK, FramesOK, Frame, FrameOK
  <2>2. ASSUME NEW q \in Procs, q # p PROVE Creation(q)'
    <3>1. pc'[q] # "idle" => call[q] # call[p]
      BY <2>2 DEF UniqueCalls, LocalsOK, FramesOK, Frame, FrameOK
    <3> QED BY <2>2, <3>1 DEF Creations, Creation, LocalsOK, RegistryOK, BackendsOK
  <2> QED BY <2>1, <2>2 DEF Creations
<1>7. CachedPoolOpen' BY DEF CachedPoolOpen, LocalsOK, BackendsOK
<1>8. Drains' BY DEF Drains, Draining1, LocalsOK, BackendsOK
<1>9. OneDrainer' BY DEF OneDrainer, Drainer, LocalsOK
<1>10. DrainedUnlisted' BY DEF DrainedUnlisted, Drainer, Unlisted, LocalsOK, RegistryOK
<1>11. SnapUnlisted' BY DEF SnapUnlisted, RegistryOK, LocalsOK
<1>12. ListedUnderKey' BY DEF ListedUnderKey, RegistryOK
<1>13. RetiredHeld' BY DEF RetiredHeld, LocalsOK, BackendsOK
<1> QED BY <1>2, <1>3, <1>4, <1>5, <1>6, <1>7, <1>8, <1>9, <1>10, <1>11, <1>12,
       <1>13

\* ClosePoolWithKey takes the entry, and no other drainer has it.
LEMMA CloseRemoveLife ==
  ASSUME TypeInv,
         LifeInv,
         NEW p \in Procs, CloseRemove(p)
  PROVE  LifeInv'
<1> USE DEF TypeInv, LifeInv, Goto, None, Making, DrainPc, Holding
<1> USE DEF FailPc, OpenPc, MakePc, EndPc, ClosePc, GsPc
<1> USE DEF CloseRemove, registry, backends, embedded, history, locals, gsLocals
<1>0. call[p] \in Entry /\ Key(p) \in Keys /\ p # GS
  BY RunningCall
<1> USE <1>0
<1>1. UniqueCalls' BY DEF UniqueCalls, LocalsOK
<1>2. CallsMade' BY DEF CallsMade, LocalsOK, CallsOK
<1>3. FutureVirgin' BY DEF FutureVirgin, Virgin, LocalsOK, RegistryOK, BackendsOK
<1>4. NotCreated'
  BY UncreatedCalls DEF NotCreated, Virgin, LocalsOK, RegistryOK, BackendsOK
<1>5. Creations' BY DEF Creations, Creation, LocalsOK
<1>6. CachedPoolOpen' BY DEF CachedPoolOpen, LocalsOK, BackendsOK
<1>7. Drains' BY DEF Drains, Draining1, LocalsOK, BackendsOK
<1>8. OneDrainer' BY DEF OneDrainer, Drainer, LocalsOK, DrainedUnlisted, Unlisted
<1>9. DrainedUnlisted'
  <2>1. Drainer(p)' => Unlisted(ent[p])'
    BY DEF Drainer, Unlisted, SnapUnlisted, ListedUnderKey, LocalsOK, RegistryOK
  <2>2. ASSUME NEW u \in Threads, u # p PROVE Drainer(u)' => Unlisted(ent[u])'
    BY <2>2 DEF DrainedUnlisted, Drainer, Unlisted, LocalsOK, RegistryOK
  <2> QED BY <2>1, <2>2 DEF DrainedUnlisted
<1>10. SnapUnlisted' BY DEF SnapUnlisted, RegistryOK, LocalsOK
<1>11. ListedUnderKey' BY DEF ListedUnderKey, RegistryOK
<1>12. RetiredHeld' BY DEF RetiredHeld, LocalsOK, BackendsOK
<1> QED BY <1>1, <1>2, <1>3, <1>4, <1>5, <1>6, <1>7, <1>8, <1>9, <1>10, <1>11, <1>12

\* It goes on to the drain, or to the stop of a server.
LEMMA CloseInstLife ==
  ASSUME TypeInv,
         LifeInv,
         NEW p \in Procs, CloseInst(p), NEW y \in {"stopInst", "drain"}, Goto(p, y),
         ent[p] # None => y = "drain",
         ent[p] = None => y = "stopInst",
         UNCHANGED <<ret, call, ent, tgt, rel>>
  PROVE  LifeInv'
<1> USE DEF TypeInv, LifeInv, Goto, None, Making, DrainPc, Holding
<1> USE DEF FailPc, OpenPc, MakePc, EndPc, ClosePc, GsPc
<1>0. /\ pc[p] = "closeInst"
      /\ UNCHANGED <<entries, cached, done, pg, calls, keyOf, snap>>
  BY DEF CloseInst, registry, backends, embedded, history, locals, gsLocals
<1> USE <1>0
<1>1. call[p] \in Entry /\ Key(p) \in Keys /\ p # GS
  BY RunningCall
<1> USE <1>1
<1>2. UniqueCalls' BY DEF UniqueCalls, LocalsOK
<1>3. CallsMade' BY DEF CallsMade, LocalsOK, CallsOK
<1>4. FutureVirgin' BY DEF FutureVirgin, Virgin, LocalsOK, RegistryOK, BackendsOK
<1>5. NotCreated' BY DEF NotCreated, Virgin, LocalsOK, RegistryOK, BackendsOK
<1>6. Creations' BY DEF Creations, Creation, LocalsOK
<1>7. CachedPoolOpen' BY DEF CachedPoolOpen, LocalsOK, BackendsOK
<1>8. Drains' BY DEF Drains, Draining1, LocalsOK, BackendsOK
<1>9. OneDrainer' BY DEF OneDrainer, Drainer, LocalsOK
<1>10. DrainedUnlisted' BY DEF DrainedUnlisted, Drainer, Unlisted, LocalsOK, RegistryOK
<1>11. SnapUnlisted' BY DEF SnapUnlisted, RegistryOK
<1>12. ListedUnderKey' BY DEF ListedUnderKey, RegistryOK
<1>13. RetiredHeld' BY DEF RetiredHeld, LocalsOK, BackendsOK
<1> QED BY <1>2, <1>3, <1>4, <1>5, <1>6, <1>7, <1>8, <1>9, <1>10, <1>11, <1>12,
       <1>13

\* The pool is moved out of the settled entry; it is the only pool the entry had.
LEMMA DrainLife ==
  ASSUME TypeInv,
         LifeInv,
         NEW t \in Threads, Drain(t)
  PROVE  LifeInv'
<1> USE DEF TypeInv, LifeInv, Goto, None, Making, DrainPc, Holding
<1> USE DEF FailPc, OpenPc, MakePc, EndPc, ClosePc, GsPc
<1> USE DEF Drain, registry, backends, embedded, history, locals, gsLocals
<1>0. ent[t] \in Entry
  BY DEF FramesOK, Frame, FrameOK
<1> USE <1>0
<1>1. UniqueCalls' BY DEF UniqueCalls, LocalsOK
<1>2. CallsMade' BY DEF CallsMade, LocalsOK, CallsOK
<1>3. FutureVirgin' BY DEF FutureVirgin, Virgin, LocalsOK, RegistryOK, BackendsOK
<1>4. NotCreated' BY DEF NotCreated, Virgin, LocalsOK, RegistryOK, BackendsOK
<1>5. Creations' BY DEF Creations, Creation, LocalsOK
<1>6. CachedPoolOpen' BY DEF CachedPoolOpen, LocalsOK, BackendsOK
<1>7. Drains'
  BY DEF Drains, Draining1, LocalsOK, BackendsOK, CachedPoolOpen, RetiredHeld,
     OneDrainer, Drainer
<1>8. OneDrainer' BY DEF OneDrainer, Drainer, LocalsOK
<1>9. DrainedUnlisted' BY DEF DrainedUnlisted, Drainer, Unlisted, LocalsOK, RegistryOK
<1>10. SnapUnlisted' BY DEF SnapUnlisted, RegistryOK
<1>11. ListedUnderKey' BY DEF ListedUnderKey, RegistryOK
<1>12. RetiredHeld' BY DEF RetiredHeld, LocalsOK, BackendsOK, CachedPoolOpen
<1> QED BY <1>1, <1>2, <1>3, <1>4, <1>5, <1>6, <1>7, <1>8, <1>9, <1>10, <1>11, <1>12

\* The drainer closes the pool that it moved out.
LEMMA ClosePoolLife ==
  ASSUME TypeInv,
         LifeInv,
         NEW t \in Threads, ClosePool(t)
  PROVE  LifeInv'
<1> USE DEF TypeInv, LifeInv, Goto, None, Making, DrainPc, Holding
<1> USE DEF FailPc, OpenPc, MakePc, EndPc, ClosePc, GsPc
<1> USE DEF ClosePool, registry, backends, embedded, history, locals, gsLocals
<1>0. ent[t] \in Entry
  BY DEF FramesOK, Frame, FrameOK
<1> USE <1>0
<1>1. UniqueCalls' BY DEF UniqueCalls, LocalsOK
<1>2. CallsMade' BY DEF CallsMade, LocalsOK, CallsOK
<1>3. FutureVirgin'
  BY DEF FutureVirgin, Virgin, LocalsOK, RegistryOK, BackendsOK, Drains, Draining1
<1>4. NotCreated'
  BY DEF NotCreated, Virgin, LocalsOK, RegistryOK, BackendsOK, Drains, Draining1
<1>5. Creations'
  BY DEF Creations, Creation, LocalsOK, Drains, Draining1, FramesOK, Frame, FrameOK
<1>6. CachedPoolOpen' BY DEF CachedPoolOpen, LocalsOK, BackendsOK, Drains, Draining1
<1>7. Drains' BY DEF Drains, Draining1, LocalsOK, BackendsOK, OneDrainer, Drainer
<1>8. OneDrainer' BY DEF OneDrainer, Drainer, LocalsOK
<1>9. DrainedUnlisted' BY DEF DrainedUnlisted, Drainer, Unlisted, LocalsOK, RegistryOK
<1>10. SnapUnlisted' BY DEF SnapUnlisted, RegistryOK
<1>11. ListedUnderKey' BY DEF ListedUnderKey, RegistryOK
<1>12. RetiredHeld' BY DEF RetiredHeld, LocalsOK, BackendsOK
<1> QED BY <1>1, <1>2, <1>3, <1>4, <1>5, <1>6, <1>7, <1>8, <1>9, <1>10, <1>11, <1>12

\* gracefulShutdown lets go of an entry it has drained.
LEMMA DrainedLife ==
  ASSUME TypeInv,
         LifeInv,
         pc[GS] = "release",
         Goto(GS, "gsNext"),
         ent' = [ent EXCEPT ![GS] = None],
         UNCHANGED <<entries, cached, done, pg, calls, keyOf, call, snap>>
  PROVE  LifeInv'
<1> USE DEF TypeInv, LifeInv, Goto, None, Making, DrainPc, Holding
<1> USE DEF FailPc, OpenPc, MakePc, EndPc, ClosePc, GsPc
<1>0. UniqueCalls' BY DEF UniqueCalls, LocalsOK
<1>1. CallsMade' BY DEF CallsMade, LocalsOK, CallsOK
<1>2. FutureVirgin' BY DEF FutureVirgin, Virgin, LocalsOK, RegistryOK, BackendsOK
<1>3. NotCreated'
  BY UncreatedCalls DEF NotCreated, Virgin, LocalsOK, RegistryOK, BackendsOK
<1>4. Creations' BY DEF Creations, Creation, LocalsOK
<1>5. CachedPoolOpen' BY DEF CachedPoolOpen, LocalsOK, BackendsOK
<1>6. Drains' BY DEF Drains, Draining1, LocalsOK, BackendsOK
<1>7. OneDrainer' BY DEF OneDrainer, Drainer, LocalsOK
<1>8. DrainedUnlisted' BY DEF DrainedUnlisted, Drainer, Unlisted, LocalsOK, RegistryOK
<1>9. SnapUnlisted' BY DEF SnapUnlisted, RegistryOK
<1>10. ListedUnderKey' BY DEF ListedUnderKey, RegistryOK
<1>11. RetiredHeld' BY DEF RetiredHeld, LocalsOK, BackendsOK
<1> QED BY <1>0, <1>1, <1>2, <1>3, <1>4, <1>5, <1>6, <1>7, <1>8, <1>9, <1>10, <1>11

\* gracefulShutdown takes all entries of the registry.
LEMMA GsSnapshotLife ==
  ASSUME TypeInv,
         LifeInv,
         GsSnapshot
  PROVE  LifeInv'
<1> USE DEF TypeInv, LifeInv, Goto, None, Making, DrainPc, Holding
<1> USE DEF FailPc, OpenPc, MakePc, EndPc, ClosePc, GsPc
<1> USE DEF GsSnapshot, registry, backends, embedded, history, locals, gsLocals
<1>0. UniqueCalls' BY DEF UniqueCalls, LocalsOK
<1>1. CallsMade' BY DEF CallsMade, LocalsOK, CallsOK
<1>2. FutureVirgin' BY DEF FutureVirgin, Virgin, LocalsOK, RegistryOK, BackendsOK
<1>3. NotCreated'
  BY UncreatedCalls DEF NotCreated, Virgin, LocalsOK, RegistryOK, BackendsOK
<1>4. Creations' BY DEF Creations, Creation, LocalsOK
<1>5. CachedPoolOpen' BY DEF CachedPoolOpen, LocalsOK, BackendsOK
<1>6. Drains' BY DEF Drains, Draining1, LocalsOK, BackendsOK
<1>7. OneDrainer' BY DEF OneDrainer, Drainer, LocalsOK
<1>8. DrainedUnlisted'
  BY DEF DrainedUnlisted, Drainer, Unlisted, LocalsOK, RegistryOK, FramesOK, Frame,
     FrameOK
<1>9. SnapUnlisted' BY DEF SnapUnlisted, RegistryOK
<1>10. ListedUnderKey' BY DEF ListedUnderKey, RegistryOK
<1>11. RetiredHeld' BY DEF RetiredHeld, LocalsOK, BackendsOK
<1> QED BY <1>0, <1>1, <1>2, <1>3, <1>4, <1>5, <1>6, <1>7, <1>8, <1>9, <1>10, <1>11

\* It drains one entry of its snapshot at a time.
LEMMA GsNextLife ==
  ASSUME TypeInv,
         LifeInv,
         NEW e \in snap, pc[GS] = "gsNext",
         ent' = [ent EXCEPT ![GS] = e],
         snap' = snap \ {e},
         Goto(GS, "drain"),
         UNCHANGED <<entries, cached, done, pg, calls, keyOf, call>>
  PROVE  LifeInv'
<1> USE DEF TypeInv, LifeInv, Goto, None, Making, DrainPc, Holding
<1> USE DEF FailPc, OpenPc, MakePc, EndPc, ClosePc, GsPc
<1>0. UniqueCalls' BY DEF UniqueCalls, LocalsOK
<1>1. CallsMade' BY DEF CallsMade, LocalsOK, CallsOK
<1>2. FutureVirgin' BY DEF FutureVirgin, Virgin, LocalsOK, RegistryOK, BackendsOK
<1>3. NotCreated'
  <2> SUFFICES ASSUME NEW q \in Procs, pc'[q] \in OpenPc \cup ClosePc
        PROVE Virgin(call[q])'
    BY DEF NotCreated
  <2>1. Virgin(call[q]) BY DEF NotCreated, LocalsOK
  <2> QED BY <2>1 DEF Virgin, LocalsOK
<1>4. Creations' BY DEF Creations, Creation, LocalsOK
<1>5. CachedPoolOpen' BY DEF CachedPoolOpen, LocalsOK, BackendsOK
<1>6. Drains' BY DEF Drains, Draining1, LocalsOK, BackendsOK
<1>7. OneDrainer' BY DEF OneDrainer, Drainer, LocalsOK, DrainedUnlisted, Unlisted
<1>8. DrainedUnlisted'
  BY DEF DrainedUnlisted, Drainer, Unlisted, LocalsOK, RegistryOK, SnapUnlisted
<1>9. SnapUnlisted' BY DEF SnapUnlisted, RegistryOK
<1>10. ListedUnderKey' BY DEF ListedUnderKey, RegistryOK
<1>11. RetiredHeld' BY DEF RetiredHeld, LocalsOK, BackendsOK
<1> QED BY <1>0, <1>1, <1>2, <1>3, <1>4, <1>5, <1>6, <1>7, <1>8, <1>9, <1>10, <1>11

\* A new call has a number nobody has seen.
LEMMA ArriveLife ==
  ASSUME TypeInv,
         LifeInv,
         NEW p \in Procs, NEW k \in Keys, NEW l \in {"lookup", "closeRemove"},
         Arrive(p, k, l)
  PROVE  LifeInv'
<1> USE DEF TypeInv, LifeInv, Goto, None, Making, DrainPc, Holding
<1> USE DEF FailPc, OpenPc, MakePc, EndPc, ClosePc, GsPc
<1> USE DEF Arrive, registry, backends, embedded, history, locals, gsLocals
<1>0. calls + 1 \in Entry /\ calls \in Nat /\ calls + 1 > calls
  BY PoolRegistryAssumption DEF PoolRegistryAssumption, CallsOK, Ref, Entry
<1> USE <1>0
<1>1. UniqueCalls' BY RefNat DEF UniqueCalls, LocalsOK, CallsMade, CallsOK
<1>2. CallsMade'
  <2> SUFFICES ASSUME NEW q \in Procs PROVE call'[q] <= calls + 1
    BY DEF CallsMade
  <2>1. call[q] \in Nat /\ call[q] <= calls BY RefNat DEF CallsMade, LocalsOK
  <2>2. call'[q] = call[q] \/ call'[q] = calls + 1 BY DEF LocalsOK
  <2>3. calls \in Nat BY <1>0
  <2> HIDE <1>0
  <2> QED BY <2>1, <2>2, <2>3
<1>3. FutureVirgin'
  BY RefNat DEF FutureVirgin, Virgin, LocalsOK, RegistryOK, BackendsOK, CallsOK
<1>4. NotCreated'
  BY RefNat DEF NotCreated, Virgin, LocalsOK, RegistryOK, BackendsOK, FutureVirgin,
     CallsOK
<1>5. Creations' BY DEF Creations, Creation, LocalsOK
<1>6. CachedPoolOpen' BY DEF CachedPoolOpen, LocalsOK, BackendsOK
<1>7. Drains' BY DEF Drains, Draining1, LocalsOK, BackendsOK
<1>8. OneDrainer' BY DEF OneDrainer, Drainer, LocalsOK
<1>9. DrainedUnlisted' BY DEF DrainedUnlisted, Drainer, Unlisted, LocalsOK, RegistryOK
<1>10. SnapUnlisted' BY DEF SnapUnlisted, RegistryOK
<1>11. ListedUnderKey'
  BY RefNat DEF ListedUnderKey, RegistryOK, FutureVirgin, Virgin, CallsOK
<1>12. RetiredHeld' BY DEF RetiredHeld, LocalsOK, BackendsOK
<1> QED BY <1>1, <1>2, <1>3, <1>4, <1>5, <1>6, <1>7, <1>8, <1>9, <1>10, <1>11, <1>12

\* The steps of resolvePool before the creation.
LEMMA LifeOpening ==
  ASSUME TypeInv, LifeInv, NEW p \in Procs, Opening(p)
  PROVE  LifeInv'
<1> USE DEF registry, backends, embedded, history, locals, gsLocals
<1> USE DEF WalkOK, OpenPc, MakePc, FailPc, GsPc
<1>1. CASE Lookup(p)
  <2>1. PICK y \in OpenPc : Goto(p, y) BY <1>1 DEF Lookup
  <2>2. pc[p] \in OpenPc /\ ent' = [ent EXCEPT ![p] = entries[Key(p)]]
        /\ UNCHANGED <<entries, cached, done, pg, calls, keyOf, call, snap>>
    BY <1>1 DEF Lookup
  <2> QED BY <2>1, <2>2, Looked
<1>2. CASE FastRead(p)
  <2>1. CASE ent[p] \in cached
    BY <1>2, <2>1, Leave DEF FastRead
  <2>2. CASE ent[p] \notin cached
    <3>1. PICK y \in OpenPc : Goto(p, y) BY <1>2, <2>2 DEF FastRead
    <3>2. WalkOK(pc[p], y)
          /\ UNCHANGED <<entries, cached, done, pg, calls, keyOf, call, ent, snap>>
      BY <1>2, <2>2, <3>1 DEF FastRead
    <3> QED BY <3>1, <3>2, Walk
  <2> QED BY <2>1, <2>2
<1>3. CASE FastWait(p)
  <2>1. CASE ent[p] \in cached
    BY <1>3, <2>1, Leave DEF FastWait
  <2>2. CASE ent[p] \notin cached
    <3>1. PICK y \in OpenPc : Goto(p, y) BY <1>3, <2>2 DEF FastWait
    <3>2. WalkOK(pc[p], y)
          /\ UNCHANGED <<entries, cached, done, pg, calls, keyOf, call, ent, snap>>
      BY <1>3, <2>2, <3>1 DEF FastWait
    <3> QED BY <3>1, <3>2, Walk
  <2> QED BY <2>1, <2>2
<1>4. CASE Slow(p)
  <2>1. CASE CreateEntry(p) BY <1>4, <2>1, CreatedLife DEF Slow
  <2>2. CASE entries[Key(p)] \in cached /\ ~CreateEntry(p)
    BY <1>4, <2>2, Leave DEF Slow
  <2>3. CASE entries[Key(p)] \notin cached /\ ~CreateEntry(p)
    <3>1. /\ pc[p] \in OpenPc /\ "slowWait" \in OpenPc /\ Goto(p, "slowWait")
          /\ ent' = [ent EXCEPT ![p] = entries[Key(p)]]
          /\ UNCHANGED <<entries, cached, done, pg, calls, keyOf, call, snap>>
      BY <1>4, <2>3 DEF Slow
    <3> QED BY <3>1, Looked
  <2> QED BY <2>1, <2>2, <2>3
<1>5. CASE SlowWait(p)
  <2>1. CASE ent[p] \in cached
    BY <1>5, <2>1, Leave DEF SlowWait
  <2>2. CASE ent[p] \notin cached
    <3>1. PICK y \in OpenPc : Goto(p, y) BY <1>5, <2>2 DEF SlowWait
    <3>2. WalkOK(pc[p], y)
          /\ UNCHANGED <<entries, cached, done, pg, calls, keyOf, call, ent, snap>>
      BY <1>5, <2>2, <3>1 DEF SlowWait
    <3> QED BY <3>1, <3>2, Walk
  <2> QED BY <2>1, <2>2
<1>6. CASE Replace(p) BY <1>6, CreatedLife DEF Replace
<1> QED BY <1>1, <1>2, <1>3, <1>4, <1>5, <1>6 DEF Opening

\* The steps of Connect.
LEMMA LifeProvisioning ==
  ASSUME TypeInv, LifeInv, NEW p \in Procs, Provisioning(p)
  PROVE  LifeInv'
<1> USE DEF registry, backends, embedded, history, locals, gsLocals
<1> USE DEF WalkOK, OpenPc, MakePc, FailPc, GsPc
<1>1. CASE ProvisionFails(p)
  <2>1. Goto(p, "fail") /\ WalkOK(pc[p], "fail")
        /\ UNCHANGED <<entries, cached, done, pg, calls, keyOf, call, ent, snap>>
    BY <1>1 DEF ProvisionFails
  <2> QED BY <2>1, Walk
<1>2. CASE ProvisionPlain(p)
  <2>1. Goto(p, "newPool") /\ WalkOK(pc[p], "newPool")
        /\ UNCHANGED <<entries, cached, done, pg, calls, keyOf, call, ent, snap>>
    BY <1>2 DEF ProvisionPlain
  <2> QED BY <2>1, Walk
<1>3. CASE NewDialer(p)
  <2>1. Goto(p, "newPool") /\ WalkOK(pc[p], "newPool")
        /\ UNCHANGED <<entries, cached, done, pg, calls, keyOf, call, ent, snap>>
    BY <1>3 DEF NewDialer
  <2> QED BY <2>1, Walk
<1>4. CASE StartContainer(p)
  <2>1. Goto(p, "tcLookup") /\ WalkOK(pc[p], "tcLookup")
        /\ UNCHANGED <<entries, cached, done, pg, calls, keyOf, call, ent, snap>>
    BY <1>4 DEF StartContainer
  <2> QED BY <2>1, Walk
<1>5. CASE TcLookup(p)
  <2>1. PICK y \in MakePc : Goto(p, y) BY <1>5 DEF TcLookup
  <2>2. WalkOK(pc[p], y)
        /\ UNCHANGED <<entries, cached, done, pg, calls, keyOf, call, ent, snap>>
    BY <1>5, <2>1 DEF TcLookup
  <2> QED BY <2>1, <2>2, Walk
<1>6. CASE TcAttach(p)
  <2>1. Goto(p, "newPool") /\ WalkOK(pc[p], "newPool")
        /\ UNCHANGED <<entries, cached, done, pg, calls, keyOf, call, ent, snap>>
    BY <1>6 DEF TcAttach
  <2> QED BY <2>1, Walk
<1>7. CASE StartServer(p)
  <2>1. Goto(p, "register") /\ WalkOK(pc[p], "register")
        /\ UNCHANGED <<entries, cached, done, pg, calls, keyOf, call, ent, snap>>
    BY <1>7 DEF StartServer
  <2> QED BY <2>1, Walk
<1>8. CASE Register(p)
  <2>1. PICK y \in MakePc : Goto(p, y) BY <1>8 DEF Register
  <2>2. WalkOK(pc[p], y)
        /\ UNCHANGED <<entries, cached, done, pg, calls, keyOf, call, ent, snap>>
    BY <1>8, <2>1 DEF Register
  <2> QED BY <2>1, <2>2, Walk
<1>9. CASE StopOld(p)
  <2>1. Goto(p, "newPool") /\ WalkOK(pc[p], "newPool")
        /\ UNCHANGED <<entries, cached, done, pg, calls, keyOf, call, ent, snap>>
    BY <1>9 DEF StopOld, StopHeld
  <2> QED BY <2>1, Walk
<1>10. CASE NewPool(p) BY <1>10, NewPoolLife
<1>11. CASE NewPoolFails(p)
  <2>1. PICK y \in MakePc \cup FailPc : Goto(p, y) BY <1>11 DEF NewPoolFails
  <2>2. WalkOK(pc[p], y)
        /\ UNCHANGED <<entries, cached, done, pg, calls, keyOf, call, ent, snap>>
    BY <1>11, <2>1 DEF NewPoolFails
  <2> QED BY <2>1, <2>2, Walk
<1>12. CASE UndoTake(p)
  <2>1. Goto(p, "undoStop") /\ WalkOK(pc[p], "undoStop")
        /\ UNCHANGED <<entries, cached, done, pg, calls, keyOf, call, ent, snap>>
    BY <1>12 DEF UndoTake
  <2> QED BY <2>1, Walk
<1>13. CASE UndoStop(p)
  <2>1. Goto(p, "fail") /\ WalkOK(pc[p], "fail")
        /\ UNCHANGED <<entries, cached, done, pg, calls, keyOf, call, ent, snap>>
    BY <1>13 DEF UndoStop, StopHeld
  <2> QED BY <2>1, Walk
<1> QED BY <1>1, <1>2, <1>3, <1>4, <1>5, <1>6, <1>7, <1>8, <1>9, <1>10, <1>11,
       <1>12, <1>13 DEF Provisioning

\* The end of the creation.
LEMMA LifeEnding ==
  ASSUME TypeInv, LifeInv, NEW p \in Procs, Ending(p)
  PROVE  LifeInv'
<1> USE DEF registry, backends, embedded, history, locals, gsLocals
<1> USE DEF WalkOK, OpenPc, MakePc, FailPc, GsPc
<1>1. CASE Store(p) BY <1>1, StoreLife
<1>2. CASE CloseDone(p) BY <1>2, CloseDoneLife
<1>3. CASE Fail(p)
  <2>1. Goto(p, "failRelease") /\ WalkOK(pc[p], "failRelease")
        /\ UNCHANGED <<entries, cached, done, pg, calls, keyOf, call, ent, snap>>
    BY <1>3 DEF Fail, TakeResources
  <2> QED BY <2>1, Walk
<1>4. CASE FailReleaseOne(p)
  <2>1. Goto(p, "failRelease") /\ WalkOK(pc[p], "failRelease")
        /\ UNCHANGED <<entries, cached, done, pg, calls, keyOf, call, ent, snap>>
    BY <1>4 DEF FailReleaseOne, ReleaseOne, Goto, TypeInv, LocalsOK
  <2> QED BY <2>1, Walk
<1>5. CASE FailReleased(p)
  <2>1. Goto(p, "remove") /\ WalkOK(pc[p], "remove")
        /\ UNCHANGED <<entries, cached, done, pg, calls, keyOf, call, ent, snap>>
    BY <1>5 DEF FailReleased
  <2> QED BY <2>1, Walk
<1>6. CASE RemoveFailed(p) BY <1>6, UnlistLife
<1> QED BY <1>1, <1>2, <1>3, <1>4, <1>5, <1>6 DEF Ending

\* The drain of an entry.
LEMMA LifeDraining ==
  ASSUME TypeInv, LifeInv, NEW t \in Threads, Draining(t)
  PROVE  LifeInv'
<1> USE DEF registry, backends, embedded, history, locals, gsLocals
<1> USE DEF WalkOK, OpenPc, MakePc, FailPc, GsPc
<1>1. CASE Drain(t) BY <1>1, DrainLife
<1>2. CASE ClosePool(t) BY <1>2, ClosePoolLife
<1>3. CASE Take(t)
  <2>1. Goto(t, "release") /\ WalkOK(pc[t], "release")
        /\ UNCHANGED <<entries, cached, done, pg, calls, keyOf, call, ent, snap>>
    BY <1>3 DEF Take, TakeResources
  <2> QED BY <2>1, Walk
<1>4. CASE DrainReleaseOne(t)
  <2>1. Goto(t, "release") /\ WalkOK(pc[t], "release")
        /\ UNCHANGED <<entries, cached, done, pg, calls, keyOf, call, ent, snap>>
    BY <1>4 DEF DrainReleaseOne, ReleaseOne, Goto, TypeInv, LocalsOK
  <2> QED BY <2>1, Walk
<1>5. CASE Released(t)
  <2>1. CASE t = GS BY <1>5, <2>1, DrainedLife, GSFacts DEF Released
  <2>2. CASE t \in Procs /\ inst[t] # None
    <3>1. Goto(t, "stopInst") /\ WalkOK(pc[t], "stopInst")
          /\ UNCHANGED <<entries, cached, done, pg, calls, keyOf, call, ent, snap>>
      BY <1>5, <2>2, GSFacts DEF Released
    <3> QED BY <3>1, Walk
  <2>3. CASE t \in Procs /\ inst[t] = None
    BY <1>5, <2>3, Leave, GSFacts DEF Released
  <2> QED BY <2>1, <2>2, <2>3, GSFacts
<1> QED BY <1>1, <1>2, <1>3, <1>4, <1>5 DEF Draining

\* The steps of ClosePoolWithKey around the drain.
LEMMA LifeClosing ==
  ASSUME TypeInv, LifeInv, NEW p \in Procs, Closing(p)
  PROVE  LifeInv'
<1> USE DEF registry, backends, embedded, history, locals, gsLocals
<1> USE DEF WalkOK, OpenPc, MakePc, FailPc, GsPc
<1>1. CASE CloseRemove(p) BY <1>1, CloseRemoveLife
<1>2. CASE CloseInst(p)
  <2>1. CASE Return(p, None)
    BY <1>2, <2>1, Leave DEF CloseInst
  <2>2. CASE ~Return(p, None)
    <3>1. PICK y \in {"stopInst", "drain"} :
            /\ Goto(p, y)
            /\ ent[p] # None => y = "drain"
            /\ ent[p] = None => y = "stopInst"
            /\ UNCHANGED <<ret, call, ent, tgt, rel>>
      BY <1>2, <2>2 DEF CloseInst
    <3> QED BY <1>2, <3>1, CloseInstLife
  <2> QED BY <2>1, <2>2
<1>3. CASE CloseStop(p) BY <1>3, Leave DEF CloseStop
<1> QED BY <1>1, <1>2, <1>3 DEF Closing

\* The steps of gracefulShutdown outside the drain of an entry, and the signal.
LEMMA LifeShutdown ==
  ASSUME TypeInv, LifeInv,
         \/ Signal \/ GsSnapshot \/ GsNext \/ GsInstances \/ GsStop
         \/ GsStragglers \/ GsStop2
  PROVE  LifeInv'
<1> USE DEF registry, backends, embedded, history, locals, gsLocals
<1> USE DEF WalkOK, GsPc
<1>1. CASE GsSnapshot BY <1>1, GsSnapshotLife
<1>2. CASE GsNext
  <2>1. CASE snap = {}
    <3>1. Goto(GS, "gsInst") /\ WalkOK(pc[GS], "gsInst")
          /\ UNCHANGED <<entries, cached, done, pg, calls, keyOf, call, ent, snap>>
      BY <1>2, <2>1 DEF GsNext
    <3> QED BY <3>1, Walk, GSFacts
  <2>2. CASE snap # {}
    <3>1. PICK e \in snap :
            ent' = [ent EXCEPT ![GS] = e] /\ snap' = snap \ {e} /\ Goto(GS, "drain")
      BY <1>2, <2>2 DEF GsNext
    <3> QED BY <1>2, <3>1, GsNextLife DEF GsNext
  <2> QED BY <2>1, <2>2
<1>3. CASE Signal
  <2>1. Goto(GS, "gsSnap") /\ WalkOK(pc[GS], "gsSnap")
        /\ UNCHANGED <<entries, cached, done, pg, calls, keyOf, call, ent, snap>>
    BY <1>3 DEF Signal
  <2> QED BY <2>1, Walk, GSFacts
<1>4. ASSUME NEW x \in GsPc, NEW y \in GsPc,
             SnapshotInstances(x, y) \/ SnapshotStopped(x, y)
      PROVE  LifeInv'
  <2>1. Goto(GS, y) /\ WalkOK(pc[GS], y)
        /\ UNCHANGED <<entries, cached, done, pg, calls, keyOf, call, ent, snap>>
    BY <1>4 DEF SnapshotInstances, SnapshotStopped
  <2> QED BY <2>1, Walk, GSFacts
<1>5. ASSUME NEW x \in GsPc, StopSnapshot(x)
      PROVE  LifeInv'
  <2>1. Goto(GS, x) /\ WalkOK(pc[GS], x)
        /\ UNCHANGED <<entries, cached, done, pg, calls, keyOf, call, ent, snap>>
    BY <1>5 DEF StopSnapshot, Goto, TypeInv, LocalsOK
  <2> QED BY <2>1, Walk, GSFacts
<1> QED
  BY <1>1, <1>2, <1>3, <1>4, <1>5 DEF GsInstances, GsStop, GsStragglers, GsStop2

\* LifeInv holds of every initial state,
LEMMA LifeInit == Init => LifeInv
<1> SUFFICES ASSUME Init PROVE LifeInv OBVIOUS
<1> USE DEF Init, None
<1>1. UniqueCalls BY DEF UniqueCalls
<1>2. CallsMade
  <2> SUFFICES ASSUME NEW p \in Procs PROVE call[p] <= calls BY DEF CallsMade
  <2>1. call[p] = 0 /\ calls = 0 OBVIOUS
  <2> HIDE DEF Init
  <2> QED BY <2>1
<1>3. FutureVirgin BY DEF FutureVirgin, Virgin
<1>4. NotCreated BY DEF NotCreated, OpenPc, ClosePc
<1>5. Creations BY DEF Creations, Creation, Making, MakePc, EndPc, FailPc
<1>6. CachedPoolOpen BY DEF CachedPoolOpen
<1>7. Drains BY DEF Drains, Draining1
<1>8. OneDrainer BY DEF OneDrainer, Drainer
<1>9. DrainedUnlisted BY DEF DrainedUnlisted, Drainer
<1>10. SnapUnlisted BY DEF SnapUnlisted
<1>11. ListedUnderKey BY DEF ListedUnderKey
<1>12. RetiredHeld BY DEF RetiredHeld
<1> QED
  BY <1>1, <1>2, <1>3, <1>4, <1>5, <1>6, <1>7, <1>8, <1>9, <1>10, <1>11, <1>12
  DEF LifeInv

\* and every step keeps it.
LEMMA LifeNext == TypeInv /\ LifeInv /\ [Next]_vars => LifeInv'
<1> SUFFICES ASSUME TypeInv, LifeInv, [Next]_vars PROVE LifeInv' OBVIOUS
<1>1. ASSUME NEW p \in Procs, NEW k \in Keys, OpenCall(p, k) \/ CloseCall(p, k)
      PROVE  LifeInv'
  BY <1>1, ArriveLife DEF OpenCall, CloseCall
<1>2. ASSUME NEW p \in Procs, Work(p)
      PROVE  LifeInv'
  BY <1>2, LifeOpening, LifeProvisioning, LifeEnding, LifeDraining, LifeClosing,
     LifeMigrate DEF Work
<1>3. CASE Signal BY <1>3, LifeShutdown
<1>4. CASE Shutdown BY <1>4, LifeShutdown, LifeDraining DEF Shutdown
<1>5. CASE UNCHANGED vars
  <2>1. Goto(GS, pc[GS]) /\ WalkOK(pc[GS], pc[GS])
    BY <1>5 DEF vars, Goto, WalkOK, TypeInv, LocalsOK
  <2>2. UNCHANGED <<entries, cached, done, pg, calls, keyOf, call, ent, snap>>
    BY <1>5 DEF vars, registry, backends, history, locals, gsLocals
  <2> QED BY <2>1, <2>2, Walk, GSFacts
<1> QED BY <1>1, <1>2, <1>3, <1>4, <1>5 DEF Next, Quiet

\* LifeInv is an invariant.
LEMMA LifeInvariance == Spec => []LifeInv
BY TypeInvariance, LifeInit, LifeNext, PTL DEF Spec

\* The pool that an entry caches is open, in every reachable state of every instance:
\* ClosePoolWithKey and gracefulShutdown move a pool out of its entry before they
\* close it, and resolvePool stores a pool only in an entry nobody has drained.
THEOREM CachedPoolOpenHolds == Spec => []CachedPoolOpen
<1>1. LifeInv => CachedPoolOpen BY DEF LifeInv
<1> QED BY <1>1, LifeInvariance, PTL

\* However many goroutines close and shut down at once, a pool is closed by one of
\* them: the pool a goroutine is about to close is open, and no other is about to.
THEOREM ClosedOnceHolds == Spec => []ClosedOnce
<1>1. TypeInv /\ LifeInv => ClosedOnce
  <2> SUFFICES ASSUME TypeInv, LifeInv PROVE ClosedOnce OBVIOUS
  <2>1. \A t \in Threads : pc[t] = "closePool" => pg[ent[t]] = "open"
    BY DEF LifeInv, Drains, Draining1
  <2>2. \A t \in Threads : pc[t] = "closePool" => Drainer(t)
    BY RefFacts DEF TypeInv, FramesOK, Frame, FrameOK, Holding, DrainPc, Drainer
  <2>3. \A t, u \in Threads :
          pc[t] = "closePool" /\ pc[u] = "closePool" /\ t # u => ent[t] # ent[u]
    BY <2>2 DEF LifeInv, OneDrainer
  <2> QED BY <2>1, <2>3 DEF ClosedOnce
<1> QED BY <1>1, TypeInvariance, LifeInvariance, PTL

\* The steps that bring a pool into an entry or change what a call returned.
LEMMA OnlyStore ==
  ASSUME [Next]_vars, NEW e \in cached', e \notin cached
  PROVE  \E p \in Procs : Store(p) /\ e = ent[p]
<1> USE DEF registry
<1>1. ASSUME NEW p \in Procs, NEW k \in Keys, OpenCall(p, k) \/ CloseCall(p, k)
      PROVE  FALSE
  BY <1>1 DEF OpenCall, CloseCall, Arrive
<1>2. ASSUME NEW t, Draining(t)
      PROVE  FALSE
  BY <1>2 DEF Draining, Drain, ClosePool, Take, TakeResources, DrainReleaseOne,
     ReleaseOne, Released
<1>3. ASSUME NEW p \in Procs, Opening(p)
      PROVE  FALSE
  BY <1>3 DEF Opening, Lookup, FastRead, FastWait, Slow, SlowWait, Replace, CreateEntry
<1>4. ASSUME NEW p \in Procs, Provisioning(p)
      PROVE  FALSE
  BY <1>4 DEF Provisioning, ProvisionFails, ProvisionPlain, NewDialer, StartContainer,
     TcLookup, TcAttach, StartServer, Register, StopOld, NewPool, NewPoolFails, UndoTake,
     UndoStop, StopHeld
<1>5. ASSUME NEW p \in Procs, Ending(p)
      PROVE  Store(p) /\ e = ent[p]
  BY <1>5 DEF Ending, Store, CloseDone, Fail, FailReleaseOne, FailReleased, RemoveFailed,
     TakeResources, ReleaseOne
<1>6. ASSUME NEW p \in Procs, Closing(p)
      PROVE  FALSE
  BY <1>6 DEF Closing, CloseRemove, CloseInst, CloseStop
<1>7. CASE Signal BY <1>7 DEF Signal
<1>8. CASE Shutdown
  BY <1>2, <1>8 DEF Shutdown, GsSnapshot, GsNext, GsInstances, GsStop, GsStragglers,
     GsStop2, SnapshotInstances, StopSnapshot, SnapshotStopped
<1>9. CASE UNCHANGED vars BY <1>9 DEF vars
<1>10. ASSUME NEW p \in Procs, Migrate(p)
       PROVE  FALSE
  BY <1>10 DEF Migrate
<1> QED
  BY <1>1, <1>2, <1>3, <1>4, <1>5, <1>6, <1>7, <1>8, <1>9, <1>10 DEF Next, Work, Quiet

\* A settled entry without a pool never gets one: its creator is gone, and resolvePool
\* stores a pool in the entry of its own call only.  So what a close or the shutdown
\* drained stays drained.
THEOREM SettledStaysHolds == Spec => SettledStays
<1>1. TypeInv /\ LifeInv /\ [Next]_vars => [\A e \in done \ cached : e \notin cached']_vars
  <2> SUFFICES ASSUME TypeInv, LifeInv, [Next]_vars, NEW e \in done \ cached, e \in cached'
               PROVE  FALSE
    OBVIOUS
  <2>1. PICK p \in Procs : Store(p) /\ e = ent[p] BY OnlyStore
  <2>2. e \notin done
    BY <2>1 DEF Store, TypeInv, FramesOK, Frame, FrameOK, LifeInv, Creations, Creation,
       Making, EndPc
  <2> QED BY <2>2
<1> QED BY <1>1, TypeInvariance, LifeInvariance, PTL DEF Spec, SettledStays

\* What resolvePool returns is an open pool, at the moment it returns it.
LEMMA HandedOutStep ==
  ASSUME TypeInv, LifeInv, [Next]_vars, NEW q \in Procs,
         ret'[q] # ret[q], ret'[q] # None
  PROVE  pg[ret'[q]] = "open"
<1> USE DEF TypeInv, CallsOK
<1>1. ASSUME NEW p \in Procs, NEW k \in Keys, OpenCall(p, k) \/ CloseCall(p, k)
      PROVE  FALSE
  BY <1>1 DEF OpenCall, CloseCall, Arrive
<1>2. ASSUME NEW t \in Threads, Draining(t)
      PROVE  FALSE
  <2>1. CASE Released(t) BY <2>1 DEF Released, Return
  <2>2. CASE ~Released(t)
    BY <1>2, <2>2 DEF Draining, Drain, ClosePool, Take, TakeResources, DrainReleaseOne,
       ReleaseOne
  <2> QED BY <2>1, <2>2
<1>3. ASSUME NEW p \in Procs, Opening(p)
      PROVE  pg[ret'[q]] = "open"
  <2>1. PICK e \in cached : Return(p, e)
    BY <1>3 DEF Opening, Lookup, FastRead, FastWait, Slow, SlowWait, Replace, CreateEntry
  <2>2. ret'[q] = e BY <2>1 DEF Return
  <2> QED BY <2>2 DEF LifeInv, CachedPoolOpen
<1>4. ASSUME NEW p \in Procs, Provisioning(p)
      PROVE  FALSE
  BY <1>4 DEF Provisioning, ProvisionFails, ProvisionPlain, NewDialer, StartContainer,
     TcLookup, TcAttach, StartServer, Register, StopOld, NewPool, NewPoolFails, UndoTake,
     UndoStop, StopHeld
<1>5. ASSUME NEW p \in Procs, Ending(p)
      PROVE  pg[ret'[q]] = "open"
  <2>1. CloseDone(p)
    BY <1>5 DEF Ending, Store, Fail, FailReleaseOne, FailReleased, RemoveFailed,
       TakeResources, ReleaseOne
  <2>2. ret'[q] = ent[p] /\ pc[p] = "closeDone" BY <2>1 DEF CloseDone, Return
  <2>3. ent[p] = call[p] BY <2>2 DEF FramesOK, Frame, FrameOK, Making, EndPc
  <2> QED BY <2>2, <2>3 DEF LifeInv, Creations, Creation
<1>6. ASSUME NEW p \in Procs, Closing(p)
      PROVE  FALSE
  <2>1. CASE Return(p, None) BY <2>1 DEF Return
  <2>2. CASE ~Return(p, None) BY <1>6, <2>2 DEF Closing, CloseRemove, CloseInst, CloseStop
  <2> QED BY <2>1, <2>2
<1>7. CASE Signal BY <1>7 DEF Signal
<1>8. CASE Shutdown
  BY <1>2, <1>8, GSFacts DEF Shutdown, GsSnapshot, GsNext, GsInstances, GsStop,
     GsStragglers, GsStop2, SnapshotInstances, StopSnapshot, SnapshotStopped
<1>9. CASE UNCHANGED vars BY <1>9 DEF vars
<1>10. ASSUME NEW p \in Procs, Migrate(p)
       PROVE  FALSE
  BY <1>10 DEF Migrate
<1> QED
  BY <1>1, <1>2, <1>3, <1>4, <1>5, <1>6, <1>7, <1>8, <1>9, <1>10, GSFacts
  DEF Next, Work, Quiet

\* resolvePool returns a pool only while that pool is open, whatever closes, failures and
\* shutdowns run beside it: a call of OpenPoolWithKey ends with a closed pool only if the
\* close came while the call was running its migrations.
THEOREM ResolvedOpenHolds == Spec => ResolvedOpen
<1>1. TypeInv /\ LifeInv /\ [Next]_vars =>
        [\A p \in Procs :
           ret'[p] # ret[p] /\ ret'[p] # None => pg[ret'[p]] = "open"]_vars
  BY HandedOutStep
<1> QED BY <1>1, TypeInvariance, LifeInvariance, PTL DEF Spec, ResolvedOpen

(***************************************************************************)
(* Nobody waits for ever: an entry that is not settled is in the hands of  *)
(* its creator, and a creator takes the next step whatever others do.      *)
(***************************************************************************)
\* Entry e is settled, or a goroutine is creating it.
Claimed(e) == e \in done \/ \E p \in Procs : call[p] = e /\ pc[p] \in Making

ClaimInv == \A e \in Entry : Virgin(e) \/ Claimed(e)

\* A creation goes on until it has settled its entry.
LEMMA ClaimKept ==
  ASSUME TypeInv, [Next]_vars, NEW e \in Entry, Claimed(e)
  PROVE  Claimed(e)'
<1> USE DEF registry, backends, embedded, history, locals, gsLocals
<1>1. done \subseteq done'
  <2>1. ASSUME NEW p \in Procs, Work(p), ~CloseDone(p)
        PROVE  UNCHANGED done
    BY <2>1 DEF Work, Opening, Lookup, FastRead, FastWait, Slow, SlowWait, Replace,
       CreateEntry, Migrate, Provisioning, ProvisionFails, ProvisionPlain, NewDialer,
       StartContainer, TcLookup, TcAttach, StartServer, Register, StopOld, NewPool,
       NewPoolFails, UndoTake, UndoStop, StopHeld, Ending, Store, Fail, FailReleaseOne,
       FailReleased, RemoveFailed, TakeResources, ReleaseOne, Draining, Drain, ClosePool,
       Take, DrainReleaseOne, Released, Closing, CloseRemove, CloseInst, CloseStop
  <2>2. ASSUME NEW p \in Procs, CloseDone(p)
        PROVE  done \subseteq done'
    BY <2>2 DEF CloseDone
  <2>3. ASSUME NEW p \in Procs, NEW k \in Keys, OpenCall(p, k) \/ CloseCall(p, k)
        PROVE  UNCHANGED done
    BY <2>3 DEF OpenCall, CloseCall, Arrive
  <2>4. CASE Signal \/ Shutdown
    BY <2>4 DEF Signal, Shutdown, GsSnapshot, GsNext, GsInstances, GsStop, GsStragglers,
       GsStop2, SnapshotInstances, StopSnapshot, SnapshotStopped, Draining, Drain,
       ClosePool, Take, DrainReleaseOne, Released, TakeResources, ReleaseOne
  <2>5. CASE UNCHANGED vars BY <2>5 DEF vars
  <2> QED BY <2>1, <2>2, <2>3, <2>4, <2>5 DEF Next, Quiet
<1>2. CASE e \in done BY <1>1, <1>2 DEF Claimed
<1>3. ASSUME NEW q \in Procs, call[q] = e, pc[q] \in Making
      PROVE  Claimed(e)'
  <2>1. ASSUME pc'[q] = pc[q], call'[q] = call[q]
        PROVE  Claimed(e)'
    BY <1>3, <2>1 DEF Claimed
  <2>2. ASSUME NEW p \in Procs, p # q, Work(p) \/ \E k \in Keys : OpenCall(p, k) \/ CloseCall(p, k)
        PROVE  pc'[q] = pc[q] /\ call'[q] = call[q]
    <3>1. \A l : Goto(p, l) => pc'[q] = pc[q]
      BY <2>2 DEF Goto, TypeInv, LocalsOK
    <3>2. \A g : Return(p, g) => pc'[q] = pc[q] /\ call'[q] = call[q]
      BY <2>2, <3>1 DEF Return, TypeInv, LocalsOK
    <3>3. CASE \E k \in Keys : OpenCall(p, k) \/ CloseCall(p, k)
      BY <2>2, <3>1, <3>3 DEF OpenCall, CloseCall, Arrive, TypeInv, LocalsOK
    <3>4. CASE Opening(p)
      BY <3>1, <3>2, <3>4 DEF Opening, Lookup, FastRead, FastWait, Slow, SlowWait, Replace,
         CreateEntry
    <3>5. CASE Provisioning(p)
      BY <3>1, <3>5 DEF Provisioning, ProvisionFails, ProvisionPlain, NewDialer,
         StartContainer, TcLookup, TcAttach, StartServer, Register, StopOld, NewPool,
         NewPoolFails, UndoTake, UndoStop, StopHeld
    <3>6. CASE Ending(p)
      BY <3>1, <3>2, <3>6 DEF Ending, Store, CloseDone, Fail, FailReleaseOne, FailReleased,
         RemoveFailed, TakeResources, ReleaseOne
    <3>7. CASE Draining(p)
      BY <3>1, <3>2, <3>7, GSFacts DEF Draining, Drain, ClosePool, Take, DrainReleaseOne,
         Released, TakeResources, ReleaseOne
    <3>8. CASE Closing(p)
      BY <3>1, <3>2, <3>8 DEF Closing, CloseRemove, CloseInst, CloseStop
    <3>9. CASE Migrate(p) BY <3>1, <3>9 DEF Migrate, Goto, TypeInv, LocalsOK
    <3> QED BY <2>2, <3>3, <3>4, <3>5, <3>6, <3>7, <3>8, <3>9 DEF Work
  <2>3. CASE Signal \/ Shutdown
    <3>1. q # GS BY GSFacts
    <3>2. UNCHANGED call /\ (UNCHANGED pc \/ \E l : pc' = [pc EXCEPT ![GS] = l])
      <4>1. CASE Draining(GS)
        BY <4>1, GSFacts DEF Draining, Drain, ClosePool, Take, DrainReleaseOne, Released,
           TakeResources, ReleaseOne, Goto
      <4>2. CASE Signal \/ (Shutdown /\ ~Draining(GS))
        BY <4>2 DEF Signal, Shutdown, GsSnapshot, GsNext, GsInstances, GsStop,
           GsStragglers, GsStop2, SnapshotInstances, StopSnapshot, SnapshotStopped, Goto
      <4> QED BY <2>3, <4>1, <4>2
    <3>3. pc'[q] = pc[q] /\ call'[q] = call[q] BY <3>1, <3>2 DEF TypeInv, LocalsOK
    <3> QED BY <2>1, <3>3
  <2>4. CASE CloseDone(q)
    <3>1. ent[q] = call[q] BY <1>3 DEF TypeInv, FramesOK, Frame, FrameOK
    <3> QED BY <1>3, <2>4, <3>1 DEF CloseDone, Claimed
  <2>5. ASSUME NEW l \in Making, Goto(q, l), UNCHANGED call
        PROVE  Claimed(e)'
    <3>1. pc'[q] = l /\ call'[q] = e BY <1>3, <2>5 DEF Goto, TypeInv, LocalsOK
    <3> QED BY <3>1, <2>5 DEF Claimed
  <2>6. CASE Provisioning(q)
    <3>1. UNCHANGED call /\ \E l \in Making : Goto(q, l)
      BY <2>6 DEF Provisioning, ProvisionFails, ProvisionPlain, NewDialer, StartContainer,
         TcLookup, TcAttach, StartServer, Register, StopOld, NewPool, NewPoolFails,
         UndoTake, UndoStop, StopHeld, Making, MakePc, EndPc
    <3> QED BY <2>5, <3>1
  <2>7. CASE Ending(q) /\ ~CloseDone(q)
    <3>1. CASE FailReleaseOne(q)
      BY <2>1, <3>1 DEF FailReleaseOne, ReleaseOne
    <3>2. CASE ~FailReleaseOne(q)
      <4>1. UNCHANGED call /\ \E l \in Making : Goto(q, l)
        BY <2>7, <3>2 DEF Ending, Store, Fail, FailReleased, RemoveFailed, TakeResources,
           Making, MakePc, EndPc
      <4> QED BY <2>5, <4>1
    <3> QED BY <3>1, <3>2
  <2>8. ~Opening(q) /\ ~Closing(q) /\ ~Draining(q) /\ ~Migrate(q)
        /\ \A k \in Keys : ~OpenCall(q, k) /\ ~CloseCall(q, k)
    BY <1>3 DEF Opening, Lookup, FastRead, FastWait, Slow, SlowWait, Replace, Draining,
       Drain, ClosePool, Take, DrainReleaseOne, Released, TakeResources, ReleaseOne,
       Closing, CloseRemove, CloseInst, CloseStop, OpenCall, CloseCall, Arrive, Making,
       MakePc, EndPc, Migrate
  <2>9. CASE UNCHANGED vars BY <2>1, <2>9 DEF vars
  <2> QED
    BY <2>1, <2>2, <2>3, <2>4, <2>6, <2>7, <2>8, <2>9 DEF Next, Work, Quiet
<1> QED BY <1>2, <1>3 DEF Claimed

\* An entry nobody has seen stays so until its call creates it.
LEMMA VirginKept ==
  ASSUME TypeInv, LifeInv, [Next]_vars, NEW e \in Entry, Virgin(e)
  PROVE  Virgin(e)' \/ Claimed(e)'
<1> USE DEF TypeInv, registry, backends, embedded, history, locals, gsLocals
<1>1. e # None BY RefFacts
<1>2. ASSUME NEW p \in Procs, CreateEntry(p)
      PROVE  Virgin(e)' \/ Claimed(e)'
  <2>1. CASE e = call[p]
    <3>1. call'[p] = e /\ pc'[p] = "provision"
      BY <1>2, <2>1 DEF CreateEntry, Goto, LocalsOK
    <3> QED BY <3>1 DEF Claimed, Making, MakePc
  <2>2. CASE e # call[p]
    BY <1>2, <2>2 DEF CreateEntry, Goto, LocalsOK, RegistryOK, Virgin
  <2> QED BY <2>1, <2>2
<1>3. ASSUME NEW p \in Procs, Opening(p), ~CreateEntry(p)
      PROVE  Virgin(e)'
  <2>1. UNCHANGED <<entries, cached, done, pg, snap>>
    BY <1>3 DEF Opening, Lookup, FastRead, FastWait, Slow, SlowWait, Replace
  <2>2. PICK x : x \in {ent[p], entries[Key(p)], None} /\ ent' = [ent EXCEPT ![p] = x]
    <3>1. ent' = [ent EXCEPT ![p] = entries[Key(p)]] \/ ent' = [ent EXCEPT ![p] = None]
          \/ UNCHANGED ent
      BY <1>3 DEF Opening, Lookup, FastRead, FastWait, Slow, SlowWait, Replace, Return
    <3>2. UNCHANGED ent => ent' = [ent EXCEPT ![p] = ent[p]] BY DEF LocalsOK
    <3> QED BY <3>1, <3>2
  <2>3. Key(p) \in Keys
    BY <1>3, RunningCall DEF Opening, Lookup, FastRead, FastWait, Slow, SlowWait, Replace
  <2> QED BY <1>1, <2>1, <2>2, <2>3 DEF Virgin, LocalsOK
<1>4. ASSUME NEW p \in Procs, Provisioning(p)
      PROVE  Virgin(e)'
  <2>1. UNCHANGED <<entries, cached, done, snap, ent>>
    BY <1>4 DEF Provisioning, ProvisionFails, ProvisionPlain, NewDialer, StartContainer,
       TcLookup, TcAttach, StartServer, Register, StopOld, NewPool, NewPoolFails, UndoTake,
       UndoStop, StopHeld
  <2>2. UNCHANGED pg \/ NewPool(p)
    BY <1>4 DEF Provisioning, ProvisionFails, ProvisionPlain, NewDialer, StartContainer,
       TcLookup, TcAttach, StartServer, Register, StopOld, NewPoolFails, UndoTake,
       UndoStop, StopHeld
  <2>3. NewPool(p) => pg' = [pg EXCEPT ![ent[p]] = "open"]
    BY DEF NewPool, FramesOK, Frame, FrameOK, Making, MakePc
  <2>4. ent[p] # e BY DEF Virgin
  <2>5. pg'[e] = pg[e] BY <2>2, <2>3, <2>4 DEF BackendsOK
  <2> QED BY <2>1, <2>5 DEF Virgin
<1>5. ASSUME NEW p \in Procs, Ending(p)
      PROVE  Virgin(e)'
  <2>1. /\ UNCHANGED <<pg, snap>>
        /\ UNCHANGED entries \/ entries' = [entries EXCEPT ![Key(p)] = None]
        /\ cached' \subseteq cached \cup {ent[p]}
        /\ done' \subseteq done \cup {ent[p]}
        /\ UNCHANGED ent \/ ent' = [ent EXCEPT ![p] = None]
    BY <1>5 DEF Ending, Store, CloseDone, Fail, FailReleaseOne, FailReleased, RemoveFailed,
       TakeResources, ReleaseOne, Return
  <2>2. ent[p] # e BY DEF Virgin
  <2>3. \A k \in Keys : entries'[k] # e BY <1>1, <2>1 DEF Virgin, RegistryOK
  <2>4. \A t \in Threads : ent'[t] # e BY <1>1, <2>1 DEF Virgin, LocalsOK
  <2> QED BY <2>1, <2>2, <2>3, <2>4 DEF Virgin
<1>6. ASSUME NEW t \in Threads, Draining(t)
      PROVE  Virgin(e)'
  <2>1. /\ UNCHANGED <<entries, done, snap>>
        /\ UNCHANGED pg \/ pg' = [pg EXCEPT ![ent[t]] = "closed"]
        /\ cached' \subseteq cached
        /\ UNCHANGED ent \/ ent' = [ent EXCEPT ![t] = None]
    BY <1>6 DEF Draining, Drain, ClosePool, Take, DrainReleaseOne, Released, TakeResources,
       ReleaseOne, Return
  <2>2. ent[t] # e BY DEF Virgin
  <2>3. pg'[e] = pg[e] BY <2>1, <2>2 DEF BackendsOK
  <2>4. \A u \in Threads : ent'[u] # e BY <1>1, <2>1 DEF Virgin, LocalsOK
  <2> QED BY <2>1, <2>3, <2>4 DEF Virgin
<1>7. ASSUME NEW p \in Procs, Closing(p)
      PROVE  Virgin(e)'
  <2>1. /\ UNCHANGED <<cached, done, pg, snap>>
        /\ UNCHANGED entries \/ entries' = [entries EXCEPT ![Key(p)] = None]
        /\ \/ UNCHANGED ent
           \/ ent' = [ent EXCEPT ![p] = None]
           \/ ent' = [ent EXCEPT ![p] = entries[Key(p)]]
    BY <1>7 DEF Closing, CloseRemove, CloseInst, CloseStop, Return
  <2>2. Key(p) \in Keys
    BY <1>7, RunningCall DEF Closing, CloseRemove, CloseInst, CloseStop
  <2> QED BY <1>1, <2>1, <2>2 DEF Virgin, RegistryOK, LocalsOK
<1>8. ASSUME NEW p \in Procs, NEW k \in Keys, OpenCall(p, k) \/ CloseCall(p, k)
      PROVE  Virgin(e)'
  BY <1>8 DEF OpenCall, CloseCall, Arrive, Virgin
<1>9. CASE GsSnapshot
  <2>1. \A k \in Keys : entries[k] # e BY DEF Virgin
  <2>2. e \notin snap' /\ \A k \in Keys : entries'[k] # e
    BY <1>1, <1>9, <2>1 DEF GsSnapshot
  <2>3. UNCHANGED <<pg, cached, done, ent>> BY <1>9 DEF GsSnapshot
  <2> QED BY <2>2, <2>3 DEF Virgin
<1>10. CASE GsNext
  <2>1. UNCHANGED <<entries, pg, cached, done>> /\ snap' \subseteq snap
    BY <1>10 DEF GsNext
  <2>2. UNCHANGED ent \/ \E x \in snap : ent' = [ent EXCEPT ![GS] = x]
    BY <1>10 DEF GsNext
  <2>3. \A t \in Threads : ent'[t] # e BY <2>2 DEF Virgin, LocalsOK
  <2> QED BY <2>1, <2>3 DEF Virgin
<1>11. CASE Signal \/ GsInstances \/ GsStop \/ GsStragglers \/ GsStop2
  <2>1. UNCHANGED <<entries, pg, cached, done, ent, snap>>
    BY <1>11 DEF Signal, GsInstances, GsStop, GsStragglers, GsStop2, SnapshotInstances,
       StopSnapshot, SnapshotStopped
  <2> QED BY <2>1 DEF Virgin
<1>12. CASE UNCHANGED vars BY <1>12 DEF vars, Virgin
<1>13. ASSUME NEW p \in Procs, Migrate(p)
       PROVE  Virgin(e)'
  BY <1>13 DEF Migrate, Virgin
<1> QED
  BY <1>2, <1>3, <1>4, <1>5, <1>6, <1>7, <1>8, <1>9, <1>10, <1>11, <1>12, <1>13, GSFacts
     DEF Next, Work, Shutdown, Quiet

\* Every entry that somebody can wait for is settled or being created.
LEMMA ClaimInvariance == Spec => []ClaimInv
<1>1. Init => ClaimInv BY RefFacts DEF Init, ClaimInv, Virgin, None
<1>2. TypeInv /\ LifeInv /\ ClaimInv /\ [Next]_vars => ClaimInv'
  BY ClaimKept, VirginKept DEF ClaimInv
<1> QED BY <1>1, <1>2, TypeInvariance, LifeInvariance, PTL DEF Spec

\* Nobody waits on entry.done in vain: a goroutine that waits to share a pool, and a
\* close or gracefulShutdown that waits to drain it, waits for a goroutine that is
\* creating that very entry, which waits for nobody.  So waits form no cycle.
THEOREM WaitsForCreatorHolds == Spec => []WaitsForCreator
<1>1. TypeInv /\ ClaimInv => WaitsForCreator
  <2> SUFFICES ASSUME TypeInv, ClaimInv, NEW t \in Threads, Awaits(t)
               PROVE  \E p \in Procs : call[p] = ent[t] /\ pc[p] \in MakePc \cup EndPc
    BY DEF WaitsForCreator
  <2>1. ent[t] \in Entry
    BY DEF Awaits, TypeInv, FramesOK, Frame, FrameOK, Holding, DrainPc
  <2>2. ~Virgin(ent[t]) /\ ent[t] \notin done BY DEF Virgin, Awaits
  <2> QED BY <2>1, <2>2 DEF ClaimInv, Claimed, Making
<1> QED BY <1>1, TypeInvariance, ClaimInvariance, PTL

(***************************************************************************)
(* Calls are short: whatever others do, a call goes from one program point *)
(* to a later one, and repeats a step only to release one more resource of *)
(* the list it has taken.  resolvePool retries a failed creation once, not *)
(* for ever.                                                               *)
(***************************************************************************)
\* How far a call at program point l is from its end.
Rank(l) ==
    CASE l = "lookup"      -> 22
      [] l = "fastRead"    -> 21
      [] l = "fastWait"    -> 20
      [] l = "slow"        -> 19
      [] l = "slowWait"    -> 18
      [] l = "replace"     -> 17
      [] l = "provision"   -> 16
      [] l = "tcLookup"    -> 15
      [] l = "tcAttach"    -> 14
      [] l = "register"    -> 13
      [] l = "stopOld"     -> 12
      [] l = "newPool"     -> 11
      [] l = "undoTake"    -> 10
      [] l = "undoStop"    -> 9
      [] l = "store"       -> 9
      [] l = "fail"        -> 8
      [] l = "failRelease" -> 7
      [] l = "remove"      -> 6
      [] l \in {"closeDone", "closeDoneErr"} -> 5
      [] l = "closeRemove" -> 7
      [] l = "closeInst"   -> 6
      [] l = "drain"       -> 5
      [] l = "closePool"   -> 4
      [] l = "take"        -> 3
      [] l = "release"     -> 2
      [] l \in {"stopInst", "migrate"} -> 1
      [] l = "idle"        -> 0

\* The call of p comes nearer to its end.
Advances(p) ==
    \/ Rank(pc'[p]) < Rank(pc[p])
    \/ pc'[p] = pc[p] /\ Len(rel'[p]) < Len(rel[p])

\* A return of resolvePool leads to the migrations or to the end of the call, that of a
\* close or with an error to the end.
LEMMA ReturnGoes ==
  ASSUME NEW p, NEW g, Return(p, g)
  PROVE  /\ \E l \in {"idle", "migrate"} : Goto(p, l)
         /\ g = None => Goto(p, "idle")
BY DEF Return

LEMMA OpeningAdvances ==
  ASSUME TypeInv, NEW p \in Procs, Opening(p)
  PROVE  Advances(p)
<1>1. \E l \in Pcs : Goto(p, l) /\ Rank(l) < Rank(pc[p])
  <2>1. CASE Lookup(p) BY <2>1 DEF Lookup, Rank, Pcs, OpenPc
  <2>2. CASE FastRead(p) BY <2>2, ReturnGoes DEF FastRead, Rank, Pcs, OpenPc
  <2>3. CASE FastWait(p) BY <2>3, ReturnGoes DEF FastWait, Rank, Pcs, OpenPc
  <2>4. CASE Slow(p) BY <2>4, ReturnGoes DEF Slow, CreateEntry, Rank, Pcs, MakePc, OpenPc
  <2>5. CASE SlowWait(p) BY <2>5, ReturnGoes DEF SlowWait, Rank, Pcs, OpenPc
  <2>6. CASE Replace(p) BY <2>6 DEF Replace, CreateEntry, Rank, Pcs, MakePc
  <2> QED BY <2>1, <2>2, <2>3, <2>4, <2>5, <2>6 DEF Opening
<1> QED BY <1>1 DEF Goto, Advances, TypeInv, LocalsOK

LEMMA ProvisioningAdvances ==
  ASSUME TypeInv, NEW p \in Procs, Provisioning(p)
  PROVE  Advances(p)
<1>1. \E l \in Pcs : Goto(p, l) /\ Rank(l) < Rank(pc[p])
  <2>1. CASE ProvisionFails(p) \/ ProvisionPlain(p) \/ NewDialer(p) \/ StartContainer(p)
    BY <2>1 DEF ProvisionFails, ProvisionPlain, NewDialer, StartContainer, Rank, Pcs,
       MakePc, EndPc
  <2>2. CASE TcLookup(p) \/ TcAttach(p) \/ StartServer(p)
    BY <2>2 DEF TcLookup, TcAttach, StartServer, Rank, Pcs, MakePc
  <2>3. CASE Register(p) BY <2>3 DEF Register, Rank, Pcs, MakePc
  <2>4. CASE StopOld(p) \/ UndoStop(p)
    BY <2>4 DEF StopOld, UndoStop, StopHeld, Rank, Pcs, MakePc, EndPc
  <2>5. CASE NewPool(p) \/ NewPoolFails(p)
    BY <2>5 DEF NewPool, NewPoolFails, Rank, Pcs, MakePc, EndPc
  <2>6. CASE UndoTake(p) BY <2>6 DEF UndoTake, Rank, Pcs, MakePc
  <2> QED BY <2>1, <2>2, <2>3, <2>4, <2>5, <2>6 DEF Provisioning
<1> QED BY <1>1 DEF Goto, Advances, TypeInv, LocalsOK

\* One resource less to release.
LEMMA ReleaseAdvances ==
  ASSUME TypeInv, NEW p \in Procs, NEW l, ReleaseOne(p, l)
  PROVE  Advances(p)
<1>1. rel[p] \in Seq(Entry) /\ rel[p] # <<>> BY DEF ReleaseOne, TypeInv, LocalsOK
<1>2. Len(rel[p]) \in Nat /\ Len(rel[p]) > 0 BY <1>1
<1>3. rel'[p] = SubSeq(rel[p], 1, Len(rel[p]) - 1)
  BY DEF ReleaseOne, TypeInv, LocalsOK
<1>4. Len(rel'[p]) = Len(rel[p]) - 1 BY <1>1, <1>2, <1>3
<1>5. pc'[p] = pc[p] BY DEF ReleaseOne
<1> QED BY <1>2, <1>4, <1>5 DEF Advances

LEMMA EndingAdvances ==
  ASSUME TypeInv, NEW p \in Procs, Ending(p)
  PROVE  Advances(p)
<1>1. CASE FailReleaseOne(p) BY <1>1, ReleaseAdvances DEF FailReleaseOne
<1>2. CASE ~FailReleaseOne(p)
  <2>1. \E l \in Pcs : Goto(p, l) /\ Rank(l) < Rank(pc[p])
    BY <1>2, ReturnGoes DEF Ending, Store, CloseDone, Fail, TakeResources, FailReleased,
       RemoveFailed, Rank, Pcs, EndPc
  <2> QED BY <2>1 DEF Goto, Advances, TypeInv, LocalsOK
<1> QED BY <1>1, <1>2

LEMMA ClosingAdvances ==
  ASSUME TypeInv, NEW p \in Procs, Draining(p) \/ Closing(p)
  PROVE  Advances(p)
<1>1. CASE DrainReleaseOne(p) BY <1>1, ReleaseAdvances DEF DrainReleaseOne
<1>2. CASE Draining(p) /\ ~DrainReleaseOne(p)
  <2>1. \E l \in Pcs : Goto(p, l) /\ Rank(l) < Rank(pc[p])
    BY <1>2, ReturnGoes, GSFacts DEF Draining, Drain, ClosePool, Take, TakeResources,
       Released, Rank, Pcs, ClosePc, GsPc
  <2> QED BY <2>1 DEF Goto, Advances, TypeInv, LocalsOK
<1>3. CASE Closing(p)
  <2>1. \E l \in Pcs : Goto(p, l) /\ Rank(l) < Rank(pc[p])
    BY <1>3, ReturnGoes DEF Closing, CloseRemove, CloseInst, CloseStop, Rank, Pcs, ClosePc
  <2> QED BY <2>1 DEF Goto, Advances, TypeInv, LocalsOK
<1> QED BY <1>1, <1>2, <1>3

LEMMA MigrateAdvances ==
  ASSUME TypeInv, NEW p \in Procs, Migrate(p)
  PROVE  Advances(p)
BY DEF Migrate, Goto, Rank, Advances, TypeInv, LocalsOK

\* A running call moves by its own goroutine's steps only.
LEMMA OthersKeepStill ==
  ASSUME TypeInv, [Next]_vars, NEW q \in Procs, pc[q] # "idle", ~Work(q)
  PROVE  pc'[q] = pc[q] /\ rel'[q] = rel[q]
<1> USE DEF locals
<1>1. ASSUME NEW t \in Threads, t # q, NEW l, Goto(t, l)
      PROVE  pc'[q] = pc[q]
  BY <1>1 DEF Goto, TypeInv, LocalsOK
<1>2. ASSUME NEW p \in Procs, p # q, NEW g, Return(p, g)
      PROVE  pc'[q] = pc[q] /\ rel'[q] = rel[q]
  BY <1>1, <1>2 DEF Return, TypeInv, LocalsOK
<1>3. ASSUME NEW t \in Threads, t # q, Draining(t)
      PROVE  pc'[q] = pc[q] /\ rel'[q] = rel[q]
  <2>1. CASE t \in Procs /\ \E g : Return(t, g) BY <1>2, <1>3, <2>1
  <2>2. CASE ~(t \in Procs /\ \E g : Return(t, g))
    <3>1. /\ UNCHANGED pc \/ \E l : Goto(t, l)
          /\ UNCHANGED rel \/ \E x : rel' = [rel EXCEPT ![t] = x]
      BY <1>3, <2>2 DEF Draining, Drain, ClosePool, Take, DrainReleaseOne, Released,
         TakeResources, ReleaseOne
    <3> QED BY <1>1, <1>3, <3>1 DEF TypeInv, LocalsOK
  <2> QED BY <2>1, <2>2
<1>4. ASSUME NEW p \in Procs, p # q, Opening(p) \/ Provisioning(p) \/ Ending(p) \/ Closing(p)
      PROVE  pc'[q] = pc[q] /\ rel'[q] = rel[q]
  <2>1. CASE \E g : Return(p, g) BY <1>2, <1>4, <2>1
  <2>2. CASE ~\E g : Return(p, g)
    <3>1. CASE Opening(p)
      <4>1. UNCHANGED rel /\ \E l : Goto(p, l)
        BY <2>2, <3>1 DEF Opening, Lookup, FastRead, FastWait, Slow, SlowWait, Replace,
           CreateEntry
      <4> QED BY <1>1, <1>4, <4>1
    <3>2. CASE Provisioning(p)
      <4>1. UNCHANGED rel /\ \E l : Goto(p, l)
        BY <3>2 DEF Provisioning, ProvisionFails, ProvisionPlain, NewDialer, StartContainer,
           TcLookup, TcAttach, StartServer, Register, StopOld, NewPool, NewPoolFails,
           UndoTake, UndoStop, StopHeld
      <4> QED BY <1>1, <1>4, <4>1
    <3>3. CASE Ending(p)
      <4>1. /\ UNCHANGED pc \/ \E l : Goto(p, l)
            /\ UNCHANGED rel \/ \E x : rel' = [rel EXCEPT ![p] = x]
        BY <2>2, <3>3 DEF Ending, Store, CloseDone, Fail, FailReleaseOne, FailReleased,
           RemoveFailed, TakeResources, ReleaseOne
      <4> QED BY <1>1, <1>4, <4>1 DEF TypeInv, LocalsOK
    <3>4. CASE Closing(p)
      <4>1. UNCHANGED rel /\ \E l : Goto(p, l)
        BY <2>2, <3>4 DEF Closing, CloseRemove, CloseInst, CloseStop
      <4> QED BY <1>1, <1>4, <4>1
    <3> QED BY <1>4, <3>1, <3>2, <3>3, <3>4
  <2> QED BY <2>1, <2>2
<1>5. ASSUME NEW p \in Procs, NEW k \in Keys, OpenCall(p, k) \/ CloseCall(p, k)
      PROVE  pc'[q] = pc[q] /\ rel'[q] = rel[q]
  <2>1. p # q BY <1>5 DEF OpenCall, CloseCall, Arrive
  <2>2. UNCHANGED rel /\ \E l : Goto(p, l) BY <1>5 DEF OpenCall, CloseCall, Arrive
  <2> QED BY <1>1, <2>1, <2>2
<1>6. CASE Signal \/ (Shutdown /\ ~Draining(GS))
  <2>1. UNCHANGED rel /\ (UNCHANGED pc \/ \E l : Goto(GS, l))
    BY <1>6 DEF Signal, Shutdown, GsSnapshot, GsNext, GsInstances, GsStop, GsStragglers,
       GsStop2, SnapshotInstances, StopSnapshot, SnapshotStopped
  <2> QED BY <1>1, <2>1, GSFacts
<1>7. CASE Draining(GS) BY <1>3, <1>7, GSFacts
<1>8. CASE UNCHANGED vars BY <1>8 DEF vars
<1>9. ASSUME NEW p \in Procs, p # q, Migrate(p)
      PROVE  pc'[q] = pc[q] /\ rel'[q] = rel[q]
  BY <1>1, <1>9 DEF Migrate
<1> QED BY <1>3, <1>4, <1>5, <1>6, <1>7, <1>8, <1>9, GSFacts DEF Next, Work, Quiet

\* Every step of a goroutine brings its call nearer to its end, and no other goroutine
\* sets it back.  With WaitsForCreator this is why calls return: the waits end since the
\* creations they wait for, which wait for nobody, have finitely many steps.
CallsAdvance ==
    [][\A p \in Procs :
         /\ Work(p) => Advances(p)
         /\ pc[p] # "idle" /\ ~Work(p) => pc'[p] = pc[p] /\ rel'[p] = rel[p]]_vars

\* No call loops in resolvePool, Connect, releaseAll or ClosePoolWithKey.
THEOREM CallsAdvanceHolds == Spec => CallsAdvance
<1>1. TypeInv /\ [Next]_vars =>
        [\A p \in Procs :
           /\ Work(p) => Advances(p)
           /\ pc[p] # "idle" /\ ~Work(p) => pc'[p] = pc[p] /\ rel'[p] = rel[p]]_vars
  BY OpeningAdvances, ProvisioningAdvances, EndingAdvances, ClosingAdvances,
     MigrateAdvances, OthersKeepStill DEF Work
<1> QED BY <1>1, TypeInvariance, PTL DEF Spec, CallsAdvance
=============================================================================
