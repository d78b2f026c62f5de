---------------------------- MODULE PoolRegistry ----------------------------
(***************************************************************************)
(* The keyed pool registry of postgres/pool.go: OpenPoolWithKey            *)
(* (resolvePool), ClosePoolWithKey and gracefulShutdown, running           *)
(* concurrently over poolRegistry.entries and embeddedInstances.           *)
(*                                                                         *)
(* An action is the stretch of code between two points where goroutines    *)
(* can interleave: a critical section of poolRegistry.mu, entry.mu or      *)
(* embeddedPGLock, a wait on entry.done, or one call to the outside        *)
(* (starting a backend, opening or closing a pool, releasing a resource).  *)
(* The two mutexes that nest (poolRegistry.mu, then entry.mu, in           *)
(* resolvePool) make one action.                                           *)
(*                                                                         *)
(* Calls are numbered.  The entry that call n allocates, the pgxpool it    *)
(* opens and the backend it starts (Cloud SQL dialer, test container or    *)
(* embedded server) are all called n: a generation of the key.             *)
(***************************************************************************)
EXTENDS Naturals, Sequences

CONSTANTS
    Procs,     \* goroutines of the application that open and close pools
    GS,        \* the gracefulShutdown goroutine started by init()
    Keys,      \* pool keys in use
    NoKey,     \* the key of a call not made yet
    Kind,      \* Kind[k]: what the DBConfig used with key k provisions
    MaxCalls,  \* bound: calls of OpenPoolWithKey and ClosePoolWithKey
    Ops,       \* which of "open", "close" and "signal" the environment issues, and
               \* "migrate" if calls of OpenPoolWithKey have a Migrator
    Faults     \* which of "provision", "newPool" and "migrate" may fail

ASSUME PoolRegistryAssumption ==
    /\ GS \notin Procs
    /\ NoKey \notin Keys
    /\ Kind \in [Keys -> {"plain", "cloudsql", "testcontainer", "embedded"}]
    /\ MaxCalls \in Nat

Threads == Procs \cup {GS}
Entry   == 1 .. MaxCalls
None    == 0
Ref     == 0 .. MaxCalls

VARIABLES
    entries,      \* poolRegistry.entries: the entry under each key, or None
    cached,       \* the entries whose pool field is not nil
    done,         \* the entries whose done channel is closed
    res,          \* res[e]: e.resources, in acquisition order
    pg,           \* pg[g]: the pgxpool that generation g opened
    ext,          \* ext[g]: the backend that generation g acquired
    instances,    \* embeddedInstances: the server under each key, or None
    shuttingDown,
    calls,        \* number of calls made so far
    keyOf,        \* the key each call was made with
    ret,          \* ret[p]: the pool p's last call resolved, or None; see Migrate
    pc,
    call,         \* the call a goroutine is executing, up to its migrations
    ent,          \* its local variable e (entry): the entry it works on
    tgt,          \* the entry Connect found for its test container
    inst,         \* its local inst / old: an embedded server it has to stop
    rel,          \* the slice releaseAll copied out of e.resources
    snap,         \* gracefulShutdown: entries of its snapshot not yet drained
    stopping      \* gracefulShutdown: servers of its snapshot not yet stopped

registry == <<entries, cached, done, res>>
backends == <<pg, ext>>
embedded == <<instances, shuttingDown>>
history  == <<calls, keyOf>>
locals   == <<call, ent, tgt, inst, rel>>
gsLocals == <<snap, stopping>>
vars     == <<registry, backends, embedded, history, ret, pc, locals, gsLocals>>

OpenPc  == {"lookup", "fastRead", "fastWait", "slow", "slowWait", "replace"}
MakePc  == {"provision", "tcLookup", "tcAttach", "register", "stopOld",
            "newPool", "undoTake", "undoStop"}
EndPc   == {"store", "fail", "failRelease", "remove", "closeDone", "closeDoneErr"}
ClosePc == {"closeRemove", "closeInst", "drain", "closePool", "take", "release",
            "stopInst"}
GsPc    == {"waitSignal", "gsSnap", "gsNext", "gsInst", "gsStop", "gsStragglers",
            "gsStop2", "gsDone"}
Pcs     == {"idle", "migrate"} \cup OpenPc \cup MakePc \cup EndPc \cup ClosePc \cup GsPc

Key(p) == keyOf[call[p]]

Init ==
    /\ entries      = [k \in Keys |-> None]
    /\ cached       = {}
    /\ done         = {}
    /\ res          = [e \in Entry |-> <<>>]
    /\ pg           = [e \in Entry |-> "none"]
    /\ ext          = [e \in Entry |-> "none"]
    /\ instances    = [k \in Keys |-> None]
    /\ shuttingDown = FALSE
    /\ calls        = 0
    /\ keyOf        = [e \in Entry |-> NoKey]
    /\ ret          = [p \in Procs |-> None]
    /\ pc           = [t \in Threads |-> IF t = GS THEN "waitSignal" ELSE "idle"]
    /\ call         = [t \in Threads |-> None]
    /\ ent          = [t \in Threads |-> None]
    /\ tgt          = [t \in Threads |-> None]
    /\ inst         = [t \in Threads |-> None]
    /\ rel          = [t \in Threads |-> <<>>]
    /\ snap         = {}
    /\ stopping     = {}

Goto(t, l) == pc' = [pc EXCEPT ![t] = l]

\* resolvePool returns pool g to the call of p, which migrates it next if it has a
\* Migrator; or (None) the call ends, with an error or because it was a close.
Return(p, g) ==
    /\ Goto(p, IF g # None /\ "migrate" \in Ops THEN "migrate" ELSE "idle")
    /\ ret'  = [ret EXCEPT ![p] = g]
    /\ call' = [call EXCEPT ![p] = None]
    /\ ent'  = [ent EXCEPT ![p] = None]
    /\ tgt'  = [tgt EXCEPT ![p] = None]
    /\ inst' = [inst EXCEPT ![p] = None]
    /\ rel'  = [rel EXCEPT ![p] = <<>>]

(***************************************************************************)
(* Calls arrive.  An empty key is refused before anything is read, so keys *)
(* are non-empty.                                                          *)
(***************************************************************************)
Arrive(p, k, l) ==
    /\ pc[p] = "idle"
    /\ calls < MaxCalls
    /\ calls' = calls + 1
    /\ keyOf' = [keyOf EXCEPT ![calls + 1] = k]
    /\ call'  = [call EXCEPT ![p] = calls + 1]
    /\ ret'   = [ret EXCEPT ![p] = None]
    /\ Goto(p, l)
    /\ UNCHANGED <<registry, backends, embedded, ent, tgt, inst, rel, gsLocals>>

OpenCall(p, k)  == "open" \in Ops /\ Arrive(p, k, "lookup")
CloseCall(p, k) == "close" \in Ops /\ Arrive(p, k, "closeRemove")

(***************************************************************************)
(* resolvePool, fast path.                                                 *)
(***************************************************************************)
Lookup(p) ==
    /\ pc[p] = "lookup"
    /\ LET e == entries[Key(p)] IN
         /\ ent' = [ent EXCEPT ![p] = e]
         /\ Goto(p, IF e = None THEN "slow" ELSE "fastRead")
    /\ UNCHANGED <<registry, backends, embedded, history, ret, call, tgt, inst,
                   rel, gsLocals>>

FastRead(p) ==
    /\ pc[p] = "fastRead"
    /\ UNCHANGED <<registry, backends, embedded, history, gsLocals>>
    /\ \/ /\ ent[p] \in cached
          /\ Return(p, ent[p])
       \/ /\ ent[p] \notin cached
          /\ Goto(p, "fastWait")
          /\ UNCHANGED <<ret, locals>>

\* Mutant: the pool is not read again after the wait.
FastWaitNoCheck(p) ==
    /\ pc[p] = "fastWait"
    /\ ent[p] \in done
    /\ Return(p, ent[p])
    /\ UNCHANGED <<registry, backends, embedded, history, gsLocals>>

\* <-e.done, then e.pool is read under e.mu.
FastWait(p) ==
    /\ pc[p] = "fastWait"
    /\ ent[p] \in done
    /\ UNCHANGED <<registry, backends, embedded, history, gsLocals>>
    /\ \/ /\ ent[p] \in cached
          /\ Return(p, ent[p])
       \/ /\ ent[p] \notin cached
          /\ Goto(p, "slow")
          /\ UNCHANGED <<ret, locals>>

(***************************************************************************)
(* resolvePool, slow path.                                                 *)
(***************************************************************************)
\* Put the fresh entry of p's call under its key, whatever is there.
CreateEntry(p) ==
    /\ entries' = [entries EXCEPT ![Key(p)] = call[p]]
    /\ ent' = [ent EXCEPT ![p] = call[p]]
    /\ Goto(p, "provision")
    /\ UNCHANGED <<cached, done, res, backends, embedded, history, ret, call,
                   tgt, inst, rel, gsLocals>>

\* Mutant: an entry whose creation is in flight is replaced without a wait.
SlowNoWait(p) ==
    /\ pc[p] = "slow"
    /\ CreateEntry(p)

\* One critical section of poolRegistry.mu.
Slow(p) ==
    /\ pc[p] = "slow"
    /\ LET e == entries[Key(p)] IN
         \/ /\ e = None
            /\ CreateEntry(p)
         \/ /\ e \in cached
            /\ Return(p, e)
            /\ UNCHANGED <<registry, backends, embedded, history, gsLocals>>
         \/ /\ e # None
            /\ e \notin cached
            /\ ent' = [ent EXCEPT ![p] = e]
            /\ Goto(p, "slowWait")
            /\ UNCHANGED <<registry, backends, embedded, history, ret, call,
                           tgt, inst, rel, gsLocals>>

SlowWait(p) ==
    /\ pc[p] = "slowWait"
    /\ ent[p] \in done
    /\ UNCHANGED <<registry, backends, embedded, history, gsLocals>>
    /\ \/ /\ ent[p] \in cached
          /\ Return(p, ent[p])
       \/ /\ ent[p] \notin cached
          /\ Goto(p, "replace")
          /\ UNCHANGED <<ret, locals>>

\* poolRegistry.mu is taken again; entries[key] is not read again.
Replace(p) ==
    /\ pc[p] = "replace"
    /\ CreateEntry(p)

\* runMigrations on the pool resolvePool returned: no lock is held, so a close or the
\* shutdown may have closed the pool by now.  The call returns the pool, or an error;
\* a migration that fails leaves the pool open and cached.
Migrate(p) ==
    /\ pc[p] = "migrate"
    /\ Goto(p, "idle")
    /\ UNCHANGED <<registry, backends, embedded, history, locals, gsLocals>>
    /\ \/ UNCHANGED ret
       \/ /\ "migrate" \in Faults \/ pg[ret[p]] # "open"
          /\ ret' = [ret EXCEPT ![p] = None]

(***************************************************************************)
(* openCloudSQL and Connect: provision the backend, then open the pool.    *)
(***************************************************************************)
ProvisionFails(p) ==
    /\ pc[p] = "provision"
    /\ Kind[Key(p)] # "plain"
    /\ \/ "provision" \in Faults
       \/ Kind[Key(p)] = "embedded" /\ shuttingDown
    /\ Goto(p, "fail")
    /\ UNCHANGED <<registry, backends, embedded, history, ret, locals, gsLocals>>

ProvisionPlain(p) ==
    /\ pc[p] = "provision"
    /\ Kind[Key(p)] = "plain"
    /\ Goto(p, "newPool")
    /\ UNCHANGED <<registry, backends, embedded, history, ret, locals, gsLocals>>

\* The dialer is created and attached to the entry of this call.  Nobody else
\* reads e.resources before done is closed.
NewDialer(p) ==
    /\ pc[p] = "provision"
    /\ Kind[Key(p)] = "cloudsql"
    /\ ext' = [ext EXCEPT ![call[p]] = "live"]
    /\ res' = [res EXCEPT ![ent[p]] = Append(@, call[p])]
    /\ Goto(p, "newPool")
    /\ UNCHANGED <<entries, cached, done, pg, embedded, history, ret, locals,
                   gsLocals>>

\* GenericContainer started and its host and port were read.
StartContainer(p) ==
    /\ pc[p] = "provision"
    /\ Kind[Key(p)] = "testcontainer"
    /\ ext' = [ext EXCEPT ![call[p]] = "live"]
    /\ Goto(p, "tcLookup")
    /\ UNCHANGED <<registry, pg, embedded, history, ret, locals, gsLocals>>

\* poolRegistry.entryFor(key): the entry now under the key, if any.
TcLookup(p) ==
    /\ pc[p] = "tcLookup"
    /\ LET e == entries[Key(p)] IN
         /\ tgt' = [tgt EXCEPT ![p] = e]
         /\ Goto(p, IF e = None THEN "newPool" ELSE "tcAttach")
    /\ UNCHANGED <<registry, backends, embedded, history, ret, call, ent, inst,
                   rel, gsLocals>>

\* Mutant: the container is not attached.
TcNotAttached(p) ==
    /\ pc[p] = "tcAttach"
    /\ Goto(p, "newPool")
    /\ UNCHANGED <<registry, backends, embedded, history, ret, locals, gsLocals>>

TcAttach(p) ==
    /\ pc[p] = "tcAttach"
    /\ res' = [res EXCEPT ![tgt[p]] = Append(@, call[p])]
    /\ Goto(p, "newPool")
    /\ UNCHANGED <<entries, cached, done, backends, embedded, history, ret,
                   locals, gsLocals>>

\* Connect saw shuttingDown = FALSE and started a server in a data directory
\* of its own.
StartServer(p) ==
    /\ pc[p] = "provision"
    /\ Kind[Key(p)] = "embedded"
    /\ ~shuttingDown
    /\ ext' = [ext EXCEPT ![call[p]] = "live"]
    /\ Goto(p, "register")
    /\ UNCHANGED <<registry, pg, embedded, history, ret, locals, gsLocals>>

\* Mutant: shuttingDown is not read again under embeddedPGLock.
RegisterUnchecked(p) ==
    /\ pc[p] = "register"
    /\ inst' = [inst EXCEPT ![p] = instances[Key(p)]]
    /\ instances' = [instances EXCEPT ![Key(p)] = call[p]]
    /\ Goto(p, IF instances[Key(p)] = None THEN "newPool" ELSE "stopOld")
    /\ UNCHANGED <<registry, backends, shuttingDown, history, ret, call, ent,
                   tgt, rel, gsLocals>>

\* Mutant: the server that a registration replaces is not stopped.
RegisterForgetsOld(p) ==
    /\ pc[p] = "register"
    /\ instances' = [instances EXCEPT ![Key(p)] =
                        IF shuttingDown THEN @ ELSE call[p]]
    /\ inst' = [inst EXCEPT ![p] = IF shuttingDown THEN call[p] ELSE None]
    /\ Goto(p, IF shuttingDown THEN "undoStop" ELSE "newPool")
    /\ UNCHANGED <<registry, backends, shuttingDown, history, ret, call, ent,
                   tgt, rel, gsLocals>>

\* Under embeddedPGLock: re-check shuttingDown, else register, remembering the
\* server the registration replaces.
Register(p) ==
    /\ pc[p] = "register"
    /\ UNCHANGED <<registry, backends, shuttingDown, history, ret, call, ent,
                   tgt, rel, gsLocals>>
    /\ \/ /\ shuttingDown
          /\ inst' = [inst EXCEPT ![p] = call[p]]
          /\ Goto(p, "undoStop")
          /\ UNCHANGED instances
       \/ /\ ~shuttingDown
          /\ LET old == instances[Key(p)] IN
               /\ inst' = [inst EXCEPT ![p] = old]
               /\ Goto(p, IF old = None THEN "newPool" ELSE "stopOld")
          /\ instances' = [instances EXCEPT ![Key(p)] = call[p]]

\* stopWithForceKill(key, inst), with the kill succeeding.
StopHeld(t, l) ==
    /\ ext'  = [ext EXCEPT ![inst[t]] = "released"]
    /\ inst' = [inst EXCEPT ![t] = None]
    /\ Goto(t, l)
    /\ UNCHANGED <<registry, pg, embedded, history, ret, call, ent, tgt, rel,
                   gsLocals>>

StopOld(p) == pc[p] = "stopOld" /\ StopHeld(p, "newPool")

NewPool(p) ==
    /\ pc[p] = "newPool"
    /\ pg' = [pg EXCEPT ![call[p]] = "open"]
    /\ Goto(p, "store")
    /\ UNCHANGED <<registry, ext, embedded, history, ret, locals, gsLocals>>

\* pgxpool.New failed.  Connect terminates its container itself; of an embedded
\* server it first looks up the registration.
NewPoolFails(p) ==
    /\ pc[p] = "newPool"
    /\ "newPool" \in Faults
    /\ ext' = IF Kind[Key(p)] = "testcontainer"
              THEN [ext EXCEPT ![call[p]] = "released"] ELSE ext
    /\ Goto(p, IF Kind[Key(p)] = "embedded" THEN "undoTake" ELSE "fail")
    /\ UNCHANGED <<registry, pg, embedded, history, ret, locals, gsLocals>>

\* Under embeddedPGLock: take whatever instance is registered under the key.
UndoTake(p) ==
    /\ pc[p] = "undoTake"
    /\ LET i == instances[Key(p)] IN
         inst' = [inst EXCEPT ![p] = IF i = None THEN call[p] ELSE i]
    /\ instances' = [instances EXCEPT ![Key(p)] = None]
    /\ Goto(p, "undoStop")
    /\ UNCHANGED <<registry, backends, shuttingDown, history, ret, call, ent,
                   tgt, rel, gsLocals>>

UndoStop(p) == pc[p] = "undoStop" /\ StopHeld(p, "fail")

(***************************************************************************)
(* resolvePool, end of the creation.                                       *)
(***************************************************************************)
\* Mutant: the pool goes to the entry that is under the key now.
StoreUnderKey(p) ==
    /\ pc[p] = "store"
    /\ cached' = cached \cup {entries[Key(p)]}
    /\ Goto(p, "closeDone")
    /\ UNCHANGED <<entries, done, res, backends, embedded, history, ret, locals,
                   gsLocals>>

Store(p) ==
    /\ pc[p] = "store"
    /\ cached' = cached \cup {ent[p]}
    /\ Goto(p, "closeDone")
    /\ UNCHANGED <<entries, done, res, backends, embedded, history, ret, locals,
                   gsLocals>>

\* Mutants: done is closed after a success only, or after a failure only.
CloseDoneIfOk(p) ==
    /\ pc[p] \in {"closeDone", "closeDoneErr"}
    /\ done' = IF pc[p] = "closeDone" THEN done \cup {ent[p]} ELSE done
    /\ Return(p, IF pc[p] = "closeDone" THEN ent[p] ELSE None)
    /\ UNCHANGED <<entries, cached, res, backends, embedded, history, gsLocals>>

CloseDoneIfErr(p) ==
    /\ pc[p] \in {"closeDone", "closeDoneErr"}
    /\ done' = IF pc[p] = "closeDone" THEN done ELSE done \cup {ent[p]}
    /\ Return(p, IF pc[p] = "closeDone" THEN ent[p] ELSE None)
    /\ UNCHANGED <<entries, cached, res, backends, embedded, history, gsLocals>>

\* The deferred close(e.done), and the return of resolvePool.
CloseDone(p) ==
    /\ pc[p] \in {"closeDone", "closeDoneErr"}
    /\ done' = done \cup {ent[p]}
    /\ Return(p, IF pc[p] = "closeDone" THEN ent[p] ELSE None)
    /\ UNCHANGED <<entries, cached, res, backends, embedded, history, gsLocals>>

\* poolRegistry.remove(key) in the failure path: whatever is under the key goes.
RemoveFailed(p) ==
    /\ pc[p] = "remove"
    /\ entries' = [entries EXCEPT ![Key(p)] = None]
    /\ Goto(p, "closeDoneErr")
    /\ UNCHANGED <<cached, done, res, backends, embedded, history, ret, locals,
                   gsLocals>>

(***************************************************************************)
(* releaseAll: move e.resources out under e.mu, then release them one by   *)
(* one, the most recent first.  A callback that fails does not stop the    *)
(* loop.                                                                   *)
(***************************************************************************)
\* Mutant: e.resources is cleared before it is copied.
TakeNothing(t, from, to) ==
    /\ pc[t] = from
    /\ res' = [res EXCEPT ![ent[t]] = <<>>]
    /\ Goto(t, to)
    /\ UNCHANGED <<entries, cached, done, backends, embedded, history, ret,
                   locals, gsLocals>>

TakeResources(t, from, to) ==
    /\ pc[t] = from
    /\ rel' = [rel EXCEPT ![t] = res[ent[t]]]
    /\ res' = [res EXCEPT ![ent[t]] = <<>>]
    /\ Goto(t, to)
    /\ UNCHANGED <<entries, cached, done, backends, embedded, history, ret, call,
                   ent, tgt, inst, gsLocals>>

ReleaseOne(t, l) ==
    /\ pc[t] = l
    /\ rel[t] # <<>>
    /\ LET n == Len(rel[t]) IN
         /\ ext' = [ext EXCEPT ![rel[t][n]] = "released"]
         /\ rel' = [rel EXCEPT ![t] = SubSeq(@, 1, n - 1)]
    /\ UNCHANGED <<registry, pg, embedded, history, ret, pc, call, ent, tgt,
                   inst, gsLocals>>

Fail(p) == TakeResources(p, "fail", "failRelease")

FailReleaseOne(p) == ReleaseOne(p, "failRelease")

FailReleased(p) ==
    /\ pc[p] = "failRelease"
    /\ rel[p] = <<>>
    /\ Goto(p, "remove")
    /\ UNCHANGED <<registry, backends, embedded, history, ret, locals, gsLocals>>

(***************************************************************************)
(* ClosePoolWithKey.                                                       *)
(***************************************************************************)
CloseRemove(p) ==
    /\ pc[p] = "closeRemove"
    /\ ent' = [ent EXCEPT ![p] = entries[Key(p)]]
    /\ entries' = [entries EXCEPT ![Key(p)] = None]
    /\ Goto(p, "closeInst")
    /\ UNCHANGED <<cached, done, res, backends, embedded, history, ret, call,
                   tgt, inst, rel, gsLocals>>

CloseInst(p) ==
    /\ pc[p] = "closeInst"
    /\ instances' = [instances EXCEPT ![Key(p)] = None]
    /\ UNCHANGED <<registry, backends, shuttingDown, history, gsLocals>>
    /\ LET i == instances[Key(p)] IN
         \/ /\ ent[p] = None
            /\ i = None
            /\ Return(p, None)
         \/ /\ ent[p] # None \/ i # None
            /\ inst' = [inst EXCEPT ![p] = i]
            /\ Goto(p, IF ent[p] = None THEN "stopInst" ELSE "drain")
            /\ UNCHANGED <<ret, call, ent, tgt, rel>>

(***************************************************************************)
(* Draining an entry: ClosePoolWithKey and the loop of gracefulShutdown    *)
(* run the same statements.                                                *)
(***************************************************************************)
\* Mutant: no wait for the creation in flight.
DrainNoWait(t) ==
    /\ pc[t] = "drain"
    /\ cached' = cached \ {ent[t]}
    /\ Goto(t, IF ent[t] \in cached THEN "closePool" ELSE "take")
    /\ UNCHANGED <<entries, done, res, backends, embedded, history, ret, locals,
                   gsLocals>>

\* Mutant: the pool is closed but stays in its entry.
DrainKeepsPool(t) ==
    /\ pc[t] = "drain"
    /\ ent[t] \in done
    /\ Goto(t, IF ent[t] \in cached THEN "closePool" ELSE "take")
    /\ UNCHANGED <<registry, backends, embedded, history, ret, locals, gsLocals>>

\* Mutant: the pool is closed without asking whether there is one.
DrainNoNilCheck(t) ==
    /\ pc[t] = "drain"
    /\ ent[t] \in done
    /\ cached' = cached \ {ent[t]}
    /\ Goto(t, "closePool")
    /\ UNCHANGED <<entries, done, res, backends, embedded, history, ret, locals,
                   gsLocals>>

\* <-entry.done, then the pool is moved out under entry.mu.
Drain(t) ==
    /\ pc[t] = "drain"
    /\ ent[t] \in done
    /\ cached' = cached \ {ent[t]}
    /\ Goto(t, IF ent[t] \in cached THEN "closePool" ELSE "take")
    /\ UNCHANGED <<entries, done, res, backends, embedded, history, ret, locals,
                   gsLocals>>

ClosePool(t) ==
    /\ pc[t] = "closePool"
    /\ pg' = [pg EXCEPT ![ent[t]] = "closed"]
    /\ Goto(t, "take")
    /\ UNCHANGED <<registry, ext, embedded, history, ret, locals, gsLocals>>

Take(t) == TakeResources(t, "take", "release")

DrainReleaseOne(t) == ReleaseOne(t, "release")

\* The entry is drained: gracefulShutdown goes to the next one, a close goes on
\* to the server it took, if any.
Released(t) ==
    /\ pc[t] = "release"
    /\ rel[t] = <<>>
    /\ UNCHANGED <<registry, backends, embedded, history, gsLocals>>
    /\ \/ /\ t = GS
          /\ ent' = [ent EXCEPT ![t] = None]
          /\ Goto(t, "gsNext")
          /\ UNCHANGED <<ret, call, tgt, inst, rel>>
       \/ /\ t \in Procs
          /\ inst[t] # None
          /\ Goto(t, "stopInst")
          /\ UNCHANGED <<ret, locals>>
       \/ /\ t \in Procs
          /\ inst[t] = None
          /\ Return(t, None)

CloseStop(p) ==
    /\ pc[p] = "stopInst"
    /\ ext' = [ext EXCEPT ![inst[p]] = "released"]
    /\ Return(p, None)
    /\ UNCHANGED <<registry, pg, embedded, history, gsLocals>>

(***************************************************************************)
(* gracefulShutdown.                                                       *)
(***************************************************************************)
\* SIGTERM or SIGINT arrives and is received.
Signal ==
    /\ "signal" \in Ops
    /\ pc[GS] = "waitSignal"
    /\ shuttingDown' = TRUE
    /\ Goto(GS, "gsSnap")
    /\ UNCHANGED <<registry, backends, instances, history, ret, locals, gsLocals>>

GsSnapshot ==
    /\ pc[GS] = "gsSnap"
    /\ snap' = {entries[k] : k \in Keys} \ {None}
    /\ entries' = [k \in Keys |-> None]
    /\ Goto(GS, "gsNext")
    /\ UNCHANGED <<cached, done, res, backends, embedded, history, ret, locals,
                   stopping>>

GsNext ==
    /\ pc[GS] = "gsNext"
    /\ UNCHANGED <<registry, backends, embedded, history, ret, call, tgt, inst,
                   rel, stopping>>
    /\ \/ \E e \in snap :
            /\ ent' = [ent EXCEPT ![GS] = e]
            /\ snap' = snap \ {e}
            /\ Goto(GS, "drain")
       \/ /\ snap = {}
          /\ Goto(GS, "gsInst")
          /\ UNCHANGED <<ent, snap>>

\* snapshotAndClearEmbeddedInstances.
SnapshotInstances(from, to) ==
    /\ pc[GS] = from
    /\ stopping' = {instances[k] : k \in Keys} \ {None}
    /\ instances' = [k \in Keys |-> None]
    /\ Goto(GS, to)
    /\ UNCHANGED <<registry, backends, shuttingDown, history, ret, locals, snap>>

\* The goroutines that stop the servers of a snapshot finish in any order.
StopSnapshot(l) ==
    /\ pc[GS] = l
    /\ \E g \in stopping :
         /\ ext' = [ext EXCEPT ![g] = "released"]
         /\ stopping' = stopping \ {g}
    /\ UNCHANGED <<registry, pg, embedded, history, ret, pc, locals, snap>>

SnapshotStopped(from, to) ==
    /\ pc[GS] = from
    /\ stopping = {}
    /\ Goto(GS, to)
    /\ UNCHANGED <<registry, backends, embedded, history, ret, locals, gsLocals>>

GsInstances  == SnapshotInstances("gsInst", "gsStop")
GsStop       == StopSnapshot("gsStop") \/ SnapshotStopped("gsStop", "gsStragglers")
GsStragglers == SnapshotInstances("gsStragglers", "gsStop2")
\* close(shutdownDone): WaitForGracefulShutdown returns from "gsDone" on.
GsStop2      == StopSnapshot("gsStop2") \/ SnapshotStopped("gsStop2", "gsDone")

(***************************************************************************)
(* The specification.                                                      *)
(***************************************************************************)
Opening(p) ==
    \/ Lookup(p) \/ FastRead(p) \/ FastWait(p) \/ Slow(p) \/ SlowWait(p)
    \/ Replace(p)

Provisioning(p) ==
    \/ ProvisionFails(p) \/ ProvisionPlain(p) \/ NewDialer(p)
    \/ StartContainer(p) \/ TcLookup(p) \/ TcAttach(p)
    \/ StartServer(p) \/ Register(p) \/ StopOld(p)
    \/ NewPool(p) \/ NewPoolFails(p) \/ UndoTake(p) \/ UndoStop(p)

Ending(p) ==
    \/ Store(p) \/ CloseDone(p) \/ Fail(p) \/ FailReleaseOne(p)
    \/ FailReleased(p) \/ RemoveFailed(p)

Draining(t) ==
    \/ Drain(t) \/ ClosePool(t) \/ Take(t) \/ DrainReleaseOne(t) \/ Released(t)

Closing(p) == CloseRemove(p) \/ CloseInst(p) \/ CloseStop(p)

\* What goroutine p does once a call has arrived.
Work(p) ==
    \/ Opening(p) \/ Migrate(p) \/ Provisioning(p) \/ Ending(p) \/ Draining(p)
    \/ Closing(p)

\* What gracefulShutdown does once the signal has arrived.
Shutdown ==
    \/ GsSnapshot \/ GsNext \/ Draining(GS) \/ GsInstances \/ GsStop
    \/ GsStragglers \/ GsStop2

\* No call is left to make and none is running: the process waits, or has ended.
Quiet ==
    /\ calls = MaxCalls
    /\ \A p \in Procs : pc[p] = "idle"
    /\ pc[GS] \in {"waitSignal", "gsDone"}
    /\ UNCHANGED vars

Next ==
    \/ \E p \in Procs :
         \/ \E k \in Keys : OpenCall(p, k) \/ CloseCall(p, k)
         \/ Work(p)
    \/ Signal
    \/ Shutdown
    \/ Quiet

Spec == Init /\ [][Next]_vars

\* The scheduler runs every goroutine that is ready; calls and the signal come
\* when they come.
Fairness == (\A p \in Procs : WF_vars(Work(p))) /\ WF_vars(Shutdown)

FairSpec == Spec /\ Fairness

(***************************************************************************)
(* Properties.                                                             *)
(***************************************************************************)
RegistryOK ==
    /\ entries \in [Keys -> Ref]
    /\ cached \in SUBSET Entry
    /\ done \in SUBSET Entry
    /\ res \in [Entry -> Seq(Entry)]

BackendsOK ==
    /\ pg \in [Entry -> {"none", "open", "closed"}]
    /\ ext \in [Entry -> {"none", "live", "released"}]
    /\ instances \in [Keys -> Ref]

CallsOK ==
    /\ calls \in Ref
    /\ keyOf \in [Entry -> Keys \cup {NoKey}]
    /\ ret \in [Procs -> Ref]

LocalsOK ==
    /\ pc \in [Threads -> Pcs]
    /\ call \in [Threads -> Ref]
    /\ ent \in [Threads -> Ref]
    /\ tgt \in [Threads -> Ref]
    /\ inst \in [Threads -> Ref]
    /\ rel \in [Threads -> Seq(Entry)]
    /\ snap \in SUBSET Entry
    /\ stopping \in SUBSET Entry

\* Type invariant of the registry's maps, the entries and the goroutines' locals.
TypeOK == RegistryOK /\ BackendsOK /\ CallsOK /\ LocalsOK /\ shuttingDown \in BOOLEAN

\* The pool an entry caches is open: whoever closes a pool first takes it out of
\* its entry, and no creator stores a pool after a closer has been there.
CachedPoolOpen == \A e \in cached : pg[e] = "open"

\* A pool is closed by one goroutine only, ClosePoolWithKey or gracefulShutdown,
\* however many of them run for the same key.
ClosedOnce ==
    /\ \A t \in Threads : pc[t] = "closePool" => pg[ent[t]] = "open"
    /\ \A t, u \in Threads :
         pc[t] = "closePool" /\ pc[u] = "closePool" /\ t # u => ent[t] # ent[u]

KindOf(e) == IF keyOf[e] \in Keys THEN Kind[keyOf[e]] ELSE "plain"

\* An open pool has the Cloud SQL dialer it dials through: "the pool is closed
\* before resources are released", and a release runs on no other generation.
DialerOutlivesPool ==
    \A e \in Entry : KindOf(e) = "cloudsql" /\ pg[e] = "open" => ext[e] = "live"

\* An open pool has its embedded server: "the pool is closed ... before the
\* embedded instance is stopped".
ServerOutlivesPool ==
    \A e \in Entry : KindOf(e) = "embedded" /\ pg[e] = "open" => ext[e] = "live"

\* Goroutine t has yet to release or stop something of generation e.
Attending(t, e) ==
    \/ ent[t] = e /\ pc[t] \in {"take", "release"}
    \/ inst[t] = e
    \/ \E i \in 1 .. Len(rel[t]) : rel[t][i] = e

\* When a generation of kind k is over, its pool closed or its creation failed, and
\* the goroutines that release things have moved on, its backend is gone.
OverMeansReleased(k) ==
    pc[GS] \in {"waitSignal", "gsDone"} =>
        \A e \in done :
            KindOf(e) = k /\ pg[e] # "open" /\ (\A t \in Threads : ~Attending(t, e))
                => ext[e] # "live"

\* ClosePoolWithKey and gracefulShutdown "release acquired resources (Cloud SQL
\* dialers, ...)" of every pool they close, and so does a creation that fails,
DialerReleased == OverMeansReleased("cloudsql")

\* and "stop the embedded Postgres instance registered under the same key".
ServerStopped == OverMeansReleased("embedded")

\* The pool that resolvePool returns is open when it is read: no call is given a pool
\* whose close came first ("After a successful close, OpenPoolWithKey with the same key
\* creates a fresh pool").  A close during its migrations is the caller's to see.
ResolvedOpen ==
    [][\A p \in Procs :
         ret'[p] # ret[p] /\ ret'[p] # None => pg[ret'[p]] = "open"]_vars

\* Once a creation has settled and its entry holds no pool, it never holds one
\* again, so a drained entry stays drained.
SettledStays ==
    [][\A e \in done \ cached : e \notin cached']_vars

\* Goroutine t waits for the creation of its entry to settle.
Awaits(t) == pc[t] \in {"fastWait", "slowWait", "drain"} /\ ent[t] \notin done

\* Whoever waits on entry.done, to share a pool or to drain it, waits for a goroutine
\* that is creating the entry and itself waits for nobody: "done is closed on every exit
\* path so waiters unblock", and every entry somebody can wait for has a creator.
WaitsForCreator ==
    \A t \in Threads :
        Awaits(t) =>
            \E p \in Procs : call[p] = ent[t] /\ pc[p] \in MakePc \cup EndPc

\* Servers somebody is about to stop: replaced, closed, undone, or in the
\* snapshot of gracefulShutdown; and the one its creator has yet to register.
HeldServers ==
    {inst[t] : t \in Threads} \cup stopping
        \cup {call[p] : p \in {q \in Procs : pc[q] = "register"}}

\* No embedded server is forgotten: while it runs it is registered, or some
\* goroutine is on its way to register or stop it.
NoForgottenServer ==
    \A g \in Entry :
        KindOf(g) = "embedded" /\ ext[g] = "live"
            => \/ g = instances[keyOf[g]]
               \/ g \in HeldServers

\* When WaitForGracefulShutdown returns, and ever after, no server is registered
\* and gracefulShutdown has drained its snapshot.
ShutdownLeavesNoServer ==
    pc[GS] = "gsDone" => /\ \A k \in Keys : instances[k] = None
                         /\ snap = {} /\ stopping = {}

\* "The process-wide singleton ... created on the first call and reused on
\* subsequent calls": the generations of a key have one open pool between them.
OnePoolPerKey ==
    \A e, f \in Entry :
        pg[e] = "open" /\ pg[f] = "open" /\ keyOf[e] = keyOf[f] => e = f

\* No creation has failed, and no close or shutdown has started that found
\* anything to take.
Undisturbed ==
    /\ ~shuttingDown
    /\ \A p \in Procs :
         pc[p] \notin ClosePc \cup {"undoTake", "undoStop", "fail", "failRelease",
                                    "remove", "closeDoneErr"}
    /\ \A e \in done : pg[e] = "open"

\* However many goroutines open the same keys at once, as long as nothing else
\* happens to them each key has one pool, which every call returns, and
OneUndisturbedPool == Undisturbed => OnePoolPerKey

\* the test container behind a cached pool is on the list of the pool's own entry,
\* so whoever drains the entry terminates it.
ContainerOnOwnEntry ==
    Undisturbed =>
        \A e \in cached : KindOf(e) = "testcontainer" => res[e] = <<e>>

\* Every call of OpenPoolWithKey and ClosePoolWithKey returns.
CallsReturn == \A p \in Procs : []<>(pc[p] = "idle")

\* A signal is followed by the end of gracefulShutdown.
ShutdownCompletes == shuttingDown ~> pc[GS] = "gsDone"
=============================================================================
