---------------------- MODULE EmbeddedServerProofs ----------------------
(***************************************************************************)
(* Embedded servers for every number of goroutines, keys, directories,     *)
(* calls and faults: the safety properties of EmbeddedServer.              *)
(*                                                                         *)
(* TypeInv ties the locals of a goroutine to where it is.  On top of it    *)
(* stand facts about servers (PidFiles, PidsOK): the pid file of a running *)
(* server names it or nobody, no two share a directory, and its pid        *)
(* belongs to no other process; and about what a goroutine knows of the    *)
(* server it starts (Starts).  They make up Base, which every theorem      *)
(* uses.  A step either brings up one server or is calm: every server      *)
(* keeps its pid and directory or ends (NextServers).                      *)
(*                                                                         *)
(* Each property then has an invariant of its own: instances hold the      *)
(* server of their directories (Holding), and somebody answers for every   *)
(* server (Strays) and for every directory (Residue).                      *)
(*                                                                         *)
(* The end is about ends: calls do not loop (CallsAdvance), and what a     *)
(* shutdown leaves is accounted for (ShutdownAccounts).                    *)
(***************************************************************************)
EXTENDS EmbeddedServer, TLAPS

Stopping == {"term", "signal", "wait", "kill", "confirm", "remove"}

Afters == {"newPool", "fail", "done"}

\* Calls that are not made have no server, the others have a key; a call's server is in
\* a named directory or in that of the call.
CallsOK ==
    /\ \A n \in Calls : server[n].dir \in Calls => server[n].dir = n
    /\ \A n \in Calls : n > calls => server[n] = NoServer /\ n \notin temps
    /\ \A n \in Calls : n <= calls => keyOf[n] \in Keys

\* The shutdown's goroutines only stop servers, and the others execute a call.
PointsOK ==
    /\ \A k \in Keys : pc[k] \in Stopping \cup {"idle"} /\ after[k] = "done"
    /\ \A t \in Procs : pc[t] # "idle" => num[t] \in Calls /\ num[t] <= calls

\* What a goroutine at l, executing call m, is about to register: nothing, a server
\* that was found running, one that was started, or a complete instance.
OwnAt(l, o, m) ==
    /\ l \in {"idle", "take"} => o = NoInstance
    /\ l \in {"ensure", "readPid"} => o.dir \in Dirs /\ o.rt = 0
    /\ l \in {"starting", "noPid"} => o.rt = m /\ (o.dir \in Calls => o.dir = m)
    /\ l \notin {"ensure", "readPid", "starting", "noPid"} => o \in Stoppable

OwnsOK == \A t \in Threads : OwnAt(pc[t], own[t], num[t])

\* The types, and what the program points say of the locals.
TypeInv == TypeOK /\ CallsOK /\ PointsOK /\ OwnsOK

(***************************************************************************)
(* Types.                                                                  *)
(***************************************************************************)
\* The sets of the model.
LEMMA Sets ==
  /\ 0 \in Ref /\ Calls \subseteq Ref /\ Calls \subseteq Paths /\ Dirs \subseteq Paths
  /\ Procs \subseteq Threads /\ Keys \subseteq Threads
  /\ \A t \in Threads : (t \in Procs \/ t \in Keys) /\ ~(t \in Procs /\ t \in Keys)
  /\ \A n \in Calls : n \in Nat /\ n # 0
  /\ \A d \in Paths : (d \in Dirs \/ d \in Calls) /\ ~(d \in Dirs /\ d \in Calls)
  /\ 0 \notin Paths /\ 0 \notin Calls
  BY EmbeddedAssumption DEF Calls, Ref, Threads, Paths

\* The instance that is none.
LEMMA NoInstanceOK ==
  /\ NoInstance \in Stoppable /\ NoInstance \in Instance
  /\ NoInstance.pid = 0 /\ NoInstance.dir = 0 /\ NoInstance.rt = 0
  BY Sets DEF Instance, Stoppable, NoInstance

\* Instances that are built.
LEMMA InstanceOK ==
  ASSUME NEW p \in Ref, NEW d \in Paths, NEW b \in Ref
  PROVE  LET i == [pid |-> p, dir |-> d, rt |-> b] IN
         /\ i \in Instance /\ i.pid = p /\ i.dir = d /\ i.rt = b
         /\ (b # 0 => p # 0) => i \in Stoppable
  BY Sets DEF Instance, Stoppable, NoInstance

\* Instances that are changed.
LEMMA InstanceParts ==
  ASSUME NEW i \in Instance
  PROVE  /\ i.pid \in Ref /\ i.rt \in Ref
         /\ i.rt # 0 \/ i.dir # 0 => i.dir \in Paths
         /\ \A p : [i EXCEPT !.pid = p] = [pid |-> p, dir |-> i.dir, rt |-> i.rt]
         /\ \A d : [i EXCEPT !.dir = d] = [pid |-> i.pid, dir |-> d, rt |-> i.rt]
  <1>1. CASE i = NoInstance
    <2>1. i \in [pid : {0}, dir : {0}, rt : {0}]
      BY <1>1 DEF NoInstance
    <2>2. i.pid \in Ref /\ i.rt \in Ref /\ (i.rt # 0 \/ i.dir # 0 => i.dir \in Paths)
      BY <2>1, Sets
    <2>3. \A p : [i EXCEPT !.pid = p] = [pid |-> p, dir |-> i.dir, rt |-> i.rt]
      BY <2>1
    <2>4. \A d : [i EXCEPT !.dir = d] = [pid |-> i.pid, dir |-> d, rt |-> i.rt]
      BY <2>1
    <2>5. QED
      BY <2>2, <2>3, <2>4
  <1>2. CASE i \in [pid : Ref, dir : Paths, rt : Ref]
    BY <1>2
  <1>3. QED
    BY <1>1, <1>2 DEF Instance

\* Goroutine t goes to l, with these locals.
Moved(t, l, m, q, o, i, a) ==
    /\ Goto(t, l)
    /\ num'   = [num EXCEPT ![t] = m]
    /\ port'  = [port EXCEPT ![t] = q]
    /\ own'   = [own EXCEPT ![t] = o]
    /\ inst'  = [inst EXCEPT ![t] = i]
    /\ after' = [after EXCEPT ![t] = a]
    /\ target' \in [Threads -> Ref]

LocalsOK ==
    /\ pc \in [Threads -> Pcs] /\ num \in [Threads -> Ref] /\ port \in [Threads -> Ref]
    /\ own \in [Threads -> Instance] /\ inst \in [Threads -> Stoppable]
    /\ after \in [Threads -> Afters] /\ target \in [Threads -> Ref]

\* The locals of a goroutine.
LEMMA LocalOK ==
  ASSUME TypeInv, NEW t \in Threads
  PROVE  /\ num[t] \in Ref /\ port[t] \in Ref /\ own[t] \in Instance
         /\ inst[t] \in Stoppable /\ after[t] \in Afters
         /\ OwnAt(pc[t], own[t], num[t])
  BY DEF TypeInv, TypeOK, ProgramOK, OwnsOK, Afters

\* Locals that are left alone.
LEMMA Kept ==
  ASSUME TypeInv, NEW t \in Threads
  PROVE  /\ num = [num EXCEPT ![t] = num[t]] /\ port = [port EXCEPT ![t] = port[t]]
         /\ own = [own EXCEPT ![t] = own[t]] /\ inst = [inst EXCEPT ![t] = inst[t]]
         /\ after = [after EXCEPT ![t] = after[t]] /\ target \in [Threads -> Ref]
  BY DEF TypeInv, TypeOK, ProgramOK

\* A goroutine in the middle of a call has a key.
LEMMA KeyOK ==
  ASSUME TypeInv, NEW t \in Threads, pc[t] # "idle"
  PROVE  Key(t) \in Keys
  BY Sets DEF TypeInv, CallsOK, PointsOK, Key

\* Only callers get further than the stops.
LEMMA CallerOK ==
  ASSUME TypeInv, NEW t \in Threads, pc[t] \notin Stopping \cup {"idle"}
  PROVE  t \in Procs /\ num[t] \in Calls /\ num[t] <= calls
  BY Sets DEF TypeInv, PointsOK, Stopping

\* A step to l keeps the types of the locals.
LEMMA MovedOK ==
  ASSUME TypeInv, NEW t \in Threads, NEW l \in Pcs, NEW m \in Ref, NEW q \in Ref,
         NEW o \in Instance, NEW i \in Stoppable, NEW a \in Afters,
         Moved(t, l, m, q, o, i, a), calls \in Nat, calls' \in Nat, calls <= calls',
         t \in Keys => l \in Stopping \cup {"idle"} /\ a = "done",
         t \in Procs /\ l # "idle" => m \in Calls /\ m <= calls',
         OwnAt(l, o, m)
  PROVE  LocalsOK' /\ PointsOK' /\ OwnsOK'
  <1>1. LocalsOK'
    BY DEF TypeInv, TypeOK, ProgramOK, Moved, LocalsOK, Goto, Afters
  <1>2. PointsOK'
    BY <1>1, Sets DEF TypeInv, TypeOK, ProgramOK, PointsOK, Moved, Goto, LocalsOK
  <1>3. OwnsOK'
    <2>1. \A u \in Threads : OwnAt(pc'[u], own'[u], num'[u])
      <3>1. SUFFICES ASSUME NEW u \in Threads PROVE OwnAt(pc'[u], own'[u], num'[u])
        OBVIOUS
      <3>2. CASE u = t
        BY <3>2 DEF TypeInv, TypeOK, ProgramOK, Moved, Goto
      <3>3. CASE u # t
        <4>1. pc'[u] = pc[u] /\ own'[u] = own[u] /\ num'[u] = num[u]
          BY <3>3 DEF TypeInv, TypeOK, ProgramOK, Moved, Goto
        <4>2. QED
          BY <4>1, LocalOK
      <3>4. QED
        BY <3>2, <3>3
    <2>2. QED
      BY <2>1 DEF OwnsOK, OwnAt
  <1>4. QED
    BY <1>1, <1>2, <1>3

\* A goroutine that is done with its call keeps them.
LEMMA LeaveOK ==
  ASSUME TypeInv, NEW t \in Threads, Leave(t), UNCHANGED calls
  PROVE  LocalsOK' /\ PointsOK' /\ OwnsOK'
  <1>1. Moved(t, "idle", 0, 0, NoInstance, NoInstance, "done")
    BY Kept DEF Leave, Moved
  <1>2. OwnAt("idle", NoInstance, 0)
    BY NoInstanceOK DEF OwnAt
  <1>3. calls \in Nat /\ calls' \in Nat /\ calls <= calls' /\ "idle" \in Pcs /\ "done" \in Afters
    BY EmbeddedAssumption DEF TypeInv, TypeOK, HistoryOK, Ref, Pcs, Afters
  <1>4. QED
    BY <1>1, <1>2, <1>3, Sets, NoInstanceOK, MovedOK

\* A goroutine that goes on with the same locals keeps them.
LEMMA GoOK ==
  ASSUME TypeInv, NEW t \in Threads, NEW l \in Pcs, Goto(t, l),
         UNCHANGED <<num, own, after, calls>>,
         port' = port \/ port' = [port EXCEPT ![t] = 0],
         UNCHANGED target \/ target' \in [Threads -> Ref],
         NEW i \in Stoppable, inst' = [inst EXCEPT ![t] = i],
         pc[t] # "idle",
         t \in Keys => l \in Stopping \cup {"idle"},
         OwnAt(l, own[t], num[t])
  PROVE  LocalsOK' /\ PointsOK' /\ OwnsOK'
  <1>1. PICK q \in Ref : port' = [port EXCEPT ![t] = q]
    BY Kept, LocalOK, Sets
  <1>2. Moved(t, l, num[t], q, own[t], i, after[t])
    BY <1>1, Kept DEF Moved
  <1>3. calls \in Nat /\ calls' \in Nat /\ calls <= calls'
    BY EmbeddedAssumption DEF TypeInv, TypeOK, HistoryOK, Ref
  <1>4. t \in Keys => after[t] = "done"
    BY DEF TypeInv, PointsOK
  <1>5. t \in Procs => num[t] \in Calls /\ num[t] <= calls'
    BY DEF TypeInv, PointsOK
  <1>6. QED
    BY <1>1, <1>2, <1>3, <1>4, <1>5, LocalOK, MovedOK

\* Servers that are not there.
LEMMA Servers ==
  /\ NoServer \in ServerType
  /\ [NoServer EXCEPT !.state = "gone"] \in ServerType
  /\ [NoServer EXCEPT !.state = "failed"] \in ServerType
  BY Sets DEF ServerType, NoServer

\* A call begins.
LEMMA ArriveOK ==
  ASSUME TypeInv, NEW t \in Procs, NEW k \in Keys, Arrive(t, k)
  PROVE  /\ calls \in Nat /\ calls + 1 \in Calls /\ calls' = calls + 1 /\ calls' \in Ref
         /\ keyOf' \in [Calls -> Keys \cup {NoKey}]
         /\ \A n \in Calls : n <= calls' => keyOf'[n] \in Keys
         /\ pc[t] = "idle" /\ own[t] = NoInstance /\ server[calls + 1] = NoServer
         /\ t \in Threads /\ t \notin Keys /\ calls <= calls' /\ calls' \in Nat
  <1>1. calls \in Ref /\ calls < MaxCalls /\ calls' = calls + 1
    BY DEF Arrive, TypeInv, TypeOK, HistoryOK
  <1>2. calls \in Nat /\ calls + 1 \in Calls /\ calls' \in Ref
    BY <1>1, EmbeddedAssumption DEF Ref, Calls
  <1>3. keyOf' \in [Calls -> Keys \cup {NoKey}]
    BY DEF Arrive, TypeInv, TypeOK, HistoryOK
  <1>4. \A n \in Calls : n <= calls' => n <= calls \/ n = calls + 1
    BY <1>1, <1>2, EmbeddedAssumption DEF Calls
  <1>5. \A n \in Calls : n <= calls' => keyOf'[n] \in Keys
    BY <1>2, <1>4 DEF Arrive, TypeInv, TypeOK, HistoryOK, CallsOK
  <1>6. pc[t] = "idle" /\ t \in Threads /\ t \notin Keys
    BY Sets DEF Arrive
  <1>7. own[t] = NoInstance
    BY <1>6, LocalOK DEF OwnAt
  <1>8. server[calls + 1] = NoServer
    BY <1>2 DEF TypeInv, CallsOK
  <1>9. QED
    BY <1>1, <1>2, <1>3, <1>5, <1>6, <1>7, <1>8

\* A signal changes nothing but the mark of a server.
LEMMA SendOK ==
  ASSUME TypeInv, NEW s \in {"term", "kill"}, NEW p, Send(s, p)
  PROVE  /\ server' \in [Calls -> ServerType]
         /\ \A n \in Calls :
              /\ server'[n].state = server[n].state
              /\ server'[n].pid = server[n].pid
              /\ server'[n].dir = server[n].dir
              /\ ~Live(n) => server'[n] = server[n]
  <1>1. \A n \in Calls : server[n] \in ServerType
    BY DEF TypeInv, TypeOK, SystemOK
  <1>2. \A n \in Calls : [server[n] EXCEPT !.sig = s] \in ServerType
    BY <1>1 DEF ServerType
  <1>3. server' \in [Calls -> ServerType]
    BY <1>1, <1>2 DEF Send
  <1>4. QED
    BY <1>1, <1>3 DEF Send, ServerType

\* Reuse keeps the types.
LEMMA ReuseType ==
  ASSUME TypeInv, NEW t \in Procs, NEW k \in Keys, NEW d \in Dirs \cup {calls + 1},
         Reuse(t, k, d)
  PROVE  TypeInv'
  <1>1. /\ calls \in Nat /\ calls + 1 \in Calls /\ calls' = calls + 1 /\ calls' \in Ref
        /\ keyOf' \in [Calls -> Keys \cup {NoKey}]
        /\ \A n \in Calls : n <= calls' => keyOf'[n] \in Keys
        /\ pc[t] = "idle" /\ own[t] = NoInstance /\ server[calls + 1] = NoServer
        /\ t \in Threads /\ t \notin Keys /\ calls <= calls' /\ calls' \in Nat
    BY ArriveOK DEF Reuse
  <1>2. LocalsOK' /\ PointsOK' /\ OwnsOK'
    <2>1. d \in Dirs /\ d \in Paths /\ pidFile[d].port \in Ref
      BY Sets DEF Reuse, ReuseEmbeddedPG, TypeInv, TypeOK, SystemOK
    <2> DEFINE o == [pid |-> 0, dir |-> d, rt |-> 0]
    <2>2. o \in Instance /\ OwnAt("ensure", o, calls + 1)
      BY <2>1, Sets, InstanceOK DEF OwnAt
    <2>3. Moved(t, "ensure", calls + 1, pidFile[d].port, o, inst[t], after[t])
      <3>1. own' = [own EXCEPT ![t] = o]
        <4>1. [own[t] EXCEPT !.dir = d] = [pid |-> own[t].pid, dir |-> d, rt |-> own[t].rt]
          BY <1>1, LocalOK, InstanceParts
        <4>2. own[t].pid = 0 /\ own[t].rt = 0
          BY <1>1 DEF NoInstance
        <4>3. [own[t] EXCEPT !.dir = d] = o
          BY <4>1, <4>2
        <4>4. own' = [own EXCEPT ![t] = [own[t] EXCEPT !.dir = d]]
          BY DEF Reuse
        <4>5. QED
          BY <4>3, <4>4
      <3>2. QED
        BY <1>1, <3>1, Kept DEF Reuse, Moved
    <2>4. "ensure" \in Pcs /\ calls + 1 <= calls'
      BY <1>1 DEF Pcs
    <2> HIDE DEF o
    <2>5. QED
      BY <1>1, <2>1, <2>2, <2>3, <2>4, Sets, LocalOK, MovedOK
  <1>3. SystemOK'
    BY <1>1, Sets DEF Reuse, Arrive, TypeInv, TypeOK, SystemOK, system, files
  <1>4. instances' \in [Keys -> Stoppable] /\ open' \in SUBSET Keys /\ UNCHANGED gs
    BY <1>1, LocalOK DEF Reuse, Arrive, TypeInv, TypeOK, ProgramOK
  <1>5. HistoryOK'
    BY <1>1, Sets DEF Reuse, Arrive, TypeInv, TypeOK, HistoryOK, history
  <1>6. CallsOK'
    BY <1>1, Sets DEF Reuse, Arrive, TypeInv, TypeOK, SystemOK, CallsOK, system, files
  <1>7. QED
    BY <1>2, <1>3, <1>4, <1>5, <1>6 DEF TypeInv, TypeOK, ProgramOK, LocalsOK, Afters

\* Prepare keeps the types.
LEMMA PrepareType ==
  ASSUME TypeInv, NEW t \in Procs, NEW k \in Keys, NEW d \in Dirs \cup {calls + 1},
         Prepare(t, k, d)
  PROVE  TypeInv'
  <1>1. /\ calls \in Nat /\ calls + 1 \in Calls /\ calls' = calls + 1 /\ calls' \in Ref
        /\ keyOf' \in [Calls -> Keys \cup {NoKey}]
        /\ \A n \in Calls : n <= calls' => keyOf'[n] \in Keys
        /\ pc[t] = "idle" /\ own[t] = NoInstance /\ server[calls + 1] = NoServer
        /\ t \in Threads /\ t \notin Keys /\ calls <= calls' /\ calls' \in Nat
    BY ArriveOK DEF Prepare
  <1>2. LocalsOK' /\ PointsOK' /\ OwnsOK'
    <2> DEFINE o == [pid |-> 0, dir |-> d, rt |-> calls + 1]
    <2>1. d \in Paths /\ (d \in Calls => d = calls + 1) /\ 0 \in Ref /\ calls + 1 \in Ref
      BY <1>1, Sets
    <2>2. o \in Instance /\ o.dir = d /\ o.rt = calls + 1
      BY <2>1, InstanceOK
    <2>3. OwnAt("starting", o, calls + 1)
      BY <2>1, <2>2 DEF OwnAt
    <2>4. Moved(t, "starting", calls + 1, port[t], o, inst[t], after[t])
      BY <1>1, Kept DEF Prepare, Moved
    <2>5. "starting" \in Pcs /\ calls + 1 <= calls'
      BY <1>1 DEF Pcs
    <2> HIDE DEF o
    <2>6. QED
      BY <1>1, <2>3, <2>2, <2>4, <2>5, Sets, LocalOK, MovedOK
  <1>3. server' = [server EXCEPT ![calls + 1] = [NoServer EXCEPT !.state = "spawning", !.dir = d]]
    BY <1>1 DEF Prepare, TypeInv, TypeOK, SystemOK
  <1>4. [NoServer EXCEPT !.state = "spawning", !.dir = d] \in ServerType
    BY <1>1, Sets DEF NoServer, ServerType
  <1>5. SystemOK'
    BY <1>1, <1>3, <1>4, Sets DEF Prepare, Arrive, TypeInv, TypeOK, SystemOK
  <1>6. instances' \in [Keys -> Stoppable] /\ open' \in SUBSET Keys /\ UNCHANGED gs
    BY <1>1, LocalOK DEF Prepare, Arrive, TypeInv, TypeOK, ProgramOK
  <1>7. HistoryOK'
    BY <1>1, <1>3, <1>4, Sets DEF Prepare, Arrive, TypeInv, TypeOK, HistoryOK,
       history
  <1>8. CallsOK'
    BY <1>1, <1>3, <1>4, Sets DEF Prepare, Arrive, TypeInv, TypeOK, SystemOK,
       CallsOK
  <1>9. QED
    BY <1>2, <1>5, <1>6, <1>7, <1>8 DEF TypeInv, TypeOK, ProgramOK, LocalsOK, Afters

\* PrepareFails keeps the types.
LEMMA PrepareFailsType ==
  ASSUME TypeInv, NEW t \in Procs, NEW k \in Keys, NEW d \in Dirs \cup {calls + 1},
         PrepareFails(t, k, d)
  PROVE  TypeInv'
  <1>1. /\ calls \in Nat /\ calls + 1 \in Calls /\ calls' = calls + 1 /\ calls' \in Ref
        /\ keyOf' \in [Calls -> Keys \cup {NoKey}]
        /\ \A n \in Calls : n <= calls' => keyOf'[n] \in Keys
        /\ pc[t] = "idle" /\ own[t] = NoInstance /\ server[calls + 1] = NoServer
        /\ t \in Threads /\ t \notin Keys /\ calls <= calls' /\ calls' \in Nat
    BY ArriveOK DEF PrepareFails
  <1>2. LocalsOK' /\ PointsOK' /\ OwnsOK'
    <2>1. LocalsOK'
      BY DEF PrepareFails, system, files, locals, bounds, history, LocalsOK, TypeInv,
         TypeOK, ProgramOK, Afters
    <2>2. \A u \in Procs : num[u] \in Calls => num[u] \in Nat
      BY Sets
    <2>3. PointsOK'
      BY <1>1, <2>2 DEF PrepareFails, system, files, locals, bounds, history, PointsOK,
         TypeInv
    <2>4. OwnsOK'
      BY DEF PrepareFails, system, files, locals, bounds, history, OwnsOK, TypeInv
    <2>5. QED
      BY <2>1, <2>3, <2>4
  <1>3. undercut' \in SUBSET Calls
    BY DEF PrepareFails, Undercut, TypeInv, TypeOK, HistoryOK
  <1>4. faults' \in 0 .. MaxFaults
    BY EmbeddedAssumption DEF PrepareFails, Fault, TypeInv, TypeOK, HistoryOK
  <1>5. SystemOK'
    BY <1>1, <1>3, <1>4, Sets DEF PrepareFails, Arrive, Fault, TypeInv, TypeOK,
       SystemOK, system
  <1>6. instances' \in [Keys -> Stoppable] /\ open' \in SUBSET Keys /\ UNCHANGED gs
    BY <1>1, LocalOK DEF PrepareFails, Arrive, Fault, TypeInv, TypeOK,
       ProgramOK
  <1>7. HistoryOK'
    BY <1>1, <1>3, <1>4, Sets DEF PrepareFails, Arrive, Fault, TypeInv, TypeOK,
       HistoryOK
  <1>8. CallsOK'
    BY <1>1, <1>3, <1>4, Sets DEF PrepareFails, Arrive, Fault, TypeInv, TypeOK,
       SystemOK, CallsOK, system
  <1>9. QED
    BY <1>2, <1>5, <1>6, <1>7, <1>8 DEF TypeInv, TypeOK, ProgramOK, LocalsOK, Afters

\* EnsureDatabaseExists keeps the types.
LEMMA EnsureDatabaseExistsType ==
  ASSUME TypeInv, NEW t \in Threads, EnsureDatabaseExists(t)
  PROVE  TypeInv'
  <1>1. t \in Procs /\ t \notin Keys /\ num[t] \in Calls /\ num[t] <= calls /\ Key(t) \in Keys
    BY Sets, CallerOK, KeyOK DEF EnsureDatabaseExists, Stopping
  <1>2. LocalsOK' /\ PointsOK' /\ OwnsOK'
    <2>1. pc[t] # "idle" /\ (t \in Keys => "readPid" \in Stopping) /\ "readPid" \in Pcs
      BY <1>1 DEF EnsureDatabaseExists, Stopping, Pcs
    <2>2. OwnAt("readPid", own[t], num[t])
      BY <1>1, LocalOK DEF EnsureDatabaseExists, OwnAt
    <2>3. inst' = [inst EXCEPT ![t] = inst[t]] /\ inst[t] \in Stoppable
      BY Kept, LocalOK DEF EnsureDatabaseExists, system, files, locals, bounds, history
    <2>4. QED
      BY <2>1, <2>2, <2>3, GoOK DEF EnsureDatabaseExists, system, files, locals, bounds,
         history
  <1>3. SystemOK'
    BY <1>1, Sets DEF EnsureDatabaseExists, TypeInv, TypeOK, SystemOK, system, files
  <1>4. instances' \in [Keys -> Stoppable] /\ open' \in SUBSET Keys /\ UNCHANGED gs
    BY <1>1, LocalOK DEF EnsureDatabaseExists, TypeInv, TypeOK, ProgramOK
  <1>5. HistoryOK'
    BY <1>1, Sets DEF EnsureDatabaseExists, TypeInv, TypeOK, HistoryOK, bounds, history
  <1>6. CallsOK'
    BY <1>1, Sets DEF EnsureDatabaseExists, TypeInv, TypeOK, SystemOK, CallsOK, system,
       files, bounds
  <1>7. QED
    BY <1>2, <1>3, <1>4, <1>5, <1>6 DEF TypeInv, TypeOK, ProgramOK, LocalsOK, Afters

\* EnsureFails keeps the types.
LEMMA EnsureFailsType ==
  ASSUME TypeInv, NEW t \in Threads, EnsureFails(t)
  PROVE  TypeInv'
  <1>1. LocalsOK' /\ PointsOK' /\ OwnsOK'
    BY LeaveOK DEF EnsureFails, Fail, system, files, locals, bounds, history
  <1>2. SystemOK'
    BY Sets DEF EnsureFails, TypeInv, TypeOK, SystemOK, system, files
  <1>3. instances' \in [Keys -> Stoppable] /\ open' \in SUBSET Keys /\ UNCHANGED gs
    BY LocalOK DEF EnsureFails, Fail, Leave, TypeInv, TypeOK, ProgramOK
  <1>4. HistoryOK'
    <2>1. faults' \in 0 .. MaxFaults
      BY EmbeddedAssumption DEF EnsureFails, Fault, TypeInv, TypeOK, HistoryOK
    <2>2. QED
      BY <2>1 DEF EnsureFails, TypeInv, TypeOK, HistoryOK, history
  <1>5. CallsOK'
    BY Sets DEF EnsureFails, Fail, TypeInv, TypeOK, SystemOK, CallsOK, system, files, bounds
  <1>6. QED
    BY <1>1, <1>2, <1>3, <1>4, <1>5 DEF TypeInv, TypeOK, ProgramOK, LocalsOK, Afters

\* ReadPid keeps the types.
LEMMA ReadPidType ==
  ASSUME TypeInv, NEW t \in Threads, ReadPid(t)
  PROVE  TypeInv'
  <1>1. t \in Procs /\ t \notin Keys /\ num[t] \in Calls /\ num[t] <= calls /\ Key(t) \in Keys
    BY Sets, CallerOK, KeyOK DEF ReadPid, Stopping
  <1>2. LocalsOK' /\ PointsOK' /\ OwnsOK'
    <2>1. own[t] \in Instance /\ own[t].dir \in Dirs /\ own[t].rt = 0
      BY LocalOK DEF ReadPid, OwnAt
    <2>2. own[t].dir \in Paths /\ pidFile[own[t].dir].pid \in Ref
      BY <2>1, Sets DEF TypeInv, TypeOK, SystemOK
    <2> DEFINE o == [pid |-> pidFile[own[t].dir].pid, dir |-> own[t].dir, rt |-> 0]
    <2>3. o \in Instance /\ OwnAt("register", o, num[t])
      <3>1. o \in Instance /\ o.rt = 0 /\ o \in Stoppable
        BY <2>1, <2>2, Sets, InstanceOK
      <3>2. QED
        BY <3>1 DEF OwnAt
    <2>4. own' = [own EXCEPT ![t] = o]
      <3>1. [own[t] EXCEPT !.pid = FilePid(own[t].dir)]
              = [pid |-> FilePid(own[t].dir), dir |-> own[t].dir, rt |-> own[t].rt]
        BY <2>1, InstanceParts
      <3>2. own[t].rt = 0
        BY <2>1, InstanceParts
      <3>3. [own[t] EXCEPT !.pid = FilePid(own[t].dir)] = o
        BY <3>1, <3>2 DEF FilePid
      <3>4. own' = [own EXCEPT ![t] = [own[t] EXCEPT !.pid = FilePid(own[t].dir)]]
        BY DEF ReadPid
      <3>5. QED
        BY <3>3, <3>4
    <2>5. Moved(t, "register", num[t], port[t], o, inst[t], after[t])
      BY <2>4, Kept DEF ReadPid, Moved
    <2>6. calls \in Nat /\ calls' = calls /\ "register" \in Pcs
      BY EmbeddedAssumption DEF TypeInv, TypeOK, HistoryOK, Ref, Pcs, ReadPid, bounds
    <2>7. QED
      BY <1>1, <2>3, <2>5, <2>6, LocalOK, MovedOK
  <1>3. SystemOK'
    BY <1>1, Sets DEF ReadPid, TypeInv, TypeOK, SystemOK, system, files
  <1>4. instances' \in [Keys -> Stoppable] /\ open' \in SUBSET Keys /\ UNCHANGED gs
    BY <1>1, LocalOK DEF ReadPid, TypeInv, TypeOK, ProgramOK
  <1>5. HistoryOK'
    BY <1>1, Sets DEF ReadPid, TypeInv, TypeOK, HistoryOK, bounds, history
  <1>6. CallsOK'
    BY <1>1, Sets DEF ReadPid, TypeInv, TypeOK, SystemOK, CallsOK, system, files, bounds
  <1>7. QED
    BY <1>2, <1>3, <1>4, <1>5, <1>6 DEF TypeInv, TypeOK, ProgramOK, LocalsOK, Afters

\* Started keeps the types.
LEMMA StartedType ==
  ASSUME TypeInv, NEW t \in Threads, Started(t)
  PROVE  TypeInv'
  <1>1. t \in Procs /\ t \notin Keys /\ num[t] \in Calls /\ num[t] <= calls /\ Key(t) \in Keys
    BY Sets, CallerOK, KeyOK DEF Started, Stopping
  <1>2. LocalsOK' /\ PointsOK' /\ OwnsOK'
    <2>1. own[t] \in Instance /\ own[t].rt = num[t] /\ (own[t].dir \in Calls => own[t].dir = num[t])
      BY LocalOK DEF Started, OwnAt
    <2>2. num[t] # 0 /\ num[t] \in Ref
      BY <1>1, Sets
    <2>3. own[t].dir \in Paths
      BY <2>2, <2>1, InstanceParts
    <2>4. own[t].dir \in Paths /\ pidFile[own[t].dir].pid \in Ref
      BY <2>3 DEF TypeInv, TypeOK, SystemOK
    <2> DEFINE o == [pid |-> pidFile[own[t].dir].pid, dir |-> own[t].dir, rt |-> num[t]]
               l == IF FilePid(own[t].dir) = 0 THEN "noPid" ELSE "register"
    <2>5. o \in Instance /\ OwnAt(l, o, num[t])
      <3>1. /\ o \in Instance /\ o.rt = num[t] /\ o.dir = own[t].dir
            /\ pidFile[own[t].dir].pid # 0 => o \in Stoppable
        BY <2>2, <2>4, InstanceOK
      <3>2. QED
        BY <2>1, <3>1 DEF OwnAt, FilePid
    <2>6. own' = [own EXCEPT ![t] = o]
      <3>1. [own[t] EXCEPT !.pid = FilePid(own[t].dir)] = o
        BY <2>1, InstanceParts DEF FilePid
      <3>2. own' = [own EXCEPT ![t] = [own[t] EXCEPT !.pid = FilePid(own[t].dir)]]
        BY DEF Started
      <3>3. QED
        BY <3>1, <3>2
    <2>7. Moved(t, l, num[t], port[t], o, inst[t], after[t])
      BY <2>6, Kept DEF Started, Moved
    <2>8. calls \in Nat /\ calls' = calls /\ l \in Pcs
      BY EmbeddedAssumption DEF TypeInv, TypeOK, HistoryOK, Ref, Pcs, Started, bounds
    <2> HIDE DEF o, l
    <2>9. QED
      BY <1>1, <2>5, <2>7, <2>8, LocalOK, MovedOK
  <1>3. SystemOK'
    BY <1>1, Sets DEF Started, TypeInv, TypeOK, SystemOK, system, files
  <1>4. instances' \in [Keys -> Stoppable] /\ open' \in SUBSET Keys /\ UNCHANGED gs
    BY <1>1, LocalOK DEF Started, TypeInv, TypeOK, ProgramOK
  <1>5. HistoryOK'
    BY <1>1, Sets DEF Started, TypeInv, TypeOK, HistoryOK, bounds, history
  <1>6. CallsOK'
    BY <1>1, Sets DEF Started, TypeInv, TypeOK, SystemOK, CallsOK, system, files, bounds
  <1>7. QED
    BY <1>2, <1>3, <1>4, <1>5, <1>6 DEF TypeInv, TypeOK, ProgramOK, LocalsOK, Afters

\* StartError keeps the types.
LEMMA StartErrorType ==
  ASSUME TypeInv, NEW t \in Threads, StartError(t)
  PROVE  TypeInv'
  <1>1. t \in Procs /\ t \notin Keys /\ num[t] \in Calls /\ num[t] <= calls /\ Key(t) \in Keys
    BY Sets, CallerOK, KeyOK DEF StartError, Stopping
  <1>2. LocalsOK' /\ PointsOK' /\ OwnsOK'
    BY LeaveOK DEF StartError, Fail, system, files, locals, bounds, history
  <1>3. NoFile \in [pid : Ref, port : Ref] /\ temps' \subseteq temps
    BY Sets DEF NoFile, StartError, RemoveDirs
  <1>4. pidFile' \in [Paths -> [pid : Ref, port : Ref]]
    BY <1>3 DEF StartError, RemoveDirs, TypeInv, TypeOK, SystemOK
  <1>5. SystemOK'
    BY <1>1, <1>3, <1>4, Sets DEF StartError, RemoveDirs, TypeInv, TypeOK, SystemOK
  <1>6. instances' \in [Keys -> Stoppable] /\ open' \in SUBSET Keys /\ UNCHANGED gs
    BY <1>1, LocalOK DEF StartError, RemoveDirs, Leave, Fail, TypeInv, TypeOK, ProgramOK
  <1>7. HistoryOK'
    BY <1>1, <1>3, <1>4, Sets DEF StartError, RemoveDirs, Undercut, TypeInv, TypeOK,
       HistoryOK, bounds, history
  <1>8. CallsOK'
    BY <1>1, <1>3, <1>4, Sets DEF StartError, RemoveDirs, TypeInv, TypeOK, SystemOK,
       CallsOK, bounds
  <1>9. QED
    BY <1>2, <1>5, <1>6, <1>7, <1>8 DEF TypeInv, TypeOK, ProgramOK, LocalsOK, Afters

\* StartTimeout keeps the types.
LEMMA StartTimeoutType ==
  ASSUME TypeInv, NEW t \in Threads, StartTimeout(t)
  PROVE  TypeInv'
  <1>1. t \in Procs /\ t \notin Keys /\ num[t] \in Calls /\ num[t] <= calls /\ Key(t) \in Keys
    BY Sets, CallerOK, KeyOK DEF StartTimeout, Stopping
  <1>2. LocalsOK' /\ PointsOK' /\ OwnsOK'
    BY LeaveOK DEF StartTimeout, Fail, system, files, locals, bounds, history
  <1>3. NoFile \in [pid : Ref, port : Ref] /\ temps' \subseteq temps
    BY Sets DEF NoFile, StartTimeout, RemoveDirs
  <1>4. pidFile' \in [Paths -> [pid : Ref, port : Ref]]
    BY <1>3 DEF StartTimeout, RemoveDirs, TypeInv, TypeOK, SystemOK
  <1>5. SystemOK'
    BY <1>1, <1>3, <1>4, Sets DEF StartTimeout, RemoveDirs, TypeInv, TypeOK, SystemOK
  <1>6. instances' \in [Keys -> Stoppable] /\ open' \in SUBSET Keys /\ UNCHANGED gs
    BY <1>1, LocalOK DEF StartTimeout, RemoveDirs, Leave, Fail, TypeInv, TypeOK, ProgramOK
  <1>7. HistoryOK'
    BY <1>1, <1>3, <1>4, Sets DEF StartTimeout, RemoveDirs, Undercut, TypeInv, TypeOK,
       HistoryOK, bounds
  <1>8. CallsOK'
    BY <1>1, <1>3, <1>4, Sets DEF StartTimeout, RemoveDirs, TypeInv, TypeOK, SystemOK,
       CallsOK, bounds
  <1>9. QED
    BY <1>2, <1>5, <1>6, <1>7, <1>8 DEF TypeInv, TypeOK, ProgramOK, LocalsOK, Afters

\* StopUnmanaged keeps the types.
LEMMA StopUnmanagedType ==
  ASSUME TypeInv, NEW t \in Threads, StopUnmanaged(t)
  PROVE  TypeInv'
  <1>1. t \in Procs /\ t \notin Keys /\ num[t] \in Calls /\ num[t] <= calls /\ Key(t) \in Keys
    BY Sets, CallerOK, KeyOK DEF StopUnmanaged, Stopping
  <1>2. LocalsOK' /\ PointsOK' /\ OwnsOK'
    BY LeaveOK DEF StopUnmanaged, Fail, system, files, locals, bounds, history
  <1>3. NoFile \in [pid : Ref, port : Ref] /\ temps' \subseteq temps
    BY Sets DEF NoFile, StopUnmanaged, RemoveDirs
  <1>4. pidFile' \in [Paths -> [pid : Ref, port : Ref]]
    BY <1>3 DEF StopUnmanaged, RemoveDirs, TypeInv, TypeOK, SystemOK
  <1>5. server' \in [Calls -> ServerType]
    BY <1>1, Servers DEF StopUnmanaged, TypeInv, TypeOK, SystemOK, system
  <1>6. \A n \in Calls : server'[n] = server[n] \/ (n = num[t] /\ server'[n].dir = 0)
    BY <1>1 DEF StopUnmanaged, NoServer, TypeInv, TypeOK, SystemOK, system
  <1>7. \A n \in Calls : n > calls => n # num[t]
    BY <1>1, Sets, EmbeddedAssumption DEF TypeInv, TypeOK, HistoryOK, Ref
  <1>8. SystemOK'
    BY <1>1, <1>3, <1>4, <1>5, <1>6, <1>7, Sets DEF StopUnmanaged, RemoveDirs, TypeInv,
       TypeOK, SystemOK
  <1>9. instances' \in [Keys -> Stoppable] /\ open' \in SUBSET Keys /\ UNCHANGED gs
    BY <1>1, LocalOK DEF StopUnmanaged, RemoveDirs, Leave, Fail, TypeInv, TypeOK, ProgramOK
  <1>10. HistoryOK'
    BY <1>1, <1>3, <1>4, <1>5, <1>6, <1>7, Sets DEF StopUnmanaged, RemoveDirs, Undercut,
       TypeInv, TypeOK, HistoryOK, bounds
  <1>11. CallsOK'
    BY <1>1, <1>3, <1>4, <1>5, <1>6, <1>7, Sets DEF StopUnmanaged, TypeInv, TypeOK,
       SystemOK, CallsOK, bounds
  <1>12. QED
    BY <1>2, <1>8, <1>9, <1>10, <1>11 DEF TypeInv, TypeOK, ProgramOK, LocalsOK, Afters

\* RefuseReused keeps the types.
LEMMA RefuseReusedType ==
  ASSUME TypeInv, NEW t \in Threads, RefuseReused(t)
  PROVE  TypeInv'
  <1>1. LocalsOK' /\ PointsOK' /\ OwnsOK'
    BY LeaveOK DEF RefuseReused, Fail, system, files, locals, bounds, history
  <1>2. SystemOK'
    BY Sets DEF RefuseReused, TypeInv, TypeOK, SystemOK, system, files
  <1>3. instances' \in [Keys -> Stoppable] /\ open' \in SUBSET Keys /\ UNCHANGED gs
    BY LocalOK DEF RefuseReused, Leave, Fail, TypeInv, TypeOK, ProgramOK
  <1>4. HistoryOK'
    BY Sets DEF RefuseReused, TypeInv, TypeOK, HistoryOK, bounds, history
  <1>5. CallsOK'
    BY Sets DEF RefuseReused, TypeInv, TypeOK, SystemOK, CallsOK, system, files, bounds
  <1>6. QED
    BY <1>1, <1>2, <1>3, <1>4, <1>5 DEF TypeInv, TypeOK, ProgramOK, LocalsOK, Afters

\* NewPool keeps the types.
LEMMA NewPoolType ==
  ASSUME TypeInv, NEW t \in Threads, NewPool(t)
  PROVE  TypeInv'
  <1>1. LocalsOK' /\ PointsOK' /\ OwnsOK'
    BY LeaveOK DEF NewPool, system, files, locals, bounds, history
  <1>2. SystemOK'
    BY Sets DEF NewPool, TypeInv, TypeOK, SystemOK, system, files
  <1>3. instances' \in [Keys -> Stoppable] /\ open' \in SUBSET Keys /\ UNCHANGED gs
    BY LocalOK DEF NewPool, Leave, TypeInv, TypeOK, ProgramOK
  <1>4. HistoryOK'
    BY Sets DEF NewPool, TypeInv, TypeOK, HistoryOK, bounds, history
  <1>5. CallsOK'
    BY Sets DEF NewPool, TypeInv, TypeOK, SystemOK, CallsOK, system, files, bounds
  <1>6. QED
    BY <1>1, <1>2, <1>3, <1>4, <1>5 DEF TypeInv, TypeOK, ProgramOK, LocalsOK, Afters

\* Register keeps the types.
LEMMA RegisterType ==
  ASSUME TypeInv, NEW t \in Threads, Register(t)
  PROVE  TypeInv'
  <1>1. t \in Procs /\ t \notin Keys /\ num[t] \in Calls /\ num[t] <= calls /\ Key(t) \in Keys
    BY Sets, CallerOK, KeyOK DEF Register, Stopping
  <1>2. calls \in Nat /\ calls' = calls /\ "term" \in Pcs
    BY EmbeddedAssumption DEF TypeInv, TypeOK, HistoryOK, Ref, Pcs, Register, bounds
  <1>3. LocalsOK' /\ PointsOK' /\ OwnsOK'
    <2>1. CASE instances[Key(t)] = NoInstance
      <3>1. OwnAt("newPool", own[t], num[t]) /\ "newPool" \in Pcs /\ pc[t] # "idle"
        BY LocalOK DEF Register, OwnAt, Pcs
      <3>2. inst' = [inst EXCEPT ![t] = inst[t]] /\ inst[t] \in Stoppable
        BY <2>1, Kept, LocalOK DEF Register
      <3>3. QED
        BY <1>1, <1>2, <2>1, <3>1, <3>2, GoOK DEF Register
    <2>2. CASE instances[Key(t)] # NoInstance
      <3>1. Moved(t, "term", num[t], port[t], own[t], instances[Key(t)], "newPool")
        BY <2>2, Kept DEF Register, Moved, system, files, locals, bounds, history
      <3>2. OwnAt("term", own[t], num[t]) /\ instances[Key(t)] \in Stoppable
            /\ "newPool" \in Afters
        BY <1>1, LocalOK, NoInstanceOK DEF Register, OwnAt, Afters, TypeInv, TypeOK,
           ProgramOK
      <3>3. QED
        BY <1>1, <1>2, <3>1, <3>2, LocalOK, MovedOK
    <2>3. QED
      BY <2>1, <2>2
  <1>4. SystemOK'
    BY <1>1, Sets DEF Register, TypeInv, TypeOK, SystemOK, system, files
  <1>5. instances' \in [Keys -> Stoppable] /\ open' \in SUBSET Keys /\ UNCHANGED gs
    BY <1>1, LocalOK, NoInstanceOK DEF Register, OwnAt, TypeInv, TypeOK, ProgramOK
  <1>6. HistoryOK'
    BY <1>1, Sets DEF Register, TypeInv, TypeOK, HistoryOK, bounds
  <1>7. CallsOK'
    BY <1>1, Sets DEF Register, TypeInv, TypeOK, SystemOK, CallsOK, system, files, bounds
  <1>8. QED
    BY <1>3, <1>4, <1>5, <1>6, <1>7 DEF TypeInv, TypeOK, ProgramOK, LocalsOK, Afters

\* RefuseNew keeps the types.
LEMMA RefuseNewType ==
  ASSUME TypeInv, NEW t \in Threads, RefuseNew(t)
  PROVE  TypeInv'
  <1>1. t \in Procs /\ t \notin Keys /\ num[t] \in Calls /\ num[t] <= calls /\ Key(t) \in Keys
    BY Sets, CallerOK, KeyOK DEF RefuseNew, Stopping
  <1>2. calls \in Nat /\ calls' = calls /\ "term" \in Pcs
    BY EmbeddedAssumption DEF TypeInv, TypeOK, HistoryOK, Ref, Pcs, RefuseNew, bounds
  <1>3. LocalsOK' /\ PointsOK' /\ OwnsOK'
    <2>1. CASE TRUE
      <3>1. Moved(t, "term", num[t], port[t], own[t], own[t], "fail")
        BY <2>1, Kept DEF RefuseNew, Moved, system, files, locals, bounds, history
      <3>2. OwnAt("term", own[t], num[t]) /\ own[t] \in Stoppable /\ "fail" \in Afters
        BY <1>1, LocalOK, NoInstanceOK DEF RefuseNew, OwnAt, Afters, TypeInv, TypeOK,
           ProgramOK
      <3>3. QED
        BY <1>1, <1>2, <3>1, <3>2, LocalOK, MovedOK
    <2>2. QED
      BY <2>1
  <1>4. SystemOK'
    BY <1>1, Sets DEF RefuseNew, TypeInv, TypeOK, SystemOK, system, files
  <1>5. instances' \in [Keys -> Stoppable] /\ open' \in SUBSET Keys /\ UNCHANGED gs
    BY <1>1, LocalOK DEF RefuseNew, TypeInv, TypeOK, ProgramOK
  <1>6. HistoryOK'
    BY <1>1, Sets DEF RefuseNew, TypeInv, TypeOK, HistoryOK, bounds, history
  <1>7. CallsOK'
    BY <1>1, Sets DEF RefuseNew, TypeInv, TypeOK, SystemOK, CallsOK, system, files, bounds
  <1>8. QED
    BY <1>3, <1>4, <1>5, <1>6, <1>7 DEF TypeInv, TypeOK, ProgramOK, LocalsOK, Afters

\* NewPoolFails keeps the types.
LEMMA NewPoolFailsType ==
  ASSUME TypeInv, NEW t \in Threads, NewPoolFails(t)
  PROVE  TypeInv'
  <1>1. t \in Procs /\ t \notin Keys /\ num[t] \in Calls /\ num[t] <= calls /\ Key(t) \in Keys
    BY Sets, CallerOK, KeyOK DEF NewPoolFails, Stopping
  <1>2. calls \in Nat /\ calls' = calls /\ "term" \in Pcs
    BY EmbeddedAssumption DEF TypeInv, TypeOK, HistoryOK, Ref, Pcs, NewPoolFails
  <1>3. LocalsOK' /\ PointsOK' /\ OwnsOK'
    <2> DEFINE i == IF instances[Key(t)] = NoInstance THEN own[t] ELSE instances[Key(t)]
    <2>1. CASE own[t].rt # 0
      <3>1. Moved(t, "term", num[t], port[t], own[t], i, "fail")
        BY <2>1, Kept DEF NewPoolFails, Moved
      <3>2. OwnAt("term", own[t], num[t]) /\ i \in Stoppable /\ "fail" \in Afters
        BY <1>1, LocalOK DEF NewPoolFails, OwnAt, Afters, TypeInv, TypeOK, ProgramOK
      <3> HIDE DEF i
      <3>3. QED
        BY <1>1, <1>2, <3>1, <3>2, LocalOK, MovedOK
    <2>2. CASE own[t].rt = 0
      BY <1>2, <2>2, LeaveOK DEF NewPoolFails, Fail
    <2>3. QED
      BY <2>1, <2>2
  <1>4. SystemOK'
    BY <1>1, Sets DEF NewPoolFails, Fault, TypeInv, TypeOK, SystemOK, system, files
  <1>5. instances' \in [Keys -> Stoppable] /\ open' \in SUBSET Keys /\ UNCHANGED gs
    BY <1>1, LocalOK, NoInstanceOK DEF NewPoolFails, Fault, Leave, OwnAt, Fail, TypeInv,
       TypeOK, ProgramOK
  <1>6. HistoryOK'
    BY <1>1, Sets, EmbeddedAssumption DEF NewPoolFails, Fault, TypeInv, TypeOK, HistoryOK,
       history
  <1>7. CallsOK'
    BY <1>1, Sets DEF NewPoolFails, Fault, TypeInv, TypeOK, SystemOK, CallsOK, system, files
  <1>8. QED
    BY <1>3, <1>4, <1>5, <1>6, <1>7 DEF TypeInv, TypeOK, ProgramOK, LocalsOK, Afters

\* Close keeps the types.
LEMMA CloseType ==
  ASSUME TypeInv, NEW t \in Procs, NEW k \in Keys, Close(t, k)
  PROVE  TypeInv'
  <1>1. /\ calls \in Nat /\ calls + 1 \in Calls /\ calls' = calls + 1 /\ calls' \in Ref
        /\ keyOf' \in [Calls -> Keys \cup {NoKey}]
        /\ \A n \in Calls : n <= calls' => keyOf'[n] \in Keys
        /\ pc[t] = "idle" /\ own[t] = NoInstance /\ server[calls + 1] = NoServer
        /\ t \in Threads /\ t \notin Keys /\ calls <= calls' /\ calls' \in Nat
    BY ArriveOK DEF Close
  <1>2. LocalsOK' /\ PointsOK' /\ OwnsOK'
    <2>1. Moved(t, "take", calls + 1, port[t], own[t], inst[t], after[t])
      BY <1>1, Kept DEF Close, Moved
    <2>2. OwnAt("take", own[t], calls + 1)
      BY <1>1, NoInstanceOK DEF OwnAt
    <2>3. "take" \in Pcs /\ calls + 1 <= calls'
      BY <1>1 DEF Pcs
    <2>4. QED
      BY <1>1, <2>1, <2>2, <2>3, Sets, LocalOK, MovedOK
  <1>3. SystemOK'
    BY <1>1, Sets DEF Close, Arrive, TypeInv, TypeOK, SystemOK, system, files
  <1>4. instances' \in [Keys -> Stoppable] /\ open' \in SUBSET Keys /\ UNCHANGED gs
    BY <1>1, LocalOK DEF Close, Arrive, TypeInv, TypeOK, ProgramOK
  <1>5. HistoryOK'
    BY <1>1, Sets DEF Close, Arrive, TypeInv, TypeOK, HistoryOK, history
  <1>6. CallsOK'
    <2>1. UNCHANGED <<server, pidFile, temps>>
      BY DEF Close, system, files
    <2>2. \A n \in Calls : n > calls' => n > calls
      BY <1>1, Sets
    <2>3. CallsOK
      BY DEF TypeInv
    <2>4. QED
      BY <1>1, <2>1, <2>2, <2>3 DEF CallsOK
  <1>7. QED
    BY <1>2, <1>3, <1>4, <1>5, <1>6 DEF TypeInv, TypeOK, ProgramOK, LocalsOK, Afters

\* Take keeps the types.
LEMMA TakeType ==
  ASSUME TypeInv, NEW t \in Threads, Take(t)
  PROVE  TypeInv'
  <1>1. t \in Procs /\ t \notin Keys /\ num[t] \in Calls /\ num[t] <= calls /\ Key(t) \in Keys
    BY Sets, CallerOK, KeyOK DEF Take, Stopping
  <1>2. calls \in Nat /\ calls' = calls /\ "term" \in Pcs
    BY EmbeddedAssumption DEF TypeInv, TypeOK, HistoryOK, Ref, Pcs, Take, bounds
  <1>3. LocalsOK' /\ PointsOK' /\ OwnsOK'
    <2>1. CASE instances[Key(t)] = NoInstance
      BY <1>2, <2>1, LeaveOK DEF Take
    <2>2. CASE instances[Key(t)] # NoInstance
      <3>1. Moved(t, "term", num[t], port[t], own[t], instances[Key(t)], after[t])
        BY <2>2, Kept DEF Take, Moved, system, files, locals, bounds, history
      <3>2. OwnAt("term", own[t], num[t]) /\ instances[Key(t)] \in Stoppable
            /\ after[t] \in Afters
        BY <1>1, LocalOK, NoInstanceOK DEF Take, OwnAt, Afters, TypeInv, TypeOK, ProgramOK
      <3>3. QED
        BY <1>1, <1>2, <3>1, <3>2, LocalOK, MovedOK
    <2>3. QED
      BY <2>1, <2>2
  <1>4. SystemOK'
    BY <1>1, Sets DEF Take, TypeInv, TypeOK, SystemOK, system, files
  <1>5. instances' \in [Keys -> Stoppable] /\ open' \in SUBSET Keys /\ UNCHANGED gs
    BY <1>1, LocalOK, NoInstanceOK DEF Take, Leave, TypeInv, TypeOK, ProgramOK
  <1>6. HistoryOK'
    BY <1>1, Sets DEF Take, TypeInv, TypeOK, HistoryOK, bounds, history
  <1>7. CallsOK'
    BY <1>1, Sets DEF Take, TypeInv, TypeOK, SystemOK, CallsOK, system, files, bounds
  <1>8. QED
    BY <1>3, <1>4, <1>5, <1>6, <1>7 DEF TypeInv, TypeOK, ProgramOK, LocalsOK, Afters

\* CheckSIGTERM keeps the types.
LEMMA CheckSIGTERMType ==
  ASSUME TypeInv, NEW t \in Threads, CheckSIGTERM(t)
  PROVE  TypeInv'
  <1>1. t \in Threads
    OBVIOUS
  <1>2. LocalsOK' /\ PointsOK' /\ OwnsOK'
    <2>1. pc[t] # "idle" /\ {"signal", "wait"} \subseteq Stopping \cap Pcs
      BY <1>1 DEF CheckSIGTERM, Stopping, Pcs
    <2>2. OwnAt("signal", own[t], num[t]) /\ OwnAt("wait", own[t], num[t])
      BY <1>1, LocalOK DEF CheckSIGTERM, OwnAt
    <2>3. inst' = [inst EXCEPT ![t] = inst[t]] /\ inst[t] \in Stoppable
      BY Kept, LocalOK DEF CheckSIGTERM, system, files, locals, bounds, history
    <2>4. target' \in [Threads -> Ref]
      <3>1. FilePid(inst[t].dir) \in Ref \/ UNCHANGED target
        BY Sets DEF CheckSIGTERM, IsPostgresProcess, FilePid, TypeInv, TypeOK, SystemOK,
           ServerType
      <3>2. QED
        BY <3>1, Kept DEF CheckSIGTERM
    <2>5. QED
      BY <2>1, <2>2, <2>3, <2>4, GoOK DEF CheckSIGTERM, system, files, locals, bounds, history
  <1>3. SystemOK'
    BY <1>1, Sets DEF CheckSIGTERM, TypeInv, TypeOK, SystemOK, system, files
  <1>4. instances' \in [Keys -> Stoppable] /\ open' \in SUBSET Keys /\ UNCHANGED gs
    BY <1>1, LocalOK DEF CheckSIGTERM, TypeInv, TypeOK, ProgramOK
  <1>5. HistoryOK'
    BY <1>1, Sets DEF CheckSIGTERM, TypeInv, TypeOK, HistoryOK, bounds, history
  <1>6. CallsOK'
    BY <1>1, Sets DEF CheckSIGTERM, TypeInv, TypeOK, SystemOK, CallsOK, system, files, bounds
  <1>7. QED
    BY <1>2, <1>3, <1>4, <1>5, <1>6 DEF TypeInv, TypeOK, ProgramOK, LocalsOK, Afters

\* SendSIGTERM keeps the types.
LEMMA SendSIGTERMType ==
  ASSUME TypeInv, NEW t \in Threads, SendSIGTERM(t)
  PROVE  TypeInv'
  <1>1. t \in Threads
    OBVIOUS
  <1>2. LocalsOK' /\ PointsOK' /\ OwnsOK'
    <2>1. pc[t] # "idle" /\ (t \in Keys => "wait" \in Stopping) /\ "wait" \in Pcs
      BY <1>1 DEF SendSIGTERM, Stopping, Pcs
    <2>2. OwnAt("wait", own[t], num[t])
      BY <1>1, LocalOK DEF SendSIGTERM, OwnAt
    <2>3. inst' = [inst EXCEPT ![t] = inst[t]] /\ inst[t] \in Stoppable
      BY Kept, LocalOK DEF SendSIGTERM, system, files, locals, bounds, history
    <2>4. target' \in [Threads -> Ref]
      BY Sets, Kept DEF SendSIGTERM
    <2>5. QED
      BY <2>1, <2>2, <2>3, <2>4, GoOK DEF SendSIGTERM, system, files, locals, bounds, history
  <1>3. /\ server' \in [Calls -> ServerType]
        /\ \A n \in Calls : (~Live(n) => server'[n] = server[n]) /\ server'[n].dir = server[n].dir
    BY SendOK DEF SendSIGTERM, TypeInv, TypeOK, SystemOK, HistoryOK
  <1>4. \A n \in Calls : server[n] = NoServer => ~Live(n)
    BY DEF NoServer, Live
  <1>5. SystemOK'
    BY <1>1, <1>3, <1>4, Sets DEF SendSIGTERM, TypeInv, TypeOK, SystemOK, files
  <1>6. instances' \in [Keys -> Stoppable] /\ open' \in SUBSET Keys /\ UNCHANGED gs
    BY <1>1, LocalOK DEF SendSIGTERM, TypeInv, TypeOK, ProgramOK
  <1>7. HistoryOK'
    BY <1>1, <1>3, <1>4, Sets DEF SendSIGTERM, TypeInv, TypeOK, HistoryOK, bounds,
       history
  <1>8. CallsOK'
    BY <1>1, <1>3, <1>4, Sets DEF SendSIGTERM, TypeInv, TypeOK, SystemOK, CallsOK, files,
       bounds
  <1>9. QED
    BY <1>2, <1>5, <1>6, <1>7, <1>8 DEF TypeInv, TypeOK, ProgramOK, LocalsOK, Afters

\* SeenDead keeps the types.
LEMMA SeenDeadType ==
  ASSUME TypeInv, NEW t \in Threads, SeenDead(t)
  PROVE  TypeInv'
  <1>1. t \in Threads
    OBVIOUS
  <1>2. LocalsOK' /\ PointsOK' /\ OwnsOK'
    <2>1. pc[t] # "idle" /\ (t \in Keys => "confirm" \in Stopping) /\ "confirm" \in Pcs
      BY <1>1 DEF SeenDead, Stopping, Pcs
    <2>2. OwnAt("confirm", own[t], num[t])
      BY <1>1, LocalOK DEF SeenDead, OwnAt
    <2>3. inst' = [inst EXCEPT ![t] = inst[t]] /\ inst[t] \in Stoppable
      BY Kept, LocalOK DEF SeenDead, system, files, locals, bounds, history
    <2>4. QED
      BY <2>1, <2>2, <2>3, GoOK DEF SeenDead, system, files, locals, bounds, history
  <1>3. SystemOK'
    BY <1>1, Sets DEF SeenDead, TypeInv, TypeOK, SystemOK, system, files
  <1>4. instances' \in [Keys -> Stoppable] /\ open' \in SUBSET Keys /\ UNCHANGED gs
    BY <1>1, LocalOK DEF SeenDead, TypeInv, TypeOK, ProgramOK
  <1>5. HistoryOK'
    BY <1>1, Sets DEF SeenDead, TypeInv, TypeOK, HistoryOK, bounds
  <1>6. CallsOK'
    BY <1>1, Sets DEF SeenDead, TypeInv, TypeOK, SystemOK, CallsOK, system, files, bounds
  <1>7. QED
    BY <1>2, <1>3, <1>4, <1>5, <1>6 DEF TypeInv, TypeOK, ProgramOK, LocalsOK, Afters

\* CheckKill keeps the types.
LEMMA CheckKillType ==
  ASSUME TypeInv, NEW t \in Threads, CheckKill(t)
  PROVE  TypeInv'
  <1>1. t \in Threads
    OBVIOUS
  <1>2. LocalsOK' /\ PointsOK' /\ OwnsOK'
    <2> DEFINE l == IF IsPostgresProcess(inst[t].pid) THEN "kill" ELSE "confirm"
    <2>1. pc[t] # "idle" /\ (t \in Keys => l \in Stopping) /\ l \in Pcs
      BY <1>1 DEF CheckKill, Stopping, Pcs
    <2>2. OwnAt(l, own[t], num[t])
      BY <1>1, LocalOK DEF CheckKill, OwnAt
    <2>3. inst' = [inst EXCEPT ![t] = inst[t]] /\ inst[t] \in Stoppable
      BY Kept, LocalOK DEF CheckKill, system, files, locals, bounds, history
    <2>4. QED
      BY <2>1, <2>2, <2>3, GoOK DEF CheckKill, system, files, locals, bounds, history
  <1>3. SystemOK'
    BY <1>1, Sets DEF CheckKill, TypeInv, TypeOK, SystemOK, system, files
  <1>4. instances' \in [Keys -> Stoppable] /\ open' \in SUBSET Keys /\ UNCHANGED gs
    BY <1>1, LocalOK DEF CheckKill, TypeInv, TypeOK, ProgramOK
  <1>5. HistoryOK'
    BY <1>1, Sets DEF CheckKill, TypeInv, TypeOK, HistoryOK, bounds, history
  <1>6. CallsOK'
    BY <1>1, Sets DEF CheckKill, TypeInv, TypeOK, SystemOK, CallsOK, system, files, bounds
  <1>7. QED
    BY <1>2, <1>3, <1>4, <1>5, <1>6 DEF TypeInv, TypeOK, ProgramOK, LocalsOK, Afters

\* SendKill keeps the types.
LEMMA SendKillType ==
  ASSUME TypeInv, NEW t \in Threads, SendKill(t)
  PROVE  TypeInv'
  <1>1. t \in Threads
    OBVIOUS
  <1>2. LocalsOK' /\ PointsOK' /\ OwnsOK'
    <2>1. pc[t] # "idle" /\ (t \in Keys => "confirm" \in Stopping) /\ "confirm" \in Pcs
      BY <1>1 DEF SendKill, Stopping, Pcs
    <2>2. OwnAt("confirm", own[t], num[t])
      BY <1>1, LocalOK DEF SendKill, OwnAt
    <2>3. inst' = [inst EXCEPT ![t] = inst[t]] /\ inst[t] \in Stoppable
      BY Kept, LocalOK DEF SendKill, system, files, locals, bounds, history
    <2>4. QED
      BY <2>1, <2>2, <2>3, GoOK DEF SendKill, system, files, locals, bounds, history
  <1>3. /\ server' \in [Calls -> ServerType]
        /\ \A n \in Calls : (~Live(n) => server'[n] = server[n]) /\ server'[n].dir = server[n].dir
    BY SendOK DEF SendKill, TypeInv, TypeOK, SystemOK, HistoryOK
  <1>4. \A n \in Calls : server[n] = NoServer => ~Live(n)
    BY DEF NoServer, Live
  <1>5. SystemOK'
    BY <1>1, <1>3, <1>4, Sets DEF SendKill, TypeInv, TypeOK, SystemOK, files
  <1>6. instances' \in [Keys -> Stoppable] /\ open' \in SUBSET Keys /\ UNCHANGED gs
    BY <1>1, LocalOK DEF SendKill, TypeInv, TypeOK, ProgramOK
  <1>7. HistoryOK'
    BY <1>1, <1>3, <1>4, Sets DEF SendKill, TypeInv, TypeOK, HistoryOK, bounds,
       history
  <1>8. CallsOK'
    BY <1>1, <1>3, <1>4, Sets DEF SendKill, TypeInv, TypeOK, SystemOK, CallsOK, files,
       bounds
  <1>9. QED
    BY <1>2, <1>5, <1>6, <1>7, <1>8 DEF TypeInv, TypeOK, ProgramOK, LocalsOK, Afters

\* Confirm keeps the types.
LEMMA ConfirmType ==
  ASSUME TypeInv, NEW t \in Threads, Confirm(t)
  PROVE  TypeInv'
  <1>1. t \in Threads
    OBVIOUS
  <1>2. LocalsOK' /\ PointsOK' /\ OwnsOK'
    <2>1. pc[t] # "idle" /\ (t \in Keys => "remove" \in Stopping) /\ "remove" \in Pcs
      BY <1>1 DEF Confirm, Stopping, Pcs
    <2>2. OwnAt("remove", own[t], num[t])
      BY <1>1, LocalOK DEF Confirm, OwnAt
    <2>3. inst' = [inst EXCEPT ![t] = inst[t]] /\ inst[t] \in Stoppable
      BY Kept, LocalOK DEF Confirm, system, files, locals, bounds, history
    <2>4. QED
      BY <2>1, <2>2, <2>3, GoOK DEF Confirm, system, files, locals, bounds, history
  <1>3. SystemOK'
    BY <1>1, Sets DEF Confirm, TypeInv, TypeOK, SystemOK, system, files
  <1>4. instances' \in [Keys -> Stoppable] /\ open' \in SUBSET Keys /\ UNCHANGED gs
    BY <1>1, LocalOK DEF Confirm, TypeInv, TypeOK, ProgramOK
  <1>5. HistoryOK'
    BY <1>1, Sets DEF Confirm, TypeInv, TypeOK, HistoryOK, bounds, history
  <1>6. CallsOK'
    BY <1>1, Sets DEF Confirm, TypeInv, TypeOK, SystemOK, CallsOK, system, files, bounds
  <1>7. QED
    BY <1>2, <1>3, <1>4, <1>5, <1>6 DEF TypeInv, TypeOK, ProgramOK, LocalsOK, Afters

\* KeepDirs keeps the types.
LEMMA KeepDirsType ==
  ASSUME TypeInv, NEW t \in Threads, KeepDirs(t)
  PROVE  TypeInv'
  <1>1. Key(t) \in Keys /\ t \in Threads
    BY KeyOK DEF KeepDirs
  <1>2. LocalsOK' /\ PointsOK' /\ OwnsOK'
    <2>1. CASE Leave(t)
      BY <2>1, LeaveOK DEF KeepDirs, system, files, locals, bounds, history
    <2>2. CASE /\ after[t] = "newPool" /\ Goto(t, "newPool")
               /\ inst' = [inst EXCEPT ![t] = NoInstance] /\ after' = [after EXCEPT ![t] = "done"]
               /\ UNCHANGED <<open, num, port, own, target>>
      <3>1. pc[t] \in Stopping /\ t \notin Keys /\ t \in Procs
        BY <2>2, Sets DEF KeepDirs, Stopping, TypeInv, PointsOK
      <3>2. Moved(t, "newPool", num[t], port[t], own[t], NoInstance, "done")
        BY <2>2, Kept DEF Moved
      <3>3. num[t] \in Calls /\ num[t] <= calls /\ OwnAt("newPool", own[t], num[t])
        BY <3>1, LocalOK DEF Stopping, OwnAt, TypeInv, PointsOK
      <3>4. calls \in Nat /\ calls' = calls /\ "newPool" \in Pcs /\ "done" \in Afters
        BY EmbeddedAssumption DEF TypeInv, TypeOK, HistoryOK, Ref, Pcs, Afters, KeepDirs,
           system, files, locals, bounds, history
      <3>5. QED
        BY <3>1, <3>2, <3>3, <3>4, NoInstanceOK, LocalOK, MovedOK
    <2>3. QED
      BY <2>1, <2>2 DEF KeepDirs, Stopped, Fail
  <1>3. SystemOK'
    BY <1>1, Sets DEF KeepDirs, TypeInv, TypeOK, SystemOK, system, files
  <1>4. instances' \in [Keys -> Stoppable] /\ open' \in SUBSET Keys /\ UNCHANGED gs
    BY <1>1, LocalOK DEF KeepDirs, Stopped, Fail, Leave, TypeInv, TypeOK, ProgramOK
  <1>5. HistoryOK'
    BY <1>1, Sets DEF KeepDirs, Stopped, Fail, TypeInv, TypeOK, HistoryOK, bounds
  <1>6. CallsOK'
    BY <1>1, Sets DEF KeepDirs, Stopped, Fail, TypeInv, TypeOK, SystemOK, CallsOK, system,
       files, bounds
  <1>7. QED
    BY <1>2, <1>3, <1>4, <1>5, <1>6 DEF TypeInv, TypeOK, ProgramOK, LocalsOK, Afters

\* RemoveFiles keeps the types.
LEMMA RemoveFilesType ==
  ASSUME TypeInv, NEW t \in Threads, RemoveFiles(t)
  PROVE  TypeInv'
  <1>1. Key(t) \in Keys /\ t \in Threads
    BY KeyOK DEF RemoveFiles
  <1>2. LocalsOK' /\ PointsOK' /\ OwnsOK'
    <2>1. CASE Leave(t)
      BY <2>1, LeaveOK DEF RemoveFiles, system, files, locals, bounds, history
    <2>2. CASE /\ after[t] = "newPool" /\ Goto(t, "newPool")
               /\ inst' = [inst EXCEPT ![t] = NoInstance] /\ after' = [after EXCEPT ![t] = "done"]
               /\ UNCHANGED <<open, num, port, own, target>>
      <3>1. pc[t] \in Stopping /\ t \notin Keys /\ t \in Procs
        BY <2>2, Sets DEF RemoveFiles, Stopping, TypeInv, PointsOK
      <3>2. Moved(t, "newPool", num[t], port[t], own[t], NoInstance, "done")
        BY <2>2, Kept DEF Moved
      <3>3. num[t] \in Calls /\ num[t] <= calls /\ OwnAt("newPool", own[t], num[t])
        BY <3>1, LocalOK DEF Stopping, OwnAt, TypeInv, PointsOK
      <3>4. calls \in Nat /\ calls' = calls /\ "newPool" \in Pcs /\ "done" \in Afters
        BY EmbeddedAssumption DEF TypeInv, TypeOK, HistoryOK, Ref, Pcs, Afters, RemoveFiles,
           system, files, locals, bounds, history
      <3>5. QED
        BY <3>1, <3>2, <3>3, <3>4, NoInstanceOK, LocalOK, MovedOK
    <2>3. QED
      BY <2>1, <2>2 DEF RemoveFiles, Stopped, Fail
  <1>3. NoFile \in [pid : Ref, port : Ref] /\ temps' \subseteq temps
    BY Sets DEF NoFile, RemoveFiles
  <1>4. SystemOK'
    BY <1>1, <1>3, Sets DEF RemoveFiles, TypeInv, TypeOK, SystemOK
  <1>5. instances' \in [Keys -> Stoppable] /\ open' \in SUBSET Keys /\ UNCHANGED gs
    BY <1>1, LocalOK DEF RemoveFiles, Stopped, Fail, Leave, TypeInv, TypeOK, ProgramOK
  <1>6. HistoryOK'
    BY <1>1, <1>3, Sets DEF RemoveFiles, Undercut, Stopped, Fail, TypeInv, TypeOK,
       HistoryOK, bounds, history
  <1>7. CallsOK'
    BY <1>1, <1>3, Sets DEF RemoveFiles, Stopped, Fail, TypeInv, TypeOK, SystemOK, CallsOK,
       bounds
  <1>8. QED
    BY <1>2, <1>4, <1>5, <1>6, <1>7 DEF TypeInv, TypeOK, ProgramOK, LocalsOK, Afters

\* A step of no goroutine keeps the types of the locals.
LEMMA StillOK ==
  ASSUME TypeInv, UNCHANGED <<pc, num, port, own, inst, after, target, calls>>
  PROVE  LocalsOK' /\ PointsOK' /\ OwnsOK'
  BY DEF TypeInv, TypeOK, ProgramOK, LocalsOK, PointsOK, OwnsOK, Afters

\* The shutdown begins and ends.
LEMMA SignalType ==
  ASSUME TypeInv, Signal \/ ShutdownDone
  PROVE  TypeInv'
  <1>1. LocalsOK' /\ PointsOK' /\ OwnsOK'
    BY StillOK DEF Signal, ShutdownDone, locals, bounds
  <1>2. SystemOK' /\ HistoryOK' /\ CallsOK'
    BY DEF Signal, ShutdownDone, TypeInv, TypeOK, SystemOK, HistoryOK, CallsOK, system,
       files, bounds, history
  <1>3. instances' = instances /\ open' = open /\ gs' \in {"snapshot", "done"}
    BY DEF Signal, ShutdownDone
  <1>4. QED
    BY <1>1, <1>2, <1>3 DEF TypeInv, TypeOK, ProgramOK, LocalsOK, Afters

\* The shutdown's goroutines start to stop the instances.
LEMMA StopAllType ==
  ASSUME TypeInv, StopAll
  PROVE  TypeInv'
  <1> DEFINE taken == {k \in Keys : instances[k] # NoInstance}
  <1>1. /\ inst' = [t \in Threads |-> IF t \in taken THEN instances[t] ELSE inst[t]]
        /\ pc' = [t \in Threads |-> IF t \in taken THEN "term" ELSE pc[t]]
        /\ UNCHANGED <<num, port, own, after, target, calls>>
    BY DEF StopAll, bounds
  <1>2. LocalsOK'
    BY <1>1 DEF TypeInv, TypeOK, ProgramOK, LocalsOK, Afters, Pcs
  <1>3. PointsOK'
    BY <1>1, Sets DEF TypeInv, PointsOK, Stopping
  <1>4. \A t \in Threads : OwnAt(pc'[t], own'[t], num'[t])
    <2>1. SUFFICES ASSUME NEW t \in Threads PROVE OwnAt(pc'[t], own'[t], num'[t])
      OBVIOUS
    <2>2. CASE t \in taken
      <3>1. pc[t] = "idle" /\ pc'[t] = "term"
        BY <1>1, <2>2 DEF StopAll
      <3>2. QED
        BY <1>1, <3>1, LocalOK, NoInstanceOK DEF OwnAt
    <2>3. CASE t \notin taken
      BY <1>1, <2>3, LocalOK DEF OwnAt
    <2>4. QED
      BY <2>2, <2>3
  <1>5. OwnsOK'
    BY <1>4 DEF OwnsOK, OwnAt
  <1>6. SystemOK' /\ HistoryOK' /\ CallsOK'
    BY DEF StopAll, TypeInv, TypeOK, SystemOK, HistoryOK, CallsOK, system, files, bounds,
       history
  <1>7. instances' \in [Keys -> Stoppable] /\ open' = open /\ gs' \in {"stopping", "stragglers"}
    BY NoInstanceOK DEF StopAll
  <1>8. QED
    BY <1>2, <1>3, <1>5, <1>6, <1>7 DEF TypeInv, TypeOK, ProgramOK, LocalsOK, Afters

\* A server that changes had a call, which has a key.
LEMMA CalledOK ==
  ASSUME TypeInv, NEW n \in Calls, server[n].state # "none"
  PROVE  n \in Nat /\ n <= calls /\ keyOf[n] \in Keys /\ server[n] \in ServerType
  <1>1. n \in Nat /\ calls \in Nat /\ server[n] # NoServer /\ server[n] \in ServerType
    BY Sets, EmbeddedAssumption DEF NoServer, TypeInv, TypeOK, SystemOK, HistoryOK, Ref
  <1>2. n <= calls
    BY <1>1 DEF TypeInv, CallsOK
  <1>3. QED
    BY <1>1, <1>2 DEF TypeInv, CallsOK

\* The rest of the types, when a server changes and nothing of the program does.
LEMMA ServerTypeStep ==
  ASSUME TypeInv, NEW n \in Calls, NEW s \in ServerType, n <= calls,
         server' = [server EXCEPT ![n] = s], s.dir \in {server[n].dir, 0},
         UNCHANGED <<foreign, instances, open, gs, pc, locals, calls, keyOf, left>>,
         Forget(n) \/ UNCHANGED history,
         pidFile' \in [Paths -> [pid : Ref, port : Ref]],
         runtimes' \in SUBSET Keys, temps' \in SUBSET Calls,
         \A m \in temps' : m \in temps \/ m = n,
         faults' \in 0 .. MaxFaults
  PROVE  TypeInv'
  <1>1. LocalsOK' /\ PointsOK' /\ OwnsOK'
    BY StillOK DEF locals
  <1>2. SystemOK'
    BY DEF TypeInv, TypeOK, SystemOK
  <1>3. HistoryOK'
    BY DEF TypeInv, TypeOK, HistoryOK, Forget, history
  <1>4. CallsOK'
    <2>1. \A m \in Calls : m > calls => m # n
      BY Sets, EmbeddedAssumption DEF TypeInv, TypeOK, HistoryOK, Ref
    <2>2. QED
      BY <2>1, Sets DEF TypeInv, TypeOK, SystemOK, CallsOK
  <1>5. QED
    BY <1>1, <1>2, <1>3, <1>4 DEF TypeInv, TypeOK, ProgramOK, LocalsOK, Afters

\* Directories are made.
LEMMA MakeDirsOK ==
  ASSUME TypeInv, NEW n \in Calls, server[n].state = "spawning", MakeDirs(n)
  PROVE  /\ runtimes' \in SUBSET Keys /\ temps' \in SUBSET Calls
         /\ server[n].dir \in Calls => server[n].dir \in temps'
         /\ \A m \in temps' : m \in temps \/ m = n
         /\ temps \subseteq temps'
  BY CalledOK DEF MakeDirs, TypeInv, TypeOK, SystemOK, CallsOK

\* A server starts, or fails to.
LEMMA SpawnType ==
  ASSUME TypeInv, NEW n \in Calls, Spawn(n)
  PROVE  TypeInv'
  <1>1. PICK p \in Calls :
           /\ server' = [server EXCEPT ![n] =
                           [[server[n] EXCEPT !.state = "up"] EXCEPT !.pid = p]]
           /\ pidFile' = [pidFile EXCEPT ![server[n].dir] = [pid |-> p, port |-> n]]
           /\ UNCHANGED faults \/ Fault("pid")
    BY DEF Spawn
  <1>2. n <= calls /\ server[n] \in ServerType
    BY CalledOK DEF Spawn
  <1> DEFINE s == [[server[n] EXCEPT !.state = "up"] EXCEPT !.pid = p]
  <1>3. s \in ServerType /\ s.dir = server[n].dir
    BY <1>2, Sets DEF ServerType
  <1>4. pidFile' \in [Paths -> [pid : Ref, port : Ref]]
    BY <1>1, Sets DEF TypeInv, TypeOK, SystemOK
  <1>5. /\ runtimes' \in SUBSET Keys /\ temps' \in SUBSET Calls
        /\ \A m \in temps' : m \in temps \/ m = n
    BY MakeDirsOK DEF Spawn
  <1>6. UNCHANGED <<foreign, instances, open, gs, pc, locals, calls, keyOf, history>>
    BY DEF Spawn
  <1>7. faults' \in 0 .. MaxFaults
    BY <1>1, EmbeddedAssumption DEF Fault, TypeInv, TypeOK, HistoryOK
  <1> HIDE DEF s
  <1>8. QED
    BY <1>1, <1>2, <1>3, <1>4, <1>5, <1>6, <1>7, ServerTypeStep DEF s, history

\* SpawnFails keeps the types.
LEMMA SpawnFailsType ==
  ASSUME TypeInv, NEW n \in Calls, SpawnFails(n)
  PROVE  TypeInv'
  <1>1. n <= calls
    BY CalledOK DEF SpawnFails
  <1>2. [NoServer EXCEPT !.state = "failed"].dir = 0
    BY DEF NoServer
  <1>3. /\ runtimes' \in SUBSET Keys /\ temps' \in SUBSET Calls
        /\ \A m \in temps' : m \in temps \/ m = n
    BY MakeDirsOK DEF SpawnFails
  <1>4. faults' \in 0 .. MaxFaults
    BY EmbeddedAssumption DEF SpawnFails, Fault, TypeInv, TypeOK, HistoryOK
  <1>5. pidFile' \in [Paths -> [pid : Ref, port : Ref]]
    BY DEF SpawnFails, TypeInv, TypeOK, SystemOK
  <1>6. QED
    BY <1>1, <1>2, <1>3, <1>4, <1>5, Servers, ServerTypeStep DEF SpawnFails

\* A server removes its pid file.
LEMMA ShutsDownType ==
  ASSUME TypeInv, NEW n \in Calls, ShutsDown(n)
  PROVE  TypeInv'
  <1> DEFINE s == [server[n] EXCEPT !.state = "exiting"]
  <1>1. n <= calls /\ server[n] \in ServerType
    BY CalledOK DEF ShutsDown
  <1>2. s \in ServerType /\ s.dir = server[n].dir
    BY <1>1 DEF ServerType
  <1>3. server' = [server EXCEPT ![n] = s]
    BY DEF ShutsDown
  <1>4. /\ pidFile' \in [Paths -> [pid : Ref, port : Ref]]
        /\ runtimes' \in SUBSET Keys /\ temps' \in SUBSET Calls /\ faults' \in 0 .. MaxFaults
        /\ \A m \in temps' : m \in temps \/ m = n
    BY Sets DEF ShutsDown, NoFile, TypeInv, TypeOK, SystemOK, HistoryOK, files, bounds
  <1> HIDE DEF s
  <1>5. QED
    BY <1>1, <1>2, <1>3, <1>4, ServerTypeStep DEF ShutsDown, bounds, history

\* A process ends.
LEMMA ExitsType ==
  ASSUME TypeInv, NEW n \in Calls, Exits(n), faults' \in 0 .. MaxFaults
  PROVE  TypeInv'
  <1>1. n <= calls
    BY CalledOK DEF Exits, Live
  <1>2. [NoServer EXCEPT !.state = "gone"].dir = 0
    BY DEF NoServer
  <1>3. /\ pidFile' \in [Paths -> [pid : Ref, port : Ref]]
        /\ runtimes' \in SUBSET Keys /\ temps' \in SUBSET Calls
        /\ \A m \in temps' : m \in temps \/ m = n
    BY DEF Exits, TypeInv, TypeOK, SystemOK, files
  <1>4. QED
    BY <1>1, <1>2, <1>3, Servers, ServerTypeStep DEF Exits

\* Ends keeps the types.
LEMMA EndsType ==
  ASSUME TypeInv, NEW n \in Calls, Ends(n) \/ Dies(n)
  PROVE  TypeInv'
  BY ExitsType, EmbeddedAssumption DEF Ends, Dies, Fault, TypeInv, TypeOK, HistoryOK

\* A pid is used again.
LEMMA PidReusedType ==
  ASSUME TypeInv, PidReused
  PROVE  TypeInv'
  <1>1. LocalsOK' /\ PointsOK' /\ OwnsOK'
    BY StillOK DEF PidReused, locals
  <1>2. faults' \in 0 .. MaxFaults
    BY EmbeddedAssumption DEF PidReused, Fault, TypeInv, TypeOK, HistoryOK
  <1>3. SystemOK' /\ HistoryOK' /\ CallsOK'
    BY <1>2 DEF PidReused, StalePids, TypeInv, TypeOK, SystemOK, HistoryOK, CallsOK, files,
       history
  <1>4. QED
    BY <1>1, <1>3 DEF PidReused, TypeInv, TypeOK, ProgramOK, LocalsOK, Afters

\* The program is started again.
LEMMA CrashType ==
  ASSUME TypeInv, Crash
  PROVE  TypeInv'
  <1>1. ProgramOK'
    BY NoInstanceOK, Sets DEF Crash, ProgramOK, Pcs
  <1>2. PointsOK' /\ OwnsOK'
    BY NoInstanceOK, Sets DEF Crash, PointsOK, OwnsOK, OwnAt
  <1>3. SystemOK'
    BY Servers DEF Crash, TypeInv, TypeOK, SystemOK, files
  <1>4. faults' \in 0 .. MaxFaults
    BY EmbeddedAssumption DEF Crash, Fault, TypeInv, TypeOK, HistoryOK
  <1>5. \A n \in temps : n \in Calls /\ keyOf[n] \in Keys
    BY Sets, EmbeddedAssumption DEF TypeInv, TypeOK, SystemOK, HistoryOK, CallsOK, Ref
  <1>6. HistoryOK'
    BY <1>4, <1>5 DEF Crash, TypeInv, TypeOK, SystemOK, HistoryOK
  <1>7. \A n \in Calls :
          server'[n] = server[n] \/ (server[n].state = "spawning" /\ server'[n].dir = 0)
    BY DEF Crash, NoServer
  <1>8. CallsOK'
    BY <1>7, Sets DEF Crash, TypeInv, CallsOK, NoServer, files
  <1>9. QED
    BY <1>1, <1>2, <1>3, <1>6, <1>8 DEF TypeInv, TypeOK

\* The initial states.
LEMMA InitType == Init => TypeInv
  <1> SUFFICES ASSUME Init PROVE TypeInv
    OBVIOUS
  <1>1. ProgramOK /\ PointsOK /\ OwnsOK
    BY NoInstanceOK, Sets DEF Init, ProgramOK, PointsOK, OwnsOK, OwnAt, Pcs
  <1>2. SystemOK
    BY Servers, Sets DEF Init, SystemOK, NoFile
  <1>3. HistoryOK
    BY EmbeddedAssumption, Sets DEF Init, HistoryOK
  <1>4. \A n \in Calls : ~(n <= 0)
    BY Sets
  <1>5. CallsOK
    BY <1>4, Sets DEF Init, CallsOK, NoServer
  <1>6. QED
    BY <1>1, <1>2, <1>3, <1>5 DEF TypeInv, TypeOK

\* A step of a goroutine.
LEMMA WorkType ==
  ASSUME TypeInv, NEW t \in Threads, Work(t)
  PROVE  TypeInv'
  BY EnsureDatabaseExistsType, EnsureFailsType, ReadPidType, StartedType, StartErrorType,
     StartTimeoutType, StopUnmanagedType, RegisterType, RefuseReusedType, RefuseNewType,
     NewPoolType, NewPoolFailsType, TakeType, CheckSIGTERMType, SendSIGTERMType, SeenDeadType,
     CheckKillType, SendKillType,
     KeepDirsType, ConfirmType, RemoveFilesType
     DEF Work

\* A step that changes nothing.
LEMMA StutterType ==
  ASSUME TypeInv, UNCHANGED vars
  PROVE  TypeInv'
  BY DEF vars, system, files, locals, bounds, history, TypeInv, TypeOK, SystemOK, ProgramOK,
     HistoryOK, CallsOK, PointsOK, OwnsOK, OwnAt, Live

\* Every step keeps the types.
LEMMA NextType ==
  ASSUME TypeInv, [Next]_vars
  PROVE  TypeInv'
  <1>1. ASSUME NEW t \in Procs, NEW k \in Keys, Connect(t, k) \/ Close(t, k) PROVE TypeInv'
    BY <1>1, ReuseType, PrepareType, PrepareFailsType, CloseType DEF Connect
  <1>2. ASSUME Signal \/ Shutdown PROVE TypeInv'
    BY <1>2, SignalType, StopAllType DEF Shutdown
  <1>3. ASSUME Environment PROVE TypeInv'
    BY <1>3, SpawnType, SpawnFailsType, ShutsDownType, EndsType, PidReusedType, CrashType
       DEF Environment
  <1>4. QED
    BY <1>1, <1>2, <1>3, WorkType, StutterType DEF Next, Quiet

\* Type correctness: the maps, files and locals keep their types, and no new server is
\* registered without its pid.
THEOREM TypeCorrect == Spec => []TypeOK
  <1>1. Init => TypeInv
    BY InitType
  <1>2. TypeInv /\ [Next]_vars => TypeInv'
    BY NextType
  <1>3. TypeInv => TypeOK
    BY DEF TypeInv
  <1>4. QED
    BY <1>1, <1>2, <1>3, PTL DEF Spec

(***************************************************************************)
(* What a step may do to servers and pid files.                            *)
(***************************************************************************)
Begun == {"up", "exiting", "gone"}

\* A server goes from s to s2: it does not begin again, and keeps its pid and directory.
Course(s, s2) ==
    /\ s.state = "none" => s2.state = "none"
    /\ s.state # "none" =>
         /\ s2.state # "none"
         /\ s2.state \in {"spawning", "up", "exiting"} =>
              s.state \in {"spawning", "up", "exiting"} /\ s2.dir = s.dir
    /\ s.state \in Begun =>
         /\ s2.state \in Begun
         /\ s2.state \in {"up", "exiting"} => s.state \in {"up", "exiting"} /\ s2.pid = s.pid

Steady == \A n \in Calls : n <= calls => Course(server[n], server'[n])

\* No server comes up, and no pid file is written.
Calm ==
    /\ \A n \in Calls :
         /\ Live(n)' => /\ Live(n) /\ server'[n].pid = server[n].pid
                        /\ server'[n].dir = server[n].dir
                        /\ server[n].sig = "kill" => server'[n].sig = "kill"
         /\ server'[n].state = "spawning" => server'[n] = server[n] \/ server'[n].dir # 0
    /\ \A d \in Paths : pidFile'[d] \in {pidFile[d], NoFile}

\* The servers whose own directories are those of an instance.
Of(i) == {i.dir, i.rt} \cap Calls

\* Their pid is that of the instance, as long as they run.
HeldIn(sv, i) ==
    \A n \in Of(i) :
        /\ sv[n].state \in Begun
        /\ sv[n].state \in {"up", "exiting"} => sv[n].pid = i.pid

\* A goroutine that starts a server, or is about to register one, knows its state.
StartsAt(l, s, o) ==
    /\ l = "starting" =>
         /\ s.state # "none"
         /\ s.state \in {"spawning", "up", "exiting"} => s.dir = o.dir
    /\ l = "noPid" => s.state \in Begun
    /\ l \in {"ensure", "readPid"} => s.state = "none"
    /\ l = "register" /\ o.rt = 0 => s.state = "none"
    /\ l = "register" /\ o.rt # 0 =>
         /\ s.state \in Begun
         /\ s.state \in {"up", "exiting"} => s.pid = o.pid

Starts == \A t \in Procs : StartsAt(pc[t], server[num[t]], own[t])

\* Pid files that are removed concern no server.
LEMMA SameServers ==
  ASSUME TypeInv, UNCHANGED server, \A d \in Paths : pidFile'[d] \in {pidFile[d], NoFile}
  PROVE  Steady /\ Calm
  BY DEF Steady, Calm, Course, Live

\* One server changes.
LEMMA OneServer ==
  ASSUME TypeInv, NEW n \in Calls, NEW s \in ServerType, server' = [server EXCEPT ![n] = s]
  PROVE  /\ (n <= calls => Course(server[n], s)) => Steady
         /\ /\ s.state \in {"up", "exiting"} =>
                 /\ Live(n) /\ s.pid = server[n].pid /\ s.dir = server[n].dir
                 /\ server[n].sig = "kill" => s.sig = "kill"
            /\ s.state = "spawning" => s.dir # 0
            /\ \A d \in Paths : pidFile'[d] \in {pidFile[d], NoFile}
            => Calm
  <1>1. \A m \in Calls : server'[m] = IF m = n THEN s ELSE server[m]
    BY DEF TypeInv, TypeOK, SystemOK
  <1>2. \A m \in Calls : m # n => Course(server[m], server'[m])
    BY <1>1 DEF Course
  <1>3. QED
    BY <1>1, <1>2 DEF Steady, Calm, Live

\* A signal.
LEMMA SendServers ==
  ASSUME TypeInv, NEW x \in {"term", "kill"}, NEW p, Send(x, p), UNCHANGED pidFile
  PROVE  Steady /\ Calm
  <1>1. \A n \in Calls :
          /\ server'[n].state = server[n].state
          /\ server'[n].pid = server[n].pid
          /\ server'[n].dir = server[n].dir
          /\ server[n].sig = "kill" => server'[n].sig = "kill"
    BY SendOK DEF Send
  <1>2. \A n \in Calls : server'[n].state = "spawning" => server'[n] = server[n]
    BY SendOK DEF Live
  <1>3. QED
    BY <1>1, <1>2 DEF Steady, Calm, Course, Live

\* The pid files that a goroutine removes.
LEMMA FilesGone ==
  ASSUME TypeInv, NEW t \in Threads, RemoveDirs(t) \/ RemoveFiles(t)
  PROVE  \A d \in Paths : pidFile'[d] \in {pidFile[d], NoFile}
  BY DEF RemoveDirs, RemoveFiles, TypeInv, TypeOK, SystemOK

\* The steps of goroutines.
LEMMA WorkServers ==
  ASSUME TypeInv, Starts, NEW t \in Threads, Work(t)
  PROVE  Steady /\ Calm
  <1>1. CASE SendSIGTERM(t)
    BY <1>1, SendServers DEF SendSIGTERM
  <1>2. CASE SendKill(t)
    BY <1>2, SendServers DEF SendKill
  <1>3. CASE StopUnmanaged(t)
    <2>1. num[t] \in Calls /\ t \in Procs
      BY <1>3, CallerOK DEF StopUnmanaged, Stopping
    <2>2. server[num[t]].state \in Begun
      BY <1>3, <2>1 DEF StopUnmanaged, Starts, StartsAt
    <2>3. \A d \in Paths : pidFile'[d] \in {pidFile[d], NoFile}
      BY <1>3, FilesGone DEF StopUnmanaged
    <2> DEFINE s == [NoServer EXCEPT !.state = "gone"]
    <2>4. s \in ServerType /\ s.state = "gone"
      BY Servers DEF NoServer
    <2>5. Course(server[num[t]], s)
      BY <2>2, <2>4 DEF Course, Begun
    <2>6. CASE server' = [server EXCEPT ![num[t]] = s]
      BY <2>1, <2>3, <2>4, <2>5, <2>6, OneServer
    <2>7. QED
      BY <1>3, <2>3, <2>6, SameServers DEF StopUnmanaged, system
  <1>4. CASE StartError(t) \/ StartTimeout(t) \/ RemoveFiles(t)
    BY <1>4, FilesGone, SameServers DEF StartError, StartTimeout, RemoveFiles
  <1>5. CASE \/ EnsureDatabaseExists(t) \/ EnsureFails(t) \/ ReadPid(t) \/ Started(t)
             \/ Register(t) \/ RefuseReused(t) \/ RefuseNew(t) \/ NewPool(t)
             \/ NewPoolFails(t) \/ Take(t) \/ CheckSIGTERM(t) \/ SeenDead(t)
             \/ CheckKill(t) \/ KeepDirs(t) \/ Confirm(t)
    <2>1. UNCHANGED <<server, pidFile>>
      BY <1>5 DEF EnsureDatabaseExists, EnsureFails, ReadPid, Started, Register,
         RefuseReused, RefuseNew, NewPool, NewPoolFails, Take, CheckSIGTERM, SeenDead,
         CheckKill, KeepDirs, Confirm, system
    <2>2. QED
      BY <2>1, SameServers
  <1>6. QED
    BY <1>1, <1>2, <1>3, <1>4, <1>5 DEF Work

\* New calls.
LEMMA CallServers ==
  ASSUME TypeInv, NEW t \in Procs, NEW k \in Keys, Connect(t, k) \/ Close(t, k)
  PROVE  Steady /\ Calm
  <1>1. ASSUME NEW d \in Dirs \cup {calls + 1}, Prepare(t, k, d)
        PROVE  Steady /\ Calm
    <2>1. calls \in Nat /\ calls + 1 \in Calls /\ server[calls + 1] = NoServer /\ d \in Paths
      BY <1>1, ArriveOK, Sets DEF Prepare
    <2> DEFINE s == [[NoServer EXCEPT !.state = "spawning"] EXCEPT !.dir = d]
    <2>2. s \in ServerType /\ s.state = "spawning" /\ s.dir # 0
      BY <2>1, Sets DEF NoServer, ServerType
    <2>3. server' = [server EXCEPT ![calls + 1] = s]
      BY <1>1, <2>1 DEF Prepare
    <2>4. ~(calls + 1 <= calls) /\ UNCHANGED pidFile
      BY <1>1, <2>1 DEF Prepare
    <2> HIDE DEF s
    <2>5. QED
      BY <2>1, <2>2, <2>3, <2>4, OneServer
  <1>2. ASSUME NEW d \in Dirs \cup {calls + 1}, Reuse(t, k, d) \/ PrepareFails(t, k, d)
        PROVE  Steady /\ Calm
    BY <1>2, SameServers DEF Reuse, PrepareFails, system
  <1>3. CASE Close(t, k)
    BY <1>3, SameServers DEF Close, system
  <1>4. QED
    BY <1>1, <1>2, <1>3 DEF Connect

\* The steps of servers.
LEMMA RestServers ==
  ASSUME TypeInv, NEW n \in Calls,
         SpawnFails(n) \/ ShutsDown(n) \/ Ends(n) \/ Dies(n)
  PROVE  Steady /\ Calm
  <1>1. CASE SpawnFails(n)
    <2> DEFINE s == [NoServer EXCEPT !.state = "failed"]
    <2>1. s \in ServerType /\ s.state = "failed" /\ Course(server[n], s)
      BY <1>1, Servers DEF SpawnFails, NoServer, Course, Begun
    <2>2. server' = [server EXCEPT ![n] = s] /\ UNCHANGED pidFile
      BY <1>1 DEF SpawnFails
    <2> HIDE DEF s
    <2>3. QED
      BY <2>1, <2>2, OneServer
  <1>2. CASE ShutsDown(n)
    <2> DEFINE s == [server[n] EXCEPT !.state = "exiting"]
    <2>1. server[n] \in ServerType
      BY DEF TypeInv, TypeOK, SystemOK
    <2>2. /\ s \in ServerType /\ s.state = "exiting" /\ s.pid = server[n].pid
          /\ s.dir = server[n].dir /\ s.sig = server[n].sig /\ server[n].state = "up"
      BY <1>2, <2>1 DEF ShutsDown, ServerType
    <2>3. server' = [server EXCEPT ![n] = s] /\ Course(server[n], s) /\ Live(n)
      BY <1>2, <2>2 DEF ShutsDown, Course, Begun, Live
    <2>4. \A d \in Paths : pidFile'[d] \in {pidFile[d], NoFile}
      BY <1>2 DEF ShutsDown, TypeInv, TypeOK, SystemOK
    <2> HIDE DEF s
    <2>5. QED
      BY <2>2, <2>3, <2>4, OneServer
  <1>3. CASE Ends(n) \/ Dies(n)
    <2> DEFINE s == [NoServer EXCEPT !.state = "gone"]
    <2>1. s \in ServerType /\ s.state = "gone" /\ Course(server[n], s)
      BY <1>3, Servers DEF Ends, Dies, Exits, Live, NoServer, Course, Begun
    <2>2. server' = [server EXCEPT ![n] = s] /\ UNCHANGED pidFile
      BY <1>3 DEF Ends, Dies, Exits
    <2> HIDE DEF s
    <2>3. QED
      BY <2>1, <2>2, OneServer
  <1>4. QED
    BY <1>1, <1>2, <1>3

\* The steps of the whole program, and of other processes.
LEMMA ProgramServers ==
  ASSUME TypeInv, PidReused \/ Crash \/ Signal \/ Shutdown \/ UNCHANGED vars
  PROVE  Steady /\ Calm
  <1>1. CASE Crash
    <2>1. \A m \in Calls : \/ server'[m] = server[m]
                           \/ server[m].state = "spawning" /\ server'[m].state = "gone"
      BY <1>1 DEF Crash, NoServer
    <2>2. \A m \in Calls : Course(server[m], server'[m])
      BY <2>1 DEF Course, Begun
    <2>3. QED
      BY <1>1, <2>1, <2>2 DEF Crash, Steady, Calm, Live
  <1>2. CASE PidReused \/ Signal \/ Shutdown \/ UNCHANGED vars
    BY <1>2, SameServers DEF PidReused, Signal, Shutdown, StopAll, ShutdownDone, vars,
       system
  <1>3. QED
    BY <1>1, <1>2

\* Apart from the one that comes up.
LEMMA SpawnServers ==
  ASSUME TypeInv, NEW n \in Calls, Spawn(n)
  PROVE  /\ Steady
         /\ \E p \in Calls :
              /\ ~IsProcessAlive(p)
              /\ server'[n] = [server[n] EXCEPT !.state = "up", !.pid = p]
              /\ server'[n].state = "up" /\ server'[n].pid = p /\ server'[n].dir = server[n].dir
              /\ \A m \in Calls : m # n => server'[m] = server[m]
              /\ pidFile' = [pidFile EXCEPT ![server[n].dir] = [pid |-> p, port |-> n]]
  <1>1. PICK p \in Calls :
           /\ (p = n /\ ~IsProcessAlive(n)) \/ p \in StalePids
           /\ server' = [server EXCEPT ![n] =
                           [[server[n] EXCEPT !.state = "up"] EXCEPT !.pid = p]]
           /\ pidFile' = [pidFile EXCEPT ![server[n].dir] = [pid |-> p, port |-> n]]
    BY DEF Spawn
  <1>2. ~IsProcessAlive(p)
    BY <1>1 DEF StalePids
  <1>3. server[n] \in ServerType /\ server[n].state = "spawning"
    BY DEF Spawn, TypeInv, TypeOK, SystemOK
  <1> DEFINE s == [[server[n] EXCEPT !.state = "up"] EXCEPT !.pid = p]
  <1>4. s \in ServerType /\ s.state = "up" /\ s.pid = p /\ s.dir = server[n].dir
    BY <1>3, Sets DEF ServerType
  <1>5. Course(server[n], s)
    BY <1>3, <1>4 DEF Course, Begun
  <1>6. Steady
    BY <1>1, <1>4, <1>5, OneServer
  <1>7. \A m \in Calls : server'[m] = IF m = n THEN s ELSE server[m]
    BY <1>1 DEF TypeInv, TypeOK, SystemOK
  <1>8. QED
    BY <1>1, <1>2, <1>4, <1>6, <1>7

\* Every step keeps the course of the servers, and all but a spawn are calm.
LEMMA NextServers ==
  ASSUME TypeInv, Starts, [Next]_vars
  PROVE  Steady /\ (Calm \/ \E n \in Calls : Spawn(n))
  BY RestServers, ProgramServers, WorkServers, CallServers, SpawnServers
     DEF Next, Environment, Quiet

(***************************************************************************)
(* Pid files and pids.                                                     *)
(***************************************************************************)
\* A running server has a pid and a directory of its own, and the directory's pid file
\* names no other process.
PidFiles ==
    /\ \A n \in Calls :
         /\ server[n].state = "spawning" => server[n].dir \in Paths
         /\ Live(n) => /\ server[n].pid # 0 /\ server[n].dir \in Paths
                       /\ FilePid(server[n].dir) \in {0, server[n].pid}
    /\ \A m, n \in Calls : Live(m) /\ Live(n) /\ server[m].dir = server[n].dir => m = n

\* The pid of a running server belongs to no other process.
PidsOK == \A n \in Calls : Live(n) => server[n].pid \notin foreign

\* Steps in which no server comes up keep this,
LEMMA CalmPidFiles ==
  ASSUME TypeInv, PidFiles, Calm, TypeInv'
  PROVE  PidFiles'
  <1>1. NoFile.pid = 0
    BY DEF NoFile
  <1>2. \A n \in Calls : Live(n)' => Live(n) /\ server'[n].pid = server[n].pid
                                             /\ server'[n].dir = server[n].dir
    BY DEF Calm
  <1>3. \A d \in Paths : pidFile'[d].pid \in {0, pidFile[d].pid}
    BY <1>1 DEF Calm
  <1>4. \A n \in Calls : server'[n].state = "spawning" => server'[n].dir \in Paths
    BY DEF Calm, PidFiles, TypeInv, TypeOK, SystemOK, ServerType
  <1>5. \A n \in Calls : Live(n)' => /\ server'[n].pid # 0 /\ server'[n].dir \in Paths
                                     /\ FilePid(server[n].dir)' \in {0, server'[n].pid}
    BY <1>2, <1>3 DEF PidFiles, FilePid
  <1>6. \A m, n \in Calls :
          Live(m)' /\ Live(n)' /\ server'[m].dir = server'[n].dir => m = n
    BY <1>2 DEF PidFiles
  <1>7. QED
    BY <1>2, <1>4, <1>5, <1>6 DEF PidFiles, FilePid

\* and so does one that comes up: nobody else uses its directory.
LEMMA SpawnPidFiles ==
  ASSUME TypeInv, PidFiles, NEW n \in Calls, Spawn(n)
  PROVE  PidFiles'
  <1>1. PICK p \in Calls :
           /\ server'[n].state = "up" /\ server'[n].pid = p /\ server'[n].dir = server[n].dir
           /\ \A m \in Calls : m # n => server'[m] = server[m]
           /\ pidFile' = [pidFile EXCEPT ![server[n].dir] = [pid |-> p, port |-> n]]
    BY SpawnServers
  <1>2. server[n].dir \in Paths /\ \A m \in Calls : Live(m) => server[m].dir # server[n].dir
    BY DEF Spawn, InUse, PidFiles
  <1>3. \A m \in Calls : m # n => (Live(m)' <=> Live(m))
    BY <1>1 DEF Live
  <1>4. FilePid(server[n].dir)' = p
    BY <1>1, <1>2 DEF FilePid, TypeInv, TypeOK, SystemOK
  <1>5. \A d \in Paths : d # server[n].dir => pidFile'[d] = pidFile[d]
    BY <1>1 DEF TypeInv, TypeOK, SystemOK
  <1>6. \A m \in Calls : server'[m].state = "spawning" => server'[m].dir \in Paths
    BY <1>1 DEF PidFiles
  <1>7. pidFile'[server'[n].dir].pid = p /\ p # 0
    BY <1>1, <1>4, Sets DEF FilePid
  <1>8. \A m \in Calls : m # n /\ Live(m)' =>
          /\ server'[m].pid # 0 /\ server'[m].dir \in Paths
          /\ pidFile'[server'[m].dir].pid \in {0, server'[m].pid}
    BY <1>1, <1>2, <1>3, <1>5 DEF PidFiles, FilePid
  <1>9. \A m, l \in Calls :
          Live(m)' /\ Live(l)' /\ server'[m].dir = server'[l].dir => m = l
    BY <1>1, <1>2, <1>3 DEF PidFiles
  <1>10. QED
    BY <1>1, <1>2, <1>6, <1>7, <1>8, <1>9 DEF PidFiles, FilePid

\* Who becomes a foreign process.
LEMMA ForeignStep ==
  ASSUME TypeInv, PidsOK, [Next]_vars
  PROVE  \A p \in foreign' : p \in foreign \/ ~IsProcessAlive(p)
  <1>1. ASSUME NEW t \in Threads, Work(t)
        PROVE  foreign' = foreign
    <2>1. CASE SendSIGTERM(t) \/ SendKill(t)
      BY <2>1 DEF SendSIGTERM, SendKill
    <2>2. CASE StartError(t) \/ StartTimeout(t) \/ StopUnmanaged(t) \/ KeepDirs(t)
               \/ RemoveFiles(t)
      BY <2>2 DEF StartError, StartTimeout, StopUnmanaged, KeepDirs, RemoveFiles, system,
         history
    <2>3. CASE \/ EnsureDatabaseExists(t) \/ EnsureFails(t) \/ ReadPid(t) \/ Started(t)
               \/ Register(t) \/ RefuseReused(t) \/ RefuseNew(t) \/ NewPool(t)
               \/ NewPoolFails(t) \/ Take(t) \/ CheckSIGTERM(t) \/ SeenDead(t)
               \/ CheckKill(t) \/ Confirm(t)
      BY <2>3 DEF EnsureDatabaseExists, EnsureFails, ReadPid, Started, Register,
         RefuseReused, RefuseNew, NewPool, NewPoolFails, Take, CheckSIGTERM, SeenDead,
         CheckKill, Confirm, system,
         history
    <2>4. QED
      BY <1>1, <2>1, <2>2, <2>3 DEF Work
  <1>2. ASSUME NEW t \in Procs, NEW k \in Keys, Connect(t, k) \/ Close(t, k)
        PROVE  foreign' = foreign
    BY <1>2 DEF Connect, Reuse, Prepare, PrepareFails, Close, system, history
  <1>3. CASE Signal \/ Shutdown \/ UNCHANGED vars
    BY <1>3 DEF Signal, Shutdown, StopAll, ShutdownDone, vars, system, history
  <1>4. CASE Environment
    BY <1>4 DEF Environment, Spawn, SpawnFails, ShutsDown, Ends, Dies, Exits, PidReused,
       StalePids, Crash, history
  <1>5. QED
    BY <1>1, <1>2, <1>3, <1>4 DEF Next, Quiet

\* No step gives the pid of a running server to another process.
LEMMA PidsStep ==
  ASSUME TypeInv, PidsOK, Steady, Calm \/ \E n \in Calls : Spawn(n), [Next]_vars
  PROVE  PidsOK'
  <1>1. \A p \in foreign' : p \in foreign \/ ~IsProcessAlive(p)
    BY ForeignStep
  <1>2. CASE Calm
    BY <1>1, <1>2 DEF PidsOK, Calm, IsProcessAlive, IsPostgresProcess
  <1>3. ASSUME NEW n \in Calls, Spawn(n) PROVE PidsOK'
    <2>1. PICK p \in Calls :
            /\ ~IsProcessAlive(p)
            /\ server'[n].pid = p
            /\ \A m \in Calls : m # n => server'[m] = server[m]
      BY <1>3, SpawnServers
    <2>2. foreign' = foreign
      BY <1>3 DEF Spawn
    <2>3. QED
      BY <2>1, <2>2 DEF PidsOK, Live, IsProcessAlive
  <1>4. QED
    BY <1>2, <1>3

(***************************************************************************)
(* What goroutines know of their servers.                                  *)
(***************************************************************************)
\* The other goroutines stay where they are.
Others(t) ==
    \A u \in Threads \ {t} :
        pc'[u] = pc[u] /\ num'[u] = num[u] /\ own'[u] = own[u] /\ inst'[u] = inst[u]

\* The goroutine itself is idle afterwards.
LEMMA LeaveOthers ==
  ASSUME TypeInv, NEW t \in Threads, Leave(t)
  PROVE  /\ Others(t)
         /\ pc'[t] = "idle" /\ num'[t] = 0 /\ own'[t] = NoInstance /\ inst'[t] = NoInstance
  BY DEF Others, Leave, Goto, TypeInv, TypeOK, ProgramOK

\* Or it goes on with its new pool.
LEMMA StoppedOthers ==
  ASSUME TypeInv, NEW t \in Threads, Stopped(t)
  PROVE  /\ Others(t)
         /\ pc'[t] \in {"idle", "newPool"} /\ own'[t] \in {own[t], NoInstance}
         /\ inst'[t] = NoInstance
  <1>1. CASE Leave(t)
    BY <1>1, LeaveOthers
  <1>2. CASE /\ Goto(t, "newPool") /\ inst' = [inst EXCEPT ![t] = NoInstance]
             /\ UNCHANGED <<num, own>>
    BY <1>2 DEF Others, Goto, TypeInv, TypeOK, ProgramOK
  <1>3. QED
    BY <1>1, <1>2 DEF Stopped, Fail

\* A step of a goroutine is its own.
LEMMA WorkOthers ==
  ASSUME TypeInv, NEW t \in Threads, Work(t)
  PROVE  Others(t)
  <1>1. CASE Leave(t) \/ Stopped(t)
    BY <1>1, LeaveOthers, StoppedOthers
  <1>2. CASE \E l : Goto(t, l) /\ UNCHANGED <<num, inst>>
                    /\ (own' = own \/ \E p : own' = [own EXCEPT ![t].pid = p])
    BY <1>2 DEF Others, Goto, TypeInv, TypeOK, ProgramOK
  <1>3. CASE \E l, i : Goto(t, l) /\ inst' = [inst EXCEPT ![t] = i] /\ UNCHANGED <<num, own>>
    BY <1>3 DEF Others, Goto, TypeInv, TypeOK, ProgramOK
  <1>4. CASE \/ EnsureFails(t) \/ StartError(t) \/ StartTimeout(t) \/ StopUnmanaged(t)
             \/ RefuseReused(t) \/ NewPool(t) \/ KeepDirs(t) \/ RemoveFiles(t)
    BY <1>1, <1>4 DEF EnsureFails, StartError, StartTimeout, StopUnmanaged, RefuseReused,
       NewPool, KeepDirs, RemoveFiles, Fail
  <1>5. CASE EnsureDatabaseExists(t) \/ ReadPid(t) \/ Started(t)
    BY <1>2, <1>5 DEF EnsureDatabaseExists, ReadPid, Started
  <1>6. CASE CheckSIGTERM(t) \/ SendSIGTERM(t) \/ SeenDead(t) \/ CheckKill(t)
             \/ SendKill(t) \/ Confirm(t)
    BY <1>2, <1>6 DEF CheckSIGTERM, SendSIGTERM, SeenDead, CheckKill, SendKill, Confirm,
       locals
  <1>7. CASE Register(t)
    BY <1>2, <1>3, <1>7 DEF Register
  <1>8. CASE RefuseNew(t)
    BY <1>3, <1>8 DEF RefuseNew
  <1>9. CASE NewPoolFails(t)
    BY <1>1, <1>3, <1>9 DEF NewPoolFails, Fail
  <1>10. CASE Take(t)
    BY <1>1, <1>3, <1>10 DEF Take
  <1>11. QED
    BY <1>4, <1>5, <1>6, <1>7, <1>8, <1>9, <1>10 DEF Work

\* So is a new call.
LEMMA CallOthers ==
  ASSUME TypeInv, NEW t \in Procs, NEW k \in Keys, Connect(t, k) \/ Close(t, k)
  PROVE  Others(t)
  BY Sets DEF Connect, Reuse, Prepare, PrepareFails, Close, Others, Goto, locals, TypeInv,
     TypeOK, ProgramOK

\* A goroutine that stays where it is knows what it knew.
LEMMA StaysStarts ==
  ASSUME TypeInv, Starts, Steady, NEW t \in Procs,
         pc'[t] = pc[t], num'[t] = num[t], own'[t] = own[t]
  PROVE  StartsAt(pc[t], server[num[t]], own[t])'
  <1>1. CASE pc[t] = "idle"
    BY <1>1 DEF StartsAt
  <1>2. CASE pc[t] # "idle"
    <2>1. Course(server[num[t]], server'[num[t]])
      BY <1>2 DEF TypeInv, PointsOK, Steady
    <2>2. StartsAt(pc[t], server[num[t]], own[t])
      BY DEF Starts
    <2>3. StartsAt(pc[t], server'[num[t]], own[t])
      <3> DEFINE s == server[num[t]]
                 s2 == server'[num[t]]
                 l == pc[t]
                 o == own[t]
      <3>1. Course(s, s2) /\ StartsAt(l, s, o)
        BY <2>1, <2>2
      <3> HIDE DEF s, s2, l, o
      <3>2. StartsAt(l, s2, o)
        BY <3>1 DEF StartsAt, Course, Begun
      <3>3. QED
        BY <3>2 DEF s, s2, l, o
    <2>4. QED
      BY <2>3
  <1>3. QED
    BY <1>1, <1>2

\* One that goes on knows what it has to.
LEMMA GoesStarts ==
  ASSUME TypeInv, Starts, PidFiles, NEW t \in Procs, Work(t)
  PROVE  StartsAt(pc[t], server[num[t]], own[t])'
  <1>1. ASSUME pc'[t] \notin {"starting", "noPid", "ensure", "readPid", "register"}
        PROVE  StartsAt(pc[t], server[num[t]], own[t])'
    BY <1>1 DEF StartsAt
  <1>2. t \in Threads /\ StartsAt(pc[t], server[num[t]], own[t])
    BY Sets DEF Starts
  <1>3. ASSUME Leave(t) \/ Stopped(t)
        PROVE  StartsAt(pc[t], server[num[t]], own[t])'
    BY <1>1, <1>2, <1>3, LeaveOthers, StoppedOthers
  <1>4. CASE EnsureDatabaseExists(t)
    BY <1>2, <1>4 DEF EnsureDatabaseExists, StartsAt, Goto, system, TypeInv, TypeOK,
       ProgramOK
  <1>5. CASE ReadPid(t)
    <2>1. pc[t] = "readPid" /\ own[t] \in Instance /\ own[t].rt = 0
      BY <1>2, <1>5, LocalOK DEF ReadPid, OwnAt
    <2>2. own'[t] = [own[t] EXCEPT !.pid = FilePid(own[t].dir)] /\ pc'[t] = "register"
          /\ num' = num /\ server' = server
      BY <1>2, <1>5 DEF ReadPid, Goto, system, TypeInv, TypeOK, ProgramOK
    <2>3. own'[t].rt = 0
      BY <2>1, <2>2, InstanceParts
    <2>4. QED
      BY <1>2, <2>1, <2>2, <2>3, Sets DEF StartsAt
  <1>6. CASE Started(t)
    <2>1. /\ pc[t] = "starting" /\ own[t] \in Instance /\ own[t].rt = num[t]
          /\ server[num[t]].state \in Begun /\ num[t] \in Calls
      BY <1>2, <1>6, LocalOK, CallerOK DEF Started, OwnAt, Begun, Stopping
    <2>2. own'[t] = [own[t] EXCEPT !.pid = FilePid(own[t].dir)]
          /\ pc'[t] = (IF FilePid(own[t].dir) = 0 THEN "noPid" ELSE "register")
          /\ num' = num /\ server' = server
      BY <1>2, <1>6 DEF Started, Goto, system, TypeInv, TypeOK, ProgramOK
    <2>3. own'[t].rt = num[t] /\ own'[t].pid = FilePid(own[t].dir)
      BY <2>1, <2>2, InstanceParts
    <2>4. server[num[t]].state \in {"up", "exiting"} =>
            FilePid(own[t].dir) \in {0, server[num[t]].pid}
      BY <1>2, <2>1 DEF StartsAt, PidFiles, Live
    <2>5. QED
      BY <2>1, <2>2, <2>3, <2>4, Sets DEF StartsAt
  <1>7. CASE \/ EnsureFails(t) \/ StartError(t) \/ StartTimeout(t) \/ StopUnmanaged(t)
             \/ RefuseReused(t) \/ NewPool(t) \/ KeepDirs(t) \/ RemoveFiles(t)
    BY <1>3, <1>7 DEF EnsureFails, StartError, StartTimeout, StopUnmanaged, RefuseReused,
       NewPool, KeepDirs, RemoveFiles, Fail
  <1>8. CASE CheckSIGTERM(t) \/ SendSIGTERM(t) \/ SeenDead(t) \/ CheckKill(t)
             \/ SendKill(t) \/ Confirm(t)
    <2>1. pc'[t] \in Stopping
      BY <1>2, <1>8 DEF CheckSIGTERM, SendSIGTERM, SeenDead, CheckKill, SendKill, Confirm,
         Goto, Stopping, TypeInv, TypeOK, ProgramOK
    <2>2. QED
      BY <1>1, <2>1 DEF Stopping
  <1>9. CASE Register(t) \/ RefuseNew(t) \/ NewPoolFails(t) \/ Take(t)
    <2>1. Leave(t) \/ pc'[t] \in {"term", "newPool"}
      BY <1>2, <1>9 DEF Register, RefuseNew, NewPoolFails, Take, Fail, Goto, TypeInv,
         TypeOK, ProgramOK
    <2>2. QED
      BY <1>1, <1>3, <2>1
  <1>10. QED
    BY <1>4, <1>5, <1>6, <1>7, <1>8, <1>9 DEF Work

\* One that begins a call knows what it has to.
LEMMA CallStarts ==
  ASSUME TypeInv, Starts, Steady, NEW t \in Procs, NEW k \in Keys, Connect(t, k) \/ Close(t, k)
  PROVE  StartsAt(pc[t], server[num[t]], own[t])'
  <1>1. t \in Threads
    BY Sets
  <1>2. ASSUME NEW d \in Dirs \cup {calls + 1}, Reuse(t, k, d)
        PROVE  StartsAt(pc[t], server[num[t]], own[t])'
    <2>1. /\ pc'[t] = "ensure" /\ num'[t] = calls + 1 /\ server' = server
          /\ server[calls + 1].state = "none"
      BY <1>1, <1>2, ArriveOK DEF Reuse, Goto, system, NoServer, TypeInv, TypeOK, ProgramOK
    <2>2. QED
      BY <2>1 DEF StartsAt
  <1>3. ASSUME NEW d \in Dirs \cup {calls + 1}, Prepare(t, k, d)
        PROVE  StartsAt(pc[t], server[num[t]], own[t])'
    <2>1. calls + 1 \in Calls /\ server[calls + 1] \in ServerType
      BY <1>3, ArriveOK DEF Prepare, TypeInv, TypeOK, SystemOK
    <2>2. pc'[t] = "starting" /\ num'[t] = calls + 1
          /\ own'[t] = [pid |-> 0, dir |-> d, rt |-> calls + 1]
      BY <1>1, <1>3 DEF Prepare, Goto, TypeInv, TypeOK, ProgramOK
    <2>3. server'[calls + 1].state = "spawning" /\ server'[calls + 1].dir = d
      BY <1>3, <2>1 DEF Prepare, ServerType, TypeInv, TypeOK, SystemOK
    <2>4. own'[t].dir = d
      BY <2>2
    <2>5. QED
      BY <2>2, <2>3, <2>4 DEF StartsAt
  <1>4. ASSUME NEW d \in Dirs \cup {calls + 1}, PrepareFails(t, k, d)
        PROVE  StartsAt(pc[t], server[num[t]], own[t])'
    BY <1>4, StaysStarts DEF PrepareFails, locals
  <1>5. CASE Close(t, k)
    BY <1>1, <1>5 DEF Close, Goto, StartsAt, TypeInv, TypeOK, ProgramOK
  <1>6. QED
    BY <1>2, <1>3, <1>4, <1>5 DEF Connect

\* All goroutines know what they have to.
LEMMA StartsStep ==
  ASSUME TypeInv, Starts, PidFiles, Steady, [Next]_vars
  PROVE  Starts'
  <1>1. SUFFICES ASSUME NEW u \in Procs
                 PROVE  StartsAt(pc[u], server[num[u]], own[u])'
    BY DEF Starts
  <1>2. u \in Threads /\ u \notin Keys
    BY Sets
  <1>3. ASSUME NEW t \in Threads, Work(t)
        PROVE  StartsAt(pc[u], server[num[u]], own[u])'
    BY <1>2, <1>3, WorkOthers, StaysStarts, GoesStarts DEF Others
  <1>4. ASSUME NEW t \in Procs, NEW k \in Keys, Connect(t, k) \/ Close(t, k)
        PROVE  StartsAt(pc[u], server[num[u]], own[u])'
    BY <1>2, <1>4, CallOthers, StaysStarts, CallStarts DEF Others
  <1>5. CASE Crash
    BY <1>2, <1>5 DEF Crash, StartsAt
  <1>6. CASE StopAll
    BY <1>2, <1>6, StaysStarts DEF StopAll
  <1>7. CASE Signal \/ ShutdownDone \/ PidReused \/ UNCHANGED vars
    BY <1>7, StaysStarts DEF Signal, ShutdownDone, PidReused, vars, locals
  <1>8. ASSUME NEW n \in Calls, Spawn(n) \/ SpawnFails(n) \/ ShutsDown(n) \/ Exits(n)
        PROVE  StartsAt(pc[u], server[num[u]], own[u])'
    BY <1>8, StaysStarts DEF Spawn, SpawnFails, ShutsDown, Exits, locals
  <1>9. QED
    BY <1>3, <1>4, <1>5, <1>6, <1>7, <1>8 DEF Next, Quiet, Environment, Shutdown, Ends, Dies

\* What the theorems rest on.
Base == TypeInv /\ Starts /\ PidFiles /\ PidsOK

\* Every step keeps it.
LEMMA BaseStep ==
  ASSUME Base, [Next]_vars
  PROVE  Base' /\ Steady /\ (Calm \/ \E n \in Calls : Spawn(n))
  BY NextType, NextServers, StartsStep, CalmPidFiles, SpawnPidFiles, PidsStep DEF Base

\* It holds at first.
LEMMA InitBase == Init => Base
  <1> SUFFICES ASSUME Init PROVE Base
    OBVIOUS
  <1>1. \A n \in Calls : server[n].state = "none"
    BY DEF Init, NoServer
  <1>2. \A t \in Procs : pc[t] = "idle"
    BY Sets DEF Init
  <1>3. QED
    BY <1>1, <1>2, InitType DEF Base, Starts, StartsAt, PidFiles, PidsOK, Live

(***************************************************************************)
(* The directories of a server: the data directory that Connect made for   *)
(* it, and the runtime directory of its key.                               *)
(***************************************************************************)
\* Instances hold what their servers have.
Holding ==
    /\ \A k \in Keys : HeldIn(server, instances[k])
    /\ \A t \in Threads : HeldIn(server, inst[t])
    /\ \A t \in Threads : pc[t] \notin {"starting", "noPid"} => HeldIn(server, own[t])

\* Directories are removed when their server is gone.
RemoveOK ==
    \A t \in Threads :
        pc[t] = "remove" => \A n \in Of(inst[t]) : ~Live(n)

\* What an instance holds it keeps.
LEMMA HeldStable ==
  ASSUME TypeInv, Steady, NEW i, HeldIn(server, i)
  PROVE  HeldIn(server', i)
  <1>1. SUFFICES ASSUME NEW n \in Of(i)
                 PROVE  /\ server'[n].state \in Begun
                        /\ server'[n].state \in {"up", "exiting"} => server'[n].pid = i.pid
    BY DEF HeldIn
  <1>2. /\ n \in Calls /\ server[n].state \in Begun
        /\ server[n].state \in {"up", "exiting"} => server[n].pid = i.pid
    BY DEF HeldIn, Of
  <1>3. server[n] # NoServer
    BY <1>2 DEF NoServer, Begun
  <1>4. n <= calls
    BY <1>2, <1>3, EmbeddedAssumption DEF TypeInv, CallsOK, TypeOK, HistoryOK, Calls, Ref
  <1>5. Course(server[n], server'[n])
    BY <1>2, <1>4 DEF Steady
  <1>6. QED
    BY <1>2, <1>5 DEF Course

\* The instance that is none holds nothing.
LEMMA NoneHeld ==
  ASSUME NEW sv
  PROVE  HeldIn(sv, NoInstance)
  BY NoInstanceOK, Sets DEF HeldIn, Of

\* What a call that is at work hands on.
Handed(t, i) ==
    \/ i = NoInstance
    \/ \E k \in Keys : i = instances[k]
    \/ \E u \in Threads : i = inst[u]
    \/ i = own[t] /\ pc[t] \notin {"starting", "noPid"}

\* What is handed on holds what it has to.
LEMMA HandedHeld ==
  ASSUME TypeInv, Holding, Steady, NEW t \in Threads, NEW i, Handed(t, i)
  PROVE  HeldIn(server', i)
  BY HeldStable, NoneHeld DEF Holding, Handed

\* The goroutines hand on what they have, or what they read from a pid file.
LEMMA WorkHands ==
  ASSUME TypeInv, NEW t \in Threads, Work(t)
  PROVE  /\ \A k \in Keys : Handed(t, instances'[k])
         /\ Handed(t, inst'[t])
         /\ \/ Handed(t, own'[t])
            \/ pc'[t] \in {"starting", "noPid"}
            \/ Started(t) \/ ReadPid(t)
  <1>1. ASSUME UNCHANGED instances PROVE \A k \in Keys : Handed(t, instances'[k])
    BY <1>1 DEF Handed
  <1>2. ASSUME UNCHANGED inst PROVE Handed(t, inst'[t])
    BY <1>2 DEF Handed
  <1>3. ASSUME UNCHANGED own, pc[t] \notin {"starting", "noPid"} PROVE Handed(t, own'[t])
    BY <1>3 DEF Handed
  <1>4. ASSUME Leave(t) \/ (Stopped(t) /\ pc[t] \notin {"starting", "noPid"})
        PROVE  Handed(t, inst'[t]) /\ Handed(t, own'[t])
    BY <1>4, LeaveOthers, StoppedOthers DEF Handed
  <1>5. CASE \/ EnsureFails(t) \/ StartError(t) \/ StartTimeout(t) \/ StopUnmanaged(t)
             \/ RefuseReused(t) \/ NewPool(t) \/ KeepDirs(t) \/ RemoveFiles(t)
    BY <1>1, <1>4, <1>5 DEF EnsureFails, StartError, StartTimeout, StopUnmanaged,
       RefuseReused, NewPool, KeepDirs, RemoveFiles, Fail
  <1>6. CASE EnsureDatabaseExists(t)
    BY <1>1, <1>2, <1>3, <1>6 DEF EnsureDatabaseExists
  <1>7. CASE ReadPid(t) \/ Started(t)
    BY <1>1, <1>2, <1>7 DEF ReadPid, Started
  <1>8. CASE CheckSIGTERM(t) \/ SendSIGTERM(t) \/ SeenDead(t) \/ CheckKill(t)
             \/ SendKill(t) \/ Confirm(t)
    BY <1>1, <1>2, <1>3, <1>8 DEF CheckSIGTERM, SendSIGTERM, SeenDead, CheckKill, SendKill,
       Confirm, locals
  <1>9. CASE Register(t)
    <2>1. Handed(t, own[t]) /\ UNCHANGED own /\ pc[t] = "register" /\ Key(t) \in Keys
      BY <1>9, KeyOK DEF Register, Handed
    <2>2. \A k \in Keys : Handed(t, instances'[k])
      BY <1>9, <2>1 DEF Register, Handed, TypeInv, TypeOK, ProgramOK
    <2>3. Handed(t, inst'[t])
      BY <1>2, <1>9, <2>1 DEF Register, Handed, TypeInv, TypeOK, ProgramOK
    <2>4. QED
      BY <1>3, <2>1, <2>2, <2>3
  <1>10. CASE RefuseNew(t)
    BY <1>1, <1>3, <1>10 DEF RefuseNew, Handed, TypeInv, TypeOK, ProgramOK
  <1>11. CASE NewPoolFails(t)
    <2>1. Handed(t, own[t]) /\ pc[t] = "newPool" /\ Key(t) \in Keys
      BY <1>11, KeyOK DEF NewPoolFails, Handed
    <2>2. \A k \in Keys : Handed(t, instances'[k])
      BY <1>11, <2>1 DEF NewPoolFails, Handed, TypeInv, TypeOK, ProgramOK
    <2>3. Handed(t, inst'[t]) /\ Handed(t, own'[t])
      BY <1>3, <1>4, <1>11, <2>1 DEF NewPoolFails, Handed, Fail, TypeInv, TypeOK, ProgramOK
    <2>4. QED
      BY <2>2, <2>3
  <1>12. CASE Take(t)
    <2>1. pc[t] = "take" /\ Key(t) \in Keys
      BY <1>12, KeyOK DEF Take
    <2>2. \A k \in Keys : Handed(t, instances'[k])
      BY <1>12, <2>1 DEF Take, Handed, TypeInv, TypeOK, ProgramOK
    <2>3. Handed(t, inst'[t]) /\ Handed(t, own'[t])
      BY <1>3, <1>4, <1>12, <2>1 DEF Take, Handed, TypeInv, TypeOK, ProgramOK
    <2>4. QED
      BY <2>2, <2>3
  <1>13. QED
    BY <1>5, <1>6, <1>7, <1>8, <1>9, <1>10, <1>11, <1>12 DEF Work

\* The pid that Connect read from the file of a new server.
LEMMA StartedHeld ==
  ASSUME Base, Base', Steady, NEW t \in Threads, Started(t) \/ ReadPid(t),
         pc'[t] \notin {"starting", "noPid"}
  PROVE  HeldIn(server', own'[t])
  <1>1. CASE Started(t)
    <2>1. t \in Procs /\ num[t] \in Calls /\ own[t] \in Instance
          /\ own[t].rt = num[t] /\ (own[t].dir \in Calls => own[t].dir = num[t])
      BY <1>1, CallerOK, LocalOK DEF Started, Stopping, Base, OwnAt
    <2>2. own'[t] = [own[t] EXCEPT !.pid = FilePid(own[t].dir)] /\ pc'[t] = "register"
          /\ num' = num
      BY <1>1 DEF Started, Goto, Base, TypeInv, TypeOK, ProgramOK
    <2>3. own'[t].dir = own[t].dir /\ own'[t].rt = num[t]
      BY <2>1, <2>2, InstanceParts
    <2>4. StartsAt(pc[t], server[num[t]], own[t])'
      BY <2>1 DEF Base, Starts
    <2>5. QED
      BY <2>1, <2>2, <2>3, <2>4, Sets DEF HeldIn, Of, StartsAt
  <1>2. CASE ReadPid(t)
    <2>1. own[t] \in Instance /\ own[t].dir \in Dirs /\ own[t].rt = 0
      BY <1>2, LocalOK DEF ReadPid, Base, OwnAt
    <2>2. own'[t] = [own[t] EXCEPT !.pid = FilePid(own[t].dir)]
      BY <1>2 DEF ReadPid, Base, TypeInv, TypeOK, ProgramOK
    <2>3. own'[t].dir = own[t].dir /\ own'[t].rt = 0
      BY <2>1, <2>2, InstanceParts
    <2>4. QED
      BY <2>1, <2>3, Sets DEF HeldIn, Of
  <1>3. QED
    BY <1>1, <1>2

\* A new call knows of no server that Connect made directories for.
LEMMA CallHolding ==
  ASSUME Base, Holding, Steady, NEW t \in Procs, NEW k \in Keys, Connect(t, k) \/ Close(t, k)
  PROVE  Holding'
  <1>1. TypeInv /\ t \in Threads
    BY Sets DEF Base
  <1>2. UNCHANGED <<instances, inst>>
    BY DEF Connect, Reuse, Prepare, PrepareFails, Close, locals
  <1>3. \A u \in Threads \ {t} : own'[u] = own[u] /\ pc'[u] = pc[u]
    BY CallOthers, <1>1 DEF Others
  <1>4. pc'[t] = "starting" \/ HeldIn(server', own'[t])
    <2>1. ASSUME NEW d \in Dirs \cup {calls + 1}, Reuse(t, k, d)
          PROVE  HeldIn(server', own'[t])
      <3>1. /\ own'[t] = [own[t] EXCEPT !.dir = d] /\ own[t] \in Instance /\ d \in Dirs
            /\ own[t].rt = 0
        BY <1>1, <2>1, LocalOK, ArriveOK, NoInstanceOK DEF Reuse, ReuseEmbeddedPG, TypeInv,
           TypeOK, ProgramOK
      <3>2. own'[t].dir = d /\ own'[t].rt = 0
        BY <3>1, InstanceParts
      <3>3. QED
        BY <3>1, <3>2, Sets DEF HeldIn, Of
    <2>2. ASSUME NEW d \in Dirs \cup {calls + 1}, Prepare(t, k, d)
          PROVE  pc'[t] = "starting"
      BY <1>1, <2>2 DEF Prepare, Goto, TypeInv, TypeOK, ProgramOK
    <2>3. ASSUME pc[t] = "idle", own' = own
          PROVE  HeldIn(server', own'[t])
      BY <1>1, <2>3, HeldStable DEF Holding
    <2>4. ASSUME NEW d \in Dirs \cup {calls + 1}, PrepareFails(t, k, d)
          PROVE  HeldIn(server', own'[t])
      BY <2>3, <2>4 DEF PrepareFails, Arrive, locals
    <2>5. CASE Close(t, k)
      BY <2>3, <2>5 DEF Close, Arrive
    <2>6. QED
      BY <2>1, <2>2, <2>4, <2>5 DEF Connect
  <1>5. QED
    BY <1>1, <1>2, <1>3, <1>4, HeldStable DEF Holding

\* Every step keeps what instances hold.
LEMMA HoldingStep ==
  ASSUME Base, Holding, [Next]_vars
  PROVE  Holding'
  <1>1. TypeInv /\ Base' /\ Steady
    BY BaseStep DEF Base
  <1>2. ASSUME NEW t \in Threads, Work(t) PROVE Holding'
    <2>1. \A k \in Keys : HeldIn(server', instances'[k])
      BY <1>1, <1>2, WorkHands, HandedHeld
    <2>2. HeldIn(server', inst'[t])
      BY <1>1, <1>2, WorkHands, HandedHeld
    <2>3. pc'[t] \notin {"starting", "noPid"} => HeldIn(server', own'[t])
      BY <1>1, <1>2, WorkHands, HandedHeld, StartedHeld
    <2>4. \A u \in Threads \ {t} :
            pc'[u] = pc[u] /\ own'[u] = own[u] /\ inst'[u] = inst[u]
      BY <1>1, <1>2, WorkOthers DEF Others
    <2>5. QED
      BY <1>1, <2>1, <2>2, <2>3, <2>4, HeldStable DEF Holding
  <1>3. CASE Crash
    BY <1>3, NoneHeld DEF Crash, Holding
  <1>4. CASE StopAll
    <2>1. \A t \in Threads : inst'[t] = inst[t] \/ \E k \in Keys : inst'[t] = instances[k]
      BY <1>4 DEF StopAll
    <2>2. \A t \in Threads : /\ own'[t] = own[t]
                             /\ pc'[t] \notin {"starting", "noPid"} =>
                                  pc[t] \notin {"starting", "noPid"}
      <3>1. \A k \in Keys : pc[k] = "idle"
        BY <1>4 DEF StopAll
      <3>2. QED
        BY <1>4, <3>1 DEF StopAll
    <2>3. QED
      BY <1>1, <1>4, <2>1, <2>2, HeldStable, NoneHeld DEF StopAll, Holding
  <1>5. ASSUME UNCHANGED <<instances, pc, own, inst>> PROVE Holding'
    BY <1>1, <1>5, HeldStable DEF Holding
  <1>6. CASE Signal \/ ShutdownDone \/ PidReused \/ UNCHANGED vars
    BY <1>5, <1>6 DEF Signal, ShutdownDone, PidReused, vars, locals
  <1>7. ASSUME NEW n \in Calls, Spawn(n) \/ SpawnFails(n) \/ ShutsDown(n) \/ Exits(n)
        PROVE  Holding'
    BY <1>5, <1>7 DEF Spawn, SpawnFails, ShutsDown, Exits, locals
  <1>8. QED
    BY <1>1, <1>2, <1>3, <1>4, <1>6, <1>7, CallHolding DEF Next, Quiet, Environment,
       Shutdown, Ends, Dies

\* Servers that are gone stay so.
LEMMA GoneStays ==
  ASSUME TypeInv, Steady, NEW i, HeldIn(server, i), NEW n \in Of(i), ~Live(n)
  PROVE  server'[n].state \notin {"up", "exiting"}
  <1>1. n \in Calls /\ server[n].state \in Begun /\ server[n] # NoServer
    BY DEF HeldIn, NoServer, Begun, Of
  <1>2. Course(server[n], server'[n])
    BY <1>1, EmbeddedAssumption DEF Steady, TypeInv, CallsOK, TypeOK, HistoryOK, Calls, Ref
  <1>3. QED
    BY <1>1, <1>2 DEF Course, Live

\* Every step keeps the servers of such directories gone.
LEMMA RemoveStep ==
  ASSUME Base, Holding, RemoveOK, [Next]_vars
  PROVE  RemoveOK'
  <1>1. TypeInv /\ Steady
    BY BaseStep DEF Base
  <1>2. SUFFICES ASSUME NEW t \in Threads, pc'[t] = "remove", NEW n \in Of(inst'[t])
                 PROVE  server'[n].state \notin {"up", "exiting"}
    BY DEF RemoveOK, Live, Of
  <1>3. CASE pc[t] = "remove" /\ inst'[t] = inst[t]
    BY <1>1, <1>2, <1>3, GoneStays DEF RemoveOK, Holding
  <1>4. CASE Confirm(t)
    <2>1. inst'[t] = inst[t] /\ ~IsProcessAlive(inst[t].pid) /\ HeldIn(server, inst[t])
      BY <1>4 DEF Confirm, Holding, locals
    <2>2. ~Live(n)
      BY <1>2, <2>1 DEF HeldIn, Of, IsProcessAlive, IsPostgresProcess, Live
    <2>3. QED
      BY <1>1, <1>2, <2>1, <2>2, GoneStays
  <1>5. ASSUME Work(t), ~Confirm(t) PROVE FALSE
    <2>1. ASSUME NEW l, Goto(t, l) PROVE l = "remove"
      BY <1>1, <1>2, <2>1 DEF Goto, TypeInv, TypeOK, ProgramOK
    <2>2. ~Leave(t) /\ ~Stopped(t)
      BY <1>1, <1>2, LeaveOthers, StoppedOthers
    <2>3. QED
      BY <1>5, <2>1, <2>2 DEF Work, EnsureDatabaseExists, EnsureFails, ReadPid, Started,
         StartError, StartTimeout, StopUnmanaged, Register, RefuseReused, RefuseNew,
         NewPool, NewPoolFails, Take, CheckSIGTERM, SendSIGTERM, SeenDead, CheckKill,
         SendKill, KeepDirs, RemoveFiles, Fail
  <1>6. ASSUME NEW u \in Threads, Work(u), u # t PROVE pc[t] = "remove" /\ inst'[t] = inst[t]
    BY <1>1, <1>2, <1>6, WorkOthers DEF Others
  <1>7. ASSUME NEW u \in Procs, NEW k \in Keys, Connect(u, k) \/ Close(u, k)
        PROVE  pc[t] = "remove" /\ inst'[t] = inst[t]
    <2>1. u # t => pc[t] = "remove" /\ inst'[t] = inst[t]
      BY <1>1, <1>2, <1>7, CallOthers DEF Others
    <2>2. CASE u = t
      BY <1>1, <1>2, <1>7, <2>2 DEF Connect, Reuse, Prepare, PrepareFails, Close, Goto,
         locals, TypeInv, TypeOK, ProgramOK
    <2>3. QED
      BY <2>1, <2>2
  <1>8. CASE Crash
    BY <1>2, <1>8 DEF Crash
  <1>9. CASE StopAll
    BY <1>2, <1>3, <1>9 DEF StopAll
  <1>10. CASE Signal \/ ShutdownDone \/ PidReused \/ UNCHANGED vars
    BY <1>2, <1>3, <1>10 DEF Signal, ShutdownDone, PidReused, vars, locals
  <1>11. ASSUME NEW m \in Calls, Spawn(m) \/ SpawnFails(m) \/ ShutsDown(m) \/ Exits(m)
         PROVE  pc[t] = "remove" /\ inst'[t] = inst[t]
    BY <1>2, <1>11 DEF Spawn, SpawnFails, ShutsDown, Exits, locals
  <1>12. QED
    BY <1>3, <1>4, <1>5, <1>6, <1>7, <1>8, <1>9, <1>10, <1>11 DEF Next, Quiet, Environment,
       Shutdown, Ends, Dies

\* A data directory that is removed has no server, unless that comes up late.
LEMMA TempsKept ==
  ASSUME Base, Holding, RemoveOK, [Next]_vars, NEW n \in temps \ temps', Live(n)'
  PROVE  n \in late'
  <1>1. TypeInv /\ Steady /\ n \in Calls /\ n # 0
    BY BaseStep, Sets DEF Base, TypeInv, TypeOK, SystemOK
  <1>2. ASSUME NEW t \in Threads, RemoveDirs(t), pc[t] \in {"starting", "noPid"}
        PROVE  num[t] = n
    <2>1. n = own[t].dir
      BY <1>2 DEF RemoveDirs
    <2>2. QED
      BY <1>1, <1>2, <2>1, LocalOK DEF OwnAt
  <1>3. ASSUME NEW t \in Threads, Work(t) PROVE n \in late'
    <2>1. CASE StartError(t)
      BY <1>1, <1>2, <2>1 DEF StartError, Live
    <2>2. CASE StartTimeout(t)
      BY <1>2, <2>2 DEF StartTimeout
    <2>3. CASE StopUnmanaged(t)
      <3>1. num[t] = n
        BY <1>2, <2>3 DEF StopUnmanaged
      <3>2. CASE server' = [server EXCEPT ![num[t]] = [NoServer EXCEPT !.state = "gone"]]
        BY <1>1, <3>1, <3>2 DEF Live, NoServer, TypeInv, TypeOK, SystemOK
      <3>3. QED
        BY <2>3, <3>1, <3>2 DEF StopUnmanaged
    <2>4. CASE RemoveFiles(t)
      <3>1. n \in Of(inst[t]) /\ pc[t] = "remove" /\ HeldIn(server, inst[t])
        BY <1>1, <2>4 DEF RemoveFiles, Holding, Of
      <3>2. QED
        BY <1>1, <3>1, GoneStays DEF RemoveOK, Live
    <2>5. QED
      BY <1>3, <2>1, <2>2, <2>3, <2>4 DEF Work, EnsureDatabaseExists, EnsureFails, ReadPid,
         Started, Register, RefuseReused, RefuseNew, NewPool, NewPoolFails, Take,
         CheckSIGTERM, SendSIGTERM, SeenDead, CheckKill, SendKill, KeepDirs, Confirm, files
  <1>4. ASSUME NEW t \in Procs, NEW k \in Keys, Connect(t, k) \/ Close(t, k) PROVE FALSE
    BY <1>4 DEF Connect, Reuse, Prepare, PrepareFails, Close, files
  <1>5. CASE Signal \/ Shutdown \/ PidReused \/ Crash \/ UNCHANGED vars
    BY <1>5 DEF Signal, Shutdown, StopAll, ShutdownDone, PidReused, Crash, files, vars
  <1>6. ASSUME NEW m \in Calls, Spawn(m) \/ SpawnFails(m) \/ ShutsDown(m) \/ Exits(m)
        PROVE  FALSE
    BY <1>6 DEF Spawn, SpawnFails, MakeDirs, ShutsDown, Exits, files
  <1>7. QED
    BY <1>3, <1>4, <1>5, <1>6 DEF Next, Quiet, Environment, Ends, Dies

\* A goroutine's step adds to the exceptions.
LEMMA ExceptionsGrow ==
  ASSUME NEW t \in Threads, Work(t)
  PROVE  late \subseteq late' /\ undercut \subseteq undercut'
  BY DEF Work, EnsureDatabaseExists, EnsureFails, ReadPid, Started, StartError,
     StartTimeout, StopUnmanaged, Register, RefuseReused, RefuseNew, NewPool,
     NewPoolFails, Take, CheckSIGTERM, SendSIGTERM, SeenDead, CheckKill, SendKill,
     KeepDirs, Confirm, RemoveFiles, RemoveDirs, Undercut, history

\* An ended server is forgotten, and no other.
LEMMA Forgotten ==
  ASSUME TypeInv, NEW m \in Calls, SpawnFails(m) \/ Exits(m), NEW n \in Calls,
         server'[n].state \in {"spawning", "up", "exiting"}
  PROVE  /\ n \in late => n \in late'
         /\ n \in lost => n \in lost'
         /\ n \in undercut => n \in undercut'
  <1>1. n # m
    BY DEF SpawnFails, Exits, NoServer, TypeInv, TypeOK, SystemOK
  <1>2. QED
    BY <1>1 DEF SpawnFails, Exits, Forget

\* A server that runs, or starts, stays an exception.
LEMMA ExceptionsStay ==
  ASSUME TypeInv, [Next]_vars, NEW n \in Calls,
         server'[n].state \in {"spawning", "up", "exiting"}
  PROVE  (n \in late => n \in late') /\ (n \in undercut => n \in undercut')
  <1> DEFINE Stays == (n \in late => n \in late') /\ (n \in undercut => n \in undercut')
  <1>1. ASSUME NEW t \in Threads, Work(t) PROVE Stays
    BY <1>1, ExceptionsGrow
  <1>2. ASSUME NEW t \in Procs, NEW k \in Keys, Connect(t, k) \/ Close(t, k) PROVE Stays
    BY <1>2 DEF Connect, Reuse, Prepare, PrepareFails, Close, Undercut, history
  <1>3. CASE Signal \/ Shutdown \/ PidReused \/ Crash \/ UNCHANGED vars
    BY <1>3 DEF Signal, Shutdown, StopAll, ShutdownDone, PidReused, Crash, history, vars
  <1>4. ASSUME NEW m \in Calls, Spawn(m) \/ ShutsDown(m) PROVE Stays
    BY <1>4 DEF Spawn, ShutsDown, history
  <1>5. ASSUME NEW m \in Calls, SpawnFails(m) \/ Exits(m) PROVE Stays
    BY <1>5, Forgotten
  <1>6. QED
    BY <1>1, <1>2, <1>3, <1>4, <1>5 DEF Next, Quiet, Environment, Ends, Dies

\* Every step keeps the directories under their servers.
LEMMA TempStep ==
  ASSUME Base, Holding, RemoveOK, TempUnderServer, [Next]_vars
  PROVE  TempUnderServer'
  <1>1. SUFFICES ASSUME NEW n \in Calls, Live(n)', server'[n].dir = n, n \notin late'
                 PROVE  n \in temps'
    BY DEF TempUnderServer, Live
  <1>2. n \notin late
    BY <1>1, ExceptionsStay DEF Base, Live
  <1>3. CASE Live(n) /\ server[n].dir = n
    BY <1>1, <1>2, <1>3, TempsKept DEF TempUnderServer
  <1>4. CASE Spawn(n)
    <2>1. server[n].dir = n
      BY <1>1, <1>4, SpawnServers DEF Base
    <2>2. QED
      BY <1>4, <2>1 DEF Spawn, MakeDirs
  <1>5. ASSUME NEW m \in Calls, Spawn(m), m # n
        PROVE  Live(n) /\ server[n].dir = n
    <2>1. server'[n] = server[n]
      BY <1>5, SpawnServers DEF Base
    <2>2. QED
      BY <1>1, <2>1 DEF Live
  <1>6. CASE Calm
    BY <1>1, <1>3, <1>6 DEF Calm
  <1>7. QED
    BY <1>3, <1>4, <1>5, <1>6, BaseStep

\* A server keeps the data directory that Connect created for it as long as it runs:
\* stopWithForceKill removes the directory only after it found the server's process dead,
\* and that process cannot come back under another pid.
THEOREM KeepsTemp == Spec => []TempUnderServer
  <1> DEFINE Inv == Base /\ Holding /\ RemoveOK /\ TempUnderServer
  <1>1. Init => Inv
    <2>1. \A n \in Calls : server[n] = NoServer => ~Live(n)
      BY DEF Live, NoServer
    <2>2. Init => Holding /\ RemoveOK /\ TempUnderServer
      BY <2>1, NoneHeld DEF Init, Holding, RemoveOK, TempUnderServer
    <2>3. QED
      BY <2>2, InitBase
  <1>2. Inv /\ [Next]_vars => Inv'
    BY BaseStep, HoldingStep, RemoveStep, TempStep
  <1>3. Inv => TempUnderServer
    OBVIOUS
  <1>4. QED
    BY <1>1, <1>2, <1>3, PTL DEF Spec

\* The keys of calls stay as they are.
LEMMA KeysStay ==
  ASSUME TypeInv, [Next]_vars, NEW n \in Calls, n <= calls
  PROVE  keyOf'[n] = keyOf[n]
  <1>1. ASSUME NEW t \in Procs, NEW k \in Keys, Connect(t, k) \/ Close(t, k)
        PROVE  keyOf'[n] = keyOf[n]
    <2>1. Arrive(t, k)
      BY <1>1 DEF Connect, Reuse, Prepare, PrepareFails, Close
    <2>2. n # calls + 1
      BY <2>1, ArriveOK, Sets
    <2>3. QED
      BY <2>1, <2>2 DEF Arrive, TypeInv, TypeOK, HistoryOK
  <1>2. ASSUME NEW t \in Threads, Work(t) PROVE keyOf' = keyOf
    BY <1>2 DEF Work, EnsureDatabaseExists, EnsureFails, ReadPid, Started, StartError,
       StartTimeout, StopUnmanaged, Register, RefuseReused, RefuseNew, NewPool,
       NewPoolFails, Take, CheckSIGTERM, SendSIGTERM, SeenDead, CheckKill, SendKill, KeepDirs,
       Confirm, RemoveFiles, bounds
  <1>3. CASE Signal \/ Shutdown \/ Environment \/ UNCHANGED vars
    BY <1>3 DEF Signal, Shutdown, StopAll, ShutdownDone, Environment, Spawn, SpawnFails,
       ShutsDown, Ends, Dies, Exits, PidReused, Crash, bounds, vars
  <1>4. QED
    BY <1>1, <1>2, <1>3 DEF Next, Quiet

\* Who runs after a calm step ran before, under the same key.
LEMMA LiveBefore ==
  ASSUME TypeInv, Calm, [Next]_vars, NEW n \in Calls, Live(n)'
  PROVE  Live(n) /\ n <= calls /\ keyOf'[n] = keyOf[n] /\ keyOf[n] \in Keys
  <1>1. Live(n) /\ server[n].state # "none"
    BY DEF Calm, Live
  <1>2. QED
    BY <1>1, CalledOK, KeysStay

\* A runtime directory that is removed has no server, but one that comes up late or that
\* another call of the key left there.
LEMMA RuntimesKept ==
  ASSUME Base, Holding, RemoveOK, Calm, [Next]_vars, NEW n \in Calls, Live(n)',
         keyOf[n] \in runtimes, keyOf[n] \notin runtimes'
  PROVE  n \in late' \cup undercut'
  <1>1. TypeInv /\ Steady /\ Live(n)
    BY BaseStep, LiveBefore DEF Base
  <1>2. ASSUME NEW k, NEW m, Undercut(k, m), k = keyOf[n], m # n
        PROVE  n \in undercut'
    BY <1>1, <1>2 DEF Undercut
  <1>3. ASSUME NEW t \in Threads, RemoveDirs(t), num[t] # n
        PROVE  n \in undercut'
    BY <1>2, <1>3 DEF RemoveDirs
  <1>4. ASSUME NEW t \in Threads, Work(t) PROVE n \in late' \cup undercut'
    <2>1. CASE StartError(t)
      BY <1>1, <1>3, <2>1 DEF StartError, Live
    <2>2. CASE StartTimeout(t)
      BY <1>3, <2>2 DEF StartTimeout
    <2>3. CASE StopUnmanaged(t)
      <3>1. CASE num[t] = n
        <4>1. server' # [server EXCEPT ![num[t]] = [NoServer EXCEPT !.state = "gone"]]
          BY <3>1 DEF Live, NoServer, Base, TypeInv, TypeOK, SystemOK
        <4>2. QED
          BY <2>3, <3>1, <4>1 DEF StopUnmanaged
      <3>2. QED
        BY <1>3, <2>3, <3>1 DEF StopUnmanaged
    <2>4. CASE RemoveFiles(t)
      <3>1. pc[t] = "remove" /\ Undercut(Key(t), inst[t].rt) /\ keyOf[n] = Key(t)
        BY <2>4 DEF RemoveFiles
      <3>2. inst[t].rt # n
        BY <1>1, <3>1 DEF RemoveOK, Of
      <3>3. QED
        BY <1>2, <3>1, <3>2
    <2>5. QED
      BY <1>4, <2>1, <2>2, <2>3, <2>4 DEF Work, EnsureDatabaseExists, EnsureFails, ReadPid,
         Started, Register, RefuseReused, RefuseNew, NewPool, NewPoolFails, Take,
         CheckSIGTERM, SendSIGTERM, SeenDead, CheckKill, SendKill, KeepDirs, Confirm, files
  <1>5. ASSUME NEW t \in Procs, NEW k \in Keys, Connect(t, k) \/ Close(t, k)
        PROVE  n \in undercut'
    <2>1. PICK d : PrepareFails(t, k, d)
      BY <1>5 DEF Connect, Reuse, Prepare, Close, files
    <2>2. Undercut(k, calls + 1) /\ keyOf[n] = k
      BY <2>1 DEF PrepareFails
    <2>3. n # calls + 1
      BY <1>1, <2>1, ArriveOK DEF PrepareFails, Live, NoServer
    <2>4. QED
      BY <1>2, <2>2, <2>3
  <1>6. CASE Signal \/ Shutdown \/ PidReused \/ Crash \/ UNCHANGED vars
    BY <1>6 DEF Signal, Shutdown, StopAll, ShutdownDone, PidReused, Crash, files, vars
  <1>7. ASSUME NEW m \in Calls, Spawn(m) \/ SpawnFails(m) \/ ShutsDown(m) \/ Exits(m)
        PROVE  FALSE
    BY <1>7 DEF Spawn, SpawnFails, MakeDirs, ShutsDown, Exits, files
  <1>8. QED
    BY <1>4, <1>5, <1>6, <1>7 DEF Next, Quiet, Environment, Ends, Dies

\* Every step keeps the runtime directory under its server.
LEMMA RuntimeStep ==
  ASSUME Base, Holding, RemoveOK, RuntimeUnderServer, [Next]_vars
  PROVE  RuntimeUnderServer'
  <1>1. SUFFICES ASSUME NEW n \in Calls, Live(n)', n \notin late' \cup undercut'
                 PROVE  keyOf'[n] \in runtimes'
    BY DEF RuntimeUnderServer, Live
  <1>2. TypeInv /\ n \notin late \cup undercut
    BY <1>1, ExceptionsStay DEF Base, Live
  <1>3. CASE Calm
    <2>1. Live(n) /\ keyOf'[n] = keyOf[n]
      BY <1>1, <1>2, <1>3, LiveBefore
    <2>2. keyOf[n] \in runtimes
      BY <1>2, <2>1 DEF RuntimeUnderServer
    <2>3. QED
      BY <1>1, <1>3, <2>1, <2>2, RuntimesKept
  <1>4. CASE Spawn(n)
    BY <1>4 DEF Spawn, MakeDirs
  <1>5. ASSUME NEW m \in Calls, Spawn(m), m # n PROVE keyOf'[n] \in runtimes'
    <2>1. server'[n] = server[n]
      BY <1>5, SpawnServers DEF Base
    <2>2. Live(n) /\ keyOf' = keyOf /\ runtimes \subseteq runtimes'
      BY <1>1, <1>5, <2>1 DEF Live, Spawn, MakeDirs
    <2>3. QED
      BY <1>2, <2>2 DEF RuntimeUnderServer
  <1>6. QED
    BY <1>3, <1>4, <1>5, BaseStep

\* A stop does not remove the runtime directory under the server that it stops, and neither
\* does the failed start of one, unless Start was given up.  What remains is the sharing of
\* the directory by the calls of a key: undercut is noted where another call, or the stop of
\* its server, removes it under this one, in Connect and in stopWithForceKill.
THEOREM KeepsRuntime == Spec => []RuntimeUnderServer
  <1> DEFINE Inv == Base /\ Holding /\ RemoveOK /\ RuntimeUnderServer
  <1>1. Init => Inv
    <2>1. \A n \in Calls : server[n] = NoServer => ~Live(n)
      BY DEF Live, NoServer
    <2>2. Init => Holding /\ RemoveOK /\ RuntimeUnderServer
      BY <2>1, NoneHeld DEF Init, Holding, RemoveOK, RuntimeUnderServer
    <2>3. QED
      BY <2>2, InitBase
  <1>2. Inv /\ [Next]_vars => Inv'
    BY BaseStep, HoldingStep, RemoveStep, RuntimeStep
  <1>3. Inv => RuntimeUnderServer
    OBVIOUS
  <1>4. QED
    BY <1>1, <1>2, <1>3, PTL DEF Spec

(***************************************************************************)
(* Servers that nobody stops.                                              *)
(***************************************************************************)
\* The server that call n started as p is registered, or about to be registered or stopped.
InHand(n, p) ==
    \/ \E k \in Keys : instances[k].pid = p
    \/ \E t \in Threads : num[t] = n /\ pc[t] \in {"starting", "noPid", "register"}
    \/ \E t \in Threads : inst[t].pid = p /\ pc[t] \in {"term", "signal", "wait", "kill"}

Answered(n, p) == server[n].sig = "kill" \/ n \in lost \/ InHand(n, p)

Strays ==
    /\ late \subseteq lost
    /\ \A n \in Calls : Live(n) => Answered(n, server[n].pid)
    /\ \A n \in Calls : server[n].state = "spawning" =>
         n \in late \/ \E t \in Procs : num[t] = n /\ pc[t] = "starting"

\* A registered server stays in hand: who unregisters it stops it.
LEMMA HandByKey ==
  ASSUME TypeInv, NEW t \in Threads, Work(t), NEW n \in Calls, NEW p \in Calls,
         NEW k \in Keys, instances[k].pid = p
  PROVE  InHand(n, p)'
  <1>1. instances[k] # NoInstance /\ p # 0
    BY NoInstanceOK, Sets
  <1>2. ASSUME instances'[k] = instances[k] PROVE InHand(n, p)'
    BY <1>2 DEF InHand
  <1>3. ASSUME inst'[t] = instances[k], pc'[t] = "term" PROVE InHand(n, p)'
    BY <1>3 DEF InHand
  <1>4. CASE Register(t) \/ NewPoolFails(t) \/ Take(t)
    <2>1. CASE k # Key(t)
      <3>1. instances'[k] = instances[k]
        BY <1>4, <2>1 DEF Register, NewPoolFails, Take, TypeInv, TypeOK, ProgramOK
      <3>2. QED
        BY <1>2, <3>1
    <2>2. CASE k = Key(t)
      <3>1. instances'[k] = instances[k] \/ (inst'[t] = instances[k] /\ pc'[t] = "term")
        BY <1>1, <1>4, <2>2 DEF Register, NewPoolFails, Take, Goto, TypeInv, TypeOK,
           ProgramOK
      <3>2. QED
        BY <1>2, <1>3, <3>1
    <2>3. QED
      BY <2>1, <2>2
  <1>5. CASE ~(Register(t) \/ NewPoolFails(t) \/ Take(t))
    <2>1. instances' = instances
      BY <1>5 DEF Work, EnsureDatabaseExists, EnsureFails, ReadPid, Started, StartError,
         StartTimeout, StopUnmanaged, RefuseReused, RefuseNew, NewPool, CheckSIGTERM,
         SendSIGTERM, SeenDead, CheckKill, SendKill, KeepDirs, Confirm, RemoveFiles
    <2>2. QED
      BY <1>2, <2>1
  <1>6. QED
    BY <1>4, <1>5

\* So does a server that its call is about to register,
LEMMA HandByCall ==
  ASSUME Base, NEW t \in Threads, Work(t), NEW n \in Calls, NEW p \in Calls,
         Live(n), server[n].pid = p, Live(n)',
         num[t] = n, pc[t] \in {"starting", "noPid", "register"}
  PROVE  Answered(n, p)'
  <1>1. t \in Procs /\ TypeInv /\ StartsAt(pc[t], server[n], own[t])
    BY CallerOK DEF Base, Starts, Stopping
  <1>2. server[n].state \in {"up", "exiting"} /\ server[n].state # "none"
    BY DEF Live
  <1>3. CASE Started(t)
    BY <1>1, <1>3 DEF Started, Goto, Answered, InHand, TypeInv, TypeOK, ProgramOK
  <1>4. CASE StartError(t)
    BY <1>2, <1>4 DEF StartError
  <1>5. CASE StartTimeout(t)
    BY <1>5 DEF StartTimeout, Answered
  <1>6. CASE StopUnmanaged(t)
    <2>1. server' # [server EXCEPT ![n] = [NoServer EXCEPT !.state = "gone"]]
      BY DEF Live, NoServer, Base, TypeInv, TypeOK, SystemOK
    <2>2. QED
      BY <1>6, <2>1 DEF StopUnmanaged, Answered
  <1>7. CASE Register(t)
    <2>1. own[t].rt # 0 /\ own[t].pid = p /\ Key(t) \in Keys
      BY <1>1, <1>2, <1>7, KeyOK DEF Register, StartsAt
    <2>2. instances'[Key(t)] = own[t]
      BY <1>1, <1>7, <2>1 DEF Register, TypeInv, TypeOK, ProgramOK
    <2>3. QED
      BY <2>1, <2>2 DEF Answered, InHand
  <1>8. CASE RefuseReused(t)
    BY <1>1, <1>2, <1>8 DEF RefuseReused, StartsAt
  <1>9. CASE RefuseNew(t)
    <2>1. own[t].rt # 0 /\ own[t].pid = p
      BY <1>1, <1>2, <1>9 DEF RefuseNew, StartsAt
    <2>2. inst'[t] = own[t] /\ pc'[t] = "term"
      BY <1>1, <1>9 DEF RefuseNew, Goto, TypeInv, TypeOK, ProgramOK
    <2>3. QED
      BY <2>1, <2>2 DEF Answered, InHand
  <1>10. QED
    BY <1>3, <1>4, <1>5, <1>6, <1>7, <1>8, <1>9 DEF Work, EnsureDatabaseExists, EnsureFails,
       ReadPid, NewPool, NewPoolFails, Take, CheckSIGTERM, SendSIGTERM, SeenDead, CheckKill,
       SendKill, KeepDirs, Confirm, RemoveFiles

\* and one that is being stopped, until it is killed or given up.
LEMMA HandByInst ==
  ASSUME Base, NEW t \in Threads, Work(t), NEW n \in Calls, NEW p \in Calls,
         Live(n), server[n].pid = p, inst[t].pid = p,
         pc[t] \in {"term", "signal", "wait", "kill"}
  PROVE  Answered(n, p)'
  <1>1. TypeInv
    BY DEF Base
  <1>2. CASE CheckSIGTERM(t) \/ SendSIGTERM(t) \/ CheckKill(t)
    <2>1. pc'[t] \in {"signal", "wait", "kill"} /\ inst' = inst
      BY <1>1, <1>2 DEF CheckSIGTERM, SendSIGTERM, CheckKill, IsPostgresProcess, Goto,
         locals, TypeInv, TypeOK, ProgramOK
    <2>2. QED
      BY <2>1 DEF Answered, InHand
  <1>3. CASE SeenDead(t)
    BY <1>3 DEF SeenDead, Answered
  <1>4. CASE SendKill(t)
    <2>1. Send("kill", p)
      BY <1>4 DEF SendKill
    <2>2. server[n] \in ServerType
      BY <1>1 DEF TypeInv, TypeOK, SystemOK
    <2>3. server'[n].sig = "kill"
      BY <2>1, <2>2 DEF Send, ServerType
    <2>4. QED
      BY <2>3 DEF Answered
  <1>5. QED
    BY <1>2, <1>3, <1>4 DEF Work, EnsureDatabaseExists, EnsureFails, ReadPid, Started,
       StartError, StartTimeout, StopUnmanaged, Register, RefuseReused, RefuseNew, NewPool,
       NewPoolFails, Take, KeepDirs, Confirm, RemoveFiles

\* A step of a goroutine lets no server go.
LEMMA WorkKeeps ==
  ASSUME Base, Calm, NEW t \in Threads, Work(t), NEW n \in Calls, NEW p \in Calls,
         Live(n), server[n].pid = p, Live(n)', Answered(n, p)
  PROVE  Answered(n, p)'
  <1>1. TypeInv
    BY DEF Base
  <1>2. CASE server[n].sig = "kill"
    BY <1>2 DEF Calm, Answered
  <1>3. CASE n \in lost
    <2>1. CASE Register(t)
      <3>1. n \in lost' \/ own[t].pid = p
        BY <1>3, <2>1 DEF Register
      <3>2. instances'[Key(t)] = own[t] /\ Key(t) \in Keys
        BY <1>1, <2>1, KeyOK DEF Register, TypeInv, TypeOK, ProgramOK
      <3>3. QED
        BY <3>1, <3>2 DEF Answered, InHand
    <2>2. CASE ~Register(t)
      <3>1. lost \subseteq lost'
        BY <2>2 DEF Work, EnsureDatabaseExists, EnsureFails, ReadPid, Started, StartError,
           StartTimeout, StopUnmanaged, RefuseReused, RefuseNew, NewPool, NewPoolFails,
           Take, CheckSIGTERM, SendSIGTERM, SeenDead, CheckKill, SendKill, KeepDirs,
           Confirm, RemoveFiles, history
      <3>2. QED
        BY <1>3, <3>1 DEF Answered
    <2>3. QED
      BY <2>1, <2>2
  <1>4. ASSUME NEW k \in Keys, instances[k].pid = p PROVE Answered(n, p)'
    BY <1>1, <1>4, HandByKey DEF Answered
  <1>5. ASSUME NEW u \in Threads, u # t,
               \/ num[u] = n /\ pc[u] \in {"starting", "noPid", "register"}
               \/ inst[u].pid = p /\ pc[u] \in {"term", "signal", "wait", "kill"}
        PROVE  Answered(n, p)'
    <2>1. pc'[u] = pc[u] /\ num'[u] = num[u] /\ inst'[u] = inst[u]
      BY <1>1, <1>5, WorkOthers DEF Others
    <2>2. QED
      BY <1>5, <2>1 DEF Answered, InHand
  <1>6. CASE num[t] = n /\ pc[t] \in {"starting", "noPid", "register"}
    BY <1>6, HandByCall
  <1>7. CASE inst[t].pid = p /\ pc[t] \in {"term", "signal", "wait", "kill"}
    BY <1>7, HandByInst
  <1>8. QED
    BY <1>2, <1>3, <1>4, <1>5, <1>6, <1>7 DEF Answered, InHand

\* Nor does a new call.
LEMMA CallKeeps ==
  ASSUME Base, Calm, NEW t \in Procs, NEW k \in Keys, Connect(t, k) \/ Close(t, k),
         NEW n \in Calls, NEW p \in Calls, Live(n), Live(n)', Answered(n, p)
  PROVE  Answered(n, p)'
  <1>1. /\ lost' = lost /\ instances' = instances /\ pc[t] = "idle"
        /\ server[n].sig = "kill" => server'[n].sig = "kill"
    BY DEF Connect, Reuse, Prepare, PrepareFails, Close, Arrive, Calm, history
  <1>2. \A u \in Threads \ {t} : pc'[u] = pc[u] /\ num'[u] = num[u] /\ inst'[u] = inst[u]
    BY CallOthers DEF Base, Others
  <1>3. QED
    BY <1>1, <1>2 DEF Answered, InHand

\* Nor does the shutdown.
LEMMA StopAllKeeps ==
  ASSUME TypeInv, StopAll, NEW n \in Calls, NEW p \in Calls, Answered(n, p)
  PROVE  Answered(n, p)'
  <1>1. lost' = lost /\ server' = server /\ num' = num /\ \A k \in Keys : pc[k] = "idle"
    BY DEF StopAll, system, history
  <1>2. ASSUME NEW k \in Keys, instances[k].pid = p PROVE Answered(n, p)'
    <2>1. instances[k] # NoInstance /\ k \in Threads
      BY <1>2, NoInstanceOK, Sets
    <2>2. inst'[k] = instances[k] /\ pc'[k] = "term"
      BY <2>1 DEF StopAll
    <2>3. QED
      BY <1>2, <2>1, <2>2 DEF Answered, InHand
  <1>3. ASSUME NEW u \in Threads, pc[u] # "idle" PROVE pc'[u] = pc[u] /\ inst'[u] = inst[u]
    BY <1>1, <1>3 DEF StopAll
  <1>4. QED
    BY <1>1, <1>2, <1>3 DEF Answered, InHand

\* Only a call begins to start a server.
LEMMA SpawningBefore ==
  ASSUME TypeInv, Steady, TypeInv', calls' = calls, NEW n \in Calls,
         server'[n].state = "spawning"
  PROVE  server[n].state = "spawning"
  <1>1. n <= calls
    <2>1. server'[n] # NoServer
      BY DEF NoServer
    <2>2. QED
      BY <2>1, EmbeddedAssumption DEF TypeInv, CallsOK, TypeOK, HistoryOK, Calls, Ref
  <1>2. QED
    BY <1>1 DEF Steady, Course, Begun

\* A server that is starting has its call waiting, or that gave up.
Awaited(n) == n \in late \/ \E t \in Procs : num[t] = n /\ pc[t] = "starting"

\* A goroutine waits until its server has started, or gives up.
LEMMA WorkAwaits ==
  ASSUME TypeInv, NEW t \in Threads, Work(t), [Next]_vars, NEW n \in Calls,
         server[n].state = "spawning", Awaited(n)
  PROVE  Awaited(n)'
  <1>1. late \subseteq late'
    BY ExceptionsGrow
  <1>2. ASSUME NEW u \in Procs, num[u] = n, pc[u] = "starting" PROVE Awaited(n)'
    <2>1. CASE u # t
      BY <1>2, <2>1, WorkOthers, Sets DEF Others, Awaited
    <2>2. CASE u = t
      <3>1. StartTimeout(t)
        BY <1>2, <2>2 DEF Work, EnsureDatabaseExists, EnsureFails, ReadPid, Started,
           StartError, StopUnmanaged, Register, RefuseReused, RefuseNew, NewPool,
           NewPoolFails, Take, CheckSIGTERM, SendSIGTERM, SeenDead, CheckKill, SendKill,
           KeepDirs, Confirm, RemoveFiles
      <3>2. QED
        BY <1>2, <2>2, <3>1 DEF StartTimeout, Awaited
    <2>3. QED
      BY <2>1, <2>2
  <1>3. QED
    BY <1>1, <1>2 DEF Awaited

\* Every step keeps it awaited.
LEMMA AwaitedStep ==
  ASSUME Base, [Next]_vars, NEW n \in Calls, server'[n].state = "spawning",
         server[n].state = "spawning" => Awaited(n)
  PROVE  Awaited(n)'
  <1>1. TypeInv /\ Steady /\ TypeInv' /\ (n \in late => n \in late')
    BY BaseStep, ExceptionsStay DEF Base
  <1>2. ASSUME NEW t \in Threads, Work(t) PROVE Awaited(n)'
    <2>1. calls' = calls
      BY <1>2 DEF Work, EnsureDatabaseExists, EnsureFails, ReadPid, Started, StartError,
         StartTimeout, StopUnmanaged, Register, RefuseReused, RefuseNew, NewPool,
         NewPoolFails, Take, CheckSIGTERM, SendSIGTERM, SeenDead, CheckKill, SendKill,
         KeepDirs, Confirm, RemoveFiles, bounds
    <2>2. QED
      BY <1>1, <1>2, <2>1, SpawningBefore, WorkAwaits
  <1>3. ASSUME NEW t \in Procs, NEW k \in Keys, Connect(t, k) \/ Close(t, k)
        PROVE  Awaited(n)'
    <2>1. t \in Threads /\ pc[t] = "idle"
      BY <1>3, Sets DEF Connect, Reuse, Prepare, PrepareFails, Close, Arrive
    <2>2. ASSUME server[n].state = "spawning" PROVE Awaited(n)'
      BY <1>1, <1>3, <2>1, <2>2, CallOthers, Sets DEF Others, Awaited
    <2>3. ASSUME NEW d \in Dirs \cup {calls + 1}, Prepare(t, k, d), n = calls + 1
          PROVE  Awaited(n)'
      BY <1>1, <2>1, <2>3 DEF Prepare, Goto, Awaited, TypeInv, TypeOK, ProgramOK
    <2>4. ASSUME NEW d \in Dirs \cup {calls + 1}, Prepare(t, k, d), n # calls + 1
          PROVE  server[n].state = "spawning"
      BY <1>1, <2>4 DEF Prepare, TypeInv, TypeOK, SystemOK
    <2>5. ASSUME NEW d \in Dirs \cup {calls + 1}, Reuse(t, k, d) \/ PrepareFails(t, k, d)
          PROVE  server[n].state = "spawning"
      BY <2>5 DEF Reuse, PrepareFails, system
    <2>6. CASE Close(t, k)
      BY <2>2, <2>6 DEF Close, system
    <2>7. QED
      BY <1>3, <2>2, <2>3, <2>4, <2>5, <2>6 DEF Connect
  <1>4. CASE Crash
    BY <1>4 DEF Crash, NoServer
  <1>5. ASSUME calls' = calls, num' = num, \A t \in Procs : pc'[t] = pc[t]
        PROVE  Awaited(n)'
    BY <1>1, <1>5, SpawningBefore DEF Awaited
  <1>6. CASE Signal \/ Shutdown \/ PidReused \/ UNCHANGED vars
    <2>1. CASE StopAll
      BY <1>5, <2>1, Sets DEF StopAll, bounds, history
    <2>2. CASE Signal \/ ShutdownDone \/ PidReused \/ UNCHANGED vars
      BY <1>5, <2>2 DEF Signal, ShutdownDone, PidReused, bounds, history, locals, vars
    <2>3. QED
      BY <1>6, <2>1, <2>2 DEF Shutdown
  <1>7. ASSUME NEW m \in Calls, Spawn(m) \/ SpawnFails(m) \/ ShutsDown(m) \/ Exits(m)
        PROVE  Awaited(n)'
    BY <1>5, <1>7 DEF Spawn, SpawnFails, ShutsDown, Exits, bounds, locals
  <1>8. QED
    BY <1>2, <1>3, <1>4, <1>6, <1>7 DEF Next, Quiet, Environment, Ends, Dies

\* The signals of a running server's process are kept, and so is whoever has it in hand.
LEMMA RestKeeps ==
  ASSUME Base, Calm, Signal \/ ShutdownDone \/ PidReused \/ UNCHANGED vars
                     \/ \E m \in Calls : SpawnFails(m) \/ ShutsDown(m) \/ Exits(m),
         NEW n \in Calls, NEW p \in Calls, Live(n)', Answered(n, p)
  PROVE  Answered(n, p)'
  <1>1. UNCHANGED <<instances, pc, num, inst>>
    BY DEF Signal, ShutdownDone, PidReused, SpawnFails, ShutsDown, Exits, vars, locals
  <1>2. n \in lost => n \in lost'
    BY Forgotten DEF Base, Live, Signal, ShutdownDone, PidReused, ShutsDown, vars, history
  <1>3. server[n].sig = "kill" => server'[n].sig = "kill"
    BY DEF Calm
  <1>4. QED
    BY <1>1, <1>2, <1>3 DEF Answered, InHand

\* A server that comes up is awaited, or lost.
LEMMA SpawnKeeps ==
  ASSUME Base, Strays, NEW m \in Calls, Spawn(m), NEW n \in Calls, Live(n)'
  PROVE  Answered(n, server[n].pid)'
  <1>1. UNCHANGED <<instances, pc, num, inst, lost>> /\ server[m].state = "spawning"
    BY DEF Spawn, locals, history
  <1>2. CASE n = m
    <2>1. n \in lost \/ \E t \in Threads : num[t] = n /\ pc[t] = "starting"
      BY <1>1, <1>2, Sets DEF Strays
    <2>2. QED
      BY <1>1, <2>1 DEF Answered, InHand
  <1>3. CASE n # m
    <2>1. server'[n] = server[n]
      BY <1>3, SpawnServers DEF Base
    <2>2. Answered(n, server[n].pid)
      BY <2>1 DEF Strays, Live
    <2>3. QED
      BY <1>1, <2>1, <2>2 DEF Answered, InHand
  <1>4. QED
    BY <1>2, <1>3

\* No step lets a server go.
LEMMA StraysStep ==
  ASSUME Base, Strays, [Next]_vars
  PROVE  Strays'
  <1>1. TypeInv /\ Steady /\ (Calm \/ \E n \in Calls : Spawn(n))
    BY BaseStep DEF Base
  <1>2. late' \subseteq lost'
    <2>1. ASSUME NEW t \in Threads, Work(t) PROVE late' \subseteq lost'
      BY <2>1 DEF Strays, Work, EnsureDatabaseExists, EnsureFails, ReadPid, Started,
         StartError, StartTimeout, StopUnmanaged, Register, RefuseReused, RefuseNew,
         NewPool, NewPoolFails, Take, CheckSIGTERM, SendSIGTERM, SeenDead, CheckKill,
         SendKill, KeepDirs, Confirm, RemoveFiles, history, TypeInv, TypeOK, HistoryOK
    <2>2. ASSUME NEW t \in Procs, NEW k \in Keys, Connect(t, k) \/ Close(t, k)
          PROVE  late' \subseteq lost'
      BY <2>2 DEF Strays, Connect, Reuse, Prepare, PrepareFails, Close, history
    <2>3. CASE Signal \/ Shutdown \/ PidReused \/ Crash \/ UNCHANGED vars
      BY <2>3 DEF Strays, Signal, Shutdown, StopAll, ShutdownDone, PidReused, Crash,
         history, vars
    <2>4. ASSUME NEW m \in Calls, Spawn(m) \/ SpawnFails(m) \/ ShutsDown(m) \/ Exits(m)
          PROVE  late' \subseteq lost'
      BY <2>4 DEF Strays, Spawn, SpawnFails, ShutsDown, Exits, Forget, history
    <2>5. QED
      BY <2>1, <2>2, <2>3, <2>4 DEF Next, Quiet, Environment, Ends, Dies
  <1>3. ASSUME NEW n \in Calls, server'[n].state = "spawning" PROVE Awaited(n)'
    BY <1>3, AwaitedStep DEF Strays, Awaited
  <1>4. ASSUME NEW n \in Calls, Live(n)' PROVE Answered(n, server[n].pid)'
    <2>1. ASSUME NEW m \in Calls, Spawn(m) PROVE Answered(n, server[n].pid)'
      BY <1>4, <2>1, SpawnKeeps
    <2>2. CASE Calm
      <3>1. PICK p \in Calls : /\ server[n].pid = p /\ server'[n].pid = p
                               /\ Live(n) /\ Answered(n, p)
        <4>1. Live(n) /\ server'[n].pid = server[n].pid /\ Answered(n, server[n].pid)
          BY <1>4, <2>2 DEF Calm, Strays
        <4>2. server[n].pid \in Ref /\ server[n].pid # 0
          BY <4>1 DEF Base, PidFiles, TypeInv, TypeOK, SystemOK, ServerType
        <4>3. server[n].pid \in Calls
          BY <4>2, EmbeddedAssumption DEF Calls, Ref
        <4>4. QED
          BY <4>1, <4>3
      <3>2. Answered(n, p)'
        <4>1. ASSUME NEW t \in Threads, Work(t) PROVE Answered(n, p)'
          BY <1>4, <2>2, <3>1, <4>1, WorkKeeps
        <4>2. ASSUME NEW t \in Procs, NEW k \in Keys, Connect(t, k) \/ Close(t, k)
              PROVE  Answered(n, p)'
          BY <1>4, <2>2, <3>1, <4>2, CallKeeps
        <4>3. CASE StopAll
          BY <1>1, <3>1, <4>3, StopAllKeeps
        <4>4. CASE Crash
          BY <3>1, <4>4 DEF Crash, Answered
        <4>5. CASE \/ Signal \/ ShutdownDone \/ PidReused \/ UNCHANGED vars
                   \/ \E m \in Calls : SpawnFails(m) \/ ShutsDown(m) \/ Exits(m)
          BY <1>4, <2>2, <3>1, <4>5, RestKeeps
        <4>6. ASSUME NEW m \in Calls, Spawn(m) PROVE Answered(n, p)'
          BY <2>1, <3>1, <4>6 DEF Answered, InHand
        <4>7. QED
          BY <4>1, <4>2, <4>3, <4>4, <4>5, <4>6 DEF Next, Quiet, Environment, Shutdown,
             Ends, Dies
      <3>3. QED
        BY <3>1, <3>2 DEF Answered, InHand
    <2>3. QED
      BY <1>1, <2>1, <2>2
  <1>5. QED
    BY <1>2, <1>3, <1>4 DEF Strays, Awaited

\* Every server that runs is registered under a key, or a goroutine is about to register
\* or to stop it, or it was killed, except those that a timeout, a failed stop or a crash
\* leaves behind.
THEOREM NoStrays == Spec => []NoStrayServer
  <1> DEFINE Inv == Base /\ Strays
  <1>1. Init => Inv
    <2>1. Init => \A n \in Calls : server[n].state = "none"
      BY DEF Init, NoServer
    <2>2. Init => Strays
      BY <2>1 DEF Init, Strays, Live
    <2>3. QED
      BY <2>2, InitBase
  <1>2. Inv /\ [Next]_vars => Inv'
    BY BaseStep, StraysStep
  <1>3. Inv => NoStrayServer
    BY DEF Strays, Answered, InHand, NoStrayServer, Attends
  <1>4. QED
    BY <1>1, <1>2, <1>3, PTL DEF Spec

(***************************************************************************)
(* Nothing is left behind.                                                 *)
(***************************************************************************)
\* An instance in W of key k is registered, about to be registered, or being stopped.
HeldFor(k, W) ==
    \/ k \in left
    \/ instances[k] \in W
    \/ \E t \in Threads :
         Key(t) = k /\ own[t] \in W /\ pc[t] \in {"starting", "noPid", "register"}
    \/ \E t \in Threads : Key(t) = k /\ inst[t] \in W /\ pc[t] \in Stopping

\* Instances with a runtime directory, and those with call n's data directory.
Runtime  == {i \in Instance : i.rt # 0}
TempOf(n) == {i \in Instance : i.rt # 0 /\ i.dir = n}

\* Such a set of instances, whatever their pids are.
Wanted(W) ==
    /\ W \subseteq Runtime
    /\ \A i \in W, p \in Ref : [i EXCEPT !.pid = p] \in W

Residue ==
    /\ \A k \in runtimes : HeldFor(k, Runtime)
    /\ \A n \in temps : HeldFor(keyOf[n], TempOf(n))
    /\ \A n \in Calls : server[n].state = "spawning" =>
         keyOf[n] \in left \/ \E t \in Procs : num[t] = n /\ pc[t] = "starting"

\* Both are such sets.
LEMMA WantedSets == Wanted(Runtime) /\ \A n \in Calls : Wanted(TempOf(n))
  <1>1. ASSUME NEW i \in Runtime, NEW p \in Ref
        PROVE  [i EXCEPT !.pid = p] \in Runtime /\ [i EXCEPT !.pid = p].dir = i.dir
    <2>1. i \in Instance /\ i.rt # 0 /\ i.dir \in Paths /\ i.rt \in Ref
      BY InstanceParts DEF Runtime
    <2>2. [i EXCEPT !.pid = p] = [pid |-> p, dir |-> i.dir, rt |-> i.rt]
      BY <2>1, InstanceParts
    <2>3. [pid |-> p, dir |-> i.dir, rt |-> i.rt] \in Instance
      BY <2>1, InstanceOK
    <2>4. QED
      BY <2>1, <2>2, <2>3 DEF Runtime
  <1>2. \A n \in Calls : TempOf(n) \subseteq Runtime /\ \A i \in TempOf(n) : i.dir = n
    BY DEF TempOf, Runtime
  <1>3. ASSUME NEW n \in Calls, NEW i \in TempOf(n), NEW p \in Ref
        PROVE  [i EXCEPT !.pid = p] \in TempOf(n)
    <2>1. i \in Runtime /\ i.dir = n
      BY <1>2, <1>3
    <2>2. [i EXCEPT !.pid = p] \in Runtime /\ [i EXCEPT !.pid = p].dir = n
      BY <1>1, <1>3, <2>1
    <2>3. QED
      BY <2>2 DEF TempOf, Runtime
  <1>4. QED
    BY <1>1, <1>2, <1>3 DEF Wanted

\* The keys of goroutines at work.
LEMMA WorkKeys ==
  ASSUME TypeInv, NEW t \in Threads, Work(t)
  PROVE  /\ keyOf' = keyOf
         /\ \A u \in Threads \ {t} : Key(u)' = Key(u)
         /\ num'[t] = num[t] => Key(t)' = Key(t)
         /\ runtimes' \subseteq runtimes /\ temps' \subseteq temps
  <1>1. keyOf' = keyOf
    BY DEF Work, EnsureDatabaseExists, EnsureFails, ReadPid, Started, StartError,
       StartTimeout, StopUnmanaged, Register, RefuseReused, RefuseNew, NewPool,
       NewPoolFails, Take, CheckSIGTERM, SendSIGTERM, SeenDead, CheckKill, SendKill,
       KeepDirs, Confirm, RemoveFiles, bounds
  <1>2. runtimes' \subseteq runtimes /\ temps' \subseteq temps
    BY DEF Work, EnsureDatabaseExists, EnsureFails, ReadPid, Started, StartError,
       StartTimeout, StopUnmanaged, Register, RefuseReused, RefuseNew, NewPool,
       NewPoolFails, Take, CheckSIGTERM, SendSIGTERM, SeenDead, CheckKill, SendKill,
       KeepDirs, Confirm, RemoveFiles, RemoveDirs, files
  <1>3. QED
    BY <1>1, <1>2, WorkOthers DEF Others, Key

\* A step of a goroutine lets go of what it removes, and of nothing else.
LEMMA WorkHolds ==
  ASSUME TypeInv, NEW t \in Threads, Work(t), NEW W, Wanted(W), NEW k \in Keys,
         HeldFor(k, W)
  PROVE  \/ HeldFor(k, W)'
         \/ RemoveDirs(t) /\ Key(t) = k /\ own[t] \in W
         \/ RemoveFiles(t) /\ Key(t) = k /\ inst[t] \in W
  <1>1. \A i \in W : i \in Instance /\ i.rt # 0
    BY DEF Wanted, Runtime
  <1>2. NoInstance \notin W
    BY <1>1, NoInstanceOK
  <1>3. left \subseteq left'
    BY DEF Work, EnsureDatabaseExists, EnsureFails, ReadPid, Started, StartError,
       StartTimeout, StopUnmanaged, Register, RefuseReused, RefuseNew, NewPool,
       NewPoolFails, Take, CheckSIGTERM, SendSIGTERM, SeenDead, CheckKill, SendKill,
       KeepDirs, Confirm, RemoveFiles, history
  <1>4. ASSUME NEW i \in W, Key(t) = k, inst'[t] = i, pc'[t] \in Stopping, num'[t] = num[t]
        PROVE  HeldFor(k, W)'
    BY <1>4, WorkKeys DEF HeldFor
  <1>5. CASE instances[k] \in W
    <2>1. CASE (Register(t) \/ NewPoolFails(t) \/ Take(t)) /\ k = Key(t)
      <3>1. instances[k] # NoInstance
        BY <1>2, <1>5
      <3>2. \/ instances'[k] = instances[k]
            \/ inst'[t] = instances[k] /\ pc'[t] = "term" /\ num'[t] = num[t]
        BY <2>1, <3>1 DEF Register, NewPoolFails, Take, Goto, TypeInv, TypeOK, ProgramOK
      <3>3. QED
        BY <1>4, <1>5, <2>1, <3>2 DEF HeldFor, Stopping
    <2>2. CASE ~((Register(t) \/ NewPoolFails(t) \/ Take(t)) /\ k = Key(t))
      <3>1. instances'[k] = instances[k]
        BY <2>2 DEF Work, EnsureDatabaseExists, EnsureFails, ReadPid, Started, StartError,
           StartTimeout, StopUnmanaged, Register, RefuseReused, RefuseNew, NewPool,
           NewPoolFails, Take, CheckSIGTERM, SendSIGTERM, SeenDead, CheckKill, SendKill,
           KeepDirs, Confirm, RemoveFiles, TypeInv, TypeOK, ProgramOK
      <3>2. QED
        BY <1>5, <3>1 DEF HeldFor
    <2>3. QED
      BY <2>1, <2>2
  <1>6. CASE Key(t) = k /\ own[t] \in W /\ pc[t] \in {"starting", "noPid", "register"}
    <2>1. CASE Started(t)
      <3>1. own[t].dir \in Paths
        BY <1>1, <1>6, InstanceParts
      <3>2. FilePid(own[t].dir) \in Ref
        BY <3>1 DEF FilePid, TypeInv, TypeOK, SystemOK
      <3>3. own'[t] \in W /\ num'[t] = num[t] /\ pc'[t] \in {"noPid", "register"}
        BY <1>6, <2>1, <3>2 DEF Started, Goto, Wanted, TypeInv, TypeOK, ProgramOK
      <3>4. QED
        BY <1>6, <3>3, WorkKeys DEF HeldFor
    <2>2. CASE StartError(t) \/ StartTimeout(t) \/ StopUnmanaged(t)
      BY <1>6, <2>2 DEF StartError, StartTimeout, StopUnmanaged
    <2>3. CASE Register(t)
      BY <1>6, <2>3 DEF Register, HeldFor, TypeInv, TypeOK, ProgramOK
    <2>4. CASE RefuseNew(t)
      <3>1. inst'[t] = own[t] /\ pc'[t] = "term" /\ num'[t] = num[t]
        BY <2>4 DEF RefuseNew, Goto, TypeInv, TypeOK, ProgramOK
      <3>2. QED
        BY <1>4, <1>6, <3>1 DEF Stopping
    <2>5. QED
      BY <1>1, <1>6, <2>1, <2>2, <2>3, <2>4 DEF Work, EnsureDatabaseExists, EnsureFails,
         ReadPid, RefuseReused, NewPool, NewPoolFails, Take, CheckSIGTERM, SendSIGTERM,
         SeenDead, CheckKill, SendKill, KeepDirs, Confirm, RemoveFiles
  <1>7. CASE Key(t) = k /\ inst[t] \in W /\ pc[t] \in Stopping
    <2>1. CASE CheckSIGTERM(t) \/ SendSIGTERM(t) \/ SeenDead(t) \/ CheckKill(t)
             \/ SendKill(t) \/ Confirm(t)
      <3>1. inst'[t] = inst[t] /\ pc'[t] \in Stopping /\ num'[t] = num[t]
        BY <2>1 DEF CheckSIGTERM, SendSIGTERM, SeenDead, CheckKill, SendKill, Confirm, Goto,
           Stopping, locals, TypeInv, TypeOK, ProgramOK
      <3>2. QED
        BY <1>4, <1>7, <3>1
    <2>2. CASE KeepDirs(t)
      BY <1>7, <2>2 DEF KeepDirs, HeldFor
    <2>3. CASE RemoveFiles(t)
      BY <1>7, <2>3
    <2>4. QED
      BY <1>7, <2>1, <2>2, <2>3 DEF Stopping, Work, EnsureDatabaseExists, EnsureFails,
         ReadPid, Started, StartError, StartTimeout, StopUnmanaged, Register, RefuseReused,
         RefuseNew, NewPool, NewPoolFails, Take
  <1>8. ASSUME NEW u \in Threads \ {t}, Key(u) = k,
               \/ own[u] \in W /\ pc[u] \in {"starting", "noPid", "register"}
               \/ inst[u] \in W /\ pc[u] \in Stopping
        PROVE  HeldFor(k, W)'
    BY <1>8, WorkOthers, WorkKeys DEF Others, HeldFor
  <1>9. QED
    BY <1>3, <1>5, <1>6, <1>7, <1>8 DEF HeldFor

\* So directories stay in hand when a goroutine works,
LEMMA WorkResidue ==
  ASSUME Base, Residue, NEW t \in Threads, Work(t)
  PROVE  Residue'
  <1>1. TypeInv /\ Steady /\ TypeInv' /\ [Next]_vars
    BY BaseStep DEF Base, Next
  <1>2. keyOf' = keyOf /\ runtimes' \subseteq runtimes /\ temps' \subseteq temps
    BY <1>1, WorkKeys
  <1>3. runtimes \subseteq Keys /\ temps \subseteq Calls
    BY <1>1 DEF TypeInv, TypeOK, SystemOK
  <1>4. \A n \in temps : keyOf[n] \in Keys
    BY <1>1, <1>3, EmbeddedAssumption DEF TypeInv, CallsOK, TypeOK, HistoryOK, Calls, Ref
  <1>5. ASSUME NEW k \in runtimes' PROVE HeldFor(k, Runtime)'
    <2>1. \/ HeldFor(k, Runtime)'
          \/ RemoveDirs(t) /\ Key(t) = k
          \/ RemoveFiles(t) /\ Key(t) = k /\ inst[t] \in Runtime
      BY <1>1, <1>2, <1>3, WantedSets, WorkHolds DEF Residue
    <2>2. ~(RemoveDirs(t) /\ Key(t) = k)
      BY <1>5 DEF RemoveDirs
    <2>3. ~(RemoveFiles(t) /\ Key(t) = k /\ inst[t] \in Runtime)
      BY <1>5 DEF RemoveFiles, Runtime
    <2>4. QED
      BY <2>1, <2>2, <2>3
  <1>6. ASSUME NEW n \in temps' PROVE HeldFor(keyOf[n], TempOf(n))'
    <2>1. \/ HeldFor(keyOf[n], TempOf(n))'
          \/ RemoveDirs(t) /\ own[t] \in TempOf(n)
          \/ RemoveFiles(t) /\ inst[t] \in TempOf(n)
      <3>1. PICK k \in Keys : /\ k = keyOf[n] /\ k = keyOf'[n]
                              /\ HeldFor(k, TempOf(n)) /\ Wanted(TempOf(n))
        BY <1>2, <1>3, <1>4, WantedSets DEF Residue
      <3>2. \/ HeldFor(k, TempOf(n))'
            \/ RemoveDirs(t) /\ Key(t) = k /\ own[t] \in TempOf(n)
            \/ RemoveFiles(t) /\ Key(t) = k /\ inst[t] \in TempOf(n)
        BY <1>1, <3>1, WorkHolds
      <3>3. HeldFor(k, TempOf(n))' => HeldFor(keyOf[n], TempOf(n))'
        BY <3>1 DEF HeldFor
      <3>4. QED
        BY <3>2, <3>3
    <2>2. ~(RemoveDirs(t) /\ own[t] \in TempOf(n))
      BY <1>6 DEF RemoveDirs, TempOf
    <2>3. ~(RemoveFiles(t) /\ inst[t] \in TempOf(n))
      BY <1>6 DEF RemoveFiles, TempOf
    <2>4. QED
      BY <2>1, <2>2, <2>3
  <1>7. ASSUME NEW n \in Calls, server'[n].state = "spawning"
        PROVE  keyOf'[n] \in left' \/ \E u \in Procs : num'[u] = n /\ pc'[u] = "starting"
    <2>1. calls' = calls /\ left \subseteq left'
      BY DEF Work, EnsureDatabaseExists, EnsureFails, ReadPid, Started, StartError,
         StartTimeout, StopUnmanaged, Register, RefuseReused, RefuseNew, NewPool,
         NewPoolFails, Take, CheckSIGTERM, SendSIGTERM, SeenDead, CheckKill, SendKill,
         KeepDirs, Confirm, RemoveFiles, bounds, history
    <2>2. server[n].state = "spawning"
      BY <1>1, <1>7, <2>1, SpawningBefore
    <2>3. CASE keyOf[n] \in left
      BY <1>2, <2>1, <2>3
    <2>4. ASSUME NEW u \in Procs, num[u] = n, pc[u] = "starting"
          PROVE  keyOf[n] \in left' \/ (num'[u] = n /\ pc'[u] = "starting")
      <3>1. CASE u # t
        BY <1>1, <2>4, <3>1, WorkOthers, Sets DEF Others
      <3>2. CASE u = t
        <4>1. StartTimeout(t)
          BY <2>2, <2>4, <3>2 DEF Work, EnsureDatabaseExists, EnsureFails, ReadPid, Started,
             StartError, StopUnmanaged, Register, RefuseReused, RefuseNew, NewPool,
             NewPoolFails, Take, CheckSIGTERM, SendSIGTERM, SeenDead, CheckKill, SendKill,
             KeepDirs, Confirm, RemoveFiles
        <4>2. Key(t) = keyOf[n]
          BY <2>4, <3>2, Sets DEF Key
        <4>3. QED
          BY <4>1, <4>2 DEF StartTimeout
      <3>3. QED
        BY <3>1, <3>2
    <2>5. QED
      BY <1>2, <2>2, <2>3, <2>4 DEF Residue
  <1>8. QED
    BY <1>2, <1>5, <1>6, <1>7 DEF Residue

\* The keys of the calls that are made already.
LEMMA CallKeys ==
  ASSUME TypeInv, NEW t \in Procs, NEW k \in Keys, Connect(t, k) \/ Close(t, k)
  PROVE  /\ pc[t] = "idle" /\ t \in Threads
         /\ calls + 1 \in Calls /\ keyOf'[calls + 1] = k
         /\ \A n \in Calls : n # calls + 1 => keyOf'[n] = keyOf[n]
         /\ \A u \in Threads : pc[u] # "idle" => u # t /\ Key(u)' = Key(u)
                          /\ (u \in Procs => num[u] # calls + 1)
  <1>1. Arrive(t, k)
    BY DEF Connect, Reuse, Prepare, PrepareFails, Close
  <1>2. /\ pc[t] = "idle" /\ t \in Threads /\ calls \in Nat /\ calls + 1 \in Calls
        /\ keyOf' = [keyOf EXCEPT ![calls + 1] = k]
    BY <1>1, ArriveOK DEF Arrive
  <1>3. keyOf'[calls + 1] = k /\ \A n \in Calls : n # calls + 1 => keyOf'[n] = keyOf[n]
    BY <1>2 DEF TypeInv, TypeOK, HistoryOK
  <1>4. ASSUME NEW u \in Threads, pc[u] # "idle" PROVE u # t /\ Key(u)' = Key(u)
                          /\ (u \in Procs => num[u] # calls + 1)
    <2>1. u # t
      BY <1>2, <1>4
    <2>2. num'[u] = num[u]
      BY <2>1, CallOthers DEF Others
    <2>3. CASE u \in Keys
      <3>1. Key(u)' = Key(u)
        BY <2>3 DEF Key
      <3>2. QED
        BY <2>1, <2>3, <3>1, Sets
    <2>4. CASE u \in Procs
      <3>1. num[u] \in Calls /\ num[u] <= calls
        BY <1>4, <2>4 DEF TypeInv, PointsOK
      <3>2. num[u] # calls + 1
        BY <1>2, <3>1, Sets
      <3>3. QED
        BY <1>3, <2>1, <2>2, <3>1, <3>2 DEF Key
    <2>5. QED
      BY <2>3, <2>4, Sets
  <1>5. QED
    BY <1>2, <1>3, <1>4

\* A new call takes nothing out of anybody's hands,
LEMMA CallHolds ==
  ASSUME TypeInv, NEW t \in Procs, NEW k \in Keys, Connect(t, k) \/ Close(t, k),
         NEW W, NEW j \in Keys, HeldFor(j, W)
  PROVE  HeldFor(j, W)'
  <1>1. UNCHANGED <<left, instances>>
    BY DEF Connect, Reuse, Prepare, PrepareFails, Close, history
  <1>2. ASSUME NEW u \in Threads, pc[u] # "idle"
        PROVE  /\ Key(u)' = Key(u)
               /\ pc'[u] = pc[u] /\ own'[u] = own[u] /\ inst'[u] = inst[u]
    BY <1>2, CallKeys, CallOthers DEF Others
  <1>3. QED
    BY <1>1, <1>2 DEF HeldFor, Stopping

\* and has its own directories in hand.
LEMMA CallResidue ==
  ASSUME Base, Residue, NEW t \in Procs, NEW k \in Keys, Connect(t, k) \/ Close(t, k)
  PROVE  Residue'
  <1>1. /\ TypeInv /\ pc[t] = "idle" /\ t \in Threads /\ t \notin Keys
        /\ calls + 1 \in Calls /\ keyOf'[calls + 1] = k
        /\ \A n \in Calls : n # calls + 1 => keyOf'[n] = keyOf[n]
    BY CallKeys, Sets DEF Base
  <1>2. server[calls + 1] = NoServer /\ calls + 1 \notin temps
    <2>1. calls + 1 > calls
      BY <1>1, EmbeddedAssumption DEF TypeInv, TypeOK, HistoryOK, Ref
    <2>2. QED
      BY <1>1, <2>1 DEF TypeInv, CallsOK
  <1>3. runtimes \subseteq Keys /\ temps \subseteq Calls
    BY <1>1 DEF TypeInv, TypeOK, SystemOK
  <1>4. \A j \in runtimes : HeldFor(j, Runtime)'
    BY <1>1, <1>3, CallHolds DEF Residue
  <1>5. ASSUME NEW n \in temps PROVE HeldFor(keyOf[n], TempOf(n))'
    <2>1. PICK j \in Keys : j = keyOf[n] /\ HeldFor(j, TempOf(n))
      BY <1>1, <1>3, EmbeddedAssumption DEF Residue, TypeInv, CallsOK, TypeOK, HistoryOK,
         Calls, Ref
    <2>2. HeldFor(j, TempOf(n))' /\ keyOf'[n] = j
      BY <1>1, <1>2, <1>3, <2>1, CallHolds
    <2>3. QED
      BY <2>2 DEF HeldFor
  <1>6. ASSUME NEW n \in Calls, server[n].state = "spawning"
        PROVE  keyOf'[n] \in left' \/ \E u \in Procs : num'[u] = n /\ pc'[u] = "starting"
    <2>1. n # calls + 1
      BY <1>2, <1>6 DEF NoServer
    <2>2. left' = left
      BY DEF Connect, Reuse, Prepare, PrepareFails, Close, history
    <2>3. \A u \in Procs : pc[u] # "idle" => num'[u] = num[u] /\ pc'[u] = pc[u]
      BY <1>1, CallOthers, Sets DEF Others
    <2>4. QED
      BY <1>1, <1>6, <2>1, <2>2, <2>3 DEF Residue
  <1>7. ASSUME NEW d \in Dirs \cup {calls + 1}, Prepare(t, k, d)
        PROVE  Residue'
    <2> DEFINE o == [pid |-> 0, dir |-> d, rt |-> calls + 1]
    <2>1. /\ pc'[t] = "starting" /\ num'[t] = calls + 1 /\ own'[t] = o
          /\ runtimes' = runtimes \cup {k} /\ temps' = temps \cup ({d} \cap Calls)
      BY <1>1, <1>7 DEF Prepare, Goto, TypeInv, TypeOK, ProgramOK
    <2>2. calls + 1 \in Ref /\ calls + 1 # 0 /\ d \in Paths
      BY <1>1, Sets
    <2>3. o \in Instance /\ o.rt # 0 /\ o.dir = d
      BY <2>2, Sets, InstanceOK
    <2>4. Key(t)' = k
      BY <1>1, <2>1 DEF Key
    <2>5. HeldFor(k, Runtime)'
      BY <1>1, <2>1, <2>3, <2>4 DEF HeldFor, Runtime
    <2>6. \A n \in temps' \ temps : n = calls + 1 /\ n = d
      BY <1>1, <2>1, Sets
    <2>7. ASSUME NEW n \in temps' \ temps PROVE HeldFor(keyOf[n], TempOf(n))'
      <3>1. keyOf'[n] = k /\ o \in TempOf(n)
        BY <1>1, <2>3, <2>6 DEF TempOf
      <3>2. QED
        BY <1>1, <2>1, <2>4, <3>1 DEF HeldFor
    <2>8. \A n \in Calls : server'[n].state = "spawning" =>
            n = calls + 1 \/ server[n].state = "spawning"
      BY <1>1, <1>7 DEF Prepare, TypeInv, TypeOK, SystemOK
    <2> HIDE DEF o
    <2>9. QED
      BY <1>4, <1>5, <1>6, <2>1, <2>5, <2>7, <2>8 DEF Residue
  <1>8. ASSUME NEW d \in Dirs \cup {calls + 1}, Reuse(t, k, d) \/ PrepareFails(t, k, d)
        PROVE  Residue'
    <2>1. UNCHANGED <<server, temps>> /\ runtimes' \subseteq runtimes
      BY <1>8 DEF Reuse, PrepareFails, system, files
    <2>2. QED
      BY <1>4, <1>5, <1>6, <2>1 DEF Residue
  <1>9. CASE Close(t, k)
    <2>1. UNCHANGED <<server, temps, runtimes>>
      BY <1>9 DEF Close, system, files
    <2>2. QED
      BY <1>4, <1>5, <1>6, <2>1 DEF Residue
  <1>10. QED
    BY <1>7, <1>8, <1>9 DEF Connect

\* Steps of the system leave the goroutines alone.
LEMMA RestHolds ==
  ASSUME UNCHANGED <<instances, pc, num, own, inst, left, keyOf>>
  PROVE  \A j, W : HeldFor(j, W)' <=> HeldFor(j, W)
  <1>1. \A t \in Threads : Key(t)' = Key(t)
    BY DEF Key
  <1>2. QED
    BY <1>1 DEF HeldFor

\* The directories that Start makes are those of a call that waits, or gave up.
LEMMA SpawnResidue ==
  ASSUME Base, Residue, NEW m \in Calls, Spawn(m) \/ SpawnFails(m)
  PROVE  Residue'
  <1>1. UNCHANGED <<instances, pc, num, own, inst, left, keyOf>> /\ server[m].state = "spawning"
        /\ MakeDirs(m)
    BY DEF Spawn, SpawnFails, locals, history
  <1>2. TypeInv /\ Starts
    BY DEF Base
  <1>3. \A j, W : HeldFor(j, W)' <=> HeldFor(j, W)
    BY <1>1, RestHolds
  <1>4. \A n \in Calls : server'[n].state = "spawning" => server[n].state = "spawning"
    BY <1>1, <1>2 DEF Spawn, SpawnFails, NoServer, TypeInv, TypeOK, SystemOK
  <1>5. HeldFor(keyOf[m], Runtime) /\ (server[m].dir = m => HeldFor(keyOf[m], TempOf(m)))
    <2>1. CASE keyOf[m] \in left
      BY <2>1 DEF HeldFor
    <2>2. ASSUME NEW t \in Procs, num[t] = m, pc[t] = "starting"
          PROVE  HeldFor(keyOf[m], Runtime) /\ (server[m].dir = m => HeldFor(keyOf[m], TempOf(m)))
      <3>1. t \in Threads /\ t \notin Keys /\ Key(t) = keyOf[m]
        BY <2>2, Sets DEF Key
      <3>2. own[t] \in Runtime
        BY <1>2, <2>2, <3>1, LocalOK, Sets DEF OwnAt, Runtime
      <3>3. own[t].dir = server[m].dir
        BY <1>1, <1>2, <2>2 DEF Starts, StartsAt
      <3>4. server[m].dir = m => own[t] \in TempOf(m)
        BY <3>2, <3>3 DEF TempOf, Runtime
      <3>5. QED
        BY <2>2, <3>1, <3>2, <3>4 DEF HeldFor
    <2>3. QED
      BY <1>1, <2>1, <2>2 DEF Residue
  <1>6. ASSUME NEW k \in runtimes' PROVE HeldFor(k, Runtime)
    BY <1>1, <1>5, <1>6 DEF MakeDirs, Residue
  <1>7. ASSUME NEW n \in temps' PROVE HeldFor(keyOf[n], TempOf(n))
    <2>1. n \in temps \/ (n = m /\ server[m].dir = m)
      BY <1>1, <1>2, <1>7 DEF MakeDirs, TypeInv, CallsOK
    <2>2. QED
      BY <1>5, <2>1 DEF Residue
  <1>8. \A k \in runtimes' : HeldFor(k, Runtime)'
    BY <1>3, <1>6
  <1>9. ASSUME NEW n \in temps' PROVE HeldFor(keyOf[n], TempOf(n))'
    <2>1. PICK j : j = keyOf[n] /\ j = keyOf'[n] /\ HeldFor(j, TempOf(n))'
      BY <1>1, <1>3, <1>7, <1>9
    <2>2. QED
      BY <2>1 DEF HeldFor
  <1>10. QED
    BY <1>1, <1>4, <1>8, <1>9 DEF Residue

\* Every step keeps directories in hand.
LEMMA ResidueStep ==
  ASSUME Base, Residue, [Next]_vars
  PROVE  Residue'
  <1>1. TypeInv /\ TypeInv' /\ Steady /\ runtimes \subseteq Keys /\ temps \subseteq Calls
    BY BaseStep DEF Base, TypeInv, TypeOK, SystemOK
  <1>2. CASE Crash
    BY <1>2 DEF Crash, files, Residue, HeldFor, NoServer
  <1>3. CASE StopAll
    <2>1. /\ UNCHANGED <<num, own, left, keyOf, server, runtimes, temps>>
          /\ \A k \in Keys : pc[k] = "idle"
          /\ \A t \in Threads : pc[t] # "idle" => pc'[t] = pc[t] /\ inst'[t] = inst[t]
          /\ \A t \in Threads : Key(t)' = Key(t)
      BY <1>3 DEF StopAll, bounds, history, system, files, Key
    <2>2. ASSUME NEW k \in Keys, NEW W, NoInstance \notin W, HeldFor(k, W)
          PROVE  HeldFor(k, W)'
      <3>1. ASSUME instances[k] \in W PROVE HeldFor(k, W)'
        <4>1. k \in Threads /\ inst'[k] = instances[k] /\ pc'[k] = "term" /\ Key(k)' = k
          BY <1>3, <2>2, <3>1, Sets DEF StopAll, Key
        <4>2. QED
          BY <3>1, <4>1 DEF HeldFor, Stopping
      <3>2. QED
        BY <2>1, <2>2, <3>1 DEF HeldFor, Stopping
    <2>3. NoInstance \notin Runtime /\ \A n \in Calls : NoInstance \notin TempOf(n)
      BY NoInstanceOK DEF Runtime, TempOf
    <2>4. \A k \in runtimes' : HeldFor(k, Runtime)'
      BY <1>1, <2>1, <2>2, <2>3 DEF Residue
    <2>5. ASSUME NEW n \in temps' PROVE HeldFor(keyOf[n], TempOf(n))'
      <3>1. n \in temps /\ keyOf[n] \in Keys
        <4>1. n \in temps
          BY <2>1
        <4>2. QED
          BY <1>1, <4>1, EmbeddedAssumption DEF TypeInv, CallsOK, TypeOK, HistoryOK, Calls,
             Ref
      <3>2. PICK k \in Keys : k = keyOf[n] /\ k = keyOf'[n] /\ HeldFor(k, TempOf(n))
        BY <2>1, <3>1 DEF Residue
      <3>3. HeldFor(k, TempOf(n))'
        BY <1>1, <2>2, <2>3, <3>1, <3>2
      <3>4. QED
        BY <3>2, <3>3 DEF HeldFor
    <2>6. \A t \in Procs : pc'[t] = pc[t]
      BY <1>3, Sets DEF StopAll
    <2>7. QED
      BY <2>1, <2>4, <2>5, <2>6 DEF Residue
  <1>4. ASSUME UNCHANGED <<instances, pc, num, own, inst, left, keyOf, runtimes, temps>>,
               \A n \in Calls : server'[n].state = "spawning" => server[n].state = "spawning"
        PROVE  Residue'
    <2>1. \A j, W : HeldFor(j, W)' <=> HeldFor(j, W)
      BY <1>4, RestHolds
    <2>2. ASSUME NEW n \in temps' PROVE HeldFor(keyOf[n], TempOf(n))'
      <3>1. PICK j : j = keyOf[n] /\ j = keyOf'[n] /\ HeldFor(j, TempOf(n))'
        BY <1>4, <2>1 DEF Residue
      <3>2. QED
        BY <3>1 DEF HeldFor
    <2>3. QED
      BY <1>4, <2>1, <2>2 DEF Residue
  <1>5. CASE Signal \/ ShutdownDone \/ PidReused \/ UNCHANGED vars
    BY <1>4, <1>5 DEF Signal, ShutdownDone, PidReused, system, files, locals, bounds,
       history, vars
  <1>6. ASSUME NEW n \in Calls, ShutsDown(n) \/ Exits(n) PROVE Residue'
    <2>1. /\ UNCHANGED <<instances, pc, num, own, inst, left, keyOf, runtimes, temps>>
          /\ \E s : /\ server' = [server EXCEPT ![n] = s]
                     /\ s.state # "spawning"
      <3>1. CASE ShutsDown(n)
        <4>1. server[n] \in ServerType
          BY <1>1 DEF TypeInv, TypeOK, SystemOK
        <4>2. [server[n] EXCEPT !.state = "exiting"].state = "exiting"
          BY <4>1 DEF ServerType
        <4>3. server' = [server EXCEPT ![n] = [server[n] EXCEPT !.state = "exiting"]]
          BY <3>1 DEF ShutsDown
        <4>4. QED
          BY <3>1, <4>2, <4>3 DEF ShutsDown, files, locals, bounds, history
      <3>2. CASE Exits(n)
        <4>1. [NoServer EXCEPT !.state = "gone"].state = "gone"
          BY DEF NoServer
        <4>2. server' = [server EXCEPT ![n] = [NoServer EXCEPT !.state = "gone"]]
          BY <3>2 DEF Exits
        <4>3. UNCHANGED <<instances, pc, num, own, inst, left, keyOf, runtimes, temps>>
          BY <3>2 DEF Exits, files, locals, history
        <4>4. QED
          BY <4>1, <4>2, <4>3
      <3>3. QED
        BY <1>6, <3>1, <3>2
    <2>2. \A m \in Calls : server'[m].state = "spawning" => server[m].state = "spawning"
      BY <1>1, <2>1 DEF TypeInv, TypeOK, SystemOK
    <2>3. QED
      BY <1>4, <2>1, <2>2
  <1>7. QED
    BY <1>2, <1>3, <1>5, <1>6, WorkResidue, CallResidue, SpawnResidue
       DEF Next, Quiet, Environment, Shutdown, Ends, Dies

\* When nobody works on a key and no server is registered under it, its directories are
\* gone: there is always a goroutine or an instance that answers for them, but for
\* those that a timeout, a process that does not die or a crash leaves behind.
THEOREM LeavesNoResidue == Spec => []NoResidue
  <1> DEFINE Inv == Base /\ Residue
  <1>1. Init => Inv
    <2>1. Init => \A n \in Calls : server[n].state = "none"
      BY DEF Init, NoServer
    <2>2. Init => Residue
      BY <2>1 DEF Init, Residue
    <2>3. QED
      BY <2>2, InitBase
  <1>2. Inv /\ [Next]_vars => Inv'
    BY BaseStep, ResidueStep
  <1>3. Inv => NoResidue
    <2>1. NoInstance \notin Runtime /\ \A n : NoInstance \notin TempOf(n)
      BY NoInstanceOK DEF Runtime, TempOf
    <2>2. QED
      BY <2>1 DEF Residue, HeldFor, NoResidue, Stopping
  <1>4. QED
    BY <1>1, <1>2, <1>3, PTL DEF Spec

(***************************************************************************)
(* Calls are short: a call goes from one program point to a later one, and *)
(* through stopWithForceKill twice at most, for the server that it         *)
(* replaces and for its own.                                               *)
(***************************************************************************)
\* How far goroutine t is from the end of its call.
ToDo(l, a) ==
    CASE l = "idle"                  -> 0
      [] l = "newPool"               -> 7
      [] l \in {"register", "take"}  -> 14
      [] l \in {"noPid", "readPid"}  -> 15
      [] l \in {"starting", "ensure"} -> 16
      [] l = "remove"                -> IF a = "newPool" THEN 8 ELSE 1
      [] l = "confirm"               -> IF a = "newPool" THEN 9 ELSE 2
      [] l = "kill"                  -> IF a = "newPool" THEN 10 ELSE 3
      [] l = "wait"                  -> IF a = "newPool" THEN 11 ELSE 4
      [] l = "signal"                -> IF a = "newPool" THEN 12 ELSE 5
      [] l = "term"                  -> IF a = "newPool" THEN 13 ELSE 6

Advances(t) == ToDo(pc'[t], after'[t]) < ToDo(pc[t], after[t])

\* What a goroutine's step does to the others' places.
OthersStay(t) ==
    \A u \in Threads \ {t} : pc'[u] = pc[u] /\ after'[u] = after[u]

\* A goroutine that leaves, or goes to an earlier rank.
LEMMA LeaveAdvances ==
  ASSUME TypeInv, NEW t \in Threads, Leave(t), pc[t] # "idle"
  PROVE  Advances(t) /\ OthersStay(t)
  <1>1. pc'[t] = "idle" /\ after'[t] = "done" /\ OthersStay(t)
    BY DEF Leave, Goto, OthersStay, TypeInv, TypeOK, ProgramOK
  <1>2. pc[t] \in Pcs
    BY DEF TypeInv, TypeOK, ProgramOK
  <1>3. QED
    BY <1>1, <1>2 DEF Advances, ToDo, Pcs

LEMMA StoppedAdvances ==
  ASSUME TypeInv, NEW t \in Threads, Stopped(t), pc[t] \in Stopping
  PROVE  Advances(t) /\ OthersStay(t)
  <1>1. CASE Leave(t)
    BY <1>1, LeaveAdvances DEF Stopping
  <1>2. CASE after[t] = "newPool" /\ ~Leave(t)
    <2>1. pc'[t] = "newPool" /\ after'[t] = "done" /\ OthersStay(t)
      BY <1>2 DEF Stopped, Fail, Goto, OthersStay, TypeInv, TypeOK, ProgramOK
    <2>2. QED
      BY <1>2, <2>1 DEF Advances, ToDo, Stopping
  <1>3. QED
    BY <1>1, <1>2 DEF Stopped, Fail

LEMMA WorkAdvances ==
  ASSUME TypeInv, NEW t \in Threads, Work(t)
  PROVE  pc[t] # "idle" /\ Advances(t) /\ OthersStay(t)
  <1>1. /\ pc \in [Threads -> Pcs] /\ after \in [Threads -> Afters]
        /\ t \in Keys => pc[t] \in Stopping \cup {"idle"} /\ after[t] = "done"
    BY DEF TypeInv, TypeOK, ProgramOK, PointsOK, Afters
  <1>2. CASE EnsureDatabaseExists(t) \/ ReadPid(t) \/ Started(t)
    BY <1>1, <1>2 DEF EnsureDatabaseExists, ReadPid, Started, Goto, Advances, OthersStay, ToDo
  <1>3. CASE \/ EnsureFails(t) \/ StartError(t) \/ StartTimeout(t) \/ StopUnmanaged(t)
             \/ RefuseReused(t) \/ NewPool(t)
    <2>1. Leave(t) /\ pc[t] # "idle"
      BY <1>3 DEF EnsureFails, StartError, StartTimeout, StopUnmanaged, RefuseReused, NewPool,
         Fail
    <2>2. QED
      BY <2>1, LeaveAdvances
  <1>4. CASE Register(t) \/ RefuseNew(t)
    BY <1>1, <1>4 DEF Register, RefuseNew, Goto, Advances, OthersStay, ToDo, locals
  <1>5. CASE NewPoolFails(t) \/ Take(t)
    <2>1. CASE Leave(t)
      BY <1>5, <2>1, LeaveAdvances DEF NewPoolFails, Take
    <2>2. CASE ~Leave(t)
      <3>1. CASE NewPoolFails(t)
        BY <1>1, <2>2, <3>1 DEF NewPoolFails, Fail, Goto, Advances, OthersStay, ToDo
      <3>2. CASE Take(t)
        BY <1>1, <2>2, <3>2 DEF Take, Goto, Advances, OthersStay, ToDo
      <3>3. QED
        BY <1>5, <3>1, <3>2
    <2>3. QED
      BY <2>1, <2>2
  <1>6. CASE CheckSIGTERM(t) \/ SendSIGTERM(t) \/ SeenDead(t) \/ CheckKill(t)
             \/ SendKill(t) \/ Confirm(t)
    BY <1>1, <1>6 DEF CheckSIGTERM, SendSIGTERM, SeenDead, CheckKill, SendKill, Confirm,
       Goto, Advances, OthersStay, ToDo, locals
  <1>7. CASE KeepDirs(t) \/ RemoveFiles(t)
    <2>1. Stopped(t) /\ pc[t] \in Stopping
      BY <1>7 DEF KeepDirs, RemoveFiles, Stopping
    <2>2. QED
      BY <2>1, StoppedAdvances DEF Stopping
  <1>8. QED
    BY <1>2, <1>3, <1>4, <1>5, <1>6, <1>7 DEF Work

\* What else happens leaves a goroutine where it is, or ends the program.
LEMMA OthersLeaveWork ==
  ASSUME TypeInv, NEW t \in Threads, pc[t] # "idle", ~Work(t), [Next]_vars
  PROVE  (pc'[t] = pc[t] /\ after'[t] = after[t]) \/ Crash
  <1>1. pc \in [Threads -> Pcs] /\ after \in [Threads -> Afters]
    BY DEF TypeInv, TypeOK, ProgramOK, Afters
  <1>2. ASSUME NEW u \in Threads, Work(u) PROVE pc'[t] = pc[t] /\ after'[t] = after[t]
    BY <1>2, WorkAdvances DEF OthersStay
  <1>3. ASSUME NEW u \in Procs, NEW k \in Keys, Connect(u, k) \/ Close(u, k)
        PROVE  pc'[t] = pc[t] /\ after'[t] = after[t]
    <2>1. pc[u] = "idle" /\ u \in Threads
      BY <1>3, Sets DEF Connect, Reuse, Prepare, PrepareFails, Close, Arrive
    <2>2. \/ \E l \in Pcs : Goto(u, l)
          \/ UNCHANGED pc
      BY <1>3 DEF Connect, Reuse, Prepare, PrepareFails, Close, Pcs
    <2>3. UNCHANGED after
      BY <1>3 DEF Connect, Reuse, Prepare, PrepareFails, Close, locals
    <2>4. QED
      BY <1>1, <2>1, <2>2, <2>3 DEF Goto
  <1>4. CASE Signal \/ Shutdown
    <2>1. CASE StopAll
      <3>1. \A k \in Keys : pc[k] = "idle"
        BY <2>1 DEF StopAll
      <3>2. QED
        BY <2>1, <3>1 DEF StopAll
    <2>2. QED
      BY <1>4, <2>1 DEF Signal, Shutdown, ShutdownDone, locals
  <1>5. CASE Environment \/ UNCHANGED vars
    BY <1>5 DEF Environment, Spawn, SpawnFails, ShutsDown, Ends, Dies, Exits, PidReused,
       locals, vars
  <1>6. QED
    BY <1>2, <1>3, <1>4, <1>5 DEF Next, Quiet

\* Every step of a goroutine brings its call, or its stop of a server, nearer to its end,
\* and nobody else sets it back: with deadlines on every wait for a server this is why
\* CallsReturn holds, whether or not servers start and heed SIGTERM.
CallsAdvance ==
    [][\A t \in Threads :
         /\ Work(t) => Advances(t)
         /\ pc[t] # "idle" /\ ~Work(t) =>
              (pc'[t] = pc[t] /\ after'[t] = after[t]) \/ pc'[t] = "idle"]_vars

\* No call of Connect, ClosePoolWithKey or stopWithForceKill loops.
THEOREM CallsAdvanceHolds == Spec => CallsAdvance
  <1>1. TypeInv /\ [Next]_vars =>
          [\A t \in Threads :
             /\ Work(t) => Advances(t)
             /\ pc[t] # "idle" /\ ~Work(t) =>
                  (pc'[t] = pc[t] /\ after'[t] = after[t]) \/ pc'[t] = "idle"]_vars
    <2>1. ASSUME Crash, NEW t \in Threads PROVE pc'[t] = "idle"
      BY <2>1 DEF Crash
    <2>2. QED
      BY <2>1, WorkAdvances, OthersLeaveWork
  <1>2. Init => TypeInv
    BY InitType
  <1>3. TypeInv /\ [Next]_vars => TypeInv'
    BY NextType
  <1>4. QED
    BY <1>1, <1>2, <1>3, PTL DEF Spec, CallsAdvance

(***************************************************************************)
(* The end of a shutdown.                                                  *)
(***************************************************************************)
\* Once gracefulShutdown has emptied embeddedInstances nothing is registered any more, and
\* it is over when its goroutines are.
Emptied ==
    /\ gs \in {"stopping", "stragglers", "done"} => \A k \in Keys : instances[k] = NoInstance
    /\ gs = "done" => \A k \in Keys : pc[k] = "idle"

\* A goroutine registers before the shutdown only.
LEMMA WorkEmptied ==
  ASSUME TypeInv, Emptied, NEW t \in Threads, Work(t)
  PROVE  Emptied'
  <1>1. gs' = gs
    BY DEF Work, EnsureDatabaseExists, EnsureFails, ReadPid, Started, StartError,
       StartTimeout, StopUnmanaged, Register, RefuseReused, RefuseNew, NewPool,
       NewPoolFails, Take, CheckSIGTERM, SendSIGTERM, SeenDead, CheckKill, SendKill,
       KeepDirs, Confirm, RemoveFiles
  <1>2. \A k \in Keys : instances'[k] \in {instances[k], NoInstance} \/ gs = "signal"
    <2>1. instances \in [Keys -> Stoppable]
      BY DEF TypeInv, TypeOK, ProgramOK
    <2>2. CASE Register(t)
      BY <2>2 DEF Register, shuttingDown
    <2>3. CASE NewPoolFails(t) \/ Take(t)
      BY <2>1, <2>3 DEF NewPoolFails, Take
    <2>4. CASE UNCHANGED instances
      BY <2>4
    <2>5. QED
      BY <2>2, <2>3, <2>4 DEF Work, EnsureDatabaseExists, EnsureFails, ReadPid, Started,
         StartError, StartTimeout, StopUnmanaged, RefuseReused, RefuseNew, NewPool,
         CheckSIGTERM, SendSIGTERM, SeenDead, CheckKill, SendKill, KeepDirs, Confirm,
         RemoveFiles
  <1>3. ASSUME NEW k \in Keys, pc[k] = "idle" PROVE pc'[k] = "idle"
    BY <1>3, WorkAdvances, Sets DEF OthersStay
  <1>4. QED
    BY <1>1, <1>2, <1>3 DEF Emptied

LEMMA EmptiedStep ==
  ASSUME TypeInv, Emptied, [Next]_vars
  PROVE  Emptied'
  <1>1. pc \in [Threads -> Pcs] /\ \A k \in Keys : k \in Threads /\ k \notin Procs
    BY Sets DEF TypeInv, TypeOK, ProgramOK
  <1>2. ASSUME NEW u \in Procs, NEW k \in Keys, Connect(u, k) \/ Close(u, k) PROVE Emptied'
    <2>1. gs' = gs /\ instances' = instances
      BY <1>2 DEF Connect, Reuse, Prepare, PrepareFails, Close
    <2>2. (\E l : Goto(u, l)) \/ UNCHANGED pc
      BY <1>2 DEF Connect, Reuse, Prepare, PrepareFails, Close
    <2>3. \A j \in Keys : pc'[j] = pc[j]
      BY <1>1, <2>2 DEF Goto
    <2>4. QED
      BY <2>1, <2>3 DEF Emptied
  <1>3. CASE Signal \/ ShutdownDone
    BY <1>3 DEF Signal, ShutdownDone, Emptied
  <1>4. CASE StopAll
    BY <1>4 DEF StopAll, Emptied
  <1>5. CASE Crash
    BY <1>5 DEF Crash, Emptied
  <1>6. CASE UNCHANGED <<instances, gs, pc>>
    BY <1>6 DEF Emptied
  <1>7. QED
    BY <1>2, <1>3, <1>4, <1>5, <1>6, WorkEmptied DEF Next, Quiet, Shutdown, Environment,
       Spawn, SpawnFails, ShutsDown, Ends, Dies, Exits, PidReused, vars

\* When the shutdown is over nothing is registered, and a server that runs is lost, or dies
\* of SIGKILL, or a call that is still on its way is starting it, about to have it refused,
\* or stopping it.
ShutdownAccounts ==
    gs = "done" =>
        /\ \A k \in Keys : instances[k] = NoInstance
        /\ \A n \in Calls :
             Live(n) =>
                 \/ n \in lost
                 \/ server[n].sig = "kill"
                 \/ \E t \in Procs :
                      \/ num[t] = n /\ pc[t] \in {"starting", "noPid", "register"}
                      \/ inst[t].pid = server[n].pid /\ pc[t] \in {"term", "signal", "wait", "kill"}

\* gracefulShutdown forgets no server, whatever calls are under way when the signal comes
\* and however they end: what is not lost is stopped already, or in the hands of a call,
\* which finds shuttingDown set.
THEOREM ShutdownAccountsHolds == Spec => []ShutdownAccounts
  <1> DEFINE Inv == Base /\ Strays /\ Emptied
  <1>1. Init => Inv
    <2>1. Init => \A n \in Calls : server[n].state = "none"
      BY DEF Init, NoServer
    <2>2. Init => Strays /\ Emptied
      BY <2>1 DEF Init, Strays, Live, Emptied
    <2>3. QED
      BY <2>2, InitBase
  <1>2. Inv /\ [Next]_vars => Inv'
    BY BaseStep, StraysStep, EmptiedStep DEF Base
  <1>3. Inv => ShutdownAccounts
    <2> SUFFICES ASSUME Inv, gs = "done", NEW n \in Calls, Live(n),
                        n \notin lost, server[n].sig # "kill"
                 PROVE  \E t \in Procs :
                          \/ num[t] = n /\ pc[t] \in {"starting", "noPid", "register"}
                          \/ inst[t].pid = server[n].pid /\ pc[t] \in {"term", "signal", "wait", "kill"}
      BY DEF ShutdownAccounts, Emptied
    <2>1. InHand(n, server[n].pid)
      BY DEF Strays, Answered
    <2>2. \A k \in Keys : instances[k].pid # server[n].pid
      BY NoInstanceOK DEF Emptied, Base, PidFiles
    <2>3. \A k \in Keys : pc[k] = "idle"
      BY DEF Emptied
    <2>4. QED
      BY <2>1, <2>2, <2>3, Sets DEF InHand
  <1>4. QED
    BY <1>1, <1>2, <1>3, PTL DEF Spec
=============================================================================
