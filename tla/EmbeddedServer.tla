---------------------------- MODULE EmbeddedServer ----------------------------
(***************************************************************************)
(* Embedded Postgres servers: Connect's "postgres:embedded:" branch,       *)
(* stopWithForceKill, the part of ClosePoolWithKey and gracefulShutdown    *)
(* that stops servers (postgres/pool.go), and the checks of processes and  *)
(* postmaster.pid files they rest on (utils/embedded_pg.go), over          *)
(* operating system processes, process ids that are used again, pid files  *)
(* and directories.                                                        *)
(*                                                                         *)
(* Calls are numbered.  A Connect starts at most one server; call n's      *)
(* server, its port, the data directory that is created when the caller    *)
(* names none, and the process id it has when that is a new one are all    *)
(* called n.  PoolRegistry models what happens to the pools; of the        *)
(* registry's entries only their presence is kept here (open).             *)
(***************************************************************************)
EXTENDS Naturals

CONSTANTS
    Procs,      \* goroutines of the application
    Keys,       \* pool keys; the goroutine that stops k's server is called k too
    NoKey,      \* the key of a call not made yet
    Dirs,       \* data directories named by "?datapath="
    MaxCalls,   \* bound: calls of Connect and ClosePoolWithKey
    MaxFaults,  \* bound: failing calls, processes that die and pids used again
    Faults      \* of "start", "ensure", "newPool", "dies", "crash" and "pid", those that occur

ASSUME EmbeddedAssumption ==
    /\ Procs \cap Keys = {}
    /\ NoKey \notin Keys
    /\ MaxCalls \in Nat /\ MaxFaults \in Nat
    /\ Dirs \cap (0 .. MaxCalls) = {}

Calls   == 1 .. MaxCalls
Ref     == 0 .. MaxCalls    \* a call, a port or a pid; 0 is none
Threads == Procs \cup Keys
Paths   == Dirs \cup Calls

\* embeddedInstance; ownsDataPath is dir \in Calls, and rt is the call that runtimePath
\* was made for, or 0 if that is not set.  NoInstance stands for a missing one.
NoInstance == [pid |-> 0, dir |-> 0, rt |-> 0]
Instance   == [pid : Ref, dir : Paths, rt : Ref] \cup {NoInstance}

\* Instances that are registered or stopped: new servers have a pid.
Stoppable == {i \in Instance : i.rt # 0 => i.pid # 0}

NoFile   == [pid |-> 0, port |-> 0]
NoServer == [state |-> "none", pid |-> 0, dir |-> 0, sig |-> "none"]

VARIABLES
    \* the operating system
    server,     \* server[n]: the Postgres that call n starts, and the signal it got
    foreign,    \* pids of processes that are no Postgres
    pidFile,    \* pidFile[d]: pid and port in d/postmaster.pid
    runtimes,   \* keys whose runtime directory exists
    temps,      \* data directories that Connect made and that exist
    \* the program
    instances,  \* embeddedInstances
    open,       \* keys with an entry in poolRegistry.entries
    gs,         \* where gracefulShutdown is
    pc,
    num,        \* the call a goroutine executes
    port,       \* the port of the server that Connect reuses
    own,        \* the instance that Connect is about to register
    inst,       \* the instance that stopWithForceKill works on
    after,      \* where stopWithForceKill returns to
    target,     \* the pid that sendPostgresSIGTERM is about to signal
    \* what the bounds and the properties speak about
    calls, faults,
    keyOf,      \* the key of each call
    late,       \* calls that gave up waiting for their Start
    lost,       \* servers nobody answers for: late, or left by a crash or a failed stop
    left,       \* keys whose directories were left behind in the same ways
    undercut    \* servers whose runtime directory another call or its stop removed

system  == <<server, foreign, pidFile>>
files   == <<runtimes, temps>>
locals  == <<num, port, own, inst, after, target>>
bounds  == <<calls, faults, keyOf>>
history == <<late, lost, left, undercut>>
vars    == <<system, files, instances, open, gs, pc, locals, bounds, history>>

Init ==
    /\ server    = [n \in Calls |-> NoServer]
    /\ foreign   = {}
    /\ pidFile   = [d \in Paths |-> NoFile]
    /\ runtimes  = {}
    /\ temps     = {}
    /\ instances = [k \in Keys |-> NoInstance]
    /\ open      = {}
    /\ gs        = "signal"
    /\ pc        = [t \in Threads |-> "idle"]
    /\ num       = [t \in Threads |-> 0]
    /\ port      = [t \in Threads |-> 0]
    /\ own       = [t \in Threads |-> NoInstance]
    /\ inst      = [t \in Threads |-> NoInstance]
    /\ after     = [t \in Threads |-> "done"]
    /\ target    = [t \in Threads |-> 0]
    /\ calls     = 0
    /\ faults    = 0
    /\ keyOf     = [n \in Calls |-> NoKey]
    /\ late = {} /\ lost = {} /\ left = {} /\ undercut = {}

shuttingDown == gs # "signal"

Key(t) == IF t \in Keys THEN t ELSE keyOf[num[t]]

Goto(t, l) == pc' = [pc EXCEPT ![t] = l]

Fault(f) == f \in Faults /\ faults < MaxFaults /\ faults' = faults + 1

(***************************************************************************)
(* utils/embedded_pg.go.  A process that has exited counts as dead whether *)
(* or not its parent has reaped it, so zombies are not told apart.         *)
(***************************************************************************)
Live(n) == server[n].state \in {"up", "exiting"}

IsPostgresProcess(p) == \E n \in Calls : Live(n) /\ server[n].pid = p

\* Mutant: a process that takes no connections any more counts as dead.
AliveIfUp(p) == p \in foreign \/ \E n \in Calls : server[n].state = "up" /\ server[n].pid = p

IsProcessAlive(p) == IsPostgresProcess(p) \/ p \in foreign

IsPortListening(n) == n \in Calls /\ server[n].state = "up"

\* CheckPIDFile's third and second result.
FilePid(d)   == pidFile[d].pid
FileAlive(d) == IsProcessAlive(FilePid(d))

ReuseEmbeddedPG(d) ==
    /\ d \in Dirs
    /\ FileAlive(d)
    /\ IsPortListening(pidFile[d].port)

\* A signal to whatever process has pid p: a Postgres remembers it, SIGKILL replacing
\* SIGTERM.  What it does to another process, or that there is none, is of no concern.
Send(sig, p) ==
    server' = [n \in Calls |-> IF Live(n) /\ server[n].pid = p /\ server[n].sig # "kill"
                               THEN [server[n] EXCEPT !.sig = sig] ELSE server[n]]

\* The goroutine is done with its call.
Leave(t) ==
    /\ Goto(t, "idle")
    /\ num'   = [num EXCEPT ![t] = 0]
    /\ port'  = [port EXCEPT ![t] = 0]
    /\ own'   = [own EXCEPT ![t] = NoInstance]
    /\ inst'  = [inst EXCEPT ![t] = NoInstance]
    /\ after' = [after EXCEPT ![t] = "done"]
    /\ UNCHANGED target

\* Connect returns an error, and resolvePool removes the entry of the key.
Fail(t) == Leave(t) /\ open' = open \ {Key(t)}

\* The runtime directory of key k goes, which was made for call m: others are noted
\* whose server has it.
Undercut(k, m) == undercut' = undercut \cup {n \in Calls \ {m} : Live(n) /\ keyOf[n] = k}

\* Connect removes the directories it made for a server that did not start.
RemoveDirs(t) ==
    /\ runtimes' = runtimes \ {Key(t)}
    /\ Undercut(Key(t), num[t])
    /\ temps'    = temps \ {own[t].dir}
    /\ pidFile'  = [d \in Paths |-> IF d = own[t].dir /\ d \in Calls
                                    THEN NoFile ELSE pidFile[d]]

(***************************************************************************)
(* Calls of OpenPoolWithKey, as far as they reach Connect: the key has no  *)
(* entry yet, and gets one.  Connect reads shuttingDown without the lock,  *)
(* and returns if it is set; then either a server is found that runs       *)
(* already, or directories are prepared and Start is called in a           *)
(* goroutine.                                                              *)
(***************************************************************************)
\* Idle goroutines are alike, so one of them is taken.
Arrive(t, k) ==
    /\ pc[t] = "idle" /\ calls < MaxCalls
    /\ t = CHOOSE u \in Procs : pc[u] = "idle"
    /\ calls' = calls + 1
    /\ keyOf' = [keyOf EXCEPT ![calls + 1] = k]

Reuse(t, k, d) ==
    /\ k \notin open /\ ~shuttingDown
    /\ Arrive(t, k)
    /\ ReuseEmbeddedPG(d)
    /\ open' = open \cup {k}
    /\ num'  = [num EXCEPT ![t] = calls + 1]
    /\ port' = [port EXCEPT ![t] = pidFile[d].port]
    /\ own'  = [own EXCEPT ![t].dir = d]
    /\ Goto(t, "ensure")
    /\ UNCHANGED <<system, files, instances, gs, inst, after, target, faults, history>>

Prepare(t, k, d) ==
    /\ k \notin open /\ ~shuttingDown
    /\ Arrive(t, k)
    /\ ~ReuseEmbeddedPG(d)
    /\ open'     = open \cup {k}
    /\ num'      = [num EXCEPT ![t] = calls + 1]
    /\ own'      = [own EXCEPT ![t] = [pid |-> 0, dir |-> d, rt |-> calls + 1]]
    /\ runtimes' = runtimes \cup {k}
    /\ temps'    = temps \cup ({d} \cap Calls)
    /\ server'   = [server EXCEPT ![calls + 1].state = "spawning", ![calls + 1].dir = d]
    /\ Goto(t, "starting")
    /\ UNCHANGED <<foreign, pidFile, instances, gs, port, inst, after, target, faults,
                   history>>

\* A directory cannot be created or written, or no port is free.  A data directory that
\* was made is removed again, and so is the runtime directory once it exists.
PrepareFails(t, k, d) ==
    /\ k \notin open /\ ~shuttingDown
    /\ Arrive(t, k)
    /\ Fault("start")
    /\ ~ReuseEmbeddedPG(d)
    /\ \/ UNCHANGED <<runtimes, undercut>>
       \/ runtimes' = runtimes \ {k} /\ Undercut(k, calls + 1)
    /\ UNCHANGED <<system, temps, instances, open, gs, pc, locals, late, lost, left>>

Connect(t, k) ==
    \E d \in Dirs \cup {calls + 1} :
        Reuse(t, k, d) \/ Prepare(t, k, d) \/ PrepareFails(t, k, d)

(***************************************************************************)
(* A server that runs already: ensureDatabaseExists asks it, the pid file  *)
(* is read a second time, and the server is registered.                    *)
(***************************************************************************)
EnsureDatabaseExists(t) ==
    /\ pc[t] = "ensure" /\ IsPortListening(port[t])
    /\ port' = [port EXCEPT ![t] = 0]
    /\ Goto(t, "readPid")
    /\ UNCHANGED <<system, files, instances, open, gs, num, own, inst, after, target, bounds,
                   history>>

\* That may fail whether the server still takes connections or not.
EnsureFails(t) ==
    /\ pc[t] = "ensure"
    /\ \/ ~IsPortListening(port[t]) /\ UNCHANGED faults
       \/ Fault("ensure")
    /\ Fail(t)
    /\ UNCHANGED <<system, files, instances, gs, calls, keyOf, history>>

ReadPid(t) ==
    /\ pc[t] = "readPid"
    /\ own' = [own EXCEPT ![t].pid = FilePid(own[t].dir)]
    /\ Goto(t, "register")
    /\ UNCHANGED <<system, files, instances, open, gs, num, port, inst, after, target, bounds,
                   history>>

(***************************************************************************)
(* A new server: Connect waits for Start no longer than startTimeout, then *)
(* reads the pid file and registers the server.                            *)
(***************************************************************************)
\* Mutant: a server without a pid is registered.
StartedUnchecked(t) ==
    /\ pc[t] = "starting" /\ server[num[t]].state \in {"up", "exiting", "gone"}
    /\ own' = [own EXCEPT ![t].pid = FilePid(own[t].dir)]
    /\ Goto(t, "register")
    /\ UNCHANGED <<system, files, instances, open, gs, num, port, inst, after, target, bounds,
                   history>>

Started(t) ==
    /\ pc[t] = "starting" /\ server[num[t]].state \in {"up", "exiting", "gone"}
    /\ own' = [own EXCEPT ![t].pid = FilePid(own[t].dir)]
    /\ Goto(t, IF FilePid(own[t].dir) = 0 THEN "noPid" ELSE "register")
    /\ UNCHANGED <<system, files, instances, open, gs, num, port, inst, after, target, bounds,
                   history>>

\* Mutant: the directories of a server that did not start are left.
StartErrorLeaves(t) ==
    /\ pc[t] = "starting" /\ server[num[t]].state = "failed"
    /\ Fail(t)
    /\ UNCHANGED <<system, files, instances, gs, bounds, history>>

StartError(t) ==
    /\ pc[t] = "starting" /\ server[num[t]].state = "failed"
    /\ Fail(t)
    /\ RemoveDirs(t)
    /\ UNCHANGED <<server, foreign, instances, gs, bounds, late, lost, left>>

\* The goroutine that runs Start goes on: its server is lost, and it makes its
\* directories again.
StartTimeout(t) ==
    /\ pc[t] = "starting" /\ server[num[t]].state # "failed"
    /\ Fail(t)
    /\ RemoveDirs(t)
    /\ late' = late \cup {num[t]}
    /\ lost' = lost \cup {num[t]}
    /\ left' = left \cup {Key(t)}
    /\ UNCHANGED <<server, foreign, instances, gs, bounds>>

\* Without a pid in the file the server is stopped by the library, which needs that
\* file as well: it may fail, and the error is ignored.
StopUnmanaged(t) ==
    /\ pc[t] = "noPid"
    /\ Fail(t)
    /\ RemoveDirs(t)
    /\ \/ server' = [server EXCEPT ![num[t]] = [NoServer EXCEPT !.state = "gone"]]
          /\ UNCHANGED <<late, lost>>
       \/ /\ Live(num[t])
          /\ late' = late \cup {num[t]}
          /\ lost' = lost \cup {num[t]}
          /\ UNCHANGED server
    /\ UNCHANGED <<foreign, instances, gs, bounds, left>>

\* Mutant: the server that a registration replaces is not stopped.
RegisterOver(t) ==
    /\ pc[t] = "register" /\ ~shuttingDown
    /\ instances' = [instances EXCEPT ![Key(t)] = own[t]]
    /\ Goto(t, "newPool")
    /\ lost' = {n \in lost : n \in late \/ server[n].pid # own[t].pid}
    /\ UNCHANGED <<system, files, open, gs, locals, bounds, late, left, undercut>>

\* The critical section of embeddedPGLock, for both kinds of server.  An instance
\* that was registered under the key is stopped.
Register(t) ==
    /\ pc[t] = "register" /\ ~shuttingDown
    /\ instances' = [instances EXCEPT ![Key(t)] = own[t]]
    /\ IF instances[Key(t)] = NoInstance
       THEN Goto(t, "newPool") /\ UNCHANGED <<inst, after>>
       ELSE /\ inst'  = [inst EXCEPT ![t] = instances[Key(t)]]
            /\ after' = [after EXCEPT ![t] = "newPool"]
            /\ Goto(t, "term")
    /\ lost' = {n \in lost : n \in late \/ server[n].pid # own[t].pid}
    /\ UNCHANGED <<system, files, open, gs, num, port, own, target, bounds, late, left,
                   undercut>>

\* The same section when the shutdown has begun: a new server is stopped, one that
\* was found running is not.
RefuseReused(t) ==
    /\ pc[t] = "register" /\ shuttingDown /\ own[t].rt = 0
    /\ Fail(t)
    /\ UNCHANGED <<system, files, instances, gs, bounds, history>>

\* Mutant: a new server is not stopped either.
RefuseOnly(t) ==
    /\ pc[t] = "register" /\ shuttingDown /\ own[t].rt # 0
    /\ Fail(t)
    /\ UNCHANGED <<system, files, instances, gs, bounds, history>>

RefuseNew(t) ==
    /\ pc[t] = "register" /\ shuttingDown /\ own[t].rt # 0
    /\ inst'  = [inst EXCEPT ![t] = own[t]]
    /\ after' = [after EXCEPT ![t] = "fail"]
    /\ Goto(t, "term")
    /\ UNCHANGED <<system, files, instances, open, gs, num, port, own, target, bounds,
                   history>>

NewPool(t) ==
    /\ pc[t] = "newPool"
    /\ Leave(t)
    /\ UNCHANGED <<system, files, instances, open, gs, bounds, history>>

\* A new server is taken back: whatever is registered under the key is stopped, or
\* the own server if nothing is.
NewPoolFails(t) ==
    /\ pc[t] = "newPool" /\ Fault("newPool")
    /\ IF own[t].rt # 0
       THEN /\ instances' = [instances EXCEPT ![Key(t)] = NoInstance]
            /\ inst'  = [inst EXCEPT ![t] = IF instances[Key(t)] = NoInstance
                                            THEN own[t] ELSE instances[Key(t)]]
            /\ after' = [after EXCEPT ![t] = "fail"]
            /\ Goto(t, "term")
            /\ UNCHANGED <<open, num, port, own, target>>
       ELSE Fail(t) /\ UNCHANGED instances
    /\ UNCHANGED <<system, files, gs, calls, keyOf, history>>

(***************************************************************************)
(* ClosePoolWithKey removes the entry, takes the instance in a second      *)
(* critical section, closes the pool and stops the instance.  With neither *)
(* it does nothing.                                                        *)
(***************************************************************************)
Close(t, k) ==
    /\ k \in open \/ instances[k] # NoInstance
    /\ Arrive(t, k)
    /\ open' = open \ {k}
    /\ num'  = [num EXCEPT ![t] = calls + 1]
    /\ Goto(t, "take")
    /\ UNCHANGED <<system, files, instances, gs, port, own, inst, after, target, faults,
                   history>>

Take(t) ==
    /\ pc[t] = "take"
    /\ instances' = [instances EXCEPT ![Key(t)] = NoInstance]
    /\ IF instances[Key(t)] = NoInstance
       THEN Leave(t)
       ELSE /\ inst' = [inst EXCEPT ![t] = instances[Key(t)]]
            /\ Goto(t, "term")
            /\ UNCHANGED <<num, port, own, after, target>>
    /\ UNCHANGED <<system, files, open, gs, bounds, history>>

(***************************************************************************)
(* stopWithForceKill.                                                      *)
(***************************************************************************)
\* sendPostgresSIGTERM takes the pid from the file and sees whether it is a Postgres.
CheckSIGTERM(t) ==
    LET p == FilePid(inst[t].dir) IN
    /\ pc[t] = "term"
    /\ IF IsProcessAlive(p) /\ IsPostgresProcess(p)
       THEN target' = [target EXCEPT ![t] = p] /\ Goto(t, "signal")
       ELSE Goto(t, "wait") /\ UNCHANGED target
    /\ UNCHANGED <<system, files, instances, open, gs, num, port, own, inst, after, bounds,
                   history>>

\* It then signals the pid, whatever has it by now.
SendSIGTERM(t) ==
    /\ pc[t] = "signal"
    /\ Send("term", target[t])
    /\ target' = [target EXCEPT ![t] = 0]
    /\ Goto(t, "wait")
    /\ UNCHANGED <<foreign, pidFile, files, instances, open, gs, num, port, own, inst, after,
                   bounds, history>>

\* A tick of the wait loop that finds the process dead.  By the pid file it may be
\* mistaken: the file goes before the process does, and another stop may remove it.
SeenDead(t) ==
    LET p == inst[t].pid IN
    /\ pc[t] = "wait"
    /\ (p # 0 /\ ~IsProcessAlive(p)) \/ ~FileAlive(inst[t].dir)
    /\ Goto(t, "confirm")
    /\ lost' = lost \cup {n \in Calls : Live(n) /\ server[n].pid = p}
    /\ UNCHANGED <<system, files, instances, open, gs, locals, bounds, late, left, undercut>>

\* Mutant: there is no deadline.
KillNever(t) == FALSE

\* Or stopTimeout passes and KillEmbeddedPG is called: it looks again whether this is a
\* Postgres.
CheckKill(t) ==
    /\ pc[t] = "wait"
    /\ Goto(t, IF IsPostgresProcess(inst[t].pid) THEN "kill" ELSE "confirm")
    /\ UNCHANGED <<system, files, instances, open, gs, locals, bounds, history>>

\* It kills what has the pid by now, and polls until that is dead, or twenty times.
SendKill(t) ==
    /\ pc[t] = "kill"
    /\ Send("kill", inst[t].pid)
    /\ Goto(t, "confirm")
    /\ UNCHANGED <<foreign, pidFile, files, instances, open, gs, locals, bounds, history>>

\* Where stopWithForceKill returns to.
Stopped(t) ==
    \/ /\ after[t] = "newPool"
       /\ Goto(t, "newPool")
       /\ inst'  = [inst EXCEPT ![t] = NoInstance]
       /\ after' = [after EXCEPT ![t] = "done"]
       /\ UNCHANGED <<open, num, port, own, target>>
    \/ after[t] = "fail" /\ Fail(t)
    \/ after[t] = "done" /\ Leave(t) /\ UNCHANGED open

\* The final liveness check: directories of a process that lives are not touched.
KeepDirs(t) ==
    /\ pc[t] = "confirm" /\ IsProcessAlive(inst[t].pid)
    /\ left' = left \cup {Key(t)}
    /\ Stopped(t)
    /\ UNCHANGED <<system, files, instances, gs, bounds, late, lost, undercut>>

\* Mutant: there is no final check.
ConfirmUnchecked(t) ==
    /\ pc[t] = "confirm"
    /\ Goto(t, "remove")
    /\ UNCHANGED <<system, files, instances, open, gs, locals, bounds, history>>

Confirm(t) ==
    /\ pc[t] = "confirm" /\ ~IsProcessAlive(inst[t].pid)
    /\ Goto(t, "remove")
    /\ UNCHANGED <<system, files, instances, open, gs, locals, bounds, history>>

RemoveFiles(t) ==
    /\ pc[t] = "remove"
    /\ pidFile'  = [pidFile EXCEPT ![inst[t].dir] = NoFile]
    /\ IF inst[t].rt = 0
       THEN UNCHANGED <<runtimes, undercut>>
       ELSE runtimes' = runtimes \ {Key(t)} /\ Undercut(Key(t), inst[t].rt)
    /\ temps'    = temps \ {inst[t].dir}
    /\ Stopped(t)
    /\ UNCHANGED <<server, foreign, instances, gs, bounds, late, lost, left>>

(***************************************************************************)
(* gracefulShutdown, after the pools are closed: two snapshots of the map, *)
(* and a goroutine for each instance.                                      *)
(***************************************************************************)
Signal ==
    /\ gs = "signal"
    /\ gs' = "snapshot"
    /\ UNCHANGED <<system, files, instances, open, pc, locals, bounds, history>>

StopAll ==
    LET taken == {k \in Keys : instances[k] # NoInstance} IN
    /\ gs \in {"snapshot", "stopping"}
    /\ \A k \in Keys : pc[k] = "idle"
    /\ gs'        = IF gs = "snapshot" THEN "stopping" ELSE "stragglers"
    /\ instances' = [k \in Keys |-> NoInstance]
    /\ inst' = [t \in Threads |-> IF t \in taken THEN instances[t] ELSE inst[t]]
    /\ pc'   = [t \in Threads |-> IF t \in taken THEN "term" ELSE pc[t]]
    /\ UNCHANGED <<system, files, open, num, port, own, after, target, bounds, history>>

ShutdownDone ==
    /\ gs = "stragglers"
    /\ \A k \in Keys : pc[k] = "idle"
    /\ gs' = "done"
    /\ UNCHANGED <<system, files, instances, open, pc, locals, bounds, history>>

(***************************************************************************)
(* The library and the servers.  Postgres does not start on a data         *)
(* directory that another server uses, or whose pid file names a process.  *)
(***************************************************************************)
InUse(d) == FileAlive(d) \/ \E n \in Calls : Live(n) /\ server[n].dir = d

\* Pids of processes that are gone, but that a pid file or the program remembers.
StalePids ==
    {p \in Calls :
        /\ ~IsProcessAlive(p)
        /\ \/ \E d \in Paths : FilePid(d) = p
           \/ \E k \in Keys : instances[k].pid = p
           \/ \E t \in Threads : p \in {own[t].pid, inst[t].pid, target[t]}}

\* Start makes the directories, whatever has happened to them.
MakeDirs(n) ==
    /\ runtimes' = runtimes \cup {keyOf[n]}
    /\ temps'    = temps \cup ({server[n].dir} \cap Calls)

\* Server n has ended: the properties are about running ones, so the notes on it are dropped.
Forget(n) == late' = late \ {n} /\ lost' = lost \ {n} /\ undercut' = undercut \ {n}

\* The server runs under a new pid, or under one that was used before, takes
\* connections, and Start returns.
Spawn(n) ==
    /\ server[n].state = "spawning" /\ ~InUse(server[n].dir)
    /\ \E p \in Calls :
         /\ \/ p = n /\ ~IsProcessAlive(n) /\ UNCHANGED faults
            \/ p \in StalePids /\ Fault("pid")
         /\ server'  = [server EXCEPT ![n].state = "up", ![n].pid = p]
         /\ pidFile' = [pidFile EXCEPT ![server[n].dir] = [pid |-> p, port |-> n]]
    /\ MakeDirs(n)
    /\ UNCHANGED <<foreign, instances, open, gs, pc, locals, calls, keyOf, history>>

SpawnFails(n) ==
    /\ server[n].state = "spawning"
    /\ \/ Fault("start")
       \/ InUse(server[n].dir) /\ UNCHANGED faults
    /\ server' = [server EXCEPT ![n] = [NoServer EXCEPT !.state = "failed"]]
    /\ MakeDirs(n)
    /\ Forget(n)
    /\ UNCHANGED <<foreign, pidFile, instances, open, gs, pc, locals, calls, keyOf, left>>

\* A server that is told to stop may do so, or hang.  It removes its pid file before
\* it is gone.
ShutsDown(n) ==
    /\ server[n].state = "up" /\ server[n].sig = "term"
    /\ server'  = [server EXCEPT ![n].state = "exiting"]
    /\ pidFile' = [pidFile EXCEPT ![server[n].dir] = NoFile]
    /\ UNCHANGED <<foreign, files, instances, open, gs, pc, locals, bounds, history>>

\* A process ends: after its shutdown, by SIGKILL, or by itself.
Exits(n) ==
    /\ Live(n)
    /\ server' = [server EXCEPT ![n] = [NoServer EXCEPT !.state = "gone"]]
    /\ Forget(n)
    /\ UNCHANGED <<foreign, pidFile, files, instances, open, gs, pc, locals, calls, keyOf,
                   left>>

Ends(n) ==
    /\ server[n].state = "exiting" \/ server[n].sig = "kill"
    /\ Exits(n)
    /\ UNCHANGED faults

Dies(n) == Exits(n) /\ Fault("dies")

\* The pid of a server that is gone goes to some other process.
PidReused ==
    /\ Fault("pid")
    /\ \E p \in StalePids : foreign' = foreign \cup {p}
    /\ UNCHANGED <<server, pidFile, files, instances, open, gs, pc, locals, calls, keyOf,
                   history>>

\* The program dies and is started again: servers, pid files and directories stay.
Crash ==
    /\ Fault("crash")
    /\ instances' = [k \in Keys |-> NoInstance]
    /\ open'      = {}
    /\ gs'        = "signal"
    /\ pc'        = [t \in Threads |-> "idle"]
    /\ num'       = [t \in Threads |-> 0]
    /\ port'      = [t \in Threads |-> 0]
    /\ own'       = [t \in Threads |-> NoInstance]
    /\ inst'      = [t \in Threads |-> NoInstance]
    /\ after'     = [t \in Threads |-> "done"]
    /\ target'    = [t \in Threads |-> 0]
    /\ server'    = [n \in Calls |-> IF server[n].state = "spawning"
                                     THEN [NoServer EXCEPT !.state = "gone"] ELSE server[n]]
    /\ lost'      = lost \cup {n \in Calls : Live(n)}
    /\ left'      = left \cup runtimes \cup {keyOf[n] : n \in temps}
    /\ UNCHANGED <<foreign, pidFile, files, calls, keyOf, late, undercut>>

Work(t) ==
    \/ EnsureDatabaseExists(t) \/ EnsureFails(t) \/ ReadPid(t)
    \/ Started(t) \/ StartError(t) \/ StartTimeout(t) \/ StopUnmanaged(t)
    \/ Register(t) \/ RefuseReused(t) \/ RefuseNew(t) \/ NewPool(t) \/ NewPoolFails(t)
    \/ Take(t)
    \/ CheckSIGTERM(t) \/ SendSIGTERM(t) \/ SeenDead(t) \/ CheckKill(t) \/ SendKill(t)
    \/ KeepDirs(t) \/ Confirm(t) \/ RemoveFiles(t)

Shutdown == StopAll \/ ShutdownDone

Environment ==
    \/ \E n \in Calls : Spawn(n) \/ SpawnFails(n) \/ ShutsDown(n) \/ Ends(n) \/ Dies(n)
    \/ PidReused
    \/ Crash

\* No call is left to make and none is running: the process waits, or has ended.
Quiet ==
    /\ calls = MaxCalls \/ shuttingDown
    /\ \A t \in Threads : pc[t] = "idle"
    /\ gs \in {"signal", "done"}
    /\ UNCHANGED vars

Next ==
    \/ \E t \in Procs, k \in Keys : Connect(t, k) \/ Close(t, k)
    \/ \E t \in Threads : Work(t)
    \/ Signal
    \/ Shutdown
    \/ Environment
    \/ Quiet

Spec == Init /\ [][Next]_vars

\* Goroutines that are ready run, deadlines pass, and a process that got SIGKILL or has
\* removed its pid file ends.  Calls being bounded there are finitely many such steps,
\* and it is enough that one of them is taken while there is one.  A server need not
\* start, nor heed SIGTERM.
Progress == (\E t \in Threads : Work(t)) \/ Shutdown \/ (\E n \in Calls : Ends(n))

FairSpec == Spec /\ WF_vars(Progress)

(***************************************************************************)
(* Properties.                                                             *)
(***************************************************************************)
ServerType ==
    [state : {"none", "spawning", "failed", "up", "exiting", "gone"},
     pid   : Ref, dir : Paths \cup {0}, sig : {"none", "term", "kill"}]

Pcs == {"idle", "ensure", "readPid", "starting", "noPid", "register", "newPool",
        "take", "term", "signal", "wait", "kill", "confirm", "remove"}

SystemOK ==
    /\ server \in [Calls -> ServerType]
    /\ foreign \in SUBSET Calls
    /\ pidFile \in [Paths -> [pid : Ref, port : Ref]]
    /\ runtimes \in SUBSET Keys
    /\ temps \in SUBSET Calls

ProgramOK ==
    /\ instances \in [Keys -> Stoppable]
    /\ open \in SUBSET Keys
    /\ gs \in {"signal", "snapshot", "stopping", "stragglers", "done"}
    /\ pc \in [Threads -> Pcs]
    /\ num \in [Threads -> Ref]
    /\ port \in [Threads -> Ref]
    /\ own \in [Threads -> Instance]
    /\ inst \in [Threads -> Stoppable]
    /\ after \in [Threads -> {"newPool", "fail", "done"}]
    /\ target \in [Threads -> Ref]

HistoryOK ==
    /\ calls \in Ref
    /\ faults \in 0 .. MaxFaults
    /\ keyOf \in [Calls -> Keys \cup {NoKey}]
    /\ late \in SUBSET Calls /\ lost \in SUBSET Calls /\ undercut \in SUBSET Calls
    /\ left \in SUBSET Keys

\* Type invariant of the processes and files, the program's maps and the locals; a new
\* server is not registered without its pid.
TypeOK == SystemOK /\ ProgramOK /\ HistoryOK

\* "Neither [directory] is deleted while the postmaster could still be running
\* underneath it" (resources_test.go): a server has the data directory that Connect
\* created for it as long as it runs, unless it came up after its startTimeout.
TempUnderServer ==
    \A n \in Calls : Live(n) /\ server[n].dir = n /\ n \notin late => n \in temps

\* It also has the runtime directory of its key, which holds its binaries: no stop of its
\* own takes that away.  The directory is shared by all generations of the key, and what
\* another one's stop or failed start removes under it is not told apart by the code.
RuntimeUnderServer ==
    \A n \in Calls : Live(n) => keyOf[n] \in runtimes \/ n \in late \cup undercut

\* Goroutine t is about to register server n, or to stop it.
Attends(t, n) ==
    \/ num[t] = n /\ pc[t] \in {"starting", "noPid", "register"}
    \/ inst[t].pid = server[n].pid

\* A server that runs is registered, or a goroutine is about to register or stop
\* it, or it was sent SIGKILL, unless it is lost.
NoStrayServer ==
    \A n \in Calls :
        Live(n) => \/ server[n].sig = "kill"
                   \/ n \in lost
                   \/ \E k \in Keys : instances[k].pid = server[n].pid
                   \/ \E t \in Threads : Attends(t, n)

\* When nobody works on a key and it has no instance, its runtime directory, with
\* the password file in it, and the data directories made for it are gone.
NoResidue ==
    \A k \in Keys \ left :
        instances[k] = NoInstance /\ (\A t \in Threads : pc[t] = "idle" \/ Key(t) # k)
            => k \notin runtimes /\ \A n \in temps : keyOf[n] # k

\* Every call returns, although a server may hang when it starts and when it stops.
CallsReturn == \A t \in Procs : []<>(pc[t] = "idle")

\* In the end a shutdown leaves no server running but those that were lost: "reused
\* embedded Postgres instances ... will be stopped" as well.
ShutdownStopsServers ==
    <>[](shuttingDown => gs = "done" /\ \A n \in Calls : Live(n) => n \in lost)
=============================================================================
