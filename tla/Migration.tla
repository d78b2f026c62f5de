------------------------------ MODULE Migration ------------------------------
(***************************************************************************)
(* runMigrations of postgres/migrate.go, run by goroutines of several      *)
(* replicas against one database.                                          *)
(*                                                                         *)
(* Every statement goes through database/sql over the replica's pgxpool:   *)
(* it takes the session that was given back last, or opens one, and gives  *)
(* it back when it is done.  An advisory lock and a search_path belong to  *)
(* a session; so what one statement sets is there for the next one only if *)
(* the pool hands out the same session again, and the application uses the *)
(* same pool.                                                              *)
(*                                                                         *)
(* No statement names a schema: the migrations and the revisions table go  *)
(* to the schema that the search_path of their session finds.              *)
(*                                                                         *)
(* The Atlas executor is modelled by how runMigrations uses it: the        *)
(* pending files are those the revisions table does not have, and Execute  *)
(* runs a file's SQL, then writes its revision.                            *)
(***************************************************************************)
EXTENDS Naturals, Sequences, FiniteSets

CONSTANTS
    Replicas,    \* processes that share the database
    Migrators,   \* goroutines that call OpenPoolWithKey with a Migrator
    ReplicaOf,   \* ReplicaOf[m]: the replica m runs in
    MaxConns,    \* MaxConns of a replica's pool
    Latest,      \* the migration files have versions 1 .. Latest
    MigrationSchema, \* DBConfig.MigrationSchema
    DefaultSchema,   \* the schema of a session whose search_path is not set: "public",
                     \* which is what MigrationSchema is unless it is configured
    Baselines,   \* the answers Migrator.IsBaseline may give
    MaxPolls,    \* polls of the advisory lock that fit in its deadline
    MaxCalls,    \* bound: calls of runMigrations
    MaxCrashes,  \* bound: replicas that crash
    NoConn       \* no session

ASSUME MigrationAssumption ==
    /\ IsFiniteSet(Migrators)
    /\ ReplicaOf \in [Migrators -> Replicas]
    /\ MaxConns \in Nat \ {0}
    /\ Latest \in Nat
    /\ Baselines \in SUBSET BOOLEAN
    /\ MaxPolls \in Nat /\ MaxCalls \in Nat /\ MaxCrashes \in Nat
    /\ NoConn \notin Replicas \X (1 .. MaxConns)

Version == 1 .. Latest
First   == Version \cap {1}
Session == Replicas \X (1 .. MaxConns)
Schemas == {MigrationSchema, DefaultSchema}

SessionOf(r) == {s \in Session : s[1] = r}

VARIABLES
    idle,        \* idle[r]: the pool's idle sessions, the next one first
    app,         \* app[r]: the session the rest of the application uses
    conn,        \* conn[m]: the session of m's statement
    path,        \* sessions whose search_path is the migration schema
    held,        \* held[s]: how many times s holds the advisory lock
    tables,      \* schemas with a table atlas_schema_revisions
    recorded,    \* recorded[c]: versions in the revisions table of schema c
    execs,       \* execs[c][v]: how often the SQL of v was executed in schema c
    interrupted, \* versions whose SQL succeeded and whose revision was not written
    pc,
    todo,        \* todo[m]: pending versions
    polls,       \* polls[m]: failed attempts to lock, for the deadline
    err,         \* err[m]: the call is about to return an error
    ret,         \* ret[m]: what the last call of m returned
    calls,
    crashes

pool   == <<idle, app>>
db     == <<path, held, tables, recorded, execs, interrupted>>
local  == <<todo, polls, err>>
count  == <<calls, crashes>>
vars   == <<pool, conn, db, pc, local, ret, count>>

Work   == {"initTable", "pending", "baseline", "exec", "record"}
Locked == Work \cup {"unlock"}
Stmts  == {"setPath", "tryLock"} \cup Locked

Init ==
    /\ idle        = [r \in Replicas |-> <<>>]
    /\ app         = [r \in Replicas |-> NoConn]
    /\ conn        = [m \in Migrators |-> NoConn]
    /\ path        = {}
    /\ held        = [s \in Session |-> 0]
    /\ tables      = {}
    /\ recorded    = [c \in Schemas |-> {}]
    /\ execs       = [c \in Schemas |-> [v \in Version |-> 0]]
    /\ interrupted = {}
    /\ pc          = [m \in Migrators |-> "idle"]
    /\ todo        = [m \in Migrators |-> {}]
    /\ polls       = [m \in Migrators |-> 0]
    /\ err         = [m \in Migrators |-> FALSE]
    /\ ret         = [m \in Migrators |-> "none"]
    /\ calls       = 0
    /\ crashes     = 0

Goto(m, l) == pc' = [pc EXCEPT ![m] = l]

(***************************************************************************)
(* The pool: pgxpool hands out the idle session that came back last.       *)
(***************************************************************************)
Busy(r) == {app[r]} \cup {conn[m] : m \in {n \in Migrators : ReplicaOf[n] = r}}

\* Take session s out of the pool of r.
TakeSession(r, s) ==
    \/ /\ idle[r] # <<>>
       /\ s = Head(idle[r])
       /\ idle' = [idle EXCEPT ![r] = Tail(@)]
    \/ /\ idle[r] = <<>>
       /\ s \in SessionOf(r) \ Busy(r)
       /\ \A u \in SessionOf(r) \ Busy(r) : s[2] <= u[2]
       /\ UNCHANGED idle

GiveSession(r, s) == idle' = [idle EXCEPT ![r] = <<s>> \o @]

\* The application takes a connection for a query of its own, and gives it back.
AppTake(r) ==
    /\ app[r] = NoConn
    /\ \E s \in SessionOf(r) :
         /\ TakeSession(r, s)
         /\ app' = [app EXCEPT ![r] = s]
    /\ UNCHANGED <<conn, db, pc, local, ret, count>>

AppGive(r) ==
    /\ app[r] # NoConn
    /\ GiveSession(r, app[r])
    /\ app' = [app EXCEPT ![r] = NoConn]
    /\ UNCHANGED <<conn, db, pc, local, ret, count>>

\* The next statement of m gets its session.
Acquire(m) ==
    /\ pc[m] \in Stmts
    /\ conn[m] = NoConn
    /\ \E s \in SessionOf(ReplicaOf[m]) :
         /\ TakeSession(ReplicaOf[m], s)
         /\ conn' = [conn EXCEPT ![m] = s]
    /\ UNCHANGED <<app, db, pc, local, ret, count>>

\* Statement l of m is executed and its session given back.
Statement(m, l) ==
    /\ pc[m] = l
    /\ conn[m] # NoConn
    /\ GiveSession(ReplicaOf[m], conn[m])
    /\ conn' = [conn EXCEPT ![m] = NoConn]
    /\ UNCHANGED <<app, count>>

\* The schema that the statement of m works in.
SchemaOf(m) == IF conn[m] \in path THEN MigrationSchema ELSE DefaultSchema

(***************************************************************************)
(* runMigrations.                                                          *)
(***************************************************************************)
Call(m) ==
    /\ pc[m] = "idle"
    /\ calls < MaxCalls
    /\ calls' = calls + 1
    /\ ret' = [ret EXCEPT ![m] = "none"]
    /\ Goto(m, "setPath")
    /\ UNCHANGED <<pool, conn, db, local, crashes>>

SetPath(m) ==
    /\ Statement(m, "setPath")
    /\ path' = path \cup {conn[m]}
    /\ Goto(m, "tryLock")
    /\ UNCHANGED <<held, tables, recorded, execs, interrupted, local, ret>>

LockFree(s) == \A u \in Session \ {s} : held[u] = 0

\* Mutant: the answer of pg_try_advisory_lock is ignored.
TryLockIgnored(m) ==
    /\ Statement(m, "tryLock")
    /\ held' = IF LockFree(conn[m]) THEN [held EXCEPT ![conn[m]] = @ + 1] ELSE held
    /\ Goto(m, "initTable")
    /\ UNCHANGED <<path, tables, recorded, execs, interrupted, local, ret>>

\* Mutant: the attempts have no deadline.
TryLockForever(m) ==
    /\ Statement(m, "tryLock")
    /\ held' = IF LockFree(conn[m]) THEN [held EXCEPT ![conn[m]] = @ + 1] ELSE held
    /\ Goto(m, IF LockFree(conn[m]) THEN "initTable" ELSE "tryLock")
    /\ UNCHANGED <<path, tables, recorded, execs, interrupted, local, ret>>

\* Mutant: the deadline is looked at before the attempt is counted.
TryLockOneMore(m) ==
    /\ Statement(m, "tryLock")
    /\ held' = IF LockFree(conn[m]) THEN [held EXCEPT ![conn[m]] = @ + 1] ELSE held
    /\ polls' = [polls EXCEPT ![m] = IF LockFree(conn[m]) THEN 0 ELSE @ + 1]
    /\ Goto(m, IF LockFree(conn[m]) THEN "initTable"
               ELSE IF polls[m] <= MaxPolls THEN "tryLock" ELSE "idle")
    /\ UNCHANGED <<path, tables, recorded, execs, interrupted, todo, err, ret>>

\* pg_try_advisory_lock: a session that holds the lock gets it once more.  An attempt
\* that fails is repeated until the deadline, then the call fails without unlocking.
TryLock(m) ==
    /\ Statement(m, "tryLock")
    /\ UNCHANGED <<path, tables, recorded, execs, interrupted, todo, err>>
    /\ \/ /\ LockFree(conn[m])
          /\ held' = [held EXCEPT ![conn[m]] = @ + 1]
          /\ polls' = [polls EXCEPT ![m] = 0]
          /\ Goto(m, "initTable")
          /\ UNCHANGED ret
       \/ /\ ~LockFree(conn[m])
          /\ polls[m] < MaxPolls
          /\ polls' = [polls EXCEPT ![m] = @ + 1]
          /\ UNCHANGED <<held, pc, ret>>
       \/ /\ ~LockFree(conn[m])
          /\ polls[m] = MaxPolls
          /\ polls' = [polls EXCEPT ![m] = 0]
          /\ ret' = [ret EXCEPT ![m] = "error"]
          /\ Goto(m, "idle")
          /\ UNCHANGED held

\* CREATE TABLE IF NOT EXISTS atlas_schema_revisions.
InitTable(m) ==
    /\ Statement(m, "initTable")
    /\ tables' = tables \cup {SchemaOf(m)}
    /\ Goto(m, "pending")
    /\ UNCHANGED <<path, held, recorded, execs, interrupted, local, ret>>

\* The pending file that runs next.
NextFile(m) == CHOOSE v \in todo[m] : \A w \in todo[m] : v <= w

\* Where the call goes with files left to run: the next one, or the deferred unlock.
Continue(m, left) ==
    /\ todo' = [todo EXCEPT ![m] = left]
    /\ Goto(m, IF left = {} THEN "unlock" ELSE "exec")

\* The files that the revisions table in sight does not have.  If it is empty, a baseline
\* is to be written first.  Without a table the statement fails.
Pending(m) ==
    /\ Statement(m, "pending")
    /\ SchemaOf(m) \in tables
    /\ UNCHANGED <<db, polls, err, ret>>
    /\ LET known == recorded[SchemaOf(m)] IN
         \/ /\ known # {} \/ First = {} \/ FALSE \in Baselines
            /\ Continue(m, Version \ known)
         \/ /\ known = {} /\ First # {} /\ TRUE \in Baselines
            /\ Goto(m, "baseline")
            /\ UNCHANGED todo

\* The first file is recorded as applied without being executed.
Baseline(m) ==
    /\ Statement(m, "baseline")
    /\ SchemaOf(m) \in tables
    /\ recorded' = [recorded EXCEPT ![SchemaOf(m)] = @ \cup First]
    /\ Continue(m, Version \ First)
    /\ UNCHANGED <<path, held, tables, execs, interrupted, polls, err, ret>>

\* Mutant: the revision of a file is written when its SQL is about to run.
ExecRecorded(m) ==
    /\ Statement(m, "exec")
    /\ recorded' = [recorded EXCEPT ![SchemaOf(m)] = @ \cup {NextFile(m)}]
    /\ Goto(m, "record")
    /\ UNCHANGED <<path, held, tables, execs, interrupted, local, ret>>

\* Execute: the SQL of the next file, then its revision.
Exec(m) ==
    /\ Statement(m, "exec")
    /\ execs' = [execs EXCEPT ![SchemaOf(m)][NextFile(m)] = @ + 1]
    /\ Goto(m, "record")
    /\ UNCHANGED <<path, held, tables, recorded, interrupted, local, ret>>

\* Mutant: the revision is not written.
RecordNothing(m) ==
    /\ Statement(m, "record")
    /\ Continue(m, todo[m] \ {NextFile(m)})
    /\ UNCHANGED <<db, polls, err, ret>>

Record(m) ==
    /\ Statement(m, "record")
    /\ SchemaOf(m) \in tables
    /\ recorded' = [recorded EXCEPT ![SchemaOf(m)] = @ \cup {NextFile(m)}]
    /\ Continue(m, todo[m] \ {NextFile(m)})
    /\ UNCHANGED <<path, held, tables, execs, interrupted, polls, err, ret>>

\* The call returns what its migration came to.
Finish(m) ==
    /\ ret' = [ret EXCEPT ![m] = IF err[m] THEN "error" ELSE "ok"]
    /\ err' = [err EXCEPT ![m] = FALSE]
    /\ Goto(m, "idle")
    /\ UNCHANGED <<path, tables, recorded, execs, interrupted, todo, polls>>

\* pg_advisory_unlock on whatever session the pool hands out: without effect, but for a
\* warning, on one that does not hold the lock.
Unlock(m) ==
    /\ Statement(m, "unlock")
    /\ held' = [held EXCEPT ![conn[m]] = IF @ > 0 THEN @ - 1 ELSE 0]
    /\ Finish(m)

\* The unlock fails: a warning is logged, and the lock stays where it is.
UnlockFails(m) ==
    /\ Statement(m, "unlock")
    /\ Finish(m)
    /\ UNCHANGED held

\* A statement before the lock is held fails: the call returns at once.
FailsOutside(m) ==
    /\ \E l \in {"setPath", "tryLock"} : Statement(m, l)
    /\ polls' = [polls EXCEPT ![m] = 0]
    /\ ret' = [ret EXCEPT ![m] = "error"]
    /\ Goto(m, "idle")
    /\ UNCHANGED <<db, todo, err>>

\* Mutant: a file that fails does not stop the call.
FailsInsideGoesOn(m) ==
    /\ Statement(m, "exec")
    /\ Continue(m, todo[m] \ {NextFile(m)})
    /\ UNCHANGED <<db, polls, err, ret>>

\* A statement under the lock fails: the rest is not tried, the deferred unlock is.
FailsInside(m) ==
    /\ \E l \in Work : Statement(m, l)
    /\ interrupted' = IF pc[m] = "record" THEN interrupted \cup {NextFile(m)}
                                          ELSE interrupted
    /\ err' = [err EXCEPT ![m] = TRUE]
    /\ todo' = [todo EXCEPT ![m] = {}]
    /\ Goto(m, "unlock")
    /\ UNCHANGED <<path, held, tables, recorded, execs, polls, ret>>

(***************************************************************************)
(* A replica crashes and restarts: its sessions end, and with them their   *)
(* locks.                                                                  *)
(***************************************************************************)
Of(r) == {m \in Migrators : ReplicaOf[m] = r}

\* What a goroutine has after the restart of r.
Fresh(r, f, x) == [m \in Migrators |-> IF m \in Of(r) THEN x ELSE f[m]]

Crash(r) ==
    /\ crashes < MaxCrashes
    /\ crashes' = crashes + 1
    /\ interrupted' = interrupted \cup
            {NextFile(m) : m \in {n \in Of(r) : pc[n] = "record"}}
    /\ idle'  = [idle EXCEPT ![r] = <<>>]
    /\ app'   = [app EXCEPT ![r] = NoConn]
    /\ path'  = path \ SessionOf(r)
    /\ held'  = [s \in Session |-> IF s[1] = r THEN 0 ELSE held[s]]
    /\ conn'  = Fresh(r, conn, NoConn)
    /\ pc'    = Fresh(r, pc, "idle")
    /\ todo'  = Fresh(r, todo, {})
    /\ polls' = Fresh(r, polls, 0)
    /\ err'   = Fresh(r, err, FALSE)
    /\ ret'   = Fresh(r, ret, "none")
    /\ UNCHANGED <<tables, recorded, execs, calls>>

(***************************************************************************)
(* The specification.                                                      *)
(***************************************************************************)
Step(m) ==
    \/ Acquire(m) \/ SetPath(m) \/ TryLock(m) \/ InitTable(m) \/ Pending(m)
    \/ Baseline(m) \/ Exec(m) \/ Record(m) \/ Unlock(m) \/ UnlockFails(m)
    \/ FailsOutside(m) \/ FailsInside(m)

\* No call is left to make and none is running.
Quiet ==
    /\ calls = MaxCalls
    /\ \A m \in Migrators : pc[m] = "idle"
    /\ UNCHANGED vars

Next ==
    \/ \E m \in Migrators : Call(m) \/ Step(m)
    \/ \E r \in Replicas : AppTake(r) \/ AppGive(r) \/ Crash(r)
    \/ Quiet

Spec == Init /\ [][Next]_vars

\* Goroutines that can run do, and the application gives its connection back.
FairSpec ==
    /\ Spec
    /\ \A m \in Migrators : WF_vars(Step(m))
    /\ \A r \in Replicas : WF_vars(AppGive(r))

(***************************************************************************)
(* Properties.                                                             *)
(***************************************************************************)
Conn == Session \cup {NoConn}

\* Type invariant.
TypeOK ==
    /\ idle \in [Replicas -> Seq(Session)]
    /\ app \in [Replicas -> Conn]
    /\ conn \in [Migrators -> Conn]
    /\ path \in SUBSET Session
    /\ held \in [Session -> Nat]
    /\ tables \in SUBSET Schemas
    /\ recorded \in [Schemas -> SUBSET Version]
    /\ execs \in [Schemas -> [Version -> Nat]]
    /\ interrupted \in SUBSET Version
    /\ pc \in [Migrators -> {"idle"} \cup Stmts]
    /\ todo \in [Migrators -> SUBSET Version]
    /\ polls \in [Migrators -> 0 .. MaxPolls]
    /\ err \in [Migrators -> BOOLEAN]
    /\ ret \in [Migrators -> {"none", "ok", "error"}]
    /\ calls \in 0 .. MaxCalls
    /\ crashes \in 0 .. MaxCrashes

Inside == {m \in Migrators : pc[m] \in Locked}

\* "An advisory lock to prevent concurrent replicas from racing": goroutines between the
\* lock and the unlock are of one replica, although the lock is taken and given back on
\* whatever session the pool hands out, and may be taken again by the same session.
ReplicasExcluded == \A m, n \in Inside : ReplicaOf[m] = ReplicaOf[n]

\* While goroutines migrate, one session of their replica holds the lock, at least once
\* for each of them: no unlock of a finished call takes it from a running one.
LockCovers ==
    Inside # {} =>
        \E s \in Session :
            /\ held[s] >= Cardinality(Inside)
            /\ \A m \in Inside : ReplicaOf[m] = s[1]
            /\ LockFree(s)

\* With one goroutine per replica and the default schema, the SQL of a version is
\* executed again only if a crash or a failure came between the SQL and its revision.
ExecutedOnce ==
    \A c \in Schemas, v \in Version : execs[c][v] > 1 => v \in interrupted

\* A revisions table records what was executed, in some schema, and the baseline.
RecordedExecuted ==
    \A c \in Schemas : \A v \in recorded[c] :
        (\E d \in Schemas : execs[d][v] > 0) \/ (v = 1 /\ TRUE \in Baselines)

\* With the default schema, a call that returns without an error leaves it up to date:
\* "callers must not start the server" otherwise.
SuccessMeansCurrent ==
    [][\A m \in Migrators :
         ret'[m] = "ok" /\ ret[m] # "ok" => recorded[MigrationSchema] = Version]_vars

\* Every call returns, with an error if the lock stays taken until the deadline.
CallsReturn == \A m \in Migrators : []<>(pc[m] = "idle")

\* "Set search_path so that atlas operates within the specified schema."
WithinSchema ==
    \A m \in Migrators :
        pc[m] \in Work /\ conn[m] # NoConn
            => conn[m] \in path

\* "Migrations are idempotent (checking for pending migrations first)": no version is
\* executed twice when every revision is written.
AppliedOnce ==
    \A c \in Schemas, v \in Version : interrupted = {} => execs[c][v] <= 1
=============================================================================
