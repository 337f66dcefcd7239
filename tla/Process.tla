------------------------------ MODULE Process -------------------------------
(***************************************************************************)
(* cmd/keychain: processes of the service start against one database, serve *)
(* requests and end by a signal, an error or a kill, and are started again. *)
(* What main does is pc; the goroutines it starts (Serve, the metrics       *)
(* server and its watcher) and the handlers run beside it.  Time is left    *)
(* out: a timer may run out at any moment once it is set.                   *)
(*                                                                          *)
(* An RPC is a CreateKey, two store calls of which the second writes.  The  *)
(* libraries are modelled from how main uses them: golang-migrate marks the *)
(* version dirty, runs the file and marks it clean, under a lock that ends  *)
(* with the process; grpc's Stop cancels the handlers without waiting for   *)
(* them; net/http's Shutdown closes the listener, then waits for the        *)
(* connections that are being served; pgxpool's Close refuses new           *)
(* acquisitions, then waits for the connections handed out.                 *)
(***************************************************************************)
EXTENDS Config, Naturals

CONSTANTS Procs, RPCs,
          NoProc,
          Environments,  \* those each process may be started with
          MaxStarts      \* bound on starts, all processes together

ASSUME NoProcAssumption == NoProc \notin Procs

VARIABLES env,       \* of each process: its command and KEYCHAIN_* variables
          proc,      \* of each process: see Started
          rpc,       \* of each RPC: where it is, its process, store calls made
          db,        \* schema, migration version, holder of its lock, rows
          starts

vars == <<env, proc, rpc, db, starts>>

\* What a process is made of when it starts:
\*   pc, code  where main is, and the exit status
\*   ctxDone   a signal has cancelled serve's context
\*   server    the gRPC server: "none", "serving", "failed" (Serve returned an
\*             error) or "stopped" (GracefulStop or Stop was called)
\*   forced    the grace period ran out and Stop was called
\*   store     "none", "open" or "closed"
\*   metrics   the metrics server's listener, "down" or "up"
\*   probe     a connection to the metrics server: "none", "active" while it is
\*             served, "left" once main's Shutdown ran out of time on it (one
\*             connection at a time is enough)
Started == [pc |-> "run", code |-> "none", ctxDone |-> FALSE, server |-> "none",
            forced |-> FALSE, store |-> "none", metrics |-> "down",
            probe |-> "none"]

cfg(p) == Load(env[p])

InFlight(p) == {r \in RPCs : rpc[r].proc = p /\ rpc[r].at \in {"running", "querying"}}
Querying(p) == {r \in InFlight(p) : rpc[r].at = "querying"}

Init ==
    /\ env \in [Procs -> UNION {Environments[p] : p \in Procs}]
    /\ \A p \in Procs : env[p] \in Environments[p]
    /\ proc = [p \in Procs |-> [Started EXCEPT !.pc = "exited"]]
    /\ rpc = [r \in RPCs |-> [at |-> "free", proc |-> NoProc, calls |-> 0,
                              cancelled |-> FALSE]]
    /\ db = [schema |-> FALSE, version |-> "none", lock |-> NoProc, rows |-> {}]
    /\ starts = 0

-----------------------------------------------------------------------------
(* Starting: main, run, serve, openStore.                                   *)

\* A step that changes this process only.
Becomes(p, state) ==
    /\ proc' = [proc EXCEPT ![p] = state]
    /\ UNCHANGED <<env, rpc, db, starts>>

\* The operating system starts the program, for the first time or again.
Start(p) ==
    /\ proc[p].pc = "exited" /\ starts < MaxStarts
    /\ starts' = starts + 1
    /\ proc' = [proc EXCEPT ![p] = Started]
    /\ UNCHANGED <<env, rpc, db>>

Unlocked(p) == IF db.lock = p THEN [db EXCEPT !.lock = NoProc] ELSE db

\* The process ends: its handlers go with it, and its hold on the lock.
Exit(p, status) ==
    /\ proc' = [proc EXCEPT ![p] = [Started EXCEPT !.pc = "exited", !.code = status]]
    /\ rpc' = [r \in RPCs |-> IF r \in InFlight(p)
                              THEN [rpc[r] EXCEPT !.at = "lost"] ELSE rpc[r]]
    /\ db' = Unlocked(p)
    /\ UNCHANGED <<env, starts>>

\* A kill, a crash, or a signal before serve has asked to be told of it.
Kill(p) == proc[p].pc # "exited" /\ Exit(p, "killed")

\* The commands other than serve end at once; print-config reports what
\* Validate says.
RunCommand(p) ==
    /\ proc[p].pc = "run" /\ env[p].cmd \notin {"", "serve"}
    /\ Exit(p, IF \/ env[p].cmd \in {"version", "help"}
                  \/ env[p].cmd = "print-config" /\ Validate(cfg(p))
               THEN "ok" ELSE "error")

ServeInvalid(p) ==
    /\ proc[p].pc = "run" /\ env[p].cmd \in {"", "serve"}
    /\ ~Validate(cfg(p))
    /\ Exit(p, "error")

ServeValid(p) ==
    /\ proc[p].pc = "run" /\ env[p].cmd \in {"", "serve"}
    /\ Validate(cfg(p))
    /\ Becomes(p, [proc[p] EXCEPT !.pc = "openStore"])

\* SIGINT or SIGTERM after NotifyContext; a second one changes nothing.
Signal(p) ==
    /\ proc[p].pc \notin {"run", "exited"} /\ ~proc[p].ctxDone
    /\ Becomes(p, [proc[p] EXCEPT !.ctxDone = TRUE])

\* openStore knows the two drivers Validate lets through.
OpenMemory(p) ==
    /\ proc[p].pc = "openStore" /\ cfg(p).store = "memory"
    /\ Becomes(p, [proc[p] EXCEPT !.pc = "listen", !.store = "open"])

-----------------------------------------------------------------------------
(* postgres.New and RunMigrations, which is given no context: a signal does *)
(* not interrupt it.                                                        *)

\* A step of p that leaves the database as d.
Migrated(p, l, d) ==
    /\ proc' = [proc EXCEPT ![p].pc = l]
    /\ db' = d
    /\ UNCHANGED <<env, rpc, starts>>

Migrating == {"openStore", "locked", "dirty", "ran"}

MigrateLock(p) ==
    /\ proc[p].pc = "openStore" /\ cfg(p).store = "postgres"
    /\ db.lock = NoProc
    /\ Migrated(p, "locked", [db EXCEPT !.lock = p])

\* Up finds the database current (ErrNoChange) ...
MigrateNoChange(p) ==
    /\ proc[p].pc = "locked" /\ db.version = "clean"
    /\ Migrated(p, "ping", Unlocked(p))

\* ... or behind: it marks it dirty before the migration runs ...
MigrateUp(p) ==
    /\ proc[p].pc = "locked" /\ db.version = "none"
    /\ Migrated(p, "dirty", [db EXCEPT !.version = "dirty"])

\* Mutant: whatever Up reports, the schema is taken to be current.
AnyErrorIsNoChange(p) ==
    /\ proc[p].pc = "locked" /\ db.version = "dirty"
    /\ Migrated(p, "ping", Unlocked(p))

\* ... or dirty, which is an error.
MigrateDirty(p) ==
    /\ proc[p].pc = "locked" /\ db.version = "dirty"
    /\ Exit(p, "error")

\* 0001_init.up.sql is sent as one statement list, one transaction.
MigrateRun(p) ==
    /\ proc[p].pc = "dirty"
    /\ Migrated(p, "ran", [db EXCEPT !.schema = TRUE])

MigrateClean(p) ==
    /\ proc[p].pc = "ran"
    /\ Migrated(p, "ping", [Unlocked(p) EXCEPT !.version = "clean"])

\* The DSN is refused, the database unreachable or the lock not to be had.
MigrateFails(p) ==
    /\ proc[p].pc \in Migrating /\ cfg(p).store = "postgres"
    /\ Exit(p, "error")

Ping(p) ==
    /\ proc[p].pc = "ping" /\ ~proc[p].ctxDone
    /\ Becomes(p, [proc[p] EXCEPT !.pc = "listen", !.store = "open"])

\* The database does not answer, or the context is done: the pool is closed.
PingFails(p) == proc[p].pc = "ping" /\ Exit(p, "error")

-----------------------------------------------------------------------------
(* serveWithContext and serveUntilDone.                                     *)

\* The listener is bound.  A metrics address that is taken is only logged, and
\* a Shutdown that came first keeps the metrics server from listening.
Listen(p) ==
    /\ proc[p].pc = "listen"
    /\ \E m \in {"up", "down"} :
          proc' = [proc EXCEPT ![p].pc = "select", ![p].server = "serving",
                               ![p].metrics = m]
    /\ UNCHANGED <<env, rpc, db, starts>>

\* The address is taken: the deferred closeStore runs and the error is returned.
ListenFails(p) ==
    /\ proc[p].pc = "listen"
    /\ Becomes(p, [proc[p] EXCEPT !.pc = "closeStore", !.code = "error"])

\* Accept fails for good.  The connections there are go on being served.
ServeFails(p) ==
    /\ proc[p].server = "serving"
    /\ Becomes(p, [proc[p] EXCEPT !.server = "failed"])

\* Mutant: the store is closed on the signal, before the handlers are done.
SelectDoneCloses(p) ==
    /\ proc[p].pc = "select" /\ proc[p].ctxDone
    /\ Becomes(p, [proc[p] EXCEPT !.pc = "stopping", !.server = "stopped",
                                  !.store = "closed"])

\* select takes either of two ready cases.  GracefulStop, in a goroutine of its
\* own, closes the listener; RPCs on their way in may still be let in (Accept).
SelectDone(p) ==
    /\ proc[p].pc = "select" /\ proc[p].ctxDone
    /\ Becomes(p, [proc[p] EXCEPT !.pc = "stopping", !.server = "stopped"])

\* Mutant: the metrics server is left running.
SelectErrorReturns(p) ==
    /\ proc[p].pc = "select" /\ proc[p].server = "failed"
    /\ Becomes(p, [proc[p] EXCEPT !.pc = "closeStore", !.code = "error"])

\* Mutant: Serve's result is not watched.
SelectErrorUnwatched(p) ==
    /\ proc[p].pc = "select" /\ proc[p].server = "failed" /\ proc[p].ctxDone
    /\ Becomes(p, [proc[p] EXCEPT !.pc = "shutdownMetrics", !.code = "error"])

SelectError(p) ==
    /\ proc[p].pc = "select" /\ proc[p].server = "failed"
    /\ Becomes(p, [proc[p] EXCEPT !.pc = "shutdownMetrics", !.code = "error"])

-----------------------------------------------------------------------------
(* gracefulStopWithTimeout.                                                 *)

\* Mutant: GracefulStop returns before the handlers have.
StoppedEarly(p) ==
    /\ proc[p].pc = "stopping"
    /\ Becomes(p, [proc[p] EXCEPT !.pc = "shutdownMetrics"])

\* GracefulStop has returned: the handlers have.
Stopped(p) ==
    /\ proc[p].pc = "stopping" /\ InFlight(p) = {}
    /\ Becomes(p, [proc[p] EXCEPT !.pc = "shutdownMetrics"])

\* Mutant: the grace period has no end.
GraceWaits(p) ==
    /\ proc[p].pc = "stopping" /\ InFlight(p) = {}
    /\ Becomes(p, [proc[p] EXCEPT !.pc = "shutdownMetrics"])

\* The grace period is over: Stop cancels the handlers' contexts.
GraceOver(p) ==
    /\ proc[p].pc = "stopping"
    /\ proc' = [proc EXCEPT ![p].pc = "shutdownMetrics", ![p].forced = TRUE]
    /\ rpc' = [r \in RPCs |-> IF r \in InFlight(p)
                              THEN [rpc[r] EXCEPT !.cancelled = TRUE] ELSE rpc[r]]
    /\ UNCHANGED <<env, db, starts>>

-----------------------------------------------------------------------------
(* The metrics server.  Shutdown closes the listener at once and waits, for *)
(* five seconds at most, until no connection is being served; its error is  *)
(* dropped.                                                                 *)

\* A connection is accepted ...
HealthzAccept(p) ==
    /\ proc[p].metrics = "up" /\ proc[p].probe = "none"
    /\ Becomes(p, [proc[p] EXCEPT !.probe = "active"])

\* ... and its request is answered, or it goes away.
HealthzAnswer(p) ==
    /\ proc[p].probe # "none"
    /\ Becomes(p, [proc[p] EXCEPT !.probe = "none"])

\* The goroutine that waits for the signal.  Nobody waits for it or asks
\* whether its Shutdown outlasted the connections.
MetricsWatcher(p) ==
    /\ proc[p].metrics = "up" /\ proc[p].ctxDone
    /\ Becomes(p, [proc[p] EXCEPT !.metrics = "down"])

shutdownMetrics(p) ==
    /\ proc[p].pc = "shutdownMetrics"
    /\ Becomes(p, [proc[p] EXCEPT !.pc = "drainMetrics", !.metrics = "down"])

MetricsDrained(p) ==
    /\ proc[p].pc = "drainMetrics" /\ proc[p].probe = "none"
    /\ Becomes(p, [proc[p] EXCEPT !.pc = "closeStore"])

\* The five seconds are over: the connection stays.
MetricsTimeout(p) ==
    /\ proc[p].pc = "drainMetrics" /\ proc[p].probe = "active"
    /\ Becomes(p, [proc[p] EXCEPT !.pc = "closeStore", !.probe = "left"])

-----------------------------------------------------------------------------
(* The deferred closeStore, and the return to main.                         *)

CloseStore(p) ==
    /\ proc[p].pc = "closeStore"
    /\ Becomes(p, [proc[p] EXCEPT !.pc = "closing",
                                  !.store = IF cfg(p).store = "postgres" THEN "closed" ELSE @])

\* pool.Close has all its connections back, and run returns.
Return(p) ==
    /\ proc[p].pc = "closing" /\ Querying(p) = {}
    /\ Exit(p, IF proc[p].code = "error" THEN "error" ELSE "ok")

-----------------------------------------------------------------------------
(* RPCs.                                                                    *)

\* A step that changes this RPC only.
Moves(r, state) ==
    /\ rpc' = [rpc EXCEPT ![r] = state]
    /\ UNCHANGED <<env, proc, db, starts>>

\* An RPC arrives, on a new connection or on one there is.  A graceful stop
\* may still let in those that were under way when it began.
Accept(p, r) ==
    /\ proc[p].server \in {"serving", "failed"} \/ proc[p].pc = "stopping"
    /\ rpc[r].at = "free"
    /\ Moves(r, [rpc[r] EXCEPT !.at = "running", !.proc = p])

\* The caller goes away: the handler's context is cancelled.
Disconnect(r) ==
    /\ rpc[r].at \in {"running", "querying"} /\ ~rpc[r].cancelled
    /\ Moves(r, [rpc[r] EXCEPT !.cancelled = TRUE])

Calling(r) == rpc[r].at = "running" /\ rpc[r].calls < 2
Driver(r) == cfg(rpc[r].proc).store

\* The memory store looks neither at the context nor at a Close.
MemoryCall(r) ==
    /\ Calling(r) /\ Driver(r) = "memory"
    /\ Moves(r, [rpc[r] EXCEPT !.calls = @ + 1])

Query(r) ==
    /\ Calling(r) /\ Driver(r) = "postgres" /\ ~rpc[r].cancelled
    /\ proc[rpc[r].proc].store = "open"
    /\ Moves(r, [rpc[r] EXCEPT !.at = "querying"])

\* Acquire on a closed pool, or with a cancelled context, fails.
PoolClosed(r) ==
    /\ Calling(r) /\ Driver(r) = "postgres"
    /\ proc[rpc[r].proc].store = "closed"
    /\ Moves(r, [rpc[r] EXCEPT !.at = "poolClosed"])

CallCancelled(r) ==
    /\ Calling(r) /\ Driver(r) = "postgres" /\ rpc[r].cancelled
    /\ Moves(r, [rpc[r] EXCEPT !.at = "failed"])

\* The database answers.
QueryDone(r) ==
    /\ rpc[r].at = "querying"
    /\ rpc' = [rpc EXCEPT ![r].at = "running", ![r].calls = @ + 1]
    /\ db' = IF rpc[r].calls = 1 THEN [db EXCEPT !.rows = @ \cup {r}] ELSE db
    /\ UNCHANGED <<env, proc, starts>>

\* The connection breaks or the context ends the wait, before or after the
\* statement ran.
QueryFails(r) ==
    /\ rpc[r].at = "querying"
    /\ rpc' = [rpc EXCEPT ![r].at = "failed"]
    /\ \/ db' = db
       \/ rpc[r].calls = 1 /\ db' = [db EXCEPT !.rows = @ \cup {r}]
    /\ UNCHANGED <<env, proc, starts>>

Answer(r) ==
    /\ rpc[r].at = "running" /\ rpc[r].calls = 2
    /\ Moves(r, [rpc[r] EXCEPT !.at = IF rpc[r].cancelled THEN "failed" ELSE "answered"])

-----------------------------------------------------------------------------
Startup(p) ==
    \/ RunCommand(p) \/ ServeInvalid(p) \/ ServeValid(p) \/ OpenMemory(p)
    \/ Ping(p) \/ PingFails(p) \/ Listen(p) \/ ListenFails(p)

Migrate(p) ==
    \/ MigrateLock(p) \/ MigrateNoChange(p) \/ MigrateUp(p) \/ MigrateDirty(p)
    \/ MigrateRun(p) \/ MigrateClean(p) \/ MigrateFails(p)

Main(p) ==
    \/ SelectDone(p) \/ SelectError(p) \/ Stopped(p) \/ GraceOver(p)
    \/ shutdownMetrics(p) \/ MetricsDrained(p) \/ MetricsTimeout(p)
    \/ CloseStore(p) \/ Return(p)

MetricsServer(p) == MetricsWatcher(p) \/ HealthzAccept(p) \/ HealthzAnswer(p)

Handler(r) ==
    \/ MemoryCall(r) \/ Query(r) \/ PoolClosed(r) \/ CallCancelled(r)
    \/ QueryFails(r) \/ Answer(r)

Next ==
    \/ \E p \in Procs : \/ Start(p) \/ Kill(p) \/ Signal(p)
                        \/ Startup(p) \/ Migrate(p) \/ Main(p) \/ ServeFails(p)
                        \/ MetricsServer(p)
    \/ \E p \in Procs, r \in RPCs : Accept(p, r)
    \/ \E r \in RPCs : Disconnect(r) \/ Handler(r) \/ QueryDone(r)

\* main goes on whenever it can: what it waits for beyond the migrations is
\* a signal, a timer or a context.  A statement whose context is cancelled
\* returns.  Nothing is assumed of the database, of callers or of failures.
Fairness ==
    /\ \A p \in Procs : WF_vars(Startup(p)) /\ WF_vars(Main(p))
    /\ \A r \in RPCs : WF_vars(rpc[r].cancelled /\ QueryFails(r))

Spec == Init /\ [][Next]_vars /\ Fairness

-----------------------------------------------------------------------------
\* Nobody is served from a schema that is missing or half migrated, however
\* many processes start at once and wherever one of them died before.
SchemaReady ==
    \A p \in Procs :
        proc[p].store = "open" /\ cfg(p).store = "postgres"
            => db.schema /\ db.version = "clean"

\* A handler finds its pool closed only if the grace period ran out on it or
\* Serve had failed: a graceful stop closes the store after its handlers.
PoolOutlivesHandlers ==
    [][\A r \in RPCs :
         rpc[r].at = "running" /\ rpc'[r].at = "poolClosed" =>
            LET p == proc[rpc[r].proc] IN p.forced \/ p.server = "failed"]_vars

\* Status 0 from serve means it was told to stop, and unless the grace period
\* ran out no RPC it accepted was cut off.
CleanExit ==
    [][\A p \in Procs :
         (/\ proc[p].pc # "exited" /\ proc'[p].pc = "exited"
          /\ proc'[p].code = "ok" /\ env[p].cmd \in {"", "serve"})
            => /\ proc[p].ctxDone
               /\ proc[p].forced \/ InFlight(p) = {}]_vars

\* No health probe is accepted by a process that has closed its store, and
\* one accepted before is still to be answered then only if main's Shutdown
\* of the metrics server ran out of time on it.
HealthzBacked ==
    \A p \in Procs :
        /\ proc[p].metrics = "up" => proc[p].store = "open"
        /\ proc[p].probe = "active" => proc[p].store = "open"

\* A key whose creation was answered by a process that was given a database
\* and not told to do without is in that database, whoever dies.
AnsweredIsDurable ==
    \A r \in {x \in RPCs : rpc[x].at = "answered"} :
        env[rpc[r].proc].url # "" /\ env[rpc[r].proc].store # "memory"
            => r \in db.rows

\* A signal ends the process, even if the database hangs, unless it came
\* during the migrations or Serve failed.
SignalEnds ==
    \A p \in Procs :
        proc[p].ctxDone /\ proc[p].pc \notin Migrating
            ~> proc[p].pc = "exited" \/ proc[p].server = "failed"

\* A failure of Serve ends the process too, but only if the statements its
\* handlers wait for are answered: nothing cancels them.
ServeFailureEnds ==
    (\A r \in RPCs : WF_vars(QueryDone(r))) =>
        \A p \in Procs : (proc[p].server = "failed" /\ proc[p].pc = "select")
                            ~> proc[p].pc = "exited"

=============================================================================
