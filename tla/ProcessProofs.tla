---------------------------- MODULE ProcessProofs ---------------------------
(* Safety of Process, for every number of processes, RPCs and starts and    *)
(* every set of environments.                                               *)
EXTENDS Process, TLAPS

-----------------------------------------------------------------------------
(* The inductive invariant.                                                 *)

Holding == {"locked", "dirty", "ran"}
Before == {"exited", "run", "openStore", "ping"} \cup Holding
Ending == {"shutdownMetrics", "drainMetrics", "closeStore", "closing"}
PCs == Before \cup {"listen", "select", "stopping"} \cup Ending

ProcState ==
    [pc : PCs, code : {"none", "ok", "error", "killed"}, ctxDone : BOOLEAN,
     server : {"none", "serving", "failed", "stopped"}, forced : BOOLEAN,
     store : {"none", "open", "closed"}, metrics : {"down", "up"},
     probe : {"none", "active", "left"}]

\* What main has set up and taken down by the time it is at pc.
Orderly(s) ==
    /\ s.pc \in Before => s.server = "none" /\ s.store = "none"
    /\ s.pc = "listen" => s.server = "none" /\ s.store = "open"
    /\ s.pc \in Before \cup {"listen"} => s.metrics = "down" /\ s.probe = "none"
    /\ s.pc = "select" => s.server \in {"serving", "failed"} /\ s.store = "open"
    /\ s.pc = "stopping" => s.server = "stopped" /\ s.store = "open" /\ s.ctxDone
    /\ s.pc = "shutdownMetrics" => s.store = "open"
    /\ s.pc = "drainMetrics" => s.store = "open" /\ s.metrics = "down"
    /\ s.pc = "closeStore" => s.store = "open"
    /\ s.pc \in {"closeStore", "closing"} => s.metrics = "down" /\ s.probe # "active"
    /\ s.pc \in Ending => s.server # "serving"
    /\ s.pc \in Ending => s.code = "error" \/ (s.ctxDone /\ s.server = "stopped")

Current == db.schema /\ db.version = "clean"

DbState == [schema : BOOLEAN, version : {"none", "dirty", "clean"},
            lock : Procs \cup {NoProc}, rows : SUBSET RPCs]

\* A process and the database: one process migrates at a time, and whoever
\* has got past the migrations has seen them done.
ProcOK(p) ==
    /\ Orderly(proc[p])
    /\ proc[p].pc \in Holding <=> db.lock = p
    /\ proc[p].pc = "dirty" => db.version = "dirty"
    /\ proc[p].pc = "ran" => db.version = "dirty" /\ db.schema
    /\ proc[p].pc = "ping" => Current
    /\ proc[p].store # "none" /\ cfg(p).store = "postgres" => Current
    /\ proc[p].pc \notin {"run", "exited"} => Validate(cfg(p))

\* A process and its handlers: none before it serves, none left when a
\* graceful stop is over.
DrainOK(p) ==
    /\ proc[p].server = "none" => InFlight(p) = {}
    /\ proc[p].pc \in Ending =>
          proc[p].forced \/ proc[p].server = "failed" \/ InFlight(p) = {}

RpcState ==
    [at : {"free", "running", "querying", "poolClosed", "failed", "answered", "lost"},
     proc : Procs \cup {NoProc}, calls : 0 .. 2, cancelled : BOOLEAN]

\* An RPC is a validated process's, and a second call to a database that has
\* answered has left the row there.
RpcOK(r) ==
    /\ rpc[r].at = "free" => rpc[r].calls = 0
    /\ rpc[r].at = "querying" => rpc[r].calls < 2
    /\ rpc[r].at = "answered" => rpc[r].calls = 2
    /\ rpc[r].at # "free" => rpc[r].proc \in Procs /\ Validate(cfg(rpc[r].proc))
    /\ rpc[r].at # "free" /\ rpc[r].calls = 2 /\ Driver(r) = "postgres" => r \in db.rows

TypeOK == proc \in [Procs -> ProcState] /\ rpc \in [RPCs -> RpcState] /\ db \in DbState

Inv ==
    /\ TypeOK
    /\ db.version = "clean" => db.schema
    /\ \A p \in Procs : ProcOK(p) /\ DrainOK(p)
    /\ \A r \in RPCs : RpcOK(r)

-----------------------------------------------------------------------------
(* Steps by what they change.                                               *)

\* What the invariant asks of the state s that main of p goes on to.
Allows(p, s) ==
    /\ s \in ProcState /\ Orderly(s)
    /\ s.pc = proc[p].pc \/ (s.pc \notin Holding \cup {"ping"} /\ proc[p].pc \notin Holding)
    /\ s.store # "none" /\ cfg(p).store = "postgres" => Current
    /\ s.pc \notin {"run", "exited"} => Validate(cfg(p))
    /\ s.server = "none" => InFlight(p) = {}
    /\ s.pc \in Ending => s.forced \/ s.server = "failed" \/ InFlight(p) = {}

LEMMA OneProcess ==
    ASSUME Inv, NEW p \in Procs, NEW s, Allows(p, s), proc' = [proc EXCEPT ![p] = s],
           UNCHANGED <<env, rpc, db>>
    PROVE  Inv'
<1>1. /\ \A q \in Procs : proc'[q] = IF q = p THEN s ELSE proc[q]
      /\ TypeOK'
  BY DEF Inv, TypeOK, Allows
<1>2. \A q : InFlight(q)' = InFlight(q) /\ cfg(q)' = cfg(q)  BY DEF InFlight, cfg
<1>3. \A r \in RPCs : RpcOK(r)'  BY DEF Inv, RpcOK, Driver, cfg
<1>4. ASSUME NEW q \in Procs PROVE ProcOK(q)' /\ DrainOK(q)'
  <2>1. ProcOK(q) /\ DrainOK(q)  BY DEF Inv
  <2>2. CASE q # p  BY <1>1, <1>2, <2>1, <2>2 DEF ProcOK, DrainOK, Current
  <2>3. CASE q = p
    BY <1>1, <1>2, <2>1, <2>3 DEF ProcOK, DrainOK, Current, Allows, Holding
  <2> QED  BY <2>2, <2>3
<1> QED  BY <1>1, <1>3, <1>4 DEF Inv

\* The end of a process, however it comes about.
LEMMA ExitInv ==
    ASSUME Inv, NEW p \in Procs, NEW status \in {"ok", "error", "killed"}, Exit(p, status)
    PROVE  Inv'
<1> DEFINE s == [Started EXCEPT !.pc = "exited", !.code = status]
<1>1. s \in ProcState /\ Orderly(s) /\ s.pc = "exited" /\ s.store = "none" /\ s.server = "none"
  BY DEF Started, ProcState, Orderly, PCs, Before, Ending, Holding
<1>2. \A q \in Procs : proc'[q] = IF q = p THEN s ELSE proc[q]
  BY DEF Exit, Inv, TypeOK
<1> HIDE DEF s
<1>3. /\ db' \in DbState /\ db'.rows = db.rows
      /\ db'.version = db.version /\ db'.schema = db.schema
      /\ db'.lock = IF db.lock = p THEN NoProc ELSE db.lock
  BY DEF Exit, Unlocked, Inv, TypeOK, DbState
<1>4. /\ rpc' \in [RPCs -> RpcState]
      /\ \A r \in RPCs : /\ rpc'[r].proc = rpc[r].proc /\ rpc'[r].calls = rpc[r].calls
                         /\ rpc'[r].at = IF r \in InFlight(p) THEN "lost" ELSE rpc[r].at
  BY DEF Exit, Inv, TypeOK, RpcState
<1>5. TypeOK'
  BY <1>1, <1>3, <1>4 DEF Exit, Inv, TypeOK, s
<1>6. env' = env  BY DEF Exit
<1>7. InFlight(p)' = {} /\ \A q : InFlight(q)' \subseteq InFlight(q)
  BY <1>4 DEF InFlight
<1>8. \A r \in RPCs : RpcOK(r)'
  BY <1>3, <1>4, <1>6 DEF Inv, RpcOK, Driver, cfg, InFlight
<1>9. ASSUME NEW q \in Procs PROVE ProcOK(q)' /\ DrainOK(q)'
  <2>1. ProcOK(q) /\ DrainOK(q)  BY DEF Inv
  <2>2. CASE q # p
    BY <1>2, <1>3, <1>6, <1>7, <2>1, <2>2, NoProcAssumption
    DEF ProcOK, DrainOK, Current, cfg
  <2>3. CASE q = p
    BY <1>1, <1>2, <1>3, <1>7, <2>3, NoProcAssumption
    DEF ProcOK, DrainOK, Holding, Ending
  <2> QED  BY <2>2, <2>3
<1> QED  BY <1>3, <1>5, <1>8, <1>9 DEF Inv

\* One RPC changes, and perhaps its row.
LEMMA OneRpc ==
    ASSUME Inv, NEW r \in RPCs, NEW s \in RpcState, rpc' = [rpc EXCEPT ![r] = s],
           UNCHANGED <<env, proc>>,
           db' = db \/ db' = [db EXCEPT !.rows = @ \cup {r}],
           RpcOK(r)',
           \/ s.at \notin {"running", "querying"}
           \/ r \in InFlight(s.proc)
           \/ /\ s.proc \in Procs
              /\ proc[s.proc].server \in {"serving", "failed"} \/ proc[s.proc].pc = "stopping"
    PROVE  Inv'
<1>1. /\ \A t \in RPCs : rpc'[t] = IF t = r THEN s ELSE rpc[t]
      /\ rpc' \in [RPCs -> RpcState]
  BY DEF Inv, TypeOK
<1>2. /\ db' \in DbState /\ db.rows \subseteq db'.rows
      /\ db'.version = db.version /\ db'.schema = db.schema /\ db'.lock = db.lock
  BY DEF Inv, TypeOK, DbState
<1>3. TypeOK'  BY <1>1, <1>2 DEF Inv, TypeOK
<1>4. ASSUME NEW t \in RPCs PROVE RpcOK(t)'
  <2>1. CASE t # r  BY <1>1, <1>2, <2>1 DEF Inv, RpcOK, Driver, cfg
  <2> QED  BY <2>1
<1>5. ASSUME NEW q \in Procs PROVE ProcOK(q)' /\ DrainOK(q)'
  <2>1. ProcOK(q) /\ DrainOK(q)  BY DEF Inv
  <2>2. ProcOK(q)'  BY <1>2, <2>1 DEF ProcOK, Current, cfg
  <2>3. \/ InFlight(q)' \subseteq InFlight(q)
        \/ proc[q].server \in {"serving", "failed"} \/ proc[q].pc = "stopping"
    BY <1>1 DEF InFlight
  <2>4. /\ proc[q].pc \in Ending => proc[q].server # "serving"
        /\ proc[q].pc = "stopping" => proc[q].server = "stopped"
    BY <2>1 DEF ProcOK, Orderly
  <2> QED  BY <2>1, <2>2, <2>3, <2>4 DEF DrainOK, Ending
<1> QED  BY <1>2, <1>3, <1>4, <1>5 DEF Inv

-----------------------------------------------------------------------------
(* Each step preserves the invariant.                                       *)

LEMMA BecomesInv ==
    ASSUME Inv, NEW p \in Procs, NEW s, Allows(p, s), Becomes(p, s)
    PROVE  Inv'
BY OneProcess DEF Becomes

\* What the invariant says of one process.
LEMMA ProcFacts ==
    ASSUME Inv, NEW p \in Procs
    PROVE  /\ proc[p] \in ProcState /\ Orderly(proc[p])
           /\ ProcOK(p) /\ DrainOK(p)
BY DEF Inv, TypeOK, ProcOK

LEMMA StartupInv ==
    ASSUME Inv, NEW p \in Procs, Startup(p) \/ Start(p) \/ Signal(p) \/ Kill(p)
    PROVE  Inv'
<1>1. proc[p] \in ProcState /\ Orderly(proc[p]) /\ ProcOK(p) /\ DrainOK(p)
  BY ProcFacts
<1> USE DEF ProcState, Orderly, PCs, Before, Ending, Holding, Allows
<1>2. CASE RunCommand(p) \/ ServeInvalid(p) \/ PingFails(p) \/ Kill(p)
  BY <1>2, ExitInv DEF RunCommand, ServeInvalid, PingFails, Kill
<1>3. CASE ServeValid(p)
  <2> DEFINE s == [proc[p] EXCEPT !.pc = "openStore"]
  <2>1. Allows(p, s)  BY <1>1, <1>3 DEF ServeValid, ProcOK, DrainOK
  <2> HIDE DEF s
  <2> QED  BY <1>3, <2>1, BecomesInv DEF ServeValid, s
<1>4. CASE OpenMemory(p)
  <2> DEFINE s == [proc[p] EXCEPT !.pc = "listen", !.store = "open"]
  <2>1. Allows(p, s)  BY <1>1, <1>4 DEF OpenMemory, ProcOK, DrainOK
  <2> HIDE DEF s
  <2> QED  BY <1>4, <2>1, BecomesInv DEF OpenMemory, s
<1>5. CASE Ping(p)
  <2> DEFINE s == [proc[p] EXCEPT !.pc = "listen", !.store = "open"]
  <2>1. Allows(p, s)  BY <1>1, <1>5 DEF Ping, ProcOK, DrainOK
  <2> HIDE DEF s
  <2> QED  BY <1>5, <2>1, BecomesInv DEF Ping, s
<1>6. CASE Listen(p)
  <2>1. PICK m \in {"up", "down"} :
           proc' = [proc EXCEPT ![p].pc = "select", ![p].server = "serving", ![p].metrics = m]
    BY <1>6 DEF Listen
  <2> DEFINE s == [proc[p] EXCEPT !.pc = "select", !.server = "serving", !.metrics = m]
  <2>2. Allows(p, s)  BY <1>1, <1>6 DEF Listen, ProcOK, DrainOK
  <2>3. proc' = [proc EXCEPT ![p] = s]  BY <2>1 DEF Inv, TypeOK
  <2> HIDE DEF s
  <2> QED  BY <1>6, <2>2, <2>3, OneProcess DEF Listen
<1>7. CASE ListenFails(p)
  <2> DEFINE s == [proc[p] EXCEPT !.pc = "closeStore", !.code = "error"]
  <2>1. Allows(p, s)  BY <1>1, <1>7 DEF ListenFails, ProcOK, DrainOK
  <2> HIDE DEF s
  <2> QED  BY <1>7, <2>1, BecomesInv DEF ListenFails, s
<1>8. CASE Start(p)
  <2>1. Allows(p, Started)  BY <1>1, <1>8 DEF Start, ProcOK, DrainOK, Started
  <2> QED  BY <1>8, <2>1, OneProcess DEF Start
<1>9. CASE Signal(p)
  <2> DEFINE s == [proc[p] EXCEPT !.ctxDone = TRUE]
  <2>1. Allows(p, s)  BY <1>1, <1>9 DEF Signal, ProcOK, DrainOK
  <2> HIDE DEF s
  <2> QED  BY <1>9, <2>1, BecomesInv DEF Signal, s
<1> QED  BY <1>2, <1>3, <1>4, <1>5, <1>6, <1>7, <1>8, <1>9 DEF Startup

\* The grace period is over: the handlers that are left are cancelled, and
\* still in flight.
LEMMA GraceInv ==
    ASSUME Inv, NEW p \in Procs, GraceOver(p)
    PROVE  Inv'
<1>1. proc[p] \in ProcState /\ Orderly(proc[p]) /\ ProcOK(p) /\ DrainOK(p)
  BY ProcFacts
<1> DEFINE s == [proc[p] EXCEPT !.pc = "shutdownMetrics", !.forced = TRUE]
<1>2. /\ s \in ProcState /\ s.pc = "shutdownMetrics" /\ s.forced
      /\ s.server = "stopped" /\ s.store = "open" /\ Orderly(s)
  BY <1>1 DEF GraceOver, ProcState, Orderly, PCs, Before, Ending, Holding
<1>3. \A q \in Procs : proc'[q] = IF q = p THEN s ELSE proc[q]
  BY DEF GraceOver, Inv, TypeOK
<1>4. /\ rpc' \in [RPCs -> RpcState]
      /\ \A r \in RPCs : /\ rpc'[r].proc = rpc[r].proc /\ rpc'[r].calls = rpc[r].calls
                         /\ rpc'[r].at = rpc[r].at
  BY DEF GraceOver, Inv, TypeOK, RpcState
<1>5. UNCHANGED <<env, db>> /\ proc' \in [Procs -> ProcState]
  BY <1>2 DEF GraceOver, Inv, TypeOK
<1>6. \A q : InFlight(q)' = InFlight(q)  BY <1>4 DEF InFlight
<1> HIDE DEF s
<1>7. \A r \in RPCs : RpcOK(r)'  BY <1>4, <1>5 DEF Inv, RpcOK, Driver, cfg
<1>8. ASSUME NEW q \in Procs PROVE ProcOK(q)' /\ DrainOK(q)'
  <2>1. ProcOK(q) /\ DrainOK(q)  BY DEF Inv
  <2>2. CASE q # p  BY <1>3, <1>5, <1>6, <2>1, <2>2 DEF ProcOK, DrainOK, Current, cfg
  <2>3. CASE q = p
    BY <1>1, <1>2, <1>3, <1>5, <1>6, <2>1, <2>3
    DEF ProcOK, DrainOK, Current, cfg, GraceOver, Holding
  <2> QED  BY <2>2, <2>3
<1> QED  BY <1>4, <1>5, <1>7, <1>8 DEF Inv, TypeOK

LEMMA MainInv ==
    ASSUME Inv, NEW p \in Procs, Main(p) \/ ServeFails(p) \/ MetricsServer(p)
    PROVE  Inv'
<1>1. proc[p] \in ProcState /\ Orderly(proc[p]) /\ ProcOK(p) /\ DrainOK(p)
  BY ProcFacts
<1> USE DEF ProcState, Orderly, PCs, Before, Ending, Holding, Allows
<1>2. CASE SelectDone(p)
  <2> DEFINE s == [proc[p] EXCEPT !.pc = "stopping", !.server = "stopped"]
  <2>1. Allows(p, s)  BY <1>1, <1>2 DEF SelectDone, ProcOK, DrainOK
  <2> HIDE DEF s
  <2> QED  BY <1>2, <2>1, BecomesInv DEF SelectDone, s
<1>3. CASE SelectError(p)
  <2> DEFINE s == [proc[p] EXCEPT !.pc = "shutdownMetrics", !.code = "error"]
  <2>1. Allows(p, s)  BY <1>1, <1>3 DEF SelectError, ProcOK, DrainOK
  <2> HIDE DEF s
  <2> QED  BY <1>3, <2>1, BecomesInv DEF SelectError, s
<1>4. CASE Stopped(p)
  <2> DEFINE s == [proc[p] EXCEPT !.pc = "shutdownMetrics"]
  <2>1. Allows(p, s)  BY <1>1, <1>4 DEF Stopped, ProcOK, DrainOK
  <2> HIDE DEF s
  <2> QED  BY <1>4, <2>1, BecomesInv DEF Stopped, s
<1>5. CASE shutdownMetrics(p)
  <2> DEFINE s == [proc[p] EXCEPT !.pc = "drainMetrics", !.metrics = "down"]
  <2>1. Allows(p, s)  BY <1>1, <1>5 DEF shutdownMetrics, ProcOK, DrainOK
  <2> HIDE DEF s
  <2> QED  BY <1>5, <2>1, BecomesInv DEF shutdownMetrics, s
<1>6. CASE CloseStore(p)
  <2> DEFINE s == [proc[p] EXCEPT !.pc = "closing",
                      !.store = IF cfg(p).store = "postgres" THEN "closed" ELSE @]
  <2>1. Allows(p, s)  BY <1>1, <1>6 DEF CloseStore, ProcOK, DrainOK
  <2>2. Becomes(p, s)  BY <1>6 DEF CloseStore
  <2> HIDE DEF s, Allows
  <2> QED  BY <2>1, <2>2, BecomesInv
<1>7. CASE Return(p)
  <2>1. CASE Exit(p, "error")  BY <2>1, ExitInv
  <2>2. CASE Exit(p, "ok")  BY <2>2, ExitInv
  <2> QED  BY <1>7, <2>1, <2>2 DEF Return
<1>8. CASE ServeFails(p)
  <2> DEFINE s == [proc[p] EXCEPT !.server = "failed"]
  <2>1. Allows(p, s)  BY <1>1, <1>8 DEF ServeFails, ProcOK, DrainOK
  <2> HIDE DEF s
  <2> QED  BY <1>8, <2>1, BecomesInv DEF ServeFails, s
<1>9. CASE MetricsWatcher(p)
  <2> DEFINE s == [proc[p] EXCEPT !.metrics = "down"]
  <2>1. Allows(p, s)  BY <1>1, <1>9 DEF MetricsWatcher, ProcOK, DrainOK
  <2> HIDE DEF s
  <2> QED  BY <1>9, <2>1, BecomesInv DEF MetricsWatcher, s
<1>10. CASE GraceOver(p)  BY <1>10, GraceInv
<1>11. CASE MetricsDrained(p)
  <2> DEFINE s == [proc[p] EXCEPT !.pc = "closeStore"]
  <2>1. Allows(p, s)  BY <1>1, <1>11 DEF MetricsDrained, ProcOK, DrainOK
  <2> HIDE DEF s
  <2> QED  BY <1>11, <2>1, BecomesInv DEF MetricsDrained, s
<1>12. CASE MetricsTimeout(p)
  <2> DEFINE s == [proc[p] EXCEPT !.pc = "closeStore", !.probe = "left"]
  <2>1. Allows(p, s)  BY <1>1, <1>12 DEF MetricsTimeout, ProcOK, DrainOK
  <2> HIDE DEF s
  <2> QED  BY <1>12, <2>1, BecomesInv DEF MetricsTimeout, s
<1>13. CASE HealthzAccept(p)
  <2> DEFINE s == [proc[p] EXCEPT !.probe = "active"]
  <2>1. Allows(p, s)  BY <1>1, <1>13 DEF HealthzAccept, ProcOK, DrainOK
  <2> HIDE DEF s
  <2> QED  BY <1>13, <2>1, BecomesInv DEF HealthzAccept, s
<1>14. CASE HealthzAnswer(p)
  <2> DEFINE s == [proc[p] EXCEPT !.probe = "none"]
  <2>1. Allows(p, s)  BY <1>1, <1>14 DEF HealthzAnswer, ProcOK, DrainOK
  <2> HIDE DEF s
  <2> QED  BY <1>14, <2>1, BecomesInv DEF HealthzAnswer, s
<1> QED
  BY <1>2, <1>3, <1>4, <1>5, <1>6, <1>7, <1>8, <1>9, <1>10, <1>11, <1>12, <1>13, <1>14
  DEF Main, MetricsServer

\* The migrations: whoever holds the lock is the only one that writes.
LEMMA MigrateInv ==
    ASSUME Inv, NEW p \in Procs, Migrate(p)
    PROVE  Inv'
<1>1. proc[p] \in ProcState /\ Orderly(proc[p]) /\ ProcOK(p) /\ DrainOK(p)
  BY ProcFacts
<1>2. CASE MigrateDirty(p) \/ MigrateFails(p)
  BY <1>2, ExitInv DEF MigrateDirty, MigrateFails
<1>3. ASSUME NEW l \in Holding \cup {"ping"}, NEW d \in DbState, Migrated(p, l, d),
             proc[p].pc \in {"openStore"} \cup Holding,
             d.rows = db.rows, d.version = "clean" => d.schema,
             l \in Holding <=> d.lock = p,
             \A q \in Procs \ {p} : (d.lock = q) <=> (db.lock = q),
             Current => d.schema /\ d.version = "clean",
             d.version # db.version \/ d.schema # db.schema => db.lock = p,
             l = "dirty" => d.version = "dirty",
             l = "ran" => d.version = "dirty" /\ d.schema,
             l = "ping" => d.version = "clean" /\ d.schema,
             Validate(cfg(p))
      PROVE  Inv'
  <2> DEFINE s == [proc[p] EXCEPT !.pc = l]
  <2>1. /\ s \in ProcState /\ Orderly(s) /\ s.pc = l /\ s.store = "none"
        /\ s.server = "none"
    BY <1>1, <1>3 DEF ProcState, Orderly, PCs, Before, Holding, Ending
  <2>2. \A q \in Procs : proc'[q] = IF q = p THEN s ELSE proc[q]
    BY <1>3 DEF Migrated, Inv, TypeOK
  <2>3. db' = d /\ UNCHANGED <<env, rpc>> /\ proc' \in [Procs -> ProcState]
    BY <1>3, <2>1 DEF Migrated, Inv, TypeOK
  <2> HIDE DEF s
  <2>4. TypeOK'  BY <1>3, <2>3 DEF Inv, TypeOK
  <2>5. \A q : InFlight(q)' = InFlight(q)  BY <2>3 DEF InFlight
  <2>6. \A r \in RPCs : RpcOK(r)'  BY <1>3, <2>3 DEF Inv, RpcOK, Driver, cfg
  <2>7. ASSUME NEW q \in Procs PROVE ProcOK(q)' /\ DrainOK(q)'
    <3>1. ProcOK(q) /\ DrainOK(q)  BY DEF Inv
    <3>2. CASE q # p
      BY <1>3, <2>2, <2>3, <2>5, <3>1, <3>2, NoProcAssumption
      DEF ProcOK, DrainOK, Current, cfg, Holding
    <3>3. CASE q = p
      BY <1>3, <2>1, <2>2, <2>3, <2>5, <1>1, <3>3
      DEF ProcOK, DrainOK, Current, cfg, Holding, Ending, Orderly, Before
    <3> QED  BY <3>2, <3>3
  <2> QED  BY <1>3, <2>3, <2>4, <2>6, <2>7 DEF Inv
<1>4. db \in DbState /\ (db.version = "clean" => db.schema)  BY DEF Inv, TypeOK
<1>5. proc[p].pc \in {"openStore"} \cup Holding => Validate(cfg(p))
  BY <1>1 DEF ProcOK, Holding
<1>6. CASE MigrateLock(p)
  <2> DEFINE d == [db EXCEPT !.lock = p]
  <2>1. /\ d \in DbState /\ d.rows = db.rows /\ d.version = db.version
        /\ d.schema = db.schema /\ d.lock = p
    BY <1>4 DEF DbState
  <2>2. Migrated(p, "locked", d) /\ proc[p].pc = "openStore" /\ db.lock = NoProc
    BY <1>6 DEF MigrateLock
  <2> HIDE DEF d
  <2> QED  BY <1>3, <1>4, <1>5, <2>1, <2>2, NoProcAssumption DEF Holding, Current
<1>7. CASE MigrateNoChange(p)
  <2> DEFINE d == Unlocked(p)
  <2>1. /\ proc[p].pc = "locked" /\ db.version = "clean" /\ db.lock = p
        /\ Migrated(p, "ping", d)
    BY <1>1, <1>7 DEF MigrateNoChange, ProcOK, Holding
  <2>2. /\ d \in DbState /\ d.rows = db.rows /\ d.version = db.version
        /\ d.schema = db.schema /\ d.lock = NoProc
    BY <1>4, <2>1 DEF DbState, Unlocked
  <2> HIDE DEF d
  <2> QED  BY <1>3, <1>4, <1>5, <2>1, <2>2, NoProcAssumption DEF Holding, Current
<1>8. CASE MigrateUp(p)
  <2> DEFINE d == [db EXCEPT !.version = "dirty"]
  <2>1. /\ proc[p].pc = "locked" /\ db.version = "none" /\ db.lock = p
        /\ Migrated(p, "dirty", d)
    BY <1>1, <1>8 DEF MigrateUp, ProcOK, Holding
  <2>2. /\ d \in DbState /\ d.rows = db.rows /\ d.version = "dirty"
        /\ d.schema = db.schema /\ d.lock = db.lock
    BY <1>4 DEF DbState
  <2> HIDE DEF d
  <2> QED  BY <1>3, <1>5, <2>1, <2>2 DEF Holding, Current
<1>9. CASE MigrateRun(p)
  <2> DEFINE d == [db EXCEPT !.schema = TRUE]
  <2>1. /\ proc[p].pc = "dirty" /\ db.version = "dirty" /\ db.lock = p
        /\ Migrated(p, "ran", d)
    BY <1>1, <1>9 DEF MigrateRun, ProcOK, Holding
  <2>2. /\ d \in DbState /\ d.rows = db.rows /\ d.version = db.version
        /\ d.schema = TRUE /\ d.lock = db.lock
    BY <1>4 DEF DbState
  <2> HIDE DEF d
  <2> QED  BY <1>3, <1>5, <2>1, <2>2 DEF Holding, Current
<1>10. CASE MigrateClean(p)
  <2> DEFINE d == [Unlocked(p) EXCEPT !.version = "clean"]
  <2>1. /\ proc[p].pc = "ran" /\ db.schema /\ db.lock = p
        /\ Migrated(p, "ping", d)
    BY <1>1, <1>10 DEF MigrateClean, ProcOK, Holding
  <2>2. /\ d \in DbState /\ d.rows = db.rows /\ d.version = "clean"
        /\ d.schema = db.schema /\ d.lock = NoProc
    BY <1>4, <2>1 DEF DbState, Unlocked
  <2> HIDE DEF d
  <2> QED  BY <1>3, <1>5, <2>1, <2>2, NoProcAssumption DEF Holding, Current
<1> QED  BY <1>2, <1>6, <1>7, <1>8, <1>9, <1>10 DEF Migrate

\* An RPC and the process that runs it.
LEMMA RpcFacts ==
    ASSUME Inv, NEW r \in RPCs
    PROVE  /\ rpc[r] \in RpcState /\ RpcOK(r)
           /\ rpc[r].at \in {"running", "querying"} => r \in InFlight(rpc[r].proc)
BY DEF Inv, TypeOK, InFlight

LEMMA HandlerInv ==
    ASSUME Inv, NEW r \in RPCs,
           Disconnect(r) \/ Handler(r) \/ QueryDone(r) \/ \E p \in Procs : Accept(p, r)
    PROVE  Inv'
<1>1. /\ rpc[r] \in RpcState /\ RpcOK(r)
      /\ rpc[r].at \in {"running", "querying"} => r \in InFlight(rpc[r].proc)
  BY RpcFacts
<1>2. rpc \in [RPCs -> RpcState] /\ db \in DbState  BY DEF Inv, TypeOK
\* What r goes on to is sound, and of the process it was of.
<1>3. ASSUME NEW s \in RpcState, rpc' = [rpc EXCEPT ![r] = s], UNCHANGED <<env, proc>>,
             db' = db \/ db' = [db EXCEPT !.rows = @ \cup {r}],
             rpc[r].at \in {"running", "querying"}, s.proc = rpc[r].proc, s.at # "free",
             s.at = "querying" => s.calls < 2, s.at = "answered" => s.calls = 2,
             s.calls = 2 /\ Driver(r) = "postgres" => r \in db'.rows
      PROVE  Inv'
  <2>1. rpc'[r] = s  BY <1>2, <1>3
  <2>2. RpcOK(r)'  BY <1>1, <1>3, <2>1 DEF RpcOK, Driver, cfg
  <2> QED  BY <1>1, <1>3, <2>2, OneRpc
<1>4. rpc[r].calls = 2 /\ rpc[r].at # "free" /\ Driver(r) = "postgres" => r \in db.rows
  BY <1>1 DEF RpcOK
<1>5. ASSUME NEW s \in RpcState, Moves(r, s),
             rpc[r].at \in {"running", "querying"}, s.proc = rpc[r].proc, s.at # "free",
             s.at = "querying" => s.calls < 2, s.at = "answered" => s.calls = 2,
             s.calls = rpc[r].calls \/ Driver(r) # "postgres"
      PROVE  Inv'
  BY <1>3, <1>4, <1>5 DEF Moves
<1>6. CASE Disconnect(r)
  <2> DEFINE s == [rpc[r] EXCEPT !.cancelled = TRUE]
  <2>1. /\ s \in RpcState /\ s.proc = rpc[r].proc /\ s.at = rpc[r].at
        /\ s.calls = rpc[r].calls
    BY <1>1 DEF RpcState
  <2> HIDE DEF s
  <2> QED  BY <1>1, <1>5, <1>6, <2>1 DEF Disconnect, RpcOK, s
<1>7. CASE MemoryCall(r)
  <2> DEFINE s == [rpc[r] EXCEPT !.calls = @ + 1]
  <2>1. s \in RpcState /\ s.proc = rpc[r].proc /\ s.at = "running"
    BY <1>1, <1>7 DEF RpcState, MemoryCall, Calling
  <2> HIDE DEF s
  <2> QED  BY <1>5, <1>7, <2>1 DEF MemoryCall, Calling, s
<1>8. CASE Query(r)
  <2> DEFINE s == [rpc[r] EXCEPT !.at = "querying"]
  <2>1. /\ s \in RpcState /\ s.proc = rpc[r].proc /\ s.at = "querying"
        /\ s.calls = rpc[r].calls
    BY <1>1 DEF RpcState
  <2> HIDE DEF s
  <2> QED  BY <1>5, <1>8, <2>1 DEF Query, Calling, s
<1>9. CASE PoolClosed(r)
  <2> DEFINE s == [rpc[r] EXCEPT !.at = "poolClosed"]
  <2>1. /\ s \in RpcState /\ s.proc = rpc[r].proc /\ s.at = "poolClosed"
        /\ s.calls = rpc[r].calls
    BY <1>1 DEF RpcState
  <2> HIDE DEF s
  <2> QED  BY <1>5, <1>9, <2>1 DEF PoolClosed, Calling, s
<1>10. CASE CallCancelled(r)
  <2> DEFINE s == [rpc[r] EXCEPT !.at = "failed"]
  <2>1. /\ s \in RpcState /\ s.proc = rpc[r].proc /\ s.at = "failed"
        /\ s.calls = rpc[r].calls
    BY <1>1 DEF RpcState
  <2> HIDE DEF s
  <2> QED  BY <1>5, <1>10, <2>1 DEF CallCancelled, Calling, s
<1>11. CASE Answer(r)
  <2>1. ASSUME NEW a \in {"failed", "answered"}, Moves(r, [rpc[r] EXCEPT !.at = a])
        PROVE  Inv'
    <3> DEFINE s == [rpc[r] EXCEPT !.at = a]
    <3>1. s \in RpcState /\ s.proc = rpc[r].proc /\ s.at = a /\ s.calls = rpc[r].calls
      BY <1>1 DEF RpcState
    <3>2. Moves(r, s)  BY <2>1
    <3> HIDE DEF s
    <3> QED  BY <1>5, <1>11, <3>1, <3>2 DEF Answer
  <2>2. CASE rpc[r].cancelled  BY <1>11, <2>1, <2>2 DEF Answer
  <2>3. CASE ~rpc[r].cancelled  BY <1>11, <2>1, <2>3 DEF Answer
  <2> QED  BY <2>2, <2>3
\* The statement that writes the row is the second.
<1>12. CASE QueryDone(r)
  <2> DEFINE s == [rpc[r] EXCEPT !.at = "running", !.calls = @ + 1]
  <2>1. rpc[r].at = "querying" /\ rpc[r].calls \in 0 .. 1
    BY <1>1, <1>12 DEF QueryDone, RpcOK, RpcState
  <2>2. PICK c \in 0 .. 2 : c = rpc[r].calls + 1  BY <2>1
  <2>3. /\ s \in RpcState /\ s.proc = rpc[r].proc /\ s.at = "running"
        /\ s.calls = rpc[r].calls + 1
    BY <1>1, <2>2 DEF RpcState
  <2>4. rpc' = [rpc EXCEPT ![r] = s]  BY <1>2, <1>12 DEF QueryDone
  <2>5. s.calls = 2 => r \in db'.rows
    BY <1>2, <1>12, <2>1, <2>3 DEF QueryDone, DbState
  <2> HIDE DEF s
  <2> QED  BY <1>3, <1>12, <2>1, <2>3, <2>4, <2>5 DEF QueryDone
<1>13. CASE QueryFails(r)
  <2> DEFINE s == [rpc[r] EXCEPT !.at = "failed"]
  <2>1. rpc[r].at = "querying" /\ rpc[r].calls < 2
    BY <1>1, <1>13 DEF QueryFails, RpcOK
  <2>2. /\ s \in RpcState /\ s.proc = rpc[r].proc /\ s.at = "failed"
        /\ s.calls = rpc[r].calls
    BY <1>1 DEF RpcState
  <2>3. rpc' = [rpc EXCEPT ![r] = s]  BY <1>2, <1>13 DEF QueryFails
  <2>4. s.calls # 2  BY <1>1, <2>1, <2>2 DEF RpcState
  <2> HIDE DEF s
  <2> QED  BY <1>3, <1>13, <2>1, <2>2, <2>3, <2>4 DEF QueryFails
<1>14. ASSUME NEW p \in Procs, Accept(p, r) PROVE Inv'
  <2> DEFINE s == [rpc[r] EXCEPT !.at = "running", !.proc = p]
  <2>1. s \in RpcState /\ s.proc = p /\ s.at = "running" /\ s.calls = 0
    BY <1>1, <1>14 DEF RpcState, RpcOK, Accept
  <2>2. rpc' = [rpc EXCEPT ![r] = s] /\ UNCHANGED <<env, proc, db>>
    BY <1>14 DEF Accept, Moves
  <2> HIDE DEF s
  <2>3. /\ proc[p].server \in {"serving", "failed"} \/ proc[p].pc = "stopping"
        /\ Validate(cfg(p))
    BY <1>14, ProcFacts DEF Accept, ProcOK, Orderly, Before
  <2>4. rpc'[r] = s  BY <1>2, <2>2
  <2>5. RpcOK(r)'  BY <2>1, <2>2, <2>3, <2>4 DEF RpcOK, cfg
  <2> QED  BY <2>1, <2>2, <2>3, <2>5, OneRpc
<1> QED
  BY <1>6, <1>7, <1>8, <1>9, <1>10, <1>11, <1>12, <1>13, <1>14 DEF Handler

LEMMA InvInit == Init => Inv
<1> SUFFICES ASSUME Init PROVE Inv  OBVIOUS
<1>1. TypeOK
  <2>1. [Started EXCEPT !.pc = "exited"] \in ProcState
    BY DEF Started, ProcState, PCs, Before
  <2>2. [at |-> "free", proc |-> NoProc, calls |-> 0, cancelled |-> FALSE] \in RpcState
    BY DEF RpcState
  <2>3. db \in DbState  BY DEF Init, DbState
  <2> QED  BY <2>1, <2>2, <2>3 DEF Init, TypeOK
<1>2. ASSUME NEW p \in Procs PROVE ProcOK(p) /\ DrainOK(p)
  <2>1. proc[p].pc = "exited" /\ Orderly(proc[p]) /\ proc[p].store = "none"
    BY DEF Init, Started, Orderly, Before, Holding, Ending
  <2>2. InFlight(p) = {} /\ db.lock = NoProc  BY DEF Init, InFlight
  <2> QED  BY <2>1, <2>2, NoProcAssumption DEF ProcOK, DrainOK, Holding, Ending
<1>3. \A r \in RPCs : RpcOK(r)  BY DEF Init, RpcOK
<1> QED  BY <1>1, <1>2, <1>3 DEF Inv, Init

LEMMA InvStep == Inv /\ [Next]_vars => Inv'
<1> SUFFICES ASSUME Inv, [Next]_vars PROVE Inv'  OBVIOUS
<1>1. CASE Next  BY <1>1, StartupInv, MigrateInv, MainInv, HandlerInv DEF Next
<1>2. CASE UNCHANGED vars
  BY <1>2 DEF vars, Inv, TypeOK, ProcOK, DrainOK, RpcOK, Current, InFlight, Driver, cfg
<1> QED  BY <1>1, <1>2

LEMMA Safe == Spec => []Inv
BY InvInit, InvStep, PTL DEF Spec

-----------------------------------------------------------------------------
(* What it means.                                                           *)

\* However many processes start at once against one database, and wherever
\* one of them was killed in its migrations, none serves from a schema that
\* is missing or half migrated: the lock lets one migrate at a time, and a
\* dirty version lets nobody past.
THEOREM SchemasReady == Spec => []SchemaReady
<1>1. Inv => SchemaReady  BY DEF Inv, ProcOK, Current, SchemaReady
<1> QED  BY <1>1, Safe, PTL

\* Whichever way serve ends, the metrics server's listener is closed before
\* the store is, and a probe that is still to be answered when closeStore runs
\* is one on which main's Shutdown had run out of time.
THEOREM HealthTrue == Spec => []HealthzBacked
<1>1. Inv => HealthzBacked
  BY ProcFacts
  DEF HealthzBacked, Orderly, ProcState, PCs, Before, Holding, Ending
<1> QED  BY <1>1, Safe, PTL

\* A CreateKey answered by a process that was given a database, and not told
\* to keep its keys in memory, has left its row in that database, whichever
\* process is killed afterwards.
THEOREM AnswersDurable == Spec => []AnsweredIsDurable
<1>1. ASSUME NEW e, Validate(Load(e)), e.url # "", e.store # "memory"
      PROVE  Load(e).store = "postgres"
  BY <1>1 DEF Validate, Load, getEnv, ToLower
<1>2. Inv => AnsweredIsDurable
  BY <1>1 DEF Inv, RpcOK, Driver, cfg, AnsweredIsDurable
<1> QED  BY <1>2, Safe, PTL

\* A step that makes a handler find its pool closed is that handler's.
LEMMA WhoFindsItClosed ==
    ASSUME Inv, Next, NEW r \in RPCs, rpc[r].at = "running", rpc'[r].at = "poolClosed"
    PROVE  PoolClosed(r)
<1>1. rpc \in [RPCs -> RpcState] /\ \A t \in RPCs : rpc[t] \in RpcState
  BY DEF Inv, TypeOK
<1>2. rpc' # rpc  OBVIOUS
<1>3. ASSUME NEW p, NEW c PROVE ~Exit(p, c)
  BY <1>1 DEF Exit, RpcState
<1>4. ASSUME NEW p PROVE ~GraceOver(p)
  BY <1>1 DEF GraceOver, RpcState
<1>5. ASSUME NEW p \in Procs
      PROVE  /\ ~Start(p) /\ ~Kill(p) /\ ~Signal(p) /\ ~Startup(p)
             /\ ~ServeFails(p) /\ ~MetricsServer(p)
  BY <1>2, <1>3
  DEF Start, Kill, Signal, Startup, ServeFails, MetricsServer, MetricsWatcher,
      HealthzAccept, HealthzAnswer, Becomes, RunCommand,
      ServeInvalid, ServeValid, OpenMemory, Ping, PingFails, Listen, ListenFails
<1>6. ASSUME NEW p \in Procs PROVE ~Migrate(p)
  BY <1>2, <1>3
  DEF Migrate, Migrated, MigrateLock, MigrateNoChange, MigrateUp, MigrateDirty,
      MigrateRun, MigrateClean, MigrateFails
<1>7. ASSUME NEW p \in Procs PROVE ~Main(p)
  BY <1>2, <1>3, <1>4
  DEF Main, Becomes, SelectDone, SelectError, Stopped, shutdownMetrics, MetricsDrained,
      MetricsTimeout, CloseStore, Return
<1>8. ASSUME NEW p \in Procs, NEW t \in RPCs PROVE ~Accept(p, t)
  BY <1>1 DEF Accept, Moves, RpcState
<1>9. PICK t \in RPCs : Disconnect(t) \/ Handler(t) \/ QueryDone(t)
  BY <1>5, <1>6, <1>7, <1>8 DEF Next
<1>10. t = r
  BY <1>1, <1>9
  DEF Disconnect, Handler, QueryDone, MemoryCall, Query, PoolClosed, CallCancelled,
      QueryFails, Answer, Moves
<1> HIDE DEF Inv
<1> QED
  BY <1>1, <1>9, <1>10
  DEF Disconnect, Handler, QueryDone, MemoryCall, Query, CallCancelled, QueryFails,
      Answer, Moves, RpcState

\* The deferred closeStore runs after every handler a graceful stop waits
\* for: only a grace period that ran out, or a Serve that failed, lets a
\* handler meet a closed pool.
THEOREM DrainBeforeClose == Spec => PoolOutlivesHandlers
<1> DEFINE Drained ==
      \A r \in RPCs :
         rpc[r].at = "running" /\ rpc'[r].at = "poolClosed" =>
            LET p == proc[rpc[r].proc] IN p.forced \/ p.server = "failed"
<1>1. Inv /\ [Next]_vars => [Drained]_vars
  <2> SUFFICES ASSUME Inv, Next, NEW r \in RPCs, rpc[r].at = "running",
                      rpc'[r].at = "poolClosed"
               PROVE  proc[rpc[r].proc].forced \/ proc[rpc[r].proc].server = "failed"
    OBVIOUS
  <2> DEFINE p == rpc[r].proc
  <2>1. PoolClosed(r)  BY WhoFindsItClosed
  <2>2. p \in Procs /\ proc[p].store = "closed" /\ r \in InFlight(p)
    BY <2>1 DEF PoolClosed, Inv, RpcOK, InFlight
  <2> HIDE DEF p
  <2>3. proc[p] \in ProcState /\ Orderly(proc[p]) /\ DrainOK(p)  BY <2>2, ProcFacts
  <2>4. proc[p].pc \in Ending
    BY <2>2, <2>3 DEF Orderly, ProcState, PCs, Ending
  <2> QED  BY <2>2, <2>3, <2>4 DEF DrainOK, p
<1> QED  BY <1>1, Safe, PTL DEF Spec, PoolOutlivesHandlers

\* Of serve, only the return of run ends with status 0.
LEMMA WhoEndsWell ==
    ASSUME Inv, Next, NEW p \in Procs, proc[p].pc # "exited", proc'[p].pc = "exited",
           proc'[p].code = "ok", env[p].cmd \in {"", "serve"}
    PROVE  Return(p) /\ proc[p].code # "error"
<1>1. /\ proc \in [Procs -> ProcState]
      /\ \A q \in Procs : proc[q] \in ProcState
  BY DEF Inv, TypeOK
<1>2. ASSUME NEW q \in Procs, NEW c \in {"ok", "error", "killed"}, Exit(q, c)
      PROVE  q = p /\ c = "ok"
  BY <1>1, <1>2 DEF Exit, Started
<1>3. ASSUME NEW q \in Procs, Start(q) \/ Kill(q)  PROVE FALSE
  <2>1. ~Kill(q)  BY <1>2 DEF Kill
  <2> QED  BY <1>1, <1>3, <2>1 DEF Start, Started
<1>4. proc' # proc  OBVIOUS
<1>5. ASSUME NEW q \in Procs, Signal(q) \/ ServeFails(q) \/ MetricsServer(q)
      PROVE  FALSE
  <2>1. CASE Signal(q)  BY <1>1, <2>1 DEF Signal, ProcState, Becomes
  <2>2. CASE ServeFails(q)  BY <1>1, <2>2 DEF ServeFails, ProcState, Becomes
  <2>3. ASSUME MetricsServer(q) PROVE FALSE
    <3>1. CASE MetricsWatcher(q)  BY <1>1, <3>1 DEF MetricsWatcher, ProcState, Becomes
    <3>2. CASE HealthzAccept(q)  BY <1>1, <3>2 DEF HealthzAccept, ProcState, Becomes
    <3>3. CASE HealthzAnswer(q)  BY <1>1, <3>3 DEF HealthzAnswer, ProcState, Becomes
    <3> QED  BY <2>3, <3>1, <3>2, <3>3 DEF MetricsServer
  <2> QED  BY <1>5, <2>1, <2>2, <2>3
<1>6. ASSUME NEW q \in Procs, Startup(q) PROVE FALSE
  <2>1. ~RunCommand(q) /\ ~ServeInvalid(q) /\ ~PingFails(q)
    BY <1>2 DEF RunCommand, ServeInvalid, PingFails
  <2>2. ~ServeValid(q) /\ ~OpenMemory(q) /\ ~Ping(q) /\ ~ListenFails(q)
    BY <1>1 DEF ServeValid, OpenMemory, Ping, ListenFails, ProcState, Becomes
  <2>3. ASSUME Listen(q) PROVE FALSE
    <3>1. PICK m \in {"up", "down"} :
             proc' = [proc EXCEPT ![q].pc = "select", ![q].server = "serving", ![q].metrics = m]
      BY <2>3 DEF Listen
    <3> QED  BY <1>1, <3>1 DEF ProcState
  <2> QED  BY <1>6, <2>1, <2>2, <2>3 DEF Startup
<1>7. ASSUME NEW q \in Procs PROVE ~Migrate(q)
  <2>1. ~MigrateDirty(q) /\ ~MigrateFails(q)
    BY <1>2 DEF MigrateDirty, MigrateFails
  <2>2. ASSUME NEW l \in {"locked", "ping", "dirty", "ran"}, NEW d
        PROVE  ~Migrated(q, l, d)
    BY <1>1 DEF Migrated, ProcState
  <2> QED
    BY <2>1, <2>2
    DEF Migrate, MigrateLock, MigrateNoChange, MigrateUp, MigrateRun, MigrateClean
<1>8. ASSUME NEW q \in Procs, Main(q) PROVE Return(p) /\ proc[p].code # "error"
  <2>1. ~SelectDone(q) /\ ~SelectError(q) /\ ~Stopped(q)
    BY <1>1 DEF SelectDone, SelectError, Stopped, ProcState, Becomes
  <2>2. ~shutdownMetrics(q) /\ ~MetricsDrained(q) /\ ~MetricsTimeout(q) /\ ~CloseStore(q)
    BY <1>1 DEF shutdownMetrics, MetricsDrained, MetricsTimeout, CloseStore, ProcState, Becomes
  <2>3. ~GraceOver(q)  BY <1>1 DEF GraceOver, ProcState
  <2>4. Return(q)  BY <1>8, <2>1, <2>2, <2>3 DEF Main
  <2> QED  BY <1>2, <2>4 DEF Return
<1>9. ASSUME NEW q \in Procs, NEW r \in RPCs PROVE ~Accept(q, r)
  BY <1>4 DEF Accept, Moves
<1>10. ASSUME NEW r \in RPCs PROVE ~(Disconnect(r) \/ Handler(r) \/ QueryDone(r))
  BY <1>4
  DEF Disconnect, Handler, QueryDone, MemoryCall, Query, PoolClosed, CallCancelled,
      QueryFails, Answer, Moves
<1> QED  BY <1>3, <1>5, <1>6, <1>7, <1>8, <1>9, <1>10 DEF Next

\* Exit status 0 of serve: it was told to stop, and unless the grace period
\* ran out every RPC it accepted had returned.
THEOREM StatusTold == Spec => CleanExit
<1> DEFINE Clean ==
      \A p \in Procs :
         (/\ proc[p].pc # "exited" /\ proc'[p].pc = "exited"
          /\ proc'[p].code = "ok" /\ env[p].cmd \in {"", "serve"})
            => /\ proc[p].ctxDone
               /\ proc[p].forced \/ InFlight(p) = {}
<1>1. Inv /\ [Next]_vars => [Clean]_vars
  <2> SUFFICES ASSUME Inv, Next, NEW p \in Procs, proc[p].pc # "exited",
                      proc'[p].pc = "exited", proc'[p].code = "ok",
                      env[p].cmd \in {"", "serve"}
               PROVE  proc[p].ctxDone /\ (proc[p].forced \/ InFlight(p) = {})
    OBVIOUS
  <2>1. proc[p].pc = "closing" /\ proc[p].code # "error"
    BY WhoEndsWell DEF Return
  <2>2. Orderly(proc[p]) /\ DrainOK(p)  BY ProcFacts
  <2> QED  BY <2>1, <2>2 DEF Orderly, DrainOK, Ending
<1> QED  BY <1>1, Safe, PTL DEF Spec, CleanExit

=============================================================================
