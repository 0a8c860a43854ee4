-------------------------------- MODULE Daemon --------------------------------
(****************************************************************************)
(* The daemon process (main.rs, daemon/mod.rs `run`, daemon/config.rs and   *)
(* the readiness probe of daemon/observe.rs) around DaemonLoop: load and    *)
(* validate the configuration, set up step by step, spawn the loop, serve   *)
(* until the token is cancelled, drain for a bounded time, exit.            *)
(*                                                                          *)
(* Where DaemonLoop lets the process exit at any time after a signal, here  *)
(* run decides when; and what a bad configuration would do is spelled out.  *)
(****************************************************************************)
EXTENDS DaemonLoop

CONSTANT Configs   \* configurations to start with: the fields that run may break on,
                   \*   guarded by validate or not, as integers

ASSUME ConfigsTyped ==
    Configs \subseteq [relays : Nat, concurrency : Nat, batch_size : Int,
                       reqs_per_second : Nat, per_relay_concurrency : Nat,
                       staleness_scan_interval : Nat, reclaim_interval : Nat,
                       progress_interval : Nat]

VARIABLES
    main,           \* where main and run stand
    cfg,
    ping,           \* a readiness request waits for its SELECT 1
    misconfigured   \* history: the fields of the configuration on which something
                    \*   broke after set-up began

processVars == <<main, cfg, ping, misconfigured>>
daemonVars == <<row, edges, clock, task, batch, loop, handles, first_err, cancelled,
                late, loop_alive, starts, faulted, main, cfg, ping, misconfigured>>

SetUp == {"database", "relays", "bind"}
Serves == {"serving", "draining"}

\* The periods of the timers and the two samplers, which validate does not look at.
Intervals == {"staleness_scan_interval", "reclaim_interval", "progress_interval"}
IntervalOf == [staleness_timer |-> "staleness_scan_interval",
               in_run_reclaim_timer |-> "reclaim_interval"]

\* tokio::time::interval panics on a zero period, before the timer's first sweep.
Panics(c) == {i \in Intervals : c[i] = 0}
Sweeps(timer) == IntervalOf[timer] \notin Panics(cfg)

DaemonInit ==
    /\ Init
    /\ main = "off"
    /\ cfg = Null
    /\ ping = FALSE
    /\ misconfigured = {}

-----------------------------------------------------------------------------
(* Start-up *)

\* Mutants: a guard of validate is forgotten.
validate_any_concurrency(c) ==
    c.relays > 0 /\ c.batch_size > 0 /\ c.reqs_per_second > 0 /\ c.per_relay_concurrency > 0
validate_any_rate(c) ==
    c.relays > 0 /\ c.concurrency > 0 /\ c.batch_size > 0 /\ c.per_relay_concurrency > 0

validate(c) ==
    /\ c.relays > 0
    /\ c.concurrency > 0
    /\ c.batch_size > 0
    /\ c.reqs_per_second > 0
    /\ c.per_relay_concurrency > 0

\* load_config: the file and the environment hold some configuration.
Load ==
    /\ main = "off"
    /\ starts < MaxStarts
    /\ main' = "validate"
    /\ cfg' \in Configs
    /\ UNCHANGED <<ping, misconfigured>>
    /\ UNCHANGED vars

Validate ==
    /\ main = "validate"
    /\ main' = IF validate(cfg) THEN "database" ELSE "off"
    /\ UNCHANGED <<cfg, ping, misconfigured>>
    /\ UNCHANGED vars

\* connect and run_migrations.
Connect ==
    /\ main = "database"
    /\ main' = "relays"
    /\ UNCHANGED <<cfg, ping, misconfigured>>
    /\ UNCHANGED vars

\* The token and the signal task exist; connect_curated, then the limiter's rate,
\* whose NonZeroU32 panics on zero.
ConnectCurated ==
    /\ main = "relays"
    /\ \/ /\ cfg.reqs_per_second > 0
          /\ main' = "bind"
          /\ UNCHANGED <<cfg, ping, misconfigured>>
          /\ UNCHANGED vars
       \/ /\ cfg.reqs_per_second = 0
          /\ Off
          /\ main' = "off"
          /\ misconfigured' = misconfigured \cup {"reqs_per_second"}
          /\ UNCHANGED <<cfg, ping, faulted>>

\* The listener is bound and the loop, the samplers and the timers are spawned, also
\* when the token was cancelled meanwhile.  A panic stays in its own task: run looks
\* at no handle before the drain, and there ignores how a timer ended.
Bind ==
    /\ main = "bind"
    /\ Start
    /\ main' = "serving"
    /\ misconfigured' = misconfigured \cup Panics(cfg)
    /\ UNCHANGED <<cfg, ping>>

\* A step of the set-up returns its error, and main exits.
SetUpFails ==
    /\ main \in SetUp
    /\ Off
    /\ main' = "off"
    /\ UNCHANGED <<cfg, ping, misconfigured, faulted>>

SignalInSetUp ==
    /\ main \in {"relays", "bind"}
    /\ ~cancelled
    /\ cancelled' = TRUE
    /\ UNCHANGED workerVars
    /\ UNCHANGED <<loop, handles, first_err, late, loop_alive, starts, faulted>>
    /\ UNCHANGED processVars

-----------------------------------------------------------------------------
(* Serving and shutdown *)

\* GET /health/ready with a live loop: the database is asked.
Probe ==
    /\ main = "serving" /\ ~cancelled
    /\ loop_alive
    /\ ping' = TRUE
    /\ UNCHANGED <<main, cfg, misconfigured>>
    /\ UNCHANGED vars

\* The ping is answered, or READY_PING_TIMEOUT ends it.
Answer ==
    /\ ping
    /\ ping' = FALSE
    /\ UNCHANGED <<main, cfg, misconfigured>>
    /\ UNCHANGED vars

\* Graceful shutdown of the server: cancelled, and no request is being served.
ServerDown ==
    /\ main = "serving" /\ cancelled
    /\ ~ping
    /\ main' = "draining"
    /\ UNCHANGED <<cfg, ping, misconfigured>>
    /\ UNCHANGED vars

\* Every task is joined: the loop has returned, no sweep is under way.
Drain ==
    /\ main = "draining"
    /\ loop \in Ended /\ late = {}
    /\ Exit
    /\ main' = "off"
    /\ UNCHANGED <<cfg, ping, misconfigured>>

\* Mutant: the loop is joined before the timeout starts to run.
ShutdownTimeout_after_join ==
    /\ main = "draining"
    /\ loop \in Ended
    /\ Exit
    /\ main' = "off"
    /\ UNCHANGED <<cfg, ping, misconfigured>>

\* SHUTDOWN_TIMEOUT is over: run returns, whatever the tasks are doing.
ShutdownTimeout ==
    /\ main = "draining"
    /\ Exit
    /\ main' = "off"
    /\ UNCHANGED <<cfg, ping, misconfigured>>

\* The process is killed, at any point.
Killed ==
    /\ main # "off"
    /\ Off
    /\ main' = "off"
    /\ ping' = FALSE
    /\ faulted' = (faulted \/ loop # "off")
    /\ UNCHANGED <<cfg, misconfigured>>

-----------------------------------------------------------------------------
(* The tasks, under this configuration *)

\* An empty semaphore lets nothing pass, and a negative LIMIT is an SQL error.
Permitted ==
    /\ loop = "permit" => cfg.concurrency > 0
    /\ loop = "claim" => cfg.batch_size >= 0

LoopTask == LoopStep /\ Permitted /\ UNCHANGED processVars

LoopError ==
    /\ LoopFail
    /\ misconfigured' = misconfigured \cup
          {f \in {"batch_size"} : loop = "claim" /\ cfg.batch_size < 0}
    /\ UNCHANGED <<main, cfg, ping>>

WorkerTask(w) ==
    /\ task[w].pc = "fetch" => cfg.per_relay_concurrency > 0
    /\ WorkerStep(w)
    /\ UNCHANGED processVars

\* A timer that has panicked sweeps no more, and is not in a sweep when the token is
\* cancelled.
Others ==
    /\ \/ Signal /\ \A timer \in late' : Sweeps(timer)
       \/ StalenessTimer /\ Sweeps("staleness_timer")
       \/ InRunReclaimTimer /\ Sweeps("in_run_reclaim_timer")
       \/ DaemonTick
       \/ \E w \in Tasks : WorkerFail(w)
       \/ main = "off" /\ Rest
    /\ UNCHANGED processVars

MainStep ==
    \/ Validate \/ Connect \/ ConnectCurated \/ Bind
    \/ Answer \/ ServerDown \/ Drain

DaemonNext ==
    \/ Load \/ MainStep \/ SetUpFails \/ SignalInSetUp
    \/ Probe \/ ShutdownTimeout \/ Killed
    \/ LoopTask \/ LoopError
    \/ \E w \in Tasks : WorkerTask(w)
    \/ Others

\* The runtime polls main; set-up, ping and server return or time out.
DaemonSpec == DaemonInit /\ [][DaemonNext]_daemonVars /\ WF_daemonVars(MainStep)

\* The runtime polls the loop and the workers, and no statement hangs.
TasksRun ==
    /\ WF_daemonVars(LoopTask)
    /\ \A w \in Tasks : WF_daemonVars(WorkerTask(w))

-----------------------------------------------------------------------------
\* OPS-02: with the loop and the workers running, the cancelled loop comes to its
\* end by itself, also when the signal arrived before it was spawned; no accepted
\* configuration leaves it waiting for permits that do not exist.
DrainCompletes == TasksRun => ShutdownCompletes

\* "a stuck task cannot hang shutdown": once SIGTERM is taken the process exits,
\* though the loop, a worker or the database never moves again: only main, the
\* ping's timeout and SHUTDOWN_TIMEOUT are relied on.
ProcessExits == WF_daemonVars(ShutdownTimeout) => (cancelled ~> main = "off")

\* OPS-01: a misconfigured daemon "dies at startup", not by a panic or an SQL error
\* "after DB/relay/loop setup", except on a zero interval, which validate accepts and
\* which silently ends the timer it is meant for.
DiesEarly == misconfigured \subseteq Intervals

\* OBS-03: the readiness flag says whether the loop runs: set once it has seeded
\* and reclaimed, cleared on every way it can end, errors and detached workers
\* included, and never left over from another process.
ReadyIsRunning == loop_alive <=> loop \in LoopStates \ (Ended \cup {"off", "seed", "reclaim"})
=============================================================================
