---------------------------- MODULE SystemStatus ----------------------------
(***************************************************************************)
(* What decides whether a pipeline run may trade: the key system:status,   *)
(* written by the operator, by whatever halts automatically and by the     *)
(* start and the shutdown of the application; and the circuit breaker, set *)
(* by RiskManager.validate when a rule halts the system.  The breaker has  *)
(* a key in Redis and, when activate is given a session, an event in the   *)
(* database from which the startup reconciler recovers it.                 *)
(*                                                                         *)
(* The runs are of one execution mode: they share one portfolio row lock.  *)
(***************************************************************************)
EXTENDS Integers, FiniteSets

CONSTANTS
    Runs,         \* the pipeline runs
    PersistTrip,  \* TRUE: activate is given the run's session.  RiskManager
                  \* gives none; the tests of the breaker do.
    Faults,       \* a subset of {"crash", "shutdown", "redis", "database"}
    MaxFaults,    \* bound on their number
    OperatorActs  \* a subset of {"halt", "resume"}

ASSUME RunsFinite == IsFiniteSet(Runs)
ASSUME FaultsKnown ==
    Faults \subseteq {"crash", "shutdown", "redis", "database"}
ASSUME StatusBounds == MaxFaults \in Nat /\ PersistTrip \in BOOLEAN

VARIABLES
    status,    \* Redis: system:status ("NONE" when the key is not there)
    breaker,   \* Redis: circuit_breaker:active is "1"
    event,     \* database: the last committed breaker event
    breach,    \* database: the portfolio breaks the daily loss or drawdown limit
    app,       \* where the application's start or life stands
    pc,        \* process: where each run stands
    resuming,  \* process: a resume request found the breaker clear
    tripped,   \* history: the breaker was activated, "now", or "earlier" if
               \* the application or Redis has restarted since; never reset
    faults     \* faults so far (bounded by MaxFaults)

redis == <<status, breaker>>
vars == <<redis, event, breach, app, pc, resuming, tripped, faults>>
-----------------------------------------------------------------------------
\* Mutant: a refused run keeps its transaction open.
HoldingAfterRefusal == {"locked", "evaluating", "tripping", "done"}

\* From SELECT ... FOR UPDATE to the end of the run's transaction.
Holding == {"locked", "evaluating", "tripping"}

\* Mutant: the portfolio's row is not locked.
LockFreeAlways == TRUE

\* SELECT ... FOR UPDATE on the portfolio is granted.
LockFree == \A r \in Runs : pc[r] \notin Holding

Serving == app = "serving"

TypeOK ==
    /\ status \in {"NONE", "RUNNING", "HALTED", "SHUTTING_DOWN"}
    /\ breaker \in BOOLEAN
    /\ event \in {"none", "activated"}
    /\ breach \in BOOLEAN
    /\ app \in {"down", "cleaned", "recovered", "serving"}
    /\ pc \in [Runs -> {"idle", "waiting", "locked", "evaluating",
                        "tripping", "admitted", "done"}]
    /\ resuming \in BOOLEAN
    /\ tripped \in {"never", "earlier", "now"}
    /\ faults \in 0 .. MaxFaults

Init ==
    /\ status = "RUNNING"
    /\ breaker = FALSE
    /\ event = "none"
    /\ breach = FALSE
    /\ app = "serving"
    /\ pc = [r \in Runs |-> "idle"]
    /\ resuming = FALSE
    /\ tripped = "never"
    /\ faults = 0
-----------------------------------------------------------------------------
(* The pipeline, up to the commit that makes its order SUBMITTING.         *)

Goto(r, from, to) == Serving /\ pc[r] = from /\ pc' = [pc EXCEPT ![r] = to]

\* Step 1: no key reads as RUNNING.
Running(current) == current \in {"RUNNING", "NONE"}

CheckStatus(r) ==
    /\ Goto(r, "idle", IF Running(status) THEN "waiting" ELSE "done")
    /\ UNCHANGED <<redis, event, breach, app, resuming, tripped, faults>>

\* Step 2.
Lock(r) ==
    /\ Goto(r, "waiting", "locked")
    /\ LockFree
    /\ UNCHANGED <<redis, event, breach, app, resuming, tripped, faults>>

\* Step 3: an active breaker rejects the intent.
CheckBreaker(r) ==
    /\ Goto(r, "locked", IF breaker THEN "done" ELSE "evaluating")
    /\ UNCHANGED <<redis, event, breach, app, resuming, tripped, faults>>

\* Mutant: the breach is reported, the breaker is not set.
TripReported == breaker

\* activate sets the key at once.
Trip == TRUE

\* Step 3: a rule halts the system.  The caller's commit follows.
HaltSystem(r) ==
    /\ Goto(r, "evaluating", "tripping")
    /\ breach
    /\ breaker' = Trip
    /\ tripped' = "now"
    /\ UNCHANGED <<status, event, breach, app, resuming, faults>>

TripEvent(current) == IF PersistTrip THEN "activated" ELSE current

CommitTrip(r) ==
    /\ Goto(r, "tripping", "done")
    /\ event' = TripEvent(event)
    /\ UNCHANGED <<redis, breach, app, resuming, tripped, faults>>

\* Steps 3 to 6 refuse for any other reason.
Reject(r) ==
    /\ Goto(r, "evaluating", "done")
    /\ UNCHANGED <<redis, event, breach, app, resuming, tripped, faults>>

\* Step 8: the order is committed, and with it the lock given up.
Admit(r) ==
    /\ Goto(r, "evaluating", "admitted")
    /\ ~breach
    /\ UNCHANGED <<redis, event, breach, app, resuming, tripped, faults>>
-----------------------------------------------------------------------------
(* The operator, automatic halts, closes and the daily reset.              *)

\* POST /system/halt.
OperatorHalt ==
    /\ Serving /\ "halt" \in OperatorActs
    /\ status' = "HALTED"
    /\ UNCHANGED <<breaker, event, breach, app, pc, resuming, tripped, faults>>

\* HealthMonitor.check; the monitors and the reconciler write the same.  They
\* are also other processes, and do not wait for the application.
AutomaticHalt ==
    /\ status # "HALTED"
    /\ status' = "HALTED"
    /\ UNCHANGED <<breaker, event, breach, app, pc, resuming, tripped, faults>>

\* POST /system/resume reads the breaker ...
ReadForResume ==
    /\ Serving /\ "resume" \in OperatorActs
    /\ ~resuming /\ ~breaker
    /\ resuming' = TRUE
    /\ UNCHANGED <<redis, event, breach, app, pc, tripped, faults>>

\* ... and then writes the status.
Resume ==
    /\ Serving /\ resuming
    /\ status' = "RUNNING"
    /\ resuming' = FALSE
    /\ UNCHANGED <<breaker, event, breach, app, pc, tripped, faults>>

\* A close or the daily reset moves the portfolio past a limit, or back; both
\* need the row that an evaluating run has locked.
PortfolioMoves ==
    /\ LockFree
    /\ breach' = ~breach
    /\ UNCHANGED <<redis, event, app, pc, resuming, tripped, faults>>
-----------------------------------------------------------------------------
(* The life of the application.                                            *)

Stop ==
    /\ app' = "down"
    /\ pc' = [r \in Runs |-> IF pc[r] \in {"idle", "admitted"} THEN pc[r]
                             ELSE "done"]
    /\ resuming' = FALSE
    /\ faults' = faults + 1

Crash ==
    /\ "crash" \in Faults /\ faults < MaxFaults
    /\ app # "down"
    /\ Stop
    /\ UNCHANGED <<redis, event, breach, tripped>>

\* A graceful shutdown waits for the requests under way.
Shutdown ==
    /\ "shutdown" \in Faults /\ faults < MaxFaults
    /\ Serving
    /\ \A r \in Runs : pc[r] \notin Holding \cup {"waiting"}
    /\ status' = "SHUTTING_DOWN"
    /\ Stop
    /\ UNCHANGED <<breaker, event, breach, tripped>>

\* A restart of Redis or of the application comes after the trip.
TripAged == tripped' = IF tripped = "now" THEN "earlier" ELSE tripped

\* Redis fails and comes back without its latest keys.
LoseRedis ==
    /\ "redis" \in Faults /\ faults < MaxFaults
    /\ status' = "NONE" /\ breaker' = FALSE
    /\ TripAged
    /\ faults' = faults + 1
    /\ UNCHANGED <<event, breach, app, pc, resuming>>

\* _clean_redis_status.
CleanStatus ==
    /\ app = "down"
    /\ status' = IF status \in {"SHUTTING_DOWN", "NONE"} THEN "RUNNING"
                 ELSE status
    /\ app' = "cleaned"
    /\ UNCHANGED <<breaker, event, breach, pc, resuming, tripped, faults>>

\* _recover_circuit_breaker: the database decides.
Recovered == event = "activated"

RecoverBreaker ==
    /\ app = "cleaned"
    /\ breaker' = Recovered
    /\ app' = "recovered"
    /\ UNCHANGED <<status, event, breach, pc, resuming, tripped, faults>>

\* An exception of the reconciliation is logged and the start goes on.
ReconcileFails ==
    /\ "database" \in Faults /\ faults < MaxFaults
    /\ app \in {"down", "cleaned"}
    /\ app' = "recovered"
    /\ faults' = faults + 1
    /\ UNCHANGED <<redis, event, breach, pc, resuming, tripped>>

\* lifespan, after the reconciliation.
Start ==
    /\ app = "recovered"
    /\ status' = "RUNNING"
    /\ app' = "serving"
    /\ TripAged
    /\ UNCHANGED <<breaker, event, breach, pc, resuming, faults>>
-----------------------------------------------------------------------------
RunStep(r) ==
    \/ CheckStatus(r) \/ Lock(r) \/ CheckBreaker(r)
    \/ HaltSystem(r) \/ CommitTrip(r) \/ Reject(r) \/ Admit(r)

StartStep == CleanStatus \/ RecoverBreaker \/ Start

Next ==
    \/ \E r \in Runs : RunStep(r)
    \/ OperatorHalt \/ AutomaticHalt \/ ReadForResume \/ Resume
    \/ PortfolioMoves
    \/ Crash \/ Shutdown \/ LoseRedis \/ ReconcileFails
    \/ StartStep

Spec == Init /\ [][Next]_vars

\* Each await of a run is bounded, the lock is granted in turn, and the
\* container is restarted.  Nobody need halt, resume or move the portfolio.
Fairness ==
    /\ \A r \in Runs : SF_vars(RunStep(r))
    /\ WF_vars(StartStep)

FairSpec == Spec /\ Fairness
-----------------------------------------------------------------------------
\* A run leaves its evaluation for the exchange.
Admits(r) == pc[r] # "admitted" /\ pc'[r] = "admitted"

\* The breaker, tripped, blocks every run until the application or Redis
\* restarts: a run that read it clear holds the lock without which no other
\* can trip it.
TrippedBlocks ==
    [][\A r \in Runs : tripped = "now" => ~Admits(r)]_pc

\* While the application serves, the key says what happened since the last
\* restart, and is not set for nothing.
BreakerAgrees ==
    Serving => /\ tripped = "now" => breaker
               /\ breaker => tripped # "never"

\* Every run that waits ends: a refusal, a trip and an admission all give the
\* portfolio's lock up.
RunsEnd == \A r \in Runs : pc[r] = "waiting" ~> pc[r] \in {"admitted", "done"}
=============================================================================
