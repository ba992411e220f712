------------------------- MODULE SystemStatus_proofs -------------------------
(***************************************************************************)
(* A tripped breaker blocks every run until a restart, for any number of   *)
(* runs and whatever fails, with or without a session given to activate.   *)
(***************************************************************************)
EXTENDS SystemStatus, TLAPS

\* One run at a time holds the portfolio, and only while the application
\* serves.
LockExclusive ==
    /\ \A r, s \in Runs : pc[r] \in Holding /\ pc[s] \in Holding => r = s
    /\ \A r \in Runs : pc[r] \in Holding => Serving

\* The run that evaluates has seen the breaker clear, and nobody else can trip
\* it meanwhile.
EvaluatingClear == \A r \in Runs : pc[r] = "evaluating" => ~breaker

\* Whatever remembers a trip remembers one that happened.
NotForNothing ==
    breaker \/ event = "activated" \/ (\E r \in Runs : pc[r] = "tripping")
        => tripped # "never"

IInv == TypeOK /\ LockExclusive /\ EvaluatingClear /\ NotForNothing
            /\ BreakerAgrees

USE DEF TypeOK, LockExclusive, EvaluatingClear, NotForNothing, BreakerAgrees,
        Holding, Serving, LockFree, TripAged

\* At the start nothing is tripped, recorded or under way.
LEMMA InitIInv == Init => IInv
<1> SUFFICES ASSUME Init PROVE IInv
  OBVIOUS
<1> USE DEF Init
<1>1. TypeOK
  <2>1. faults \in 0 .. MaxFaults
    BY StatusBounds
  <2> QED
    BY <2>1
<1>2. LockExclusive /\ EvaluatingClear
  OBVIOUS
<1>3. NotForNothing /\ BreakerAgrees
  OBVIOUS
<1> QED
  BY <1>1, <1>2, <1>3 DEF IInv

\* The run's own steps keep the invariant: only the holder of the lock reads
\* or sets the breaker.
LEMMA RunStepIInv ==
    ASSUME IInv, NEW r \in Runs, RunStep(r)
    PROVE  IInv'
<1> USE DEF IInv, Goto, redis
<1>1. CASE CheckStatus(r)
  BY <1>1 DEF CheckStatus, Running
<1>2. CASE Lock(r)
  BY <1>2 DEF Lock
<1>3. CASE CheckBreaker(r)
  BY <1>3 DEF CheckBreaker
<1>4. CASE HaltSystem(r)
  BY <1>4 DEF HaltSystem, Trip
<1>5. CASE CommitTrip(r)
  BY <1>5 DEF CommitTrip, TripEvent
<1>6. CASE Reject(r)
  BY <1>6 DEF Reject
<1>7. CASE Admit(r)
  BY <1>7 DEF Admit
<1> QED
  BY <1>1, <1>2, <1>3, <1>4, <1>5, <1>6, <1>7 DEF RunStep

\* A fault is counted up to its bound.
LEMMA FaultCounted ==
    ASSUME TypeOK, faults < MaxFaults, faults' = faults + 1
    PROVE  faults' \in 0 .. MaxFaults
BY StatusBounds

\* Whatever fails keeps the invariant: it ends the runs, or clears the breaker
\* and makes every trip an earlier one.
LEMMA FaultIInv ==
    ASSUME IInv, Crash \/ Shutdown \/ LoseRedis \/ ReconcileFails
    PROVE  IInv'
<1> USE DEF IInv, redis, Crash, Shutdown, Stop, LoseRedis, ReconcileFails
<1>1. faults' \in 0 .. MaxFaults
  BY FaultCounted
<1>2. TypeOK'
  BY <1>1
<1>3. (LockExclusive /\ EvaluatingClear)'
  OBVIOUS
<1>4. (NotForNothing /\ BreakerAgrees)'
  OBVIOUS
<1> QED
  BY <1>2, <1>3, <1>4

\* The operator, closes and the start keep it.
LEMMA NextIInv ==
    ASSUME IInv, [Next]_vars
    PROVE  IInv'
<1> USE DEF IInv, redis
<1>1. CASE \E r \in Runs : RunStep(r)
  BY <1>1, RunStepIInv
<1>2. CASE OperatorHalt \/ AutomaticHalt
  BY <1>2 DEF OperatorHalt, AutomaticHalt
<1>3. CASE ReadForResume
  BY <1>3 DEF ReadForResume
<1>10. CASE Resume
  BY <1>10 DEF Resume
<1>4. CASE PortfolioMoves
  BY <1>4 DEF PortfolioMoves
<1>5. CASE Crash \/ Shutdown \/ LoseRedis \/ ReconcileFails
  BY <1>5, FaultIInv
<1>6. CASE CleanStatus
  BY <1>6 DEF CleanStatus
<1>7. CASE RecoverBreaker
  BY <1>7 DEF RecoverBreaker, Recovered
<1>8. CASE Start
  BY <1>8 DEF Start
<1>9. CASE UNCHANGED vars
  BY <1>9 DEF vars
<1> QED
  BY <1>1, <1>2, <1>3, <1>4, <1>5, <1>6, <1>7, <1>8, <1>9, <1>10
     DEF Next, StartStep

LEMMA SpecIInv == Spec => []IInv
<1>1. IInv /\ [Next]_vars => IInv'
  BY NextIInv
<1> QED
  BY <1>1, InitIInv, PTL DEF Spec

\* Status, breaker, runs and application only take the values the code gives
\* them, through every combination of faults.
THEOREM TypeCorrect == Spec => []TypeOK
<1>1. IInv => TypeOK
  BY DEF IInv
<1> QED
  BY <1>1, SpecIInv, PTL

\* Only the holder of the lock is admitted, from its evaluation.
LEMMA AdmittedFrom ==
    ASSUME IInv, [Next]_vars, NEW r \in Runs, Admits(r)
    PROVE  pc[r] = "evaluating" /\ Serving
BY DEF IInv, Admits, vars, redis, Next, RunStep, Goto, CheckStatus, Lock,
    CheckBreaker, HaltSystem, CommitTrip, Reject, Admit, OperatorHalt,
    AutomaticHalt, ReadForResume, Resume, PortfolioMoves, Crash, Shutdown,
    Stop, LoseRedis, ReconcileFails, StartStep, CleanStatus, RecoverBreaker,
    Start

-----------------------------------------------------------------------------
\* RiskManager.validate and the startup reconciler: while the application
\* serves, the key in Redis says what happened since the last restart.
THEOREM BreakerAgreesHolds == Spec => []BreakerAgrees
<1>1. IInv => BreakerAgrees
  BY DEF IInv
<1> QED
  BY <1>1, SpecIInv, PTL

\* No run is admitted after a trip, until a restart: the breaker was read
\* under the lock that whoever trips it needs.
THEOREM TrippedBlocksHolds == Spec => TrippedBlocks
<1>1. ASSUME IInv, [Next]_vars
      PROVE  [\A r \in Runs : tripped = "now" => ~Admits(r)]_pc
  BY <1>1, AdmittedFrom DEF IInv
<1> QED
  BY <1>1, SpecIInv, PTL DEF Spec, TrippedBlocks
=============================================================================
