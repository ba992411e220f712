------------------------ MODULE OrderDelivery_proofs ------------------------
(***************************************************************************)
(* What submit may rely on, for any number of orders, retries, executions  *)
(* and faults, and any limit and window of the limiter.                    *)
(***************************************************************************)
EXTENDS OrderDelivery, TLAPS

Answers ==
    [kind : {"none", "refused", "failed"}] \cup [kind : {"fill"}, quantity : Nat]

Typed ==
    /\ count \in Nat /\ ttl \in 1..NoExpiry /\ cut \in BOOLEAN
    /\ pc \in [Orders -> {"idle", "counted", "trying", "pausing", "asking", "done"}]
    /\ attempt \in [Orders -> Nat]
    /\ answer \in [Orders -> Answers]
    /\ inFlight \subseteq Orders \X Nat
    /\ booked \subseteq [order : Orders, attempt : Nat, result : Executions]
    /\ excused \subseteq Orders

\* The requests that were sent for an order and not refused.
Pending(o, k) == <<o, k>> \in inFlight
Done(o, k) == \E b \in booked : b.order = o /\ b.attempt = k
Known(o, k) == Pending(o, k) \/ Done(o, k)

\* Nothing is known of an order that the limiter has not let in.
Fresh(o) == pc[o] \in {"idle", "counted"} \/ answer[o].kind = "refused"
FreshUntouched ==
    \A o \in Orders :
        /\ Fresh(o) => \A k \in Nat : ~Known(o, k)
        /\ answer[o].kind # "none" => pc[o] = "done"

\* A call that may still send a request has abandoned all the known ones but
\* the one it waits for; so has every call all but the last.
Forgotten(o) ==
    /\ \A k \in Nat : ~(Pending(o, k) /\ Done(o, k))
    /\ \A j, k \in Nat : Known(o, j) /\ Known(o, k) /\ j < k => <<o, j>> \in abandoned
    /\ pc[o] \in {"trying", "pausing"} =>
            \A k \in Nat : Known(o, k) =>
                /\ k <= attempt[o]
                /\ k < attempt[o] \/ pc[o] = "pausing" => <<o, k>> \in abandoned
AttemptsForgotten == \A o \in Orders : Forgotten(o)

IInv == Typed /\ FreshUntouched /\ AttemptsForgotten /\ AnswersTruthful /\ LimiterReopens

-----------------------------------------------------------------------------
LEMMA InitIInv == Init => IInv
  <1> SUFFICES ASSUME Init PROVE IInv
    OBVIOUS
  <1>1. Typed
    <2>1. NoExpiry \in 1..NoExpiry
      BY DeliveryAssumption DEF NoExpiry
    <2> QED BY <2>1 DEF Init, Typed, Answers, NoAnswer
  <1>2. \A o \in Orders, k \in Nat : ~Known(o, k)
    BY DEF Init, Known, Pending, Done
  <1>3. FreshUntouched /\ LimiterReopens
    BY <1>2 DEF Init, FreshUntouched, LimiterReopens, NoAnswer
  <1>4. AttemptsForgotten
    BY <1>2 DEF AttemptsForgotten, Forgotten, Known
  <1>5. AnswersTruthful
    BY DEF Init, AnswersTruthful, NoAnswer
  <1> QED BY <1>1, <1>3, <1>4, <1>5 DEF IInv

\* What the query may answer has the shape of an answer.
LEMMA ReconciledAnswers ==
    ASSUME Typed, NEW o \in Orders
    PROVE  Reconciled(o) \subseteq Answers
  <1>1. \A b \in Executed(o) : b.result.quantity \in Nat
    BY DeliveryAssumption DEF Executed, Typed
  <1> QED BY <1>1 DEF Reconciled, Answers

LEMMA TypedKept ==
    ASSUME Typed, [Next]_vars
    PROVE  Typed'
  <1> USE DeliveryAssumption DEF Typed
  <1>0. Window \in Nat \ {0} /\ MaxRequests \in Nat \ {0} /\ NoExpiry = Window + 1
    BY DEF NoExpiry
  <1>1. ASSUME NEW o \in Orders, NEW current \in Nat, Decide(o, current)
        PROVE  /\ pc' \in [Orders -> {"idle", "counted", "trying", "pausing", "asking", "done"}]
               /\ attempt' \in [Orders -> Nat]
               /\ answer' \in [Orders -> Answers]
               /\ inFlight' \subseteq Orders \X Nat
    BY <1>1 DEF Decide, Answer, Answers
  <1>a. ASSUME NEW o \in Orders, NEW a \in Answers, Answer(o, a)
        PROVE  /\ pc' \in [Orders -> {"idle", "counted", "trying", "pausing", "asking", "done"}]
               /\ attempt' \in [Orders -> Nat]
               /\ answer' \in [Orders -> Answers]
    BY <1>a DEF Answer
  <1>2. ASSUME NEW o \in Orders, Increment(o)
        PROVE  Typed'
    <2>1. count' \in Nat
      BY <1>2 DEF Increment
    <2>2. CASE SetsExpiry(count')
      BY <1>2, <2>1, <2>2 DEF Increment
    <2>3. CASE ~SetsExpiry(count')
      BY <1>2, <2>1, <2>3, <1>1 DEF Increment
    <2> QED BY <2>2, <2>3
  <1>b. SetExpiry => ttl' \in 1..NoExpiry
    BY <1>0 DEF SetExpiry
  <1>3. ASSUME NEW o \in Orders, Expire(o)
        PROVE  Typed'
    BY <1>3, <1>b, <1>1 DEF Expire
  <1>c. ASSUME NEW o \in Orders, RedisFails(o)
        PROVE  Typed'
    <2>1. count' \in Nat /\ ttl' \in 1..NoExpiry /\ cut' \in BOOLEAN
      <3>1. count' \in Nat
        BY <1>c DEF RedisFails
      <3>2. ttl' \in 1..NoExpiry
        BY <1>c, <1>b DEF RedisFails
      <3>3. cut' \in BOOLEAN
        <4>1. cut' = cut \/ cut' = (cut \/ SetsExpiry(count')) \/ cut' = TRUE
          BY <1>c DEF RedisFails
        <4> QED BY <4>1, Zenon
      <3> QED BY <3>1, <3>2, <3>3
    <2>2. [kind |-> "refused"] \in Answers
      BY DEF Answers
    <2> QED BY <1>c, <2>1, <2>2, <1>a DEF RedisFails, exchange
  <1>4. CASE Tick
    <2>1. ttl' \in 1..NoExpiry /\ count' \in Nat
      BY <1>4, <1>0 DEF Tick
    <2> QED BY <1>4, <2>1 DEF Tick, submits, exchange
  <1>5. CASE Crash
    BY <1>5 DEF Crash, exchange
  <1>6. ASSUME NEW o \in Orders, Retry(o) \/ TimeOut(o)
        PROVE  Typed'
    BY <1>6 DEF Retry, TimeOut, Abandon, AfterFailure, limiter, exchange
  <1>d. [kind |-> "failed"] \in Answers
    BY DEF Answers
  <1>e. ASSUME NEW o \in Orders, Escape(o)
        PROVE  Typed'
    BY <1>e, <1>d, <1>a DEF Escape, Abandon, limiter, exchange
  <1>7. ASSUME NEW o \in Orders, Ask(o)
        PROVE  Typed'
    <2>1. PICK a \in Answers : Answer(o, a)
      BY <1>7, <1>d, ReconciledAnswers DEF Ask
    <2> QED BY <1>7, <2>1, <1>a DEF Ask, limiter, exchange
  <1>8. ASSUME NEW o \in Orders, NEW k \in 1..(MaxRetries + 1), Execute(o, k)
        PROVE  Typed'
    <2>1. PICK e \in Executions :
            /\ booked' = booked \cup {[order |-> o, attempt |-> k, result |-> e]}
            /\ Succeed(o, e) \/ UNCHANGED submits
      BY <1>8 DEF Execute
    <2>2. booked' \subseteq [order : Orders, attempt : Nat, result : Executions]
      BY <2>1
    <2>3. /\ pc' \in [Orders -> {"idle", "counted", "trying", "pausing", "asking", "done"}]
          /\ attempt' \in [Orders -> Nat]
          /\ answer' \in [Orders -> Answers]
      <3>1. CASE Succeed(o, e)
        <4>1. [kind |-> "fill", quantity |-> e.quantity] \in Answers
          BY DEF Answers
        <4> QED BY <3>1, <4>1, <1>a DEF Succeed
      <3>2. CASE UNCHANGED submits
        BY <3>2 DEF submits
      <3> QED BY <2>1, <3>1, <3>2
    <2> QED BY <1>8, <2>2, <2>3 DEF Execute, limiter
  <1>9. ASSUME NEW o \in Orders, NEW k \in 1..(MaxRetries + 1), Refuse(o, k)
        PROVE  Typed'
    BY <1>9 DEF Refuse, AfterFailure, limiter
  <1>10. CASE UNCHANGED vars
    BY <1>10 DEF vars, limiter, submits, exchange
  <1> QED BY <1>2, <1>3, <1>4, <1>5, <1>6, <1>7, <1>8, <1>9, <1>10, <1>c, <1>e DEF Next

\* Only the first of a window sets the expiry, and only a fault prevents it.
LEMMA LimiterKept ==
    ASSUME Typed, LimiterReopens, [Next]_vars
    PROVE  LimiterReopens'
  <1> USE DeliveryAssumption DEF Typed, LimiterReopens
  <1>0. Window \in Nat \ {0} /\ NoExpiry = Window + 1
    BY DEF NoExpiry
  <1>1. ASSUME NEW o \in Orders, NEW current, Decide(o, current)
        PROVE  \A p \in Orders : p # o => pc'[p] = pc[p]
    BY <1>1 DEF Decide, Answer
  <1>2. ASSUME NEW o \in Orders, Increment(o)
        PROVE  LimiterReopens'
    <2>1. CASE SetsExpiry(count')
      BY <1>2, <2>1 DEF Increment
    <2>2. CASE ~SetsExpiry(count')
      <3>1. count > 0 /\ pc[o] = "idle" /\ Decide(o, count')
        BY <1>2, <2>2 DEF Increment, SetsExpiry
      <3> QED BY <1>2, <1>1, <3>1 DEF Increment
    <2> QED BY <2>1, <2>2
  <1>3. ASSUME NEW o \in Orders, Expire(o)
        PROVE  LimiterReopens'
    BY <1>3, <1>0 DEF Expire, SetExpiry
  <1>4. ASSUME NEW o \in Orders, RedisFails(o)
        PROVE  LimiterReopens'
    <2>1. \A p \in Orders : p # o => pc'[p] = pc[p]
      BY <1>4 DEF RedisFails, Answer
    <2>2. CASE pc[o] = "idle" /\ UNCHANGED <<count, cut, ttl>>
      BY <2>1, <2>2
    <2>3. CASE pc[o] = "idle" /\ count' = count + 1 /\ cut' = (cut \/ SetsExpiry(count'))
               /\ UNCHANGED ttl
      <3>1. CASE count = 0
        <4>1. SetsExpiry(count')
          BY <2>3, <3>1 DEF SetsExpiry
        <4>2. cut'
          BY <2>3, <4>1, Zenon
        <4> QED BY <4>2
      <3>2. CASE count > 0
        BY <2>1, <2>3, <3>2
      <3> QED BY <3>1, <3>2
    <2>4. CASE pc[o] = "counted" /\ SetExpiry /\ UNCHANGED <<count, cut>>
      BY <2>4, <1>0 DEF SetExpiry
    <2>5. CASE cut' = TRUE
      BY <2>5
    <2> QED BY <1>4, <2>2, <2>3, <2>4, <2>5 DEF RedisFails
  <1>5. CASE Tick
    BY <1>5, <1>0 DEF Tick, submits
  <1>6. CASE Crash
    BY <1>6 DEF Crash
  <1>7. ASSUME NEW o \in Orders, Retry(o) \/ TimeOut(o) \/ Escape(o) \/ Ask(o)
        PROVE  LimiterReopens'
    BY <1>7 DEF Retry, TimeOut, Escape, Abandon, Ask, Answer, AfterFailure, limiter
  <1>8. ASSUME NEW o \in Orders, NEW k \in 1..(MaxRetries + 1), Execute(o, k) \/ Refuse(o, k)
        PROVE  LimiterReopens'
    BY <1>8 DEF Execute, Refuse, Succeed, Answer, AfterFailure, limiter, submits
  <1>9. CASE UNCHANGED vars
    BY <1>9 DEF vars, limiter, submits
  <1> QED BY <1>2, <1>3, <1>4, <1>5, <1>6, <1>7, <1>8, <1>9 DEF Next

-----------------------------------------------------------------------------
\* The limiter's steps let an order in, with one request, or refuse it.
LEMMA LimiterSteps ==
    ASSUME Typed, NEW o \in Orders, Increment(o) \/ Expire(o) \/ RedisFails(o)
    PROVE  /\ pc[o] \in {"idle", "counted"}
           /\ UNCHANGED <<booked, abandoned, excused>>
           /\ \A p \in Orders : p # o => pc'[p] = pc[p] /\ attempt'[p] = attempt[p]
                                         /\ answer'[p] = answer[p]
           /\ \/ /\ pc'[o] = "counted" /\ answer'[o] = answer[o] /\ inFlight' = inFlight
              \/ /\ pc'[o] = "trying" /\ attempt'[o] = 1 /\ answer'[o] = answer[o]
                 /\ inFlight' = inFlight \cup {<<o, 1>>}
              \/ /\ pc'[o] = "done" /\ answer'[o] = [kind |-> "refused"]
                 /\ inFlight' = inFlight
  <1> USE DEF Typed
  <1>1. ASSUME NEW current, Decide(o, current)
        PROVE  /\ \A p \in Orders : p # o => pc'[p] = pc[p] /\ attempt'[p] = attempt[p]
                                             /\ answer'[p] = answer[p]
               /\ \/ /\ pc'[o] = "trying" /\ attempt'[o] = 1 /\ answer'[o] = answer[o]
                     /\ inFlight' = inFlight \cup {<<o, 1>>}
                  \/ /\ pc'[o] = "done" /\ answer'[o] = [kind |-> "refused"]
                     /\ inFlight' = inFlight
    BY <1>1 DEF Decide, Answer
  <1>2. CASE Increment(o) /\ SetsExpiry(count')
    BY <1>2 DEF Increment
  <1>3. CASE Increment(o) /\ ~SetsExpiry(count')
    BY <1>3, <1>1 DEF Increment
  <1>4. CASE Expire(o)
    BY <1>4, <1>1 DEF Expire
  <1>5. CASE RedisFails(o)
    BY <1>5 DEF RedisFails, Answer, exchange
  <1> QED BY <1>2, <1>3, <1>4, <1>5

\* The exchange handles one request: it becomes an execution or is refused.
LEMMA ExchangeSteps ==
    ASSUME Typed, NEW o \in Orders, NEW k \in 1..(MaxRetries + 1), Execute(o, k) \/ Refuse(o, k)
    PROVE  /\ Pending(o, k) /\ abandoned' = abandoned
           /\ \A p \in Orders, j \in Nat : Pending(p, j)' <=> Pending(p, j) /\ <<p, j>> # <<o, k>>
           /\ \A p \in Orders, j \in Nat :
                    Done(p, j)' <=> Done(p, j) \/ (Execute(o, k) /\ p = o /\ j = k)
           /\ \A p \in Orders : p # o => UNCHANGED <<pc[p], answer[p], attempt[p]>>
  <1> USE DEF Typed
  <1>1. CASE Execute(o, k)
    <2>1. PICK e \in Executions :
            /\ booked' = booked \cup {[order |-> o, attempt |-> k, result |-> e]}
            /\ Succeed(o, e) \/ UNCHANGED submits
      BY <1>1 DEF Execute
    <2>2. \A p \in Orders, j \in Nat : Done(p, j)' <=> Done(p, j) \/ (p = o /\ j = k)
      <3> DEFINE new == [order |-> o, attempt |-> k, result |-> e]
      <3>1. new.order = o /\ new.attempt = k
        OBVIOUS
      <3>2. booked' = booked \cup {new}
        BY <2>1
      <3> HIDE DEF new
      <3> QED BY <3>1, <3>2 DEF Done
    <2>3. \A p \in Orders : p # o => UNCHANGED <<pc[p], answer[p], attempt[p]>>
      BY <2>1 DEF Succeed, Answer, submits
    <2> QED BY <1>1, <2>2, <2>3 DEF Execute, Pending
  <1>2. CASE Refuse(o, k) /\ ~Execute(o, k)
    <2>1. inFlight' = inFlight \ {<<o, k>>} /\ booked' = booked /\ <<o, k>> \in inFlight
          /\ abandoned' = abandoned
      BY <1>2 DEF Refuse
    <2>2. \A p \in Orders : p # o => UNCHANGED <<pc[p], answer[p], attempt[p]>>
      BY <1>2 DEF Refuse, AfterFailure
    <2> QED BY <1>2, <2>1, <2>2 DEF Pending, Done
  <1> QED
    <2>1. CASE Refuse(o, k) /\ Execute(o, k)
      BY <1>1, <2>1
    <2> QED BY <1>1, <1>2, <2>1

\* A request or an execution belongs to an order that was let in.
LEMMA FreshKept ==
    ASSUME Typed, FreshUntouched, [Next]_vars
    PROVE  FreshUntouched'
  <1> USE DEF Typed
  <1> DEFINE Kept(p) == /\ Fresh(p)' => \A k \in Nat : ~Known(p, k)'
                        /\ answer'[p].kind # "none" => pc'[p] = "done"
  <1> SUFFICES ASSUME NEW p \in Orders PROVE Kept(p)
    BY DEF FreshUntouched
  <1>0. /\ Fresh(p) => \A k \in Nat : ~Known(p, k)
        /\ answer[p].kind # "none" => pc[p] = "done"
    BY DEF FreshUntouched
  <1>1. ASSUME UNCHANGED <<inFlight, booked>>
        PROVE  \A k \in Nat : Known(p, k)' <=> Known(p, k)
    BY <1>1 DEF Known, Pending, Done
  <1>2. ASSUME NEW o \in Orders, Increment(o) \/ Expire(o) \/ RedisFails(o)
        PROVE  Kept(p)
    <2>1. CASE p # o
      <3>1. pc'[p] = pc[p] /\ answer'[p] = answer[p]
        BY <1>2, <2>1, LimiterSteps
      <3>2. booked' = booked /\ (inFlight' = inFlight \/ inFlight' = inFlight \cup {<<o, 1>>})
        BY <1>2, LimiterSteps
      <3>3. \A k \in Nat : Known(p, k)' <=> Known(p, k)
        BY <2>1, <3>2 DEF Known, Pending, Done
      <3> QED BY <1>0, <3>1, <3>3 DEF Fresh
    <2>2. CASE p = o
      <3>1. Fresh(p) /\ booked' = booked /\ answer[p].kind = "none"
        BY <1>0, <1>2, <2>2, LimiterSteps DEF Fresh
      <3>2. CASE inFlight' = inFlight
        BY <1>0, <1>1, <1>2, <2>2, <3>1, <3>2, LimiterSteps DEF Fresh
      <3>3. CASE inFlight' # inFlight
        BY <1>2, <2>2, <3>1, <3>3, LimiterSteps DEF Fresh
      <3> QED BY <3>2, <3>3
    <2> QED BY <2>1, <2>2
  <1>3. ASSUME NEW o \in Orders, Retry(o)
        PROVE  Kept(p)
    <2>1. CASE p # o
      BY <1>0, <1>3, <2>1 DEF Retry, Fresh, Known, Pending, Done
    <2>2. CASE p = o
      BY <1>0, <1>3, <2>2 DEF Retry, Fresh
    <2> QED BY <2>1, <2>2
  <1>4. ASSUME NEW o \in Orders, TimeOut(o)
        PROVE  Kept(p)
    <2>1. UNCHANGED <<inFlight, booked, answer>>
      BY <1>4 DEF TimeOut, Abandon, exchange
    <2>2. pc[o] = "trying" /\ (p # o => pc'[p] = pc[p]) /\ pc'[o] \in {"asking", "pausing"}
      BY <1>4 DEF TimeOut, Abandon, AfterFailure
    <2> QED BY <1>0, <1>1, <2>1, <2>2 DEF Fresh
  <1>5. ASSUME NEW o \in Orders, NEW a, Answer(o, a), UNCHANGED <<inFlight, booked>>,
               a.kind # "refused"
        PROVE  Kept(p)
    BY <1>0, <1>1, <1>5 DEF Answer, Fresh
  <1>6. ASSUME NEW o \in Orders, Escape(o) \/ Ask(o)
        PROVE  Kept(p)
    <2>1. UNCHANGED <<inFlight, booked>>
      BY <1>6 DEF Escape, Ask, Abandon, exchange
    <2>2. \A a \in Reconciled(o) : a.kind # "refused"
      BY DEF Reconciled
    <2>3. \E a : Answer(o, a) /\ a.kind # "refused"
      BY <1>6, <2>2 DEF Escape, Ask
    <2> QED BY <1>5, <2>1, <2>3
  <1>7. ASSUME NEW o \in Orders, NEW k \in 1..(MaxRetries + 1), Execute(o, k) \/ Refuse(o, k)
        PROVE  Kept(p)
    <2>0. k \in Nat
      BY DeliveryAssumption
    <2>1. \A j \in Nat : Known(p, j)' => Known(p, j)
      BY <1>7, <2>0, ExchangeSteps DEF Known
    <2>2. CASE p # o
      <3>1. pc'[p] = pc[p] /\ answer'[p] = answer[p]
        BY <1>7, <2>2, ExchangeSteps
      <3> QED BY <1>0, <2>1, <3>1 DEF Fresh
    <2>3. CASE p = o
      <3>1. ~Fresh(p)
        BY <1>0, <1>7, <2>0, <2>3, ExchangeSteps DEF Known
      <3>2. ~(pc'[p] \in {"idle", "counted"}) /\ answer'[p].kind # "refused"
        BY <1>7, <2>3, <3>1 DEF Fresh, Execute, Refuse, Succeed, Answer, AfterFailure, submits
      <3>3. answer'[p].kind # "none" => pc'[p] = "done"
        BY <1>0, <1>7, <2>3, <3>1 DEF Fresh, Execute, Refuse, Succeed, Answer, AfterFailure, submits
      <3> QED BY <3>2, <3>3 DEF Fresh
    <2> QED BY <2>2, <2>3
  <1>8. CASE Tick \/ UNCHANGED vars
    BY <1>0, <1>1, <1>8 DEF Tick, submits, vars, exchange, Fresh
  <1>9. CASE Crash
    BY <1>0, <1>1, <1>9 DEF Crash, exchange, Fresh
  <1> QED BY <1>2, <1>3, <1>4, <1>6, <1>7, <1>8, <1>9 DEF Next

\* A call that goes on as it was, or sends nothing any more, has forgotten
\* what it had forgotten, if no request is new.
LEMMA ForgottenStays ==
    ASSUME NEW p \in Orders, Forgotten(p), abandoned \subseteq abandoned',
           \A k \in Nat : (Known(p, k)' => Known(p, k)) /\ ~(Pending(p, k) /\ Done(p, k))',
           \/ pc'[p] = pc[p] /\ attempt'[p] = attempt[p]
           \/ pc'[p] \notin {"trying", "pausing"}
    PROVE  Forgotten(p)'
  BY DEF Forgotten

LEMMA ForgottenKept ==
    ASSUME Typed, FreshUntouched, AttemptsForgotten, [Next]_vars
    PROVE  AttemptsForgotten'
  <1> USE DEF Typed
  <1> SUFFICES ASSUME NEW p \in Orders PROVE Forgotten(p)'
    BY DEF AttemptsForgotten
  <1>0. Forgotten(p)
    BY DEF AttemptsForgotten
  <1>1. ASSUME UNCHANGED <<inFlight, booked>>
        PROVE  \A k \in Nat : /\ Known(p, k)' <=> Known(p, k)
                              /\ ~(Pending(p, k) /\ Done(p, k))'
    BY <1>0, <1>1 DEF Forgotten, Known, Pending, Done
  <1>2. ASSUME NEW o \in Orders, Increment(o) \/ Expire(o) \/ RedisFails(o)
        PROVE  Forgotten(p)'
    <2>0. booked' = booked /\ abandoned' = abandoned
      BY <1>2, LimiterSteps
    <2>1. CASE inFlight' = inFlight
      <3>1. \/ pc'[p] = pc[p] /\ attempt'[p] = attempt[p]
            \/ pc'[p] \notin {"trying", "pausing"}
            \/ pc'[p] = "trying" /\ p = o
        BY <1>2, LimiterSteps
      <3>2. CASE pc'[p] = "trying" /\ p = o
        <4>1. \A k \in Nat : ~Known(p, k)
          BY <1>2, <3>2, LimiterSteps DEF FreshUntouched, Fresh
        <4> QED BY <1>1, <2>0, <2>1, <4>1 DEF Forgotten
      <3> QED BY <1>0, <1>1, <2>0, <2>1, <3>1, <3>2, ForgottenStays
    <2>2. CASE inFlight' # inFlight /\ p # o
      <3>1. inFlight' = inFlight \cup {<<o, 1>>} /\ pc'[p] = pc[p] /\ attempt'[p] = attempt[p]
        BY <1>2, <2>2, LimiterSteps
      <3>2. \A k \in Nat : (Pending(p, k)' <=> Pending(p, k)) /\ (Done(p, k)' <=> Done(p, k))
        BY <2>0, <2>2, <3>1 DEF Pending, Done
      <3> QED BY <1>0, <2>0, <3>1, <3>2, ForgottenStays DEF Known, Forgotten
    <2>3. CASE inFlight' # inFlight /\ p = o
      <3>1. inFlight' = inFlight \cup {<<o, 1>>} /\ pc'[p] = "trying" /\ attempt'[p] = 1
        BY <1>2, <2>3, LimiterSteps
      <3>2. \A k \in Nat : ~Pending(p, k) /\ ~Done(p, k)
        BY <1>2, <2>3, LimiterSteps DEF FreshUntouched, Fresh, Known
      <3>3. \A k \in Nat : (Pending(p, k)' <=> k = 1) /\ ~Done(p, k)'
        BY <2>0, <2>3, <3>1, <3>2 DEF Pending, Done
      <3> QED BY <3>1, <3>3 DEF Forgotten, Known
    <2> QED BY <2>1, <2>2, <2>3
  <1>3. ASSUME NEW o \in Orders, Retry(o)
        PROVE  Forgotten(p)'
    <2>1. /\ pc[o] = "pausing" /\ booked' = booked /\ abandoned' = abandoned
          /\ inFlight' = inFlight \cup {<<o, attempt[o] + 1>>}
          /\ pc' = [pc EXCEPT ![o] = "trying"]
          /\ attempt' = [attempt EXCEPT ![o] = @ + 1]
      BY <1>3 DEF Retry
    <2>2. CASE p # o
      <3>1. \A k \in Nat : (Pending(p, k)' <=> Pending(p, k)) /\ (Done(p, k)' <=> Done(p, k))
        BY <2>1, <2>2 DEF Pending, Done
      <3>2. pc'[p] = pc[p] /\ attempt'[p] = attempt[p]
        BY <2>1, <2>2
      <3> QED BY <1>0, <2>1, <3>1, <3>2, ForgottenStays DEF Known, Forgotten
    <2>3. CASE p = o
      <3>1. \A k \in Nat : Known(p, k) => k <= attempt[p] /\ <<p, k>> \in abandoned
        BY <1>0, <2>1, <2>3 DEF Forgotten
      <3>2. \A k \in Nat : /\ Pending(p, k)' <=> Pending(p, k) \/ k = attempt[p] + 1
                           /\ Done(p, k)' <=> Done(p, k)
        BY <2>1, <2>3 DEF Pending, Done
      <3>3. attempt[p] \in Nat /\ attempt'[p] = attempt[p] + 1 /\ pc'[p] = "trying"
        BY <2>1, <2>3
      <3>4. \A k \in Nat : Known(p, k)' <=> Known(p, k) \/ k = attempt[p] + 1
        BY <3>2 DEF Known
      <3>5. \A k \in Nat : ~(Pending(p, k) /\ Done(p, k))'
        <4>1. \A k \in Nat : ~(Pending(p, k) /\ Done(p, k))
          BY <1>0 DEF Forgotten
        <4>2. ~Done(p, attempt[p] + 1)
          <5>1. attempt[p] + 1 \in Nat /\ ~(attempt[p] + 1 <= attempt[p])
            BY <3>3
          <5> QED BY <3>1, <5>1 DEF Known
        <4> QED BY <3>2, <4>1, <4>2
      <3>6. \A j, k \in Nat : Known(p, j)' /\ Known(p, k)' /\ j < k => <<p, j>> \in abandoned'
        <4> SUFFICES ASSUME NEW j \in Nat, NEW k \in Nat, Known(p, j)', Known(p, k)', j < k
                     PROVE  <<p, j>> \in abandoned'
          OBVIOUS
        <4>1. k <= attempt[p] + 1
          <5>1. k <= attempt[p] \/ k = attempt[p] + 1
            BY <3>1, <3>4
          <5> QED BY <3>3, <5>1
        <4>2. j # attempt[p] + 1
          BY <3>3, <4>1
        <4>3. Known(p, j)
          BY <3>4, <4>2
        <4> QED BY <2>1, <3>1, <4>3
      <3>7. \A k \in Nat : Known(p, k)' =>
                k <= attempt'[p] /\ (k < attempt'[p] => <<p, k>> \in abandoned')
        BY <2>1, <3>1, <3>3, <3>4
      <3> QED BY <3>3, <3>5, <3>6, <3>7 DEF Forgotten
    <2> QED BY <2>2, <2>3
  <1>4. ASSUME NEW o \in Orders, TimeOut(o)
        PROVE  Forgotten(p)'
    <2>1. /\ UNCHANGED <<inFlight, booked, attempt>> /\ pc[o] = "trying"
          /\ abandoned' = abandoned \cup {<<o, attempt[o]>>}
          /\ p # o => pc'[p] = pc[p]
      BY <1>4 DEF TimeOut, Abandon, AfterFailure, exchange
    <2>2. CASE p # o
      BY <1>0, <1>1, <2>1, <2>2, ForgottenStays
    <2>3. CASE p = o
      <3>1. \A k \in Nat : Known(p, k) => k <= attempt[p] /\ <<p, k>> \in abandoned'
        BY <1>0, <2>1, <2>3 DEF Forgotten
      <3> QED BY <1>0, <1>1, <2>1, <3>1 DEF Forgotten
    <2> QED BY <2>2, <2>3
  <1>5. ASSUME NEW o \in Orders, Escape(o) \/ Ask(o)
        PROVE  Forgotten(p)'
    <2>1. UNCHANGED <<inFlight, booked>> /\ abandoned \subseteq abandoned'
      BY <1>5 DEF Escape, Ask, Abandon, exchange
    <2>2. \/ pc'[p] = pc[p] /\ attempt'[p] = attempt[p]
          \/ pc'[p] \notin {"trying", "pausing"}
      BY <1>5 DEF Escape, Ask, Answer
    <2> QED BY <1>0, <1>1, <2>1, <2>2, ForgottenStays
  <1>6. ASSUME NEW o \in Orders, NEW k \in 1..(MaxRetries + 1), Execute(o, k) \/ Refuse(o, k)
        PROVE  Forgotten(p)'
    <2>0. k \in Nat
      BY DeliveryAssumption
    <2>1. \A j \in Nat : (Known(p, j)' => Known(p, j)) /\ ~(Pending(p, j) /\ Done(p, j))'
      BY <1>0, <1>6, <2>0, ExchangeSteps DEF Known, Forgotten
    <2>2. abandoned' = abandoned
      BY <1>6, ExchangeSteps
    <2>3. CASE \/ pc'[p] = pc[p] /\ attempt'[p] = attempt[p]
               \/ pc'[p] \notin {"trying", "pausing"}
      BY <1>0, <2>1, <2>2, <2>3, ForgottenStays
    <2>4. CASE /\ pc'[p] # pc[p] \/ attempt'[p] # attempt[p]
               /\ pc'[p] \in {"trying", "pausing"}
      <3>1. p = o
        BY <1>6, <2>4, ExchangeSteps
      <3>2. /\ Refuse(p, k) /\ ~Execute(p, k) /\ pc[p] = "trying" /\ attempt[p] = k
            /\ pc'[p] = "pausing" /\ attempt' = attempt
        BY <1>6, <2>4, <3>1 DEF Execute, Refuse, Succeed, Answer, AfterFailure, submits
      <3>3. ~Known(p, k)'
        BY <1>0, <2>0, <3>1, <3>2, ExchangeSteps DEF Known, Forgotten
      <3>4. \A j \in Nat : Known(p, j)' => j <= attempt[p] /\ <<p, j>> \in abandoned'
        <4>1. \A j \in Nat : Known(p, j)' => Known(p, j) /\ j # k
          BY <2>1, <3>3
        <4>2. \A j \in Nat : Known(p, j) =>
                j <= attempt[p] /\ (j < attempt[p] => <<p, j>> \in abandoned)
          BY <1>0, <3>2 DEF Forgotten
        <4> QED BY <2>0, <2>2, <3>2, <4>1, <4>2
      <3> QED BY <2>1, <3>2, <3>4 DEF Forgotten
    <2> QED BY <2>3, <2>4
  <1>7. CASE Tick \/ UNCHANGED vars
    BY <1>0, <1>1, <1>7, ForgottenStays DEF Tick, submits, vars, exchange
  <1>8. CASE Crash
    <2>1. pc'[p] \notin {"trying", "pausing"} /\ UNCHANGED <<inFlight, booked, abandoned>>
      BY <1>8 DEF Crash, exchange
    <2> QED BY <1>0, <1>1, <2>1, ForgottenStays
  <1> QED BY <1>2, <1>3, <1>4, <1>5, <1>6, <1>7, <1>8 DEF Next

-----------------------------------------------------------------------------
Truthful(p) ==
    /\ answer[p].kind = "fill" =>
            \E b \in Executed(p) : b.result.quantity = answer[p].quantity
    /\ answer[p].kind = "refused" => Executed(p) = {}
    /\ answer[p].kind = "failed" /\ p \notin excused /\ Executed(p) # {} =>
            \E b \in Executed(p) : b.result.status = "EXPIRED"

\* What is answered stays true: later executions are excused.
LEMMA AnswersKept ==
    ASSUME IInv, FreshUntouched', [Next]_vars
    PROVE  AnswersTruthful'
  <1> USE DEF IInv, Typed
  <1> SUFFICES ASSUME NEW p \in Orders PROVE Truthful(p)'
    BY DEF AnswersTruthful, Truthful
  <1>0. Truthful(p)
    BY DEF AnswersTruthful, Truthful
  <1>1. ASSUME answer'[p] = answer[p], Executed(p)' = Executed(p), excused \subseteq excused'
        PROVE  Truthful(p)'
    BY <1>0, <1>1 DEF Truthful
  <1>2. ASSUME answer'[p] = [kind |-> "refused"]
        PROVE  Truthful(p)'
    <2>1. \A k \in Nat : ~Known(p, k)'
      BY <1>2 DEF FreshUntouched, Fresh
    <2>2. Typed'
      BY TypedKept
    <2>3. Executed(p)' = {}
      BY <2>1, <2>2 DEF Executed, Known, Done
    <2> QED BY <1>2, <2>3 DEF Truthful
  <1>3. ASSUME NEW o \in Orders, Increment(o) \/ Expire(o) \/ RedisFails(o)
        PROVE  Truthful(p)'
    <2>1. booked' = booked /\ excused' = excused
      BY <1>3, LimiterSteps
    <2>2. answer'[p] = answer[p] \/ answer'[p] = [kind |-> "refused"]
      BY <1>3, LimiterSteps
    <2>3. Executed(p)' = Executed(p)
      BY <2>1 DEF Executed
    <2> QED BY <1>1, <1>2, <2>1, <2>2, <2>3
  <1>4. ASSUME Tick \/ Crash \/ UNCHANGED vars \/ \E o \in Orders : Retry(o) \/ TimeOut(o)
        PROVE  Truthful(p)'
    <2>1. UNCHANGED <<answer, booked, excused>>
      BY <1>4 DEF Tick, Crash, vars, submits, exchange, Retry, TimeOut, Abandon
    <2> QED BY <1>1, <2>1 DEF Executed
  <1>5. ASSUME answer'[p] = [kind |-> "failed"], p \in excused'
        PROVE  Truthful(p)'
    BY <1>5 DEF Truthful
  <1>6. ASSUME NEW o \in Orders, Escape(o)
        PROVE  Truthful(p)'
    <2>1. booked' = booked /\ excused \subseteq excused'
      BY <1>6 DEF Escape, Abandon, exchange
    <2>2. \/ answer'[p] = answer[p]
          \/ answer'[p] = [kind |-> "failed"] /\ p \in excused'
      BY <1>6 DEF Escape, Answer
    <2> QED BY <1>1, <1>5, <2>1, <2>2 DEF Executed
  <1>7. ASSUME answer'[p] \in Reconciled(p), booked' = booked
        PROVE  Truthful(p)'
    <2>1. Executed(p)' = Executed(p)
      BY <1>7 DEF Executed
    <2>2. CASE Executed(p) = {}
      BY <1>7, <2>1, <2>2 DEF Reconciled, Truthful
    <2>3. CASE Executed(p) # {}
      <3>1. PICK b \in Executed(p) :
                answer'[p] = IF b.result.status \in {"FILLED", "PARTIALLY_FILLED"}
                             THEN [kind |-> "fill", quantity |-> b.result.quantity]
                             ELSE [kind |-> "failed"]
        BY <1>7, <2>3 DEF Reconciled
      <3>2. b.result.status \in {"FILLED", "PARTIALLY_FILLED", "EXPIRED"}
        BY DeliveryAssumption DEF Executed
      <3> QED BY <2>1, <3>1, <3>2 DEF Truthful
    <2> QED BY <2>2, <2>3
  <1>8. ASSUME NEW o \in Orders, Ask(o)
        PROVE  Truthful(p)'
    <2>1. booked' = booked /\ excused \subseteq excused'
      BY <1>8 DEF Ask, exchange
    <2>2. \/ answer'[p] = answer[p]
          \/ answer'[p] \in Reconciled(p)
          \/ answer'[p] = [kind |-> "failed"] /\ p \in excused'
      BY <1>8 DEF Ask, Answer
    <2> QED BY <1>1, <1>5, <1>7, <2>1, <2>2 DEF Executed
  <1>9. ASSUME NEW o \in Orders, NEW k \in 1..(MaxRetries + 1), Refuse(o, k)
        PROVE  Truthful(p)'
    BY <1>1, <1>9 DEF Refuse, Executed
  <1>10. ASSUME NEW o \in Orders, NEW k \in 1..(MaxRetries + 1), Execute(o, k)
         PROVE  Truthful(p)'
    <2>1. PICK e \in Executions :
            /\ booked' = booked \cup {[order |-> o, attempt |-> k, result |-> e]}
            /\ Succeed(o, e) \/ UNCHANGED submits
      BY <1>10 DEF Execute
    <2>2. excused \subseteq excused'
      BY <1>10 DEF Execute
    <2>3. CASE p # o
      <3>1. Executed(p)' = Executed(p)
        BY <2>1, <2>3 DEF Executed
      <3>2. answer'[p] = answer[p]
        BY <2>1, <2>3 DEF Succeed, Answer, submits
      <3> QED BY <1>1, <2>2, <3>1, <3>2
    <2>4. CASE p = o /\ Succeed(o, e)
      <3>1. answer'[p] = [kind |-> "fill", quantity |-> e.quantity]
        BY <2>4 DEF Succeed, Answer
      <3>2. [order |-> o, attempt |-> k, result |-> e] \in Executed(p)'
        BY <2>1, <2>4 DEF Executed
      <3> QED BY <3>1, <3>2 DEF Truthful
    <2>5. CASE p = o /\ UNCHANGED submits
      <3>1. answer'[p] = answer[p] /\ Executed(p) \subseteq Executed(p)'
        BY <2>1, <2>5 DEF Executed, submits
      <3>2. answer[p].kind # "refused"
        <4>1. Known(p, k) /\ k \in Nat
          BY <1>10, <2>5, DeliveryAssumption DEF Execute, Known, Pending
        <4> QED BY <4>1 DEF FreshUntouched, Fresh
      <3>3. answer[p].kind = "failed" => p \in excused'
        BY <1>10, <2>5 DEF Execute, FreshUntouched
      <3> QED BY <1>0, <3>1, <3>2, <3>3 DEF Truthful
    <2> QED BY <2>1, <2>3, <2>4, <2>5
  <1> QED BY <1>3, <1>4, <1>6, <1>8, <1>9, <1>10 DEF Next

LEMMA SpecIInv == Spec => []IInv
  <1>1. IInv /\ [Next]_vars => IInv'
    BY TypedKept, LimiterKept, FreshKept, ForgottenKept, AnswersKept DEF IInv
  <1> QED BY <1>1, InitIInv, PTL DEF Spec

-----------------------------------------------------------------------------
\* BinanceExecutor.submit and retry_async: whatever times out, is repeated,
\* raises or arrives late, an order is bought again only when an attempt was
\* given up with no answer.
THEOREM RepeatsUnansweredHolds == Spec => []RepeatsUnanswered
  <1>1. ASSUME IInv PROVE RepeatsUnanswered
    <2> SUFFICES ASSUME NEW a \in booked, NEW b \in booked,
                        a.order = b.order, a.attempt < b.attempt
                 PROVE  <<a.order, a.attempt>> \in abandoned
      BY DEF RepeatsUnanswered
    <2>1. a.order \in Orders /\ a.attempt \in Nat /\ b.attempt \in Nat
      BY <1>1 DEF IInv, Typed
    <2>2. Known(a.order, a.attempt) /\ Known(a.order, b.attempt)
      BY DEF Known, Done
    <2>3. Forgotten(a.order)
      BY <1>1, <2>1 DEF IInv, AttemptsForgotten
    <2> QED BY <2>1, <2>2, <2>3 DEF Forgotten
  <1> QED BY <1>1, SpecIInv, PTL

\* submit and reconcile_order: what is answered is what the exchange did.
THEOREM AnswersTruthfulHolds == Spec => []AnswersTruthful
  <1>1. IInv => AnswersTruthful
    BY DEF IInv
  <1> QED BY <1>1, SpecIInv, PTL

\* RateLimiter.check: only a process lost, or an error of Redis, between its
\* two calls leaves a counter that never expires.
THEOREM LimiterReopensHolds == Spec => []LimiterReopens
  <1>1. IInv => LimiterReopens
    BY DEF IInv
  <1> QED BY <1>1, SpecIInv, PTL
=============================================================================
