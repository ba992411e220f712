---------------------------- MODULE OrderDelivery ----------------------------
(***************************************************************************)
(* BinanceExecutor.submit call by call: the rate limiter in Redis, the     *)
(* attempts of retry_async, the query when they have failed, errors that   *)
(* nothing catches, and requests that reach the exchange after the caller  *)
(* has given them up.                                                      *)
(*                                                                         *)
(* All attempts carry one client order id, which the query asks for.  The  *)
(* exchange refuses a used id only while the order that used it is open,   *)
(* and a market order is closed at once: a repeated request may buy again. *)
(* PipelineExecution and ApprovalFlow, which take submit as one step, make *)
(* the assumption of the executor's header instead, that it may not.       *)
(*                                                                         *)
(* History: abandoned are the requests given up with no answer, excused    *)
(* the orders not asked for, asked for in vain or before they executed.    *)
(***************************************************************************)
EXTENDS Integers, FiniteSets

CONSTANTS
    Orders,
    MaxRequests, Window,    \* of the limiter; Window in ticks
    MaxRetries,
    Executions,             \* [status, quantity] the exchange may end with
    MaxFaults               \* bound on crashes and errors of Redis

ASSUME DeliveryAssumption ==
    /\ {MaxRequests, Window} \subseteq Nat \ {0}
    /\ {MaxRetries, MaxFaults} \subseteq Nat
    /\ Executions \subseteq [status : {"FILLED", "PARTIALLY_FILLED", "EXPIRED"}, quantity : Nat]

VARIABLES
    count, ttl,             \* the limiter's key; count 0 if there is none
    pc, attempt, answer,    \* of each order's submit
    inFlight,               \* requests <<order, attempt>> not yet handled
    booked,                 \* executions, with the request each came from
    abandoned, excused, cut, faults

limiter == <<count, ttl, cut>>
submits == <<pc, attempt, answer>>
exchange == <<inFlight, booked>>
vars == <<limiter, submits, exchange, abandoned, excused, faults>>

NoExpiry == Window + 1
NoAnswer == [kind |-> "none"]

Init ==
    /\ count = 0 /\ ttl = NoExpiry /\ cut = FALSE
    /\ pc = [o \in Orders |-> "idle"]
    /\ attempt = [o \in Orders |-> 0]
    /\ answer = [o \in Orders |-> NoAnswer]
    /\ inFlight = {} /\ booked = {}
    /\ abandoned = {} /\ excused = {} /\ faults = 0

Answer(o, a) ==
    /\ pc' = [pc EXCEPT ![o] = "done"]
    /\ answer' = [answer EXCEPT ![o] = a]
    /\ attempt' = [attempt EXCEPT ![o] = 0]

-----------------------------------------------------------------------------
WithinLimit(current) == current <= MaxRequests

\* The rest of check, and the first attempt; beyond the limit it raises 429,
\* which submit does not catch.
Decide(o, current) ==
    IF WithinLimit(current)
    THEN /\ pc' = [pc EXCEPT ![o] = "trying"]
         /\ attempt' = [attempt EXCEPT ![o] = 1]
         /\ inFlight' = inFlight \cup {<<o, 1>>}
         /\ UNCHANGED answer
    ELSE /\ Answer(o, [kind |-> "refused"])
         /\ UNCHANGED inFlight

\* Mutant: the expiry is set by the second request.
SetsExpiryLate(current) == current = 2

SetsExpiry(current) == current = 1

\* RateLimiter.check: INCR, and EXPIRE in a call of its own.
Increment(o) ==
    /\ pc[o] = "idle"
    /\ count' = count + 1
    /\ IF SetsExpiry(count')
       THEN /\ pc' = [pc EXCEPT ![o] = "counted"]
            /\ UNCHANGED <<attempt, answer, inFlight>>
       ELSE Decide(o, count')
    /\ UNCHANGED <<ttl, cut, booked, abandoned, excused, faults>>

SetExpiry == ttl' = IF count > 0 THEN Window ELSE ttl

\* Here current is 1.
Expire(o) ==
    /\ pc[o] = "counted"
    /\ SetExpiry
    /\ Decide(o, 1)
    /\ UNCHANGED <<count, cut, booked, abandoned, excused, faults>>

\* Redis fails, before or after the command: submit raises.
RedisFails(o) ==
    /\ faults < MaxFaults
    /\ faults' = faults + 1
    /\ \/ /\ pc[o] = "idle"
          /\ \/ UNCHANGED <<count, cut>>
             \/ /\ count' = count + 1
                /\ cut' = (cut \/ SetsExpiry(count'))
          /\ UNCHANGED ttl
       \/ /\ pc[o] = "counted"
          /\ \/ SetExpiry /\ UNCHANGED cut
             \/ cut' = TRUE /\ UNCHANGED ttl
          /\ UNCHANGED count
    /\ Answer(o, [kind |-> "refused"])
    /\ UNCHANGED <<exchange, abandoned, excused>>

\* Time passes for the key.
Tick ==
    /\ ttl' = IF ttl \in {NoExpiry, 1} THEN NoExpiry ELSE ttl - 1
    /\ count' = IF ttl = 1 THEN 0 ELSE count
    /\ UNCHANGED <<cut, submits, exchange, abandoned, excused, faults>>

-----------------------------------------------------------------------------
Executed(o) == {b \in booked : b.order = o}

\* retry_async: the next attempt, or the query when an error is permanent or
\* the attempts are used up.
AfterFailure(o, permanent) ==
    pc' = [pc EXCEPT ![o] = IF permanent \/ attempt[o] > MaxRetries
                            THEN "asking" ELSE "pausing"]

Retry(o) ==
    /\ pc[o] = "pausing"
    /\ pc' = [pc EXCEPT ![o] = "trying"]
    /\ attempt' = [attempt EXCEPT ![o] = @ + 1]
    /\ inFlight' = inFlight \cup {<<o, attempt[o] + 1>>}
    /\ UNCHANGED <<limiter, answer, booked, abandoned, excused, faults>>

\* Mutant: the loop goes on after a success.
RepeatAnyway(o, e) ==
    /\ pc' = [pc EXCEPT ![o] = IF attempt[o] > MaxRetries THEN "asking" ELSE "pausing"]
    /\ UNCHANGED <<attempt, answer>>

\* _parse_fill takes the quantity that the response reports, be it nothing.
Succeed(o, e) == Answer(o, [kind |-> "fill", quantity |-> e.quantity])

\* The exchange executes a request.  The response reaches the attempt that
\* waits for it, or is lost.
Execute(o, k) ==
    /\ <<o, k>> \in inFlight
    /\ inFlight' = inFlight \ {<<o, k>>}
    /\ \E e \in Executions :
        /\ booked' = booked \cup {[order |-> o, attempt |-> k, result |-> e]}
        /\ \/ pc[o] = "trying" /\ attempt[o] = k /\ Succeed(o, e)
           \/ UNCHANGED submits
    /\ excused' = IF pc[o] = "done" THEN excused \cup {o} ELSE excused
    /\ UNCHANGED <<limiter, abandoned, faults>>

\* The exchange refuses a request; a permanent error ends the attempts, a
\* transient one does not.
Refuse(o, k) ==
    /\ <<o, k>> \in inFlight
    /\ inFlight' = inFlight \ {<<o, k>>}
    /\ \/ /\ pc[o] = "trying" /\ attempt[o] = k
          /\ \E permanent \in BOOLEAN : AfterFailure(o, permanent)
       \/ UNCHANGED pc
    /\ UNCHANGED <<limiter, attempt, answer, booked, abandoned, excused, faults>>

\* An attempt ends with no answer, or with an error that leaves the outcome
\* open; its request may still be on its way.
Abandon(o) ==
    /\ pc[o] = "trying"
    /\ abandoned' = abandoned \cup {<<o, attempt[o]>>}
    /\ UNCHANGED <<limiter, exchange, faults>>

TimeOut(o) ==
    /\ Abandon(o)
    /\ AfterFailure(o, FALSE)
    /\ UNCHANGED <<attempt, answer, excused>>

\* An exception that neither retry_async nor submit catches, a connection
\* closed by the server for instance: no retry and no query.
Escape(o) ==
    /\ Abandon(o)
    /\ Answer(o, [kind |-> "failed"])
    /\ excused' = excused \cup {o}

\* Mutant: a request that failed is not asked for.
NoReconciliation(o) == {[kind |-> "failed"]}

\* reconcile_order, when the query is answered: an order with that id, if
\* there is one.  If it expired it counts as not filled, also if a part was.
Reconciled(o) ==
    IF Executed(o) = {} THEN {[kind |-> "failed"]}
    ELSE {IF b.result.status \in {"FILLED", "PARTIALLY_FILLED"}
          THEN [kind |-> "fill", quantity |-> b.result.quantity]
          ELSE [kind |-> "failed"] : b \in Executed(o)}

\* When it is not, the code takes it for "does not exist".
Ask(o) ==
    /\ pc[o] = "asking"
    /\ \/ /\ \E a \in Reconciled(o) : Answer(o, a)
          /\ UNCHANGED excused
       \/ /\ Answer(o, [kind |-> "failed"])
          /\ excused' = excused \cup {o}
    /\ UNCHANGED <<limiter, exchange, abandoned, faults>>

\* The process is lost; a key that has no expiry yet never gets one.
Crash ==
    /\ faults < MaxFaults
    /\ faults' = faults + 1
    /\ cut' = (cut \/ \E o \in Orders : pc[o] = "counted")
    /\ pc' = [o \in Orders |-> IF pc[o] = "idle" THEN "idle" ELSE "done"]
    /\ attempt' = [o \in Orders |-> 0]
    /\ UNCHANGED <<count, ttl, answer, exchange, abandoned, excused>>

-----------------------------------------------------------------------------
Next ==
    \/ Tick \/ Crash
    \/ \E o \in Orders :
        \/ Increment(o) \/ Expire(o) \/ RedisFails(o)
        \/ Retry(o) \/ TimeOut(o) \/ Escape(o) \/ Ask(o)
    \/ \E o \in Orders, k \in 1..(MaxRetries + 1) : Execute(o, k) \/ Refuse(o, k)

Spec == Init /\ [][Next]_vars

-----------------------------------------------------------------------------
\* An order buys again only because an attempt was given up with no answer:
\* of two executions, the request of the earlier was abandoned.  (Whether
\* it had executed was not known when the next request left.)
RepeatsUnanswered ==
    \A a, b \in booked :
        a.order = b.order /\ a.attempt < b.attempt =>
            <<a.order, a.attempt>> \in abandoned

\* What submit answers is what the exchange did: a fill has the quantity of an
\* execution, and an order reported as failed or refused by the limiter has
\* not been executed, unless it was not asked for, the query failed or came
\* too early, or it has expired, be it after a part of it was bought.
AnswersTruthful ==
    \A o \in Orders :
        /\ answer[o].kind = "fill" =>
                \E b \in Executed(o) : b.result.quantity = answer[o].quantity
        /\ answer[o].kind = "refused" => Executed(o) = {}
        /\ answer[o].kind = "failed" /\ o \notin excused /\ Executed(o) # {} =>
                \E b \in Executed(o) : b.result.status = "EXPIRED"

\* A limit that is used up is given back: a counter always has an expiry, or
\* the call that sets it is under way, unless a crash or an error of Redis
\* came between INCR and EXPIRE: then the key refuses for ever.
LimiterReopens ==
    count > 0 /\ ttl = NoExpiry => cut \/ \E o \in Orders : pc[o] = "counted"
==============================================================================
