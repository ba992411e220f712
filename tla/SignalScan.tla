----------------------------- MODULE SignalScan -----------------------------
(***************************************************************************)
(* The signal scanner of start_paper_trading: every minute, for every      *)
(* symbol, it fetches the candles, lets StrategyRunner evaluate the        *)
(* strategies concurrently, and saves the signals they offer.  The runner  *)
(* counts failures per strategy identifier.  The script creates one        *)
(* strategy for each symbol with a trained model, all with the identifier  *)
(* of the one active row, or a momentum strategy if there is no model.     *)
(* Every hour the shadow scanner asks the same models, by itself, and      *)
(* saves what they say as a signal nobody trades on.                       *)
(***************************************************************************)
EXTENDS SignalVotes

CONSTANTS
    Symbols,
    Series,         \* the closing prices a fetch may return
    Predictions,    \* [stale, calm, missing, probability]
    MaxFailures

ASSUME ScanAssumption ==
    /\ "momentum" \notin Symbols /\ "none" \notin Symbols
    /\ Series \subseteq Seq(Nat \ {0})
    /\ Predictions \subseteq [stale : BOOLEAN, calm : BOOLEAN, missing : Nat, probability : Nat]
    /\ MaxFailures \in Nat \ {0}

VARIABLES
    strategies, failures, deactivated,  \* of the process
    todo, symbol, generated,            \* of the cycle
    waiting, offers,                    \* of one run_all
    shadowTodo, shadow,                 \* of the shadow scanner: the symbols of
                                        \* its cycle, the last vote it accepted
    saved

runner == <<failures, deactivated>>
shadowing == <<shadowTodo, shadow>>
scanVars == <<strategies, runner, todo, symbol, generated, waiting, offers, shadowing, saved>>

\* What model, RSI and crossover may say of the candles of one fetch.
Generated == { <<MlVote(p, c), RsiVote(c), SmaVote(c)>> : p \in Predictions, c \in Series }

\* _create_ml_strategy and its fallback.
Deployed(models) == IF models = {} THEN {"momentum"} ELSE models

\* Every strategy gets the identifier of the active configuration.
IdOf(strategy) == "active"
Ids == {"active"}

ScanInit ==
    /\ \E models \in SUBSET Symbols : strategies = Deployed(models)
    /\ failures = [i \in Ids |-> 0] /\ deactivated = {}
    /\ todo = {} /\ symbol = "none"
    /\ generated \in Generated
    /\ waiting = {} /\ offers = {}
    /\ shadowTodo = {} /\ shadow = Silent
    /\ saved = {}

-----------------------------------------------------------------------------
\* No strategy has a symbols attribute, so that each cycle is over all.
BeginCycle ==
    /\ todo = {} /\ symbol = "none"
    /\ todo' = Symbols
    /\ UNCHANGED <<strategies, runner, symbol, generated, waiting, offers, shadowing, saved>>

\* get_klines, and the strategies that run_all finds active.
Fetch(s) ==
    /\ symbol = "none" /\ s \in todo
    /\ symbol' = s /\ todo' = todo \ {s}
    /\ generated' \in Generated
    /\ waiting' = {g \in strategies : IdOf(g) \notin deactivated}
    /\ offers' = {}
    /\ UNCHANGED <<strategies, runner, shadowing, saved>>

\* An exception is logged, and the next symbol is scanned.
FetchFails(s) ==
    /\ symbol = "none" /\ s \in todo
    /\ todo' = todo \ {s}
    /\ UNCHANGED <<strategies, runner, symbol, generated, waiting, offers, shadowing, saved>>

-----------------------------------------------------------------------------
\* What a strategy hears of its generators; those in raised have raised, and
\* the composite goes on without them.
Votes(g, raised) ==
    LET all == IF g = "momentum" THEN Tail(generated) ELSE generated
    IN  [k \in DOMAIN all |-> IF k \in raised THEN Silent ELSE all[k]]
Weights(g) == IF g = "momentum" THEN <<4, 6>> ELSE <<6, 2, 2>>

\* evaluate: a strategy for another symbol answers None.
Concerns(g) == g = "momentum" \/ g = symbol
Offer(g, raised) ==
    [by |-> g, votes |-> Votes(g, raised),
     signal |-> IF Concerns(g) THEN Composite(Votes(g, raised), Weights(g)) ELSE Silent]

\* Mutant: only a signal counts as a success.
CountSignals(g, signal) ==
    IF signal = Silent THEN failures ELSE [failures EXCEPT ![IdOf(g)] = 0]

\* A success, whatever it answered, clears the count.
CountSuccess(g, signal) == [failures EXCEPT ![IdOf(g)] = 0]

Evaluate(g) ==
    /\ g \in waiting
    /\ waiting' = waiting \ {g}
    /\ \E raised \in SUBSET (DOMAIN Weights(g)) :
        LET o == Offer(g, raised)
        IN  /\ failures' = CountSuccess(g, o.signal)
            /\ offers' = IF o.signal = Silent THEN offers ELSE offers \cup {o}
    /\ UNCHANGED <<strategies, deactivated, todo, symbol, generated, shadowing, saved>>

\* A timeout or an exception.  A strategy that leaves at once, because the
\* symbol is another, cannot fail.
EvaluateFails(g) ==
    /\ g \in waiting /\ Concerns(g)
    /\ waiting' = waiting \ {g}
    /\ failures' = [failures EXCEPT ![IdOf(g)] = @ + 1]
    /\ deactivated' = IF failures'[IdOf(g)] >= MaxFailures
                      THEN deactivated \cup {IdOf(g)} ELSE deactivated
    /\ UNCHANGED <<strategies, todo, symbol, generated, offers, shadowing, saved>>

-----------------------------------------------------------------------------
\* The identifier _save_signal gives the event: the signal's, read before the
\* INSERT that would have assigned its default.  The shadow scanner's is no
\* other.
SignalIdAtAppend == "null"

\* events.aggregate_id is NOT NULL: otherwise the INSERT is refused, and the
\* signal is lost with its session.
Saved(signals) == IF SignalIdAtAppend # "null" THEN saved \cup signals ELSE saved

\* Mutant: a symbol whose signals were not saved is scanned again at once.
EndScanAgain ==
    /\ symbol \in Symbols /\ waiting = {}
    /\ symbol' = "none"
    /\ todo' = IF offers # {} THEN todo \cup {symbol} ELSE todo
    /\ UNCHANGED <<strategies, runner, generated, waiting, offers, shadowing, saved>>

\* run_all has returned: each intent is saved, the first that fails being the
\* last of its symbol.
EndScan ==
    /\ symbol \in Symbols /\ waiting = {}
    /\ symbol' = "none"
    /\ saved' = Saved({o.signal : o \in offers})
    /\ UNCHANGED <<strategies, runner, todo, generated, waiting, offers, shadowing>>

-----------------------------------------------------------------------------
(* The shadow scanner, for the symbols with a model.                       *)

ShadowBegins ==
    /\ shadowTodo = {}
    /\ shadowTodo' = strategies \ {"momentum"}
    /\ UNCHANGED <<strategies, runner, todo, symbol, generated, waiting, offers, shadow, saved>>

\* The levels that a BUY must have are asked of every vote.
ShadowAccepts(vote) ==
    /\ vote # Silent
    /\ vote.stop > 0 /\ vote.stop < vote.entry /\ vote.entry < vote.target

\* One symbol: the model votes on candles of its own, and an accepted vote is
\* saved.
ShadowScan(s) ==
    /\ s \in shadowTodo /\ shadowTodo' = shadowTodo \ {s}
    /\ \E vote \in {votes[1] : votes \in Generated} :
        IF ShadowAccepts(vote) THEN shadow' = vote /\ saved' = Saved({vote})
        ELSE UNCHANGED <<shadow, saved>>
    /\ UNCHANGED <<strategies, runner, todo, symbol, generated, waiting, offers>>

\* The candles cannot be fetched: the loop goes on with the next symbol.
ShadowFails(s) ==
    /\ s \in shadowTodo /\ shadowTodo' = shadowTodo \ {s}
    /\ UNCHANGED <<strategies, runner, todo, symbol, generated, waiting, offers, shadow, saved>>

-----------------------------------------------------------------------------
ScanStep ==
    \/ BeginCycle \/ EndScan
    \/ \E s \in Symbols : Fetch(s) \/ FetchFails(s)
    \/ \E g \in strategies : Evaluate(g) \/ EvaluateFails(g)

ShadowStep == \E s \in Symbols : ShadowScan(s) \/ ShadowFails(s)

ScanNext == ScanStep \/ ShadowBegins \/ ShadowStep

ScanSpec == ScanInit /\ [][ScanNext]_scanVars

\* Every await has a timeout, and the loops, a task each, catch what is raised.
FairScanSpec == ScanSpec /\ WF_scanVars(ScanStep) /\ WF_scanVars(ShadowStep)

-----------------------------------------------------------------------------
\* What the composite may offer: a direction that some generator gave and
\* none opposed, a confidence between the least and the greatest of theirs
\* and not below the minimum, and levels that the pipeline's first check,
\* _validate_sl_tp, accepts, which goes for the shadow's as well.
Sound(o) ==
    LET heard == {o.votes[k] : k \in DOMAIN o.votes} \ {Silent}
    IN  /\ StopsSound(o.signal)
        /\ \A v \in heard : v.side = o.signal.side
        /\ o.signal.confidence >= MinCombined
        /\ \E low, high \in heard :
            low.confidence <= o.signal.confidence /\ o.signal.confidence <= high.confidence
OffersSound == (\A o \in offers : Sound(o)) /\ (shadow # Silent => StopsSound(shadow))

\* The count is shared, and a strategy asked for another symbol succeeds: in
\* a deployment with two models or more no failures, however many and
\* whichever strategy's, switch the strategies off.
SharedCountNeverTrips == Cardinality(strategies) > 1 => deactivated = {}

\* Whatever fails, both scanners come to the end of a cycle again and again.
ScannerGoesOn == []<>(todo = {} /\ symbol = "none") /\ []<>(shadowTodo = {})

\* A signal that a strategy offers is saved.
OffersSaved ==
    \A side \in {"BUY", "SELL"} :
        (\E o \in offers : o.signal.side = side) ~> (\E s \in saved : s.side = side)
=============================================================================
