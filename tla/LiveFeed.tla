------------------------------ MODULE LiveFeed ------------------------------
(***************************************************************************)
(* Events on their way to the dashboards: published in Redis, taken by the *)
(* API's listener, broadcast to the sockets of a channel, shown by the     *)
(* browser's service, which opens a new socket when one is lost.  All      *)
(* dashboards subscribe to the same channels, so that one channel stands   *)
(* for all; their sockets are let in, which needs debug mode without an    *)
(* API key, for the service sends no token.                                *)
(* disturbed, endedBy and deaf are history: the messages during whose      *)
(* broadcast a socket came or left, the message that the listener failed   *)
(* with (none if Redis failed), and the sockets that were there when its   *)
(* task was done.                                                          *)
(***************************************************************************)
EXTENDS Integers, Sequences, FiniteSets

CONSTANTS
    Browsers,
    SocketsEach,        \* bound on the sockets a browser has left traces of
    MaxMessages, MaxFaults, MaxRestarts

ASSUME FeedAssumption ==
    /\ SocketsEach \in Nat \ {0}
    /\ {MaxMessages, MaxFaults, MaxRestarts} \subseteq Nat

VARIABLES
    hasSocket, timers, held,    \* of each browser's service: socket$ is set,
                                \* reconnections due, sockets it listens to
    opening, alive,             \* of the network
    up, serving, subscribed,    \* of the API: endpoints, members of the channel
    listener, queue, cast,      \* its Redis task and the broadcast under way
    published, shown,           \* messages, and how often each was shown
    disturbed, endedBy, deaf, faults, restarts

service == <<hasSocket, timers, held>>
network == <<opening, alive>>
endpoints == <<serving, subscribed>>
task == <<listener, queue, cast>>
messages == <<published, shown>>
history == <<disturbed, endedBy, deaf>>
bounds == <<faults, restarts>>
vars == <<service, network, up, endpoints, task, messages, history, bounds>>

Sockets == Browsers \X (1..SocketsEach)
Owner(s) == s[1]
Free(s) == s \notin held \cup serving \cup cast.visited

Quiet == [message |-> 0, size |-> 0, visited |-> {}, dead |-> {}]
Casting == cast # Quiet
Disturbed == IF Casting THEN disturbed \cup {cast.message} ELSE disturbed

\* ngOnInit connects once; the API has no listener before a socket connects.
Init ==
    /\ hasSocket = [b \in Browsers |-> FALSE]
    /\ timers = [b \in Browsers |-> 1]
    /\ held = {} /\ opening = {} /\ alive = {}
    /\ up = TRUE /\ serving = {} /\ subscribed = {}
    /\ listener = "none" /\ queue = <<>> /\ cast = Quiet
    /\ published = 0
    /\ shown = [b \in Browsers |-> [m \in 1..MaxMessages |-> 0]]
    /\ disturbed = {} /\ endedBy = 0 /\ deaf = {}
    /\ faults = 0 /\ restarts = 0

-----------------------------------------------------------------------------
(* The browser.                                                            *)

\* Mutant: connect does not look whether there is a socket.
SocketsOpenedUnguarded(b) == timers[b]

\* The timers of one loss fall due together: the first connect sets socket$
\* and the second returns.
SocketsOpened(b) == IF hasSocket[b] THEN 0 ELSE 1

Reconnect(b) ==
    /\ timers[b] > 0
    /\ \E new \in SUBSET {s \in Sockets : Owner(s) = b /\ Free(s)} :
        /\ Cardinality(new) = SocketsOpened(b)
        /\ held' = held \cup new /\ opening' = opening \cup new
    /\ hasSocket' = [hasSocket EXCEPT ![b] = TRUE]
    /\ timers' = [timers EXCEPT ![b] = 0]
    /\ UNCHANGED <<alive, up, endpoints, task, messages, history, bounds>>

\* Mutant: a lost socket is given up.
TimersAfterLossNone == {0}

\* closeObserver sets a timer, and the error handler another unless the close
\* was clean.
TimersAfterLoss == {1, 2}

\* The browser sees that a connection has ended, or could not be made.
Close(s) ==
    /\ s \in held \ alive
    /\ s \in opening => ~up
    /\ held' = held \ {s} /\ opening' = opening \ {s}
    /\ hasSocket' = [hasSocket EXCEPT ![Owner(s)] = FALSE]
    /\ \E due \in TimersAfterLoss : timers' = [timers EXCEPT ![Owner(s)] = due]
    /\ UNCHANGED <<alive, up, endpoints, task, messages, history, bounds>>

\* The network loses a connection; neither end knows yet.
Break(s) ==
    /\ s \in alive /\ faults < MaxFaults
    /\ alive' = alive \ {s} /\ faults' = faults + 1
    /\ UNCHANGED <<service, opening, up, endpoints, task, messages, history, restarts>>

-----------------------------------------------------------------------------
(* The API's endpoints and its connection manager.                         *)

\* Mutant: a listener that has ended is not missed.
NeedsListenerOnce == listener = "none"

NeedsListener == listener \in {"none", "ended"}

\* websocket_endpoint up to its receive loop, with manager.connect: no await
\* between the membership and the look at the listener.
Accept(s) ==
    /\ up /\ s \in opening
    /\ opening' = opening \ {s} /\ alive' = alive \cup {s}
    /\ serving' = serving \cup {s} /\ subscribed' = subscribed \cup {s}
    /\ listener' = IF NeedsListener THEN "starting" ELSE listener
    /\ disturbed' = Disturbed
    /\ UNCHANGED <<service, up, queue, cast, messages, endedBy, deaf, bounds>>

\* The endpoint's receive raises WebSocketDisconnect: manager.disconnect.
NoticeLoss(s) ==
    /\ s \in serving \ alive
    /\ serving' = serving \ {s} /\ subscribed' = subscribed \ {s}
    /\ disturbed' = Disturbed
    /\ UNCHANGED <<service, network, up, task, messages, endedBy, deaf, bounds>>

\* The process ends, with or without manager.shutdown, and starts again.
Stop ==
    /\ up /\ restarts < MaxRestarts
    /\ up' = FALSE /\ restarts' = restarts + 1
    /\ alive' = {} /\ serving' = {} /\ subscribed' = {}
    /\ listener' = "none" /\ queue' = <<>> /\ cast' = Quiet
    /\ UNCHANGED <<service, opening, messages, history, faults>>

Start ==
    /\ ~up /\ up' = TRUE
    /\ UNCHANGED <<service, network, endpoints, task, messages, history, bounds>>

-----------------------------------------------------------------------------
(* The Redis task.                                                         *)

\* EventPublisher.publish.  Redis keeps nothing for those who do not listen.
Publish ==
    /\ published < MaxMessages /\ published' = published + 1
    /\ queue' = IF listener = "running" THEN Append(queue, published') ELSE queue
    /\ UNCHANGED <<service, network, up, endpoints, listener, cast, shown, history, bounds>>

Listen ==
    /\ listener = "starting" /\ listener' = "running"
    /\ UNCHANGED <<service, network, up, endpoints, queue, cast, messages, history, bounds>>

\* An exception, which only the log sees, ends the loop; the task still has
\* to unsubscribe and to close its connection.
LeaveLoop ==
    /\ listener' = "closing" /\ queue' = <<>> /\ cast' = Quiet
    /\ endedBy' = cast.message
    /\ UNCHANGED <<service, network, up, endpoints, messages, disturbed, deaf, restarts>>

\* The task is done.  Until then it counts as running, for as long as Redis
\* takes to answer.
EndListener ==
    /\ listener = "closing" /\ listener' = "ended"
    /\ deaf' = subscribed
    /\ UNCHANGED <<service, network, up, endpoints, queue, cast, messages, disturbed,
                   endedBy, bounds>>

\* The connection to Redis fails, in the loop or before it.
ListenerFails ==
    /\ listener = "running" /\ ~Casting
    /\ faults < MaxFaults /\ faults' = faults + 1
    /\ LeaveLoop

SubscribeFails ==
    /\ listener = "starting" /\ listener' = "ended"
    /\ faults < MaxFaults /\ faults' = faults + 1
    /\ endedBy' = 0 /\ deaf' = subscribed
    /\ UNCHANGED <<service, network, up, endpoints, queue, cast, messages, disturbed, restarts>>

\* The next message; without members broadcast returns at once.
Take ==
    /\ queue # <<>> /\ ~Casting
    /\ queue' = Tail(queue)
    /\ cast' = IF subscribed = {} THEN Quiet
               ELSE [Quiet EXCEPT !.message = Head(queue), !.size = Cardinality(subscribed)]
    /\ UNCHANGED <<service, network, up, endpoints, listener, messages, history, bounds>>

\* A set that has changed its size while it is iterated raises RuntimeError,
\* also after the last member; one that has only changed its members does
\* not, as long as its table is not rebuilt.
SizeKept == Cardinality(subscribed) = cast.size

\* Mutant: a socket that cannot be sent to is disconnected at once.
MembersAfterSendPruned(failed) == subscribed \ failed

MembersAfterSend(failed) == subscribed

\* One member of the set.  A send into a lost connection may raise.
Send(s) ==
    /\ Casting /\ SizeKept /\ s \in subscribed \ cast.visited
    /\ \E failed \in SUBSET ({s} \ alive) :
        /\ cast' = [cast EXCEPT !.visited = @ \cup {s}, !.dead = @ \cup failed]
        /\ subscribed' = MembersAfterSend(failed)
    /\ shown' = IF s \in alive /\ s \in held
                THEN [shown EXCEPT ![Owner(s)][cast.message] = @ + 1] ELSE shown
    /\ UNCHANGED <<service, network, up, serving, listener, queue, published, history, bounds>>

\* The end of the iteration; the sockets that raised are disconnected.
Finish ==
    /\ Casting /\ SizeKept /\ subscribed \subseteq cast.visited
    /\ subscribed' = subscribed \ cast.dead
    /\ cast' = Quiet
    /\ UNCHANGED <<service, network, up, serving, listener, queue, messages, history, bounds>>

SizeChanged ==
    /\ Casting /\ ~SizeKept
    /\ LeaveLoop
    /\ UNCHANGED faults

-----------------------------------------------------------------------------
Broadcast == Finish \/ SizeChanged \/ \E s \in Sockets : Send(s)

Next ==
    \/ \E b \in Browsers : Reconnect(b)
    \/ \E s \in Sockets : Close(s) \/ Break(s) \/ Accept(s) \/ NoticeLoss(s)
    \/ Stop \/ Start
    \/ Publish \/ Listen \/ ListenerFails \/ SubscribeFails \/ EndListener
    \/ Take \/ Broadcast

Spec == Init /\ [][Next]_vars

\* Timers fire, both ends notice a lost connection, the event loop accepts
\* what waits, a send ends (the server closes a socket that does not answer
\* its pings), and the container is restarted.
FairSpec ==
    /\ Spec
    /\ \A b \in Browsers : WF_vars(Reconnect(b))
    /\ \A s \in Sockets : WF_vars(Close(s)) /\ WF_vars(Accept(s)) /\ WF_vars(NoticeLoss(s))
    /\ WF_vars(Broadcast) /\ WF_vars(Start)

-----------------------------------------------------------------------------
\* The listener fails only with Redis or when somebody came or left in the
\* middle of a broadcast, never by what broadcast itself does; and once its
\* task is done the silence ends for everybody when anybody connects: whoever
\* is subscribed without a listener was so when the task was done.  (Who
\* connects while the task still closes starts none.)
SilenceExplained ==
    /\ listener \in {"closing", "ended"} => endedBy \in disturbed \cup {0}
    /\ listener = "ended" => subscribed \subseteq deaf

\* However often connections are lost and made again, and whichever end
\* notices first, no dashboard shows an event twice, unless its new socket
\* joined the very broadcast that had served the old one.
ShownOnce ==
    \A b \in Browsers : \A m \in 1..published : shown[b][m] > 1 => m \in disturbed

\* Whatever is lost, every browser comes back to the channel.
BrowsersReturn ==
    \A b \in Browsers : []<>(\E s \in subscribed \cap alive : Owner(s) = b)
==============================================================================
