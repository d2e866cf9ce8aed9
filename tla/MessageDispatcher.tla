-------------------------- MODULE MessageDispatcher --------------------------
(***************************************************************************)
(* MessageDispatcher over a ZeroMqSubscriber and the executor it owns: one *)
(* receiver thread hands decoded messages to worker threads, one caller    *)
(* registers and starts, another may close at any time.  What a handler    *)
(* does is left to the module that extends this one (HandlerEnds).         *)
(***************************************************************************)
EXTENDS Naturals, Sequences

CONSTANTS
    Topics,         \* topics that are published
    Workers,        \* threads of the executor, max_workers of them
    NoMessage,      \* a worker without work, a receiver without a message
    MaxMessages     \* bound: messages published

\* What a payload does on its way: "malformed" is no JSON object, so receive
\* itself raises; "undecodable" makes the decoder raise, "raising" the handler.
Kinds == {"good", "raising", "undecodable", "malformed"}
Messages == [id : 1..MaxMessages, topic : Topics, kind : Kinds]

ASSUME DispatcherAssumption == MaxMessages \in Nat /\ NoMessage \notin Messages

VARIABLES
    registered,     \* _registrations, and the topics subscribed to
    started, closed,
    stopping,       \* _stop_event
    silenced,       \* the subscriber's _close_event
    connected,      \* the receiver has opened its socket
    receiver,       \* where _receive_loop is; "none" before, "ended" after
    inHand,         \* the message the receiver holds
    closer,         \* where close is
    wire,           \* messages the socket has buffered
    queue,          \* work the executor has queued
    running,        \* the message each worker handles
    shutdown,       \* the executor refuses work
    begun,          \* history: the latest message a worker has taken
    published

ends == <<registered, started, closed, stopping, silenced>>
receiverVars == <<connected, receiver, inHand>>
executorVars == <<queue, running, shutdown, begun>>
busVars == <<wire, published>>
dispatcherVars == <<ends, receiverVars, closer, executorVars, busVars>>

InitDispatcher ==
    /\ registered = {} /\ started = FALSE /\ closed = FALSE
    /\ stopping = FALSE /\ silenced = FALSE
    /\ connected = FALSE /\ receiver = "none" /\ inHand = NoMessage
    /\ closer = "open" /\ wire = <<>> /\ published = 0
    /\ queue = <<>> /\ running = [w \in Workers |-> NoMessage] /\ shutdown = FALSE
    /\ begun = 0

-----------------------------------------------------------------------------
(* The callers.                                                            *)

Register(t) ==
    /\ ~started /\ ~closed /\ t \notin registered
    /\ registered' = registered \cup {t}
    /\ UNCHANGED <<started, closed, stopping, silenced, receiverVars, closer, executorVars, busVars>>

Start ==
    /\ ~closed /\ ~started
    /\ started' = TRUE
    /\ UNCHANGED <<registered, closed, stopping, silenced, receiverVars, closer, executorVars, busVars>>

\* The thread is started outside the lock: close may already be under way.
ThreadStarts ==
    /\ started /\ receiver = "none"
    /\ receiver' = "loop"
    /\ UNCHANGED <<ends, connected, inHand, closer, executorVars, busVars>>

CloseBegins ==
    /\ ~closed
    /\ closed' = TRUE /\ closer' = "closed"
    /\ UNCHANGED <<registered, started, stopping, silenced, receiverVars, executorVars, busVars>>

Stops ==
    /\ closer = "closed"
    /\ stopping' = TRUE /\ closer' = "stopped"
    /\ UNCHANGED <<registered, started, closed, silenced, receiverVars, executorVars, busVars>>

Silences ==
    /\ closer = "stopped"
    /\ silenced' = TRUE /\ closer' = "silenced"
    /\ UNCHANGED <<registered, started, closed, stopping, receiverVars, executorVars, busVars>>

\* Mutant: the receiver is not joined.
MayShutDownAtOnce == closer = "silenced"
MayShutDown == closer = "silenced" /\ receiver \in {"none", "ended"}

ShutsDown ==
    /\ MayShutDown
    /\ shutdown' = TRUE /\ queue' = <<>> /\ closer' = "draining"
    /\ UNCHANGED <<ends, receiverVars, running, begun, busVars>>

\* Mutant: the handlers that run are not waited for.
DrainedAtOnce == closer = "draining"
Drained == closer = "draining" /\ \A w \in Workers : running[w] = NoMessage

CloseReturns ==
    /\ Drained
    /\ closer' = "done"
    /\ UNCHANGED <<ends, receiverVars, executorVars, busVars>>

Closing == Stops \/ Silences \/ ShutsDown \/ CloseReturns

-----------------------------------------------------------------------------
(* The receiver.                                                           *)

Loop ==
    /\ receiver = "loop"
    /\ receiver' = IF stopping \/ silenced THEN "ended" ELSE "poll"
    /\ connected' = (connected \/ receiver' = "poll")
    /\ UNCHANGED <<ends, inHand, closer, executorVars, busVars>>

Received(m) ==
    IF m.kind = "malformed" THEN receiver' = "ended" /\ UNCHANGED inHand
                            ELSE receiver' = "got" /\ inHand' = m

\* A poll that began before the subscriber was closed may still return.
Receive ==
    /\ receiver = "poll"
    /\ \/ wire # <<>> /\ wire' = Tail(wire) /\ Received(Head(wire))
       \/ silenced /\ receiver' = "ended" /\ UNCHANGED <<wire, inHand>>
    /\ UNCHANGED <<ends, connected, closer, executorVars, published>>

AfterError == "loop"

\* A message that arrived as close began is dropped; the decoder may raise.
Decode ==
    /\ receiver = "got"
    /\ receiver' = IF stopping THEN "ended"
                   ELSE IF inHand.kind = "undecodable" \/ inHand.topic \notin registered
                        THEN AfterError ELSE "decoded"
    /\ UNCHANGED <<ends, connected, inHand, closer, executorVars, busVars>>

Recheck ==
    /\ receiver = "decoded"
    /\ receiver' = IF stopping THEN "ended" ELSE "submit"
    /\ UNCHANGED <<ends, connected, inHand, closer, executorVars, busVars>>

Queued(m) == Append(queue, m)

Submit ==
    /\ receiver = "submit"
    /\ IF shutdown THEN receiver' = "ended" /\ UNCHANGED queue
                   ELSE receiver' = "loop" /\ queue' = Queued(inHand)
    /\ UNCHANGED <<ends, connected, inHand, closer, running, shutdown, begun, busVars>>

Receiving == Loop \/ Receive \/ Decode \/ Recheck \/ Submit

-----------------------------------------------------------------------------
(* The executor and the bus.                                               *)

Take(w) ==
    /\ running[w] = NoMessage /\ queue # <<>>
    /\ running' = [running EXCEPT ![w] = Head(queue)] /\ queue' = Tail(queue)
    /\ begun' = Head(queue).id
    /\ UNCHANGED <<ends, receiverVars, closer, shutdown, busVars>>

HandlerEnds(w) ==
    /\ running[w] # NoMessage
    /\ running' = [running EXCEPT ![w] = NoMessage]
    /\ UNCHANGED <<ends, receiverVars, closer, queue, shutdown, begun, busVars>>

\* A publisher is not told of messages lost before the subscription.
Publish(t, k) ==
    /\ published < MaxMessages /\ published' = published + 1
    /\ wire' = IF connected /\ t \in registered
               THEN Append(wire, [id |-> published + 1, topic |-> t, kind |-> k])
               ELSE wire
    /\ UNCHANGED <<ends, receiverVars, closer, executorVars>>

\* Every step of the dispatcher but the end of a handler.
DispatcherStep ==
    \/ \E t \in Topics : Register(t) \/ \E k \in Kinds : Publish(t, k)
    \/ Start \/ ThreadStarts \/ CloseBegins \/ Closing \/ Receiving
    \/ \E w \in Workers : Take(w)

-----------------------------------------------------------------------------
(* Properties.                                                             *)

\* Types; a receiver past receive holds a message.
DispatcherTypeOK ==
    /\ registered \subseteq Topics
    /\ started \in BOOLEAN /\ closed \in BOOLEAN /\ stopping \in BOOLEAN /\ silenced \in BOOLEAN
    /\ connected \in BOOLEAN /\ inHand \in Messages \cup {NoMessage}
    /\ receiver \in {"none", "loop", "poll", "got", "decoded", "submit", "ended"}
    /\ receiver \in {"got", "decoded", "submit"} => inHand \in Messages
    /\ closer \in {"open", "closed", "stopped", "silenced", "draining", "done"}
    /\ wire \in Seq(Messages) /\ queue \in Seq(Messages)
    /\ running \in [Workers -> Messages \cup {NoMessage}] /\ shutdown \in BOOLEAN
    /\ published \in 0..MaxMessages /\ begun \in 0..MaxMessages

\* The receiver never submits work to an executor that close has shut down.
SubmitNeverRefused == receiver = "submit" => ~shutdown

\* The messages being handled.
Active == {running[w].id : w \in {v \in Workers : running[v] # NoMessage}}

\* The dispatcher keeps the promise of Delivery: what the threads and queues
\* between the socket and a handler do never reorders or repeats a message,
\* and close returns only when no handler runs and none can start.
Promise ==
    INSTANCE Delivery WITH
        sent   <- published,
        active <- Active,
        open   <- closer # "done"

ImplementsDelivery == Promise!Spec

\* Only close and a payload that is no JSON object end reception: neither a
\* decoder nor a handler that raises does.
ReceptionSurvives ==
    [][(receiver # "ended" /\ receiver' = "ended") =>
          stopping \/ silenced \/ (receiver = "poll" /\ Head(wire).kind = "malformed")]_dispatcherVars
=============================================================================
