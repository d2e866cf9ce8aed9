-------------------------- MODULE StateIngressProofs --------------------------
(***************************************************************************)
(* First the dispatcher, for every module that gives it its handlers: an   *)
(* invariant of its own steps, and the step by which they keep the promise *)
(* of Delivery.  Then StateIngressRuntime: its close, on the UI thread,    *)
(* leaves no callback that could reach a window after it.                  *)
(***************************************************************************)
EXTENDS StateIngress, SequenceTheorems, TLAPS

\* A step of the dispatcher, or the end of a handler.
DispatcherNext == DispatcherStep \/ \E w \in Workers : HandlerEnds(w)

\* The receiver holds a message that may still be handed over.
Holding == receiver \in {"got", "decoded", "submit"}

\* How far close has come, and what it has left behind.
CloseInv ==
    /\ closed <=> closer # "open"
    /\ closer \in {"stopped", "silenced", "draining", "done"} => stopping
    /\ shutdown <=> closer \in {"draining", "done"}
    /\ shutdown => queue = <<>> /\ receiver \in {"none", "loop", "ended"}
    /\ closer = "done" => \A w \in Workers : running[w] = NoMessage

\* From the workers over the queue and the receiver to the socket, ids grow.
OrderInv ==
    /\ begun <= published
    /\ \A i \in 1..Len(queue) : begun < queue[i].id /\ queue[i].id <= published
    /\ \A i, j \in 1..Len(queue) : i < j => queue[i].id < queue[j].id
    /\ Holding =>
          /\ begun < inHand.id /\ inHand.id <= published
          /\ \A i \in 1..Len(queue) : queue[i].id < inHand.id
          /\ \A i \in 1..Len(wire) : inHand.id < wire[i].id
    /\ \A i \in 1..Len(wire) : begun < wire[i].id /\ wire[i].id <= published
    /\ \A i, j \in 1..Len(wire) : i < j => wire[i].id < wire[j].id
    /\ \A i \in 1..Len(queue), j \in 1..Len(wire) : queue[i].id < wire[j].id

\* What runs has begun, and no message is handled by two workers.
RunningInv ==
    \A v, w \in Workers : running[w] # NoMessage =>
        /\ running[w].id <= begun
        /\ v # w /\ running[v] # NoMessage => running[v].id # running[w].id

DispatcherInv == DispatcherTypeOK /\ CloseInv /\ OrderInv /\ RunningInv

-----------------------------------------------------------------------------
\* What is left of a queue whose head has been taken.
LEMMA TailOf ==
    ASSUME NEW s \in Seq(Messages), s # <<>>
    PROVE  /\ Head(s) = s[1] /\ 1 \in 1..Len(s) /\ Head(s) \in Messages
           /\ Tail(s) \in Seq(Messages) /\ Len(Tail(s)) = Len(s) - 1
           /\ \A i \in 1..Len(Tail(s)) : i + 1 \in 1..Len(s) /\ 1 < i + 1 /\ Tail(s)[i] = s[i + 1]
<1>1. /\ Head(s) \in Messages /\ Tail(s) \in Seq(Messages)
      /\ Head(s) = s[1] /\ Len(Tail(s)) = Len(s) - 1
      /\ \A i \in 1..Len(Tail(s)) : Tail(s)[i] = s[i + 1]
  BY HeadTailProperties
<1>2. Len(s) \in Nat /\ Len(s) # 0
  BY EmptySeq, LenProperties
<1>3. QED BY <1>1, <1>2

\* A queue to which a message has been added.
LEMMA AppendOf ==
    ASSUME NEW s \in Seq(Messages), NEW m \in Messages
    PROVE  /\ Append(s, m) \in Seq(Messages) /\ Len(s) \in Nat
           /\ Len(Append(s, m)) = Len(s) + 1
           /\ \A i \in 1..Len(Append(s, m)) :
                 \/ i \in 1..Len(s) /\ Append(s, m)[i] = s[i]
                 \/ i = Len(s) + 1 /\ Append(s, m)[i] = m
<1>1. /\ Append(s, m) \in Seq(Messages) /\ Len(Append(s, m)) = Len(s) + 1
      /\ \A i \in 1..Len(s) : Append(s, m)[i] = s[i]
      /\ Append(s, m)[Len(s) + 1] = m
  BY AppendProperties
<1>2. Len(s) \in Nat
  BY LenProperties
<1>3. QED BY <1>1, <1>2

-----------------------------------------------------------------------------
\* A dispatcher as __init__ leaves it satisfies the invariant.
LEMMA DispatcherInit == InitDispatcher => DispatcherInv
<1> SUFFICES ASSUME InitDispatcher PROVE DispatcherInv
  OBVIOUS
<1>1. wire \in Seq(Messages) /\ queue \in Seq(Messages) /\ Len(wire) = 0 /\ Len(queue) = 0
  BY EmptySeq DEF InitDispatcher
<1>2. DispatcherTypeOK
  <2>1. 0 \in 0..MaxMessages
    BY DispatcherAssumption
  <2>2. running \in [Workers -> Messages \cup {NoMessage}]
    BY DEF InitDispatcher
  <2>3. QED BY <1>1, <2>1, <2>2 DEF InitDispatcher, DispatcherTypeOK
<1>3. CloseInv /\ RunningInv
  BY DEF InitDispatcher, CloseInv, RunningInv
<1>4. OrderInv
  BY <1>1 DEF InitDispatcher, OrderInv, Holding
<1>5. QED BY <1>2, <1>3, <1>4 DEF DispatcherInv

\* The steps of callers and of close.
LEMMA CallersKeep ==
    ASSUME DispatcherInv,
           (\E t \in Topics : Register(t)) \/ Start \/ ThreadStarts \/ CloseBegins \/ Closing
    PROVE  DispatcherInv'
<1> USE DispatcherAssumption DEF DispatcherInv, DispatcherTypeOK, CloseInv, OrderInv, RunningInv, Holding,
        ends, receiverVars, executorVars, busVars
<1>1. CASE \E t \in Topics : Register(t)
  BY <1>1, SMTT(30) DEF Register
<1>2. CASE Start
  BY <1>2, SMTT(30) DEF Start
<1>3. CASE ThreadStarts
  BY <1>3, SMTT(30) DEF ThreadStarts
<1>4. CASE CloseBegins
  BY <1>4, SMTT(30) DEF CloseBegins
<1>5. CASE Stops
  BY <1>5, SMTT(30) DEF Stops
<1>6. CASE Silences
  BY <1>6, SMTT(30) DEF Silences
<1>7. CASE ShutsDown
  BY <1>7, SMTT(30) DEF ShutsDown, MayShutDown
<1>8. CASE CloseReturns
  BY <1>8, SMTT(30) DEF CloseReturns, Drained
<1>9. QED BY <1>1, <1>2, <1>3, <1>4, <1>5, <1>6, <1>7, <1>8 DEF Closing


\* A message leaves the socket: it is newer than all that came before it.
LEMMA ReceiveKeeps == DispatcherInv /\ Receive => DispatcherInv'
<1> SUFFICES ASSUME DispatcherInv, Receive PROVE DispatcherInv'
  OBVIOUS
<1> USE DispatcherAssumption DEF DispatcherInv, Receive, ends, receiverVars, executorVars, busVars
<1>1. CASE silenced /\ receiver' = "ended" /\ UNCHANGED <<wire, inHand>>
  BY <1>1, SMTT(30) DEF DispatcherTypeOK, CloseInv, OrderInv, RunningInv, Holding
<1>2. CASE wire # <<>> /\ wire' = Tail(wire) /\ Received(Head(wire))
  <2> DEFINE m == Head(wire)
  <2>1. /\ wire \in Seq(Messages) /\ m = wire[1] /\ 1 \in 1..Len(wire) /\ m \in Messages
        /\ wire' \in Seq(Messages) /\ Len(wire') = Len(wire) - 1
        /\ \A i \in 1..Len(wire') : i + 1 \in 1..Len(wire) /\ 1 < i + 1 /\ wire'[i] = wire[i + 1]
    <3>1. wire \in Seq(Messages)
      BY DEF DispatcherTypeOK
    <3>2. QED BY <1>2, <3>1, TailOf
  <2>2. \/ receiver' = "ended" /\ inHand' = inHand
        \/ receiver' = "got" /\ inHand' = m
    BY <1>2 DEF Received
  <2> HIDE DEF m
  <2>3. DispatcherTypeOK'
    BY <2>1, <2>2, SMTT(30) DEF DispatcherTypeOK
  <2>4. CloseInv' /\ RunningInv'
    BY <2>2, SMTT(30) DEF CloseInv, RunningInv
  <2>5. OrderInv'
    <3>1. \A i \in 1..Len(wire') :
             /\ begun < wire'[i].id /\ wire'[i].id <= published /\ m.id < wire'[i].id
             /\ \A j \in 1..Len(queue) : queue[j].id < wire'[i].id
      BY <2>1, SMTT(30) DEF OrderInv
    <3>2. \A i, j \in 1..Len(wire') : i < j => wire'[i].id < wire'[j].id
      <4> SUFFICES ASSUME NEW i \in 1..Len(wire'), NEW j \in 1..Len(wire'), i < j
                   PROVE  wire'[i].id < wire'[j].id
        OBVIOUS
      <4>1. i + 1 < j + 1 /\ wire'[i] = wire[i + 1] /\ wire'[j] = wire[j + 1]
            /\ i + 1 \in 1..Len(wire) /\ j + 1 \in 1..Len(wire)
        BY <2>1
      <4>2. QED BY <4>1 DEF OrderInv
    <3>3. /\ begun < m.id /\ m.id <= published
          /\ \A j \in 1..Len(queue) : queue[j].id < m.id
      BY <2>1 DEF OrderInv
    <3>4. QED BY <2>2, <3>1, <3>2, <3>3, SMTT(30) DEF OrderInv, Holding
  <2>6. QED BY <2>3, <2>4, <2>5
<1>3. QED BY <1>1, <1>2

\* The receiver hands its message over as the newest of the queue.
LEMMA SubmitKeeps == DispatcherInv /\ Submit => DispatcherInv'
<1> SUFFICES ASSUME DispatcherInv, Submit PROVE DispatcherInv'
  OBVIOUS
<1> USE DispatcherAssumption DEF DispatcherInv, ends, receiverVars, executorVars, busVars
<1>1. /\ ~shutdown /\ inHand \in Messages /\ queue \in Seq(Messages)
      /\ receiver' = "loop" /\ queue' = Append(queue, inHand)
      /\ UNCHANGED <<ends, connected, inHand, closer, running, shutdown, begun, busVars>>
  BY SMTT(30) DEF Submit, Queued, CloseInv, DispatcherTypeOK
<1>2. /\ queue' \in Seq(Messages) /\ Len(queue) \in Nat /\ Len(queue') = Len(queue) + 1
      /\ \A i \in 1..Len(queue') :
            \/ i \in 1..Len(queue) /\ queue'[i] = queue[i]
            \/ i = Len(queue) + 1 /\ queue'[i] = inHand
  BY <1>1, AppendOf
<1>3. DispatcherTypeOK'
  BY <1>1, <1>2, SMTT(30) DEF DispatcherTypeOK
<1>4. CloseInv' /\ RunningInv'
  BY <1>1, SMTT(30) DEF CloseInv, RunningInv
<1>5. OrderInv'
  <2>1. /\ begun < inHand.id /\ inHand.id <= published
        /\ \A i \in 1..Len(queue) : queue[i].id < inHand.id
        /\ \A i \in 1..Len(wire) : inHand.id < wire[i].id
    BY SMTT(30) DEF Submit, OrderInv, Holding
  <2>2. \A i \in 1..Len(queue') :
           /\ begun < queue'[i].id /\ queue'[i].id <= published
           /\ \A j \in 1..Len(wire) : queue'[i].id < wire[j].id
    BY <1>2, <2>1, SMTT(30) DEF OrderInv
  <2>3. \A i, j \in 1..Len(queue') : i < j => queue'[i].id < queue'[j].id
    <3> SUFFICES ASSUME NEW i \in 1..Len(queue'), NEW j \in 1..Len(queue'), i < j
                 PROVE  queue'[i].id < queue'[j].id
      OBVIOUS
    <3>1. i \in 1..Len(queue) /\ queue'[i] = queue[i]
      BY <1>2
    <3>2. CASE j \in 1..Len(queue) /\ queue'[j] = queue[j]
      BY <3>1, <3>2 DEF OrderInv
    <3>3. CASE j = Len(queue) + 1 /\ queue'[j] = inHand
      BY <3>1, <3>3, <2>1
    <3>4. QED BY <1>2, <3>2, <3>3
  <2>4. QED BY <1>1, <2>2, <2>3, SMTT(30) DEF OrderInv, Holding
<1>6. QED BY <1>3, <1>4, <1>5

\* The steps of the receiver.
LEMMA ReceiverKeeps == DispatcherInv /\ Receiving => DispatcherInv'
<1> SUFFICES ASSUME DispatcherInv, Receiving PROVE DispatcherInv'
  OBVIOUS
<1>1. CASE Loop \/ Decode \/ Recheck
  <2> USE DispatcherAssumption DEF DispatcherInv, DispatcherTypeOK, CloseInv, OrderInv, RunningInv, Holding,
          ends, receiverVars, executorVars, busVars
  <2>1. CASE Loop
    BY <2>1, SMTT(30) DEF Loop
  <2>2. CASE Decode
    BY <2>2, SMTT(30) DEF Decode, AfterError
  <2>3. CASE Recheck
    BY <2>3, SMTT(30) DEF Recheck
  <2>4. QED BY <1>1, <2>1, <2>2, <2>3
<1>2. QED BY <1>1, ReceiveKeeps, SubmitKeeps DEF Receiving

\* A worker takes the oldest message of the queue.
LEMMA TakeKeeps == ASSUME NEW w \in Workers, DispatcherInv, Take(w) PROVE DispatcherInv'
<1> USE DispatcherAssumption DEF DispatcherInv, ends, receiverVars, executorVars, busVars
<1> DEFINE m == Head(queue)
<1>1. /\ queue \in Seq(Messages) /\ queue # <<>> /\ queue' = Tail(queue)
      /\ running \in [Workers -> Messages \cup {NoMessage}] /\ running[w] = NoMessage
      /\ running' = [running EXCEPT ![w] = m] /\ begun' = m.id
      /\ UNCHANGED <<ends, receiverVars, closer, shutdown, busVars>>
  BY DEF Take, DispatcherTypeOK
<1>2. /\ m = queue[1] /\ 1 \in 1..Len(queue) /\ m \in Messages
      /\ queue' \in Seq(Messages) /\ Len(queue') = Len(queue) - 1
      /\ \A i \in 1..Len(queue') : i + 1 \in 1..Len(queue) /\ 1 < i + 1 /\ queue'[i] = queue[i + 1]
  BY <1>1, TailOf
<1> HIDE DEF m
<1>3. begun < m.id /\ m.id <= published /\ m.id \in 1..MaxMessages
  BY <1>2 DEF OrderInv, Messages
<1>4. DispatcherTypeOK'
  BY <1>1, <1>2, <1>3, SMTT(30) DEF DispatcherTypeOK
<1>5. CloseInv'
  BY <1>1, SMTT(30) DEF CloseInv
<1>6. RunningInv'
  <2> SUFFICES ASSUME NEW u \in Workers, NEW v \in Workers, running'[v] # NoMessage
               PROVE  /\ running'[v].id <= begun'
                      /\ u # v /\ running'[u] # NoMessage => running'[u].id # running'[v].id
    BY DEF RunningInv
  <2>1. \A x \in Workers \ {w} : /\ running'[x] = running[x]
                                 /\ running[x] # NoMessage => running[x].id < m.id
    <3> SUFFICES ASSUME NEW x \in Workers \ {w}
                 PROVE  /\ running'[x] = running[x]
                        /\ running[x] # NoMessage => running[x].id < m.id
      OBVIOUS
    <3>1. running'[x] = running[x]
      BY <1>1
    <3>2. running[x] # NoMessage => running[x].id \in Nat /\ running[x].id <= begun
      BY <1>1 DEF RunningInv, Messages
    <3>3. QED BY <3>1, <3>2, <1>3 DEF DispatcherTypeOK
  <2>2. running'[w] = m
    BY <1>1
  <2>3. \A x \in Workers \ {w} : running[x] # NoMessage => running[x].id \in Nat
    BY <1>1 DEF Messages
  <2>4. CASE v = w
    BY <2>1, <2>2, <2>3, <2>4, <1>1, <1>3
  <2>5. CASE v # w
    <3>1. running'[v] = running[v] /\ running[v].id < m.id /\ running[v].id \in Nat
      BY <2>1, <2>3, <2>5
    <3>2. CASE u = w
      BY <3>1, <3>2, <2>2, <1>1, <1>3
    <3>3. CASE u # w
      <4>1. running'[u] = running[u]
        BY <2>1, <3>3
      <4>2. QED BY <3>1, <4>1, <1>1, <1>3 DEF RunningInv
    <3>4. QED BY <3>2, <3>3
  <2>6. QED BY <2>4, <2>5
<1>7. OrderInv'
  <2>1. \A i \in 1..Len(queue') :
           /\ m.id < queue'[i].id /\ queue'[i].id <= published
           /\ Holding => queue'[i].id < inHand.id
           /\ \A j \in 1..Len(wire) : queue'[i].id < wire[j].id
    BY <1>2, SMTT(30) DEF OrderInv
  <2>2. \A i, j \in 1..Len(queue') : i < j => queue'[i].id < queue'[j].id
    <3> SUFFICES ASSUME NEW i \in 1..Len(queue'), NEW j \in 1..Len(queue'), i < j
                 PROVE  queue'[i].id < queue'[j].id
      OBVIOUS
    <3>1. i + 1 < j + 1 /\ queue'[i] = queue[i + 1] /\ queue'[j] = queue[j + 1]
          /\ i + 1 \in 1..Len(queue) /\ j + 1 \in 1..Len(queue)
      BY <1>2
    <3>2. QED BY <3>1 DEF OrderInv
  <2>3. /\ Holding => m.id < inHand.id
        /\ \A j \in 1..Len(wire) : m.id < wire[j].id
    BY <1>2 DEF OrderInv
  <2>4. QED BY <1>1, <1>3, <2>1, <2>2, <2>3, SMTT(30) DEF OrderInv, Holding
<1>8. QED BY <1>4, <1>5, <1>6, <1>7

\* A handler returns or raises.
LEMMA HandlerEndKeeps == ASSUME NEW w \in Workers, DispatcherInv, HandlerEnds(w) PROVE DispatcherInv'
<1> USE DispatcherAssumption DEF DispatcherInv, HandlerEnds, ends, receiverVars, busVars
<1>1. DispatcherTypeOK'
  BY SMTT(30) DEF DispatcherTypeOK
<1>2. CloseInv'
  BY SMTT(30) DEF CloseInv, DispatcherTypeOK
<1>3. OrderInv'
  BY SMTT(30) DEF OrderInv, Holding
<1>4. RunningInv'
  BY SMTT(30) DEF RunningInv, DispatcherTypeOK
<1>5. QED BY <1>1, <1>2, <1>3, <1>4

\* The bus numbers a message above all that were published.
LEMMA PublishKeeps ==
    ASSUME NEW t \in Topics, NEW k \in Kinds, DispatcherInv, Publish(t, k) PROVE DispatcherInv'
<1> USE DispatcherAssumption DEF DispatcherInv, ends, receiverVars, executorVars
<1> DEFINE m == [id |-> published + 1, topic |-> t, kind |-> k]
<1>1. /\ published < MaxMessages /\ published' = published + 1
      /\ published \in Nat /\ m.id = published + 1 /\ m \in Messages /\ wire \in Seq(Messages)
      /\ wire' = Append(wire, m) \/ wire' = wire
      /\ UNCHANGED <<ends, receiverVars, closer, executorVars>>
  BY SMTT(30) DEF Publish, DispatcherTypeOK, Messages
<1> HIDE DEF m
<1>2. /\ Len(wire) \in Nat
      /\ Append(wire, m) \in Seq(Messages) /\ Len(Append(wire, m)) = Len(wire) + 1
      /\ \A i \in 1..Len(Append(wire, m)) :
            \/ i \in 1..Len(wire) /\ Append(wire, m)[i] = wire[i]
            \/ i = Len(wire) + 1 /\ Append(wire, m)[i] = m
  BY <1>1, AppendOf
<1>3. wire' \in Seq(Messages)
  BY <1>1, <1>2
<1>4. DispatcherTypeOK'
  BY <1>1, <1>3, SMTT(30) DEF DispatcherTypeOK
<1>5. CloseInv' /\ RunningInv'
  BY <1>1, SMTT(30) DEF CloseInv, RunningInv
<1>6. OrderInv'
  <2>1. \A i \in 1..Len(wire') :
           \/ i \in 1..Len(wire) /\ wire'[i] = wire[i]
           \/ i = Len(wire) + 1 /\ wire'[i] = m
    <3>1. CASE wire' = Append(wire, m)
      BY <1>2, <3>1
    <3>2. CASE wire' = wire
      BY <3>2
    <3>3. QED BY <1>1, <3>1, <3>2
  <2>2. /\ begun \in Nat /\ begun <= published
        /\ \A i \in 1..Len(queue) : queue[i].id <= published /\ queue[i].id \in Nat
        /\ \A i \in 1..Len(wire) : wire[i].id <= published /\ wire[i].id \in Nat
        /\ Holding => inHand.id <= published /\ inHand.id \in Nat
    <3>1. \A i \in 1..Len(queue) : queue[i] \in Messages
      BY ElementOfSeq DEF DispatcherTypeOK
    <3>2. \A i \in 1..Len(wire) : wire[i] \in Messages
      BY ElementOfSeq DEF DispatcherTypeOK
    <3>3. Holding => inHand \in Messages
      BY DEF Holding, DispatcherTypeOK
    <3>4. QED BY <3>1, <3>2, <3>3 DEF OrderInv, DispatcherTypeOK, Messages
  <2>3. \A i \in 1..Len(wire') :
           /\ begun < wire'[i].id /\ wire'[i].id <= published'
           /\ Holding => inHand.id < wire'[i].id
           /\ \A j \in 1..Len(queue) : queue[j].id < wire'[i].id
    <3> SUFFICES ASSUME NEW i \in 1..Len(wire')
                 PROVE  /\ begun < wire'[i].id /\ wire'[i].id <= published'
                        /\ Holding => inHand.id < wire'[i].id
                        /\ \A j \in 1..Len(queue) : queue[j].id < wire'[i].id
      OBVIOUS
    <3>1. CASE i \in 1..Len(wire) /\ wire'[i] = wire[i]
      BY <1>1, <2>2, <3>1 DEF OrderInv
    <3>2. CASE i = Len(wire) + 1 /\ wire'[i] = m
      BY <1>1, <2>2, <3>2
    <3>3. QED BY <2>1, <3>1, <3>2
  <2>4. \A i, j \in 1..Len(wire') : i < j => wire'[i].id < wire'[j].id
    <3> SUFFICES ASSUME NEW i \in 1..Len(wire'), NEW j \in 1..Len(wire'), i < j
                 PROVE  wire'[i].id < wire'[j].id
      OBVIOUS
    <3>0. Len(wire') \in Nat /\ Len(wire') <= Len(wire) + 1
      BY <1>1, <1>2
    <3>1. i \in 1..Len(wire) /\ wire'[i] = wire[i]
      BY <2>1, <1>2, <3>0
    <3>2. CASE j \in 1..Len(wire) /\ wire'[j] = wire[j]
      BY <3>1, <3>2 DEF OrderInv
    <3>3. CASE j = Len(wire) + 1 /\ wire'[j] = m
      BY <3>1, <3>3, <2>2, <1>1
    <3>4. QED BY <2>1, <3>2, <3>3
  <2>5. QED BY <1>1, <2>2, <2>3, <2>4, SMTT(30) DEF OrderInv, Holding
<1>7. QED BY <1>4, <1>5, <1>6

\* The invariant is inductive.
LEMMA DispatcherInductive ==
    DispatcherInv /\ (DispatcherNext \/ UNCHANGED dispatcherVars) => DispatcherInv'
<1> SUFFICES ASSUME DispatcherInv, DispatcherNext \/ UNCHANGED dispatcherVars PROVE DispatcherInv'
  OBVIOUS
<1>1. CASE (\E t \in Topics : Register(t)) \/ Start \/ ThreadStarts \/ CloseBegins \/ Closing
  BY <1>1, CallersKeep
<1>2. CASE UNCHANGED dispatcherVars
  BY <1>2, SMTT(30) DEF dispatcherVars, ends, receiverVars, executorVars, busVars, DispatcherInv,
     DispatcherTypeOK, CloseInv, OrderInv, RunningInv, Holding
<1>3. QED
  BY <1>1, <1>2, ReceiverKeeps, TakeKeeps, HandlerEndKeeps, PublishKeeps
     DEF DispatcherNext, DispatcherStep

-----------------------------------------------------------------------------
\* Where the receiver submits, close has not shut the executor down.
LEMMA SubmitFollows == DispatcherInv => SubmitNeverRefused
BY DEF DispatcherInv, CloseInv, SubmitNeverRefused

\* A new dispatcher has sent and begun nothing.
LEMMA DeliveryInit == InitDispatcher => Promise!Init
BY DEF InitDispatcher, Promise!Init, Active

\* A worker that takes a message begins it: later than all begun so far, and
\* before close has returned.
LEMMA TakeBegins == ASSUME NEW w \in Workers, DispatcherInv, Take(w) PROVE Promise!Begin
<1>1. /\ queue \in Seq(Messages) /\ queue # <<>>
      /\ running \in [Workers -> Messages \cup {NoMessage}] /\ running[w] = NoMessage
      /\ running' = [running EXCEPT ![w] = Head(queue)] /\ begun' = Head(queue).id
      /\ published' = published /\ closer' = closer
  BY DEF Take, DispatcherInv, DispatcherTypeOK, busVars
<1>2. /\ Head(queue) = queue[1] /\ 1 \in 1..Len(queue) /\ Head(queue) \in Messages
  BY <1>1, TailOf
<1>3. begun' \in (begun + 1) .. published
  <2>1. begun < Head(queue).id /\ Head(queue).id <= published
    BY <1>2 DEF DispatcherInv, OrderInv
  <2>2. Head(queue).id \in Nat /\ begun \in Nat /\ published \in Nat
    BY <1>2, DispatcherAssumption DEF Messages, DispatcherInv, DispatcherTypeOK
  <2>3. QED BY <1>1, <2>1, <2>2
<1>4. Active' = Active \cup {begun'}
  <2>1. Head(queue) # NoMessage
    BY <1>2, DispatcherAssumption
  <2>2. \A v \in Workers : running'[v] = IF v = w THEN Head(queue) ELSE running[v]
    BY <1>1
  <2>3. QED BY <1>1, <2>1, <2>2 DEF Active
<1>5. closer # "done"
  BY <1>1 DEF DispatcherInv, CloseInv
<1>6. QED BY <1>1, <1>3, <1>4, <1>5 DEF Promise!Begin

\* The end of a handler ends exactly one of the messages being handled.
LEMMA HandlerEndEnds == ASSUME NEW w \in Workers, DispatcherInv, HandlerEnds(w) PROVE Promise!End
<1>1. /\ running \in [Workers -> Messages \cup {NoMessage}] /\ running[w] # NoMessage
      /\ running' = [running EXCEPT ![w] = NoMessage]
      /\ UNCHANGED <<published, begun, closer>>
  BY DEF HandlerEnds, DispatcherInv, DispatcherTypeOK, busVars
<1>2. running[w].id \in Active
  BY <1>1 DEF Active
<1>3. Active' = Active \ {running[w].id}
  <2>1. \A v \in Workers : running'[v] = IF v = w THEN NoMessage ELSE running[v]
    BY <1>1
  <2>2. \A v \in Workers \ {w} : running[v] # NoMessage => running[v].id # running[w].id
    BY <1>1 DEF DispatcherInv, RunningInv
  <2>3. QED BY <1>1, <2>1, <2>2 DEF Active
<1>4. QED BY <1>1, <1>2, <1>3 DEF Promise!End

\* Every step of the dispatcher is a step of Delivery or changes nothing of it.
LEMMA DeliveryStep ==
    DispatcherInv /\ (DispatcherNext \/ UNCHANGED dispatcherVars) => [Promise!Next]_(Promise!vars)
<1> SUFFICES ASSUME DispatcherInv, DispatcherNext \/ UNCHANGED dispatcherVars
             PROVE  Promise!Next \/ UNCHANGED Promise!vars
  OBVIOUS
<1>1. running' = running => Active' = Active
  BY DEF Active
<1>2. CASE \/ \E t \in Topics : Register(t)
           \/ Start \/ ThreadStarts \/ CloseBegins \/ Stops \/ Silences \/ ShutsDown
           \/ Receiving \/ UNCHANGED dispatcherVars
  <2>1. UNCHANGED <<published, begun, running>> /\ (closer # "done") = (closer' # "done")
    BY <1>2 DEF Register, Start, ThreadStarts, CloseBegins, Stops, Silences, ShutsDown, MayShutDown,
       Receiving, Loop, Receive, Decode, Recheck, Submit, dispatcherVars, busVars, executorVars,
       DispatcherInv, CloseInv
  <2>2. QED BY <1>1, <2>1 DEF Promise!vars
<1>3. CASE CloseReturns
  <2>1. Active = {} /\ closer = "draining"
    BY <1>3 DEF CloseReturns, Drained, Active
  <2>2. UNCHANGED <<published, begun, running>> /\ closer' = "done"
    BY <1>3 DEF CloseReturns, executorVars, busVars
  <2>3. Promise!Close
    BY <1>1, <2>1, <2>2 DEF Promise!Close
  <2>4. QED BY <2>3 DEF Promise!Next
<1>4. ASSUME NEW t \in Topics, NEW k \in Kinds, Publish(t, k) PROVE Promise!Next
  <2>1. published' = published + 1 /\ UNCHANGED <<begun, running, closer>>
    BY <1>4 DEF Publish, executorVars
  <2>2. QED BY <1>1, <2>1 DEF Promise!Next, Promise!Send
<1>5. ASSUME NEW w \in Workers, Take(w) \/ HandlerEnds(w) PROVE Promise!Next
  BY <1>5, TakeBegins, HandlerEndEnds DEF Promise!Next
<1>6. QED BY <1>2, <1>3, <1>4, <1>5 DEF DispatcherNext, DispatcherStep, Closing

-----------------------------------------------------------------------------
(* The UI thread of orcUi over the dispatcher.                             *)

\* Where the UI thread is says how far close has come.
CloseFollows ==
    /\ uiClosing <=> closed
    /\ ui = "draining" => ~closed
    /\ ui = "closing" => closed
    /\ ui = "main" /\ closed => closer = "done" /\ pending = <<>>

IInv == TypeOK /\ DispatcherInv /\ CloseFollows

-----------------------------------------------------------------------------
\* A step of StateIngress is one of its dispatcher or leaves it alone.
LEMMA StepOfDispatcher == [Next]_vars => DispatcherNext \/ UNCHANGED dispatcherVars
BY DEF Next, vars, Dispatching, Publishing, Compose, UiStart, Drain, DrainBegins, Apply, DrainEnds,
   UiClose, UiClosing, UiCloseReturns, Present, Put, DispatcherNext, DispatcherStep

\* A composed ingress that has not started satisfies the invariant.
LEMMA InitHolds == Init => IInv
<1> SUFFICES ASSUME Init PROVE IInv
  OBVIOUS
<1>1. DispatcherInv
  BY DispatcherInit DEF Init
<1>2. pending \in Seq(1..MaxMessages)
  BY EmptySeq DEF Init
<1>3. QED BY <1>1, <1>2 DEF Init, InitDispatcher, IInv, TypeOK, CloseFollows, DispatcherInv

\* Once close has finished, no worker has a callback to put.
LEMMA DoneIsQuiet == IInv /\ closer = "done" => passed = {}
BY DEF IInv, TypeOK, DispatcherInv, CloseInv

\* A handler presents a message, or ends without doing so.
LEMMA PresentKeeps ==
    ASSUME NEW w \in Workers, IInv, DispatcherInv', Present(w) PROVE IInv'
<1>1. UNCHANGED <<uiClosing, ui, scheduled, pending, applied, closed, closer>>
  BY DEF Present, HandlerEnds, dispatcherVars, ends
<1>2. passed' \subseteq {v \in Workers : running'[v] # NoMessage}
  <2>1. CASE HandlerEnds(w) /\ UNCHANGED passed
    BY <2>1 DEF Present, HandlerEnds, IInv, TypeOK, DispatcherTypeOK
  <2>2. CASE passed' = passed \cup {w} /\ UNCHANGED dispatcherVars
    BY <2>2 DEF Present, dispatcherVars, executorVars, IInv, TypeOK
  <2>3. QED BY <2>1, <2>2 DEF Present
<1>3. QED BY <1>1, <1>2 DEF IInv, TypeOK, CloseFollows, DispatcherInv

\* A worker puts its callback, and its handler returns.
LEMMA PutKeeps ==
    ASSUME NEW w \in Workers, IInv, DispatcherInv', Put(w) PROVE IInv'
<1>1. /\ w \in passed /\ passed' = passed \ {w} /\ pending' = Append(pending, running[w].id)
      /\ running[w] \in Messages /\ running' = [running EXCEPT ![w] = NoMessage]
      /\ UNCHANGED <<uiClosing, ui, scheduled, applied, closed, closer>>
  BY DEF Put, HandlerEnds, ends, IInv, TypeOK, DispatcherTypeOK
<1>2. pending' \in Seq(1..MaxMessages)
  <2>1. running[w].id \in 1..MaxMessages
    BY <1>1 DEF Messages
  <2>2. QED BY <1>1, <2>1, AppendProperties DEF IInv, TypeOK
<1>3. passed' \subseteq {v \in Workers : running'[v] # NoMessage}
  BY <1>1 DEF IInv, TypeOK, DispatcherTypeOK
<1>4. closer # "done"
  BY <1>1, DoneIsQuiet
<1>5. QED BY <1>1, <1>2, <1>3, <1>4 DEF IInv, TypeOK, CloseFollows, DispatcherInv

\* The steps of the UI thread.
LEMMA UiKeeps ==
    ASSUME IInv, DispatcherInv', Compose \/ UiStart \/ Drain \/ UiClose \/ UiCloseReturns
    PROVE  IInv'
<1> USE DEF IInv, TypeOK, CloseFollows, DispatcherInv
<1>1. <<>> \in Seq(1..MaxMessages)
  BY EmptySeq
<1>2. CASE Compose
  BY <1>2 DEF Compose, Register, uiVars, executorVars
<1>3. CASE UiStart
  BY <1>3 DEF UiStart, Start, executorVars
<1>4. CASE DrainBegins
  BY <1>1, <1>4 DEF DrainBegins, dispatcherVars, ends, executorVars
<1>5. CASE Apply
  <2>1. Tail(pending) \in Seq(1..MaxMessages) /\ Head(pending) \in 1..MaxMessages
    BY <1>5, HeadTailProperties DEF Apply
  <2>2. QED BY <1>5, <2>1 DEF Apply, dispatcherVars, ends, executorVars
<1>6. CASE DrainEnds
  BY <1>6 DEF DrainEnds, Rescheduled, dispatcherVars, ends, executorVars
<1>7. CASE UiClose
  BY <1>7 DEF UiClose, CloseBegins, executorVars
<1>8. CASE UiCloseReturns
  BY <1>1, <1>8 DEF UiCloseReturns, Left, dispatcherVars, ends, executorVars
<1>9. QED BY <1>2, <1>3, <1>4, <1>5, <1>6, <1>7, <1>8 DEF Drain

\* The steps of the dispatcher that the UI thread has no part in.
LEMMA DispatchingKeeps ==
    ASSUME IInv, DispatcherInv', Dispatching \/ Publishing \/ (Closing /\ UNCHANGED uiVars)
    PROVE  IInv'
<1>1. UNCHANGED uiVars /\ closed' = closed /\ (closer = "done" => closer' = "done")
  BY DEF Dispatching, Publishing, Closing, Stops, Silences, ShutsDown, MayShutDown, CloseReturns, ThreadStarts,
     Receiving, Loop, Receive, Decode, Recheck, Submit, Take, Publish, ends
<1>2. \A w \in Workers : running[w] # NoMessage => running'[w] # NoMessage
  <2>1. CASE UNCHANGED running
    BY <2>1
  <2>2. ASSUME NEW w \in Workers, Take(w)
        PROVE  \A v \in Workers : running[v] # NoMessage => running'[v] # NoMessage
    BY <2>2 DEF Take, IInv, DispatcherInv, DispatcherTypeOK
  <2>3. QED
    BY <2>1, <2>2 DEF Dispatching, Publishing, Closing, Stops, Silences, ShutsDown, CloseReturns,
       ThreadStarts, Receiving, Loop, Receive, Decode, Recheck, Submit, Publish, executorVars
<1>3. passed' \subseteq {w \in Workers : running'[w] # NoMessage}
  BY <1>1, <1>2 DEF IInv, TypeOK, uiVars
<1>4. TypeOK'
  BY <1>1, <1>3 DEF IInv, TypeOK, DispatcherInv, uiVars
<1>5. CloseFollows'
  BY <1>1 DEF IInv, CloseFollows, uiVars
<1>6. QED BY <1>4, <1>5 DEF IInv

\* The invariant is inductive.
THEOREM IngressInductive == Spec => []IInv
<1>1. IInv /\ [Next]_vars => IInv'
  <2> SUFFICES ASSUME IInv, [Next]_vars PROVE IInv'
    OBVIOUS
  <2>1. DispatcherInv'
    BY StepOfDispatcher, DispatcherInductive DEF IInv
  <2>2. CASE UNCHANGED vars
    BY <2>1, <2>2 DEF vars, uiVars, dispatcherVars, ends, executorVars, IInv, TypeOK, CloseFollows, DispatcherInv
  <2>3. QED
    BY <2>1, <2>2, PresentKeeps, PutKeeps, UiKeeps, DispatchingKeeps DEF Next, UiClosing
<1>2. QED BY <1>1, InitHolds, PTL DEF Spec

\* The types, and that only workers with a message have passed the check of
\* _schedule_state.
THEOREM TypeCorrect == Spec => []TypeOK
BY IngressInductive, PTL DEF IInv

\* After StateIngressRuntime.close no callback is left in the queue and no
\* worker can put one: the dispatcher it has closed has no handler running.
THEOREM NothingLeftHolds == Spec => []NothingLeft
<1>1. IInv => NothingLeft
  BY DoneIsQuiet DEF IInv, CloseFollows, NothingLeft
<1>2. QED BY <1>1, IngressInductive, PTL

\* Delivery is kept although the UI thread, not the dispatcher, decides when
\* to compose, start and close.
THEOREM DeliveryImplemented == Spec => ImplementsDelivery
<1>1. Init => Promise!Init
  BY DeliveryInit DEF Init
<1>2. DispatcherInv /\ [Next]_vars => [Promise!Next]_(Promise!vars)
  BY StepOfDispatcher, DeliveryStep
<1>3. Spec => []DispatcherInv
  BY IngressInductive, PTL DEF IInv
<1>4. QED BY <1>1, <1>2, <1>3, PTL DEF Spec, ImplementsDelivery, Promise!Spec

\* The receiver never submits to an executor that close has shut down,
\* whenever close comes and however many workers and messages there are
\* (message_dispatcher.py, close and the end of _receive_loop).
THEOREM SubmitNeverRefusedHolds == Spec => []SubmitNeverRefused
<1>1. IInv => SubmitNeverRefused
  BY SubmitFollows DEF IInv
<1>2. QED BY <1>1, IngressInductive, PTL

\* Reception ends only through close or a payload that is no JSON object,
\* never through a decoder or a handler that raises.
THEOREM ReceptionSurvivesHolds == Spec => ReceptionSurvives
<1>1. DispatcherInv /\ [Next]_vars =>
         [(receiver # "ended" /\ receiver' = "ended") =>
             stopping \/ silenced \/ (receiver = "poll" /\ Head(wire).kind = "malformed")]_dispatcherVars
  <2> SUFFICES ASSUME DispatcherInv, DispatcherNext, receiver # "ended", receiver' = "ended"
               PROVE  stopping \/ silenced \/ (receiver = "poll" /\ Head(wire).kind = "malformed")
    BY StepOfDispatcher
  <2>1. CASE Receiving
    BY <2>1 DEF Receiving, Loop, Receive, Received, Decode, AfterError, Recheck, Submit,
       DispatcherInv, CloseInv
  <2>2. CASE ThreadStarts
    BY <2>2 DEF ThreadStarts
  <2>3. CASE \/ \E t \in Topics : Register(t) \/ \E k \in Kinds : Publish(t, k)
             \/ Start \/ CloseBegins \/ Closing
             \/ \E w \in Workers : Take(w) \/ HandlerEnds(w)
    <3>1. receiver' = receiver
      BY <2>3 DEF Register, Publish, Start, CloseBegins, Closing, Stops, Silences, ShutsDown,
         CloseReturns, Take, HandlerEnds, receiverVars
    <3>2. QED BY <3>1
  <2>4. QED BY <2>1, <2>2, <2>3 DEF DispatcherNext, DispatcherStep
<1>2. Spec => []DispatcherInv
  BY IngressInductive, PTL DEF IInv
<1>3. QED BY <1>1, <1>2, PTL DEF Spec, ReceptionSurvives
=============================================================================
