------------------------ MODULE SpotifyAccountProofs ------------------------
(***************************************************************************)
(* Proofs about SpotifyAccount: what is in the executor and in the UI      *)
(* queue, told against the sequence number of the controller, and what     *)
(* follows for the saves and for what the screen shows at last.            *)
(***************************************************************************)
EXTENDS SpotifyAccount, SequenceTheorems, TLAPS

Unheard == [kind : {"read"}, seq : Nat]
Requests == [kind : {"request"}, op : Operations, at : {"start", "change", "read"}]
Jobs == {NoJob} \cup Unheard \cup HeardReads \cup Requests

EventsOf(q) == {q[i] : i \in 1..Len(q)}
Events == EventsOf(queue)

\* A read that knows the account already.
Heard(j) == j.kind = "read" /\ "result" \in DOMAIN j

\* A result that someone may still show says what the token file says.
Truthful(r, t, u) == u \/ r.error \/ r.connected = t

\* A job beside sequence number n, operation o, token file t and history u: it
\* is of this time or an earlier one, a read is of an earlier time while an
\* operation is pending, and what a read of this time has heard still holds.
JobHolds(j, n, o, t, u) ==
    /\ j.kind = "request" => j.op.seq <= n
    /\ j.kind = "read" => j.seq <= n /\ (o # NoOp => j.seq # n)
    /\ (Heard(j) /\ j.seq = n) => Truthful(j.result, t, u)

\* The same of a callback in the UI queue.
EventHolds(e, n, o, t, u) ==
    /\ e.kind = "done" => e.op.seq <= n /\ (e.op = o => Truthful(e.result, t, u))
    /\ e.kind = "read" => /\ e.seq <= n /\ (o # NoOp => e.seq # n)
                          /\ e.seq = n => Truthful(e.result, t, u)

JobsOK == jobs \in [Slots -> Jobs]
JobsInv == \A s \in Slots : JobHolds(jobs[s], seq, op, tokens, unread)
EventsInv == \A e \in Events : EventHolds(e, seq, op, tokens, unread)

\* The pending operation is the newest, of a view that is up, and allowed.
OpInv ==
    op # NoOp => /\ ~closed /\ op.key \in bound /\ op.seq = seq
                 /\ op.action = "connect" => online
                 /\ state.action = op.action

\* An operation is one request's, until that request has reported.
LoneInv ==
    \A s \in Slots : jobs[s].kind = "request" =>
        /\ \A r \in Slots \ {s} : jobs[r].kind = "request" => jobs[r].op # jobs[s].op
        /\ \A e \in Events : e.kind = "done" => e.op # jobs[s].op

\* A pending operation is worked on, or its outcome is on the way.
WorkInv ==
    op # NoOp => \/ \E s \in Slots : jobs[s].kind = "request" /\ jobs[s].op = op
                 \/ \E e \in Events : e.kind = "done" /\ e.op = op

\* A read of this time is on its way.
Awaited ==
    \/ \E s \in Slots : jobs[s].kind = "read" /\ jobs[s].seq = seq
    \/ \E e \in Events : e.kind = "read" /\ e.seq = seq

\* A screen that does not say what the token file says is about to be told.
CoverInv ==
    (~unread /\ ~closed /\ bound # {} /\ ~state.loading /\ ~state.error) =>
        state.connected = tokens \/ op # NoOp \/ Awaited

IInv == TypeOK /\ JobsOK /\ JobsInv /\ EventsInv /\ OpInv /\ LoneInv /\ WorkInv /\ CoverInv

-----------------------------------------------------------------------------
\* What the kind of a job says of its fields.
LEMMA JobKinds ==
    ASSUME NEW j \in Jobs
    PROVE  /\ j.kind \in {"none", "read", "request"}
           /\ j.kind = "none" => j = NoJob
           /\ j.kind = "request" => j \in Requests /\ j.op \in Operations
                                    /\ j.at \in {"start", "change", "read"}
           /\ j.kind = "read" => j \in Unheard \cup HeardReads /\ j.seq \in Nat
           /\ Heard(j) <=> j \in HeardReads
           /\ Heard(j) => j.result \in Results
<1>1. CASE j = NoJob
  BY <1>1 DEF NoJob, Heard, HeardReads, Unheard
<1>2. CASE j \in Unheard
  <2>1. DOMAIN j = {"kind", "seq"}
    BY <1>2 DEF Unheard
  <2>2. j \notin HeardReads
    BY <2>1 DEF HeardReads
  <2>3. QED BY <1>2, <2>1, <2>2 DEF Unheard, Heard
<1>3. CASE j \in HeardReads
  BY <1>3 DEF HeardReads, Heard
<1>4. CASE j \in Requests
  BY <1>4 DEF Requests, Heard, HeardReads
<1>5. QED BY <1>1, <1>2, <1>3, <1>4 DEF Jobs

\* The same of the kind of a callback.
LEMMA EventKinds ==
    ASSUME NEW e \in Messages
    PROVE  /\ e.kind \in {"read", "done"} /\ e.result \in Results
           /\ e.kind = "read" => e \in HeardReads /\ e.seq \in Nat
           /\ e.kind = "done" => e \in Dones /\ e.op \in Operations
BY DEF Messages, HeardReads, Dones

\* The callbacks after one was posted.
LEMMA Posted ==
    ASSUME NEW q \in Seq(Messages), NEW e \in Messages
    PROVE  Append(q, e) \in Seq(Messages) /\ EventsOf(Append(q, e)) = EventsOf(q) \cup {e}
<1>1. /\ Append(q, e) \in Seq(Messages) /\ Len(Append(q, e)) = Len(q) + 1
      /\ \A i \in 1..Len(q) : Append(q, e)[i] = q[i]
      /\ Append(q, e)[Len(q) + 1] = e
  BY AppendProperties
<1>2. Len(q) \in Nat
  BY LenProperties
<1>3. 1..Len(Append(q, e)) = 1..Len(q) \cup {Len(q) + 1}
  BY <1>1, <1>2
<1>4. QED BY <1>1, <1>3 DEF EventsOf

\* The callbacks once the first has been taken.
LEMMA Taken ==
    ASSUME NEW q \in Seq(Messages), q # <<>>
    PROVE  /\ Tail(q) \in Seq(Messages) /\ Head(q) \in Messages /\ Head(q) \in EventsOf(q)
           /\ EventsOf(Tail(q)) \subseteq EventsOf(q)
           /\ EventsOf(q) \subseteq EventsOf(Tail(q)) \cup {Head(q)}
<1>1. /\ Head(q) \in Messages /\ Tail(q) \in Seq(Messages)
      /\ Head(q) = q[1] /\ Len(Tail(q)) = Len(q) - 1
      /\ \A i \in 1..Len(Tail(q)) : Tail(q)[i] = q[i + 1]
  BY HeadTailProperties
<1>2. Len(q) \in Nat /\ Len(q) # 0
  BY EmptySeq, LenProperties
<1>3. 1 \in 1..Len(q) /\ \A i \in 1..Len(Tail(q)) : i + 1 \in 1..Len(q)
  BY <1>1, <1>2
<1>4. \A i \in 1..Len(q) : i = 1 \/ (i - 1 \in 1..Len(Tail(q)) /\ q[i] = Tail(q)[i - 1])
  BY <1>1, <1>2
<1>5. QED BY <1>1, <1>3, <1>4 DEF EventsOf

\* What is queued is a sequence of messages.
LEMMA QueueOK == TypeOK => queue \in Seq(Messages) /\ Events \subseteq Messages
<1> SUFFICES ASSUME TypeOK PROVE queue \in Seq(Messages) /\ Events \subseteq Messages
  OBVIOUS
<1>1. queue \in Seq(Messages)
  BY DEF TypeOK
<1>2. \A i \in 1..Len(queue) : queue[i] \in Messages
  BY <1>1, ElementOfSeq
<1>3. QED BY <1>1, <1>2 DEF Events, EventsOf

\* Whatever is in the executor is of an earlier time once the number has grown.
LEMMA JobRetired ==
    ASSUME NEW j \in Jobs, NEW n \in Nat, NEW o, NEW t, NEW u, JobHolds(j, n, o, t, u),
           NEW p, NEW c, NEW v
    PROVE  JobHolds(j, n + 1, p, c, v)
<1>1. /\ j.kind = "request" => j.op.seq \in Nat
      /\ j.kind = "read" => j.seq \in Nat
  BY JobKinds DEF Operations
<1>2. QED BY <1>1 DEF JobHolds, Heard

\* Whatever is queued, likewise, beside an operation of the new time or none.
LEMMA EventRetired ==
    ASSUME NEW e \in Messages, NEW n \in Nat, NEW o, NEW t, NEW u, EventHolds(e, n, o, t, u),
           NEW p, NEW c, NEW v, p = NoOp \/ p.seq = n + 1
    PROVE  EventHolds(e, n + 1, p, c, v)
<1>1. /\ e.kind = "done" => e.op.seq \in Nat /\ e.op # NoOp
      /\ e.kind = "read" => e.seq \in Nat
  BY EventKinds DEF Operations, NoOp
<1>2. QED BY <1>1 DEF EventHolds

\* Once nothing reads, no read is left that could be wrong.
LEMMA NoReading ==
    ASSUME TypeOK, JobsOK, ~Reading
    PROVE  (\A s \in Slots : jobs[s].kind # "read") /\ (\A e \in Events : e.kind # "read")
BY DEF Reading, Events, EventsOf

\* What retiring the operation makes of a state, with or without an error.
LEMMA IdleState ==
    ASSUME NEW st \in States, NEW e \in BOOLEAN
    PROVE  /\ Idle(st) \in States /\ Idle(st).busy = FALSE
           /\ [Idle(st) EXCEPT !.error = e] \in States
           /\ [Idle(st) EXCEPT !.error = e].busy = FALSE
           /\ [Idle(st) EXCEPT !.error = e].error = e
           /\ [Idle(st) EXCEPT !.error = e].loading = st.loading
           /\ [Idle(st) EXCEPT !.error = e].connected = st.connected
<1> DEFINE a == [st EXCEPT !.busy = FALSE]
           b == [a EXCEPT !.action = "none"]
           c == [b EXCEPT !.error = FALSE]
           d == [c EXCEPT !.error = e]
<1>1. Idle(st) = c
  BY DEF Idle
<1>2. a \in States /\ a.busy = FALSE /\ a.loading = st.loading /\ a.connected = st.connected
  BY DEF States
<1> HIDE DEF a
<1>3. b \in States /\ b.busy = FALSE /\ b.loading = st.loading /\ b.connected = st.connected
  BY <1>2 DEF States
<1> HIDE DEF b
<1>4. c \in States /\ c.busy = FALSE /\ c.loading = st.loading /\ c.connected = st.connected
  BY <1>3 DEF States
<1> HIDE DEF c
<1>5. d \in States /\ d.busy = FALSE /\ d.loading = st.loading /\ d.connected = st.connected /\ d.error = e
  BY <1>4 DEF States
<1>6. [Idle(st) EXCEPT !.error = e] = d
  BY <1>1
<1> HIDE DEF d
<1>7. QED BY <1>1, <1>4, <1>5, <1>6

-----------------------------------------------------------------------------
\* The controller as __init__ leaves it satisfies the invariant.
LEMMA InitHolds == Init => IInv
<1> SUFFICES ASSUME Init PROVE IInv
  OBVIOUS
<1>1. queue = <<>> /\ Events = {} /\ op = NoOp /\ bound = {}
  BY DEF Init, Events, EventsOf
<1>2. TypeOK
  <2>1. state.busy = FALSE /\ queue \in Seq(Messages) /\ state \in States
    BY <1>1 DEF Init, States
  <2>2. QED BY <1>1, <2>1 DEF Init, TypeOK
<1>3. JobsOK /\ JobsInv
  BY DEF Init, JobsOK, JobsInv, Jobs, NoJob, JobHolds, Heard
<1>4. EventsInv /\ OpInv /\ WorkInv /\ CoverInv
  BY <1>1 DEF EventsInv, OpInv, WorkInv, CoverInv
<1>5. LoneInv
  BY DEF Init, LoneInv, NoJob
<1>6. QED BY <1>2, <1>3, <1>4, <1>5 DEF IInv

\* A view that comes up while nothing is pending, with the read it submits.
LEMMA ViewComes ==
    ASSUME IInv, ~closed, ~state.busy, bound' \in {{"screen"}, {"screen", "dialog"}},
           Submit(ReadJob(seq)), unread' = (unread /\ Reading),
           UNCHANGED <<modeVars, state, seq, op, secret, tokens, player, queue>>
    PROVE  IInv'
<1> USE DEF modeVars
<1>1. /\ TypeOK /\ JobsOK /\ JobsInv /\ EventsInv /\ OpInv /\ LoneInv /\ WorkInv /\ CoverInv
      /\ op = NoOp /\ op' = NoOp /\ seq \in Nat /\ Events' = Events
  BY DEF IInv, TypeOK, Events
<1>2. PICK r \in Slots : jobs[r] = NoJob /\ jobs' = [jobs EXCEPT ![r] = ReadJob(seq)]
  BY DEF Submit
<1>3. ReadJob(seq) \in Jobs /\ ReadJob(seq).kind = "read" /\ ReadJob(seq).seq = seq /\ ~Heard(ReadJob(seq))
  BY <1>1 DEF ReadJob, Jobs, Unheard, Heard
<1>4. /\ jobs'[r] = ReadJob(seq)
      /\ \A s \in Slots : s # r => jobs'[s] = jobs[s]
  BY <1>1, <1>2 DEF JobsOK
<1>5. TypeOK'
  BY <1>1 DEF TypeOK
<1>6. JobsOK'
  BY <1>1, <1>2, <1>3 DEF JobsOK
<1>7. \/ unread' = unread
      \/ (\A s \in Slots : jobs[s].kind # "read") /\ (\A e \in Events : e.kind # "read")
  BY <1>1, NoReading DEF TypeOK
<1>8. JobsInv'
  <2>1. JobHolds(ReadJob(seq), seq, NoOp, tokens, unread')
    BY <1>1, <1>3 DEF JobHolds
  <2>2. ASSUME NEW s \in Slots PROVE JobHolds(jobs[s], seq, NoOp, tokens, unread')
    BY <1>1, <1>7 DEF JobsInv, JobHolds, Heard
  <2>3. QED BY <1>1, <1>4, <2>1, <2>2 DEF JobsInv
<1>9. EventsInv'
  <2>1. ASSUME NEW e \in Events PROVE EventHolds(e, seq, NoOp, tokens, unread')
    <3>1. e.kind = "done" => e.op # NoOp
      BY <1>1, QueueOK, EventKinds DEF Operations, NoOp
    <3>2. QED BY <1>1, <1>7, <3>1 DEF EventsInv, EventHolds
  <2>2. QED BY <1>1, <2>1 DEF EventsInv
<1>10. OpInv' /\ WorkInv'
  BY <1>1 DEF OpInv, WorkInv
<1>11. LoneInv'
  BY <1>1, <1>3, <1>4 DEF LoneInv
<1>12. CoverInv'
  BY <1>1, <1>3, <1>4 DEF CoverInv, Awaited
<1>13. QED BY <1>5, <1>6, <1>8, <1>9, <1>10, <1>11, <1>12 DEF IInv

\* The screen is shown.
LEMMA ShowScreenKeeps == IInv /\ ShowScreen => IInv'
<1> SUFFICES ASSUME IInv, ShowScreen PROVE IInv'
  OBVIOUS
<1>1. ~state.busy
  BY DEF ShowScreen, IInv, TypeOK, OpInv
<1>2. QED BY <1>1, ViewComes DEF ShowScreen, Refresh

\* The dialog is opened.
LEMMA OpenDialogKeeps == IInv /\ OpenDialog => IInv'
BY ViewComes DEF OpenDialog, Refresh

\* Nothing in the executor or the queue changes, and a time ends without an
\* operation: for a view that goes, and at the close.
LEMMA TimeEnds ==
    ASSUME IInv, seq' = seq + 1, op' = NoOp, UNCHANGED <<jobs, queue>>
    PROVE  JobsOK' /\ JobsInv' /\ EventsInv' /\ OpInv' /\ LoneInv' /\ WorkInv'
<1>1. TypeOK /\ JobsOK /\ JobsInv /\ EventsInv /\ LoneInv /\ Events' = Events /\ seq \in Nat
  BY DEF IInv, TypeOK, Events
<1>2. JobsOK' /\ LoneInv' /\ OpInv' /\ WorkInv'
  BY <1>1 DEF JobsOK, LoneInv, OpInv, WorkInv
<1>3. JobsInv'
  <2>1. ASSUME NEW s \in Slots PROVE JobHolds(jobs[s], seq + 1, NoOp, tokens', unread')
    BY <1>1, JobRetired DEF JobsOK, JobsInv
  <2>2. QED BY <2>1 DEF JobsInv
<1>4. EventsInv'
  <2>1. ASSUME NEW e \in Events PROVE EventHolds(e, seq + 1, NoOp, tokens', unread')
    BY <1>1, QueueOK, EventRetired DEF EventsInv
  <2>2. QED BY <1>1, <2>1 DEF EventsInv
<1>5. QED BY <1>2, <1>3, <1>4

\* Nothing is retired: only the views, or what is shown, changes.
LEMMA TimeGoesOn ==
    ASSUME IInv, UNCHANGED <<seq, op, tokens, unread, jobs, queue>>
    PROVE  JobsOK' /\ JobsInv' /\ EventsInv' /\ LoneInv' /\ WorkInv' /\ (Awaited => Awaited')
<1>1. JobsOK /\ JobsInv /\ EventsInv /\ LoneInv /\ WorkInv /\ Events' = Events
  BY DEF IInv, Events
<1>2. QED BY <1>1 DEF JobsOK, JobsInv, EventsInv, LoneInv, WorkInv, Awaited

\* The screen is hidden, and the dialog with it.
LEMMA HideScreenKeeps == IInv /\ HideScreen => IInv'
<1> SUFFICES ASSUME IInv, HideScreen PROVE IInv'
  OBVIOUS
<1> USE DEF modeVars
<1>1. TypeOK /\ OpInv /\ bound' = {}
  BY DEF IInv, TypeOK, HideScreen, Unbind
<1>2. CoverInv'
  BY <1>1 DEF CoverInv
<1>3. CASE op.key \in {"screen", "dialog"}
  <2>1. seq' = seq + 1 /\ op' = NoOp /\ state' = Idle(state)
    BY <1>3 DEF HideScreen, Unbind
  <2>2. TypeOK'
    <3>1. state' \in States /\ state'.busy = FALSE
      BY <1>1, <2>1, IdleState DEF TypeOK
    <3>2. ~closed' => (state'.busy <=> op' # NoOp)
      BY <2>1, <3>1
    <3>3. QED BY <1>1, <2>1, <3>1, <3>2 DEF HideScreen, TypeOK
  <2>3. QED BY <1>2, <2>1, <2>2, TimeEnds DEF HideScreen, IInv
<1>4. CASE op.key \notin {"screen", "dialog"}
  <2>1. op = NoOp /\ UNCHANGED <<seq, op, state>>
    BY <1>1, <1>4 DEF HideScreen, Unbind, TypeOK, Operations
  <2>2. TypeOK' /\ OpInv'
    BY <1>1, <2>1 DEF HideScreen, TypeOK, OpInv
  <2>3. QED BY <1>2, <2>1, <2>2, TimeGoesOn DEF HideScreen, IInv
<1>5. QED BY <1>3, <1>4

\* The dialog is closed over the screen.
LEMMA CloseDialogKeeps == IInv /\ CloseDialog => IInv'
<1> SUFFICES ASSUME IInv, CloseDialog PROVE IInv'
  OBVIOUS
<1> USE DEF modeVars
<1>1. TypeOK /\ OpInv /\ CoverInv /\ bound = {"screen", "dialog"} /\ bound' = {"screen"} /\ seq \in Nat
  BY DEF IInv, TypeOK, CloseDialog, Unbind
<1>2. CASE op.key = "dialog"
  <2>1. seq' = seq + 1 /\ seq' # seq /\ op' = NoOp /\ state' = Idle(state)
    BY <1>1, <1>2 DEF CloseDialog, Unbind
  <2> unread'
    BY <2>1 DEF CloseDialog
  <2>2. TypeOK'
    <3>1. state' \in States /\ state'.busy = FALSE
      BY <1>1, <2>1, IdleState DEF TypeOK
    <3>2. ~closed' => (state'.busy <=> op' # NoOp)
      BY <2>1, <3>1
    <3>3. QED BY <1>1, <2>1, <3>1, <3>2 DEF CloseDialog, TypeOK
  <2>3. CoverInv'
    BY <2>1 DEF CoverInv
  <2>4. QED BY <2>1, <2>2, <2>3, TimeEnds DEF CloseDialog, IInv
<1>3. CASE op.key # "dialog"
  <2>1. UNCHANGED <<seq, op, state, unread>>
    BY <1>1, <1>3 DEF CloseDialog, Unbind, TypeOK
  <2>2. TypeOK' /\ OpInv'
    BY <1>1, <1>3, <2>1 DEF CloseDialog, TypeOK, OpInv
  <2>3. CoverInv'
    BY <1>1, <2>1, TimeGoesOn DEF CloseDialog, CoverInv
  <2>4. QED BY <2>1, <2>2, <2>3, TimeGoesOn DEF CloseDialog, IInv
<1>4. QED BY <1>2, <1>3

\* The controller is closed.
LEMMA CloseKeeps == IInv /\ Close => IInv'
<1> SUFFICES ASSUME IInv, Close PROVE IInv'
  OBVIOUS
<1>1. TypeOK'
  <2> TypeOK
    BY DEF IInv
  <2>1. seq + 1 \in Nat
    BY DEF TypeOK
  <2>2. /\ closed' = TRUE /\ bound' = {} /\ seq' \in Nat /\ op' = NoOp
        /\ UNCHANGED <<online, state, secret, tokens, player, queue, unread>>
    BY <2>1 DEF Close
  <2>3. ~closed' => (state'.busy <=> op' # NoOp)
    BY <2>2
  <2>4. QED BY <2>1, <2>2, <2>3 DEF TypeOK
<1>2. CoverInv'
  BY DEF Close, CoverInv
<1>3. QED BY <1>1, <1>2, TimeEnds DEF Close, IInv
-----------------------------------------------------------------------------
\* What a request makes of a state.
LEMMA BusyState ==
    ASSUME NEW st \in States, NEW action \in {"connect", "disconnect", "configure"}
    PROVE  LET busy == [st EXCEPT !.busy = TRUE, !.action = action, !.error = FALSE]
           IN busy \in States /\ busy.busy = TRUE /\ busy.action = action
<1> DEFINE a == [st EXCEPT !.busy = TRUE]
           b == [a EXCEPT !.action = action]
           c == [b EXCEPT !.error = FALSE]
<1>1. a \in States /\ a.busy = TRUE
  BY DEF States
<1> HIDE DEF a
<1>2. b \in States /\ b.busy = TRUE /\ b.action = action
  BY <1>1 DEF States
<1> HIDE DEF b
<1>3. c \in States /\ c.busy = TRUE /\ c.action = action
  BY <1>2 DEF States
<1> USE DEF a, b
<1>4. c = [st EXCEPT !.busy = TRUE, !.action = action, !.error = FALSE]
  OBVIOUS
<1> HIDE DEF a, b, c
<1>5. QED BY <1>3, <1>4

\* A view that is up makes a request that is allowed, while nothing is pending.
LEMMA BeginKeeps ==
    ASSUME IInv, ~closed, ~state.busy, NEW key \in {"screen", "dialog"}, key \in bound,
           NEW action \in {"connect", "disconnect", "configure"}, action = "connect" => online,
           Begin(key, action), UNCHANGED <<modeVars, bound, secret, tokens, player, queue>>
    PROVE  IInv'
<1> DEFINE o == [key |-> key, seq |-> seq + 1, action |-> action]
           job == [kind |-> "request", op |-> o, at |-> "start"]
<1> USE DEF modeVars
<1>1. /\ TypeOK /\ JobsOK /\ JobsInv /\ EventsInv /\ LoneInv
      /\ op = NoOp /\ seq \in Nat /\ Events' = Events
  BY DEF IInv, TypeOK, Events
<1>2. seq' = seq + 1 /\ op' = o /\ UNCHANGED unread /\ Submit(job)
  BY DEF Begin
<1>3. PICK r \in Slots : jobs[r] = NoJob /\ jobs' = [jobs EXCEPT ![r] = job]
  BY <1>2 DEF Submit
<1>4. /\ o \in Operations /\ o # NoOp /\ o.key = key /\ o.seq = seq + 1 /\ o.action = action
  BY <1>1 DEF Operations, NoOp
<1>5. state' \in States /\ state'.busy = TRUE /\ state'.action = action
  BY <1>1, BusyState DEF Begin, TypeOK
<1> HIDE DEF o
<1>6. job \in Jobs /\ job.kind = "request" /\ job.op = o /\ ~Heard(job)
  BY <1>4 DEF Jobs, Requests, Heard
<1> HIDE DEF job
<1>7. /\ jobs'[r] = job
      /\ \A s \in Slots : s # r => jobs'[s] = jobs[s]
  BY <1>1, <1>3 DEF JobsOK
<1>8. TypeOK'
  BY <1>1, <1>2, <1>4, <1>5 DEF TypeOK
<1>9. JobsOK'
  BY <1>1, <1>3, <1>6 DEF JobsOK
<1>10. JobsInv'
  <2>1. JobHolds(job, seq + 1, o, tokens, unread)
    BY <1>1, <1>4, <1>6 DEF JobHolds
  <2>2. ASSUME NEW s \in Slots PROVE JobHolds(jobs[s], seq + 1, o, tokens, unread)
    BY <1>1, JobRetired DEF JobsOK, JobsInv
  <2>3. QED BY <1>1, <1>2, <1>7, <2>1, <2>2 DEF JobsInv
<1>11. EventsInv'
  <2>1. ASSUME NEW e \in Events PROVE EventHolds(e, seq + 1, o, tokens, unread)
    BY <1>1, <1>4, QueueOK, EventRetired DEF EventsInv
  <2>2. QED BY <1>1, <1>2, <2>1 DEF EventsInv
<1>12. OpInv' /\ CoverInv'
  BY <1>2, <1>4, <1>5 DEF OpInv, CoverInv
<1>13. WorkInv'
  BY <1>2, <1>6, <1>7 DEF WorkInv
<1>14. LoneInv'
  <2>1. ASSUME NEW s \in Slots, jobs[s].kind = "request" PROVE jobs[s].op # o
    <3>1. jobs[s].op.seq \in Nat /\ jobs[s].op.seq <= seq
      BY <1>1, <2>1, JobKinds DEF JobsOK, JobsInv, JobHolds, Operations
    <3>2. QED BY <1>1, <1>4, <3>1
  <2>2. ASSUME NEW e \in Events, e.kind = "done" PROVE e.op # o
    <3>1. e.op.seq \in Nat /\ e.op.seq <= seq
      BY <1>1, <2>2, QueueOK, EventKinds DEF EventsInv, EventHolds, Operations
    <3>2. QED BY <1>1, <1>4, <3>1
  <2>3. QED BY <1>1, <1>6, <1>7, <2>1, <2>2 DEF LoneInv
<1>15. QED BY <1>8, <1>9, <1>10, <1>11, <1>12, <1>13, <1>14 DEF IInv

\* The account button, which may only show that signing in is impossible.
LEMMA RequestAccountKeeps == IInv /\ RequestAccount => IInv'
<1> SUFFICES ASSUME IInv, RequestAccount PROVE IInv'
  OBVIOUS
<1>1. /\ ~closed /\ bound = {"screen"} /\ ~state.busy
      /\ UNCHANGED <<modeVars, bound, secret, tokens, player, queue>>
      /\ TypeOK /\ OpInv
  BY DEF RequestAccount, IInv
<1>2. CASE Begin("screen", "disconnect")
  BY <1>1, <1>2, BeginKeeps
<1>3. CASE MaySignIn /\ Begin("screen", "connect")
  BY <1>1, <1>3, BeginKeeps DEF MaySignIn
<1>4. CASE state' = [state EXCEPT !.error = TRUE] /\ UNCHANGED <<seq, op, jobs, unread>>
  <2>1. state' \in States /\ state'.busy = state.busy /\ state'.error = TRUE /\ state'.action = state.action
    BY <1>1, <1>4 DEF States, TypeOK
  <2>2. TypeOK' /\ OpInv'
    BY <1>1, <1>4, <2>1 DEF modeVars, TypeOK, OpInv
  <2>3. CoverInv'
    BY <2>1 DEF CoverInv
  <2>4. QED BY <1>1, <1>4, <2>2, <2>3, TimeGoesOn DEF IInv
<1>5. QED BY <1>2, <1>3, <1>4 DEF RequestAccount, RequestSignIn

\* The dialog saves its client id.
LEMMA RequestConfigureKeeps == IInv /\ RequestConfigure => IInv'
BY BeginKeeps DEF RequestConfigure

\* The online mode changes: whatever is pending is retired, and the account is
\* read again for the screen.
LEMMA NetworkChangesKeeps == IInv /\ NetworkChanges => IInv'
<1> SUFFICES ASSUME IInv, NetworkChanges PROVE IInv'
  OBVIOUS
<1> DEFINE offline == online /\ state.action = "connect"
           retires == offline \/ op # NoOp
<1>1. /\ TypeOK /\ JobsOK /\ JobsInv /\ EventsInv /\ OpInv /\ LoneInv
      /\ Events' = Events /\ seq \in Nat /\ op' = NoOp /\ ~closed /\ bound' = bound \ {"dialog"}
      /\ seq' = (IF retires THEN seq + 1 ELSE seq) /\ seq' \in Nat
  BY DEF IInv, TypeOK, NetworkChanges, Events
<1>2. state' = (IF retires THEN [Idle(state) EXCEPT !.error = offline] ELSE state)
  BY DEF NetworkChanges
<1>3. state' \in States /\ state'.busy = FALSE
  <2>1. CASE retires
    BY <1>1, <1>2, <2>1, IdleState DEF TypeOK
  <2>2. CASE ~retires
    BY <1>1, <1>2, <2>2 DEF TypeOK, States
  <2>3. QED BY <2>1, <2>2
<1>4. online' = ~online /\ UNCHANGED <<closed, secret, tokens, player, queue>>
  BY DEF NetworkChanges
<1>5. unread' \in BOOLEAN
  BY <1>1 DEF NetworkChanges, Refresh, TypeOK
<1>6. TypeOK'
  <2>1. bound' \in {{}, {"screen"}, {"screen", "dialog"}}
    BY <1>1 DEF TypeOK
  <2>2. ~closed' => (state'.busy <=> op' # NoOp)
    BY <1>1, <1>3
  <2>3. QED BY <1>1, <1>3, <1>4, <1>5, <2>1, <2>2 DEF TypeOK
<1>7. \/ unread' = unread
      \/ (\A s \in Slots : jobs[s].kind # "read") /\ (\A e \in Events : e.kind # "read")
  BY <1>1, NoReading DEF NetworkChanges, Refresh, TypeOK
<1>8. ASSUME NEW s \in Slots PROVE JobHolds(jobs[s], seq', NoOp, tokens, unread')
  <2>1. CASE retires
    BY <1>1, <2>1, JobRetired DEF JobsOK, JobsInv
  <2>2. CASE ~retires
    BY <1>1, <1>7, <2>2 DEF JobsInv, JobHolds, Heard
  <2>3. QED BY <2>1, <2>2
<1>9. ASSUME NEW e \in Events PROVE EventHolds(e, seq', NoOp, tokens, unread')
  <2>1. CASE retires
    BY <1>1, <2>1, QueueOK, EventRetired DEF EventsInv
  <2>2. CASE ~retires
    <3>1. e.kind = "done" => e.op # NoOp
      BY <1>1, QueueOK, EventKinds DEF Operations, NoOp
    <3>2. QED BY <1>1, <1>7, <2>2, <3>1 DEF EventsInv, EventHolds
  <2>3. QED BY <2>1, <2>2
<1> HIDE DEF offline, retires
<1>10. EventsInv' /\ OpInv' /\ WorkInv'
  BY <1>1, <1>4, <1>9 DEF EventsInv, OpInv, WorkInv
<1>11. CASE bound = {}
  <2>1. UNCHANGED jobs
    BY <1>11 DEF NetworkChanges, Refresh
  <2>2. JobsOK' /\ JobsInv' /\ LoneInv' /\ CoverInv'
    BY <1>1, <1>4, <1>8, <1>11, <2>1 DEF JobsOK, JobsInv, LoneInv, CoverInv
  <2>3. QED BY <1>6, <1>10, <2>2 DEF IInv
<1>12. CASE bound # {}
  <2>1. PICK r \in Slots : jobs[r] = NoJob /\ jobs' = [jobs EXCEPT ![r] = ReadJob(seq')]
    BY <1>12 DEF NetworkChanges, Refresh, Submit
  <2>2. ReadJob(seq') \in Jobs /\ ReadJob(seq').kind = "read" /\ ReadJob(seq').seq = seq' /\ ~Heard(ReadJob(seq'))
    BY <1>1 DEF ReadJob, Jobs, Unheard, Heard
  <2>3. /\ jobs'[r] = ReadJob(seq')
        /\ \A s \in Slots : s # r => jobs'[s] = jobs[s]
    BY <1>1, <2>1 DEF JobsOK
  <2>4. JobsOK'
    BY <1>1, <2>1, <2>2 DEF JobsOK
  <2>5. JobHolds(ReadJob(seq'), seq', NoOp, tokens, unread')
    BY <1>1, <2>2 DEF JobHolds
  <2>6. JobsInv'
    BY <1>1, <1>4, <1>8, <2>3, <2>5 DEF JobsInv
  <2>7. LoneInv'
    BY <1>1, <2>2, <2>3 DEF LoneInv
  <2>8. CoverInv'
    BY <2>2, <2>3 DEF CoverInv, Awaited
  <2>9. QED BY <1>6, <1>10, <2>4, <2>6, <2>7, <2>8 DEF IInv
<1>13. QED BY <1>11, <1>12
-----------------------------------------------------------------------------
\* A step of the executor leaves the types and the pending operation alone.
LEMMA ControllerRests ==
    ASSUME IInv, UNCHANGED <<modeVars, controllerVars, player, unread>>,
           secret' \in BOOLEAN, tokens' \in BOOLEAN, queue' \in Seq(Messages)
    PROVE  TypeOK' /\ OpInv'
<1> USE DEF modeVars, controllerVars
<1>1. TypeOK /\ OpInv
  BY DEF IInv
<1>2. QED BY <1>1 DEF TypeOK, OpInv

\* Another job takes the place of a slot's job.
LEMMA SlotChanges ==
    ASSUME JobsOK, NEW s \in Slots, NEW j \in Jobs, jobs' = [jobs EXCEPT ![s] = j]
    PROVE  /\ JobsOK' /\ jobs'[s] = j
           /\ \A r \in Slots : r # s => jobs'[r] = jobs[r]
BY DEF JobsOK

\* A read asks its stores: what it hears of the token file is true now.
LEMMA ReadKeeps == ASSUME NEW s \in Slots, IInv, Read(s) PROVE IInv'
<1> USE DEF modeVars, controllerVars
<1>1. /\ TypeOK /\ JobsOK /\ JobsInv /\ EventsInv /\ LoneInv /\ WorkInv /\ CoverInv /\ Events' = Events
      /\ UNCHANGED <<modeVars, controllerVars, secret, tokens, player, queue, unread>>
      /\ jobs[s].kind = "read"
  BY DEF IInv, Read, Events
<1>2. PICK r \in {ReadStore, ReadFails} :
          jobs' = [jobs EXCEPT ![s] = [kind |-> "read", seq |-> @.seq, result |-> r]]
  BY DEF Read
<1> DEFINE j == [kind |-> "read", seq |-> jobs[s].seq, result |-> r]
<1>3. r \in Results /\ (r.error \/ r.connected = tokens)
  <2>1. secret \in BOOLEAN /\ tokens \in BOOLEAN
    BY <1>1 DEF TypeOK
  <2>2. ReadStore \in Results /\ ReadStore.connected = tokens
    BY <2>1 DEF ReadStore, Results
  <2>3. ReadFails \in Results /\ ReadFails.error
    BY DEF ReadFails, Results
  <2>4. QED BY <2>2, <2>3
<1>4. j \in Jobs /\ j.kind = "read" /\ j.seq = jobs[s].seq /\ j.result = r
  BY <1>1, <1>3, JobKinds DEF JobsOK, Jobs, HeardReads
<1>5. jobs' = [jobs EXCEPT ![s] = j]
  BY <1>2
<1> HIDE DEF j
<1>6. /\ JobsOK' /\ jobs'[s] = j
      /\ \A q \in Slots : q # s => jobs'[q] = jobs[q]
  BY <1>1, <1>4, <1>5, SlotChanges
<1>7. TypeOK' /\ OpInv'
  BY <1>1, ControllerRests DEF TypeOK
<1>8. JobsInv'
  <2>1. JobHolds(jobs[s], seq, op, tokens, unread)
    BY <1>1 DEF JobsInv
  <2>2. JobHolds(j, seq, op, tokens, unread)
    BY <1>1, <1>3, <1>4, <2>1 DEF JobHolds, Truthful
  <2>3. QED BY <1>1, <1>6, <2>2 DEF JobsInv
<1>9. EventsInv' /\ LoneInv' /\ WorkInv'
  BY <1>1, <1>4, <1>6 DEF EventsInv, LoneInv, WorkInv
<1>10. CoverInv'
  BY <1>1, <1>4, <1>6 DEF CoverInv, Awaited
<1>11. QED BY <1>6, <1>7, <1>8, <1>9, <1>10 DEF IInv

\* A job leaves the executor with its report in the UI queue.
LEMMA Reported ==
    ASSUME NEW s \in Slots, NEW e \in Messages, IInv, Post(e), Leaves(s),
           UNCHANGED <<modeVars, controllerVars, secret, tokens, player, unread>>,
           EventHolds(e, seq, op, tokens, unread),
           \/ jobs[s].kind = "read" /\ e.kind = "read" /\ e.seq = jobs[s].seq
           \/ jobs[s].kind = "request" /\ e.kind = "done" /\ e.op = jobs[s].op
    PROVE  IInv'
<1> USE DEF modeVars, controllerVars
<1>1. /\ TypeOK /\ JobsOK /\ JobsInv /\ EventsInv /\ LoneInv /\ WorkInv /\ CoverInv
  BY DEF IInv
<1>2. queue' \in Seq(Messages) /\ Events' = Events \cup {e}
  BY <1>1, QueueOK, Posted DEF Post, Events
<1>3. NoJob \in Jobs /\ NoJob.kind = "none"
  BY DEF Jobs, NoJob
<1>4. /\ JobsOK' /\ jobs'[s] = NoJob
      /\ \A q \in Slots : q # s => jobs'[q] = jobs[q]
  BY <1>1, <1>3, SlotChanges DEF Leaves
<1>5. TypeOK' /\ OpInv'
  BY <1>1, <1>2, ControllerRests DEF TypeOK
<1>6. JobsInv'
  <2>1. JobHolds(NoJob, seq, op, tokens, unread)
    BY <1>3 DEF JobHolds, Heard
  <2>2. QED BY <1>1, <1>4, <2>1 DEF JobsInv
<1>7. EventsInv'
  BY <1>1, <1>2 DEF EventsInv
<1>8. LoneInv'
  BY <1>1, <1>2, <1>3, <1>4 DEF LoneInv
<1>9. WorkInv'
  BY <1>1, <1>2, <1>4 DEF WorkInv
<1>10. CoverInv'
  BY <1>1, <1>2, <1>4 DEF CoverInv, Awaited
<1>11. QED BY <1>4, <1>5, <1>6, <1>7, <1>8, <1>9, <1>10 DEF IInv

\* A read reports what it has heard.
LEMMA ReadReportsKeeps == ASSUME NEW s \in Slots, IInv, ReadReports(s) PROVE IInv'
<1>1. TypeOK /\ JobsOK /\ JobHolds(jobs[s], seq, op, tokens, unread)
  BY DEF IInv, JobsInv
<1>2. jobs[s].kind = "read" /\ Heard(jobs[s]) /\ Post(jobs[s]) /\ Leaves(s)
  BY DEF ReadReports, Heard
<1>3. jobs[s] \in Messages
  BY <1>1, <1>2, JobKinds DEF JobsOK, Messages
<1>4. EventHolds(jobs[s], seq, op, tokens, unread)
  BY <1>1, <1>2 DEF EventHolds, JobHolds
<1>5. QED BY <1>2, <1>3, <1>4, Reported DEF ReadReports

\* A request reports its outcome: an error, or what the stores say now.
LEMMA RequestReported ==
    ASSUME NEW s \in Slots, NEW r \in Results, IInv, jobs[s].kind = "request", Report(s, r),
           r.error \/ r.connected = tokens,
           UNCHANGED <<modeVars, controllerVars, secret, tokens, player, unread>>
    PROVE  IInv'
<1> DEFINE e == [kind |-> "done", op |-> jobs[s].op, result |-> r]
<1>1. JobsOK /\ JobHolds(jobs[s], seq, op, tokens, unread)
  BY DEF IInv, JobsInv
<1>2. e \in Messages /\ e.kind = "done" /\ e.op = jobs[s].op /\ e.result = r
  BY <1>1, JobKinds DEF JobsOK, Messages, Dones
<1>3. Post(e) /\ Leaves(s)
  BY DEF Report
<1> HIDE DEF e
<1>4. EventHolds(e, seq, op, tokens, unread)
  BY <1>1, <1>2 DEF EventHolds, JobHolds, Truthful
<1>5. QED BY <1>2, <1>3, <1>4, Reported

\* An error leaves what is known of the account as it is shown.
LEMMA FailureReported ==
    ASSUME NEW s \in Slots, IInv, jobs[s].kind = "request", ReportFailure(s),
           UNCHANGED <<modeVars, controllerVars, secret, tokens, player, unread>>
    PROVE  IInv'
<1> DEFINE r == [client |-> state.client, connected |-> state.connected, error |-> TRUE]
<1>1. r \in Results /\ r.error
  BY DEF IInv, TypeOK, States, Results
<1>2. Report(s, r)
  BY DEF ReportFailure
<1> HIDE DEF r
<1>3. QED BY <1>1, <1>2, RequestReported

\* A request that was retired leaves the executor without a word.
LEMMA Dropped ==
    ASSUME NEW s \in Slots, IInv, jobs[s].kind = "request", jobs[s].op # op, Leaves(s),
           UNCHANGED <<modeVars, controllerVars, secret, tokens, player, queue, unread>>
    PROVE  IInv'
<1> USE DEF modeVars, controllerVars
<1>1. /\ TypeOK /\ JobsOK /\ JobsInv /\ EventsInv /\ LoneInv /\ WorkInv /\ CoverInv /\ Events' = Events
  BY DEF IInv, Events
<1>2. NoJob \in Jobs /\ NoJob.kind = "none"
  BY DEF Jobs, NoJob
<1>3. /\ JobsOK' /\ jobs'[s] = NoJob
      /\ \A q \in Slots : q # s => jobs'[q] = jobs[q]
  BY <1>1, <1>2, SlotChanges DEF Leaves
<1>4. TypeOK' /\ OpInv'
  BY <1>1, ControllerRests DEF TypeOK
<1>5. JobsInv'
  <2>1. JobHolds(NoJob, seq, op, tokens, unread)
    BY <1>2 DEF JobHolds, Heard
  <2>2. QED BY <1>1, <1>3, <2>1 DEF JobsInv
<1>6. EventsInv' /\ LoneInv' /\ WorkInv'
  BY <1>1, <1>2, <1>3 DEF EventsInv, LoneInv, WorkInv
<1>7. CoverInv'
  BY <1>1, <1>3 DEF CoverInv, Awaited
<1>8. QED BY <1>3, <1>4, <1>5, <1>6, <1>7 DEF IInv

\* A request goes on; what it has written shows only in what nobody has heard
\* yet, for nothing reads while it is pending.
LEMMA Moved ==
    ASSUME NEW s \in Slots, NEW place \in {"start", "change", "read"},
           IInv, jobs[s].kind = "request", Goes(s, place),
           UNCHANGED <<modeVars, controllerVars, player, queue, unread>>,
           secret' \in BOOLEAN, tokens' \in BOOLEAN,
           tokens' = tokens \/ (op # NoOp /\ jobs[s].op = op)
    PROVE  IInv'
<1> USE DEF modeVars, controllerVars
<1>1. /\ TypeOK /\ JobsOK /\ JobsInv /\ EventsInv /\ LoneInv /\ WorkInv /\ CoverInv /\ Events' = Events
  BY DEF IInv, Events
<1> DEFINE j == [jobs[s] EXCEPT !.at = place]
<1>2. jobs[s] \in Requests
  BY <1>1, JobKinds DEF JobsOK
<1>3. j \in Jobs /\ j.kind = "request" /\ j.op = jobs[s].op /\ ~Heard(j)
  <2>1. j \in Requests /\ j.kind = "request" /\ j.op = jobs[s].op
    BY <1>2 DEF Requests
  <2>2. QED BY <2>1 DEF Jobs, Heard
<1>4. jobs' = [jobs EXCEPT ![s] = j]
  BY <1>1 DEF Goes, JobsOK
<1> HIDE DEF j
<1>5. /\ JobsOK' /\ jobs'[s] = j
      /\ \A q \in Slots : q # s => jobs'[q] = jobs[q]
  BY <1>1, <1>3, <1>4, SlotChanges
<1>6. TypeOK' /\ OpInv'
  BY <1>1, ControllerRests DEF TypeOK
<1>7. JobsInv'
  <2>1. JobHolds(j, seq, op, tokens', unread)
    BY <1>1, <1>3 DEF JobsInv, JobHolds
  <2>2. ASSUME NEW q \in Slots PROVE JobHolds(jobs[q], seq, op, tokens', unread)
    BY <1>1 DEF JobsInv, JobHolds, Heard
  <2>3. QED BY <1>1, <1>5, <2>1, <2>2 DEF JobsInv
<1>8. EventsInv'
  <2>1. ASSUME NEW e \in Events PROVE EventHolds(e, seq, op, tokens', unread)
    BY <1>1 DEF EventsInv, EventHolds, LoneInv
  <2>2. QED BY <1>1, <2>1 DEF EventsInv
<1>9. LoneInv' /\ WorkInv'
  BY <1>1, <1>3, <1>5 DEF LoneInv, WorkInv
<1>10. CoverInv'
  <2>1. Awaited => Awaited'
    BY <1>1, <1>3, <1>5 DEF Awaited
  <2>2. QED BY <1>1, <2>1 DEF CoverInv
<1>11. QED BY <1>5, <1>6, <1>7, <1>8, <1>9, <1>10 DEF IInv

\* What is not current any more is not the pending operation.
LEMMA PendingIsCurrent == ASSUME IInv, op # NoOp PROVE Current(op)
BY DEF IInv, OpInv, Current

\* The steps of a request.
LEMMA RequestKeeps ==
    ASSUME NEW s \in Slots, IInv, RequestStarts(s) \/ RequestChanges(s) \/ RequestReports(s)
    PROVE  IInv'
<1> DEFINE o == jobs[s].op
<1>1. TypeOK /\ JobsOK /\ secret \in BOOLEAN /\ tokens \in BOOLEAN
  BY DEF IInv, TypeOK
<1>2. jobs[s].kind = "request" /\ o \in Operations /\ o # NoOp
  <2>1. jobs[s].kind = "request"
    BY DEF RequestStarts, RequestChanges, RequestReports
  <2>2. QED BY <1>1, <2>1, JobKinds DEF JobsOK, Operations, NoOp
<1>3. CASE RequestStarts(s)
  <2>1. CASE Current(o)
    BY <1>1, <1>2, <1>3, <2>1, Moved DEF RequestStarts
  <2>2. CASE ~Current(o)
    BY <1>2, <1>3, <2>2, PendingIsCurrent, Dropped DEF RequestStarts
  <2>3. QED BY <2>1, <2>2
<1>4. CASE RequestChanges(s)
  <2>1. UNCHANGED <<modeVars, controllerVars, player, unread>>
    BY <1>4 DEF RequestChanges
  <2>2. CASE ReportFailure(s) /\ UNCHANGED <<secret, tokens>>
    BY <1>2, <2>1, <2>2, FailureReported
  <2>3. CASE ~Commits(o) /\ Leaves(s) /\ UNCHANGED <<secret, tokens, queue>>
    BY <1>2, <2>1, <2>3, PendingIsCurrent, Dropped DEF Commits
  <2>4. CASE /\ Commits(o) /\ Goes(s, "read") /\ UNCHANGED queue
             /\ secret' = (secret \/ o.action = "configure")
             /\ tokens' = IF o.action = "configure" THEN tokens ELSE o.action = "connect"
    <3>1. o = op /\ secret' \in BOOLEAN /\ tokens' \in BOOLEAN
      BY <1>1, <2>4 DEF Commits, Current
    <3>2. QED BY <1>2, <2>1, <2>4, <3>1, Moved
  <2>5. QED BY <1>4, <2>2, <2>3, <2>4 DEF RequestChanges
<1>5. CASE RequestReports(s)
  <2>1. UNCHANGED <<modeVars, controllerVars, secret, tokens, player, unread>>
    BY <1>5 DEF RequestReports
  <2>2. CASE Report(s, ReadStore)
    <3>1. ReadStore \in Results /\ ReadStore.connected = tokens
      BY <1>1 DEF ReadStore, Results
    <3>2. QED BY <1>2, <2>1, <2>2, <3>1, RequestReported
  <2>3. CASE ReportFailure(s)
    BY <1>2, <2>1, <2>3, FailureReported
  <2>4. QED BY <1>5, <2>2, <2>3 DEF RequestReports
<1>6. QED BY <1>3, <1>4, <1>5
-----------------------------------------------------------------------------
\* What a delivered result makes of a state.
LEMMA ShownState ==
    ASSUME state \in States, NEW r \in Results
    PROVE  /\ Shows(r) \in States /\ Shows(r).busy = state.busy /\ Shows(r).action = state.action
           /\ Shows(r).connected = r.connected /\ Shows(r).error = r.error
           /\ [Shows(r) EXCEPT !.busy = FALSE] \in States
           /\ [Shows(r) EXCEPT !.busy = FALSE].busy = FALSE
           /\ [Shows(r) EXCEPT !.busy = FALSE].connected = r.connected
           /\ [Shows(r) EXCEPT !.busy = FALSE].error = r.error
<1> DEFINE a == [state EXCEPT !.client = r.client]
           b == [a EXCEPT !.connected = r.connected]
           c == [b EXCEPT !.error = r.error]
           d == [c EXCEPT !.loading = FALSE]
           f == [d EXCEPT !.busy = FALSE]
<1>1. Shows(r) = d
  BY DEF Shows
<1>2. r.client \in BOOLEAN /\ r.connected \in BOOLEAN /\ r.error \in BOOLEAN
  BY DEF Results
<1>3. a \in States /\ a.busy = state.busy /\ a.action = state.action
  BY <1>2 DEF States
<1> HIDE DEF a
<1>4. b \in States /\ b.busy = state.busy /\ b.action = state.action /\ b.connected = r.connected
  BY <1>2, <1>3 DEF States
<1> HIDE DEF b
<1>5. c \in States /\ c.busy = state.busy /\ c.action = state.action
      /\ c.connected = r.connected /\ c.error = r.error
  BY <1>2, <1>4 DEF States
<1> HIDE DEF c
<1>6. d \in States /\ d.busy = state.busy /\ d.action = state.action
      /\ d.connected = r.connected /\ d.error = r.error
  BY <1>5 DEF States
<1> HIDE DEF d
<1>7. f \in States /\ f.busy = FALSE /\ f.connected = r.connected /\ f.error = r.error
  BY <1>6 DEF States
<1>8. [Shows(r) EXCEPT !.busy = FALSE] = f
  BY <1>1
<1> HIDE DEF f
<1>9. QED BY <1>1, <1>6, <1>7, <1>8

\* With one callback less, what is said of each of the others still holds.
LEMMA Delivered ==
    ASSUME IInv, queue # <<>>, queue' = Tail(queue), UNCHANGED jobs
    PROVE  /\ Head(queue) \in Messages /\ Head(queue) \in Events /\ Head(queue).result \in Results
           /\ EventHolds(Head(queue), seq, op, tokens, unread)
           /\ queue' \in Seq(Messages) /\ Events' \subseteq Events
           /\ Events \subseteq Events' \cup {Head(queue)}
           /\ JobsOK' /\ LoneInv'
<1>1. TypeOK /\ JobsOK /\ LoneInv /\ EventsInv
  BY DEF IInv
<1>2. /\ Head(queue) \in Messages /\ Head(queue) \in Events
      /\ queue' \in Seq(Messages) /\ Events' \subseteq Events
      /\ Events \subseteq Events' \cup {Head(queue)}
  BY <1>1, QueueOK, Taken DEF Events
<1>3. JobsOK' /\ LoneInv'
  BY <1>1, <1>2 DEF JobsOK, LoneInv
<1>4. QED BY <1>1, <1>2, <1>3, EventKinds DEF EventsInv

\* A read arrives; if it is of this time, the screen says what it heard.
LEMMA ReadArrivesKeeps == IInv /\ ReadArrives => IInv'
<1> SUFFICES ASSUME IInv, ReadArrives PROVE IInv'
  OBVIOUS
<1> USE DEF modeVars
<1> DEFINE e == Head(queue)
<1>1. /\ TypeOK /\ JobsInv /\ EventsInv /\ OpInv /\ WorkInv /\ CoverInv
      /\ queue # <<>> /\ e.kind = "read" /\ queue' = Tail(queue)
      /\ UNCHANGED <<modeVars, bound, seq, op, secret, tokens, jobs, player, unread>>
  BY DEF IInv, ReadArrives
<1>2. /\ e.result \in Results /\ EventHolds(e, seq, op, tokens, unread)
      /\ queue' \in Seq(Messages) /\ Events' \subseteq Events /\ Events \subseteq Events' \cup {e}
      /\ JobsOK' /\ LoneInv'
  BY <1>1, Delivered
<1>3. state' = IF ~closed /\ bound # {} /\ e.seq = seq THEN Shows(e.result) ELSE state
  BY DEF ReadArrives, Fresh
<1> HIDE DEF e
<1>4. state' \in States /\ state'.busy = state.busy /\ state'.action = state.action
  BY <1>1, <1>2, <1>3, ShownState DEF TypeOK
<1>5. TypeOK' /\ OpInv'
  BY <1>1, <1>2, <1>4 DEF TypeOK, OpInv
<1>6. JobsInv' /\ EventsInv' /\ WorkInv'
  BY <1>1, <1>2 DEF JobsInv, EventsInv, WorkInv
<1>7. CoverInv'
  <2>1. CASE ~closed /\ bound # {} /\ e.seq = seq
    <3>1. state'.connected = e.result.connected /\ state'.error = e.result.error
      BY <1>1, <1>2, <1>3, <2>1, ShownState DEF TypeOK
    <3>2. Truthful(e.result, tokens, unread)
      BY <1>1, <1>2, <2>1 DEF EventHolds
    <3>3. QED BY <1>1, <3>1, <3>2 DEF CoverInv, Truthful
  <2>2. CASE closed \/ bound = {}
    BY <1>1, <2>2 DEF CoverInv
  <2>3. CASE e.seq # seq
    <3>1. state' = state /\ (Awaited => Awaited')
      BY <1>1, <1>2, <1>3, <2>3 DEF Awaited
    <3>2. QED BY <1>1, <3>1 DEF CoverInv
  <2>4. QED BY <2>1, <2>2, <2>3
<1>8. QED BY <1>2, <1>5, <1>6, <1>7 DEF IInv

\* The outcome of a request arrives; if it is the pending one, the screen says
\* what the stores say, and nothing is pending.
LEMMA DoneArrivesKeeps == IInv /\ DoneArrives => IInv'
<1> SUFFICES ASSUME IInv, DoneArrives PROVE IInv'
  OBVIOUS
<1> USE DEF modeVars
<1> DEFINE e == Head(queue)
<1>1. /\ TypeOK /\ JobsInv /\ EventsInv /\ OpInv /\ WorkInv /\ CoverInv
      /\ queue # <<>> /\ e.kind = "done" /\ queue' = Tail(queue)
      /\ UNCHANGED <<modeVars, seq, secret, tokens, jobs, player, unread>>
  BY DEF IInv, DoneArrives
<1>2. /\ e \in Messages /\ e.result \in Results /\ EventHolds(e, seq, op, tokens, unread)
      /\ queue' \in Seq(Messages) /\ Events' \subseteq Events /\ Events \subseteq Events' \cup {e}
      /\ JobsOK' /\ LoneInv'
  BY <1>1, Delivered
<1>3. IF Current(e.op)
      THEN /\ op' = NoOp /\ state' = [Shows(e.result) EXCEPT !.busy = FALSE]
           /\ bound' = IF e.op.action = "configure" /\ ~e.result.error THEN bound \ {"dialog"} ELSE bound
      ELSE UNCHANGED <<op, state, bound>>
  BY DEF DoneArrives
<1> HIDE DEF e
<1>4. CASE Current(e.op)
  <2>1. op' = NoOp /\ e.op = op /\ bound' \in {bound, bound \ {"dialog"}}
    BY <1>3, <1>4 DEF Current
  <2>2. /\ state' \in States /\ state'.busy = FALSE
        /\ state'.connected = e.result.connected /\ state'.error = e.result.error
    <3> DEFINE shown == [Shows(e.result) EXCEPT !.busy = FALSE]
    <3>1. state \in States /\ state' = shown
      BY <1>1, <1>3, <1>4 DEF TypeOK
    <3>2. shown \in States /\ shown.busy = FALSE
          /\ shown.connected = e.result.connected /\ shown.error = e.result.error
      BY <1>2, <3>1, ShownState
    <3> HIDE DEF shown
    <3>3. QED BY <3>1, <3>2
  <2>3. TypeOK'
    <3>1. bound' \in {{}, {"screen"}, {"screen", "dialog"}}
      BY <1>1, <2>1 DEF TypeOK
    <3>2. ~closed' => (state'.busy <=> op' # NoOp)
      BY <2>1, <2>2
    <3>3. QED BY <1>1, <1>2, <2>1, <2>2, <3>1, <3>2 DEF TypeOK
  <2>4. OpInv' /\ WorkInv'
    BY <2>1 DEF OpInv, WorkInv
  <2>5. JobsInv'
    <3>1. ASSUME NEW s \in Slots PROVE JobHolds(jobs[s], seq, NoOp, tokens, unread)
      BY <1>1 DEF JobsInv, JobHolds
    <3>2. QED BY <1>1, <2>1, <3>1 DEF JobsInv
  <2>6. EventsInv'
    <3>1. ASSUME NEW m \in Events PROVE EventHolds(m, seq, NoOp, tokens, unread)
      <4>1. m.kind = "done" => m.op # NoOp
        BY <1>1, QueueOK, EventKinds DEF Operations, NoOp
      <4>2. QED BY <1>1, <4>1 DEF EventsInv, EventHolds
    <3>2. QED BY <1>1, <1>2, <2>1, <3>1 DEF EventsInv
  <2>7. CoverInv'
    <3>1. Truthful(e.result, tokens, unread)
      BY <1>1, <1>2, <2>1 DEF EventHolds
    <3>2. QED BY <1>1, <2>2, <3>1 DEF CoverInv, Truthful
  <2>8. QED BY <1>2, <2>3, <2>4, <2>5, <2>6, <2>7 DEF IInv
<1>5. CASE ~Current(e.op)
  <2>1. op' = op /\ state' = state /\ bound' = bound
    BY <1>3, <1>5
  <2>2. TypeOK' /\ OpInv'
    BY <1>1, <1>2, <2>1 DEF TypeOK, OpInv
  <2>3. JobsInv' /\ EventsInv'
    BY <1>1, <1>2, <2>1 DEF JobsInv, EventsInv
  <2>4. WorkInv'
    <3>1. op # NoOp => e.op # op
      BY <1>5, PendingIsCurrent
    <3>2. QED BY <1>1, <1>2, <2>1, <3>1 DEF WorkInv
  <2>5. CoverInv'
    <3>1. Awaited => Awaited'
      BY <1>1, <1>2, <2>1 DEF Awaited
    <3>2. QED BY <1>1, <2>1, <3>1 DEF CoverInv
  <2>6. QED BY <1>2, <2>2, <2>3, <2>4, <2>5 DEF IInv
<1>6. QED BY <1>4, <1>5

\* The playback worker: a token file it has written is one nobody reads again.
LEMMA PlayerKeeps == IInv /\ (PlayerStarts \/ PlayerEnds) => IInv'
<1> SUFFICES ASSUME IInv, PlayerStarts \/ PlayerEnds PROVE IInv'
  OBVIOUS
<1> USE DEF modeVars, controllerVars
<1>1. /\ TypeOK /\ JobsOK /\ JobsInv /\ EventsInv /\ OpInv /\ LoneInv /\ WorkInv /\ CoverInv
      /\ UNCHANGED <<modeVars, controllerVars, secret, jobs, queue>> /\ Events' = Events
  BY DEF IInv, PlayerStarts, PlayerEnds, Events
<1>2. /\ player' \in {"idle", "renewing", "signIn"} /\ tokens' \in BOOLEAN /\ unread' \in BOOLEAN
      /\ unread' \/ (tokens' = tokens /\ unread' = unread)
  BY <1>1 DEF PlayerStarts, PlayerEnds, TypeOK
<1>3. TypeOK' /\ OpInv'
  BY <1>1, <1>2 DEF TypeOK, OpInv
<1>4. JobsOK' /\ LoneInv' /\ WorkInv'
  BY <1>1 DEF JobsOK, LoneInv, WorkInv
<1>5. JobsInv'
  BY <1>1, <1>2 DEF JobsInv, JobHolds, Truthful
<1>6. EventsInv'
  BY <1>1, <1>2 DEF EventsInv, EventHolds, Truthful
<1>7. CoverInv'
  BY <1>1, <1>2 DEF CoverInv, Awaited
<1>8. QED BY <1>3, <1>4, <1>5, <1>6, <1>7 DEF IInv

-----------------------------------------------------------------------------
\* The invariant is inductive.
LEMMA Inductive == IInv /\ [Next]_vars => IInv'
<1> SUFFICES ASSUME IInv, [Next]_vars PROVE IInv'
  OBVIOUS
<1>1. CASE UNCHANGED vars
  BY <1>1 DEF vars, modeVars, controllerVars, IInv, TypeOK, JobsOK, JobsInv, EventsInv, OpInv,
     LoneInv, WorkInv, CoverInv, Awaited, Events
<1>2. CASE ShowScreen \/ HideScreen \/ OpenDialog \/ CloseDialog
  BY <1>2, ShowScreenKeeps, HideScreenKeeps, OpenDialogKeeps, CloseDialogKeeps
<1>3. CASE RequestAccount \/ RequestConfigure \/ NetworkChanges \/ Close
  BY <1>3, RequestAccountKeeps, RequestConfigureKeeps, NetworkChangesKeeps, CloseKeeps
<1>4. CASE \E s \in Slots : Work(s)
  BY <1>4, ReadKeeps, ReadReportsKeeps, RequestKeeps DEF Work
<1>5. CASE Deliver \/ PlayerStarts \/ PlayerEnds
  BY <1>5, ReadArrivesKeeps, DoneArrivesKeeps, PlayerKeeps DEF Deliver
<1>6. QED BY <1>1, <1>2, <1>3, <1>4, <1>5 DEF Next

\* In every behaviour, whatever is read, requested or delivered late.
THEOREM AccountInductive == Spec => []IInv
BY InitHolds, Inductive, PTL DEF Spec

\* The types, and with them that the controller is busy exactly while it has an
\* operation.
THEOREM TypeCorrect == Spec => []TypeOK
<1>1. IInv => TypeOK
  BY DEF IInv
<1>2. QED BY <1>1, AccountInductive, PTL

\* A pending action has its work in the executor or its outcome on the way: no
\* order of retirements, failures and deliveries disables the buttons for good.
THEOREM BusyHasWorkHolds == Spec => []BusyHasWork
<1>1. IInv => BusyHasWork
  <2> SUFFICES ASSUME IInv, ~closed, state.busy PROVE BusyHasWork
    BY DEF BusyHasWork
  <2>1. op # NoOp
    BY DEF IInv, TypeOK
  <2>2. WorkInv
    BY DEF IInv
  <2>3. QED BY <2>1, <2>2 DEF WorkInv, BusyHasWork, Events, EventsOf
<1>2. QED BY <1>1, AccountInductive, PTL

\* Once everything has been delivered, the screen says what the token file says.
THEOREM ConnectedTruthfulHolds == Spec => []ConnectedTruthful
<1>1. IInv => ConnectedTruthful
  <2> SUFFICES ASSUME IInv, Quiet, ~unread, ~closed, bound # {}, ~state.loading, ~state.error
               PROVE  state.connected = tokens
    BY DEF ConnectedTruthful
  <2>1. (\A s \in Slots : jobs[s].kind = "none") /\ Events = {}
    BY DEF Quiet, NoJob, Events, EventsOf
  <2>2. op = NoOp /\ ~Awaited
    BY <2>1 DEF IInv, WorkInv, Awaited
  <2>3. QED BY <2>2 DEF IInv, CoverInv
<1>2. QED BY <1>1, AccountInductive, PTL

\* The one step of a request that writes is taken while the request is current.
LEMMA CommitIsPending ==
    ASSUME NEW s \in Slots, IInv, RequestChanges(s), secret' # secret \/ tokens' # tokens
    PROVE  /\ ~closed /\ state.busy /\ op # NoOp /\ op.key \in bound /\ state.action = op.action
           /\ secret' # secret => op.action = "configure"
           /\ tokens' # tokens => (op.action = "connect") = tokens'
<1> DEFINE o == jobs[s].op
<1>1. TypeOK /\ OpInv /\ jobs[s].kind = "request" /\ o \in Operations /\ o # NoOp
  BY JobKinds DEF IInv, RequestChanges, JobsOK, Operations, NoOp
<1>2. /\ Current(o)
      /\ secret' = (secret \/ o.action = "configure")
      /\ tokens' = IF o.action = "configure" THEN tokens ELSE o.action = "connect"
  BY DEF RequestChanges, Commits
<1> HIDE DEF o
<1>3. ~closed /\ op = o /\ op # NoOp /\ op.key \in bound /\ state.action = op.action
  BY <1>1, <1>2 DEF Current, OpInv
<1>4. state.busy
  BY <1>1, <1>3 DEF TypeOK
<1>5. secret' # secret => op.action = "configure"
  <2>1. secret \in BOOLEAN
    BY <1>1 DEF TypeOK
  <2>2. QED BY <1>2, <1>3, <2>1
<1>6. tokens' # tokens => (op.action = "connect") = tokens'
  BY <1>2, <1>3
<1>7. QED BY <1>3, <1>4, <1>5, <1>6

\* Nothing but that step and the playback worker writes to the stores.
LEMMA OnlyRequestsWrite ==
    ASSUME [Next]_vars, secret' # secret \/ tokens' # tokens
    PROVE  (\E s \in Slots : RequestChanges(s)) \/ (PlayerEnds /\ secret' = secret)
<1> USE DEF modeVars, controllerVars
<1>1. ~UNCHANGED vars
  BY DEF vars
<1>2. ~ShowScreen /\ ~HideScreen /\ ~OpenDialog /\ ~CloseDialog
  BY DEF ShowScreen, HideScreen, OpenDialog, CloseDialog
<1>3. ~RequestAccount /\ ~RequestConfigure /\ ~NetworkChanges /\ ~Close
  BY DEF RequestAccount, RequestConfigure, NetworkChanges, Close
<1>4. \A s \in Slots : ~Read(s) /\ ~ReadReports(s) /\ ~RequestStarts(s) /\ ~RequestReports(s)
  BY DEF Read, ReadReports, RequestStarts, RequestReports
<1>5. ~Deliver /\ ~PlayerStarts
  BY DEF Deliver, ReadArrives, DoneArrives, PlayerStarts
<1>6. PlayerEnds => secret' = secret
  BY DEF PlayerEnds
<1>7. QED BY <1>1, <1>2, <1>3, <1>4, <1>5, <1>6 DEF Next, Work

\* An account request writes only while the view that made it is up and shows
\* it as pending.
THEOREM SavedWhileShownHolds == Spec => SavedWhileShown
<1>1. IInv /\ [Next]_vars =>
        [ ((tokens' # tokens /\ player' = player) \/ secret' # secret)
             => /\ ~closed /\ state.busy /\ op # NoOp /\ op.key \in bound
                /\ (secret' # secret => op.action = "configure")
                /\ (tokens' # tokens => (op.action = "connect") = tokens') ]_vars
  <2> SUFFICES ASSUME IInv, [Next]_vars, (tokens' # tokens /\ player' = player) \/ secret' # secret
               PROVE  /\ ~closed /\ state.busy /\ op # NoOp /\ op.key \in bound
                      /\ (secret' # secret => op.action = "configure")
                      /\ (tokens' # tokens => (op.action = "connect") = tokens')
    OBVIOUS
  <2>1. ~(PlayerEnds /\ secret' = secret)
    BY DEF PlayerEnds
  <2>2. PICK s \in Slots : RequestChanges(s)
    BY <2>1, OnlyRequestsWrite
  <2>3. QED BY <2>2, CommitIsPending
<1>2. QED BY <1>1, AccountInductive, PTL DEF Spec, SavedWhileShown

\* Where no playback worker runs, a disconnected account comes back only
\* through a sign-in: what the run with the playback worker refutes is its
\* doing alone.
THEOREM DisconnectHoldsAlone == ASSUME "playback" \notin Features PROVE Spec => DisconnectHolds
<1> DEFINE Idles == player = "idle"
<1>1. Init => Idles
  BY DEF Init
<1>2. Idles /\ [Next]_vars => Idles'
  <2> SUFFICES ASSUME Idles, [Next]_vars PROVE Idles'
    OBVIOUS
  <2> USE DEF modeVars, controllerVars
  <2>1. CASE UNCHANGED vars
    BY <2>1 DEF vars
  <2>2. CASE ShowScreen \/ HideScreen \/ OpenDialog \/ CloseDialog
    BY <2>2 DEF ShowScreen, HideScreen, OpenDialog, CloseDialog
  <2>3. CASE RequestAccount \/ RequestConfigure \/ NetworkChanges \/ Close
    BY <2>3 DEF RequestAccount, RequestConfigure, NetworkChanges, Close
  <2>4. CASE \E s \in Slots : Work(s)
    BY <2>4 DEF Work, Read, ReadReports, RequestStarts, RequestChanges, RequestReports
  <2>5. CASE Deliver \/ PlayerStarts \/ PlayerEnds
    BY <2>5 DEF Deliver, ReadArrives, DoneArrives, PlayerStarts, PlayerEnds
  <2>6. QED BY <2>1, <2>2, <2>3, <2>4, <2>5 DEF Next
<1>3. IInv /\ Idles /\ [Next]_vars =>
        [ (~tokens /\ tokens') => (player = "signIn" \/ state.action = "connect") ]_vars
  <2> SUFFICES ASSUME IInv, Idles, [Next]_vars, ~tokens, tokens' PROVE state.action = "connect"
    OBVIOUS
  <2>1. PICK s \in Slots : RequestChanges(s)
    BY OnlyRequestsWrite DEF PlayerEnds
  <2>2. /\ state.action = op.action
        /\ (op.action = "connect") = tokens'
    BY <2>1, CommitIsPending
  <2>3. QED BY <2>2
<1>4. QED BY <1>1, <1>2, <1>3, AccountInductive, PTL DEF Spec, DisconnectHolds
=============================================================================
