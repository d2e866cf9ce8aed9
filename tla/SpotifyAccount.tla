--------------------------- MODULE SpotifyAccount ---------------------------
(***************************************************************************)
(* SpotifyAccountController and the two kinds of view bound to it, a       *)
(* Spotify screen and the configuration dialog it opens; the account       *)
(* executor's work, the UI queue, the token file, and the playback worker, *)
(* which refreshes tokens in the same file on its own.                     *)
(***************************************************************************)
EXTENDS Naturals, Sequences, TLC

CONSTANTS
    Slots,     \* bound: work submitted and not ended
    MaxSeq,    \* bound: no request once _sequence has passed it
    MaxToggles, \* bound: changes of the online mode
    MaxQueue,  \* bound: callbacks waiting for the UI thread
    Features   \* what takes part beside the screen: the configuration dialog, the
               \* playback worker, failures to read the stores

ASSUME AccountAssumption == MaxSeq \in Nat /\ MaxToggles \in Nat /\ MaxQueue \in Nat
                            /\ Features \subseteq {"dialog", "playback", "readErrors"}

VARIABLES
    online, toggles,  \* effective online mode; times it changed
    closed, bound,    \* _closed; the views in _views
    state, seq, op,   \* _state, _sequence, _operation
    secret, tokens,   \* a client id is saved; the token file exists
    jobs,             \* work of the account executor
    player,           \* what the playback worker is doing with its tokens
    queue,            \* callbacks for the UI thread
    unread            \* history: nothing reads the account again after a change

modeVars == <<online, toggles, closed>>
controllerVars == <<bound, state, seq, op>>
vars == <<modeVars, controllerVars, secret, tokens, jobs, player, queue, unread>>

NoOp == [key |-> "none", seq |-> 0, action |-> "none"]
NoJob == [kind |-> "none"]

Init ==
    /\ online \in BOOLEAN /\ toggles = 0 /\ closed = FALSE /\ bound = {}
    /\ state = [client |-> FALSE, connected |-> FALSE, loading |-> TRUE, busy |-> FALSE,
                action |-> "none", error |-> FALSE]
    /\ seq = 0 /\ op = NoOp /\ secret \in BOOLEAN /\ tokens \in BOOLEAN
    /\ jobs = [s \in Slots |-> NoJob] /\ player = "idle" /\ queue = <<>>
    /\ unread = FALSE

-----------------------------------------------------------------------------
(* The UI thread: views come and go, buttons are pressed, the mode changes. *)

Submit(job) == \E s \in Slots : jobs[s] = NoJob /\ jobs' = [jobs EXCEPT ![s] = job]

ReadJob(s) == [kind |-> "read", seq |-> s]

Reading ==
    \/ \E s \in Slots : jobs[s].kind = "read"
    \/ \E i \in 1..Len(queue) : queue[i].kind = "read"

\* refresh, after a bind.  An older read may still overtake the new one.
Refresh(s, busy) ==
    IF busy THEN UNCHANGED <<jobs, unread>> ELSE Submit(ReadJob(s)) /\ unread' = (unread /\ Reading)

\* Mutant: the retired request leaves the buttons busy.
IdleStaysBusy(st) == [st EXCEPT !.action = "none", !.error = FALSE]
Idle(st) == [st EXCEPT !.busy = FALSE, !.action = "none", !.error = FALSE]

Unbind(keys) ==
    /\ bound' = bound \ keys
    /\ IF op.key \in keys
       THEN seq' = seq + 1 /\ op' = NoOp /\ state' = Idle(state)
       ELSE UNCHANGED <<seq, op, state>>

\* The screens hide whatever was bound before them, their dialog included.
ShowScreen ==
    /\ ~closed /\ bound = {} /\ bound' = {"screen"} /\ Refresh(seq, state.busy)
    /\ UNCHANGED <<modeVars, state, seq, op, secret, tokens, player, queue>>

HideScreen ==
    /\ ~closed /\ "screen" \in bound /\ Unbind({"screen", "dialog"})
    /\ UNCHANGED <<modeVars, secret, tokens, jobs, player, queue, unread>>

\* SETUP is disabled while an action is pending.
OpenDialog ==
    /\ "dialog" \in Features /\ ~closed /\ bound = {"screen"} /\ ~state.busy
    /\ bound' = {"screen", "dialog"} /\ Refresh(seq, FALSE)
    /\ UNCHANGED <<modeVars, state, seq, op, secret, tokens, player, queue>>

CloseDialog ==
    /\ ~closed /\ "dialog" \in bound /\ Unbind({"dialog"})
    /\ unread' = (unread \/ seq' # seq)
    /\ UNCHANGED <<modeVars, secret, tokens, jobs, player, queue>>

Begin(key, action) ==
    LET o == [key |-> key, seq |-> seq + 1, action |-> action]
    IN /\ seq' = seq + 1 /\ op' = o
       /\ state' = [state EXCEPT !.busy = TRUE, !.action = action, !.error = FALSE]
       /\ Submit([kind |-> "request", op |-> o, at |-> "start"])
       /\ UNCHANGED unread

\* The account button reads CONNECT or DISCONNECT by state.connected.
MaySignIn == state.client /\ online

RequestSignIn ==
    IF MaySignIn
    THEN Begin("screen", "connect")
    ELSE state' = [state EXCEPT !.error = TRUE] /\ UNCHANGED <<seq, op, jobs, unread>>

\* The buttons are disabled while an action or the first read is pending;
\* the dialog is modal.
RequestAccount ==
    /\ ~closed /\ bound = {"screen"} /\ ~state.busy /\ ~state.loading /\ seq <= MaxSeq
    /\ IF state.connected THEN Begin("screen", "disconnect") ELSE RequestSignIn
    /\ UNCHANGED <<modeVars, bound, secret, tokens, player, queue>>

RequestConfigure ==
    /\ ~closed /\ "dialog" \in bound /\ ~state.busy /\ ~state.loading /\ seq <= MaxSeq
    /\ Begin("dialog", "configure")
    /\ UNCHANGED <<modeVars, bound, secret, tokens, player, queue>>

\* network_changed retires a sign-in; the composition then shows the media
\* screen again, which retires any other request and reads the account anew.
NetworkChanges ==
    LET offline == online /\ state.action = "connect"
        retires == offline \/ op # NoOp
    IN /\ ~closed /\ toggles < MaxToggles
       /\ toggles' = toggles + 1 /\ online' = ~online
       /\ seq' = IF retires THEN seq + 1 ELSE seq
       /\ op' = NoOp /\ bound' = bound \ {"dialog"}
       /\ state' = IF retires THEN [Idle(state) EXCEPT !.error = offline] ELSE state
       /\ Refresh(seq', bound = {})
       /\ UNCHANGED <<closed, secret, tokens, player, queue>>

Close ==
    /\ ~closed /\ closed' = TRUE /\ bound' = {} /\ seq' = seq + 1 /\ op' = NoOp
    /\ UNCHANGED <<online, toggles, state, secret, tokens, jobs, player, queue, unread>>

-----------------------------------------------------------------------------
(* Work of the executor.                                                   *)

\* current(), under the controller's lock.
Current(o) ==
    /\ ~closed /\ op = o /\ o.key \in bound
    /\ o.action = "connect" => online

Goes(s, place) == jobs' = [jobs EXCEPT ![s].at = place]
Leaves(s) == jobs' = [jobs EXCEPT ![s] = NoJob]
Post(event) == Len(queue) < MaxQueue /\ queue' = Append(queue, event)

ReadStore == [client |-> secret, connected |-> tokens, error |-> FALSE]
ReadFails == [client |-> FALSE, connected |-> FALSE, error |-> TRUE]

Read(s) ==
    /\ jobs[s].kind = "read" /\ "result" \notin DOMAIN jobs[s]
    /\ \E r \in IF "readErrors" \in Features THEN {ReadStore, ReadFails} ELSE {ReadStore} :
         jobs' = [jobs EXCEPT ![s] = [kind |-> "read", seq |-> @.seq, result |-> r]]
    /\ UNCHANGED <<modeVars, controllerVars, secret, tokens, player, queue, unread>>

ReadReports(s) ==
    /\ jobs[s].kind = "read" /\ "result" \in DOMAIN jobs[s]
    /\ Post(jobs[s]) /\ Leaves(s)
    /\ UNCHANGED <<modeVars, controllerVars, secret, tokens, player, unread>>

Report(s, r) == Post([kind |-> "done", op |-> jobs[s].op, result |-> r]) /\ Leaves(s)

\* Mutant: a request that fails says nothing.
ReportFailureNever(s) == Leaves(s) /\ UNCHANGED queue
ReportFailure(s) ==
    Report(s, [client |-> state.client, connected |-> state.connected, error |-> TRUE])

RequestStarts(s) ==
    /\ jobs[s].kind = "request" /\ jobs[s].at = "start"
    /\ IF Current(jobs[s].op) THEN Goes(s, "change") ELSE Leaves(s)
    /\ UNCHANGED <<modeVars, controllerVars, secret, tokens, player, queue, unread>>

\* Mutant: the request was current when it started.
CommitsAnyway(o) == TRUE
Commits(o) == Current(o)

\* The sign-in may fail, be refused or time out; the stores may fail to write.
RequestChanges(s) ==
    LET o == jobs[s].op
    IN /\ jobs[s].kind = "request" /\ jobs[s].at = "change"
       /\ \/ ReportFailure(s) /\ UNCHANGED <<secret, tokens>>
          \/ /\ ~Commits(o) /\ o.action # "connect"
             /\ Leaves(s) /\ UNCHANGED <<secret, tokens, queue>>
          \/ /\ Commits(o) /\ Goes(s, "read") /\ UNCHANGED queue
             /\ secret' = (secret \/ o.action = "configure")
             /\ tokens' = IF o.action = "configure" THEN tokens ELSE o.action = "connect"
       /\ UNCHANGED <<modeVars, controllerVars, player, unread>>

RequestReports(s) ==
    /\ jobs[s].kind = "request" /\ jobs[s].at = "read"
    /\ Report(s, ReadStore) \/ ("readErrors" \in Features /\ ReportFailure(s))
    /\ UNCHANGED <<modeVars, controllerVars, secret, tokens, player, unread>>

Work(s) ==
    Read(s) \/ ReadReports(s) \/ RequestStarts(s) \/ RequestChanges(s) \/ RequestReports(s)

-----------------------------------------------------------------------------
(* Deliveries on the UI thread.                                            *)

Shows(r) == [state EXCEPT !.client = r.client, !.connected = r.connected, !.error = r.error,
                          !.loading = FALSE]

\* Mutant: what was read before a request is shown after it.
FreshAny(event) == TRUE
Fresh(event) == event.seq = seq

ReadArrives ==
    /\ queue # <<>> /\ Head(queue).kind = "read" /\ queue' = Tail(queue)
    /\ state' = IF ~closed /\ bound # {} /\ Fresh(Head(queue)) THEN Shows(Head(queue).result) ELSE state
    /\ UNCHANGED <<modeVars, bound, seq, op, secret, tokens, jobs, player, unread>>

\* The dialog closes itself once its client id is saved.
DoneArrives ==
    LET done == Head(queue)
    IN /\ queue # <<>> /\ done.kind = "done" /\ queue' = Tail(queue)
       /\ IF Current(done.op)
          THEN /\ op' = NoOp /\ state' = [Shows(done.result) EXCEPT !.busy = FALSE]
               /\ bound' = IF done.op.action = "configure" /\ ~done.result.error
                           THEN bound \ {"dialog"} ELSE bound
          ELSE UNCHANGED <<op, state, bound>>
       /\ UNCHANGED <<modeVars, seq, secret, tokens, jobs, player, unread>>

Deliver == ReadArrives \/ DoneArrives

-----------------------------------------------------------------------------
(* The playback worker's access token: renewed while there are tokens, and *)
(* signed in for when there are none.                                      *)

PlayerStarts ==
    /\ "playback" \in Features /\ online /\ player = "idle"
    /\ player' = IF tokens THEN "renewing" ELSE "signIn"
    /\ UNCHANGED <<modeVars, controllerVars, secret, tokens, jobs, queue, unread>>

PlayerEnds ==
    /\ player # "idle" /\ player' = "idle" /\ tokens' \in {tokens, TRUE}
    /\ unread' = (unread \/ tokens' # tokens)
    /\ UNCHANGED <<modeVars, controllerVars, secret, jobs, queue>>

-----------------------------------------------------------------------------
Next ==
    \/ ShowScreen \/ HideScreen \/ OpenDialog \/ CloseDialog
    \/ RequestAccount \/ RequestConfigure \/ NetworkChanges \/ Close
    \/ \E s \in Slots : Work(s)
    \/ Deliver \/ PlayerStarts \/ PlayerEnds

Spec == Init /\ [][Next]_vars

\* The executor's threads are interchangeable.
Symmetry == Permutations(Slots)

-----------------------------------------------------------------------------
(* Properties.                                                             *)

States == [client : BOOLEAN, connected : BOOLEAN, loading : BOOLEAN, busy : BOOLEAN,
           action : {"none", "connect", "disconnect", "configure"}, error : BOOLEAN]
Results == [client : BOOLEAN, connected : BOOLEAN, error : BOOLEAN]
Operations == [key : {"screen", "dialog"}, seq : Nat, action : {"connect", "disconnect", "configure"}]
HeardReads == [kind : {"read"}, seq : Nat, result : Results]
Dones == [kind : {"done"}, op : Operations, result : Results]
Messages == HeardReads \cup Dones

\* Types; while the controller lives, it is busy exactly while it has an operation.
TypeOK ==
    /\ online \in BOOLEAN /\ closed \in BOOLEAN /\ bound \in {{}, {"screen"}, {"screen", "dialog"}}
    /\ state \in States
    /\ seq \in Nat /\ op \in Operations \cup {NoOp} /\ secret \in BOOLEAN /\ tokens \in BOOLEAN
    /\ unread \in BOOLEAN /\ player \in {"idle", "renewing", "signIn"}
    /\ queue \in Seq(Messages)
    /\ ~closed => (state.busy <=> op # NoOp)

\* An account request changes the stores only while the view that made it is
\* up and shows it as pending: a view that is gone has no late effect.
SavedWhileShown ==
    [][ ((tokens' # tokens /\ player' = player) \/ secret' # secret)
          => ~closed /\ state.busy /\ op # NoOp /\ op.key \in bound
             /\ (secret' # secret => op.action = "configure")
             /\ (tokens' # tokens => (op.action = "connect") = tokens') ]_vars

Quiet == queue = <<>> /\ player = "idle" /\ \A s \in Slots : jobs[s] = NoJob

\* When everything has been delivered, what is shown of the account is what
\* its token file says, whatever was cancelled on the way.  Excepted are a file
\* that cannot be read, and what no one reads again: tokens the playback worker
\* wrote, and a read that the closing dialog took down with its own request.
ConnectedTruthful ==
    (Quiet /\ ~unread /\ ~closed /\ bound # {} /\ ~state.loading /\ ~state.error)
        => state.connected = tokens

\* Once disconnected, the account comes back only through a sign-in.
DisconnectHolds ==
    [][ (~tokens /\ tokens') => (player = "signIn" \/ state.action = "connect") ]_vars

\* A pending action never blocks the account's buttons for good: its work is
\* in the executor or its outcome on the way to the UI thread.
BusyHasWork ==
    (~closed /\ state.busy) =>
        \/ \E s \in Slots : jobs[s].kind = "request" /\ jobs[s].op = op
        \/ \E i \in 1..Len(queue) : queue[i].kind = "done" /\ queue[i].op = op
=============================================================================
