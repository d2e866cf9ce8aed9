------------------------- MODULE SpotifyLocalPlayer -------------------------
(***************************************************************************)
(* SpotifyLocalPlayer: every request for PLAYER or REMOTE starts a thread  *)
(* that builds up or takes down one pair of SDK host and browser.  A pair  *)
(* is named by the generation of the request that made it.  All hosts use  *)
(* one port and all browsers one window class, so there is at most one     *)
(* of each; browsers are found by that class, whoever launched them.  The  *)
(* host serves from a thread of this process and ends when it is closed;   *)
(* the browser may end at any time.                                        *)
(***************************************************************************)
EXTENDS Naturals

CONSTANTS
    Threads,       \* bound: requests in progress
    MaxGeneration, \* bound: no request once _generation has reached it
    MaxToggles     \* bound: changes of the online mode

ASSUME PlayerAssumption == MaxGeneration \in Nat /\ MaxToggles \in Nat

VARIABLES
    online, toggles,       \* effective online mode; times it changed
    closed, generation,    \* _closed, _generation
    mode, busy,            \* _state
    pair,                  \* _host and _browser
    host, browser,         \* the pair whose server holds the port; whose browser runs
    device,                \* device_id: the host that was last told of a device
    work,                  \* what each thread is doing
    overlapped,            \* history: a request came while another was in progress
    ended                  \* history: the pair whose browser last ended by itself

stateVars == <<closed, generation, mode, busy>>
browserVars == <<browser, device, ended>>
vars == <<online, toggles, stateVars, pair, host, browserVars, work, overlapped>>

NoPair == 0
NoWork == [at |-> "none"]
Task(gen, place, then, taken) == [gen |-> gen, at |-> place, then |-> then, taken |-> taken]

Init ==
    /\ online = TRUE /\ toggles = 0 /\ closed = FALSE /\ generation = 0
    /\ mode = "REMOTE" /\ busy = FALSE
    /\ pair = NoPair /\ host = NoPair /\ browser = NoPair /\ device = NoPair /\ ended = NoPair
    /\ work = [t \in Threads |-> NoWork] /\ overlapped = FALSE

-----------------------------------------------------------------------------
(* Requests, on the UI thread.                                             *)

\* Every thread begins by taking the registered pair to stop it.
Spawn(first, then) ==
    \E t \in Threads :
        /\ work[t] = NoWork
        /\ work' = [work EXCEPT ![t] = Task(generation + 1, first, then, NoPair)]
        /\ overlapped' = (overlapped \/ \E u \in Threads : work[u] # NoWork)

Asks ==
    /\ ~closed /\ generation < MaxGeneration
    /\ generation' = generation + 1

RequestPlayer ==
    /\ Asks /\ online /\ ~(mode = "PLAYER" /\ ~busy)
    /\ mode' = "PLAYER" /\ busy' = TRUE /\ Spawn("begin", "create")
    /\ UNCHANGED <<online, toggles, closed, pair, host, browserVars>>

GoRemote == mode' = "REMOTE" /\ busy' = TRUE /\ Spawn("take", "remote")

RequestRemote ==
    /\ Asks /\ GoRemote
    /\ UNCHANGED <<online, toggles, closed, pair, host, browserVars>>

\* The composition asks for REMOTE when the mode goes offline.
NetworkChanges ==
    /\ toggles < MaxToggles /\ toggles' = toggles + 1 /\ online' = ~online
    /\ IF online /\ ~closed
       THEN generation' = generation + 1 /\ GoRemote
       ELSE UNCHANGED <<generation, mode, busy, work, overlapped>>
    /\ UNCHANGED <<closed, pair, host, browserVars>>

Close ==
    /\ Asks /\ closed' = TRUE /\ Spawn("take", "gone")
    /\ UNCHANGED <<online, toggles, mode, busy, pair, host, browserVars>>

-----------------------------------------------------------------------------
(* The threads.                                                            *)

Current(t) == ~closed /\ work[t].gen = generation

At(t, place) == work[t].at = place
Goes(t, place) == work' = [work EXCEPT ![t].at = place]
Done(t) == work' = [work EXCEPT ![t] = NoWork]
StopsThen(t, next) == work' = [work EXCEPT ![t] = Task(@.gen, "take", next, NoPair)]

\* Mutant: a failed start leaves what it had started.
FailsLeaving(t) == Goes(t, "failed")
Fails(t) == StopsThen(t, "failed")

\* _stop_runtime: whatever pair is registered is taken under the lock ...
Take(t) ==
    /\ At(t, "take")
    /\ work' = [work EXCEPT ![t] = Task(@.gen, "kill", @.then, pair)] /\ pair' = NoPair
    /\ UNCHANGED <<online, toggles, overlapped, stateVars, host, browserVars>>

\* ... and stopped outside it.
Kill(t) ==
    /\ At(t, "kill") /\ Goes(t, work[t].then)
    /\ IF work[t].taken = NoPair
       THEN UNCHANGED <<host, browser>>
       ELSE browser' = NoPair /\ host' = IF host = work[t].taken THEN NoPair ELSE host
    /\ UNCHANGED <<online, toggles, overlapped, stateVars, pair, device, ended>>

Begin(t) ==
    /\ At(t, "begin")
    /\ IF online THEN Goes(t, "take") ELSE Done(t)
    /\ UNCHANGED <<online, toggles, overlapped, stateVars, pair, host, browserVars>>

Create(t) ==
    /\ At(t, "create")
    /\ \/ Fails(t) /\ UNCHANGED pair
       \/ ~Current(t) /\ Done(t) /\ UNCHANGED pair
       \/ Current(t) /\ pair' = work[t].gen /\ Goes(t, "start")
    /\ UNCHANGED <<online, toggles, overlapped, stateVars, host, browserVars>>

StartHost(t) ==
    /\ At(t, "start")
    /\ \/ ~online /\ StopsThen(t, "gone") /\ UNCHANGED host
       \/ online /\ host # NoPair /\ Fails(t) /\ UNCHANGED host
       \/ online /\ host = NoPair /\ host' = work[t].gen /\ Goes(t, "launch")
    /\ UNCHANGED <<online, toggles, overlapped, stateVars, pair, browserVars>>

\* A browser that runs already is shown instead.
LaunchBrowser(t) ==
    /\ At(t, "launch")
    /\ \/ ~online /\ StopsThen(t, "gone") /\ UNCHANGED browser
       \/ online /\ browser = NoPair /\ Fails(t) /\ UNCHANGED browser
       \/ online /\ Goes(t, "launched")
                 /\ browser' = IF browser = NoPair THEN work[t].gen ELSE browser
    /\ UNCHANGED <<online, toggles, overlapped, stateVars, pair, host, device, ended>>

\* launch returns after a grace period; it raises if the browser is gone.
Launched(t) ==
    /\ At(t, "launched")
    /\ \/ browser # work[t].gen /\ Fails(t)
       \/ ~online /\ StopsThen(t, "gone")
       \/ online /\ Goes(t, "wait")
    /\ UNCHANGED <<online, toggles, overlapped, stateVars, pair, host, browserVars>>

\* The wait for the device: given up, failed, timed out, or the device is there.
Wait(t) ==
    /\ At(t, "wait")
    /\ \/ ~Current(t) /\ Done(t)
       \/ Current(t) /\ Fails(t)
       \/ Current(t) /\ device = work[t].gen /\ Goes(t, "ready")
    /\ UNCHANGED <<online, toggles, overlapped, stateVars, pair, host, browserVars>>

Settle(t, m) ==
    /\ Done(t)
    /\ IF Current(t) THEN mode' = m /\ busy' = FALSE ELSE UNCHANGED <<mode, busy>>

Ready(t) ==
    /\ At(t, "ready") /\ Settle(t, "PLAYER")
    /\ UNCHANGED <<online, toggles, overlapped, closed, generation, pair, host, browserVars>>

\* Mutant: a failure is only seen to end the wait.
FailedMode == mode
\* Mutant: a failure is only logged.
FailedSilently(t) == At(t, "failed") /\ Done(t) /\ UNCHANGED <<mode, busy>>
RemoteMode == "REMOTE"
Failed(t) == At(t, "failed") /\ Settle(t, RemoteMode)

Remote(t) ==
    /\ Failed(t) \/ (At(t, "remote") /\ Settle(t, "REMOTE"))
    /\ UNCHANGED <<online, toggles, overlapped, closed, generation, pair, host, browserVars>>

Gone(t) ==
    /\ At(t, "gone") /\ Done(t)
    /\ UNCHANGED <<online, toggles, overlapped, stateVars, pair, host, browserVars>>

Work(t) ==
    \/ Take(t) \/ Kill(t) \/ Begin(t) \/ Create(t) \/ StartHost(t) \/ LaunchBrowser(t)
    \/ Launched(t) \/ Wait(t) \/ Ready(t) \/ Remote(t) \/ Gone(t)

-----------------------------------------------------------------------------
(* The browser.                                                            *)

\* Its page tells the host that serves it of the device it has made.
Registers ==
    /\ browser # NoPair /\ host # NoPair /\ device' = host
    /\ UNCHANGED <<online, toggles, stateVars, pair, host, browser, work, overlapped, ended>>

\* It crashes or is closed.  After the grace period of launch nobody looks.
BrowserEnds ==
    /\ browser # NoPair /\ browser' = NoPair /\ ended' = browser
    /\ UNCHANGED <<online, toggles, stateVars, pair, host, work, overlapped, device>>

-----------------------------------------------------------------------------
Next ==
    \/ RequestPlayer \/ RequestRemote \/ NetworkChanges \/ Close
    \/ \E t \in Threads : Work(t)
    \/ Registers \/ BrowserEnds

Spec == Init /\ [][Next]_vars

\* Threads run; the wait for the device has a timeout.
FairSpec == Spec /\ \A t \in Threads : WF_vars(Work(t))

-----------------------------------------------------------------------------
(* Properties.                                                             *)

Places == {"begin", "take", "kill", "create", "start", "launch", "launched", "wait", "ready",
           "failed", "remote", "gone"}

\* Types; a pair is registered for a request that was made.
TypeOK ==
    /\ online \in BOOLEAN /\ closed \in BOOLEAN /\ generation \in Nat
    /\ mode \in {"PLAYER", "REMOTE"} /\ busy \in BOOLEAN /\ overlapped \in BOOLEAN
    /\ {pair, host, browser, device, ended} \subseteq 0 .. generation
    /\ work \in [Threads -> {NoWork} \cup [gen : 1 .. generation, at : Places, then : Places,
                                          taken : 0 .. generation]]

Quiet == \A t \in Threads : work[t] = NoWork

\* Back in REMOTE mode, or closed, neither browser nor host is left behind,
\* however an activation failed; overlapping requests are excepted.
Released ==
    (Quiet /\ ~overlapped /\ (closed \/ (mode = "REMOTE" /\ ~busy)))
        => pair = NoPair /\ host = NoPair /\ browser = NoPair

\* PLAYER mode is reported of a registered pair only: its host is up and has
\* been told of the device, and its browser has not been stopped.  The browser may
\* have ended by itself, which nobody notices; overlapping requests are excepted.
PlayerRuns ==
    (mode = "PLAYER" /\ ~busy /\ ~closed /\ ~overlapped)
        => /\ pair # NoPair /\ host = pair /\ device = pair
           /\ browser = pair \/ (browser = NoPair /\ ended = pair)

\* The display does not stay "starting" or "returning" for good.
Settles == busy ~> (~busy \/ closed)
=============================================================================
