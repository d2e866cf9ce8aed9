--------------------------- MODULE ReceiverSession ---------------------------
(***************************************************************************)
(* ReceiverSession, one for every radio panel that is opened: requests are *)
(* carried out one at a time by a shared executor, the UI thread retires a *)
(* session whenever its panel goes, and a native lock keeps the two apart. *)
(* Around it ManagedRadioApplicationService, which starts and stops SDR++, *)
(* OrcUiAdsbControl with the thread that closes the dashboard, and the     *)
(* shutdown of the radio composition.  SDR++ and readsb, the ADS-B         *)
(* service, are processes that use one and the same receiver.              *)
(*                                                                         *)
(* Telemetry, presets, messages and the other contents of a state, REFRESH *)
(* and RESIZE are left out.  The data source is "rtlsdr", SDR++ is embedded.   *)
(***************************************************************************)
EXTENDS Naturals, Sequences

CONSTANTS
    Sessions,       \* one for each panel, in whatever order they are opened
    NoSession,      \* the session of a job the composition asked for
    MaxRequests     \* bound: requests made of the executor

ASSUME ReceiverAssumption == NoSession \notin Sessions /\ MaxRequests \in Nat

VARIABLES
    phase,          \* of each session: _active, _closed, and the panel that waits
    view,           \* what _state says of it: the view it shows,
    loading,        \* and whether one is being launched
    native,         \* _native_view
    surface,        \* the window its X11WindowEmbedder has embedded
    queue,          \* jobs the executor has not begun
    work,           \* what its one thread is doing
    requests,       \* requests made so far
    closed,         \* StreamingRadioResources.closed
    service,        \* ManagedRadioApplicationService: "open", "closing", "closed"
    sdrpp,          \* external: SDR++ runs
    readsb,         \* external: the ADS-B receiver service runs
    browser,        \* external: the ADS-B dashboard is open
    stopping,       \* _stop_thread is alive
    unowned,        \* history: readsb was last started from the aircraft menu, or
                    \* left by a launch or a stop that failed
    stuck,          \* history: the dashboard was so left
    failed          \* history: sessions whose latest launch failed

shownVars == <<view, loading>>
sessionVars == <<phase, shownVars, native, surface>>
executorVars == <<queue, work, requests>>
serviceVars == <<closed, service>>
receiverVars == <<sdrpp, readsb, browser, stopping, unowned, stuck>>
vars == <<sessionVars, executorVars, serviceVars, receiverVars, failed>>

Kinds == {"none", "sdrpp", "adsb"}
Launches == {"launch", "adsb"}
\* "tune" is any of the actions that need the RF view: profile, preset,
\* theme, tuning and display controls.
Jobs == [session : Sessions, action : Launches \cup {"tune"}]
            \cup [session : {NoSession}, action : {"noaa", "track", "untrack"}]
Idle == [session |-> NoSession, action |-> "none", at |-> "idle"]

Init ==
    /\ phase = [s \in Sessions |-> "new"]
    /\ view = [s \in Sessions |-> "none"] /\ loading = [s \in Sessions |-> FALSE]
    /\ native = [s \in Sessions |-> "none"] /\ surface = [s \in Sessions |-> "none"]
    /\ queue = <<>> /\ work = Idle /\ requests = 0
    /\ closed = FALSE /\ service = "open"
    /\ sdrpp = FALSE /\ readsb \in BOOLEAN /\ unowned = readsb
    /\ browser = FALSE /\ stopping = FALSE /\ stuck = FALSE /\ failed = {}

\* The host is one thread: it does nothing else while it retires a session.
UiFree == \A s \in Sessions : phase[s] # "retiring"
NothingOpen == \A s \in Sessions : phase[s] \in {"new", "retired"}

\* _current: hiding and closing a panel both retire its only generation.
Current(s) == s # NoSession /\ phase[s] = "live"

-----------------------------------------------------------------------------
(* Requests, on the UI thread.                                             *)

Submit(s, action) ==
    /\ requests < MaxRequests /\ requests' = requests + 1
    /\ queue' = Append(queue, [session |-> s, action |-> action])
    /\ UNCHANGED work

\* A panel is opened for RF or for ADS-B, never for nothing.
Open(s) ==
    /\ ~closed /\ UiFree /\ NothingOpen /\ phase[s] = "new"
    /\ phase' = [phase EXCEPT ![s] = "live"]
    /\ \E action \in Launches : Submit(s, action)
    /\ UNCHANGED <<shownVars, native, surface, serviceVars, receiverVars, failed>>

Request(s) ==
    /\ UiFree /\ phase[s] = "live"
    /\ \E action \in {"adsb", "tune"} : Submit(s, action)
    /\ UNCHANGED <<sessionVars, serviceVars, receiverVars, failed>>

\* Weather's NOAA button: the radio screen has been hidden.
RequestNoaa ==
    /\ ~closed /\ UiFree /\ NothingOpen /\ Submit(NoSession, "noaa")
    /\ UNCHANGED <<sessionVars, serviceVars, receiverVars, failed>>

TrackingPending ==
    \/ work.action \in {"track", "untrack"}
    \/ \E i \in 1..Len(queue) : queue[i].action \in {"track", "untrack"}

\* adsb_io_lock lets one change of the tracking be under way.
RequestTracking ==
    /\ ~closed /\ UiFree /\ ~TrackingPending
    /\ \E action \in {"track", "untrack"} : Submit(NoSession, action)
    /\ UNCHANGED <<sessionVars, serviceVars, receiverVars, failed>>

\* Hiding the radio screen, or opening another panel in its place.
Leave(s) ==
    /\ UiFree /\ phase[s] = "live"
    /\ phase' = [phase EXCEPT ![s] = "retiring"]
    /\ UNCHANGED <<shownVars, native, surface, executorVars, serviceVars, receiverVars, failed>>

\* The executor's thread is inside "with self._native_lock" of s.
NativeLocked(s) == work.session = s /\ work.at \in {"launching", "embedding"}

\* OrcUiAdsbControl.stop: a thread of its own closes dashboard and service.
StopsAircraft(s) == stopping' = (stopping \/ native[s] = "adsb")

\* _cleanup_native, under the native lock.
CleanupNative(s) ==
    /\ surface' = [surface EXCEPT ![s] = "none"]
    /\ native' = [native EXCEPT ![s] = "none"]
    /\ StopsAircraft(s)

\* Mutant: the panel goes without waiting for the native operation.
MayRetireAtOnce(s) == phase[s] = "retiring"
MayRetire(s) == phase[s] = "retiring" /\ ~NativeLocked(s)

Retire(s) ==
    /\ MayRetire(s)
    /\ phase' = [phase EXCEPT ![s] = "retired"]
    /\ CleanupNative(s)
    /\ UNCHANGED <<shownVars, executorVars, serviceVars, sdrpp, readsb, browser, unowned, stuck, failed>>

\* RadioComposition.close: what is queued still runs, nothing is added.
Close ==
    /\ ~closed /\ UiFree /\ closed' = TRUE
    /\ phase' = [s \in Sessions |-> IF phase[s] = "live" THEN "retiring" ELSE phase[s]]
    /\ UNCHANGED <<shownVars, native, surface, executorVars, service, receiverVars, failed>>

\* OrcUiApplicationRuntime.close comes later; _state_lock is never held long.
ServiceCloses ==
    /\ closed /\ UiFree /\ service = "open" /\ service' = "closing"
    /\ UNCHANGED <<sessionVars, executorVars, closed, receiverVars, failed>>

\* Mutant: the service stops SDR++ beside a launch in progress.
MayStopAtOnce == service = "closing"
MayStop == service = "closing" /\ work.at # "presenting"

ServiceStops ==
    /\ MayStop
    /\ service' = "closed" /\ sdrpp' = FALSE
    /\ UNCHANGED <<sessionVars, executorVars, closed, readsb, browser, stopping, unowned, stuck, failed>>

-----------------------------------------------------------------------------
(* The executor's thread.                                                  *)

Goes(place) == work' = [work EXCEPT !.at = place]
Finishes == work' = Idle

Take ==
    /\ work = Idle /\ queue # <<>>
    /\ work' = [session |-> Head(queue).session, action |-> Head(queue).action, at |-> "start"]
    /\ queue' = Tail(queue)
    /\ UNCHANGED <<sessionVars, requests, serviceVars, receiverVars, failed>>

\* The launch an action begins with: its own, or the way back from ADS-B.
Launching == work.action \in Launches \/ (work.action = "tune" /\ native[work.session] = "adsb")

Start ==
    /\ work.at = "start" /\ work.session \in Sessions
    /\ LET s == work.session
       IN IF ~Current(s) THEN Finishes /\ UNCHANGED <<loading, native, surface, stopping>>
          ELSE IF ~Launching THEN Goes("tune") /\ UNCHANGED <<loading, native, surface, stopping>>
          ELSE /\ CleanupNative(s)
               /\ loading' = [loading EXCEPT ![s] = TRUE]
               /\ Goes(IF work.action = "adsb" THEN "relinquish" ELSE "present")
    /\ UNCHANGED <<phase, view, queue, requests, serviceVars, sdrpp, readsb, browser, unowned, stuck, failed>>

\* Mutant: only an SDR++ that is presented, not embedded, is stopped.
RelinquishedPresented == sdrpp
Relinquished == FALSE

Relinquish ==
    /\ work.at = "relinquish"
    /\ \/ sdrpp' = Relinquished /\ Goes("aircraft")
       \/ Goes("failed") /\ UNCHANGED sdrpp
    /\ UNCHANGED <<sessionVars, queue, requests, serviceVars, readsb, browser, stopping, unowned, stuck, failed>>

\* OrcUiAdsbControl.launch refuses while the last dashboard is closing.
Aircraft ==
    /\ work.at = "aircraft"
    /\ IF ~Current(work.session) THEN Finishes
       ELSE Goes(IF stopping THEN "failed" ELSE "launching")
    /\ UNCHANGED <<sessionVars, queue, requests, serviceVars, receiverVars, failed>>

\* ADSBLauncher.launch raises before or after it has started the service, or
\* with the browser up that it then cannot place.
AircraftLaunched ==
    /\ work.at = "launching"
    /\ \/ /\ readsb' = TRUE /\ browser' = TRUE /\ unowned' = FALSE /\ stuck' = FALSE
          /\ native' = [native EXCEPT ![work.session] = "adsb"]
          /\ Goes("embed")
       \/ /\ readsb' \in {readsb, TRUE} /\ unowned' = (unowned \/ readsb' # readsb)
          /\ browser' \in {browser, browser \/ readsb'} /\ stuck' = (stuck \/ browser' # browser)
          /\ Goes("failed") /\ UNCHANGED native
    /\ UNCHANGED <<phase, shownVars, surface, queue, requests, serviceVars, sdrpp, stopping, failed>>

\* present holds the operation lock while SDR++ comes up.
Present ==
    /\ work.at = "present"
    /\ Goes(IF service # "open" THEN "failed" ELSE IF sdrpp THEN "presented" ELSE "presenting")
    /\ UNCHANGED <<sessionVars, queue, requests, serviceVars, receiverVars, failed>>

Presenting ==
    /\ work.at = "presenting"
    /\ \/ Goes("presented") /\ sdrpp' = TRUE
       \/ Goes("failed") /\ sdrpp' \in BOOLEAN
    /\ UNCHANGED <<sessionVars, queue, requests, serviceVars, readsb, browser, stopping, unowned, stuck, failed>>

\* NOAA is tuned without a session; SDR++ may not show its window in time.
Presented ==
    /\ work.at = "presented"
    /\ IF ~Current(work.session) THEN Finishes ELSE Goes("embed") \/ Goes("failed")
    /\ UNCHANGED <<sessionVars, queue, requests, serviceVars, receiverVars, failed>>

Shown == IF work.action = "adsb" THEN "adsb" ELSE "sdrpp"

Embed ==
    /\ work.at = "embed"
    /\ LET s == work.session
       IN IF Current(s)
          THEN /\ native' = [native EXCEPT ![s] = Shown] /\ Goes("embedding")
               /\ UNCHANGED <<surface, stopping>>
          ELSE CleanupNative(s) /\ Finishes
    /\ UNCHANGED <<phase, shownVars, queue, requests, serviceVars, sdrpp, readsb, browser, unowned, stuck, failed>>

\* The window may be found just as the session is retired, or never.
Embedded ==
    /\ work.at = "embedding"
    /\ LET s == work.session
       IN \/ /\ Current(s)
             /\ surface' = [surface EXCEPT ![s] = Shown]
             /\ view' = [view EXCEPT ![s] = native[s]] /\ loading' = [loading EXCEPT ![s] = FALSE]
             /\ failed' = failed \ {s}
             /\ IF work.action = "tune" THEN Goes("tune") ELSE Finishes
             /\ UNCHANGED <<native, stopping>>
          \/ ~Current(s) /\ CleanupNative(s) /\ Finishes /\ UNCHANGED <<shownVars, failed>>
          \/ Goes("failed") /\ UNCHANGED <<shownVars, native, surface, stopping, failed>>
    /\ UNCHANGED <<phase, queue, requests, serviceVars, sdrpp, readsb, browser, unowned, stuck>>

\* The rig control or a file may refuse; SDR++ need not be running.
Tune ==
    /\ work.at = "tune"
    /\ Finishes \/ Goes("failed")
    /\ UNCHANGED <<sessionVars, queue, requests, serviceVars, receiverVars, failed>>

\* Mutant: the message is shown beside "Loading radio...".
FailedLoading(s) == UNCHANGED loading
Failed(s) == loading' = [loading EXCEPT ![s] = FALSE]

\* Mutant: whatever fails is cleaned up.
CleansUpAlways(action) == TRUE
CleansUp(action) == action \in Launches

\* A launch that failed is cleaned up; the launch inside another action is not.
Fails ==
    /\ work.at = "failed" /\ Finishes
    /\ IF work.session = NoSession
       THEN UNCHANGED <<loading, native, surface, stopping, failed>>
       ELSE /\ Failed(work.session)
            /\ failed' = IF loading[work.session] THEN failed \cup {work.session} ELSE failed
            /\ IF CleansUp(work.action) THEN CleanupNative(work.session)
               ELSE UNCHANGED <<native, surface, stopping>>
    /\ UNCHANGED <<phase, view, queue, requests, serviceVars, sdrpp, readsb, browser, unowned, stuck>>

\* Jobs of the composition.  runtime.radio.presented, which decides whether
\* SDR++ is relinquished for tracking, is false of an embedded SDR++; whether
\* systemd has stopped readsb is not looked at.
StartOther ==
    /\ work.at = "start" /\ work.session = NoSession
    /\ CASE work.action = "noaa" ->
              /\ IF closed THEN Finishes ELSE Goes("present")
              /\ UNCHANGED <<readsb, unowned>>
         [] work.action = "track" ->
              Finishes /\ readsb' \in {readsb, TRUE} /\ unowned' = (unowned \/ readsb' # readsb)
         [] OTHER ->
              Finishes /\ readsb' \in {readsb, FALSE} /\ unowned' = (unowned /\ readsb')
    /\ UNCHANGED <<sessionVars, queue, requests, serviceVars, sdrpp, browser, stopping, stuck, failed>>

Work ==
    \/ Take \/ Start \/ StartOther \/ Relinquish \/ Aircraft \/ AircraftLaunched
    \/ Present \/ Presenting \/ Presented \/ Embed \/ Embedded \/ Tune \/ Fails

-----------------------------------------------------------------------------
(* The thread that closes the dashboard, and processes that die.           *)

\* The exception of a browser that cannot be stopped is logged and the service
\* left alone; whether systemd has stopped that is not looked at.
AircraftStops ==
    /\ stopping /\ stopping' = FALSE
    /\ \/ browser' = FALSE /\ readsb' \in {readsb, FALSE}
       \/ UNCHANGED <<browser, readsb>>
    /\ unowned' = readsb' /\ stuck' = browser'
    /\ UNCHANGED <<sessionVars, executorVars, serviceVars, sdrpp, failed>>

SdrppExits ==
    /\ sdrpp /\ sdrpp' = FALSE
    /\ UNCHANGED <<sessionVars, executorVars, serviceVars, readsb, browser, stopping, unowned, stuck, failed>>

-----------------------------------------------------------------------------
Next ==
    \/ \E s \in Sessions : Open(s) \/ Request(s) \/ Leave(s) \/ Retire(s)
    \/ RequestNoaa \/ RequestTracking \/ Close \/ ServiceCloses \/ ServiceStops
    \/ Work \/ AircraftStops \/ SdrppExits

Spec == Init /\ [][Next]_vars

\* Launches and embedding end within their timeouts; the UI thread goes on.
FairSpec ==
    /\ Spec /\ WF_vars(Work) /\ WF_vars(AircraftStops)
    /\ WF_vars(ServiceCloses \/ ServiceStops) /\ \A s \in Sessions : WF_vars(Retire(s))

-----------------------------------------------------------------------------
(* Properties.                                                             *)

Places == {"start", "relinquish", "aircraft", "launching", "present", "presenting", "presented",
           "embed", "embedding", "tune", "failed"}

\* Types; work on ADS-B, on embedding and on tuning is done for a session.
TypeOK ==
    /\ phase \in [Sessions -> {"new", "live", "retiring", "retired"}]
    /\ view \in [Sessions -> Kinds] /\ loading \in [Sessions -> BOOLEAN]
    /\ native \in [Sessions -> Kinds] /\ surface \in [Sessions -> Kinds]
    /\ queue \in Seq(Jobs) /\ requests \in 0..MaxRequests
    /\ work \in [session : Sessions \cup {NoSession}, at : Places \cup {"idle"},
                 action : Launches \cup {"tune", "noaa", "track", "untrack", "none"}]
    /\ IF work.at = "idle" THEN work = Idle
       ELSE IF work.session = NoSession
       THEN /\ work.action \in {"noaa", "track", "untrack"}
            /\ work.at \in {"start", "present", "presenting", "presented", "failed"}
       ELSE work.action \in Launches \cup {"tune"}
    /\ closed \in BOOLEAN /\ service \in {"open", "closing", "closed"}
    /\ sdrpp \in BOOLEAN /\ readsb \in BOOLEAN /\ browser \in BOOLEAN /\ stopping \in BOOLEAN
    /\ unowned \in BOOLEAN /\ stuck \in BOOLEAN /\ failed \subseteq Sessions

\* A session whose panel is gone has no window in it and gets none later,
\* whatever it was doing, and its ADS-B dashboard is open no longer than the
\* thread that closes it takes, unless that cannot, or a launch failed late.
Detached ==
    /\ \A s \in Sessions : phase[s] = "retired" => surface[s] = "none" /\ native[s] = "none"
    /\ browser => stopping \/ stuck \/ \E s \in Sessions : native[s] = "adsb"

\* SDR++ and the ADS-B service use the receiver at the same time only while
\* the dashboard is being closed, or when the service was started from the
\* aircraft menu, or when a launch or a stop of the dashboard that failed has
\* left it.
OneReceiver == (sdrpp /\ readsb) => stopping \/ unowned

\* Once the application service has closed, SDR++ is stopped for good, with
\* a launch in progress and launches queued behind it.
StaysClosed == service = "closed" => ~sdrpp

\* "Loading radio..." ends, however the launch ends.
LoadingEnds ==
    \A s \in Sessions : loading[s] ~> (~loading[s] \/ phase[s] = "retired")

\* Between jobs a panel shows the view whose window it holds, unless its
\* latest launch has failed.
ViewTruthful ==
    \A s \in Sessions : (work = Idle /\ phase[s] = "live" /\ s \notin failed)
        => view[s] = native[s] /\ view[s] = surface[s]
=============================================================================
