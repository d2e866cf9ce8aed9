-------------------------- MODULE NavigationRuntime --------------------------
(***************************************************************************)
(* NavigationRuntime with its command server, NavigationSessionController, *)
(* ReroutePolicy and the lifecycle of RouteGuidanceController: the main    *)
(* thread publishes positions, advances guidance and replaces the route    *)
(* after a sustained departure from it, while the command thread starts,   *)
(* cancels and plays routes.  The two share no lock.  What guidance makes  *)
(* of a position, and the planner's answer, are left open.                 *)
(***************************************************************************)
EXTENDS RoutePlayback

CONSTANTS
    Destinations, NoSession,
    MaxRoutes,      \* bound: routes planned
    MaxCommands     \* bound: commands received

Routes == [id : 1 .. MaxRoutes, to : Destinations]
Sessions == [to : Destinations, route : Routes]

ASSUME NavigationAssumption ==
    /\ MaxRoutes \in Nat /\ MaxCommands \in Nat
    /\ NoSession \notin Sessions /\ NoRoute \notin Routes \cup Destinations
    /\ Free \notin {"main", "cmd"}

VARIABLES
    session,        \* NavigationSessionController._state
    created,        \* the session and guidance controllers exist
    guiding,        \* _route of the guidance controller, ...
    measured,       \* ... the route its _cumulative distances are of ...
    progress,       \* ... and the route its _furthest_progress_miles is on
    since, pending, cooling,    \* ReroutePolicy: departure seen, reroute asked, cooldown
    estimator,      \* the orientation estimator is started
    main, cmd,      \* the threads: where they are and what they hold
    stopEvent, serverStop, serverError,
    failure,        \* what ended the loop of run()
    routes, commands,
    overlapped      \* history: a command changed state in the middle of a turn

guidanceVars == <<created, guiding, measured, progress>>
policyVars == <<since, pending, cooling>>
serverVars == <<stopEvent, serverStop, serverError>>
counters == <<routes, commands>>
mainVars == <<main, failure>>
runtimeVars == <<playbackVars, session, guidanceVars, policyVars, estimator, mainVars, cmd, serverVars,
                 counters>>
vars == <<runtimeVars, overlapped>>

\* A place of a thread, with nothing held.
InRun(place, sign) == [at |-> place, seen |-> NoPosition, sign |-> sign, route |-> NoRoute, to |-> NoRoute]
Receiving == [at |-> "receive", job |-> "none", route |-> NoRoute]

Init ==
    /\ InitPlayback
    /\ session = NoSession /\ created = FALSE
    /\ guiding = NoRoute /\ measured = NoRoute /\ progress = NoRoute
    /\ since = FALSE /\ pending = FALSE /\ cooling = FALSE /\ estimator = TRUE
    /\ main = InRun("loop", "on") /\ cmd = Receiving
    /\ stopEvent = FALSE /\ serverStop = FALSE /\ serverError = FALSE /\ failure = "none"
    /\ routes = 0 /\ commands = 0 /\ overlapped = FALSE

MainHolds(place) == main' = [main EXCEPT !.at = place] /\ UNCHANGED failure
MainTo(place) == main' = InRun(place, main.sign) /\ UNCHANGED failure
Loops == main' = InRun("loop", "on") /\ UNCHANGED failure
AfterUpdate == IF main.sign = "complete" THEN MainTo("arrive") ELSE Loops
Fails(cause) == main' = InRun("close", "on") /\ failure' = cause

CmdTo(place) == cmd' = [cmd EXCEPT !.at = place]
Replies == cmd' = Receiving

Plan == routes < MaxRoutes /\ routes' = routes + 1 /\ UNCHANGED commands
NewRoute(d) == [id |-> routes + 1, to |-> d]

\* The assignments of replace_route, of ReroutePolicy.reset and of reroute_completed.
Installs(route) == guiding' = route /\ UNCHANGED <<created, measured, progress>>
Measures(route) == measured' = route /\ progress' = route /\ UNCHANGED <<created, guiding>>
PolicyReset == since' = FALSE /\ pending' = FALSE /\ cooling' = FALSE
RerouteForgotten == since' = FALSE /\ UNCHANGED <<pending, cooling>>   \* mutant
RerouteCompleted == since' = FALSE /\ pending' = FALSE /\ UNCHANGED cooling

-----------------------------------------------------------------------------
(* The main thread.                                                        *)

\* A turn without a fix asks neither guidance nor the policy: nothing changes.
Turn ==
    /\ main.at = "loop"
    /\ \/ stopEvent /\ MainTo("close")
       \/ ~stopEvent /\ serverError /\ Fails("server")
       \/ ~stopEvent /\ ~serverError /\ ~estimator /\ Fails("estimator")
       \/ /\ ~stopEvent /\ ~serverError /\ estimator /\ created /\ position # NoPosition
          /\ main' = [main EXCEPT !.at = "project", !.seen = position]
          /\ UNCHANGED failure
    /\ UNCHANGED <<playbackVars, session, guidanceVars, policyVars, estimator, cmd, serverVars, counters>>

\* An interrupt between two turns, or read_state or the publisher of its
\* answer raising, leaves the loop.
TurnRaises ==
    /\ main.at = "loop" /\ Fails("raised")
    /\ UNCHANGED <<playbackVars, session, guidanceVars, policyVars, estimator, cmd, serverVars, counters>>

GuidanceProjects ==
    /\ main.at = "project"
    /\ main' = [main EXCEPT !.at = "advance", !.route = guiding]
    /\ UNCHANGED <<playbackVars, session, guidanceVars, policyVars, estimator, failure, cmd, serverVars, counters>>

\* Positions of a playback lie on the route it plays.
Signs == IF main.seen = main.route THEN {"on", "complete"} ELSE {"on", "off", "complete"}

\* A route that changes under the update, or is read with the distances of
\* another, may raise; so may the publisher of the guidance.
GuidanceAdvances ==
    /\ main.at = "advance"
    /\ \/ /\ progress' = main.route /\ UNCHANGED failure
          /\ \E sign \in Signs : main' = InRun("session", sign)
       \/ progress' = main.route /\ Fails("raised")
       \/ ~(main.route = guiding /\ guiding = measured) /\ Fails("torn") /\ UNCHANGED progress
    /\ UNCHANGED <<playbackVars, session, created, guiding, measured, policyVars, estimator, cmd,
                   serverVars, counters>>

SessionAsked ==
    /\ main.at = "session"
    /\ IF session = NoSession THEN AfterUpdate ELSE MainTo("policy")
    /\ UNCHANGED <<playbackVars, session, guidanceVars, policyVars, estimator, cmd, serverVars, counters>>

\* ReroutePolicy.update: the delay may have passed once a departure was seen.
Departed == main.sign = "off"
DelayEnds == Departed /\ since /\ ~pending /\ ~cooling

PolicyWaits ==
    /\ main.at = "policy" /\ since' = Departed /\ AfterUpdate
    /\ UNCHANGED <<playbackVars, session, guidanceVars, pending, cooling, estimator, cmd, serverVars, counters>>

PolicyAsks ==
    /\ main.at = "policy" /\ DelayEnds
    /\ pending' = TRUE /\ cooling' = TRUE /\ MainTo("request")
    /\ UNCHANGED <<playbackVars, session, guidanceVars, since, estimator, cmd, serverVars, counters>>

CooldownPasses ==
    /\ cooling /\ cooling' = FALSE
    /\ UNCHANGED <<playbackVars, session, guidanceVars, since, pending, estimator, mainVars, cmd, serverVars, counters>>

\* The destination is read for the request, and again with the answer.
RerouteRequested ==
    /\ main.at = "request"
    /\ IF session = NoSession THEN Fails("cancelled")
       ELSE main' = [main EXCEPT !.at = "plan", !.to = session.to] /\ UNCHANGED failure
    /\ UNCHANGED <<playbackVars, session, guidanceVars, policyVars, estimator, cmd, serverVars, counters>>

RerouteFails ==
    /\ main.at = "plan" /\ pending' = FALSE /\ Fails("planner")
    /\ UNCHANGED <<playbackVars, session, guidanceVars, since, cooling, estimator, cmd, serverVars, counters>>

Reroute ==
    /\ main.at = "plan" /\ Plan
    /\ IF session = NoSession THEN Fails("cancelled") /\ UNCHANGED guidanceVars
       ELSE LET route == NewRoute(main.to)
            IN /\ Installs(route) /\ UNCHANGED failure
               /\ main' = [main EXCEPT !.at = "measure", !.route = route, !.to = session.to]
    /\ UNCHANGED <<playbackVars, session, policyVars, estimator, cmd, serverVars>>

RerouteMeasured ==
    /\ main.at = "measure" /\ Measures(main.route) /\ MainHolds("adopt")
    /\ UNCHANGED <<playbackVars, session, policyVars, estimator, cmd, serverVars, counters>>

\* Mutant: the new route leads guidance but is not recorded.
RerouteUnrecorded == session
RerouteRecorded == [to |-> main.to, route |-> main.route]

RerouteAdopted ==
    /\ main.at = "adopt" /\ session' = RerouteRecorded /\ MainTo("completed")
    /\ UNCHANGED <<playbackVars, guidanceVars, policyVars, estimator, cmd, serverVars, counters>>

RerouteEnds ==
    /\ main.at = "completed" /\ RerouteCompleted /\ AfterUpdate
    /\ UNCHANGED <<playbackVars, session, guidanceVars, estimator, cmd, serverVars, counters>>

\* Arrival ends the playback, whichever route it is of.
Arrive ==
    /\ \/ main.at = "arrive" /\ StopBegins("main") /\ MainTo("arriving")
       \/ main.at = "arriving" /\ StopEnds("main") /\ Loops
    /\ UNCHANGED <<session, guidanceVars, policyVars, estimator, cmd, serverVars, counters>>

\* close(), called in the finally clause of run().
Close ==
    /\ main.at = "close" /\ stopEvent' = TRUE /\ MainTo("silence")
    /\ UNCHANGED <<playbackVars, session, guidanceVars, policyVars, estimator, cmd, serverStop, serverError, counters>>

CloseStopsPlayback ==
    /\ \/ main.at = "silence" /\ StopBegins("main") /\ MainTo("silencing")
       \/ main.at = "silencing" /\ StopEnds("main") /\ MainTo("clear")
    /\ UNCHANGED <<session, guidanceVars, policyVars, estimator, cmd, serverVars, counters>>

CloseCancels ==
    /\ main.at = "clear" /\ session' = NoSession /\ MainTo("reset")
    /\ UNCHANGED <<playbackVars, guidanceVars, policyVars, estimator, cmd, serverVars, counters>>

CloseResets ==
    /\ main.at = "reset" /\ PolicyReset /\ serverStop' = TRUE /\ MainTo("join")
    /\ UNCHANGED <<playbackVars, session, guidanceVars, estimator, cmd, stopEvent, serverError, counters>>

\* The join of the command thread may time out.
Joined ==
    /\ main.at = "join" /\ MainTo("release")
    /\ UNCHANGED <<playbackVars, session, guidanceVars, policyVars, estimator, cmd, serverVars, counters>>

Release ==
    /\ \/ main.at = "release" /\ ReleaseBegins("main") /\ MainTo("releasing") /\ UNCHANGED estimator
       \/ main.at = "releasing" /\ StopEnds("main") /\ MainTo("ended") /\ estimator' = FALSE
    /\ UNCHANGED <<session, guidanceVars, policyVars, cmd, serverVars, counters>>

-----------------------------------------------------------------------------
(* The command thread.                                                     *)

Jobs == {[at |-> "plan", job |-> "start"], [at |-> "stop", job |-> "cancel"],
         [at |-> "look", job |-> "simulate"], [at |-> "stop", job |-> "stop"],
         [at |-> "calibrate", job |-> "calibrate"]}

Receive ==
    /\ cmd.at = "receive" /\ ~serverStop /\ commands < MaxCommands /\ commands' = commands + 1
    /\ \E j \in Jobs : cmd' = [Receiving EXCEPT !.at = j.at, !.job = j.job]
    /\ UNCHANGED <<playbackVars, session, guidanceVars, policyVars, estimator, mainVars, serverVars, routes>>

\* A message that is no JSON ends the server: the error is kept, then the
\* loop of run() is told to stop.
ServerFails ==
    /\ \/ cmd.at = "receive" /\ serverError' = TRUE /\ CmdTo("failing") /\ UNCHANGED stopEvent
       \/ cmd.at = "failing" /\ stopEvent' = TRUE /\ CmdTo("ended") /\ UNCHANGED serverError
    /\ UNCHANGED <<playbackVars, session, guidanceVars, policyVars, estimator, mainVars, serverStop, counters>>

ServerEnds ==
    /\ cmd.at = "receive" /\ serverStop /\ CmdTo("ended")
    /\ UNCHANGED <<playbackVars, session, guidanceVars, policyVars, estimator, mainVars, serverVars, counters>>

\* start_route: a failing planner is an error reply.
StartPlans ==
    /\ cmd.at = "plan"
    /\ \/ \E d \in Destinations : Plan /\ cmd' = [cmd EXCEPT !.at = "stop", !.route = NewRoute(d)]
       \/ Replies /\ UNCHANGED counters
    /\ UNCHANGED <<playbackVars, session, guidanceVars, policyVars, estimator, mainVars, serverVars>>

StopPlayback ==
    /\ \/ cmd.at = "stop" /\ StopBegins("cmd") /\ CmdTo("stopping")
       \/ /\ cmd.at = "stopping" /\ StopEnds("cmd")
          /\ \/ cmd.job = "start" /\ CmdTo("install")
             \/ cmd.job = "cancel" /\ CmdTo("clear")
             \/ cmd.job = "stop" /\ Replies
    /\ UNCHANGED <<session, guidanceVars, policyVars, estimator, mainVars, serverVars, counters>>

StartInstalls ==
    /\ cmd.at = "install" /\ CmdTo("measure")
    /\ IF created THEN Installs(cmd.route)
       ELSE /\ created' = TRUE /\ guiding' = cmd.route
            /\ measured' = cmd.route /\ progress' = cmd.route
    /\ UNCHANGED <<playbackVars, session, policyVars, estimator, mainVars, serverVars, counters>>

StartMeasures ==
    /\ cmd.at = "measure" /\ Measures(cmd.route) /\ CmdTo("adopt")
    /\ UNCHANGED <<playbackVars, session, policyVars, estimator, mainVars, serverVars, counters>>

StartAdopts ==
    /\ cmd.at = "adopt" /\ session' = [to |-> cmd.route.to, route |-> cmd.route] /\ CmdTo("reset")
    /\ UNCHANGED <<playbackVars, guidanceVars, policyVars, estimator, mainVars, serverVars, counters>>

CancelClears ==
    /\ cmd.at = "clear" /\ session' = NoSession /\ CmdTo("reset")
    /\ UNCHANGED <<playbackVars, guidanceVars, policyVars, estimator, mainVars, serverVars, counters>>

CommandResets ==
    /\ cmd.at = "reset" /\ PolicyReset /\ Replies
    /\ UNCHANGED <<playbackVars, session, guidanceVars, estimator, mainVars, serverVars, counters>>

\* simulate_route: without a route, or when it cannot be played, an error reply.
SimulateLooks ==
    /\ cmd.at = "look"
    /\ IF session = NoSession THEN Replies
       ELSE cmd' = [cmd EXCEPT !.at = "follow", !.route = session.route]
    /\ UNCHANGED <<playbackVars, session, guidanceVars, policyVars, estimator, mainVars, serverVars, counters>>

Simulate ==
    /\ \/ cmd.at = "follow" /\ FollowRefused /\ Replies
       \/ cmd.at = "follow" /\ FollowBegins("cmd") /\ CmdTo("following")
       \/ cmd.at = "following" /\ (Follow("cmd", cmd.route) \/ FollowFails("cmd")) /\ Replies
    /\ UNCHANGED <<session, guidanceVars, policyVars, estimator, mainVars, serverVars, counters>>

\* calibrate_stationary restarts the estimator under the loop that uses it.
Calibrate ==
    /\ \/ cmd.at = "calibrate" /\ estimator' = FALSE /\ CmdTo("calibrating")
       \/ cmd.at = "calibrate" /\ UNCHANGED estimator /\ Replies
       \/ cmd.at = "calibrating" /\ estimator' = TRUE /\ Replies
    /\ UNCHANGED <<playbackVars, session, guidanceVars, policyVars, mainVars, serverVars, counters>>

-----------------------------------------------------------------------------
MainStep == Turn \/ GuidanceProjects \/ GuidanceAdvances \/ SessionAsked \/ PolicyWaits \/ PolicyAsks
            \/ RerouteRequested \/ RerouteFails \/ Reroute \/ RerouteMeasured \/ RerouteAdopted
            \/ RerouteEnds \/ Arrive \/ Close \/ CloseStopsPlayback \/ CloseCancels \/ CloseResets
            \/ Joined \/ Release

CommandStep == ServerEnds \/ StartPlans \/ StopPlayback \/ StartInstalls \/ StartMeasures
               \/ StartAdopts \/ CancelClears \/ CommandResets \/ SimulateLooks \/ Simulate \/ Calibrate
               \/ (cmd.at = "failing" /\ ServerFails)

PlaybackReports ==
    /\ Reports
    /\ UNCHANGED <<session, guidanceVars, policyVars, estimator, mainVars, cmd, serverVars, counters>>

InTurn == main.at \notin {"loop", "ended"}
Changing == cmd.at \notin {"receive", "plan", "ended"}

Step == MainStep \/ TurnRaises \/ CooldownPasses \/ CommandStep \/ Receive \/ ServerFails \/ PlaybackReports

Next == Step /\ overlapped' = (overlapped \/ (InTurn' /\ Changing'))

Spec == Init /\ [][Next]_vars

\* Both threads run on; the clock passes the cooldown; a departure that lasts
\* outlives its delay; an answer of the planner comes within its timeout.
\* Nobody need send a command, report a position, keep or find a fix, fail in
\* the loop or interrupt it.
FairSpec ==
    /\ Spec
    /\ WF_runtimeVars(MainStep) /\ WF_runtimeVars(CommandStep) /\ WF_runtimeVars(CooldownPasses)
    /\ SF_runtimeVars(PolicyAsks)

-----------------------------------------------------------------------------
Places == {"loop", "project", "advance", "session", "policy", "request", "plan", "measure", "adopt",
           "completed", "arrive", "arriving", "close", "silence", "silencing", "clear", "reset",
           "join", "release", "releasing", "ended"}
CommandPlaces == {"receive", "plan", "stop", "stopping", "install", "measure", "adopt", "reset",
                  "clear", "look", "follow", "following", "calibrate", "calibrating", "failing", "ended"}

\* The lock's holder is in the middle of a call that takes it.
LockHeld ==
    /\ lifecycle \in {Free, "main", "cmd"}
    /\ lifecycle = "main" <=> main.at \in {"arriving", "silencing", "releasing"}
    /\ lifecycle = "cmd" <=> cmd.at \in {"stopping", "following"}

MainTyped ==
    /\ main \in [at : Places, seen : Routes \cup {NoRoute, Live, NoPosition}, sign : {"on", "off", "complete"},
                 route : Routes \cup {NoRoute}, to : Destinations \cup {NoRoute}]
    /\ main.at = "plan" => main.to \in Destinations
    /\ main.at \in {"measure", "adopt"} => main.route \in Routes /\ main.to \in Destinations

CommandTyped ==
    /\ cmd \in [at : CommandPlaces, job : {"none", "start", "cancel", "simulate", "stop", "calibrate"},
                route : Routes \cup {NoRoute}]
    /\ cmd.at \in {"install", "measure", "adopt"} => cmd.route \in Routes
    /\ cmd.at \in {"stop", "stopping"} /\ cmd.job = "start" => cmd.route \in Routes

GuidanceTyped ==
    /\ session \in Sessions \cup {NoSession}
    /\ guiding \in Routes \cup {NoRoute} /\ measured \in Routes \cup {NoRoute}
    /\ progress \in Routes \cup {NoRoute}

FlagsTyped ==
    /\ created \in BOOLEAN /\ since \in BOOLEAN /\ pending \in BOOLEAN /\ cooling \in BOOLEAN
    /\ estimator \in BOOLEAN /\ stopEvent \in BOOLEAN /\ serverStop \in BOOLEAN
    /\ serverError \in BOOLEAN /\ overlapped \in BOOLEAN

\* State is well formed, each thread holds what the place it is at needs, and
\* the lock is held exactly by the thread in the middle of a stop or a start.
TypeOK ==
    /\ PlaybackTypeOK(Routes \cup {NoRoute}) /\ LockHeld /\ MainTyped /\ CommandTyped
    /\ GuidanceTyped /\ FlagsTyped
    /\ routes \in 0 .. MaxRoutes /\ commands \in 0 .. MaxCommands

\* While commands change nothing in the middle of a turn of run(), guidance
\* follows, measures and advances along the session's route, which leads to
\* the session's destination, and no command has ended the loop by the route,
\* the session or the estimator it took away from it.
OneRoute ==
    ~overlapped =>
        /\ failure \notin {"torn", "cancelled", "estimator"}
        /\ session # NoSession /\ main.at = "loop" /\ ~Changing =>
              /\ guiding = session.route /\ measured = session.route /\ progress = session.route
              /\ session.route.to = session.to

\* Playback needs a route in session once the commands are done, and none
\* survives run(), not even one a command thread that outlived its join began.
PlaybackRetired ==
    /\ playing /\ ~InTurn /\ ~Changing /\ main.at = "loop" => session # NoSession
    /\ main.at = "ended" => ~running /\ ~playing

\* A departure from the route of a session is answered, by a new route, by the
\* way back, by the end of the session or by that of run(), unless the fix is
\* lost meanwhile; once it is found for good, the departure is answered still.
DepartureAnswered ==
    (since /\ session # NoSession)
        ~> (~since \/ session = NoSession \/ main.at = "ended" \/ position = NoPosition)

\* Whatever asks the loop to stop, run() ends and has released its sources.
RunEnds == (stopEvent \/ failure # "none") ~> (main.at = "ended" /\ ~running)

\* The planner's failure ends no telemetry: "navigation telemetry should
\* remain independently useful even though route calculation cannot succeed".
PlannerFailureHarmless == failure # "planner"
=============================================================================
