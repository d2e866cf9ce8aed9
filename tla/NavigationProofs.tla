-------------------------- MODULE NavigationProofs --------------------------
(***************************************************************************)
(* Proofs about NavigationRuntime: it is well typed, playback is delivered *)
(* and retired as promised, and session and guidance stay on one route     *)
(* between the turns of run().                                             *)
(***************************************************************************)
EXTENDS NavigationRuntime, TLAPS

PlaybackTyped == PlaybackTypeOK(Routes \cup {NoRoute})
BoundsTyped == routes \in 0 .. MaxRoutes /\ commands \in 0 .. MaxCommands

\* The type invariant by its parts, one for each group of variables.
LEMMA TypeParts == TypeOK <=> /\ PlaybackTyped /\ LockHeld /\ MainTyped /\ CommandTyped
                              /\ GuidanceTyped /\ FlagsTyped /\ BoundsTyped
  BY DEF TypeOK, PlaybackTyped, BoundsTyped

\* The same in the next state.
LEMMA TypePartsNext == TypeOK' <=> /\ PlaybackTyped' /\ LockHeld' /\ MainTyped' /\ CommandTyped'
                                  /\ GuidanceTyped' /\ FlagsTyped' /\ BoundsTyped'
  BY DEF TypeOK, PlaybackTyped, BoundsTyped

\* Types hold at the start.
LEMMA TypedInit == Init => TypeOK
<1> SUFFICES ASSUME Init PROVE TypeOK
  OBVIOUS
<1>1. PlaybackTyped
  BY DEF PlaybackTyped, PlaybackTypeOK, Idle, Init, InitPlayback
<1>2. main.at = "loop" /\ cmd.at = "receive" /\ cmd.job = "none" /\ lifecycle = Free
  BY DEF InRun, Receiving, Init, InitPlayback
<1>3. LockHeld
  BY <1>2, NavigationAssumption DEF LockHeld
<1>4. MainTyped
  BY DEF MainTyped, InRun, Places, Init
<1>5. CommandTyped
  BY DEF CommandTyped, Receiving, CommandPlaces, Init
<1>6. GuidanceTyped
  BY DEF GuidanceTyped, Init
<1>7. FlagsTyped
  BY DEF FlagsTyped, Init
<1>8. BoundsTyped
  BY NavigationAssumption DEF BoundsTyped, Init
<1> QED BY <1>1, <1>3, <1>4, <1>5, <1>6, <1>7, <1>8, TypeParts

\* A planned route has a type and leads to its destination.
LEMMA RouteMade ==
    ASSUME BoundsTyped, Plan, NEW d \in Destinations
    PROVE  NewRoute(d) \in Routes /\ NewRoute(d).to = d /\ BoundsTyped'
  BY NavigationAssumption DEF BoundsTyped, Plan, NewRoute, Routes

\* What the calls under the lock keep of the playback.
LEMMA PlaybackKept ==
    ASSUME PlaybackTyped, NEW c,
           \/ StopBegins(c) \/ StopEnds(c) \/ ReleaseBegins(c) \/ Reports
           \/ UNCHANGED playbackVars
           \/ \E route \in Routes \cup {NoRoute} : Follow(c, route)
    PROVE  PlaybackTyped'
<1> USE DEF PlaybackTyped, PlaybackTypeOK
<1>1. CASE StopBegins(c)
  BY <1>1 DEF StopBegins, Invalidated
<1>2. CASE StopEnds(c)
  BY <1>2 DEF StopEnds
<1>3. CASE ReleaseBegins(c)
  BY <1>3 DEF ReleaseBegins, Invalidated
<1>4. CASE LiveDelivers
  BY <1>4 DEF LiveDelivers
<1>5. ASSUME NEW p \in Players, PlayerReads(p) PROVE PlaybackTyped'
  BY <1>5 DEF PlayerReads, Idle
<1>6. ASSUME NEW p \in Players, PlayerDelivers(p) PROVE PlaybackTyped'
  BY <1>6 DEF PlayerDelivers
<1>7. ASSUME NEW route \in Routes \cup {NoRoute}, Follow(c, route) PROVE PlaybackTyped'
  <2>1. PICK p \in Players :
             player' = [player EXCEPT ![p] = [at |-> "loop", report |-> NoRoute, current |-> TRUE]]
    BY <1>7 DEF Follow
  <2>2. [at |-> "loop", report |-> NoRoute, current |-> TRUE] \in
            [at : {"none", "loop", "deliver"}, report : Routes \cup {NoRoute}, current : BOOLEAN]
    OBVIOUS
  <2>3. player' \in [Players -> [at : {"none", "loop", "deliver"}, report : Routes \cup {NoRoute}, current : BOOLEAN]]
    BY <2>1, <2>2
  <2> QED BY <1>7, <2>3 DEF Follow
<1>8. CASE UNCHANGED playbackVars
  BY <1>8 DEF playbackVars
<1> QED BY <1>1, <1>2, <1>3, <1>4, <1>5, <1>6, <1>7, <1>8 DEF Reports

\* Parts of the type whose variables an action leaves alone.
LEMMA Untouched ==
    ASSUME TypeOK
    PROVE  /\ UNCHANGED playbackVars => PlaybackTyped'
           /\ UNCHANGED <<lifecycle, main.at, cmd.at>> => LockHeld'
           /\ UNCHANGED main => MainTyped'
           /\ UNCHANGED cmd => CommandTyped'
           /\ UNCHANGED <<session, guidanceVars>> => GuidanceTyped'
           /\ UNCHANGED counters => BoundsTyped'
           /\ /\ UNCHANGED <<created, policyVars, estimator, serverVars>>
              /\ overlapped' \in BOOLEAN
              => FlagsTyped'
  BY TypeParts DEF PlaybackTyped, PlaybackTypeOK, playbackVars, LockHeld, MainTyped, CommandTyped, GuidanceTyped,
     guidanceVars, BoundsTyped, counters, FlagsTyped, policyVars, serverVars


\* Types through the start of a turn of run(), and through a turn that raises.
LEMMA TypedTurn ==
    ASSUME TypeOK, overlapped' \in BOOLEAN, Turn \/ TurnRaises PROVE TypeOK'
<1> USE TypeParts
<1>1. /\ PlaybackTyped' /\ CommandTyped' /\ GuidanceTyped' /\ FlagsTyped' /\ BoundsTyped'
  BY Untouched DEF Turn, TurnRaises, guidanceVars
<1>2. MainTyped' /\ main'.at \in {"close", "project"} /\ main.at = "loop"
  <2>1. CASE main' = [main EXCEPT !.at = "project", !.seen = position]
    BY <2>1 DEF Turn, TurnRaises, MainTyped, Places, PlaybackTyped, PlaybackTypeOK
  <2>2. CASE main' = InRun("close", main.sign) \/ main' = InRun("close", "on")
    BY <2>2 DEF Turn, TurnRaises, MainTyped, InRun, Places
  <2> QED BY <2>1, <2>2 DEF Turn, TurnRaises, MainTo, Fails
<1>3. LockHeld'
  BY <1>2 DEF LockHeld, Turn, TurnRaises, playbackVars
<1> QED BY <1>1, <1>2, <1>3, TypePartsNext

InCall(place) == place \in {"arriving", "silencing", "releasing", "stopping", "following"}

\* A step outside the calls that take the lock leaves it as it is.
LEMMA LockUntouched ==
    ASSUME TypeOK, UNCHANGED lifecycle,
           main'.at = main.at \/ ~(InCall(main.at) \/ InCall(main'.at)),
           cmd'.at = cmd.at \/ ~(InCall(cmd.at) \/ InCall(cmd'.at))
    PROVE  LockHeld'
  BY TypeParts DEF LockHeld, InCall

\* Guidance and policy: the steps up to the request for a route.
LEMMA TypedUpdate ==
    ASSUME TypeOK, overlapped' \in BOOLEAN,
           \/ GuidanceProjects \/ GuidanceAdvances \/ SessionAsked \/ PolicyWaits \/ PolicyAsks
           \/ CooldownPasses \/ RerouteRequested \/ RerouteFails
    PROVE  TypeOK'
<1> USE TypeParts
<1> DEFINE Others == PlaybackTyped' /\ CommandTyped' /\ BoundsTyped' /\ UNCHANGED <<lifecycle, cmd>>
           Moves == MainTyped' /\ ~InCall(main.at) /\ ~InCall(main'.at)
<1>0. Others /\ Moves /\ GuidanceTyped' /\ FlagsTyped' => TypeOK'
  BY LockUntouched, TypePartsNext
<1>1. CASE GuidanceProjects
  <2>1. Others /\ GuidanceTyped' /\ FlagsTyped'
    BY <1>1, Untouched DEF GuidanceProjects, guidanceVars, playbackVars
  <2>2. Moves
    BY <1>1 DEF GuidanceProjects, MainTyped, GuidanceTyped, Places, InCall
  <2> QED BY <1>0, <2>1, <2>2
<1>2. CASE GuidanceAdvances
  <2>1. Others /\ FlagsTyped'
    BY <1>2, Untouched DEF GuidanceAdvances, playbackVars
  <2>2. GuidanceTyped'
    BY <1>2 DEF GuidanceAdvances, GuidanceTyped, MainTyped
  <2>3. Moves
    BY <1>2 DEF GuidanceAdvances, Signs, Fails, MainTyped, InRun, Places, InCall
  <2> QED BY <1>0, <2>1, <2>2, <2>3
<1>3. CASE SessionAsked
  <2>1. Others /\ GuidanceTyped' /\ FlagsTyped'
    BY <1>3, Untouched DEF SessionAsked, guidanceVars, playbackVars
  <2>2. Moves
    BY <1>3 DEF SessionAsked, AfterUpdate, MainTo, Loops, MainTyped, InRun, Places, InCall
  <2> QED BY <1>0, <2>1, <2>2
<1>4. CASE PolicyWaits
  <2>1. Others /\ GuidanceTyped'
    BY <1>4, Untouched DEF PolicyWaits, guidanceVars, playbackVars
  <2>2. FlagsTyped'
    BY <1>4 DEF PolicyWaits, Departed, FlagsTyped, guidanceVars, serverVars
  <2>3. Moves
    BY <1>4 DEF PolicyWaits, AfterUpdate, MainTo, Loops, MainTyped, InRun, Places, InCall
  <2> QED BY <1>0, <2>1, <2>2, <2>3
<1>5. CASE PolicyAsks
  <2>1. Others /\ GuidanceTyped'
    BY <1>5, Untouched DEF PolicyAsks, guidanceVars, playbackVars
  <2>2. FlagsTyped'
    BY <1>5 DEF PolicyAsks, FlagsTyped, guidanceVars, serverVars
  <2>3. Moves
    BY <1>5 DEF PolicyAsks, MainTo, MainTyped, InRun, Places, InCall
  <2> QED BY <1>0, <2>1, <2>2, <2>3
<1>6. CASE CooldownPasses
  <2>1. Others /\ GuidanceTyped' /\ UNCHANGED main
    BY <1>6, Untouched DEF CooldownPasses, guidanceVars, playbackVars, mainVars
  <2>2. FlagsTyped'
    BY <1>6 DEF CooldownPasses, FlagsTyped, guidanceVars, serverVars
  <2> QED BY <2>1, <2>2, Untouched, LockUntouched, TypePartsNext
<1>7. CASE RerouteRequested
  <2>1. Others /\ GuidanceTyped' /\ FlagsTyped'
    BY <1>7, Untouched DEF RerouteRequested, guidanceVars, playbackVars
  <2>2. CASE session = NoSession
    BY <1>0, <1>7, <2>1, <2>2 DEF RerouteRequested, Fails, MainTyped, InRun, Places, InCall
  <2>3. CASE session # NoSession
    <3>1. session.to \in Destinations
      BY <2>3 DEF GuidanceTyped, Sessions
    <3>2. Moves
      BY <1>7, <2>3, <3>1 DEF RerouteRequested, MainTyped, Places, InCall
    <3> QED BY <1>0, <2>1, <3>2
  <2> QED BY <2>2, <2>3
<1>8. CASE RerouteFails
  <2>1. Others /\ GuidanceTyped'
    BY <1>8, Untouched DEF RerouteFails, guidanceVars, playbackVars
  <2>2. FlagsTyped'
    BY <1>8 DEF RerouteFails, FlagsTyped, guidanceVars, serverVars
  <2>3. Moves
    BY <1>8 DEF RerouteFails, Fails, MainTyped, InRun, Places, InCall
  <2> QED BY <1>0, <2>1, <2>2, <2>3
<1> QED BY <1>1, <1>2, <1>3, <1>4, <1>5, <1>6, <1>7, <1>8

\* A reroute answered: installed, measured, recorded, completed.
LEMMA TypedReroute ==
    ASSUME TypeOK, overlapped' \in BOOLEAN,
           Reroute \/ RerouteMeasured \/ RerouteAdopted \/ RerouteEnds
    PROVE  TypeOK'
<1> USE TypeParts
<1> DEFINE Others == PlaybackTyped' /\ CommandTyped' /\ UNCHANGED <<lifecycle, cmd>>
           Moves == MainTyped' /\ ~InCall(main.at) /\ ~InCall(main'.at)
<1>0. Others /\ Moves /\ GuidanceTyped' /\ FlagsTyped' /\ BoundsTyped' => TypeOK'
  BY LockUntouched, TypePartsNext
<1>1. CASE Reroute
  <2>1. Others
    BY <1>1, Untouched DEF Reroute, playbackVars
  <2>2. NewRoute(main.to) \in Routes /\ BoundsTyped'
    BY <1>1, RouteMade DEF Reroute, MainTyped
  <2>3. CASE session = NoSession
    <3>1. Moves
      BY <1>1, <2>3 DEF Reroute, Fails, MainTyped, InRun, Places, InCall
    <3>2. GuidanceTyped' /\ FlagsTyped'
      BY <1>1, <2>3, Untouched DEF Reroute, guidanceVars
    <3> QED BY <1>0, <2>1, <2>2, <3>1, <3>2
  <2>4. CASE session # NoSession
    <3>1. session.to \in Destinations
      BY <2>4 DEF GuidanceTyped, Sessions
    <3>2. Moves
      BY <1>1, <2>2, <2>4, <3>1 DEF Reroute, MainTyped, Places, InCall
    <3>3. GuidanceTyped' /\ FlagsTyped'
      BY <1>1, <2>2, <2>4 DEF Reroute, Installs, GuidanceTyped, FlagsTyped, policyVars, serverVars
    <3> QED BY <1>0, <2>1, <2>2, <3>2, <3>3
  <2> QED BY <2>3, <2>4
<1>2. CASE RerouteMeasured
  <2>1. Others /\ BoundsTyped'
    BY <1>2, Untouched DEF RerouteMeasured, playbackVars
  <2>2. Moves
    BY <1>2 DEF RerouteMeasured, MainHolds, MainTyped, Places, InCall
  <2>3. GuidanceTyped' /\ FlagsTyped'
    BY <1>2 DEF RerouteMeasured, Measures, MainTyped, GuidanceTyped, FlagsTyped, policyVars, serverVars
  <2> QED BY <1>0, <2>1, <2>2, <2>3
<1>3. CASE RerouteAdopted
  <2>1. Others /\ FlagsTyped' /\ BoundsTyped'
    BY <1>3, Untouched DEF RerouteAdopted, playbackVars, guidanceVars
  <2>2. Moves
    BY <1>3 DEF RerouteAdopted, MainTo, InRun, MainTyped, Places, InCall
  <2>3. GuidanceTyped'
    BY <1>3 DEF RerouteAdopted, RerouteRecorded, Sessions, MainTyped, GuidanceTyped, guidanceVars
  <2> QED BY <1>0, <2>1, <2>2, <2>3
<1>4. CASE RerouteEnds
  <2>1. Others /\ GuidanceTyped' /\ BoundsTyped'
    BY <1>4, Untouched DEF RerouteEnds, playbackVars, guidanceVars
  <2>2. Moves
    BY <1>4 DEF RerouteEnds, AfterUpdate, MainTo, Loops, InRun, MainTyped, Places, InCall
  <2>3. FlagsTyped'
    BY <1>4 DEF RerouteEnds, RerouteCompleted, FlagsTyped, guidanceVars, serverVars
  <2> QED BY <1>0, <2>1, <2>2, <2>3
<1> QED BY <1>1, <1>2, <1>3, <1>4

\* A call that takes the lock, or gives it back.
LEMMA LockCalls ==
    ASSUME TypeOK, NEW c \in {"main", "cmd"}, NEW at, NEW after,
           \/ StopBegins(c) /\ ~InCall(at) /\ InCall(after)
           \/ ReleaseBegins(c) /\ ~InCall(at) /\ InCall(after)
           \/ StopEnds(c) /\ InCall(at) /\ ~InCall(after)
           \/ \E route \in Routes \cup {NoRoute} : Follow(c, route) /\ InCall(at) /\ ~InCall(after),
           \/ /\ c = "main" /\ main.at = at /\ main'.at = after /\ UNCHANGED cmd
              /\ {at, after} \cap {"stopping", "following"} = {}
           \/ /\ c = "cmd" /\ cmd.at = at /\ cmd'.at = after /\ UNCHANGED main
              /\ {at, after} \cap {"arriving", "silencing", "releasing"} = {}
    PROVE  LockHeld' /\ PlaybackTyped'
<1>1. PlaybackTyped'
  BY PlaybackKept, TypeParts
<1>2. \/ lifecycle = Free /\ lifecycle' = c /\ ~InCall(at) /\ InCall(after)
      \/ lifecycle = c /\ lifecycle' = Free /\ InCall(at) /\ ~InCall(after)
  BY DEF StopBegins, StopEnds, ReleaseBegins, Follow
<1>3. LockHeld
  BY TypeParts
<1> DEFINE MainIn(p) == p \in {"arriving", "silencing", "releasing"}
           CmdIn(p) == p \in {"stopping", "following"}
<1>4. CASE c = "main"
  <2>1. c # "cmd" /\ cmd' = cmd /\ main.at = at /\ main'.at = after
        /\ (MainIn(at) <=> InCall(at)) /\ (MainIn(after) <=> InCall(after))
    BY <1>4 DEF InCall
  <2>2. Free # "main" /\ Free # "cmd"
    BY NavigationAssumption
  <2>3. lifecycle # "cmd" /\ lifecycle' # "cmd" /\ lifecycle' \in {Free, "main"}
    BY <1>2, <1>4, <2>1, <2>2
  <2>4. ~CmdIn(cmd.at) /\ ~CmdIn(cmd'.at)
    BY <1>3, <2>1, <2>3 DEF LockHeld
  <2>5. lifecycle' = "main" <=> MainIn(main'.at)
    BY <1>2, <1>4, <2>1, <2>2
  <2> QED BY <1>1, <2>3, <2>4, <2>5 DEF LockHeld
<1>5. CASE c = "cmd"
  <2>1. c # "main" /\ main' = main /\ cmd.at = at /\ cmd'.at = after
        /\ (CmdIn(at) <=> InCall(at)) /\ (CmdIn(after) <=> InCall(after))
    BY <1>5 DEF InCall
  <2>2. Free # "main" /\ Free # "cmd"
    BY NavigationAssumption
  <2>3. lifecycle # "main" /\ lifecycle' # "main" /\ lifecycle' \in {Free, "cmd"}
    BY <1>2, <1>5, <2>1, <2>2
  <2>4. ~MainIn(main.at) /\ ~MainIn(main'.at)
    BY <1>3, <2>1, <2>3 DEF LockHeld
  <2>5. lifecycle' = "cmd" <=> CmdIn(cmd'.at)
    BY <1>2, <1>5, <2>1, <2>2
  <2> QED BY <1>1, <2>3, <2>4, <2>5 DEF LockHeld
<1> QED BY <1>4, <1>5

\* Types through the calls of the main thread that stop or release playback.
LEMMA TypedMainCalls ==
    ASSUME TypeOK, overlapped' \in BOOLEAN, Arrive \/ CloseStopsPlayback \/ Release PROVE TypeOK'
<1> USE TypeParts
<1>1. CommandTyped' /\ GuidanceTyped' /\ BoundsTyped' /\ UNCHANGED cmd
  BY Untouched DEF Arrive, CloseStopsPlayback, Release
<1>2. FlagsTyped'
  <2>1. estimator' \in BOOLEAN
    BY DEF Arrive, CloseStopsPlayback, Release, FlagsTyped
  <2> QED BY <2>1 DEF Arrive, CloseStopsPlayback, Release, FlagsTyped, guidanceVars, policyVars, serverVars
<1>3. MainTyped'
  BY DEF Arrive, CloseStopsPlayback, Release, MainTo, Loops, InRun, MainTyped, Places
<1>4. LockHeld' /\ PlaybackTyped'
  <2>1. CASE \/ StopBegins("main") /\ main.at \in {"arrive", "silence"} /\ main'.at \in {"arriving", "silencing"}
             \/ ReleaseBegins("main") /\ main.at = "release" /\ main'.at = "releasing"
    BY <1>1, <2>1, LockCalls DEF InCall
  <2>2. CASE /\ StopEnds("main") /\ main.at \in {"arriving", "silencing", "releasing"}
             /\ main'.at \in {"loop", "clear", "ended"}
    BY <1>1, <2>2, LockCalls DEF InCall
  <2> QED BY <2>1, <2>2 DEF Arrive, CloseStopsPlayback, Release, MainTo, Loops, InRun
<1> QED BY <1>1, <1>2, <1>3, <1>4, TypePartsNext

\* Types through close().
LEMMA TypedClose ==
    ASSUME TypeOK, overlapped' \in BOOLEAN, Close \/ CloseCancels \/ CloseResets \/ Joined PROVE TypeOK'
<1> USE TypeParts
<1>1. PlaybackTyped' /\ CommandTyped' /\ BoundsTyped' /\ UNCHANGED <<lifecycle, cmd>>
  BY Untouched DEF Close, CloseCancels, CloseResets, Joined, playbackVars
<1>2. GuidanceTyped'
  BY DEF Close, CloseCancels, CloseResets, Joined, GuidanceTyped, guidanceVars
<1>3. FlagsTyped'
  BY DEF Close, CloseCancels, CloseResets, Joined, PolicyReset, FlagsTyped, guidanceVars, policyVars, serverVars
<1>4. MainTyped' /\ ~InCall(main.at) /\ ~InCall(main'.at)
  BY DEF Close, CloseCancels, CloseResets, Joined, MainTo, InRun, MainTyped, Places, InCall
<1> QED BY <1>1, <1>2, <1>3, <1>4, LockUntouched, TypePartsNext

\* Types through the command server's own steps.
LEMMA TypedServer ==
    ASSUME TypeOK, overlapped' \in BOOLEAN, Receive \/ ServerFails \/ ServerEnds PROVE TypeOK'
<1> USE TypeParts
<1>1. /\ PlaybackTyped' /\ MainTyped' /\ GuidanceTyped' /\ UNCHANGED <<lifecycle, main>>
  BY Untouched DEF Receive, ServerFails, ServerEnds, playbackVars, mainVars, guidanceVars
<1>2. FlagsTyped'
  BY DEF Receive, ServerFails, ServerEnds, FlagsTyped, guidanceVars, policyVars, serverVars
<1>3. BoundsTyped'
  <2>1. CASE Receive
    <3>1. routes' = routes /\ commands < MaxCommands /\ commands' = commands + 1
      BY <2>1 DEF Receive
    <3> QED BY <3>1, NavigationAssumption DEF BoundsTyped
  <2>2. CASE ServerFails \/ ServerEnds
    BY <2>2, Untouched DEF ServerFails, ServerEnds
  <2> QED BY <2>1, <2>2
<1>4. CommandTyped' /\ ~InCall(cmd.at) /\ ~InCall(cmd'.at)
  <2>1. CASE Receive
    <3>1. PICK j \in Jobs : cmd' = [Receiving EXCEPT !.at = j.at, !.job = j.job]
      BY <2>1 DEF Receive
    <3>2. cmd' = [at |-> j.at, job |-> j.job, route |-> NoRoute]
      BY <3>1 DEF Receiving
    <3>3. /\ j.at \in {"plan", "stop", "look", "calibrate"}
          /\ j.job \in {"start", "cancel", "simulate", "stop", "calibrate"}
          /\ j.job = "start" => j.at = "plan"
      BY DEF Jobs
    <3> QED BY <2>1, <3>2, <3>3 DEF Receive, CommandTyped, CommandPlaces, InCall
  <2>2. CASE ServerFails \/ ServerEnds
    BY <2>2 DEF ServerFails, ServerEnds, CmdTo, CommandTyped, CommandPlaces, InCall
  <2> QED BY <2>1, <2>2
<1> QED BY <1>1, <1>2, <1>3, <1>4, LockUntouched, TypePartsNext

\* Types through a start and a cancellation.
LEMMA TypedStart ==
    ASSUME TypeOK, overlapped' \in BOOLEAN,
           StartPlans \/ StartInstalls \/ StartMeasures \/ StartAdopts \/ CancelClears \/ CommandResets
    PROVE  TypeOK'
<1> USE TypeParts
<1>1. PlaybackTyped' /\ MainTyped' /\ UNCHANGED <<lifecycle, main>>
  BY Untouched DEF StartPlans, StartInstalls, StartMeasures, StartAdopts, CancelClears, CommandResets,
     playbackVars, mainVars
<1>2. FlagsTyped'
  BY DEF StartPlans, StartInstalls, StartMeasures, StartAdopts, CancelClears, CommandResets, Installs,
     Measures, PolicyReset, FlagsTyped, guidanceVars, policyVars, serverVars
<1>3. CASE StartPlans
  <2>1. GuidanceTyped'
    BY <1>3, Untouched DEF StartPlans
  <2>2. ASSUME NEW d \in Destinations, Plan, cmd' = [cmd EXCEPT !.at = "stop", !.route = NewRoute(d)]
        PROVE  BoundsTyped' /\ CommandTyped' /\ ~InCall(cmd'.at)
    <3>1. NewRoute(d) \in Routes /\ BoundsTyped'
      BY <2>2, RouteMade
    <3> QED BY <2>2, <3>1 DEF CommandTyped, CommandPlaces, InCall
  <2>3. ASSUME Replies, UNCHANGED counters
        PROVE  BoundsTyped' /\ CommandTyped' /\ ~InCall(cmd'.at)
    BY <2>3, Untouched DEF Replies, Receiving, CommandTyped, CommandPlaces, InCall
  <2>4. BoundsTyped' /\ CommandTyped' /\ ~InCall(cmd'.at) /\ ~InCall(cmd.at)
    BY <1>3, <2>2, <2>3 DEF StartPlans, InCall
  <2> QED BY <1>1, <1>2, <2>1, <2>4, LockUntouched, TypePartsNext
<1>4. CASE StartInstalls \/ StartMeasures \/ StartAdopts \/ CancelClears \/ CommandResets
  <2>1. BoundsTyped'
    BY <1>4, Untouched DEF StartInstalls, StartMeasures, StartAdopts, CancelClears, CommandResets
  <2>2. GuidanceTyped'
    BY <1>4 DEF StartInstalls, StartMeasures, StartAdopts, CancelClears, CommandResets, Installs, Measures,
       GuidanceTyped, Sessions, Routes, CommandTyped, guidanceVars
  <2>3. CommandTyped' /\ ~InCall(cmd'.at) /\ ~InCall(cmd.at)
    BY <1>4 DEF StartInstalls, StartMeasures, StartAdopts, CancelClears, CommandResets, CmdTo, Replies,
       Receiving, CommandTyped, CommandPlaces, InCall
  <2> QED BY <1>1, <1>2, <2>1, <2>2, <2>3, LockUntouched, TypePartsNext
<1> QED BY <1>3, <1>4

\* Types through the commands that play a route, and calibration.
LEMMA TypedPlay ==
    ASSUME TypeOK, overlapped' \in BOOLEAN, StopPlayback \/ SimulateLooks \/ Simulate \/ Calibrate
    PROVE  TypeOK'
<1> USE TypeParts
<1>1. MainTyped' /\ GuidanceTyped' /\ BoundsTyped' /\ UNCHANGED main
  BY Untouched DEF StopPlayback, SimulateLooks, Simulate, Calibrate, mainVars
<1>2. FlagsTyped'
  BY DEF StopPlayback, SimulateLooks, Simulate, Calibrate, FlagsTyped, guidanceVars, policyVars, serverVars
<1>3. CommandTyped'
  <2>1. session # NoSession => session.route \in Routes
    BY DEF GuidanceTyped, Sessions
  <2>2. CASE Replies
    BY <2>2 DEF Replies, Receiving, CommandTyped, CommandPlaces
  <2>3. CASE SimulateLooks /\ ~Replies
    BY <2>1, <2>3 DEF SimulateLooks, Replies, CommandTyped, CommandPlaces
  <2>4. CASE StopPlayback /\ ~Replies
    BY <2>4 DEF StopPlayback, CmdTo, CommandTyped, CommandPlaces
  <2>5. CASE Simulate /\ ~Replies
    BY <2>5 DEF Simulate, CmdTo, CommandTyped, CommandPlaces
  <2>6. CASE Calibrate /\ ~Replies
    BY <2>6 DEF Calibrate, CmdTo, CommandTyped, CommandPlaces
  <2> QED BY <2>2, <2>3, <2>4, <2>5, <2>6
<1>4. CASE SimulateLooks \/ Calibrate \/ (cmd.at = "follow" /\ FollowRefused /\ Replies)
  <2>1. UNCHANGED playbackVars /\ ~InCall(cmd.at) /\ ~InCall(cmd'.at)
    <3>1. CASE SimulateLooks /\ session = NoSession
      BY <3>1 DEF SimulateLooks, CmdTo, Replies, Receiving, CommandTyped, InCall
    <3>2. CASE SimulateLooks /\ session # NoSession
      BY <3>2 DEF SimulateLooks, CommandTyped, InCall
    <3>3. CASE Calibrate
      BY <3>3 DEF Calibrate, CmdTo, Replies, Receiving, CommandTyped, InCall
    <3>4. CASE cmd.at = "follow" /\ FollowRefused /\ Replies
      BY <3>4 DEF FollowRefused, Replies, Receiving, InCall
    <3> QED BY <1>4, <3>1, <3>2, <3>3, <3>4
  <2> QED BY <1>1, <1>2, <1>3, <2>1, Untouched, LockUntouched, TypePartsNext DEF playbackVars
<1>5. CASE \/ StopBegins("cmd") /\ cmd.at = "stop" /\ CmdTo("stopping")
           \/ StopBegins("cmd") /\ cmd.at = "follow" /\ CmdTo("following")
  <2>1. LockHeld' /\ PlaybackTyped'
    <3>1. cmd.at \in {"stop", "follow"} /\ cmd'.at \in {"stopping", "following"} /\ StopBegins("cmd")
      BY <1>5 DEF CmdTo, CommandTyped
    <3> QED BY <1>1, <3>1, LockCalls DEF InCall
  <2> QED BY <1>1, <1>2, <1>3, <2>1, TypePartsNext
<1>6. CASE \/ /\ StopEnds("cmd") /\ cmd.at \in {"stopping", "following"}
           \/ Follow("cmd", cmd.route) /\ cmd.at = "following"
  <2>1. cmd'.at \in {"install", "clear", "receive"}
    BY <1>6, NavigationAssumption DEF StopPlayback, SimulateLooks, Simulate, Calibrate, CmdTo, Replies,
       Receiving, CommandTyped
  <2>2. cmd.route \in Routes \cup {NoRoute}
    BY DEF CommandTyped
  <2>3. LockHeld' /\ PlaybackTyped'
    BY <1>1, <1>6, <2>1, <2>2, LockCalls DEF InCall
  <2> QED BY <1>1, <1>2, <1>3, <2>3, TypePartsNext
<1> QED BY <1>4, <1>5, <1>6 DEF StopPlayback, Simulate, FollowBegins, FollowFails

\* Types through the reports of playback threads and of the receiver.
LEMMA TypedReports ==
    ASSUME TypeOK, overlapped' \in BOOLEAN, PlaybackReports PROVE TypeOK'
<1>1. MainTyped' /\ CommandTyped' /\ GuidanceTyped' /\ FlagsTyped' /\ BoundsTyped'
  BY Untouched DEF PlaybackReports, guidanceVars, mainVars
<1>2. PlaybackTyped'
  BY TypeParts, PlaybackKept DEF PlaybackReports
<1>3. UNCHANGED <<lifecycle, main, cmd>>
  BY DEF PlaybackReports, Reports, LiveDelivers, PlayerReads, PlayerDelivers, mainVars
<1> QED BY <1>1, <1>2, <1>3, LockUntouched, TypePartsNext

\* Types are kept by every step.
LEMMA TypedNext == TypeOK /\ [Next]_vars => TypeOK'
<1> SUFFICES ASSUME TypeOK, [Next]_vars PROVE TypeOK'
  OBVIOUS
<1>1. CASE UNCHANGED vars
  BY <1>1 DEF vars, runtimeVars, playbackVars, guidanceVars, policyVars, serverVars, counters, mainVars,
     TypeOK, PlaybackTypeOK, LockHeld, MainTyped, CommandTyped, GuidanceTyped, FlagsTyped
<1>2. CASE Next
  <2>1. overlapped' \in BOOLEAN
    BY <1>2 DEF Next, TypeOK, FlagsTyped
  <2> QED BY <1>2, <2>1, TypedTurn, TypedUpdate, TypedReroute, TypedMainCalls, TypedClose, TypedServer,
             TypedStart, TypedPlay, TypedReports DEF Next, Step, MainStep, CommandStep
<1> QED BY <1>1, <1>2

\* The lock is held exactly in the middle of a stop or a start, and every
\* thread holds what the place it is at needs.
THEOREM TypeInvariant == Spec => []TypeOK
  BY TypedInit, TypedNext, PTL DEF Spec

-----------------------------------------------------------------------------
(* Playback.                                                               *)

\* A stop or a start under way has no playback, and what a current playback
\* is about to report lies on the route being played.
ReportInv ==
    /\ lifecycle # Free => ~playing /\ \A p \in Players : ~player[p].current
    /\ \A p \in Players : player[p].current /\ player[p].at = "deliver" => player[p].report = shape

PlaybackCall(c) ==
    \/ StopBegins(c) \/ StopEnds(c) \/ ReleaseBegins(c)
    \/ c = "cmd" /\ cmd.at = "following" /\ Follow(c, cmd.route)

\* Whatever the threads do, the playback is called, reports, or is left alone.
LEMMA StepOfPlayback ==
    ASSUME TypeOK, [Next]_vars
    PROVE  PlaybackCall("main") \/ PlaybackCall("cmd") \/ Reports \/ UNCHANGED playbackVars
<1>1. CASE UNCHANGED vars
  BY <1>1 DEF vars, runtimeVars
<1>2. CASE Turn \/ TurnRaises \/ GuidanceProjects \/ GuidanceAdvances \/ SessionAsked \/ PolicyWaits
           \/ PolicyAsks \/ CooldownPasses \/ RerouteRequested \/ RerouteFails
  BY <1>2 DEF Turn, TurnRaises, GuidanceProjects, GuidanceAdvances, SessionAsked, PolicyWaits,
     PolicyAsks, CooldownPasses, RerouteRequested, RerouteFails
<1>3. CASE Reroute \/ RerouteMeasured \/ RerouteAdopted \/ RerouteEnds \/ Close \/ CloseCancels
           \/ CloseResets \/ Joined \/ Receive \/ ServerFails \/ ServerEnds
  BY <1>3 DEF Reroute, RerouteMeasured, RerouteAdopted, RerouteEnds, Close, CloseCancels, CloseResets,
     Joined, Receive, ServerFails, ServerEnds
<1>4. CASE StartPlans \/ StartInstalls \/ StartMeasures \/ StartAdopts \/ CancelClears
           \/ CommandResets \/ SimulateLooks \/ Calibrate
  BY <1>4 DEF StartPlans, StartInstalls, StartMeasures, StartAdopts, CancelClears, CommandResets,
     SimulateLooks, Calibrate
<1>5. CASE Arrive \/ CloseStopsPlayback \/ Release
  BY <1>5 DEF Arrive, CloseStopsPlayback, Release, PlaybackCall
<1>6. CASE StopPlayback \/ Simulate
  BY <1>6 DEF StopPlayback, Simulate, FollowBegins, FollowRefused, FollowFails, PlaybackCall
<1>7. CASE PlaybackReports
  BY <1>7 DEF PlaybackReports
<1> QED BY <1>1, <1>2, <1>3, <1>4, <1>5, <1>6, <1>7 DEF Next, Step, MainStep, CommandStep

\* What a playback thread is about to report is kept true by every step ...
LEMMA ReportKept ==
    ASSUME TypeOK, ReportInv, [Next]_vars
    PROVE  ReportInv' /\ (position' # position => position' \in IF playing THEN {shape} ELSE {Live, NoPosition})
<1> USE TypeParts DEF PlaybackTyped, PlaybackTypeOK, ReportInv
<1>1. ASSUME NEW c \in {"main", "cmd"}, StopBegins(c) \/ ReleaseBegins(c)
      PROVE  ReportInv' /\ position' = position
  BY <1>1 DEF StopBegins, ReleaseBegins, Invalidated
<1>2. ASSUME NEW c \in {"main", "cmd"}, StopEnds(c) PROVE ReportInv' /\ position' = position
  BY <1>2, NavigationAssumption DEF StopEnds
<1>3. ASSUME Follow("cmd", cmd.route) PROVE ReportInv' /\ position' = position
  <2>1. PICK p \in Players :
             player' = [player EXCEPT ![p] = [at |-> "loop", report |-> NoRoute, current |-> TRUE]]
    BY <1>3 DEF Follow
  <2>2. /\ lifecycle # Free /\ lifecycle' = Free /\ position' = position
    BY <1>3, NavigationAssumption DEF Follow
  <2>3. \A q \in Players : player'[q].current => player'[q].at = "loop"
    BY <2>1, <2>2
  <2> QED BY <2>2, <2>3
<1>4. CASE LiveDelivers
  BY <1>4 DEF LiveDelivers
<1>5. ASSUME NEW p \in Players, PlayerReads(p) PROVE ReportInv' /\ position' = position
  BY <1>5 DEF PlayerReads, Idle
<1>6. ASSUME NEW p \in Players, PlayerDelivers(p)
      PROVE  ReportInv' /\ (position' # position => position' \in IF playing THEN {shape} ELSE {Live, NoPosition})
  BY <1>6 DEF PlayerDelivers, Accepted
<1>7. CASE UNCHANGED playbackVars
  BY <1>7 DEF playbackVars
<1> QED BY <1>1, <1>2, <1>3, <1>4, <1>5, <1>6, <1>7, StepOfPlayback DEF PlaybackCall, Reports

\* ... and is true at the start.
LEMMA ReportInit == Init => ReportInv
  BY DEF Init, InitPlayback, Idle, ReportInv

\* Reports of the controller's position: the route being played, or the
\* receiver's; never a playback that was stopped.
THEOREM DeliveryTheorem == Spec => DeliveredCurrent
<1>1. TypeOK /\ ReportInv /\ [Next]_vars
      => [position' # position => position' \in IF playing THEN {shape} ELSE {Live, NoPosition}]_playbackVars
  BY ReportKept
<1>2. TypeOK /\ ReportInv /\ [Next]_vars => ReportInv'
  BY ReportKept
<1> QED BY <1>1, <1>2, ReportInit, TypeInvariant, PTL DEF Spec, DeliveredCurrent

\* close() has cleared the session.
Cleared(place) == place \in {"reset", "join", "release", "releasing", "ended"}

\* Nothing plays once the sources are released, nor while a command that has
\* stopped the playback is under way; before close() has cleared the session
\* what plays, or is about to, has one.
RetireInv ==
    /\ cmd.at = "following" => running
    /\ ~running => ~playing
    /\ main.at \in {"releasing", "ended"} => ~running
    /\ cmd.at \in {"install", "measure", "adopt", "clear", "reset"} => ~playing
    /\ ~Cleared(main.at) /\ (playing \/ cmd.at \in {"follow", "following"}) => session # NoSession

\* Steps that leave running, playing and the session alone.
LEMMA RetireUntouched ==
    ASSUME RetireInv, UNCHANGED <<running, playing, session>>,
           \/ main'.at = main.at
           \/ main'.at \notin {"releasing", "ended"} /\ (Cleared(main.at) => Cleared(main'.at)),
           \/ cmd'.at = cmd.at
           \/ cmd'.at \in {"receive", "plan", "stop", "stopping", "look", "calibrate", "calibrating", "failing", "ended"}
           \/ cmd'.at \in {"measure", "adopt", "reset"} /\ cmd.at \in {"install", "measure", "adopt", "clear"}
    PROVE  RetireInv'
  BY DEF RetireInv

\* The main thread's steps keep playback tied to a route in session.
LEMMA RetireMain ==
    ASSUME TypeOK, ReportInv, RetireInv, MainStep \/ TurnRaises \/ CooldownPasses PROVE RetireInv'
<1> USE TypeParts DEF MainTyped
<1> DEFINE InLoop == /\ UNCHANGED <<running, playing, session, cmd>>
                     /\ main'.at \notin {"releasing", "ended"} /\ ~Cleared(main.at)
<1>0. InLoop => RetireInv'
  BY RetireUntouched
<1>1. CASE Turn \/ TurnRaises \/ GuidanceProjects \/ GuidanceAdvances \/ SessionAsked
  <2>1. CASE Turn
    <3>1. main'.at \in {"close", "project"}
      <4>1. [main EXCEPT !.at = "project", !.seen = position].at = "project"
        OBVIOUS
      <4>2. \/ main' = [main EXCEPT !.at = "project", !.seen = position]
            \/ \E sign \in {"on", main.sign} : main' = InRun("close", sign)
        BY <2>1 DEF Turn, Fails, MainTo
      <4>3. \A sign : InRun("close", sign).at = "close"
        BY DEF InRun
      <4> QED BY <4>1, <4>2, <4>3, Zenon
    <3> QED BY <1>0, <2>1, <3>1 DEF Turn, Cleared, playbackVars
  <2>2. CASE TurnRaises \/ SessionAsked
    BY <1>0, <2>2 DEF TurnRaises, SessionAsked, Fails, MainTo, Loops, AfterUpdate, InRun, Cleared, playbackVars
  <2>3. CASE GuidanceProjects
    <3>1. main'.at = "advance"
      BY <2>3 DEF GuidanceProjects
    <3> QED BY <1>0, <2>3, <3>1 DEF GuidanceProjects, Cleared, playbackVars
  <2>4. CASE GuidanceAdvances
    BY <1>0, <2>4 DEF GuidanceAdvances, Fails, InRun, Cleared, playbackVars
  <2> QED BY <1>1, <2>1, <2>2, <2>3, <2>4
<1>2. CASE PolicyWaits \/ PolicyAsks \/ CooldownPasses \/ RerouteFails
  BY <1>2, RetireUntouched DEF PolicyWaits, PolicyAsks, CooldownPasses, RerouteFails, Fails, MainTo, Loops,
     AfterUpdate, InRun, Cleared, playbackVars, mainVars
<1>3. CASE RerouteRequested \/ Reroute \/ RerouteMeasured \/ RerouteEnds
  <2>1. CASE RerouteRequested \/ Reroute
    <3>1. main'.at \in {"close", "plan", "measure"}
      <4>1. /\ [main EXCEPT !.at = "plan", !.to = session.to].at = "plan"
            /\ \A route : [main EXCEPT !.at = "measure", !.route = route, !.to = session.to].at = "measure"
        OBVIOUS
      <4>2. \/ main' = [main EXCEPT !.at = "plan", !.to = session.to]
            \/ \E route : main' = [main EXCEPT !.at = "measure", !.route = route, !.to = session.to]
            \/ main' = InRun("close", "on")
        BY <2>1 DEF RerouteRequested, Reroute, Fails
      <4>3. InRun("close", "on").at = "close"
        BY DEF InRun
      <4> QED BY <4>1, <4>2, <4>3, Zenon
    <3> QED BY <1>0, <2>1, <3>1 DEF RerouteRequested, Reroute, Cleared, playbackVars
  <2>2. CASE RerouteMeasured
    BY <1>0, <2>2 DEF RerouteMeasured, MainHolds, Cleared, playbackVars
  <2>3. CASE RerouteEnds
    BY <1>0, <2>3 DEF RerouteEnds, AfterUpdate, Loops, MainTo, InRun, Cleared, playbackVars
  <2> QED BY <1>3, <2>1, <2>2, <2>3
<1>4. CASE RerouteAdopted
  <2>1. session' # NoSession
    BY <1>4, NavigationAssumption DEF RerouteAdopted, RerouteRecorded, Sessions
  <2> QED BY <1>4, <2>1 DEF RerouteAdopted, MainTo, InRun, Cleared, RetireInv, playbackVars
<1>5. CASE Close \/ CloseResets \/ Joined
  BY <1>5, RetireUntouched DEF Close, CloseResets, Joined, MainTo, InRun, Cleared, playbackVars
<1>6. CASE CloseCancels
  BY <1>6 DEF CloseCancels, MainTo, InRun, Cleared, RetireInv, playbackVars
<1>7. CASE (Arrive \/ CloseStopsPlayback) /\ main.at \in {"arrive", "silence"}
  <2>1. main'.at \in {"arriving", "silencing"} /\ ~Cleared(main.at) /\ StopBegins("main")
    BY <1>7 DEF Arrive, CloseStopsPlayback, MainTo, InRun, Cleared
  <2> QED BY <1>7, <2>1 DEF Arrive, CloseStopsPlayback, StopBegins, Cleared, RetireInv
<1>8. CASE (Arrive \/ CloseStopsPlayback) /\ main.at \in {"arriving", "silencing"}
  BY <1>0, <1>8 DEF Arrive, CloseStopsPlayback, StopEnds, MainTo, Loops, InRun, Cleared
<1>9. CASE Release
  <2>1. CASE main.at = "release"
    <3>1. cmd.at # "following" /\ main'.at = "releasing"
      BY <1>9, <2>1, NavigationAssumption DEF Release, ReleaseBegins, LockHeld, MainTo, InRun
    <3> QED BY <1>9, <2>1, <3>1 DEF Release, ReleaseBegins, Cleared, RetireInv
  <2>2. CASE main.at = "releasing"
    <3>1. main'.at = "ended"
      BY <1>9, <2>2 DEF Release, MainTo, InRun
    <3> QED BY <1>9, <2>2, <3>1 DEF Release, StopEnds, Cleared, RetireInv
  <2> QED BY <1>9, <2>1, <2>2 DEF Release
<1> QED BY <1>1, <1>2, <1>3, <1>4, <1>5, <1>6, <1>7, <1>8, <1>9 DEF MainStep, Arrive, CloseStopsPlayback

\* The command thread's steps keep it too.
LEMMA RetireCommand ==
    ASSUME TypeOK, ReportInv, RetireInv, CommandStep \/ Receive \/ ServerFails PROVE RetireInv'
<1> USE TypeParts DEF CommandTyped
<1>1. CASE Receive
  <2>1. cmd'.at \in {"plan", "stop", "look", "calibrate"}
    BY <1>1 DEF Receive, Receiving, Jobs
  <2> QED BY <1>1, <2>1, RetireUntouched DEF Receive, mainVars, playbackVars
<1>2. CASE ServerFails \/ ServerEnds \/ StartPlans \/ Calibrate
  <2>1. cmd'.at \in {"failing", "ended", "stop", "receive", "calibrating"}
    <3>1. CASE ServerFails \/ ServerEnds \/ Calibrate
      BY <3>1 DEF ServerFails, ServerEnds, Calibrate, CmdTo, Replies, Receiving
    <3>2. CASE StartPlans
      <4>1. \A route : [cmd EXCEPT !.at = "stop", !.route = route].at = "stop"
        OBVIOUS
      <4>2. Receiving.at = "receive"
        BY DEF Receiving
      <4>3. cmd' = Receiving \/ \E route : cmd' = [cmd EXCEPT !.at = "stop", !.route = route]
        BY <3>2 DEF StartPlans, Replies
      <4> QED BY <4>1, <4>2, <4>3, Zenon
    <3> QED BY <1>2, <3>1, <3>2
  <2>2. UNCHANGED <<running, playing, session, main>>
    BY <1>2 DEF ServerFails, ServerEnds, StartPlans, Calibrate, mainVars, playbackVars
  <2> QED BY <2>1, <2>2, RetireUntouched
<1>3. CASE StartInstalls \/ StartMeasures \/ CommandResets
  BY <1>3, RetireUntouched DEF StartInstalls, StartMeasures, CommandResets, CmdTo, Replies, Receiving,
     mainVars, playbackVars
<1>4. CASE StartAdopts \/ CancelClears
  BY <1>4 DEF StartAdopts, CancelClears, CmdTo, RetireInv, mainVars, playbackVars
<1>5. CASE StopPlayback
  <2>1. CASE cmd.at = "stop"
    BY <1>5, <2>1 DEF StopPlayback, StopBegins, CmdTo, RetireInv, mainVars
  <2>2. CASE cmd.at = "stopping"
    <3>1. ~playing /\ cmd'.at \in {"install", "clear", "receive"}
      BY <1>5, <2>2, NavigationAssumption DEF StopPlayback, StopEnds, ReportInv, CmdTo, Replies, Receiving
    <3> QED BY <1>5, <2>2, <3>1 DEF StopPlayback, StopEnds, RetireInv, mainVars
  <2> QED BY <1>5, <2>1, <2>2 DEF StopPlayback
<1>6. CASE SimulateLooks
  <2>1. CASE session = NoSession
    BY <1>6, <2>1, RetireUntouched DEF SimulateLooks, Replies, Receiving, mainVars, playbackVars
  <2>2. CASE session # NoSession
    BY <1>6, <2>2 DEF SimulateLooks, RetireInv, mainVars, playbackVars
  <2> QED BY <2>1, <2>2
<1>7. CASE Simulate
  <2>1. CASE cmd.at = "follow" /\ Replies
    <3>1. UNCHANGED playbackVars /\ cmd'.at = "receive"
      BY <1>7, <2>1 DEF Simulate, FollowRefused, CmdTo, Replies, Receiving
    <3> QED BY <1>7, <3>1, RetireUntouched DEF Simulate, mainVars, playbackVars
  <2>2. CASE cmd.at = "follow" /\ CmdTo("following") /\ FollowBegins("cmd")
    BY <1>7, <2>2 DEF Simulate, FollowBegins, StopBegins, CmdTo, RetireInv, mainVars
  <2>3. CASE cmd.at = "following"
    <3>1. cmd'.at = "receive" /\ UNCHANGED running /\ running
      <4>1. Replies /\ (Follow("cmd", cmd.route) \/ StopEnds("cmd"))
        BY <1>7, <2>3 DEF Simulate, FollowFails
      <4>2. UNCHANGED running
        BY <4>1 DEF Follow, StopEnds
      <4> QED BY <2>3, <4>1, <4>2 DEF Replies, Receiving, RetireInv
    <3>2. main.at \notin {"releasing", "ended"}
      BY <3>1 DEF RetireInv
    <3> QED BY <1>7, <2>3, <3>1, <3>2 DEF Simulate, RetireInv, mainVars
  <2> QED BY <1>7, <2>1, <2>2, <2>3 DEF Simulate
<1> QED BY <1>1, <1>2, <1>3, <1>4, <1>5, <1>6, <1>7 DEF CommandStep

\* So every step does.
LEMMA RetireKept ==
    ASSUME TypeOK, ReportInv, RetireInv, [Next]_vars PROVE RetireInv'
<1>1. CASE UNCHANGED vars
  BY <1>1 DEF vars, runtimeVars, playbackVars, mainVars, RetireInv
<1>2. CASE PlaybackReports
  BY <1>2, RetireUntouched DEF PlaybackReports, Reports, LiveDelivers, PlayerReads, PlayerDelivers, mainVars
<1> QED BY <1>1, <1>2, RetireMain, RetireCommand DEF Next, Step

\* Playback has a route in session between the turns, and none survives run().
THEOREM RetireTheorem == Spec => []PlaybackRetired
<1>1. Init => RetireInv
  BY DEF Init, InitPlayback, InRun, Receiving, RetireInv, Cleared
<1>2. RetireInv => PlaybackRetired
  BY DEF RetireInv, PlaybackRetired, Cleared
<1>3. TypeOK /\ ReportInv /\ [Next]_vars => ReportInv'
  BY ReportKept
<1>4. TypeOK /\ ReportInv /\ RetireInv /\ [Next]_vars => RetireInv'
  BY RetireKept
<1> QED BY <1>1, <1>2, <1>3, <1>4, ReportInit, TypeInvariant, PTL DEF Spec

-----------------------------------------------------------------------------
(* One route.                                                              *)

\* Guidance and session agree, but for an installation under way.
Agree ==
    /\ measured = guiding /\ progress = guiding
    /\ session # NoSession => session.route = guiding /\ session.route.to = session.to

OneInv ==
    ~overlapped =>
        /\ ~(InTurn /\ Changing)
        /\ failure \notin {"torn", "cancelled", "estimator"}
        /\ main.at # "ended" /\ cmd.at # "calibrating" => estimator
        /\ main.at \notin {"measure", "adopt"} /\ cmd.at \notin {"measure", "adopt"} => Agree
        /\ main.at = "advance" => main.route = guiding
        /\ main.at \in {"policy", "request"} => session # NoSession
        /\ main.at = "plan" => session # NoSession /\ main.to = session.to
        /\ main.at \in {"measure", "adopt"} => main.route.to = main.to /\ guiding = main.route
        /\ main.at = "adopt" => measured = guiding /\ progress = guiding
        /\ cmd.at \in {"measure", "adopt"} => guiding = cmd.route
        /\ cmd.at = "adopt" => measured = guiding /\ progress = guiding

Recorded == overlapped' = (overlapped \/ (InTurn' /\ Changing'))

\* Steps of the main thread up to the one that asks for a route.
LEMMA OneUpdate ==
    ASSUME TypeOK, OneInv, Recorded,
           \/ Turn \/ TurnRaises \/ GuidanceProjects \/ GuidanceAdvances \/ SessionAsked
           \/ PolicyWaits \/ PolicyAsks \/ RerouteRequested \/ RerouteFails
    PROVE  OneInv'
<1> SUFFICES ASSUME ~overlapped' PROVE OneInv'
  BY DEF OneInv
<1> USE TypeParts DEF MainTyped, OneInv, Agree, guidanceVars
<1>0. ~overlapped /\ ~(InTurn' /\ Changing')
  BY DEF Recorded
<1>1. CASE Turn
  <2>1. estimator
    <3>1. CASE ~estimator
      <4>1. cmd.at = "calibrating" /\ cmd' = cmd /\ main'.at = "close"
        BY <1>0, <1>1, <3>1 DEF Turn, Fails, MainTo, InRun
      <4> QED BY <1>0, <4>1 DEF InTurn, Changing
    <3> QED BY <3>1
  <2>2. CASE main' = [main EXCEPT !.at = "project", !.seen = position]
    <3>1. main'.at = "project" /\ UNCHANGED <<failure, session, guidanceVars, estimator, cmd>>
      <4>1. [main EXCEPT !.at = "project", !.seen = position].at = "project"
        OBVIOUS
      <4>2. main'.at = "project"
        BY <2>2, <4>1, Zenon
      <4> QED BY <1>1, <2>1, <2>2, <4>2 DEF Turn, Fails, MainTo, InRun
    <3>2. main.at = "loop" /\ estimator
      BY <1>1, <2>1 DEF Turn
    <3> QED BY <1>0, <3>1, <3>2
  <2>3. CASE Fails("server") \/ MainTo("close")
    BY <1>0, <1>1, <2>3 DEF Turn, Fails, MainTo, InRun
  <2> QED BY <1>1, <2>1, <2>2, <2>3 DEF Turn
<1>2. CASE TurnRaises
  BY <1>0, <1>2 DEF TurnRaises, Fails, InRun
<1>3. CASE GuidanceProjects
  <2>1. main'.at = "advance" /\ main'.route = guiding
    <3>1. [main EXCEPT !.at = "advance", !.route = guiding].at = "advance"
          /\ [main EXCEPT !.at = "advance", !.route = guiding].route = guiding
      OBVIOUS
    <3>2. main' = [main EXCEPT !.at = "advance", !.route = guiding]
      BY <1>3 DEF GuidanceProjects
    <3> QED BY <3>1, <3>2, Zenon
  <2> QED BY <1>0, <1>3, <2>1 DEF GuidanceProjects
<1>4. CASE GuidanceAdvances
  <2>1. InTurn /\ ~Changing
    BY <1>0, <1>4 DEF GuidanceAdvances, InTurn
  <2>2. main.route = guiding /\ Agree
    BY <1>0, <1>4, <2>1 DEF GuidanceAdvances, Changing
  <2>3. main'.at \in {"session", "close"} /\ progress' = main.route /\ failure' \in {failure, "raised"}
    BY <1>4, <2>2 DEF GuidanceAdvances, Fails, InRun
  <2> QED BY <1>0, <1>4, <2>2, <2>3 DEF GuidanceAdvances
<1>5. CASE SessionAsked
  BY <1>0, <1>5 DEF SessionAsked, AfterUpdate, MainTo, Loops, InRun
<1>6. CASE PolicyWaits \/ PolicyAsks
  BY <1>0, <1>6 DEF PolicyWaits, PolicyAsks, AfterUpdate, MainTo, Loops, InRun
<1>7. CASE RerouteRequested
  <2>1. session # NoSession
    BY <1>0, <1>7 DEF RerouteRequested
  <2>2. main'.at = "plan" /\ main'.to = session.to
    <3>1. [main EXCEPT !.at = "plan", !.to = session.to].at = "plan"
          /\ [main EXCEPT !.at = "plan", !.to = session.to].to = session.to
      OBVIOUS
    <3>2. main' = [main EXCEPT !.at = "plan", !.to = session.to]
      BY <1>7, <2>1 DEF RerouteRequested
    <3> QED BY <3>1, <3>2, Zenon
  <2> QED BY <1>0, <1>7, <2>1, <2>2 DEF RerouteRequested
<1>8. CASE RerouteFails
  BY <1>0, <1>8 DEF RerouteFails, Fails, InRun
<1> QED BY <1>1, <1>2, <1>3, <1>4, <1>5, <1>6, <1>7, <1>8

\* The installation of a reroute, arrival and close().
LEMMA OneReroute ==
    ASSUME TypeOK, OneInv, Recorded,
           \/ Reroute \/ RerouteMeasured \/ RerouteAdopted \/ RerouteEnds \/ Arrive \/ Close
           \/ CloseStopsPlayback \/ CloseCancels \/ CloseResets \/ Joined \/ Release
    PROVE  OneInv'
<1> SUFFICES ASSUME ~overlapped' PROVE OneInv'
  BY DEF OneInv
<1> USE TypeParts DEF MainTyped, OneInv, Agree
<1>0. ~overlapped /\ ~(InTurn' /\ Changing')
  BY DEF Recorded
<1>1. InTurn /\ ~Changing /\ UNCHANGED cmd
  BY <1>0 DEF Reroute, RerouteMeasured, RerouteAdopted, RerouteEnds, Arrive, Close, CloseStopsPlayback,
     CloseCancels, CloseResets, Joined, Release, InTurn
<1>2. cmd.at \notin {"measure", "adopt", "calibrating"}
  BY <1>1 DEF Changing
<1>3. CASE Reroute
  <2>1. session # NoSession /\ main.to = session.to
    BY <1>0, <1>3 DEF Reroute
  <2> DEFINE route == NewRoute(main.to)
  <2>2. /\ guiding' = route /\ UNCHANGED <<failure, session, estimator>>
        /\ main' = [main EXCEPT !.at = "measure", !.route = route, !.to = session.to]
    BY <1>3, <2>1 DEF Reroute, Installs
  <2>3. route.to = main.to
    BY DEF NewRoute
  <2>4. main'.at = "measure" /\ main'.route = route /\ main'.to = session.to
    <3>1. \A r : LET held == [main EXCEPT !.at = "measure", !.route = r, !.to = session.to]
                 IN held.at = "measure" /\ held.route = r /\ held.to = session.to
      OBVIOUS
    <3> QED BY <2>2, <3>1, Zenon
  <2> HIDE DEF route
  <2> QED BY <1>0, <1>1, <1>2, <1>3, <2>1, <2>2, <2>3, <2>4 DEF Reroute
<1>4. CASE RerouteMeasured
  <2>1. main' = [main EXCEPT !.at = "adopt"] /\ UNCHANGED <<failure, guiding, session, estimator>>
        /\ measured' = main.route /\ progress' = main.route /\ main.at = "measure"
    BY <1>4 DEF RerouteMeasured, MainHolds, Measures
  <2> QED BY <1>0, <1>1, <1>2, <2>1
<1>5. CASE RerouteAdopted
  <2>1. session' = [to |-> main.to, route |-> main.route] /\ main'.at = "completed" /\ main.at = "adopt"
        /\ UNCHANGED <<failure, guidanceVars, estimator>>
    BY <1>5 DEF RerouteAdopted, RerouteRecorded, MainTo, InRun
  <2> QED BY <1>0, <1>1, <1>2, <2>1 DEF guidanceVars
<1>6. CASE RerouteEnds \/ Arrive \/ Close \/ CloseStopsPlayback \/ CloseResets \/ Joined \/ Release
  <2>1. UNCHANGED <<session, guidanceVars, failure>>
    BY <1>6 DEF RerouteEnds, Arrive, Close, CloseStopsPlayback, CloseResets, Joined, Release, MainTo, Loops,
       AfterUpdate
  <2>2. /\ main'.at \notin {"measure", "adopt", "advance", "policy", "request", "plan"}
        /\ main.at \notin {"measure", "adopt"}
        /\ main'.at = "ended" \/ UNCHANGED estimator
    BY <1>6 DEF RerouteEnds, Arrive, Close, CloseStopsPlayback, CloseResets, Joined, Release, MainTo, Loops,
       AfterUpdate, InRun
  <2>3. main.at # "ended"
    BY <1>1 DEF InTurn
  <2> QED BY <1>0, <1>1, <1>2, <2>1, <2>2, <2>3 DEF guidanceVars
<1>7. CASE CloseCancels
  <2>1. session' = NoSession /\ main'.at = "reset" /\ main.at = "clear"
        /\ UNCHANGED <<failure, guidanceVars, estimator>>
    BY <1>7 DEF CloseCancels, MainTo, InRun
  <2> QED BY <1>0, <1>1, <1>2, <2>1 DEF guidanceVars
<1> QED BY <1>3, <1>4, <1>5, <1>6, <1>7

\* Commands.
LEMMA OneCommand ==
    ASSUME TypeOK, OneInv, Recorded, CommandStep \/ Receive \/ ServerFails PROVE OneInv'
<1> SUFFICES ASSUME ~overlapped' PROVE OneInv'
  BY DEF OneInv
<1> USE TypeParts DEF CommandTyped, OneInv, Agree
<1>0. ~overlapped /\ ~(InTurn' /\ Changing')
  BY DEF Recorded
<1>1. UNCHANGED <<main, failure>>
  BY DEF CommandStep, Receive, ServerFails, ServerEnds, StartPlans, StopPlayback, StartInstalls,
     StartMeasures, StartAdopts, CancelClears, CommandResets, SimulateLooks, Simulate, Calibrate, mainVars
<1> DEFINE Elsewhere == cmd'.at \notin {"measure", "adopt", "calibrating"}
           Aside == cmd.at \notin {"measure", "adopt", "calibrating"}
<1>2. ASSUME Elsewhere, Aside, UNCHANGED <<session, guiding, measured, progress, estimator>> PROVE OneInv'
  BY <1>0, <1>1, <1>2
<1>3. CASE Receive
  <2>1. cmd'.at \in {"plan", "stop", "look", "calibrate"}
    BY <1>3 DEF Receive, Receiving, Jobs
  <2> QED BY <1>2, <1>3, <2>1 DEF Receive, guidanceVars
<1>4. CASE ServerFails \/ ServerEnds
  BY <1>2, <1>4 DEF ServerFails, ServerEnds, CmdTo, guidanceVars
<1>5. CASE StartPlans
  <2>1. Elsewhere
    <3>1. \A route : [cmd EXCEPT !.at = "stop", !.route = route].at = "stop"
      OBVIOUS
    <3>2. Receiving.at = "receive"
      BY DEF Receiving
    <3>3. cmd' = Receiving \/ \E route : cmd' = [cmd EXCEPT !.at = "stop", !.route = route]
      BY <1>5 DEF StartPlans, Replies
    <3>4. cmd'.at = "stop" \/ cmd'.at = "receive"
      BY <3>1, <3>2, <3>3, Zenon
    <3> QED BY <3>4
  <2> QED BY <1>2, <1>5, <2>1 DEF StartPlans, guidanceVars
<1>6. CASE StopPlayback \/ Simulate
  BY <1>2, <1>6 DEF StopPlayback, Simulate, CmdTo, Replies, Receiving, guidanceVars
<1>7. CASE SimulateLooks
  <2>1. CASE session = NoSession
    BY <1>2, <1>7, <2>1 DEF SimulateLooks, Replies, Receiving, guidanceVars
  <2>2. CASE session # NoSession
    BY <1>2, <1>7, <2>2 DEF SimulateLooks, guidanceVars
  <2> QED BY <2>1, <2>2
<1>8. CASE StartInstalls \/ StartMeasures \/ StartAdopts \/ CancelClears \/ CommandResets \/ Calibrate
  <2>1. Changing /\ ~InTurn
    BY <1>0, <1>8 DEF StartInstalls, StartMeasures, StartAdopts, CancelClears, CommandResets, Calibrate,
       Changing
  <2>2. main.at \in {"loop", "ended"}
    BY <2>1 DEF InTurn
  <2>3. ~InTurn'
    BY <1>1, <2>1 DEF InTurn
  <2>4. CASE StartInstalls
    BY <1>0, <1>1, <2>2, <2>3, <2>4 DEF StartInstalls, Installs, CmdTo
  <2>5. CASE StartMeasures
    BY <1>0, <1>1, <2>2, <2>3, <2>5 DEF StartMeasures, Measures, CmdTo
  <2>6. CASE StartAdopts
    BY <1>0, <1>1, <2>2, <2>3, <2>6 DEF StartAdopts, CmdTo, guidanceVars
  <2>7. CASE CancelClears
    BY <1>0, <1>1, <2>2, <2>3, <2>7 DEF CancelClears, CmdTo, guidanceVars
  <2>8. CASE CommandResets
    BY <1>2, <2>8 DEF CommandResets, Replies, Receiving, guidanceVars
  <2>9. CASE Calibrate
    BY <1>0, <1>1, <2>2, <2>3, <2>9 DEF Calibrate, CmdTo, Replies, Receiving, guidanceVars
  <2> QED BY <1>8, <2>4, <2>5, <2>6, <2>7, <2>8, <2>9
<1> QED BY <1>3, <1>4, <1>5, <1>6, <1>7, <1>8 DEF CommandStep

\* Every step keeps guidance, measurement and session on one route.
LEMMA OneKept == TypeOK /\ OneInv /\ [Next]_vars => OneInv'
<1> SUFFICES ASSUME TypeOK, OneInv, [Next]_vars PROVE OneInv'
  OBVIOUS
<1>1. CASE UNCHANGED vars
  BY <1>1 DEF vars, runtimeVars, guidanceVars, mainVars, OneInv, Agree, InTurn, Changing
<1>2. CASE Next /\ (PlaybackReports \/ CooldownPasses)
  <2>1. UNCHANGED <<main, cmd, failure, session, guiding, measured, progress, estimator>>
    BY <1>2 DEF PlaybackReports, CooldownPasses, guidanceVars, mainVars
  <2>2. ~overlapped' => ~overlapped
    BY <1>2 DEF Next
  <2> QED BY <2>1, <2>2 DEF OneInv, Agree, InTurn, Changing
<1>3. CASE Next /\ ~(PlaybackReports \/ CooldownPasses)
  BY <1>3, OneUpdate, OneReroute, OneCommand DEF Next, Step, MainStep, Recorded
<1> QED BY <1>1, <1>2, <1>3

\* Commands that keep out of the turns of run() leave guidance, its distances
\* and the session on one route to the session's destination, and end nothing.
THEOREM OneRouteTheorem == Spec => []OneRoute
<1>1. Init => OneInv
  BY DEF Init, InitPlayback, InRun, Receiving, OneInv, Agree, InTurn, Changing
<1>2. OneInv => OneRoute
  BY DEF OneInv, OneRoute, Agree, InTurn, Changing
<1> QED BY <1>1, <1>2, OneKept, TypeInvariant, PTL DEF Spec
=============================================================================
