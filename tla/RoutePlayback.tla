--------------------------- MODULE RoutePlayback ---------------------------
(***************************************************************************)
(* RoutePlaybackPositionSource with its SimulatedPositionSource: a live    *)
(* receiver keeps running while the playback of a route takes its place.   *)
(* Two threads start and stop playbacks under the lifecycle lock; reports  *)
(* come from the receiver's thread and from playback threads, of which an  *)
(* old one may outlive the join that gave it up.                           *)
(***************************************************************************)
EXTENDS Naturals

CONSTANTS
    Players,        \* bound: playback threads alive at a time
    NoRoute, Live, NoPosition, Free     \* NoPosition: no report yet, or one without a fix

VARIABLES
    running,        \* _callback is not None
    playing,        \* _playing
    lifecycle,      \* holder of _lifecycle_lock
    shape,          \* _route_shape of the simulator
    stopPlayers,    \* _stop_event of the simulator, shared by its threads
    player,         \* per thread: where it is, its report, and whether its
                    \* _playback_generation is still the source's
    position        \* the report the controller has accepted last: the
                    \* receiver's, with a fix or (NoPosition) without, or a route's

playbackVars == <<running, playing, lifecycle, shape, stopPlayers, player, position>>

Idle == [at |-> "none", report |-> NoRoute, current |-> FALSE]

InitPlayback ==
    /\ running = TRUE /\ playing = FALSE /\ lifecycle = Free
    /\ shape = NoRoute /\ stopPlayers = FALSE
    /\ player = [p \in Players |-> Idle] /\ position = NoPosition

-----------------------------------------------------------------------------
(* Calls of thread c.  Each begins with the steps of stop_route: playback  *)
(* is invalidated and its thread told to stop, then joined with a timeout. *)

Invalidated == [p \in Players |-> [player[p] EXCEPT !.current = FALSE]]

\* Mutant: the simulator is stopped, the playback still counts as on.
StopBeginsPlaying(c) ==
    /\ lifecycle = Free /\ lifecycle' = c
    /\ player' = Invalidated /\ stopPlayers' = TRUE
    /\ UNCHANGED <<running, playing, shape, position>>

StopBegins(c) ==
    /\ lifecycle = Free /\ lifecycle' = c
    /\ playing' = FALSE /\ player' = Invalidated /\ stopPlayers' = TRUE
    /\ UNCHANGED <<running, shape, position>>

StopEnds(c) ==
    /\ lifecycle = c /\ lifecycle' = Free
    /\ shape' = NoRoute
    /\ UNCHANGED <<running, playing, stopPlayers, player, position>>

\* follow_route of a source that is not running raises at once.
FollowRefused == ~running /\ lifecycle = Free /\ UNCHANGED playbackVars

FollowBegins(c) == running /\ StopBegins(c)

\* Mutant: a route that cannot be played leaves the lock taken.
FollowFailsLocked(c) == lifecycle = c /\ shape' = NoRoute
                        /\ UNCHANGED <<running, playing, lifecycle, stopPlayers, player, position>>
FollowFails(c) == StopEnds(c)

Follow(c, route) ==
    /\ lifecycle = c /\ lifecycle' = Free
    /\ shape' = route /\ playing' = TRUE /\ stopPlayers' = FALSE
    /\ \E p \in Players :
          /\ player[p].at = "none"
          /\ player' = [player EXCEPT ![p] = [at |-> "loop", report |-> NoRoute, current |-> TRUE]]
    /\ UNCHANGED <<running, position>>

\* stop: no report is accepted from the moment the lock is taken.
ReleaseBegins(c) ==
    /\ lifecycle = Free /\ lifecycle' = c
    /\ running' = FALSE
    /\ playing' = FALSE /\ player' = Invalidated /\ stopPlayers' = TRUE
    /\ UNCHANGED <<shape, position>>

-----------------------------------------------------------------------------
(* Reports.                                                                *)

PlayerReads(p) ==
    /\ player[p].at = "loop"
    /\ player' = [player EXCEPT ![p] = IF stopPlayers THEN Idle
                                       ELSE [@ EXCEPT !.at = "deliver", !.report = shape]]
    /\ UNCHANGED <<running, playing, lifecycle, shape, stopPlayers, position>>

\* Mutant: any playback is as good as the current one.
AcceptedAny(p) == running /\ playing
Accepted(p) == running /\ playing /\ player[p].current

PlayerDelivers(p) ==
    /\ player[p].at = "deliver"
    /\ position' = IF Accepted(p) THEN player[p].report ELSE position
    /\ player' = [player EXCEPT ![p].at = "loop", ![p].report = NoRoute]
    /\ UNCHANGED <<running, playing, lifecycle, shape, stopPlayers>>

\* The receiver may lose its fix and find it again at any time.
LiveDelivers ==
    /\ running /\ ~playing /\ position' \in {Live, NoPosition}
    /\ UNCHANGED <<running, playing, lifecycle, shape, stopPlayers, player>>

Reports == LiveDelivers \/ \E p \in Players : PlayerReads(p) \/ PlayerDelivers(p)

PlaybackTypeOK(shapes) ==
    /\ running \in BOOLEAN /\ playing \in BOOLEAN /\ stopPlayers \in BOOLEAN
    /\ shape \in shapes /\ position \in shapes \cup {Live, NoPosition}
    /\ player \in [Players -> [at : {"none", "loop", "deliver"}, report : shapes, current : BOOLEAN]]

\* A report the controller accepts is the receiver's while nothing is played
\* and otherwise shows the route being played: never a route whose playback
\* has been stopped, and never the simulator's own free-running profile.
DeliveredCurrent ==
    [][position' # position =>
          position' \in IF playing THEN {shape} ELSE {Live, NoPosition}]_playbackVars
=============================================================================
