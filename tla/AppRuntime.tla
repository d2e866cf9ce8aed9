----------------------------- MODULE AppRuntime -----------------------------
(***************************************************************************)
(* AppRuntimeManager (controllers/application_runtime): the lifecycle      *)
(* policy for external applications.  Public calls arrive on several       *)
(* threads (UI thread, work executors, the preload worker); each           *)
(* application has a reentrant lifecycle lock.  A thread is a stack of     *)
(* frames, one per method in progress, and every step of a method that     *)
(* another thread can interleave with is one action.                       *)
(*                                                                         *)
(* The launchers behind ui/system/app_launcher_if.py are external: they    *)
(* are modelled by what a call may do to the process and its window.       *)
(***************************************************************************)
EXTENDS Naturals, Sequences

CONSTANTS
    Apps,           \* application keys of applications.toml
    Callers,        \* threads that call the public methods
    Preloader,      \* the openroadcode-app-preload thread
    NoThread,       \* owner of a free lifecycle lock
    Hideable,       \* launchers that are HideableAppLauncherIf
    Windowed,       \*   ... WindowedAppLauncherIf
    Preloadable,    \*   ... PreloadableAppLauncherIf
    Dashboard,      \*   ... BrowserDashboardLauncherIf
    Startup,        \* StartupPolicy of each application
    Group,          \* exclusive_group of each application
    NoGroup,        \* the group of an application that has none
    Restartable,    \* applications some caller restarts
    Faulty          \* applications whose launcher may raise or refuse

Threads == Callers \cup {Preloader}
Policies == {"lazy", "preload", "persistent"}

ASSUME ThreadsAssumption == Preloader \notin Callers /\ NoThread \notin Threads
ASSUME LauncherAssumption ==
    /\ Apps # {}
    /\ Hideable \subseteq Apps /\ Windowed \subseteq Hideable
    /\ Preloadable \subseteq Apps /\ Dashboard \subseteq Apps
    /\ Restartable \subseteq Apps /\ Faulty \subseteq Apps
ASSUME PolicyAssumption == Startup \in [Apps -> Policies]

VARIABLES
    registered,     \* _apps
    visible,        \* _visible
    owner,          \* holder of each RLock of _lifecycle_locks
    stack,          \* methods in progress on each thread, innermost last
    closed,         \* the runtime that owns the manager has been closed
    running,        \* external: applications whose process is alive
    onScreen,       \* external: applications whose window is mapped
    astray          \* history: applications a failing launcher call, or the loss of
                    \* one half of a dashboard, has left where no method put them

vars == <<registered, visible, owner, stack, closed, running, onScreen, astray>>
launcherVars == <<running, onScreen, astray>>

AppOps == {"show", "stop", "restart", "hide", "close", "prewarm"}
PassOps == {"stopAll", "preload"}
LauncherSteps == {"present", "launch", "stop", "hide", "closeBrowser", "prepare"}
LockedSteps == LauncherSteps \cup {"mark", "unmark", "show", "return"}
Steps == LockedSteps \cup {"peers", "next", "enter", "discard", "raise"}

\* "locked" is set while the frame is the outermost holder of its RLock: a
\* nested acquisition by the same thread does not release on return.
Frame == [op : AppOps \cup PassOps, app : Apps, at : Steps,
          todo : SUBSET Apps, locked : BOOLEAN]

Top(t) == stack[t][Len(stack[t])]
App(t) == Top(t).app
At(t, step) == stack[t] # <<>> /\ Top(t).at = step
Replace(s, f) == [s EXCEPT ![Len(s)] = f]
WithTop(t, f) == [stack EXCEPT ![t] = Replace(stack[t], f)]
Push(t, f, callee) == [stack EXCEPT ![t] = Append(Replace(stack[t], f), callee)]
Pop(t) == SubSeq(stack[t], 1, Len(stack[t]) - 1)
Goto(t, step) == stack' = WithTop(t, [Top(t) EXCEPT !.at = step])

\* Mutant: warm applications are not asked to make room.
PeersLazyOnly(a) == {b \in registered \ {a} : Group[a] # NoGroup /\ Group[b] = Group[a] /\ Startup[b] = "lazy"}

Peers(a) == {b \in registered \ {a} : Group[a] # NoGroup /\ Group[b] = Group[a]}

\* Mutant: stop without its lifecycle lock.
CallStopUnlocked(op, a) ==
    [op |-> op, app |-> a,
     at |-> CASE op = "show" -> "peers" [] op = "stop" -> "stop" [] OTHER -> "enter",
     todo |-> IF op = "show" THEN Peers(a) ELSE {}, locked |-> FALSE]

\* The frame a call pushes: show closes its peers before taking the lock.
Call(op, a) ==
    [op |-> op, app |-> a, at |-> IF op = "show" THEN "peers" ELSE "enter",
     todo |-> IF op = "show" THEN Peers(a) ELSE {}, locked |-> FALSE]

\* Mutant: stop_all goes through the visible applications only.
PassVisible(op) == [op |-> op, app |-> CHOOSE a \in Apps : TRUE, at |-> "next",
                    todo |-> IF op = "stopAll" THEN visible ELSE registered, locked |-> FALSE]

\* A loop over a snapshot of _apps; its app is set by each iteration.
Pass(op) == [op |-> op, app |-> CHOOSE a \in Apps : TRUE, at |-> "next",
             todo |-> registered, locked |-> FALSE]

Init ==
    /\ registered = {} /\ visible = {} /\ closed = FALSE
    /\ owner = [a \in Apps |-> NoThread]
    /\ stack = [t \in Threads |-> <<>>]
    /\ running \in SUBSET Apps      \* survivors of a previous run are found by pattern
    /\ onScreen \in SUBSET (running \cup Dashboard)
    /\ running \ (Hideable \cup Dashboard) \subseteq onScreen
    /\ astray = onScreen \ running

-----------------------------------------------------------------------------
(* Public methods.                                                         *)

\* The composition registers every launcher before it shows any.
Register(a) ==
    /\ ~closed /\ a \notin registered /\ visible = {} /\ \A t \in Threads : stack[t] = <<>>
    /\ registered' = registered \cup {a}
    /\ UNCHANGED <<visible, owner, stack, closed, launcherVars>>

\* Mutant: applications of one group are restarted independently.
RequestAnyRestart(t, op, a) ==
    /\ ~closed /\ stack[t] = <<>> /\ a \in registered
    /\ stack' = [stack EXCEPT ![t] = <<Call(op, a)>>]
    /\ UNCHANGED <<registered, visible, owner, closed, launcherVars>>

Request(t, op, a) ==
    /\ ~closed /\ stack[t] = <<>> /\ a \in registered
    /\ op = "restart" => a \in Restartable
    /\ stack' = [stack EXCEPT ![t] = <<Call(op, a)>>]
    /\ UNCHANGED <<registered, visible, owner, closed, launcherVars>>

\* start_background_apps: one preload thread at a time.
StartBackgroundApps ==
    /\ ~closed /\ stack[Preloader] = <<>>
    /\ stack' = [stack EXCEPT ![Preloader] = <<Pass("preload")>>]
    /\ UNCHANGED <<registered, visible, owner, closed, launcherVars>>

\* stop_all, called when the owning runtime closes.
StopAll(t) ==
    /\ ~closed /\ stack[t] = <<>>
    /\ stack' = [stack EXCEPT ![t] = <<Pass("stopAll")>>]
    /\ closed' = TRUE
    /\ UNCHANGED <<registered, visible, owner, launcherVars>>

-----------------------------------------------------------------------------
(* _close_exclusive_peers: is_running is read without the peer's lock.     *)

ClosePeer(t) ==
    /\ At(t, "peers")
    /\ \E p \in Top(t).todo :
        LET rest == [Top(t) EXCEPT !.todo = @ \ {p}]
        IN stack' = IF p \in running
                    THEN Push(t, rest, Call("close", p))
                    ELSE WithTop(t, rest)
    /\ UNCHANGED <<registered, visible, owner, closed, launcherVars>>

PeersClosed(t) ==
    /\ At(t, "peers") /\ Top(t).todo = {}
    /\ Goto(t, "enter")
    /\ UNCHANGED <<registered, visible, owner, closed, launcherVars>>

\* Mutant: the persistent policy does not protect the process.
CloseStepStopsPersistent(a) ==
    IF Startup[a] = "preload" /\ a \in Hideable THEN "hide"
    ELSE IF Startup[a] = "preload" /\ a \in Dashboard THEN "closeBrowser" ELSE "stop"

(* The first step of each method once its lifecycle lock is held.          *)
CloseStep(a) ==
    IF Startup[a] = "lazy" THEN "stop"
    ELSE IF a \in Hideable THEN "hide"
    ELSE IF a \in Dashboard THEN "closeBrowser"
    ELSE IF Startup[a] = "persistent" THEN "unmark" ELSE "stop"

FirstStep(f) ==
    CASE f.op = "show"    -> "present"
      [] f.op = "restart" -> IF f.app \in running THEN "stop" ELSE "unmark"
      [] f.op = "hide"    -> IF f.app \in Hideable THEN "hide" ELSE "return"
      [] f.op = "close"   -> CloseStep(f.app)
      [] f.op = "prewarm" -> IF f.app \in Preloadable THEN "prepare" ELSE "launch"
      [] OTHER            -> "stop"

Enter(t) ==
    /\ At(t, "enter")
    /\ owner[App(t)] \in {NoThread, t}
    /\ owner' = [owner EXCEPT ![App(t)] = t]
    /\ stack' = WithTop(t, [Top(t) EXCEPT !.at = FirstStep(Top(t)),
                                          !.locked = (owner[App(t)] = NoThread)])
    /\ UNCHANGED <<registered, visible, closed, launcherVars>>

\* Mutant: only an outermost call gives its lock back.
ReleaseOutermost(t) ==
    owner' = IF Top(t).locked /\ Len(stack[t]) = 1 THEN [owner EXCEPT ![App(t)] = NoThread] ELSE owner

Release(t) == owner' = IF Top(t).locked THEN [owner EXCEPT ![App(t)] = NoThread] ELSE owner

-----------------------------------------------------------------------------
(* Launcher calls.  A Faulty launcher may raise instead, whether or not    *)
(* the call took effect, its show and hide may return False, and its stop  *)
(* may return while a process is_running matches is still alive.  The      *)
(* process of a Dashboard is its server, the window its browser: a call    *)
(* that raises may have moved one of them and not the other.               *)

Raises(t) == App(t) \in Faulty /\ Goto(t, "raise")

Opens(a) == running' = running \cup {a} /\ onScreen' = onScreen \cup {a} /\ astray' = astray \ {a}
Quits(a) == running' = running \ {a} /\ onScreen' = onScreen \ {a} /\ astray' = astray \ {a}
Covers(a) == onScreen' = onScreen \ {a} /\ astray' = astray \ {a} /\ UNCHANGED running

\* What a call that fails has done to a window it was to take off the screen.
Misses(a) ==
    /\ onScreen' = onScreen \/ (a \in Dashboard /\ onScreen' = onScreen \ {a})
    /\ astray' = astray \cup {a} /\ UNCHANGED running

\* A start that fails half way: what the preload worker began stays where it
\* is, and of a dashboard perhaps the server alone.
HalfOpens(t) ==
    /\ Raises(t) /\ running' = running \cup {App(t)}
    /\ \/ /\ onScreen' = onScreen \cup {App(t)}
          /\ astray' = IF Top(t).op = "prewarm" THEN astray \cup {App(t)} ELSE astray
       \/ /\ App(t) \in Dashboard
          /\ onScreen' = onScreen \ {App(t)} /\ astray' = astray \cup {App(t)}

Present(t) ==
    /\ At(t, "present")
    /\ IF App(t) \in running \cap Windowed
       THEN \/ Goto(t, "mark") /\ Opens(App(t))
            \/ App(t) \in Faulty /\ Goto(t, "launch") /\ UNCHANGED launcherVars
            \/ Raises(t) /\ UNCHANGED launcherVars
       ELSE Goto(t, "launch") /\ UNCHANGED launcherVars
    /\ UNCHANGED <<registered, visible, owner, closed>>

AfterLaunch(f) ==
    IF f.op = "show" THEN "mark" ELSE IF f.app \in Windowed THEN "hide" ELSE "return"

Launch(t) ==
    /\ At(t, "launch")
    /\ \/ Goto(t, AfterLaunch(Top(t))) /\ Opens(App(t))
       \/ HalfOpens(t)
       \/ Raises(t) /\ UNCHANGED launcherVars
    /\ UNCHANGED <<registered, visible, owner, closed>>

AfterStop(f) ==
    CASE f.op = "prewarm" -> "return"
      [] f.op = "stopAll" -> "discard"
      [] OTHER            -> "unmark"

\* stop_all catches the exception and leaves the lock before its finally
\* clause discards the application from _visible.
StopFails(t) ==
    IF Top(t).op = "stopAll" THEN App(t) \in Faulty /\ Goto(t, "discard") ELSE Raises(t)

Stop(t) ==
    /\ At(t, "stop")
    /\ \/ Goto(t, AfterStop(Top(t))) /\ Quits(App(t))
       \/ App(t) \in Faulty /\ Goto(t, AfterStop(Top(t))) /\ Misses(App(t))
       \/ StopFails(t) /\ Misses(App(t))
    /\ IF Top(t).op = "stopAll" THEN Release(t) ELSE UNCHANGED owner
    /\ UNCHANGED <<registered, visible, closed>>

\* What follows launcher.hide returning False.
AfterHideRefused(f) ==
    CASE f.op = "hide"    -> "return"
      [] f.op = "prewarm" -> "stop"
      [] OTHER            -> IF f.app \in Dashboard THEN "closeBrowser"
                             ELSE IF Startup[f.app] = "persistent" THEN "unmark" ELSE "stop"

Hide(t) ==
    /\ At(t, "hide")
    /\ \/ App(t) \in running /\ Goto(t, "unmark") /\ Covers(App(t))
       \/ /\ App(t) \notin running \/ App(t) \in Faulty
          /\ Goto(t, AfterHideRefused(Top(t))) /\ UNCHANGED launcherVars
       \/ Raises(t) /\ Misses(App(t))
    /\ UNCHANGED <<registered, visible, owner, closed>>

\* Mutant: the early return of close forgets _visible.
CloseBrowserStaysVisible(t) ==
    /\ At(t, "closeBrowser")
    /\ \/ Goto(t, "return") /\ Covers(App(t))
       \/ Raises(t) /\ Misses(App(t))
    /\ UNCHANGED <<registered, visible, owner, closed>>

CloseBrowser(t) ==
    /\ At(t, "closeBrowser")
    /\ \/ Goto(t, "unmark") /\ Covers(App(t))
       \/ Raises(t) /\ Misses(App(t))
    /\ UNCHANGED <<registered, visible, owner, closed>>

\* Whatever a launcher prepares waits behind the screen; the browser of a
\* dashboard is left alone.
Prepare(t) ==
    /\ At(t, "prepare")
    /\ \/ /\ Goto(t, "unmark") /\ running' = running \cup {App(t)}
          /\ onScreen' = IF App(t) \in Dashboard THEN onScreen ELSE onScreen \ {App(t)}
          /\ astray' = astray \ ({App(t)} \ onScreen')
       \/ HalfOpens(t)
       \/ Raises(t) /\ UNCHANGED launcherVars
    /\ UNCHANGED <<registered, visible, owner, closed>>

-----------------------------------------------------------------------------
(* Bookkeeping of _visible, nested calls, return and unwinding.            *)

Mark(t) ==
    /\ At(t, "mark")
    /\ visible' = visible \cup {App(t)}
    /\ Goto(t, "return")
    /\ UNCHANGED <<registered, owner, closed, launcherVars>>

Unmark(t) ==
    /\ At(t, "unmark")
    /\ visible' = visible \ {App(t)}
    /\ Goto(t, IF Top(t).op = "restart" THEN "show" ELSE "return")
    /\ UNCHANGED <<registered, owner, closed, launcherVars>>

\* restart calls show while it still holds its own lifecycle lock.
RestartShows(t) ==
    /\ At(t, "show")
    /\ stack' = Push(t, [Top(t) EXCEPT !.at = "return"], Call("show", App(t)))
    /\ UNCHANGED <<registered, visible, owner, closed, launcherVars>>

Return(t) ==
    /\ At(t, "return")
    /\ stack' = [stack EXCEPT ![t] = Pop(t)]
    /\ Release(t)
    /\ UNCHANGED <<registered, visible, closed, launcherVars>>

\* An exception leaves the frame; only restart passes it on, the other
\* callers (_close_exclusive_peers, _preload_apps) catch it.
Unwind(t) ==
    /\ At(t, "raise")
    /\ LET rest == Pop(t)
           n == Len(rest)
       IN stack' = [stack EXCEPT ![t] =
                      IF n > 0 /\ rest[n].op = "restart"
                      THEN Replace(rest, [rest[n] EXCEPT !.at = "raise"]) ELSE rest]
    /\ Release(t)
    /\ UNCHANGED <<registered, visible, closed, launcherVars>>

(* The loops of stop_all and _preload_apps over a snapshot of _apps.       *)
NextApp(t) ==
    /\ At(t, "next")
    /\ \E a \in Top(t).todo :
        LET rest == [Top(t) EXCEPT !.todo = @ \ {a}, !.app = a]
        IN stack' = IF Top(t).op = "stopAll" THEN WithTop(t, [rest EXCEPT !.at = "enter"])
                    ELSE IF Startup[a] = "lazy" THEN WithTop(t, rest)
                    ELSE Push(t, rest, Call(IF Startup[a] = "preload" THEN "prewarm" ELSE "show", a))
    /\ UNCHANGED <<registered, visible, owner, closed, launcherVars>>

Discard(t) ==
    /\ At(t, "discard")
    /\ visible' = visible \ {App(t)}
    /\ stack' = WithTop(t, [Top(t) EXCEPT !.at = "next", !.locked = FALSE])
    /\ UNCHANGED <<registered, owner, closed, launcherVars>>

PassDone(t) ==
    /\ At(t, "next") /\ Top(t).todo = {}
    /\ stack' = [stack EXCEPT ![t] = Pop(t)]
    /\ UNCHANGED <<registered, visible, owner, closed, launcherVars>>

\* External: the process dies, and its window with it, unless that is the
\* browser of a dashboard.
AppExits(a) ==
    /\ a \in running
    /\ \/ Quits(a)
       \/ /\ a \in Dashboard \cap onScreen /\ running' = running \ {a}
          /\ astray' = astray \cup {a} /\ UNCHANGED onScreen
    /\ UNCHANGED <<registered, visible, owner, stack, closed>>

\* External: the user closes the browser of a dashboard, whose server runs on.
\* (The window of any other application is its process: AppExits.)
WindowCloses(a) ==
    /\ a \in Dashboard \cap onScreen /\ onScreen' = onScreen \ {a}
    /\ astray' = IF a \in running THEN astray \cup {a} ELSE astray \ {a}
    /\ UNCHANGED <<registered, visible, owner, stack, closed, running>>

-----------------------------------------------------------------------------
Step(t) ==
    \/ ClosePeer(t) \/ PeersClosed(t) \/ Enter(t)
    \/ Present(t) \/ Launch(t) \/ Stop(t) \/ Hide(t) \/ CloseBrowser(t) \/ Prepare(t)
    \/ Mark(t) \/ Unmark(t) \/ RestartShows(t) \/ Return(t) \/ Unwind(t)
    \/ NextApp(t) \/ Discard(t) \/ PassDone(t)

Requests ==
    \/ \E a \in Apps : Register(a)
    \/ \E t \in Callers :
        \/ \E a \in Apps, op \in AppOps \ {"prewarm"} : Request(t, op, a)
        \/ StopAll(t)
    \/ StartBackgroundApps

Next == Requests \/ (\E t \in Threads : Step(t)) \/ (\E a \in Apps : AppExits(a) \/ WindowCloses(a))

Spec == Init /\ [][Next]_vars
\* A thread that is not blocked on a lock keeps running.
FairSpec == Spec /\ \A t \in Threads : WF_vars(Step(t))

-----------------------------------------------------------------------------
(* Properties.                                                             *)

\* Every variable has its type, only registered applications are ever
\* visible, and calls nest at most three deep (restart, show, close a peer).
TypeOK ==
    /\ registered \subseteq Apps /\ visible \subseteq registered
    /\ owner \in [Apps -> Threads \cup {NoThread}]
    /\ stack \in [Threads -> Seq(Frame)] /\ \A t \in Threads : Len(stack[t]) <= 3
    /\ closed \in BOOLEAN /\ running \subseteq Apps /\ onScreen \subseteq Apps /\ astray \subseteq Apps

\* A method past its "with self._lifecycle_lock(key)" holds that lock until
\* it returns, whichever methods it calls and however they end.
LifecycleLocked ==
    \A t \in Threads : \A i \in 1..Len(stack[t]) :
        stack[t][i].at \in LockedSteps => owner[stack[t][i].app] = t

\* Two threads are never inside the launcher of the same application.
LauncherSerialized ==
    \A t, u \in Threads :
        (/\ t # u /\ stack[t] # <<>> /\ stack[u] # <<>>
         /\ Top(t).at \in LauncherSteps /\ Top(u).at \in LauncherSteps) => App(t) # App(u)

Waits(t, u) == At(t, "enter") /\ owner[App(t)] = u /\ u # t

\* No set of threads waits for locks that only its own members hold: the
\* nested acquisition of restart never meets another one.
NoDeadlockedSet ==
    \A S \in (SUBSET Threads) \ {{}} : \E t \in S : \A u \in S : ~Waits(t, u)

\* Between lifecycle actions, while an application of an exclusive group is
\* shown, no other of the group has its window on the screen: not one opened
\* before or half opened since, not one the preload worker started, not a
\* survivor of an earlier run; only ones a failing launcher left there.
ExclusiveShown ==
    \A a \in (visible \cap onScreen) \ astray, b \in (registered \cap onScreen) \ astray :
        (a # b /\ Group[a] # NoGroup /\ Group[a] = Group[b])
            => owner[a] # NoThread \/ owner[b] # NoThread

\* Between lifecycle actions, a live application that is_visible reports
\* visible has its window on the screen, also when its process died and came
\* back behind the screen; unless its launcher failed, or it is a dashboard
\* whose browser was closed by hand.
VisibleTruthful ==
    \A a \in (visible \cap running) \ astray : owner[a] = NoThread => a \in onScreen

\* close, and with it every exclusive hand-over, keeps the process of a
\* persistent application that can be hidden or left alone.
PersistentKept ==
    [][\A a \in running \ running' : Startup[a] = "persistent" =>
          \/ UNCHANGED stack
          \/ \E t \in Threads : At(t, "stop") /\ App(t) = a /\ Top(t).op # "close"]_vars

\* Once the runtime closes, every call in progress ends, stop_all included,
\* and with launchers that raise.
ShutdownCompletes == []<>(closed => \A t \in Threads : stack[t] = <<>>)

\* When the closing runtime has come to rest, the only managed applications
\* that run are ones the preload worker starts by itself, or whose stop has
\* failed: stop_all neither stops that worker nor waits for it, but no other
\* application is left, hidden, half started or survivor of an earlier run.
ShutdownStopsApps ==
    (closed /\ \A t \in Threads : stack[t] = <<>>)
        => \A a \in (running \cap registered) \ astray : Startup[a] # "lazy"
=============================================================================
