---------------------------- MODULE GamesSession ----------------------------
(***************************************************************************)
(* GamesSession with the launch and stop half of GameController and the    *)
(* GameLauncher: the UI thread starts and retires one native game, threads *)
(* of their own embed and stop it under a lock, and everything they report *)
(* comes back through the UI queue.  The game's inventory is not part of   *)
(* this module: the game is installed.                                     *)
(***************************************************************************)
EXTENDS Naturals, Sequences, FiniteSets

CONSTANTS
    Threads,        \* bound: work in flight at a time
    NoProcess, Free,
    MaxGeneration,  \* bound: no launch once _generation has passed it
    MaxBindings     \* bound: times the screen is shown

ASSUME GamesAssumption == MaxGeneration \in Nat /\ MaxBindings \in Nat /\ Free \notin Threads
                          /\ NoProcess \notin [native : Nat, gen : Nat]

VARIABLES
    closed, ui,         \* _closed; the UI thread is "idle" or inside close
    bound, binding,     \* _view is not None; _binding
    generation, native, \* _generation, _native_generation
    active, stopping,   \* _runtime_active, _stopping
    game, stopPending,  \* the controller: _active_game_id is set, _stop_pending
    screen,             \* what the panel shows
    process,            \* the child process, as the launch it belongs to
    embedded,           \* native generation of the embedded window, or 0
    exits,              \* generations whose exit has still to be reported
    lock,               \* holder of _native_lock
    work,               \* what each thread is doing
    queue               \* callbacks for the UI thread

sessionVars == <<bound, binding, generation, native, active, stopping>>
controllerVars == <<game, stopPending, screen>>
nativeVars == <<process, embedded, exits, lock>>
vars == <<closed, ui, sessionVars, controllerVars, nativeVars, work, queue>>

NoWork == [kind |-> "none"]

Init ==
    /\ closed = FALSE /\ ui = "idle" /\ bound = FALSE /\ binding = 0
    /\ generation = 0 /\ native = 0 /\ active = FALSE /\ stopping = FALSE
    /\ game = FALSE /\ stopPending = FALSE /\ screen = "browser"
    /\ process = NoProcess /\ embedded = 0 /\ exits = {} /\ lock = Free
    /\ work = [t \in Threads |-> NoWork] /\ queue = <<>>

-----------------------------------------------------------------------------
(* Work items.  "asked" is the launch a stop was asked for, for the        *)
(* properties only.                                                        *)

Spawn(item) ==
    \E t \in Threads : work[t] = NoWork /\ work' = [work EXCEPT ![t] = item]

EmbedWork(g, n) == [kind |-> "embed", at |-> "lock", gen |-> g, native |-> n]

\* Mutant: the cleanup stops whatever runs when its turn comes.
CleanupLater(n) ==
    [kind |-> "cleanup", at |-> "read", gen |-> 0, native |-> n, asked |-> n, restore |-> FALSE,
     fixed |-> FALSE]
Cleanup(n) ==
    [kind |-> "cleanup", at |-> "read", gen |-> 0, native |-> n, asked |-> n, restore |-> FALSE,
     fixed |-> TRUE]

StopWork(b) ==
    [kind |-> "stop", at |-> "check", gen |-> 0, native |-> 0, asked |-> native, restore |-> TRUE,
     fixed |-> FALSE, binding |-> b]

-----------------------------------------------------------------------------
(* Requests of the screen, on the UI thread.                               *)

Activate ==
    /\ ui = "idle" /\ ~closed /\ ~bound /\ binding < 2 * MaxBindings
    /\ binding' = binding + 1 /\ bound' = TRUE
    /\ game' = FALSE /\ stopPending' = FALSE /\ screen' = "browser"
    /\ UNCHANGED <<closed, ui, generation, native, active, stopping, nativeVars, work, queue>>

\* Mutant: a stop the user asked for is trusted to do the cleanup.
NeedsCleanupOnce == active /\ ~stopping /\ ~stopPending
NeedsCleanup == active /\ ~stopping

Deactivate ==
    /\ ui = "idle" /\ bound
    /\ generation' = generation + 1 /\ binding' = binding + 1 /\ bound' = FALSE
    /\ IF NeedsCleanup
       THEN stopping' = TRUE /\ Spawn(Cleanup(native))
       ELSE UNCHANGED <<stopping, work>>
    /\ screen' = "browser"
    /\ UNCHANGED <<closed, ui, native, active, game, stopPending, nativeVars, queue>>

\* The window of a launched process is embedded by a thread of its own.
Launch ==
    /\ generation' = generation + 1 /\ native' = native + 1
    /\ process' = [native |-> native + 1, gen |-> generation + 1]
    /\ active' = TRUE /\ game' = TRUE /\ screen' = "loading"
    /\ Spawn(EmbedWork(generation + 1, native + 1))
    /\ UNCHANGED <<stopping, exits>>

\* No command, no executable, or a process that exited at once.
LaunchFails ==
    /\ generation' = generation + 2 /\ active' = TRUE /\ stopping' = TRUE
    /\ native' \in {native, native + 1}
    /\ exits' \in {exits} \cup {exits \cup {generation + 1} : n \in {native'} \ {native}}
    /\ Spawn(Cleanup(native'))
    /\ UNCHANGED <<game, screen, process>>

RequestLaunch ==
    /\ ui = "idle" /\ bound /\ ~stopPending /\ ~game /\ generation <= MaxGeneration
    /\ ~stopping /\ ~active /\ lock = Free
    /\ IF process = NoProcess THEN Launch \/ LaunchFails ELSE LaunchFails
    /\ UNCHANGED <<closed, ui, bound, binding, stopPending, embedded, lock, queue>>

Stop == ~stopPending /\ stopPending' = TRUE /\ Spawn(StopWork(binding))

\* EXIT GAME is on the runtime host only.
RequestStop ==
    /\ ui = "idle" /\ bound /\ screen # "browser" /\ Stop
    /\ UNCHANGED <<closed, ui, sessionVars, game, screen, nativeVars, queue>>

Close ==
    /\ ui = "idle" /\ ~closed
    /\ closed' = TRUE /\ ui' = "closing"
    /\ generation' = generation + 1 /\ binding' = binding + 1 /\ bound' = FALSE
    /\ UNCHANGED <<native, active, stopping, controllerVars, nativeVars, work, queue>>

\* Mutant: the window is given up only with a process that still runs.
ClearedIfRunning == IF process = NoProcess THEN embedded ELSE 0
Cleared == 0

\* launcher.stop and embedder.clear; the exit of the process is reported later.
Killed == IF process = NoProcess THEN exits ELSE exits \cup {process.gen}

CloseStops ==
    /\ ui = "closing" /\ lock = Free
    /\ process' = NoProcess /\ exits' = Killed /\ embedded' = Cleared
    /\ active' = FALSE /\ ui' = "idle"
    /\ UNCHANGED <<closed, bound, binding, generation, native, stopping, controllerVars, lock,
                   work, queue>>

-----------------------------------------------------------------------------
(* The threads.                                                            *)

Done(t) == work' = [work EXCEPT ![t] = NoWork]
Moves(t, place) == work' = [work EXCEPT ![t].at = place]
Post(event) == queue' = Append(queue, event)

Unlocks == lock' = Free

EmbedStarts(t) ==
    /\ work[t].kind = "embed" /\ work[t].at = "lock" /\ lock = Free
    /\ IF ~closed /\ work[t].gen = generation
       THEN lock' = t /\ Moves(t, "embedding")
       ELSE Done(t) /\ UNCHANGED lock
    /\ UNCHANGED <<closed, ui, sessionVars, controllerVars, process, embedded, exits, queue>>

EmbedEnds(t) ==
    /\ work[t].kind = "embed" /\ work[t].at = "embedding"
    /\ \/ /\ process # NoProcess /\ process.native = work[t].native
          /\ embedded' = work[t].native
          /\ Post([kind |-> "embedded", gen |-> work[t].gen])
       \/ Post([kind |-> "failed", gen |-> work[t].gen]) /\ UNCHANGED embedded
    /\ Unlocks /\ Done(t)
    /\ UNCHANGED <<closed, ui, sessionVars, controllerVars, process, exits>>

\* _stop_for_binding looks at the binding on the worker thread.
StopChecks(t) ==
    /\ work[t].kind = "stop" /\ work[t].at = "check"
    /\ Moves(t, IF work[t].binding = binding /\ ~closed THEN "read" ELSE "report")
    /\ UNCHANGED <<closed, ui, sessionVars, controllerVars, nativeVars, queue>>

StopReads(t) ==
    /\ work[t].kind \in {"stop", "cleanup"} /\ work[t].at = "read"
    /\ work' = [work EXCEPT ![t].at = "lock", ![t].gen = generation,
                            ![t].native = IF work[t].fixed THEN @ ELSE native]
    /\ UNCHANGED <<closed, ui, sessionVars, controllerVars, nativeVars, queue>>

StopLocks(t) ==
    /\ work[t].kind \in {"stop", "cleanup"} /\ work[t].at = "lock" /\ lock = Free
    /\ IF work[t].native = native
       THEN lock' = t /\ Moves(t, "stopping")
       ELSE Moves(t, "finish") /\ UNCHANGED lock
    /\ UNCHANGED <<closed, ui, sessionVars, controllerVars, process, embedded, exits, queue>>

StopStops(t) ==
    /\ work[t].kind \in {"stop", "cleanup"} /\ work[t].at = "stopping"
    /\ process' = NoProcess /\ exits' = Killed /\ embedded' = Cleared
    /\ Unlocks /\ Moves(t, "finish")
    /\ UNCHANGED <<closed, ui, sessionVars, controllerVars, queue>>

StopFinishes(t) ==
    /\ work[t].kind \in {"stop", "cleanup"} /\ work[t].at = "finish"
    /\ Post([kind |-> "stopped", gen |-> work[t].gen, native |-> work[t].native,
             restore |-> work[t].restore])
    /\ IF work[t].kind = "stop" THEN Moves(t, "report") ELSE Done(t)
    /\ UNCHANGED <<closed, ui, sessionVars, controllerVars, nativeVars>>

StopReports(t) ==
    /\ work[t].kind = "stop" /\ work[t].at = "report"
    /\ Post([kind |-> "finished", binding |-> work[t].binding])
    /\ Done(t)
    /\ UNCHANGED <<closed, ui, sessionVars, controllerVars, nativeVars>>

Work(t) ==
    \/ EmbedStarts(t) \/ EmbedEnds(t)
    \/ StopChecks(t) \/ StopReads(t) \/ StopLocks(t) \/ StopStops(t)
    \/ StopFinishes(t) \/ StopReports(t)

GameExits ==
    /\ process # NoProcess
    /\ process' = NoProcess /\ exits' = Killed
    /\ UNCHANGED <<closed, ui, sessionVars, controllerVars, embedded, lock, work, queue>>

ExitReported ==
    /\ \E g \in exits : exits' = exits \ {g} /\ Post([kind |-> "exited", gen |-> g])
    /\ UNCHANGED <<closed, ui, sessionVars, controllerVars, process, embedded, lock, work>>

-----------------------------------------------------------------------------
(* Callbacks on the UI thread.                                             *)

Handled(kind) == ui = "idle" /\ queue # <<>> /\ Head(queue).kind = kind /\ queue' = Tail(queue)
Delivered(g) == ~closed /\ g = generation /\ bound

Embedded ==
    /\ Handled("embedded")
    /\ screen' = IF Delivered(Head(queue).gen) THEN "game" ELSE screen
    /\ UNCHANGED <<closed, ui, sessionVars, game, stopPending, nativeVars, work>>

\* Mutant: a game that ends by itself is not noticed.
EndsIgnored(g) == FALSE
Ends(g) == Delivered(g) /\ ~stopPending

\* The embedding failed or the process exited: the controller stops the game.
Ended ==
    /\ Handled("failed") \/ Handled("exited")
    /\ IF Ends(Head(queue).gen) THEN Stop ELSE UNCHANGED <<stopPending, work>>
    /\ screen' = IF Delivered(Head(queue).gen) /\ Head(queue).kind = "failed" THEN "game" ELSE screen
    /\ UNCHANGED <<closed, ui, sessionVars, game, nativeVars>>

\* Mutant: the end of any stop counts.
StopEndsAny(done) == TRUE
StopEnds(done) == done.native = native

Stopped ==
    /\ Handled("stopped")
    /\ LET done == Head(queue)
           restores == StopEnds(done) /\ ~closed /\ done.gen = generation /\ done.restore
       IN /\ IF StopEnds(done)
             THEN active' = FALSE /\ stopping' = FALSE
             ELSE UNCHANGED <<active, stopping>>
          /\ generation' = IF restores THEN generation + 1 ELSE generation
          /\ screen' = IF restores /\ bound THEN "browser" ELSE screen
    /\ UNCHANGED <<closed, ui, bound, binding, native, game, stopPending, nativeVars, work>>

Finished ==
    /\ Handled("finished")
    /\ IF Head(queue).binding = binding
       THEN stopPending' = FALSE /\ game' = FALSE
       ELSE UNCHANGED <<stopPending, game>>
    /\ UNCHANGED <<closed, ui, sessionVars, screen, nativeVars, work>>

-----------------------------------------------------------------------------
Callback == Embedded \/ Ended \/ Stopped \/ Finished

Next ==
    \/ Activate \/ Deactivate \/ RequestLaunch \/ RequestStop \/ Close \/ CloseStops
    \/ Callback \/ GameExits \/ ExitReported
    \/ \E t \in Threads : Work(t)

Spec == Init /\ [][Next]_vars

-----------------------------------------------------------------------------
(* Properties.                                                             *)

Events ==
    [kind : {"embedded", "failed", "exited"}, gen : Nat]
        \cup [kind : {"stopped"}, gen : Nat, native : Nat, restore : BOOLEAN]
        \cup [kind : {"finished"}, binding : Nat]

EmbedItems == [kind : {"embed"}, at : {"lock", "embedding"}, gen : Nat, native : Nat]
CleanupItems ==
    [kind : {"cleanup"}, at : {"read", "lock", "stopping", "finish"}, gen : Nat, native : Nat,
     asked : Nat, restore : {FALSE}, fixed : {TRUE}]
StopItems ==
    [kind : {"stop"}, at : {"check", "read", "lock", "stopping", "finish", "report"}, gen : Nat,
     native : Nat, asked : Nat, restore : {TRUE}, fixed : {FALSE}, binding : Nat]
Items == EmbedItems \cup CleanupItems \cup StopItems

\* Types; a thread holds the native lock exactly while it embeds or stops.
TypeOK ==
    /\ closed \in BOOLEAN /\ ui \in {"idle", "closing"} /\ bound \in BOOLEAN /\ binding \in Nat
    /\ generation \in Nat /\ native \in Nat /\ active \in BOOLEAN /\ stopping \in BOOLEAN
    /\ game \in BOOLEAN /\ stopPending \in BOOLEAN /\ screen \in {"browser", "loading", "game"}
    /\ process = NoProcess \/ process \in [native : Nat, gen : Nat]
    /\ embedded \in Nat /\ exits \subseteq Nat /\ queue \in Seq(Events)
    /\ work \in [Threads -> {NoWork} \cup Items]
    /\ \A t \in Threads : lock = t <=> (work[t] # NoWork /\ work[t].at \in {"embedding", "stopping"})

\* A native game is never forgotten: while one runs the session knows, so no
\* second one is launched beside it.
GameOwned == process # NoProcess => active \/ stopping

\* A game whose screen is gone is being stopped.
Retired == (process # NoProcess /\ ~bound) => stopping \/ ui = "closing"

\* Between native operations a window is embedded only for the latest launch,
\* and after close there is no game and no embedded window, and none appears.
EmbeddedLatest ==
    /\ (lock = Free /\ embedded # 0) => embedded = native /\ (active \/ stopping)
    /\ (closed /\ ui = "idle") => process = NoProcess /\ embedded = 0

Stops(kind) ==
    \A t \in Threads :
        (work[t].kind = kind /\ work[t].at = "stopping" /\ process # NoProcess)
            => process.native = work[t].asked

\* The cleanup of a retired screen stops the game of that screen only.
CleanupStopsOwn == Stops("cleanup")

\* A stop the user asked for stops the game it was asked for only.
StopStopsOwn == Stops("stop")

AtRest ==
    ~closed /\ queue = <<>> /\ exits = {} /\ \A t \in Threads : work[t] = NoWork

\* However a game ended, once every thread and callback has run the screen is
\* back in the browser, no stop is pending and the session would launch again.
Returns ==
    AtRest => /\ ~stopping
              /\ bound => ~stopPending
              /\ process = NoProcess => ~active /\ screen = "browser"
=============================================================================
