---------------------------- MODULE GamesProofs ----------------------------
(***************************************************************************)
(* Proofs about GamesSession, for any number of threads and any bounds:    *)
(* types, that a native game is always owned, is stopped when its screen   *)
(* goes, is embedded only while it is the latest and is stopped by the     *)
(* cleanup of its own screen only; and that a game that is over returns    *)
(* the screen to the browser.                                              *)
(***************************************************************************)
EXTENDS GamesSession, SequenceTheorems, TLAPS

StateOK ==
    /\ closed \in BOOLEAN /\ ui \in {"idle", "closing"} /\ bound \in BOOLEAN /\ binding \in Nat
    /\ generation \in Nat /\ native \in Nat /\ active \in BOOLEAN /\ stopping \in BOOLEAN
    /\ game \in BOOLEAN /\ stopPending \in BOOLEAN /\ screen \in {"browser", "loading", "game"}
    /\ process = NoProcess \/ process \in [native : Nat, gen : Nat]
    /\ embedded \in Nat /\ exits \subseteq Nat
QueueOK == queue \in Seq(Events)
WorkOK == work \in [Threads -> {NoWork} \cup Items]
Locking(w) == w # NoWork /\ w.at \in {"embedding", "stopping"}
LockOK == \A t \in Threads : lock = t <=> Locking(work[t])

\* The type invariant in four parts.
LEMMA TypeParts == TypeOK <=> StateOK /\ QueueOK /\ WorkOK /\ LockOK
  BY DEF TypeOK, StateOK, QueueOK, WorkOK, LockOK, Locking

\* The same in the next state.
LEMMA TypePartsNext == TypeOK' <=> StateOK' /\ QueueOK' /\ WorkOK' /\ LockOK'
  BY DEF TypeOK, StateOK, QueueOK, WorkOK, LockOK, Locking

\* What a thread does shows in the kind of its work.
LEMMA KindsApart ==
    /\ NoWork.kind = "none"
    /\ \A w \in EmbedItems : w.kind = "embed"
    /\ \A w \in CleanupItems : w.kind = "cleanup"
    /\ \A w \in StopItems : w.kind = "stop"
  BY DEF NoWork, EmbedItems, CleanupItems, StopItems

\* An embedding thread, and a thread that stops a game.
LEMMA EmbedItem ==
    ASSUME WorkOK, NEW t \in Threads, work[t].kind = "embed"
    PROVE  work[t] \in EmbedItems /\ work[t] # NoWork
  BY KindsApart DEF WorkOK, Items

\* Likewise for a cleanup.
LEMMA CleanupItem ==
    ASSUME WorkOK, NEW t \in Threads, work[t].kind = "cleanup"
    PROVE  work[t] \in CleanupItems /\ work[t] # NoWork
  BY KindsApart DEF WorkOK, Items

\* Likewise for a stop the user asked for.
LEMMA StopItem ==
    ASSUME WorkOK, NEW t \in Threads, work[t].kind = "stop"
    PROVE  work[t] \in StopItems /\ work[t] # NoWork
  BY KindsApart DEF WorkOK, Items

\* A step of a thread to another place changes nothing else about its work.
LEMMA MovesItem ==
    ASSUME WorkOK, NEW t \in Threads, NEW place, Moves(t, place)
    PROVE  work' = [work EXCEPT ![t] = [work[t] EXCEPT !.at = place]]
  BY DEF Moves, WorkOK

\* What a thread does next has a type, and so have the locks it implies.
LEMMA WorkTyped ==
    ASSUME WorkOK, LockOK, NEW t \in Threads, NEW w \in {NoWork} \cup Items,
           work' = [work EXCEPT ![t] = w],
           \/ lock' = lock /\ (Locking(w) <=> Locking(work[t]))
           \/ lock = Free /\ lock' = t /\ Locking(w)
           \/ lock = t /\ lock' = Free /\ ~Locking(w)
    PROVE  WorkOK' /\ LockOK'
<1>1. WorkOK'
  BY DEF WorkOK
<1>2. \A u \in Threads : work'[u] = IF u = t THEN w ELSE work[u]
  BY DEF WorkOK
<1>3. Free \notin Threads
  BY GamesAssumption
<1>4. LockOK'
  <2> SUFFICES ASSUME NEW u \in Threads PROVE lock' = u <=> Locking(work'[u])
    BY DEF LockOK, Locking
  <2>1. CASE u = t
    BY <1>2, <1>3, <2>1 DEF LockOK
  <2>2. CASE u # t
    BY <1>2, <1>3, <2>2 DEF LockOK
  <2> QED
    BY <2>1, <2>2
<1> QED
  BY <1>1, <1>4

\* New work begins before any lock.
LEMMA SpawnTyped ==
    ASSUME WorkOK, LockOK, UNCHANGED lock, NEW item \in Items, ~Locking(item), Spawn(item)
    PROVE  WorkOK' /\ LockOK'
<1>1. PICK t \in Threads : work[t] = NoWork /\ work' = [work EXCEPT ![t] = item]
  BY DEF Spawn
<1>2. ~Locking(work[t])
  BY <1>1 DEF Locking
<1> QED
  BY <1>1, <1>2, WorkTyped

\* The work the UI thread creates.
LEMMA NewWork ==
    ASSUME StateOK, NEW g \in Nat, NEW n \in Nat, NEW b \in Nat
    PROVE  /\ EmbedWork(g, n) \in Items /\ ~Locking(EmbedWork(g, n))
           /\ Cleanup(n) \in Items /\ ~Locking(Cleanup(n))
           /\ StopWork(b) \in Items /\ ~Locking(StopWork(b))
<1>1. EmbedWork(g, n) \in EmbedItems /\ ~Locking(EmbedWork(g, n))
  BY DEF EmbedWork, EmbedItems, Locking
<1>2. Cleanup(n) \in CleanupItems /\ ~Locking(Cleanup(n))
  BY DEF Cleanup, CleanupItems, Locking
<1>3. StopWork(b) \in StopItems /\ ~Locking(StopWork(b))
  BY DEF StateOK, StopWork, StopItems, Locking
<1> QED
  BY <1>1, <1>2, <1>3 DEF Items

-----------------------------------------------------------------------------
(* Types.                                                                  *)

\* Requests of the UI thread.
LEMMA RequestsTyped ==
    ASSUME TypeOK,
           Activate \/ Deactivate \/ RequestLaunch \/ RequestStop \/ Close \/ CloseStops
    PROVE  TypeOK'
<1>1. StateOK /\ QueueOK /\ WorkOK /\ LockOK
  BY TypeParts
<1>2. native + 1 \in Nat /\ generation + 1 \in Nat /\ generation + 2 \in Nat /\ binding + 1 \in Nat
  BY <1>1 DEF StateOK
<1>3. CASE Activate
  <2>1. StateOK' /\ QueueOK'
    BY <1>1, <1>2, <1>3 DEF Activate, StateOK, QueueOK, nativeVars
  <2> QED
    BY <1>1, <1>3, <2>1, TypePartsNext DEF Activate, WorkOK, LockOK, Locking, nativeVars
<1>4. CASE Deactivate
  <2>1. StateOK' /\ QueueOK' /\ UNCHANGED lock
    BY <1>1, <1>2, <1>4 DEF Deactivate, StateOK, QueueOK, nativeVars
  <2>2. CASE UNCHANGED work
    BY <1>1, <2>1, <2>2, TypePartsNext DEF WorkOK, LockOK, Locking
  <2>3. CASE Spawn(Cleanup(native))
    <3>1. Cleanup(native) \in Items /\ ~Locking(Cleanup(native))
      BY <1>1, <1>2, NewWork DEF StateOK
    <3> QED
      BY <1>1, <2>1, <2>3, <3>1, SpawnTyped, TypePartsNext
  <2> QED
    BY <1>4, <2>2, <2>3 DEF Deactivate
<1>5. CASE RequestLaunch
  <2>1. QueueOK' /\ UNCHANGED lock /\ UNCHANGED <<closed, ui, bound, binding, stopPending, embedded>>
    BY <1>1, <1>5 DEF RequestLaunch, QueueOK
  <2>2. CASE Launch
    <3>1. StateOK'
      BY <1>1, <1>2, <2>1, <2>2 DEF Launch, StateOK
    <3>2. EmbedWork(generation + 1, native + 1) \in Items
          /\ ~Locking(EmbedWork(generation + 1, native + 1))
      BY <1>1, <1>2, NewWork
    <3>3. Spawn(EmbedWork(generation + 1, native + 1))
      BY <2>2 DEF Launch
    <3> QED
      BY <1>1, <2>1, <3>1, <3>2, <3>3, SpawnTyped, TypePartsNext
  <2>3. CASE LaunchFails
    <3>1. native' \in Nat /\ exits' \subseteq Nat
      BY <1>1, <1>2, <2>3 DEF LaunchFails, StateOK
    <3>2. StateOK'
      BY <1>1, <1>2, <2>1, <2>3, <3>1 DEF LaunchFails, StateOK
    <3>3. PICK n \in Nat : Spawn(Cleanup(n))
      BY <2>3, <3>1 DEF LaunchFails
    <3>4. Cleanup(n) \in Items /\ ~Locking(Cleanup(n))
      BY <1>1, <1>2, NewWork
    <3> QED
      BY <1>1, <2>1, <3>2, <3>3, <3>4, SpawnTyped, TypePartsNext
  <2> QED
    BY <1>5, <2>2, <2>3 DEF RequestLaunch
<1>6. CASE RequestStop
  <2>1. StateOK' /\ QueueOK' /\ UNCHANGED lock /\ Spawn(StopWork(binding))
    BY <1>1, <1>6 DEF RequestStop, Stop, StateOK, QueueOK, sessionVars, nativeVars
  <2>2. StopWork(binding) \in Items /\ ~Locking(StopWork(binding))
    BY <1>1, NewWork DEF StateOK
  <2> QED
    BY <1>1, <2>1, <2>2, SpawnTyped, TypePartsNext
<1>7. CASE Close
  <2>1. StateOK' /\ QueueOK'
    BY <1>1, <1>2, <1>7 DEF Close, StateOK, QueueOK, controllerVars, nativeVars
  <2> QED
    BY <1>1, <1>7, <2>1, TypePartsNext DEF Close, WorkOK, LockOK, Locking, nativeVars
<1>8. CASE CloseStops
  <2>1. StateOK' /\ QueueOK'
    BY <1>1, <1>8 DEF CloseStops, Killed, Cleared, StateOK, QueueOK, controllerVars
  <2> QED
    BY <1>1, <1>8, <2>1, TypePartsNext DEF CloseStops, WorkOK, LockOK, Locking
<1> QED
  BY <1>3, <1>4, <1>5, <1>6, <1>7, <1>8

\* A callback is posted with a type.
LEMMA PostTyped ==
    ASSUME QueueOK, NEW e \in Events, Post(e)
    PROVE  QueueOK'
  BY DEF QueueOK, Post

\* Embedding.
LEMMA EmbedTyped ==
    ASSUME TypeOK, NEW t \in Threads, EmbedStarts(t) \/ EmbedEnds(t)
    PROVE  TypeOK'
<1>1. StateOK /\ QueueOK /\ WorkOK /\ LockOK
  BY TypeParts
<1>2. work[t] \in EmbedItems /\ work[t] # NoWork
  BY <1>1, EmbedItem DEF EmbedStarts, EmbedEnds
<1>3. NoWork \in {NoWork} \cup Items /\ ~Locking(NoWork)
  BY DEF Locking
<1>4. CASE EmbedStarts(t)
  <2>1. StateOK' /\ QueueOK'
    BY <1>1, <1>4 DEF EmbedStarts, StateOK, QueueOK, sessionVars, controllerVars
  <2>2. ~Locking(work[t])
    BY <1>4 DEF EmbedStarts, Locking
  <2>3. CASE lock' = t /\ Moves(t, "embedding")
    <3>1. [work[t] EXCEPT !.at = "embedding"] \in EmbedItems
          /\ Locking([work[t] EXCEPT !.at = "embedding"])
      <4>1. [work[t] EXCEPT !.at = "embedding"] \in EmbedItems
        BY <1>2 DEF EmbedItems
      <4>2. [work[t] EXCEPT !.at = "embedding"].at = "embedding"
        BY <1>2 DEF EmbedItems
      <4>3. [work[t] EXCEPT !.at = "embedding"] # NoWork
        BY <4>1, KindsApart
      <4> QED
        BY <4>1, <4>2, <4>3 DEF Locking
    <3>2. lock = Free
      BY <1>4 DEF EmbedStarts
    <3> QED
      BY <1>1, <2>1, <2>3, <3>1, <3>2, MovesItem, WorkTyped, TypePartsNext DEF Items
  <2>4. CASE Done(t) /\ UNCHANGED lock
    BY <1>1, <1>3, <2>1, <2>2, <2>4, WorkTyped, TypePartsNext DEF Done
  <2> QED
    BY <1>4, <2>3, <2>4 DEF EmbedStarts
<1>5. CASE EmbedEnds(t)
  <2>1. work[t].native \in Nat /\ work[t].gen \in Nat
    BY <1>2 DEF EmbedItems
  <2>2. StateOK'
    BY <1>1, <1>5, <2>1 DEF EmbedEnds, StateOK, sessionVars, controllerVars
  <2>3. PICK kind \in {"embedded", "failed"} : Post([kind |-> kind, gen |-> work[t].gen])
    BY <1>5 DEF EmbedEnds
  <2>4. [kind |-> kind, gen |-> work[t].gen] \in Events
    BY <2>1 DEF Events
  <2>5. QueueOK'
    BY <1>1, <2>3, <2>4, PostTyped
  <2>6. lock = t /\ lock' = Free /\ Done(t)
    BY <1>1, <1>2, <1>5 DEF EmbedEnds, LockOK, Locking, Unlocks
  <2> QED
    BY <1>1, <1>3, <2>2, <2>5, <2>6, WorkTyped, TypePartsNext DEF Done
<1> QED
  BY <1>4, <1>5

\* A stop or a cleanup at another of its places is the same work.
LEMMA StopMoves ==
    ASSUME WorkOK, NEW t \in Threads, NEW place,
           \/ work[t].kind \in {"stop", "cleanup"} /\ place \in {"lock", "stopping", "finish"}
           \/ work[t].kind = "stop" /\ place \in {"read", "report"}
    PROVE  LET w == [work[t] EXCEPT !.at = place]
           IN /\ w \in Items /\ w # NoWork /\ w.at = place /\ w.kind = work[t].kind
              /\ w.native = work[t].native /\ w.asked = work[t].asked
<1> DEFINE w == [work[t] EXCEPT !.at = place]
<1>1. CASE work[t].kind = "stop"
  <2>1. work[t] \in StopItems
    BY <1>1, StopItem
  <2>2. w \in StopItems /\ w.at = place /\ w.native = work[t].native /\ w.asked = work[t].asked
        /\ w.kind = work[t].kind
    BY <1>1, <2>1 DEF StopItems
  <2> QED
    BY <1>1, <2>2, KindsApart DEF Items
<1>2. CASE work[t].kind = "cleanup"
  <2>1. work[t] \in CleanupItems
    BY <1>2, CleanupItem
  <2>2. w \in CleanupItems /\ w.at = place /\ w.native = work[t].native /\ w.asked = work[t].asked
        /\ w.kind = work[t].kind
    BY <1>2, <2>1 DEF CleanupItems
  <2> QED
    BY <1>2, <2>2, KindsApart DEF Items
<1> QED
  BY <1>1, <1>2

\* What a stop reads: the generation, and the launch unless it knows it.
LEMMA StopReadsItem ==
    ASSUME TypeOK, NEW t \in Threads, StopReads(t)
    PROVE  \E w \in Items : /\ work' = [work EXCEPT ![t] = w] /\ w.kind = work[t].kind
                            /\ w # NoWork /\ w.at = "lock" /\ w.asked = work[t].asked
                            /\ w.gen = generation /\ (w.kind = "stop" => w.binding = work[t].binding)
                            /\ w.native = IF work[t].kind = "cleanup" THEN work[t].native ELSE native
<1>1. StateOK /\ WorkOK
  BY TypeParts
<1>2. PICK w : w = [work[t] EXCEPT !.at = "lock", !.gen = generation,
                                   !.native = IF work[t].fixed THEN @ ELSE native]
  OBVIOUS
<1>6. work' = [work EXCEPT ![t] = w]
  BY <1>1, <1>2 DEF StopReads, WorkOK
<1> DEFINE Read == /\ w \in Items /\ w.kind = work[t].kind /\ w # NoWork
                   /\ w.at = "lock" /\ w.asked = work[t].asked
                   /\ w.gen = generation /\ (w.kind = "stop" => w.binding = work[t].binding)
                   /\ w.native = IF work[t].kind = "cleanup" THEN work[t].native ELSE native
<1>3. ASSUME work[t].kind = "stop" PROVE Read
  <2>1. work[t] \in StopItems
    BY <1>1, <1>3, StopItem
  <2>2. w \in StopItems /\ w.at = "lock" /\ w.native = native /\ w.asked = work[t].asked
        /\ w.kind = "stop" /\ w.gen = generation /\ w.binding = work[t].binding
    BY <1>1, <1>2, <2>1 DEF StopItems, StateOK
  <2> QED
    BY <1>3, <2>2, KindsApart DEF Items
<1>4. ASSUME work[t].kind = "cleanup" PROVE Read
  <2>1. work[t] \in CleanupItems
    BY <1>1, <1>4, CleanupItem
  <2>2. w \in CleanupItems /\ w.at = "lock" /\ w.native = work[t].native
        /\ w.asked = work[t].asked /\ w.kind = "cleanup" /\ w.gen = generation
    BY <1>1, <1>2, <2>1 DEF CleanupItems, StateOK
  <2> QED
    BY <1>4, <2>2, KindsApart DEF Items
<1>5. Read
  BY <1>3, <1>4 DEF StopReads
<1> QED
  BY <1>5, <1>6

\* Stops and cleanups.
LEMMA StopTyped ==
    ASSUME TypeOK, NEW t \in Threads,
           StopChecks(t) \/ StopReads(t) \/ StopLocks(t) \/ StopStops(t) \/ StopFinishes(t)
               \/ StopReports(t)
    PROVE  TypeOK'
<1>1. StateOK /\ QueueOK /\ WorkOK /\ LockOK
  BY TypeParts
<1>2. work[t].kind \in {"stop", "cleanup"}
  BY DEF StopChecks, StopReads, StopLocks, StopStops, StopFinishes, StopReports
<1>3. work[t] # NoWork
  BY <1>2, KindsApart
<1>4. NoWork \in {NoWork} \cup Items /\ ~Locking(NoWork)
  BY DEF Locking
<1>5. CASE StopChecks(t)
  <2>1. StateOK' /\ QueueOK' /\ UNCHANGED lock
    BY <1>1, <1>5 DEF StopChecks, StateOK, QueueOK, sessionVars, controllerVars, nativeVars
  <2>2. PICK place \in {"read", "report"} : Moves(t, place)
    BY <1>5 DEF StopChecks
  <2>3. [work[t] EXCEPT !.at = place] \in Items /\ ~Locking([work[t] EXCEPT !.at = place])
        /\ ~Locking(work[t])
    BY <1>1, <1>5, StopMoves DEF StopChecks, Locking
  <2> QED
    BY <1>1, <2>1, <2>2, <2>3, MovesItem, WorkTyped, TypePartsNext
<1>6. CASE StopReads(t)
  <2>1. StateOK' /\ QueueOK' /\ UNCHANGED lock
    BY <1>1, <1>6 DEF StopReads, StateOK, QueueOK, sessionVars, controllerVars, nativeVars
  <2>2. PICK w \in Items : work' = [work EXCEPT ![t] = w] /\ w.at = "lock"
    BY <1>6, StopReadsItem
  <2>3. ~Locking(w) /\ ~Locking(work[t])
    BY <1>6, <2>2 DEF StopReads, Locking
  <2> QED
    BY <1>1, <2>1, <2>2, <2>3, WorkTyped, TypePartsNext
<1>7. CASE StopLocks(t)
  <2>1. StateOK' /\ QueueOK'
    BY <1>1, <1>7 DEF StopLocks, StateOK, QueueOK, sessionVars, controllerVars
  <2>2. ~Locking(work[t]) /\ lock = Free
    BY <1>7 DEF StopLocks, Locking
  <2>3. CASE lock' = t /\ Moves(t, "stopping")
    <3>1. [work[t] EXCEPT !.at = "stopping"] \in Items /\ Locking([work[t] EXCEPT !.at = "stopping"])
      BY <1>1, <1>2, StopMoves DEF Locking
    <3> QED
      BY <1>1, <2>1, <2>2, <2>3, <3>1, MovesItem, WorkTyped, TypePartsNext
  <2>4. CASE Moves(t, "finish") /\ UNCHANGED lock
    <3>1. [work[t] EXCEPT !.at = "finish"] \in Items /\ ~Locking([work[t] EXCEPT !.at = "finish"])
      BY <1>1, <1>2, StopMoves DEF Locking
    <3> QED
      BY <1>1, <2>1, <2>2, <2>4, <3>1, MovesItem, WorkTyped, TypePartsNext
  <2> QED
    BY <1>7, <2>3, <2>4 DEF StopLocks
<1>8. CASE StopStops(t)
  <2>1. StateOK' /\ QueueOK'
    BY <1>1, <1>8 DEF StopStops, Killed, Cleared, StateOK, QueueOK, sessionVars, controllerVars
  <2>2. lock = t /\ lock' = Free /\ Moves(t, "finish")
    BY <1>1, <1>3, <1>8 DEF StopStops, LockOK, Locking, Unlocks
  <2>3. [work[t] EXCEPT !.at = "finish"] \in Items /\ ~Locking([work[t] EXCEPT !.at = "finish"])
    BY <1>1, <1>2, StopMoves DEF Locking
  <2> QED
    BY <1>1, <2>1, <2>2, <2>3, MovesItem, WorkTyped, TypePartsNext
<1>9. CASE StopFinishes(t)
  <2>1. StateOK' /\ UNCHANGED lock
    BY <1>1, <1>9 DEF StopFinishes, StateOK, sessionVars, controllerVars, nativeVars
  <2>2. work[t] \in StopItems \cup CleanupItems
    BY <1>1, <1>2, StopItem, CleanupItem
  <2>3. work[t].gen \in Nat /\ work[t].native \in Nat /\ work[t].restore \in BOOLEAN
    BY <2>2 DEF StopItems, CleanupItems
  <2>4. [kind |-> "stopped", gen |-> work[t].gen, native |-> work[t].native,
         restore |-> work[t].restore] \in Events
    BY <2>3 DEF Events
  <2>5. QueueOK'
    BY <1>1, <1>9, <2>4, PostTyped DEF StopFinishes
  <2>6. ~Locking(work[t])
    BY <1>9 DEF StopFinishes, Locking
  <2>7. CASE work[t].kind = "stop" /\ Moves(t, "report")
    <3>1. [work[t] EXCEPT !.at = "report"] \in Items /\ ~Locking([work[t] EXCEPT !.at = "report"])
      BY <1>1, <2>7, StopMoves DEF Locking
    <3> QED
      BY <1>1, <2>1, <2>5, <2>6, <2>7, <3>1, MovesItem, WorkTyped, TypePartsNext
  <2>8. CASE Done(t)
    BY <1>1, <1>4, <2>1, <2>5, <2>6, <2>8, WorkTyped, TypePartsNext DEF Done
  <2> QED
    BY <1>9, <2>7, <2>8 DEF StopFinishes
<1>10. CASE StopReports(t)
  <2>1. StateOK' /\ UNCHANGED lock
    BY <1>1, <1>10 DEF StopReports, StateOK, sessionVars, controllerVars, nativeVars
  <2>2. work[t] \in StopItems
    BY <1>1, <1>10, StopItem DEF StopReports
  <2>3. [kind |-> "finished", binding |-> work[t].binding] \in Events
    BY <2>2 DEF StopItems, Events
  <2>4. QueueOK' /\ Done(t) /\ ~Locking(work[t])
    BY <1>1, <1>10, <2>3, PostTyped DEF StopReports, Locking
  <2> QED
    BY <1>1, <1>4, <2>1, <2>4, WorkTyped, TypePartsNext DEF Done
<1> QED
  BY <1>5, <1>6, <1>7, <1>8, <1>9, <1>10

\* The head of the queue has a type, and so has the rest.
LEMMA HandledTyped ==
    ASSUME QueueOK, NEW kind, Handled(kind)
    PROVE  QueueOK' /\ Head(queue) \in Events /\ Head(queue).kind = kind /\ Len(queue) > 0
  BY DEF QueueOK, Handled

\* Callbacks, and what processes do.
LEMMA CallbacksTyped ==
    ASSUME TypeOK, Callback \/ GameExits \/ ExitReported
    PROVE  TypeOK'
<1>1. StateOK /\ QueueOK /\ WorkOK /\ LockOK
  BY TypeParts
<1>2. ASSUME UNCHANGED <<work, lock>> PROVE WorkOK' /\ LockOK'
  BY <1>1, <1>2 DEF WorkOK, LockOK, Locking
<1>3. CASE Embedded
  <2>1. QueueOK' /\ StateOK' /\ UNCHANGED <<work, lock>>
    BY <1>1, <1>3, HandledTyped DEF Embedded, StateOK, sessionVars, nativeVars
  <2> QED
    BY <1>2, <2>1, TypePartsNext
<1>4. CASE Ended
  <2>1. QueueOK'
    BY <1>1, <1>4, HandledTyped DEF Ended
  <2>2. StateOK' /\ UNCHANGED lock
    BY <1>1, <1>4 DEF Ended, Stop, StateOK, sessionVars, nativeVars
  <2>3. CASE UNCHANGED work
    BY <1>2, <2>1, <2>2, <2>3, TypePartsNext
  <2>4. CASE Spawn(StopWork(binding))
    <3>1. StopWork(binding) \in Items /\ ~Locking(StopWork(binding))
      BY <1>1, NewWork DEF StateOK
    <3> QED
      BY <1>1, <2>1, <2>2, <2>4, <3>1, SpawnTyped, TypePartsNext
  <2> QED
    BY <1>4, <2>3, <2>4 DEF Ended, Stop
<1>5. CASE Stopped
  <2>1. QueueOK'
    BY <1>1, <1>5, HandledTyped DEF Stopped
  <2>2. /\ generation' = generation \/ generation' = generation + 1
        /\ screen' = screen \/ screen' = "browser"
        /\ active' = active \/ active' = FALSE
        /\ stopping' = stopping \/ stopping' = FALSE
    <3> DEFINE ends == StopEnds(Head(queue))
               restores == ends /\ ~closed /\ Head(queue).gen = generation /\ Head(queue).restore
    <3>1. IF ends THEN active' = FALSE /\ stopping' = FALSE ELSE UNCHANGED <<active, stopping>>
      BY <1>5 DEF Stopped
    <3>2. /\ generation' = IF restores THEN generation + 1 ELSE generation
          /\ screen' = IF restores /\ bound THEN "browser" ELSE screen
      BY <1>5 DEF Stopped
    <3> HIDE DEF ends, restores
    <3> QED
      BY <3>1, <3>2
  <2>3. UNCHANGED <<closed, ui, bound, binding, native, game, stopPending, process, embedded,
                    exits, lock, work>>
    BY <1>5 DEF Stopped, nativeVars
  <2>4. generation' \in Nat
    BY <1>1, <1>2, <2>2 DEF StateOK
  <2>5. active' \in BOOLEAN /\ stopping' \in BOOLEAN
    BY <1>1, <2>2, Zenon DEF StateOK
  <2>6. screen' \in {"browser", "loading", "game"}
    BY <1>1, <2>2 DEF StateOK
  <2>7. StateOK'
    BY <1>1, <2>3, <2>4, <2>5, <2>6 DEF StateOK
  <2> QED
    BY <1>2, <2>1, <2>3, <2>7, TypePartsNext
<1>6. CASE Finished
  <2>1. QueueOK'
    BY <1>1, <1>6, HandledTyped DEF Finished
  <2>2. StateOK' /\ UNCHANGED <<work, lock>>
    BY <1>1, <1>6 DEF Finished, StateOK, sessionVars, nativeVars
  <2> QED
    BY <1>2, <2>1, <2>2, TypePartsNext
<1>7. CASE GameExits
  <2>1. StateOK' /\ QueueOK' /\ UNCHANGED <<work, lock>>
    BY <1>1, <1>7 DEF GameExits, Killed, StateOK, QueueOK, sessionVars, controllerVars
  <2> QED
    BY <1>2, <2>1, TypePartsNext
<1>8. CASE ExitReported
  <2>1. PICK g \in exits : exits' = exits \ {g} /\ Post([kind |-> "exited", gen |-> g])
    BY <1>8 DEF ExitReported
  <2>2. [kind |-> "exited", gen |-> g] \in Events
    BY <1>1, <2>1 DEF Events, StateOK
  <2>3. QueueOK'
    BY <1>1, <2>1, <2>2, PostTyped
  <2>4. StateOK' /\ UNCHANGED <<work, lock>>
    BY <1>1, <1>8 DEF ExitReported, StateOK, sessionVars, controllerVars
  <2> QED
    BY <1>2, <2>3, <2>4, TypePartsNext
<1> QED
  BY <1>3, <1>4, <1>5, <1>6, <1>7, <1>8 DEF Callback

\* Types hold at the start ...
LEMMA TypeInit == Init => TypeOK
<1> SUFFICES ASSUME Init PROVE TypeOK
  OBVIOUS
<1>1. StateOK
  BY DEF Init, StateOK
<1>2. QueueOK
  BY DEF Init, QueueOK
<1>3. WorkOK /\ LockOK
  BY GamesAssumption DEF Init, WorkOK, LockOK, Locking
<1> QED
  BY <1>1, <1>2, <1>3, TypeParts

\* ... and are kept by every step.
LEMMA TypeKept == TypeOK /\ [Next]_vars => TypeOK'
<1> SUFFICES ASSUME TypeOK, [Next]_vars PROVE TypeOK'
  OBVIOUS
<1>1. CASE UNCHANGED vars
  BY <1>1, TypeParts, TypePartsNext
     DEF vars, sessionVars, controllerVars, nativeVars, StateOK, QueueOK, WorkOK, LockOK, Locking
<1>2. CASE Next
  BY <1>2, RequestsTyped, EmbedTyped, StopTyped, CallbacksTyped DEF Next, Work
<1> QED
  BY <1>1, <1>2

-----------------------------------------------------------------------------
(* The inductive invariant.  What a stop has in hand is never newer than   *)
(* the latest launch, and once it has stopped the latest there is no game  *)
(* and no window until the next; so the end of a stop, which makes the     *)
(* session forget its game, never comes while that game runs.              *)

Gone == process = NoProcess /\ embedded = 0

ItemOK(w) ==
    /\ w.native \in Nat /\ w.native <= native
    /\ w.kind = "cleanup" => w.asked = w.native
    /\ w.kind # "embed" /\ w.at = "stopping" => w.native = native
    /\ w.kind # "embed" /\ w.at = "finish" /\ w.native = native => Gone
WorkInv == \A t \in Threads : work[t] # NoWork => ItemOK(work[t])

EventOK(e) == e.kind = "stopped" => e.native <= native /\ (e.native = native => Gone)
QueueInv == \A i \in 1 .. Len(queue) : EventOK(queue[i])

OwnInv ==
    /\ process # NoProcess => process.native = native /\ (active \/ stopping)
    /\ embedded # 0 => embedded = native /\ (active \/ stopping)
    /\ closed => ~bound
    /\ ui = "closing" => closed
    /\ (closed /\ ui = "idle") => Gone
    /\ Retired

IInv == TypeOK /\ WorkInv /\ QueueInv /\ OwnInv

\* A step that launches nothing and leaves nothing behind where all was gone.
Mild == native' = native /\ (Gone => Gone')

\* What was true of work and of callbacks stays true in such a step.
LEMMA MildKeeps ==
    ASSUME Mild
    PROVE  /\ \A w : ItemOK(w) => ItemOK(w)'
           /\ \A e : EventOK(e) => EventOK(e)'
  BY DEF Mild, ItemOK, EventOK

\* A new launch is newer than everything under way.
LEMMA LaunchKeeps ==
    ASSUME StateOK, native' = native + 1
    PROVE  /\ \A w : ItemOK(w) /\ (w.kind = "embed" \/ w.at # "stopping") => ItemOK(w)'
           /\ \A e \in Events : EventOK(e) => EventOK(e)'
  BY DEF StateOK, ItemOK, EventOK, Events

\* One thread takes a step.
LEMMA WorkStep ==
    ASSUME WorkOK, WorkInv, Mild, NEW t \in Threads, NEW w, work' = [work EXCEPT ![t] = w],
           w # NoWork => ItemOK(w)'
    PROVE  WorkInv'
<1> SUFFICES ASSUME NEW u \in Threads, work'[u] # NoWork PROVE ItemOK(work[u])'
  BY DEF WorkInv
<1>1. work'[u] = IF u = t THEN w ELSE work[u]
  BY DEF WorkOK
<1>2. CASE u = t
  BY <1>1, <1>2 DEF ItemOK, Gone
<1>3. CASE u # t
  <2>1. ItemOK(work[u])
    BY <1>1, <1>3 DEF WorkInv
  <2>2. PICK v : v = work[u]
    OBVIOUS
  <2>3. ItemOK(v)'
    BY <2>1, <2>2, MildKeeps
  <2> QED
    BY <1>1, <1>3, <2>2, <2>3 DEF ItemOK, Gone
<1> QED
  BY <1>2, <1>3

\* New work is put in the hands of one thread.
LEMMA SpawnStep ==
    ASSUME WorkOK, WorkInv, Mild, NEW item, ItemOK(item)', Spawn(item)
    PROVE  WorkInv'
<1>1. PICK t \in Threads : work' = [work EXCEPT ![t] = item]
  BY DEF Spawn
<1> QED
  BY <1>1, WorkStep

\* No thread takes a step.
LEMMA WorkStays ==
    ASSUME WorkInv, Mild, UNCHANGED work
    PROVE  WorkInv'
<1> SUFFICES ASSUME NEW u \in Threads, work'[u] # NoWork PROVE ItemOK(work[u])'
  BY DEF WorkInv
<1>1. PICK v : v = work[u]
  OBVIOUS
<1>2. ItemOK(v)'
  BY <1>1, MildKeeps DEF WorkInv
<1> QED
  BY <1>1, <1>2 DEF ItemOK, Gone

\* Callbacks wait.
LEMMA QueueStays ==
    ASSUME QueueInv, Mild, UNCHANGED queue
    PROVE  QueueInv'
<1> SUFFICES ASSUME NEW i \in 1 .. Len(queue) PROVE EventOK(queue[i])'
  BY DEF QueueInv
<1>1. PICK e : e = queue[i]
  OBVIOUS
<1>2. EventOK(e)'
  BY <1>1, MildKeeps DEF QueueInv
<1> QED
  BY <1>1, <1>2 DEF EventOK, Gone

\* A callback is posted.
LEMMA QueuePosted ==
    ASSUME QueueOK, QueueInv, Mild, NEW e \in Events, Post(e), EventOK(e)'
    PROVE  QueueInv'
<1> SUFFICES ASSUME NEW i \in 1 .. Len(queue') PROVE EventOK(queue[i])'
  BY DEF QueueInv
<1>1. queue' = Append(queue, e) /\ queue \in Seq(Events)
  BY DEF Post, QueueOK
<1>2. CASE i = Len(queue) + 1
  <2>1. queue'[i] = e
    BY <1>1, <1>2
  <2> QED
    BY <2>1 DEF EventOK, Gone
<1>3. CASE i # Len(queue) + 1
  <2>1. i \in 1 .. Len(queue) /\ queue'[i] = queue[i]
    BY <1>1, <1>3
  <2>2. PICK f : f = queue[i]
    OBVIOUS
  <2>3. EventOK(f)'
    BY <2>1, <2>2, MildKeeps DEF QueueInv
  <2> QED
    BY <2>1, <2>2, <2>3 DEF EventOK, Gone
<1> QED
  BY <1>2, <1>3

\* A callback is taken from the queue.
LEMMA QueueHandled ==
    ASSUME QueueOK, QueueInv, Mild, NEW kind, Handled(kind)
    PROVE  QueueInv' /\ EventOK(Head(queue)) /\ Head(queue).kind = kind /\ Head(queue) \in Events
<1>1. queue' = Tail(queue) /\ queue \in Seq(Events) /\ queue # <<>> /\ Head(queue).kind = kind
  BY DEF Handled, QueueOK
<1>2. 1 \in 1 .. Len(queue) /\ Head(queue) = queue[1]
  BY <1>1
<1>3. EventOK(Head(queue))
  BY <1>2 DEF QueueInv
<1>4. ASSUME NEW i \in 1 .. Len(queue') PROVE EventOK(queue[i])'
  <2>1. i + 1 \in 1 .. Len(queue) /\ queue'[i] = queue[i + 1]
    BY <1>1, <1>4
  <2>2. PICK f : f = queue[i + 1]
    OBVIOUS
  <2>3. EventOK(f)'
    BY <2>1, <2>2, MildKeeps DEF QueueInv
  <2> QED
    BY <2>1, <2>2, <2>3 DEF EventOK, Gone
<1> QED
  BY <1>1, <1>2, <1>3, <1>4 DEF QueueInv

\* The requests that launch nothing.
LEMMA RequestsKeep ==
    ASSUME IInv, Activate \/ Deactivate \/ RequestStop \/ Close \/ CloseStops
    PROVE  WorkInv' /\ QueueInv' /\ OwnInv'
<1>1. StateOK /\ QueueOK /\ WorkOK /\ LockOK /\ WorkInv /\ QueueInv /\ OwnInv
  BY TypeParts DEF IInv
<1>2. Mild /\ UNCHANGED queue
  BY DEF Activate, Deactivate, RequestStop, Close, CloseStops, Cleared, Mild, Gone, sessionVars,
         controllerVars, nativeVars
<1>3. QueueInv'
  BY <1>1, <1>2, QueueStays
<1>4. CASE Activate
  <2>1. OwnInv'
    BY <1>1, <1>4 DEF Activate, OwnInv, Retired, Gone, nativeVars
  <2> QED
    BY <1>1, <1>2, <1>3, <1>4, <2>1, WorkStays DEF Activate
<1>5. CASE Deactivate
  <2>1. OwnInv'
    BY <1>1, <1>5 DEF Deactivate, NeedsCleanup, OwnInv, Retired, Gone, nativeVars
  <2>2. CASE Spawn(Cleanup(native))
    <3>1. PICK item : item = Cleanup(native)
      OBVIOUS
    <3>2. ItemOK(item)'
      BY <1>1, <1>2, <3>1 DEF ItemOK, Cleanup, Mild, StateOK
    <3> QED
      BY <1>1, <1>2, <1>3, <2>1, <2>2, <3>1, <3>2, SpawnStep
  <2>3. CASE UNCHANGED work
    BY <1>1, <1>2, <1>3, <2>1, <2>3, WorkStays
  <2> QED
    BY <1>5, <2>2, <2>3 DEF Deactivate
<1>6. CASE RequestStop
  <2>1. OwnInv'
    BY <1>1, <1>6 DEF RequestStop, Stop, OwnInv, Retired, Gone, sessionVars, nativeVars
  <2>2. PICK item : item = StopWork(binding)
    OBVIOUS
  <2>3. ItemOK(item)' /\ Spawn(item)
    BY <1>1, <1>2, <1>6, <2>2 DEF RequestStop, Stop, ItemOK, StopWork, Mild, StateOK
  <2> QED
    BY <1>1, <1>2, <1>3, <2>1, <2>3, SpawnStep
<1>7. CASE Close
  <2>1. OwnInv'
    BY <1>1, <1>7 DEF Close, OwnInv, Retired, Gone, controllerVars, nativeVars
  <2> QED
    BY <1>1, <1>2, <1>3, <1>7, <2>1, WorkStays DEF Close
<1>8. CASE CloseStops
  <2>1. OwnInv'
    BY <1>1, <1>8 DEF CloseStops, Cleared, OwnInv, Retired, Gone, controllerVars
  <2> QED
    BY <1>1, <1>2, <1>3, <1>8, <2>1, WorkStays DEF CloseStops
<1> QED
  BY <1>4, <1>5, <1>6, <1>7, <1>8

\* A launch comes when nothing runs, is embedded or is being stopped.
LEMMA LaunchKeepsAll ==
    ASSUME IInv, RequestLaunch
    PROVE  WorkInv' /\ QueueInv' /\ OwnInv'
<1>1. StateOK /\ QueueOK /\ WorkOK /\ LockOK /\ WorkInv /\ QueueInv /\ OwnInv
  BY TypeParts DEF IInv
<1>2. Gone /\ ~active /\ ~stopping /\ bound /\ lock = Free /\ ~closed
  BY <1>1 DEF RequestLaunch, OwnInv, Gone
<1>3. \A t \in Threads : ~Locking(work[t])
  BY <1>1, <1>2, GamesAssumption DEF LockOK
<1>4. UNCHANGED <<closed, ui, bound, embedded, queue>>
  BY DEF RequestLaunch
<1>5. \A t \in Threads : work[t] # NoWork => work[t].kind = "embed" \/ work[t].at # "stopping"
  BY <1>3 DEF Locking
<1>6. ASSUME NEW item, Spawn(item), ItemOK(item)', native' = native + 1 \/ Mild PROVE WorkInv'
  <2> SUFFICES ASSUME NEW u \in Threads, work'[u] # NoWork PROVE ItemOK(work[u])'
    BY DEF WorkInv
  <2>1. work'[u] = item \/ work'[u] = work[u]
    BY <1>1, <1>6 DEF Spawn, WorkOK
  <2>2. CASE work'[u] = item
    BY <1>6, <2>2 DEF ItemOK, Gone
  <2>3. CASE work'[u] = work[u]
    <3>1. PICK v : v = work[u]
      OBVIOUS
    <3>2. ItemOK(v) /\ (v.kind = "embed" \/ v.at # "stopping")
      BY <1>1, <1>5, <2>3, <3>1 DEF WorkInv
    <3>3. ItemOK(v)'
      BY <1>1, <1>6, <3>2, MildKeeps, LaunchKeeps
    <3> QED
      BY <2>3, <3>1, <3>3 DEF ItemOK, Gone
  <2> QED
    BY <2>1, <2>2, <2>3
<1>7. ASSUME native' = native + 1 PROVE QueueInv'
  <2> SUFFICES ASSUME NEW i \in 1 .. Len(queue) PROVE EventOK(queue[i])'
    BY <1>4 DEF QueueInv
  <2>1. PICK e : e = queue[i]
    OBVIOUS
  <2>2. e \in Events /\ EventOK(e)
    BY <1>1, <2>1 DEF QueueOK, QueueInv
  <2>3. EventOK(e)'
    BY <1>1, <1>7, <2>2, LaunchKeeps
  <2> QED
    BY <1>4, <2>1, <2>3 DEF EventOK, Gone
<1>8. CASE Launch
  <2>1. OwnInv'
    BY <1>1, <1>2, <1>4, <1>8 DEF Launch, OwnInv, Retired, Gone, StateOK
  <2>2. PICK item : item = EmbedWork(generation + 1, native + 1)
    OBVIOUS
  <2>3. Spawn(item) /\ ItemOK(item)'
    BY <1>1, <1>8, <2>2 DEF Launch, EmbedWork, ItemOK, StateOK
  <2>4. native' = native + 1
    BY <1>8 DEF Launch
  <2> QED
    BY <1>6, <1>7, <2>1, <2>3, <2>4
<1>9. CASE LaunchFails
  <2>1. Gone' /\ native' \in {native, native + 1} /\ active'
    BY <1>2, <1>4, <1>9 DEF LaunchFails, Gone
  <2>2. OwnInv'
    BY <1>1, <1>2, <1>4, <2>1 DEF OwnInv, Retired, Gone
  <2>3. PICK item : item = Cleanup(native')
    OBVIOUS
  <2>4. Spawn(item) /\ ItemOK(item)'
    BY <1>1, <1>9, <2>1, <2>3 DEF LaunchFails, Cleanup, ItemOK, StateOK
  <2>5. CASE native' = native + 1
    BY <1>6, <1>7, <2>2, <2>4, <2>5
  <2>6. CASE native' = native
    <3>1. Mild
      BY <2>1, <2>6 DEF Mild
    <3> QED
      BY <1>1, <1>4, <1>6, <2>2, <2>4, <3>1, QueueStays
  <2> QED
    BY <2>1, <2>5, <2>6
<1> QED
  BY <1>8, <1>9 DEF RequestLaunch

\* The threads.
LEMMA ThreadsKeep ==
    ASSUME IInv, NEW t \in Threads, Work(t)
    PROVE  WorkInv' /\ QueueInv' /\ OwnInv'
<1>1. StateOK /\ QueueOK /\ WorkOK /\ LockOK /\ WorkInv /\ QueueInv /\ OwnInv
  BY TypeParts DEF IInv
<1>2. UNCHANGED <<closed, ui, bound, native, active, stopping>>
  BY DEF Work, EmbedStarts, EmbedEnds, StopChecks, StopReads, StopLocks, StopStops, StopFinishes,
         StopReports, sessionVars
<1>3. UNCHANGED <<process, embedded>> => Mild /\ OwnInv'
  BY <1>1, <1>2 DEF Mild, OwnInv, Retired, Gone
<1>4. PICK v : v = work[t]
  OBVIOUS
<1>5. CASE EmbedStarts(t)
  <2>1. UNCHANGED <<process, embedded, queue>>
    BY <1>5 DEF EmbedStarts
  <2>2. work[t] \in EmbedItems /\ work[t] # NoWork
    BY <1>1, <1>5, EmbedItem DEF EmbedStarts
  <2>3. ItemOK(v)'
    BY <1>1, <1>3, <1>4, <2>1, <2>2, MildKeeps DEF WorkInv
  <2>4. CASE Done(t)
    BY <1>1, <1>3, <2>1, <2>4, WorkStep, QueueStays DEF Done
  <2>5. CASE Moves(t, "embedding")
    <3>1. PICK w : w = [work[t] EXCEPT !.at = "embedding"]
      OBVIOUS
    <3>2. w.kind = "embed" /\ w.native = v.native
      BY <1>4, <2>2, <3>1 DEF EmbedItems
    <3>3. ItemOK(w)'
      BY <2>3, <3>2 DEF ItemOK
    <3> QED
      BY <1>1, <1>3, <2>1, <2>5, <3>1, <3>3, MovesItem, WorkStep, QueueStays
  <2> QED
    BY <1>5, <2>4, <2>5 DEF EmbedStarts
<1>6. CASE EmbedEnds(t)
  <2>1. process' = process /\ Done(t)
    BY <1>6 DEF EmbedEnds
  <2>2. work[t] \in EmbedItems
    BY <1>1, <1>6, EmbedItem DEF EmbedEnds
  <2>3. embedded' = embedded \/ (process # NoProcess /\ embedded' = native)
    BY <1>1, <1>6 DEF EmbedEnds, OwnInv
  <2>4. Mild /\ OwnInv'
    BY <1>1, <1>2, <2>1, <2>3 DEF Mild, OwnInv, Retired, Gone
  <2>5. PICK kind \in {"embedded", "failed"} : Post([kind |-> kind, gen |-> work[t].gen])
    BY <1>6 DEF EmbedEnds
  <2>6. PICK e : e = [kind |-> kind, gen |-> work[t].gen]
    OBVIOUS
  <2>7. e \in Events /\ e.kind # "stopped"
    BY <2>2, <2>6 DEF Events, EmbedItems
  <2>8. EventOK(e)'
    BY <2>7 DEF EventOK
  <2> QED
    BY <1>1, <2>1, <2>4, <2>5, <2>6, <2>7, <2>8, WorkStep, QueuePosted DEF Done
<1>7. ASSUME work[t].kind \in {"stop", "cleanup"}
      PROVE  work[t] # NoWork /\ v.kind # "embed" /\ ItemOK(v)
  BY <1>1, <1>4, <1>7, KindsApart DEF WorkInv
<1>8. ASSUME work[t].kind \in {"stop", "cleanup"}, UNCHANGED queue, Mild,
             NEW place, Moves(t, place),
             \/ place \in {"lock", "stopping", "finish"}
             \/ work[t].kind = "stop" /\ place \in {"read", "report"},
             place = "stopping" => work[t].native = native,
             place = "finish" /\ work[t].native = native => Gone'
      PROVE  WorkInv' /\ QueueInv'
  <2>1. PICK w : w = [work[t] EXCEPT !.at = place]
    OBVIOUS
  <2>2. w.at = place /\ w.kind = v.kind /\ w.native = v.native /\ w.asked = v.asked
    BY <1>1, <1>4, <1>8, <2>1, StopMoves
  <2>3. ItemOK(v)'
    BY <1>7, <1>8, MildKeeps
  <2>4. ItemOK(w)'
    BY <1>4, <1>8, <2>2, <2>3 DEF ItemOK, Mild
  <2> QED
    BY <1>1, <1>8, <2>1, <2>4, MovesItem, WorkStep, QueueStays
<1>9. CASE StopChecks(t)
  <2>1. UNCHANGED <<process, embedded, queue>> /\ work[t].kind = "stop"
    BY <1>9 DEF StopChecks, nativeVars
  <2>2. PICK place \in {"read", "report"} : Moves(t, place)
    BY <1>9 DEF StopChecks
  <2> QED
    BY <1>3, <1>8, <2>1, <2>2
<1>10. CASE StopReads(t)
  <2>1. UNCHANGED <<process, embedded, queue>>
    BY <1>10 DEF StopReads, nativeVars
  <2>2. PICK w \in Items :
           /\ work' = [work EXCEPT ![t] = w] /\ w.kind = work[t].kind /\ w.at = "lock"
           /\ w.asked = work[t].asked
           /\ w.native = IF work[t].kind = "cleanup" THEN work[t].native ELSE native
    BY <1>10, StopReadsItem DEF IInv
  <2>3. ItemOK(w)'
    BY <1>1, <1>2, <1>4, <1>7, <1>10, <2>2 DEF StopReads, ItemOK, StateOK
  <2> QED
    BY <1>1, <1>3, <2>1, <2>2, <2>3, WorkStep, QueueStays
<1>11. CASE StopLocks(t)
  <2>1. UNCHANGED <<process, embedded, queue>> /\ work[t].kind \in {"stop", "cleanup"}
    BY <1>11 DEF StopLocks
  <2>2. \/ Moves(t, "stopping") /\ work[t].native = native
        \/ Moves(t, "finish") /\ work[t].native # native
    BY <1>11 DEF StopLocks
  <2> QED
    BY <1>3, <1>8, <2>1, <2>2
<1>12. CASE StopStops(t)
  <2>1. Gone' /\ Moves(t, "finish") /\ UNCHANGED queue /\ work[t].kind \in {"stop", "cleanup"}
    BY <1>12 DEF StopStops, Cleared, Gone
  <2>2. Mild /\ OwnInv'
    BY <1>1, <1>2, <2>1 DEF Mild, OwnInv, Retired, Gone
  <2> QED
    BY <1>8, <2>1, <2>2
<1>13. CASE StopFinishes(t)
  <2>1. UNCHANGED <<process, embedded>> /\ work[t].kind \in {"stop", "cleanup"}
        /\ work[t].at = "finish"
    BY <1>13 DEF StopFinishes, nativeVars
  <2>2. work[t] \in StopItems \cup CleanupItems
    BY <1>1, <2>1, StopItem, CleanupItem
  <2>3. work[t].gen \in Nat /\ work[t].native \in Nat /\ work[t].restore \in BOOLEAN
    BY <2>2 DEF StopItems, CleanupItems
  <2>4. PICK e : e = [kind |-> "stopped", gen |-> work[t].gen, native |-> work[t].native,
                      restore |-> work[t].restore]
    OBVIOUS
  <2>5. e \in Events /\ e.native = v.native
    BY <1>4, <2>3, <2>4 DEF Events
  <2>6. ItemOK(v)'
    BY <1>3, <1>7, <2>1, MildKeeps
  <2>7. EventOK(e)'
    BY <1>4, <1>7, <2>1, <2>5, <2>6 DEF ItemOK, EventOK
  <2>8. QueueInv'
    BY <1>1, <1>3, <1>13, <2>1, <2>4, <2>5, <2>7, QueuePosted DEF StopFinishes
  <2>9. CASE work[t].kind = "stop" /\ Moves(t, "report")
    <3>1. PICK w : w = [work[t] EXCEPT !.at = "report"]
      OBVIOUS
    <3>2. w.at = "report" /\ w.kind = v.kind /\ w.native = v.native /\ w.asked = v.asked
      BY <1>1, <1>4, <2>9, <3>1, StopMoves
    <3>3. ItemOK(w)'
      BY <2>6, <3>2 DEF ItemOK
    <3> QED
      BY <1>1, <1>3, <2>1, <2>8, <2>9, <3>1, <3>3, MovesItem, WorkStep
  <2>10. CASE Done(t)
    BY <1>1, <1>3, <2>1, <2>8, <2>10, WorkStep DEF Done
  <2> QED
    BY <1>13, <2>9, <2>10 DEF StopFinishes
<1>14. CASE StopReports(t)
  <2>1. UNCHANGED <<process, embedded>> /\ Done(t)
    BY <1>14 DEF StopReports, nativeVars
  <2>2. work[t] \in StopItems
    BY <1>1, <1>14, StopItem DEF StopReports
  <2>3. PICK e : e = [kind |-> "finished", binding |-> work[t].binding]
    OBVIOUS
  <2>4. e \in Events /\ e.kind # "stopped"
    BY <2>2, <2>3 DEF Events, StopItems
  <2>5. EventOK(e)'
    BY <2>4 DEF EventOK
  <2>6. QueueInv'
    BY <1>1, <1>3, <1>14, <2>1, <2>3, <2>4, <2>5, QueuePosted DEF StopReports
  <2> QED
    BY <1>1, <1>3, <2>1, <2>6, WorkStep DEF Done
<1> QED
  BY <1>5, <1>6, <1>9, <1>10, <1>11, <1>12, <1>13, <1>14 DEF Work

\* Callbacks, and what processes do.
LEMMA CallbacksKeep ==
    ASSUME IInv, Callback \/ GameExits \/ ExitReported
    PROVE  WorkInv' /\ QueueInv' /\ OwnInv'
<1>1. StateOK /\ QueueOK /\ WorkOK /\ LockOK /\ WorkInv /\ QueueInv /\ OwnInv
  BY TypeParts DEF IInv
<1>2. Mild /\ UNCHANGED <<closed, ui, bound, native, embedded>>
  BY DEF Callback, Embedded, Ended, Stopped, Finished, GameExits, ExitReported, Mild, Gone,
         sessionVars, nativeVars, controllerVars
<1>3. ASSUME UNCHANGED <<active, stopping>>, process' \in {process, NoProcess} PROVE OwnInv'
  BY <1>1, <1>2, <1>3 DEF OwnInv, Retired, Gone
<1>4. CASE Embedded
  <2>1. UNCHANGED <<active, stopping, process, work>> /\ Handled("embedded")
    BY <1>4 DEF Embedded, sessionVars, nativeVars
  <2> QED
    BY <1>1, <1>2, <1>3, <2>1, QueueHandled, WorkStays
<1>5. CASE Ended
  <2>1. UNCHANGED <<active, stopping, process>> /\ (Handled("failed") \/ Handled("exited"))
    BY <1>5 DEF Ended, sessionVars, nativeVars
  <2>2. QueueInv' /\ OwnInv'
    BY <1>1, <1>2, <1>3, <2>1, QueueHandled
  <2>3. CASE UNCHANGED work
    BY <1>1, <1>2, <2>2, <2>3, WorkStays
  <2>4. CASE Spawn(StopWork(binding))
    <3>1. PICK item : item = StopWork(binding)
      OBVIOUS
    <3>2. ItemOK(item)'
      BY <1>1, <1>2, <3>1 DEF ItemOK, StopWork, StateOK
    <3> QED
      BY <1>1, <1>2, <2>2, <2>4, <3>1, <3>2, SpawnStep
  <2> QED
    BY <1>5, <2>3, <2>4 DEF Ended, Stop
<1>6. CASE Stopped
  <2>1. Handled("stopped") /\ UNCHANGED <<process, work>>
    BY <1>6 DEF Stopped, nativeVars
  <2>2. QueueInv' /\ EventOK(Head(queue)) /\ Head(queue).kind = "stopped"
    BY <1>1, <1>2, <2>1, QueueHandled
  <2>3. StopEnds(Head(queue)) => Gone
    BY <2>2 DEF StopEnds, EventOK
  <2>4. CASE StopEnds(Head(queue))
    BY <1>1, <1>2, <2>1, <2>2, <2>3, <2>4, WorkStays DEF OwnInv, Retired, Gone
  <2>5. CASE ~StopEnds(Head(queue))
    <3>1. UNCHANGED <<active, stopping>>
      BY <1>6, <2>5 DEF Stopped
    <3> QED
      BY <1>1, <1>2, <1>3, <2>1, <2>2, <3>1, WorkStays
  <2> QED
    BY <2>4, <2>5
<1>7. CASE Finished
  <2>1. UNCHANGED <<active, stopping, process, work>> /\ Handled("finished")
    BY <1>7 DEF Finished, sessionVars, nativeVars
  <2> QED
    BY <1>1, <1>2, <1>3, <2>1, QueueHandled, WorkStays
<1>8. CASE GameExits
  <2>1. UNCHANGED <<active, stopping, work, queue>> /\ process' = NoProcess
    BY <1>8 DEF GameExits, sessionVars
  <2> QED
    BY <1>1, <1>2, <1>3, <2>1, QueueStays, WorkStays
<1>9. CASE ExitReported
  <2>1. UNCHANGED <<active, stopping, process, work>>
    BY <1>9 DEF ExitReported, sessionVars
  <2>2. PICK g \in exits : Post([kind |-> "exited", gen |-> g])
    BY <1>9 DEF ExitReported
  <2>3. PICK e : e = [kind |-> "exited", gen |-> g]
    OBVIOUS
  <2>4. e \in Events /\ e.kind # "stopped"
    BY <1>1, <2>3 DEF Events, StateOK
  <2>5. EventOK(e)'
    BY <2>4 DEF EventOK
  <2> QED
    BY <1>1, <1>2, <1>3, <2>1, <2>2, <2>3, <2>4, <2>5, QueuePosted, WorkStays
<1> QED
  BY <1>4, <1>5, <1>6, <1>7, <1>8, <1>9 DEF Callback

\* The invariant holds at the start ...
LEMMA InvInit == Init => IInv
<1> SUFFICES ASSUME Init PROVE IInv
  OBVIOUS
<1>1. TypeOK
  BY TypeInit
<1>2. WorkInv /\ QueueInv
  BY DEF Init, WorkInv, QueueInv
<1>3. OwnInv
  BY DEF Init, OwnInv, Retired, Gone
<1> QED
  BY <1>1, <1>2, <1>3 DEF IInv

\* ... and is kept by every step.
LEMMA InvKept == IInv /\ [Next]_vars => IInv'
<1> SUFFICES ASSUME IInv, [Next]_vars PROVE IInv'
  OBVIOUS
<1>1. TypeOK'
  BY TypeKept DEF IInv
<1>2. CASE UNCHANGED vars
  <2>1. UNCHANGED <<closed, ui, bound, native, active, stopping, process, embedded, work, queue>>
    BY <1>2 DEF vars, sessionVars, nativeVars
  <2>2. Mild /\ OwnInv'
    BY <2>1 DEF IInv, Mild, OwnInv, Retired, Gone
  <2> QED
    BY <1>1, <2>1, <2>2, WorkStays, QueueStays DEF IInv
<1>3. CASE Next
  BY <1>1, <1>3, RequestsKeep, LaunchKeepsAll, ThreadsKeep, CallbacksKeep DEF Next, IInv
<1> QED
  BY <1>2, <1>3

-----------------------------------------------------------------------------
\* Types, and a thread holds the native lock exactly while it embeds or
\* stops, so no two of them ever do.
THEOREM TypeCorrect == Spec => []TypeOK
  BY TypeInit, TypeKept, PTL DEF Spec

\* The session never forgets a game that runs (_runtime_active, _stopping).
THEOREM GameOwnedHolds == Spec => []GameOwned
<1>1. IInv => GameOwned
  BY DEF IInv, OwnInv, GameOwned
<1> QED
  BY <1>1, InvInit, InvKept, PTL DEF Spec

\* A game whose screen is gone is being stopped, by cleanup or by close.
THEOREM RetiredHolds == Spec => []Retired
<1>1. IInv => Retired
  BY DEF IInv, OwnInv
<1> QED
  BY <1>1, InvInit, InvKept, PTL DEF Spec

\* An embedded window belongs to the latest launch, and close leaves neither
\* a window nor a game.
THEOREM EmbeddedLatestHolds == Spec => []EmbeddedLatest
<1>1. IInv => EmbeddedLatest
  BY DEF IInv, OwnInv, EmbeddedLatest, Gone
<1> QED
  BY <1>1, InvInit, InvKept, PTL DEF Spec

\* A cleanup stops the game of the screen it was asked for by.
THEOREM CleanupStopsOwnHolds == Spec => []CleanupStopsOwn
<1>1. IInv => CleanupStopsOwn
  <2> SUFFICES ASSUME IInv, NEW t \in Threads, work[t].kind = "cleanup",
                      work[t].at = "stopping", process # NoProcess
               PROVE  process.native = work[t].asked
    BY DEF CleanupStopsOwn, Stops
  <2>1. work[t] # NoWork
    BY KindsApart
  <2> QED
    BY <2>1 DEF IInv, WorkInv, ItemOK, OwnInv
<1> QED
  BY <1>1, InvInit, InvKept, PTL DEF Spec

-----------------------------------------------------------------------------
(* How a game comes to rest.  While a game is played its generation is the *)
(* current one, and whatever ended it, its exit, a stop that was asked for *)
(* or a cleanup is on its way, with the generation and the native          *)
(* generation that make the session listen to it.                          *)

Playing == active /\ ~stopping

EventsOf(q) == {q[i] : i \in 1 .. Len(q)}
Waiting == EventsOf(queue)

\* Work beside generation g, native generation n and whether a game is played:
\* only a game that is played is of the current generation, and a stop of the
\* latest launch that will not be heard finds it retired.
WorkFits(w, g, n, playing) ==
    /\ w.kind = "embed" => w.gen <= g /\ (w.gen = g => playing)
    /\ (w.kind = "cleanup" /\ w.native = n) => ~playing
    /\ (w.kind = "stop" /\ w.at \in {"lock", "stopping", "finish"} /\ w.native = n /\ w.gen # g)
          => ~playing

\* The same of a callback.
EventFits(e, g, n, playing) ==
    /\ e.kind \in {"embedded", "failed", "exited"} => e.gen <= g /\ (e.gen = g => playing)
    /\ (e.kind = "stopped" /\ e.native = n /\ (e.restore => e.gen # g)) => ~playing

\* A stop that is asked for by the screen of binding b and will end launch n.
Coming(w, b, n) ==
    w.kind = "stop" /\ \/ w.at = "check" /\ w.binding = b
                       \/ w.at = "read"
                       \/ w.at \in {"lock", "stopping", "finish"} /\ w.native = n

StopArrives == \E e \in Waiting : e.kind = "stopped" /\ e.native = native
StopComing == StopArrives \/ \E t \in Threads : Coming(work[t], binding, native)
CleanupComing ==
    StopArrives \/ \E t \in Threads : work[t].kind = "cleanup" /\ work[t].native = native
FinishComing ==
    \/ \E e \in Waiting : e.kind = "finished" /\ e.binding = binding
    \/ \E t \in Threads : work[t].kind = "stop" /\ work[t].binding = binding
ExitComing == generation \in exits \/ \E e \in Waiting : e.kind = "exited" /\ e.gen = generation

WorkFit == \A t \in Threads : WorkFits(work[t], generation, native, Playing)
EventFit == \A e \in Waiting : EventFits(e, generation, native, Playing)
ExitFit ==
    /\ \A g \in exits : g <= generation /\ (g = generation => Playing)
    /\ process # NoProcess => process.gen <= generation /\ (process.gen = generation <=> Playing)
PlayInv == (Playing => bound) /\ (screen # "browser" => Playing)
ComingInv ==
    /\ stopping => CleanupComing
    /\ bound /\ stopPending => FinishComing
    /\ stopPending /\ Playing => StopComing
    /\ Playing /\ process = NoProcess => StopComing \/ ExitComing

\* Until close.
Rest == WorkFit /\ EventFit /\ ExitFit /\ PlayInv /\ ComingInv
RestInv == ~closed => Rest

\* The fields work has.
LEMMA WorkFields ==
    ASSUME WorkOK, NEW t \in Threads
    PROVE  /\ work[t].kind \in {"none", "embed", "cleanup", "stop"}
           /\ work[t].kind # "none" => work[t] # NoWork
           /\ work[t] = NoWork => work[t].kind = "none"
           /\ work[t].kind = "embed" => work[t].gen \in Nat /\ work[t].native \in Nat
           /\ work[t].kind = "cleanup" =>
                 /\ work[t].gen \in Nat /\ work[t].native \in Nat
                 /\ work[t].restore = FALSE /\ work[t].fixed = TRUE
           /\ work[t].kind = "stop" =>
                 /\ work[t].gen \in Nat /\ work[t].native \in Nat /\ work[t].binding \in Nat
                 /\ work[t].restore = TRUE /\ work[t].fixed = FALSE
<1>1. work[t] \in {NoWork} \cup EmbedItems \cup CleanupItems \cup StopItems
  BY DEF WorkOK, Items
<1>2. CASE work[t] = NoWork
  BY <1>2 DEF NoWork
<1>3. CASE work[t] \in EmbedItems
  BY <1>3, KindsApart DEF EmbedItems
<1>4. CASE work[t] \in CleanupItems
  BY <1>4, KindsApart DEF CleanupItems
<1>5. CASE work[t] \in StopItems
  BY <1>5, KindsApart DEF StopItems
<1> QED
  BY <1>1, <1>2, <1>3, <1>4, <1>5

\* The fields a callback has.
LEMMA EventFields ==
    ASSUME NEW e \in Events
    PROVE  /\ e.kind \in {"embedded", "failed", "exited", "stopped", "finished"}
           /\ e.kind \in {"embedded", "failed", "exited"} => e.gen \in Nat
           /\ e.kind = "stopped" => e.gen \in Nat /\ e.native \in Nat /\ e.restore \in BOOLEAN
           /\ e.kind = "finished" => e.binding \in Nat
  BY DEF Events

\* The callbacks after one was posted, and after the first was taken.
LEMMA PostedEvents ==
    ASSUME QueueOK, NEW e \in Events, Post(e)
    PROVE  Waiting' = Waiting \cup {e}
<1>1. /\ queue' = Append(queue, e) /\ Len(queue') = Len(queue) + 1 /\ Len(queue) \in Nat
      /\ \A i \in 1 .. Len(queue) : queue'[i] = queue[i]
      /\ queue'[Len(queue) + 1] = e
  BY DEF QueueOK, Post
<1>2. 1 .. Len(queue') = 1 .. Len(queue) \cup {Len(queue) + 1}
  BY <1>1
<1> QED
  BY <1>1, <1>2 DEF Waiting, EventsOf

\* The callbacks once the first has been taken.
LEMMA TakenEvents ==
    ASSUME QueueOK, NEW kind, Handled(kind)
    PROVE  /\ Head(queue) \in Waiting /\ Head(queue) \in Events /\ Head(queue).kind = kind
           /\ Waiting' \subseteq Waiting /\ Waiting \subseteq Waiting' \cup {Head(queue)}
<1>1. /\ queue' = Tail(queue) /\ queue # <<>> /\ Head(queue).kind = kind
      /\ queue \in Seq(Events) /\ Len(queue) \in Nat /\ Len(queue) # 0
  BY EmptySeq, LenProperties DEF QueueOK, Handled
<1>2. /\ Head(queue) \in Events /\ Head(queue) = queue[1] /\ Len(queue') = Len(queue) - 1
      /\ \A i \in 1 .. Len(queue') : queue'[i] = queue[i + 1]
  BY <1>1, HeadTailProperties
<1>3. 1 \in 1 .. Len(queue) /\ \A i \in 1 .. Len(queue') : i + 1 \in 1 .. Len(queue)
  BY <1>1, <1>2
<1>4. \A i \in 1 .. Len(queue) : i = 1 \/ (i - 1 \in 1 .. Len(queue') /\ queue[i] = queue'[i - 1])
  BY <1>1, <1>2
<1>5. Waiting' = {queue'[i] : i \in 1 .. Len(queue')}
  BY DEF Waiting, EventsOf
<1>6. Waiting = {queue[i] : i \in 1 .. Len(queue)}
  BY DEF Waiting, EventsOf
<1>7. Waiting' \subseteq Waiting
  BY <1>2, <1>3, <1>5, <1>6
<1>8. ASSUME NEW e \in Waiting PROVE e \in Waiting' \cup {Head(queue)}
  <2>1. PICK i \in 1 .. Len(queue) : e = queue[i]
    BY <1>6
  <2> QED
    BY <1>2, <1>4, <1>5, <2>1
<1> QED
  BY <1>1, <1>2, <1>3, <1>6, <1>7, <1>8

\* Whatever waits is a callback.
LEMMA WaitingTyped == QueueOK => Waiting \subseteq Events
  BY DEF QueueOK, Waiting, EventsOf

\* Work under way is older than a new generation.
LEMMA WorkRetired ==
    ASSUME WorkOK, NEW t \in Threads, generation \in Nat, native \in Nat,
           WorkFits(work[t], generation, native, Playing), work[t] # NoWork => ItemOK(work[t]),
           NEW g \in Nat, g > generation, NEW n, NEW p, p = FALSE \/ n = native + 1
    PROVE  WorkFits(work[t], g, n, p)
<1>1. /\ work[t].kind = "embed" => work[t].gen \in Nat /\ work[t].gen <= generation
      /\ work[t].kind \in {"stop", "cleanup"} => work[t].native \in Nat /\ work[t].native <= native
  BY WorkFields DEF WorkFits, ItemOK
<1> QED
  BY <1>1 DEF WorkFits

\* And so are the callbacks.
LEMMA EventRetired ==
    ASSUME NEW e \in Events, generation \in Nat, native \in Nat,
           EventFits(e, generation, native, Playing), EventOK(e),
           NEW g \in Nat, g > generation, NEW n, NEW p, p = FALSE \/ n = native + 1
    PROVE  EventFits(e, g, n, p)
<1>1. /\ e.kind \in {"embedded", "failed", "exited"} => e.gen \in Nat /\ e.gen <= generation
      /\ e.kind = "stopped" => e.native \in Nat /\ e.native <= native
  BY EventFields DEF EventFits, EventOK
<1> QED
  BY <1>1 DEF EventFits

\* New work of the UI thread takes no thread from other work.
LEMMA Spawned ==
    ASSUME WorkOK, NEW item, Spawn(item)
    PROVE  \E t \in Threads :
              /\ work[t].kind = "none" /\ work'[t] = item
              /\ \A u \in Threads : u # t => work'[u] = work[u]
  BY WorkFields DEF Spawn, WorkOK

\* A step that neither launches nor retires a game.
LEMMA SameTime ==
    ASSUME Rest, UNCHANGED <<generation, native, active, stopping>>,
           \A t \in Threads : WorkFits(work'[t], generation, native, Playing),
           \A e \in Waiting' : EventFits(e, generation, native, Playing),
           process' \in {process, NoProcess},
           \A g \in exits' : g \in exits \/ (process # NoProcess /\ g = process.gen),
           Playing => bound', screen' # "browser" => screen # "browser" \/ Playing,
           stopping /\ CleanupComing => CleanupComing',
           bound' /\ stopPending' => FinishComing',
           stopPending' /\ Playing => StopComing',
           Playing /\ process' = NoProcess => StopComing' \/ ExitComing'
    PROVE  Rest'
<1>1. Playing' = Playing
  BY DEF Playing
<1>2. WorkFit' /\ EventFit'
  BY <1>1 DEF WorkFit, EventFit
<1>3. ExitFit'
  BY <1>1 DEF Rest, ExitFit
<1>4. PlayInv'
  BY <1>1 DEF Rest, PlayInv
<1>5. ComingInv'
  BY <1>1 DEF Rest, ComingInv
<1> QED
  BY <1>2, <1>3, <1>4, <1>5 DEF Rest

\* A step of a thread: what it was to bring it still brings, or has posted.
LEMMA ThreadStep ==
    ASSUME Rest, WorkOK, NEW t \in Threads, NEW w, NEW posted,
           work' = [work EXCEPT ![t] = w], Waiting' = Waiting \cup posted,
           UNCHANGED <<sessionVars, controllerVars>>,
           UNCHANGED <<process, exits>> \/ (process' = NoProcess /\ exits' = Killed),
           WorkFits(w, generation, native, Playing),
           \A e \in posted : EventFits(e, generation, native, Playing),
           (work[t].kind = "cleanup" /\ work[t].native = native) =>
               \/ w.kind = "cleanup" /\ w.native = native
               \/ \E e \in posted : e.kind = "stopped" /\ e.native = native,
           (work[t].kind = "stop" /\ work[t].binding = binding) =>
               \/ w.kind = "stop" /\ w.binding = binding
               \/ \E e \in posted : e.kind = "finished" /\ e.binding = binding,
           Coming(work[t], binding, native) =>
               \/ Coming(w, binding, native)
               \/ \E e \in posted : e.kind = "stopped" /\ e.native = native
    PROVE  Rest'
<1> USE DEF sessionVars, controllerVars
<1>1. WorkFit /\ EventFit /\ ExitFit /\ PlayInv /\ ComingInv
  BY DEF Rest
<1>2. work'[t] = w /\ \A u \in Threads : u # t => work'[u] = work[u]
  BY DEF WorkOK
<1>3. \A u \in Threads : WorkFits(work'[u], generation, native, Playing)
  BY <1>1, <1>2 DEF WorkFit
<1>4. \A e \in Waiting' : EventFits(e, generation, native, Playing)
  BY <1>1 DEF EventFit
<1>5. process' \in {process, NoProcess}
      /\ \A g \in exits' : g \in exits \/ (process # NoProcess /\ g = process.gen)
  BY DEF Killed
<1>6. StopArrives => StopArrives'
  BY DEF StopArrives
<1>7. CleanupComing => CleanupComing'
  BY <1>2, <1>6 DEF CleanupComing, StopArrives
<1>8. FinishComing => FinishComing'
  BY <1>2 DEF FinishComing
<1>9. StopComing => StopComing'
  BY <1>2, <1>6 DEF StopComing, StopArrives
<1>10. ASSUME Playing, process' = NoProcess PROVE StopComing' \/ ExitComing'
  <2>1. CASE process = NoProcess
    <3>1. exits \subseteq exits'
      BY <2>1 DEF Killed
    <3>2. ExitComing => ExitComing'
      BY <3>1 DEF ExitComing
    <3> QED
      BY <1>1, <1>9, <1>10, <2>1, <3>2 DEF ComingInv
  <2>2. CASE process # NoProcess
    <3>1. process.gen = generation /\ process.gen \in exits'
      BY <1>1, <1>10, <2>2 DEF ExitFit, Killed
    <3> QED
      BY <3>1 DEF ExitComing
  <2> QED
    BY <2>1, <2>2
<1> QED
  BY <1>1, <1>3, <1>4, <1>5, <1>7, <1>8, <1>9, <1>10, SameTime DEF PlayInv, ComingInv

\* A step of a thread that posts nothing.
LEMMA QuietStep ==
    ASSUME Rest, WorkOK, NEW t \in Threads, NEW w,
           work' = [work EXCEPT ![t] = w], UNCHANGED queue,
           UNCHANGED <<sessionVars, controllerVars>>,
           UNCHANGED <<process, exits>> \/ (process' = NoProcess /\ exits' = Killed),
           WorkFits(w, generation, native, Playing),
           (work[t].kind = "cleanup" /\ work[t].native = native) =>
               w.kind = "cleanup" /\ w.native = native,
           (work[t].kind = "stop" /\ work[t].binding = binding) =>
               w.kind = "stop" /\ w.binding = binding,
           Coming(work[t], binding, native) => Coming(w, binding, native)
    PROVE  Rest'
<1> DEFINE posted == {}
<1>1. Waiting' = Waiting \cup posted /\ \A e \in posted : EventFits(e, generation, native, Playing)
  BY DEF Waiting
<1> HIDE DEF posted
<1> QED
  BY <1>1, ThreadStep

\* A step of a thread that posts a callback.
LEMMA PostStep ==
    ASSUME Rest, WorkOK, QueueOK, NEW t \in Threads, NEW w, NEW e \in Events,
           work' = [work EXCEPT ![t] = w], Post(e),
           UNCHANGED <<sessionVars, controllerVars, process, exits>>,
           WorkFits(w, generation, native, Playing),
           EventFits(e, generation, native, Playing),
           (work[t].kind = "cleanup" /\ work[t].native = native) =>
               e.kind = "stopped" /\ e.native = native,
           (work[t].kind = "stop" /\ work[t].binding = binding) =>
               \/ w.kind = "stop" /\ w.binding = binding
               \/ e.kind = "finished" /\ e.binding = binding,
           Coming(work[t], binding, native) => e.kind = "stopped" /\ e.native = native
    PROVE  Rest'
<1> DEFINE posted == {e}
<1>1. Waiting' = Waiting \cup posted /\ e \in posted
  BY PostedEvents
<1>2. \A f \in posted : EventFits(f, generation, native, Playing)
  OBVIOUS
<1> HIDE DEF posted
<1> QED
  BY <1>1, <1>2, ThreadStep

\* The thread that embeds a window.
LEMMA EmbedRests ==
    ASSUME IInv, Rest, NEW t \in Threads, EmbedStarts(t) \/ EmbedEnds(t)
    PROVE  Rest'
<1>1. WorkOK /\ QueueOK /\ WorkFit
  BY TypeParts DEF IInv, Rest
<1>2. work[t] \in EmbedItems /\ work[t].kind = "embed" /\ work[t].gen \in Nat
      /\ WorkFits(work[t], generation, native, Playing)
  BY <1>1, EmbedItem DEF EmbedStarts, EmbedEnds, EmbedItems, WorkFit
<1>3. UNCHANGED <<sessionVars, controllerVars, process, exits>>
  BY DEF EmbedStarts, EmbedEnds
<1>4. WorkFits(NoWork, generation, native, Playing) /\ ~Coming(work[t], binding, native)
  BY <1>2 DEF NoWork, WorkFits, Coming
<1>5. CASE EmbedStarts(t)
  <2>1. UNCHANGED queue
    BY <1>5 DEF EmbedStarts
  <2>2. CASE Done(t)
    BY <1>1, <1>2, <1>3, <1>4, <2>1, <2>2, QuietStep DEF Done
  <2>3. CASE Moves(t, "embedding")
    <3>1. PICK w : w = [work[t] EXCEPT !.at = "embedding"]
      OBVIOUS
    <3>2. w.kind = "embed" /\ w.gen = work[t].gen
      BY <1>2, <3>1 DEF EmbedItems
    <3>3. WorkFits(w, generation, native, Playing)
      BY <1>2, <3>2 DEF WorkFits
    <3> QED
      BY <1>1, <1>2, <1>3, <1>4, <2>1, <2>3, <3>1, <3>3, MovesItem, QuietStep
  <2> QED
    BY <1>5, <2>2, <2>3 DEF EmbedStarts
<1>6. CASE EmbedEnds(t)
  <2>1. PICK kind \in {"embedded", "failed"} : Post([kind |-> kind, gen |-> work[t].gen])
    BY <1>6 DEF EmbedEnds
  <2>2. PICK e : e = [kind |-> kind, gen |-> work[t].gen]
    OBVIOUS
  <2>3. e \in Events /\ e.kind \in {"embedded", "failed"} /\ e.gen = work[t].gen
    BY <1>2, <2>2 DEF Events
  <2>4. EventFits(e, generation, native, Playing)
    BY <1>2, <2>3 DEF EventFits, WorkFits
  <2>5. Post(e) /\ Done(t)
    BY <1>6, <2>1, <2>2 DEF EmbedEnds
  <2> QED
    BY <1>1, <1>2, <1>3, <1>4, <2>3, <2>4, <2>5, PostStep DEF Done
<1> QED
  BY <1>5, <1>6

\* A thread that stops a game, up to its end.
LEMMA StopMovesRests ==
    ASSUME IInv, Rest, ~closed, NEW t \in Threads,
           StopChecks(t) \/ StopReads(t) \/ StopLocks(t) \/ StopStops(t)
    PROVE  Rest'
<1>1. WorkOK /\ QueueOK /\ WorkFit
  BY TypeParts DEF IInv, Rest
<1>2. /\ work[t].kind \in {"stop", "cleanup"} /\ WorkFits(work[t], generation, native, Playing)
      /\ UNCHANGED queue /\ UNCHANGED <<sessionVars, controllerVars>>
      /\ UNCHANGED <<process, exits>> \/ (process' = NoProcess /\ exits' = Killed)
  BY <1>1 DEF StopChecks, StopReads, StopLocks, StopStops, WorkFit, nativeVars
<1>3. ASSUME NEW place, Moves(t, place),
             \/ place \in {"lock", "stopping", "finish"}
             \/ work[t].kind = "stop" /\ place \in {"read", "report"},
             place = "stopping" \/ place = "finish" => work[t].at \in {"lock", "stopping", "finish"},
             Coming(work[t], binding, native) =>
                 place = "read" \/ (place \in {"stopping", "finish"} /\ work[t].native = native),
             place # "lock"
      PROVE  Rest'
  <2>1. PICK w : w = [work[t] EXCEPT !.at = place]
    OBVIOUS
  <2>2. /\ w.at = place /\ w.kind = work[t].kind /\ w.native = work[t].native /\ w.gen = work[t].gen
        /\ w.kind = "stop" => w.binding = work[t].binding
    <3>1. CASE work[t].kind = "stop"
      BY <1>1, <2>1, <3>1, StopItem DEF StopItems
    <3>2. CASE work[t].kind = "cleanup"
      BY <1>1, <2>1, <3>2, CleanupItem, KindsApart DEF CleanupItems
    <3> QED
      BY <1>2, <3>1, <3>2
  <2>3. WorkFits(w, generation, native, Playing)
    BY <1>2, <1>3, <2>2 DEF WorkFits
  <2>4. Coming(work[t], binding, native) => Coming(w, binding, native)
    BY <1>3, <2>2 DEF Coming
  <2> QED
    BY <1>1, <1>2, <1>3, <2>1, <2>2, <2>3, <2>4, MovesItem, QuietStep
<1>4. CASE StopChecks(t)
  <2>1. Moves(t, IF work[t].binding = binding /\ ~closed THEN "read" ELSE "report")
    BY <1>4 DEF StopChecks
  <2> QED
    BY <1>3, <1>4, <2>1 DEF StopChecks, Coming
<1>5. CASE StopReads(t)
  <2>1. PICK w : /\ work' = [work EXCEPT ![t] = w] /\ w.kind = work[t].kind /\ w.at = "lock"
                 /\ w.gen = generation
                 /\ w.kind = "stop" => w.binding = work[t].binding
                 /\ w.native = IF work[t].kind = "cleanup" THEN work[t].native ELSE native
    BY <1>5, StopReadsItem DEF IInv
  <2>2. WorkFits(w, generation, native, Playing)
    BY <1>2, <2>1 DEF WorkFits
  <2> QED
    BY <1>1, <1>2, <2>1, <2>2, QuietStep DEF Coming
<1>6. CASE StopLocks(t)
  BY <1>3, <1>6 DEF StopLocks, Coming
<1>7. CASE StopStops(t)
  BY <1>3, <1>7 DEF StopStops, Coming
<1> QED
  BY <1>4, <1>5, <1>6, <1>7

\* A thread that has stopped a game reports it, to the session first.
LEMMA StopEndRests ==
    ASSUME IInv, Rest, NEW t \in Threads, StopFinishes(t) \/ StopReports(t)
    PROVE  Rest'
<1>1. WorkOK /\ QueueOK /\ WorkFit
  BY TypeParts DEF IInv, Rest
<1>2. /\ work[t].kind \in {"stop", "cleanup"} /\ WorkFits(work[t], generation, native, Playing)
      /\ UNCHANGED <<sessionVars, controllerVars, process, exits>>
  BY <1>1 DEF StopFinishes, StopReports, WorkFit, nativeVars
<1>3. WorkFits(NoWork, generation, native, Playing)
  BY DEF NoWork, WorkFits
<1>4. CASE StopFinishes(t)
  <2>1. /\ work[t].gen \in Nat /\ work[t].native \in Nat /\ work[t].restore \in BOOLEAN
        /\ work[t].restore <=> work[t].kind = "stop"
    BY <1>1, <1>2, WorkFields
  <2>2. PICK e : e = [kind |-> "stopped", gen |-> work[t].gen, native |-> work[t].native,
                      restore |-> work[t].restore]
    OBVIOUS
  <2>3. /\ e \in Events /\ e.kind = "stopped" /\ e.gen = work[t].gen /\ e.native = work[t].native
        /\ e.restore = work[t].restore
    BY <2>1, <2>2 DEF Events
  <2>4. work[t].at = "finish" /\ Post(e)
    BY <1>4, <2>2 DEF StopFinishes
  <2>5. EventFits(e, generation, native, Playing)
    BY <1>2, <2>1, <2>3, <2>4 DEF EventFits, WorkFits
  <2>6. Coming(work[t], binding, native) => e.native = native
    BY <2>3, <2>4 DEF Coming
  <2>7. CASE work[t].kind = "stop" /\ Moves(t, "report")
    <3>1. PICK w : w = [work[t] EXCEPT !.at = "report"]
      OBVIOUS
    <3>2. w.kind = "stop" /\ w.at = "report" /\ w.binding = work[t].binding
      BY <1>1, <2>7, <3>1, StopItem DEF StopItems
    <3>3. WorkFits(w, generation, native, Playing)
      BY <3>2 DEF WorkFits
    <3> QED
      BY <1>1, <1>2, <2>3, <2>4, <2>5, <2>6, <2>7, <3>1, <3>2, <3>3, MovesItem, PostStep
  <2>8. CASE work[t].kind = "cleanup" /\ Done(t)
    BY <1>1, <1>2, <1>3, <2>3, <2>4, <2>5, <2>6, <2>8, PostStep DEF Done
  <2> QED
    BY <1>2, <1>4, <2>7, <2>8 DEF StopFinishes
<1>5. CASE StopReports(t)
  <2>1. work[t].kind = "stop" /\ work[t].at = "report" /\ Done(t)
    BY <1>5 DEF StopReports
  <2>2. PICK e : e = [kind |-> "finished", binding |-> work[t].binding]
    OBVIOUS
  <2>3. e \in Events /\ e.kind = "finished" /\ e.binding = work[t].binding
    BY <1>1, <2>1, <2>2, WorkFields DEF Events
  <2>4. Post(e) /\ EventFits(e, generation, native, Playing) /\ ~Coming(work[t], binding, native)
    BY <1>5, <2>1, <2>2, <2>3 DEF StopReports, EventFits, Coming
  <2> QED
    BY <1>1, <1>2, <1>3, <2>1, <2>3, <2>4, PostStep DEF Done
<1> QED
  BY <1>4, <1>5

\* The process exits, and later its exit is reported.
LEMMA ExitRests ==
    ASSUME IInv, Rest, GameExits \/ ExitReported
    PROVE  Rest'
<1> USE DEF sessionVars, controllerVars
<1>1. StateOK /\ QueueOK /\ WorkFit /\ EventFit /\ ExitFit /\ PlayInv /\ ComingInv
  BY TypeParts DEF IInv, Rest
<1>2. UNCHANGED <<sessionVars, controllerVars, work>>
  BY DEF GameExits, ExitReported
<1>3. ASSUME Waiting \subseteq Waiting'
      PROVE  /\ CleanupComing => CleanupComing'
             /\ FinishComing => FinishComing'
             /\ StopComing => StopComing'
  BY <1>2, <1>3 DEF StopArrives, CleanupComing, FinishComing, StopComing
<1>4. CASE GameExits
  <2>1. Waiting' = Waiting /\ process # NoProcess /\ process' = NoProcess /\ exits' = exits \cup {process.gen}
    BY <1>4 DEF GameExits, Killed, Waiting
  <2>2. Playing => ExitComing'
    BY <1>1, <1>2, <2>1 DEF ExitFit, ExitComing
  <2>3. /\ CleanupComing => CleanupComing'
        /\ FinishComing => FinishComing'
        /\ StopComing => StopComing'
    BY <1>3, <2>1
  <2>4. /\ \A t \in Threads : WorkFits(work'[t], generation, native, Playing)
        /\ \A e \in Waiting' : EventFits(e, generation, native, Playing)
    BY <1>1, <1>2, <2>1 DEF WorkFit, EventFit
  <2> QED
    BY <1>1, <1>2, <2>1, <2>2, <2>3, <2>4, SameTime DEF PlayInv, ComingInv
<1>5. CASE ExitReported
  <2>1. PICK g \in exits : exits' = exits \ {g} /\ Post([kind |-> "exited", gen |-> g])
    BY <1>5 DEF ExitReported
  <2>2. PICK e : e = [kind |-> "exited", gen |-> g]
    OBVIOUS
  <2>3. e \in Events /\ e.kind = "exited" /\ e.gen = g
    BY <1>1, <2>1, <2>2 DEF Events, StateOK
  <2>4. Waiting' = Waiting \cup {e} /\ process' = process
    BY <1>1, <1>5, <2>1, <2>2, <2>3, PostedEvents DEF ExitReported
  <2>5. EventFits(e, generation, native, Playing)
    BY <1>1, <2>1, <2>3 DEF ExitFit, EventFits
  <2>6. ExitComing => ExitComing'
    BY <1>2, <2>1, <2>3, <2>4 DEF ExitComing
  <2>7. /\ CleanupComing => CleanupComing'
        /\ FinishComing => FinishComing'
        /\ StopComing => StopComing'
    BY <1>3, <2>4
  <2>8. /\ \A t \in Threads : WorkFits(work'[t], generation, native, Playing)
        /\ \A f \in Waiting' : EventFits(f, generation, native, Playing)
    BY <1>1, <1>2, <2>4, <2>5 DEF WorkFit, EventFit
  <2> QED
    BY <1>1, <1>2, <2>1, <2>4, <2>6, <2>7, <2>8, SameTime DEF PlayInv, ComingInv
<1> QED
  BY <1>4, <1>5

\* A new generation: what is under way is of none that counts, unless it is new.
LEMMA NewTime ==
    ASSUME IInv, Rest, generation' \in Nat, generation' > generation, ~Playing' \/ native' = native + 1,
           \A t \in Threads : work'[t] = work[t] \/ WorkFits(work'[t], generation', native', Playing'),
           Waiting' \subseteq Waiting
    PROVE  WorkFit' /\ EventFit'
<1>1. StateOK /\ WorkOK /\ QueueOK /\ WorkFit /\ EventFit /\ WorkInv /\ generation \in Nat /\ native \in Nat
  BY TypeParts DEF IInv, Rest, StateOK
<1>2. ASSUME NEW t \in Threads PROVE WorkFits(work[t], generation', native', Playing')
  BY <1>1, WorkRetired DEF WorkFit, WorkInv, Playing
<1>3. ASSUME NEW e \in Waiting PROVE EventFits(e, generation', native', Playing')
  <2>1. e \in Events /\ EventOK(e)
    BY <1>1, WaitingTyped DEF IInv, QueueInv, Waiting, EventsOf
  <2> QED
    BY <1>1, <2>1, EventRetired DEF EventFit, Playing
<1> QED
  BY <1>2, <1>3 DEF WorkFit, EventFit

\* The screen is shown and hidden.
LEMMA ScreenRests ==
    ASSUME IInv, Rest, Activate \/ Deactivate
    PROVE  Rest'
<1>1. StateOK /\ WorkOK /\ QueueOK /\ WorkFit /\ EventFit /\ ExitFit /\ PlayInv /\ ComingInv
  BY TypeParts DEF IInv, Rest
<1>2. CASE Activate
  <2>1. /\ ~Playing /\ UNCHANGED <<generation, native, active, stopping, process, exits, work>>
        /\ Waiting' = Waiting /\ stopPending' = FALSE /\ screen' = "browser"
    BY <1>1, <1>2 DEF Activate, PlayInv, nativeVars, Waiting
  <2>2. CleanupComing => CleanupComing'
    BY <2>1 DEF CleanupComing, StopArrives
  <2>3. /\ \A t \in Threads : WorkFits(work'[t], generation, native, Playing)
        /\ \A e \in Waiting' : EventFits(e, generation, native, Playing)
    BY <1>1, <2>1 DEF WorkFit, EventFit
  <2> QED
    BY <2>1, <2>2, <2>3, SameTime
<1>3. CASE Deactivate
  <2>1. /\ generation' = generation + 1 /\ generation \in Nat /\ bound' = FALSE /\ screen' = "browser"
        /\ UNCHANGED <<native, active, process, exits>> /\ Waiting' = Waiting
    BY <1>1, <1>3 DEF Deactivate, StateOK, nativeVars, Waiting
  <2>2. ~Playing'
    BY <1>3, <2>1 DEF Deactivate, NeedsCleanup, Playing
  <2>3. WorkFits(Cleanup(native), generation', native', Playing')
    BY <2>2 DEF Cleanup, WorkFits
  <2>4. CASE NeedsCleanup
    <3>1. Spawn(Cleanup(native))
      BY <1>3, <2>4 DEF Deactivate
    <3>2. PICK t \in Threads : work[t].kind = "none" /\ work'[t] = Cleanup(native)
                               /\ \A u \in Threads : u # t => work'[u] = work[u]
      BY <1>1, <3>1, Spawned
    <3>3. WorkFit' /\ EventFit'
      BY <2>1, <2>2, <2>3, <3>2, NewTime
    <3>4. CleanupComing'
      BY <2>1, <3>2 DEF CleanupComing, Cleanup
    <3>5. ExitFit' /\ PlayInv' /\ ComingInv'
      BY <1>1, <2>1, <2>2, <3>4 DEF ExitFit, PlayInv, ComingInv, StateOK
    <3> QED
      BY <3>3, <3>5 DEF Rest
  <2>5. CASE ~NeedsCleanup
    <3>1. UNCHANGED <<stopping, work>>
      BY <1>3, <2>5 DEF Deactivate
    <3>2. WorkFit' /\ EventFit'
      BY <2>1, <2>2, <3>1, NewTime
    <3>3. CleanupComing => CleanupComing'
      BY <2>1, <3>1 DEF CleanupComing, StopArrives
    <3>4. ExitFit' /\ PlayInv' /\ ComingInv'
      BY <1>1, <2>1, <2>2, <3>1, <3>3 DEF ExitFit, PlayInv, ComingInv, StateOK
    <3> QED
      BY <3>2, <3>4 DEF Rest
  <2> QED
    BY <2>4, <2>5
<1> QED
  BY <1>2, <1>3

\* A launch, which may fail.
LEMMA LaunchRests ==
    ASSUME IInv, Rest, RequestLaunch
    PROVE  Rest'
<1>1. /\ StateOK /\ WorkOK /\ QueueOK /\ WorkFit /\ EventFit /\ ExitFit /\ PlayInv /\ ComingInv
      /\ generation \in Nat /\ native \in Nat /\ OwnInv
  BY TypeParts DEF IInv, Rest, StateOK
<1>2. /\ bound /\ ~stopPending /\ ~stopping /\ ~active /\ ~Playing /\ screen = "browser"
      /\ UNCHANGED <<bound, binding, stopPending>> /\ Waiting' = Waiting
  BY <1>1 DEF RequestLaunch, Waiting, Playing, PlayInv
<1>3. CASE Launch
  <2>1. /\ generation' = generation + 1 /\ native' = native + 1
        /\ process' = [native |-> native + 1, gen |-> generation + 1] /\ exits' = exits /\ Playing'
        /\ stopping' = stopping /\ Spawn(EmbedWork(generation + 1, native + 1))
    BY <1>2, <1>3 DEF Launch, Playing
  <2>2. PICK t \in Threads :
           /\ work[t].kind = "none" /\ work'[t] = EmbedWork(generation + 1, native + 1)
           /\ \A u \in Threads : u # t => work'[u] = work[u]
    BY <1>1, <2>1, Spawned
  <2>3. WorkFits(work'[t], generation', native', Playing')
    BY <1>1, <2>1, <2>2 DEF EmbedWork, WorkFits
  <2>4. WorkFit' /\ EventFit'
    <3>1. \A u \in Threads : work'[u] = work[u] \/ WorkFits(work'[u], generation', native', Playing')
      BY <2>2, <2>3
    <3>2. generation' \in Nat /\ generation' > generation
      BY <1>1, <2>1
    <3> QED
      BY <1>2, <2>1, <3>1, <3>2, NewTime
  <2>5. process' # NoProcess
    BY <1>1, <2>1, GamesAssumption
  <2>6. ExitFit'
    BY <1>1, <2>1 DEF ExitFit, StateOK
  <2>7. PlayInv' /\ ComingInv'
    BY <1>2, <2>1, <2>5 DEF PlayInv, ComingInv
  <2> QED
    BY <2>4, <2>6, <2>7 DEF Rest
<1>4. CASE LaunchFails
  <2>1. /\ generation' = generation + 2 /\ native' \in {native, native + 1} /\ process' = process
        /\ \A g \in exits' : g \in exits \/ g = generation + 1
        /\ ~Playing' /\ screen' = screen /\ Spawn(Cleanup(native'))
    BY <1>4 DEF LaunchFails, Playing
  <2>2. PICK t \in Threads : /\ work[t].kind = "none" /\ work'[t] = Cleanup(native')
                             /\ \A u \in Threads : u # t => work'[u] = work[u]
    BY <1>1, <2>1, Spawned
  <2>3. WorkFits(work'[t], generation', native', Playing')
    BY <2>1, <2>2 DEF Cleanup, WorkFits
  <2>4. WorkFit' /\ EventFit'
    <3>1. \A u \in Threads : work'[u] = work[u] \/ WorkFits(work'[u], generation', native', Playing')
      BY <2>2, <2>3
    <3>2. generation' \in Nat /\ generation' > generation
      BY <1>1, <2>1
    <3> QED
      BY <1>2, <2>1, <3>1, <3>2, NewTime
  <2>5. ExitFit'
    <3>1. ASSUME NEW g \in exits' PROVE g <= generation' /\ g # generation'
      <4>1. g \in exits \/ g = generation + 1
        BY <2>1
      <4>2. g \in exits => g \in Nat /\ g <= generation
        BY <1>1 DEF ExitFit, StateOK
      <4>3. generation' = generation + 2
        BY <2>1
      <4> QED
        BY <1>1, <4>1, <4>2, <4>3
    <3>2. process # NoProcess => process.gen <= generation' /\ process.gen # generation'
      <4>1. process # NoProcess => process.gen \in Nat /\ process.gen <= generation
        BY <1>1 DEF ExitFit, StateOK
      <4> QED
        BY <1>1, <2>1, <4>1
    <3> QED
      BY <2>1, <3>1, <3>2 DEF ExitFit
  <2>6. CleanupComing'
    BY <2>2 DEF CleanupComing, Cleanup
  <2>7. PlayInv' /\ ComingInv'
    BY <1>2, <2>1, <2>6 DEF PlayInv, ComingInv
  <2> QED
    BY <2>4, <2>5, <2>7 DEF Rest
<1> QED
  BY <1>3, <1>4 DEF RequestLaunch

\* A stop is asked for, by the button or for a game that has ended.
LEMMA StopAsked ==
    ASSUME Rest, WorkOK, Stop, UNCHANGED <<sessionVars, process, exits>>,
           Waiting' \subseteq Waiting, StopArrives => StopArrives',
           screen' # "browser" => screen # "browser" \/ Playing
    PROVE  Rest'
<1> USE DEF sessionVars
<1>1. WorkFit /\ EventFit /\ ExitFit /\ PlayInv /\ ComingInv
  BY DEF Rest
<1>2. PICK t \in Threads : /\ work[t].kind = "none" /\ work'[t] = StopWork(binding)
                           /\ \A u \in Threads : u # t => work'[u] = work[u]
  BY Spawned DEF Stop
<1>3. /\ StopWork(binding).kind = "stop" /\ StopWork(binding).at = "check"
      /\ StopWork(binding).binding = binding
  BY DEF StopWork
<1>4. WorkFits(work'[t], generation, native, Playing) /\ Coming(work'[t], binding, native)
  BY <1>2, <1>3 DEF WorkFits, Coming
<1>5. /\ \A u \in Threads : WorkFits(work'[u], generation, native, Playing)
      /\ \A e \in Waiting' : EventFits(e, generation, native, Playing)
  BY <1>1, <1>2, <1>4 DEF WorkFit, EventFit
<1>6. StopComing' /\ FinishComing'
  BY <1>2, <1>3, <1>4 DEF StopComing, FinishComing
<1>7. CleanupComing => CleanupComing'
  BY <1>2 DEF CleanupComing
<1> QED
  BY <1>1, <1>5, <1>6, <1>7, SameTime DEF PlayInv

\* EXIT GAME.
LEMMA RequestStopRests ==
    ASSUME IInv, Rest, RequestStop
    PROVE  Rest'
<1>1. WorkOK
  BY TypeParts DEF IInv
<1>2. /\ Stop /\ UNCHANGED <<sessionVars, process, exits, screen>>
      /\ Waiting' = Waiting /\ native' = native
  BY DEF RequestStop, nativeVars, sessionVars, Waiting
<1>3. StopArrives => StopArrives'
  BY <1>2 DEF StopArrives
<1> QED
  BY <1>1, <1>2, <1>3, StopAsked

\* A callback is taken that ends no stop: no more is asked for than was.
LEMMA Heard ==
    ASSUME Rest, QueueOK, NEW kind, Handled(kind), kind # "stopped",
           UNCHANGED <<sessionVars, process, exits, work>>, stopPending' => stopPending,
           screen' # "browser" => screen # "browser" \/ Playing,
           kind = "finished" /\ stopPending' => Head(queue).binding # binding,
           kind = "exited" /\ Playing /\ Head(queue).gen = generation => StopComing
    PROVE  Rest'
<1> USE DEF sessionVars
<1>1. WorkFit /\ EventFit /\ ExitFit /\ PlayInv /\ ComingInv
  BY DEF Rest
<1>2. /\ Head(queue).kind = kind /\ Waiting' \subseteq Waiting
      /\ Waiting \subseteq Waiting' \cup {Head(queue)}
  BY TakenEvents
<1>3. StopArrives => StopArrives'
  BY <1>2 DEF StopArrives
<1>4. CleanupComing => CleanupComing'
  BY <1>3 DEF CleanupComing
<1>5. StopComing => StopComing'
  BY <1>3 DEF StopComing
<1>6. FinishComing /\ stopPending' => FinishComing'
  BY <1>2 DEF FinishComing
<1>7. ExitComing /\ Playing => ExitComing' \/ StopComing
  BY <1>2 DEF ExitComing
<1>8. /\ \A t \in Threads : WorkFits(work'[t], generation, native, Playing)
      /\ \A e \in Waiting' : EventFits(e, generation, native, Playing)
  BY <1>1, <1>2 DEF WorkFit, EventFit
<1> QED
  BY <1>1, <1>4, <1>5, <1>6, <1>7, <1>8, SameTime DEF PlayInv, ComingInv

\* What is delivered for the current generation finds its game played.
LEMMA DeliveredPlays ==
    ASSUME Rest, QueueOK, NEW kind \in {"embedded", "failed", "exited"}, Handled(kind),
           Delivered(Head(queue).gen)
    PROVE  Playing
  BY TakenEvents DEF Rest, EventFit, EventFits, Delivered

\* The window is embedded; the embedding failed or the process exited.
LEMMA GameRests ==
    ASSUME IInv, Rest, ~closed, Embedded \/ Ended
    PROVE  Rest'
<1>1. WorkOK /\ QueueOK /\ PlayInv /\ ComingInv
  BY TypeParts DEF IInv, Rest
<1>2. CASE Embedded
  <2>1. Handled("embedded") /\ UNCHANGED <<sessionVars, process, exits, work, stopPending>>
    BY <1>2 DEF Embedded, nativeVars
  <2>2. screen' # "browser" => screen # "browser" \/ Playing
    BY <1>1, <1>2, <2>1, DeliveredPlays DEF Embedded
  <2> QED
    BY <1>1, <2>1, <2>2, Heard
<1>3. CASE Ended
  <2>1. PICK kind \in {"failed", "exited"} : Handled(kind)
    BY <1>3 DEF Ended
  <2>2. UNCHANGED <<sessionVars, process, exits, native>>
    BY <1>3 DEF Ended, nativeVars, sessionVars
  <2>3. screen' # "browser" => screen # "browser" \/ Playing
    BY <1>1, <1>3, <2>1, DeliveredPlays DEF Ended
  <2>4. CASE Stop
    <3>1. Waiting' \subseteq Waiting /\ (StopArrives => StopArrives')
      BY <1>1, <2>1, <2>2, TakenEvents DEF StopArrives
    <3> QED
      BY <1>1, <2>2, <2>3, <2>4, <3>1, StopAsked
  <2>5. CASE ~Ends(Head(queue).gen) /\ UNCHANGED <<stopPending, work>>
    <3>1. Playing /\ Head(queue).gen = generation => StopComing
      BY <1>1, <2>5 DEF Ends, Delivered, PlayInv, ComingInv
    <3> QED
      BY <1>1, <2>1, <2>2, <2>3, <2>5, <3>1, Heard
  <2> QED
    BY <1>3, <2>4, <2>5 DEF Ended
<1> QED
  BY <1>2, <1>3

\* The controller is told that a stop has ended.
LEMMA FinishedRests ==
    ASSUME IInv, Rest, Finished
    PROVE  Rest'
<1>1. QueueOK
  BY TypeParts DEF IInv
<1>2. /\ Handled("finished") /\ UNCHANGED <<sessionVars, process, exits, work, screen>>
      /\ IF Head(queue).binding = binding THEN stopPending' = FALSE ELSE stopPending' = stopPending
  BY DEF Finished, nativeVars
<1> QED
  BY <1>1, <1>2, Heard

\* The session is told that a stop has ended: if it is one of the latest launch,
\* it was of the game that is played.
LEMMA StoppedRests ==
    ASSUME IInv, Rest, ~closed, Stopped
    PROVE  Rest'
<1> DEFINE done == Head(queue)
<1>1. /\ StateOK /\ WorkOK /\ QueueOK /\ WorkFit /\ EventFit /\ ExitFit /\ PlayInv /\ ComingInv
      /\ generation \in Nat
  BY TypeParts DEF IInv, Rest, StateOK
<1>2. /\ Handled("stopped")
      /\ UNCHANGED <<closed, bound, binding, native, stopPending, process, exits, work>>
  BY DEF Stopped, nativeVars
<1>3. /\ done \in Waiting /\ done \in Events /\ done.kind = "stopped"
      /\ Waiting' \subseteq Waiting /\ Waiting \subseteq Waiting' \cup {done}
  BY <1>1, <1>2, TakenEvents
<1>4. EventFits(done, generation, native, Playing)
  BY <1>1, <1>3 DEF EventFit
<1> DEFINE restores == done.native = native /\ ~closed /\ done.gen = generation /\ done.restore
<1>5. /\ IF done.native = native THEN active' = FALSE /\ stopping' = FALSE
                                 ELSE UNCHANGED <<active, stopping>>
      /\ generation' = IF restores THEN generation + 1 ELSE generation
      /\ screen' = IF restores /\ bound THEN "browser" ELSE screen
  BY DEF Stopped, StopEnds
<1>6. FinishComing => FinishComing'
  BY <1>2, <1>3 DEF FinishComing
<1>7. CASE done.native = native /\ Playing
  <2>1. restores
    BY <1>3, <1>4, <1>7, EventFields DEF EventFits
  <2>2. generation' = generation + 1 /\ ~Playing' /\ ~stopping' /\ screen' = "browser"
    BY <1>1, <1>5, <1>7, <2>1 DEF Playing, PlayInv
  <2>3. WorkFit' /\ EventFit'
    BY <1>1, <1>2, <1>3, <2>2, NewTime
  <2>4. ExitFit'
    BY <1>1, <1>2, <2>2 DEF ExitFit, StateOK
  <2>5. PlayInv' /\ ComingInv'
    BY <1>1, <1>2, <1>6, <2>2 DEF PlayInv, ComingInv
  <2> QED
    BY <2>3, <2>4, <2>5 DEF Rest
<1>8. CASE done.native = native /\ ~Playing
  <2>1. ~Playing' /\ ~stopping' /\ screen' = "browser" /\ screen = "browser"
    BY <1>1, <1>5, <1>8 DEF Playing, PlayInv
  <2>2. WorkFit' /\ EventFit' /\ ExitFit'
    <3>1. CASE restores
      <4>1. generation' = generation + 1
        BY <1>5, <3>1
      <4>2. WorkFit' /\ EventFit'
        BY <1>1, <1>2, <1>3, <2>1, <4>1, NewTime
      <4>3. ExitFit'
        BY <1>1, <1>2, <2>1, <4>1 DEF ExitFit, StateOK
      <4> QED
        BY <4>2, <4>3
    <3>2. CASE ~restores
      <4>1. generation' = generation
        BY <1>5, <3>2
      <4>2. Playing' = Playing
        BY <1>8, <2>1 DEF Playing
      <4>3. WorkFit' /\ EventFit'
        BY <1>1, <1>2, <1>3, <4>1, <4>2 DEF WorkFit, EventFit
      <4>4. ExitFit'
        BY <1>1, <1>2, <4>1, <4>2 DEF ExitFit
      <4> QED
        BY <4>3, <4>4
    <3> QED
      BY <3>1, <3>2
  <2>3. PlayInv' /\ ComingInv'
    BY <1>1, <1>2, <1>6, <2>1 DEF PlayInv, ComingInv
  <2> QED
    BY <2>2, <2>3 DEF Rest
<1>9. CASE done.native # native
  <2>1. UNCHANGED <<active, stopping, generation, screen>>
    BY <1>5, <1>9
  <2>2. StopArrives => StopArrives'
    BY <1>2, <1>3, <1>9 DEF StopArrives
  <2>3. /\ CleanupComing => CleanupComing'
        /\ StopComing => StopComing'
    BY <1>2, <2>2 DEF CleanupComing, StopComing
  <2>4. ExitComing => ExitComing'
    BY <1>2, <1>3, <2>1 DEF ExitComing
  <2>5. /\ \A t \in Threads : WorkFits(work'[t], generation, native, Playing)
        /\ \A e \in Waiting' : EventFits(e, generation, native, Playing)
    BY <1>1, <1>2, <1>3 DEF WorkFit, EventFit
  <2> QED
    BY <1>1, <1>2, <1>6, <2>1, <2>3, <2>4, <2>5, SameTime DEF PlayInv, ComingInv
<1> QED
  BY <1>7, <1>8, <1>9

\* Every step keeps it, until close.
LEMMA RestKept == IInv /\ RestInv /\ [Next]_vars => RestInv'
<1> SUFFICES ASSUME IInv, RestInv, [Next]_vars, ~closed' PROVE Rest'
  BY DEF RestInv
<1>1. CASE UNCHANGED vars
  <2>1. ~closed /\ Rest
    BY <1>1 DEF RestInv, vars
  <2> QED
    BY <1>1, <2>1 DEF vars, sessionVars, controllerVars, nativeVars, Rest, WorkFit, EventFit, ExitFit,
       PlayInv, ComingInv, CleanupComing, FinishComing, StopComing, ExitComing, StopArrives, Waiting, Playing
<1>2. CASE Next
  <2>1. ~Close /\ ~CloseStops
    BY DEF Close, CloseStops, IInv, OwnInv
  <2>2. ~closed
    <3>1. \A t \in Threads : Work(t) => closed' = closed
      BY DEF Work, EmbedStarts, EmbedEnds, StopChecks, StopReads, StopLocks, StopStops, StopFinishes,
         StopReports
    <3>2. Callback => closed' = closed
      BY DEF Callback, Embedded, Ended, Stopped, Finished
    <3> QED
      BY <1>2, <2>1, <3>1, <3>2 DEF Next, Activate, Deactivate, RequestLaunch, RequestStop,
         GameExits, ExitReported
  <2>3. Rest
    BY <2>2 DEF RestInv
  <2>4. ASSUME NEW t \in Threads, Work(t) PROVE Rest'
    BY <2>2, <2>3, <2>4, EmbedRests, StopMovesRests, StopEndRests DEF Work
  <2>5. CASE Callback
    BY <2>2, <2>3, <2>5, GameRests, FinishedRests, StoppedRests DEF Callback
  <2> QED
    BY <1>2, <2>1, <2>3, <2>4, <2>5, ScreenRests, LaunchRests, RequestStopRests, ExitRests DEF Next
<1> QED
  BY <1>1, <1>2

\* However a game ended, once every thread and callback has run the screen is
\* back in the browser and the session would launch again.
THEOREM ReturnsHolds == Spec => []Returns
<1>1. Init => RestInv
  <2> SUFFICES ASSUME Init PROVE Rest
    BY DEF RestInv
  <2>1. Waiting = {} /\ ~Playing /\ \A t \in Threads : work[t].kind = "none"
    BY DEF Init, Waiting, EventsOf, Playing, NoWork
  <2> QED
    BY <2>1 DEF Init, Rest, WorkFit, WorkFits, EventFit, ExitFit, PlayInv, ComingInv
<1>2. RestInv => Returns
  <2> SUFFICES ASSUME Rest, AtRest
               PROVE  /\ ~stopping
                      /\ bound => ~stopPending
                      /\ process = NoProcess => ~active /\ screen = "browser"
    BY DEF RestInv, AtRest, Returns
  <2>1. Waiting = {} /\ exits = {} /\ \A t \in Threads : work[t].kind = "none"
    BY DEF AtRest, Waiting, EventsOf, NoWork
  <2>2. ~CleanupComing /\ ~FinishComing /\ ~StopComing /\ ~ExitComing
    BY <2>1 DEF CleanupComing, FinishComing, StopComing, ExitComing, StopArrives, Coming
  <2> QED
    BY <2>2 DEF Rest, PlayInv, ComingInv, Playing
<1> QED
  BY <1>1, <1>2, RestKept, InvInit, InvKept, PTL DEF Spec
=============================================================================
