---------------------- MODULE SpotifyLocalPlayerProofs ----------------------
(***************************************************************************)
(* Proofs about SpotifyLocalPlayer, for any number of threads, requests    *)
(* and changes of the mode: types, and what is left running when requests  *)
(* do not overlap.                                                         *)
(***************************************************************************)
EXTENDS SpotifyLocalPlayer, TLAPS

Works == [gen : 1 .. generation, at : Places, then : Places, taken : 0 .. generation]

StateOK ==
    /\ online \in BOOLEAN /\ closed \in BOOLEAN /\ generation \in Nat
    /\ mode \in {"PLAYER", "REMOTE"} /\ busy \in BOOLEAN /\ overlapped \in BOOLEAN
    /\ pair \in 0 .. generation /\ host \in 0 .. generation /\ browser \in 0 .. generation
    /\ device \in 0 .. generation /\ ended \in 0 .. generation
WorkOK == work \in [Threads -> {NoWork} \cup Works]

\* The type invariant in two parts.
LEMMA TypeParts == TypeOK <=> StateOK /\ WorkOK
  BY DEF TypeOK, StateOK, WorkOK, Works

\* The same in the next state.
LEMMA TypePartsNext == TypeOK' <=> StateOK' /\ WorkOK'
  BY DEF TypeOK, StateOK, WorkOK, Works

\* A thread that is doing something.
LEMMA Working ==
    ASSUME TypeOK, NEW t \in Threads, work[t].at \in Places
    PROVE  work[t] # NoWork /\ work[t] \in Works
  BY TypeParts DEF WorkOK, NoWork, Places

\* A request starts one thread, for the generation it made.
LEMMA SpawnTyped ==
    ASSUME TypeOK, generation' = generation + 1, NEW first \in Places, NEW then \in Places,
           Spawn(first, then)
    PROVE  WorkOK' /\ overlapped' \in BOOLEAN
<1>1. StateOK /\ WorkOK
  BY TypeParts
<1>2. PICK t \in Threads :
         /\ work' = [work EXCEPT ![t] = Task(generation + 1, first, then, NoPair)]
         /\ overlapped' = (overlapped \/ \E u \in Threads : work[u] # NoWork)
  BY DEF Spawn
<1>3. {NoWork} \cup Works \subseteq ({NoWork} \cup Works)'
  BY <1>1 DEF StateOK, Works, NoWork
<1>4. Task(generation + 1, first, then, NoPair) \in Works'
  BY <1>1 DEF StateOK, Works, Task, NoPair
<1> QED
  BY <1>1, <1>2, <1>3, <1>4 DEF WorkOK

\* A step of a thread leaves it at some place, or done.
LEMMA MoveTyped ==
    ASSUME TypeOK, UNCHANGED generation, NEW t \in Threads, work[t].at \in Places,
           \/ Done(t)
           \/ \E place \in Places : Goes(t, place) \/ StopsThen(t, place)
    PROVE  WorkOK'
<1>1. StateOK /\ WorkOK /\ work[t] \in Works
  BY TypeParts, Working
<1>2. \A place \in Places : Task(work[t].gen, place, work[t].then, work[t].taken) \in Works
  BY <1>1 DEF Works, Task
<1>3. \A place \in Places : Task(work[t].gen, "take", place, NoPair) \in Works
  BY <1>1 DEF StateOK, Works, Task, NoPair, Places
<1>4. ASSUME NEW w \in {NoWork} \cup Works, work' = [work EXCEPT ![t] = w] PROVE WorkOK'
  BY <1>1, <1>4 DEF WorkOK, Works
<1>5. CASE Done(t)
  BY <1>4, <1>5 DEF Done
<1>6. ASSUME NEW place \in Places, Goes(t, place) PROVE WorkOK'
  <2>1. [work[t] EXCEPT !.at = place] = Task(work[t].gen, place, work[t].then, work[t].taken)
    BY <1>1 DEF Works, Task
  <2>2. work' = [work EXCEPT ![t] = [work[t] EXCEPT !.at = place]]
    BY <1>6 DEF Goes
  <2> QED
    BY <1>2, <1>4, <2>1, <2>2
<1>7. ASSUME NEW place \in Places, StopsThen(t, place) PROVE WorkOK'
  BY <1>3, <1>4, <1>7 DEF StopsThen
<1> QED
  BY <1>5, <1>6, <1>7

\* Types are kept by every step.
LEMMA TypeKept == TypeOK /\ [Next]_vars => TypeOK'
<1> SUFFICES ASSUME TypeOK, [Next]_vars PROVE TypeOK'
  OBVIOUS
<1>1. StateOK /\ WorkOK
  BY TypeParts
<1> USE DEF StateOK, NoPair, browserVars
<1>2. CASE RequestPlayer
  <2>1. WorkOK' /\ overlapped' \in BOOLEAN
    BY <1>2, SpawnTyped DEF RequestPlayer, Asks, Places
  <2>2. StateOK'
    BY <1>1, <1>2, <2>1 DEF RequestPlayer, Asks
  <2> QED
    BY <2>1, <2>2, TypePartsNext
<1>3. CASE RequestRemote
  <2>1. WorkOK' /\ overlapped' \in BOOLEAN
    BY <1>3, SpawnTyped DEF RequestRemote, Asks, GoRemote, Places
  <2>2. StateOK'
    BY <1>1, <1>3, <2>1 DEF RequestRemote, Asks, GoRemote
  <2> QED
    BY <2>1, <2>2, TypePartsNext
<1>4. CASE NetworkChanges
  <2>1. WorkOK' /\ overlapped' \in BOOLEAN
    <3>1. CASE online /\ ~closed
      BY <1>4, <3>1, SpawnTyped DEF NetworkChanges, GoRemote, Places
    <3>2. CASE ~(online /\ ~closed)
      BY <1>1, <1>4, <3>2 DEF NetworkChanges, WorkOK, Works
    <3> QED
      BY <3>1, <3>2
  <2>2. StateOK'
    <3>1. generation' \in {generation, generation + 1} /\ mode' \in {mode, "REMOTE"} /\ busy' \in {busy, TRUE}
      BY <1>4 DEF NetworkChanges, GoRemote
    <3>2. UNCHANGED <<closed, pair, host, browser, device, ended>> /\ online' = ~online
      BY <1>4 DEF NetworkChanges
    <3>3. generation' \in Nat /\ 0 .. generation \subseteq 0 .. generation'
      BY <1>1, <3>1
    <3>4. online' \in BOOLEAN /\ closed' \in BOOLEAN /\ busy' \in BOOLEAN /\ mode' \in {"PLAYER", "REMOTE"}
      BY <1>1, <3>1, <3>2
    <3> QED
      BY <1>1, <2>1, <3>2, <3>3, <3>4
  <2> QED
    BY <2>1, <2>2, TypePartsNext
<1>5. CASE Close
  <2>1. WorkOK' /\ overlapped' \in BOOLEAN
    BY <1>5, SpawnTyped DEF Close, Asks, Places
  <2>2. StateOK'
    BY <1>1, <1>5, <2>1 DEF Close, Asks
  <2> QED
    BY <2>1, <2>2, TypePartsNext
<1>6. ASSUME NEW t \in Threads, Work(t) PROVE TypeOK'
  <2>1. UNCHANGED <<generation, online, closed, overlapped>>
    BY <1>6 DEF Work, Take, Kill, Begin, Create, StartHost, LaunchBrowser, Launched, Wait, Ready, Remote, Gone, stateVars
  <2>2. work[t].at \in Places
    BY <1>6 DEF Work, Take, Kill, Begin, Create, StartHost, LaunchBrowser, Launched, Wait, Ready, Remote, Failed,
                Gone, At, Places
  <2>3. work[t] \in Works
    BY <2>2, Working
  <2>4. WorkOK'
    <3>1. CASE Take(t)
      <4>1. Task(work[t].gen, "kill", work[t].then, pair) \in Works
        BY <1>1, <2>3 DEF Works, Task, Places
      <4> QED
        BY <1>1, <2>1, <3>1, <4>1 DEF Take, WorkOK, Works
    <3>2. CASE Kill(t) \/ Begin(t) \/ Create(t)
      BY <2>1, <2>2, <2>3, <3>2, MoveTyped DEF Kill, Begin, Create, Fails, Places, Works
    <3>3. CASE StartHost(t) \/ LaunchBrowser(t)
      BY <2>1, <2>2, <3>3, MoveTyped DEF StartHost, LaunchBrowser, Fails, Places
    <3>4. CASE Launched(t) \/ Wait(t)
      BY <2>1, <2>2, <3>4, MoveTyped DEF Launched, Wait, Fails, Places
    <3>5. CASE Ready(t) \/ Remote(t) \/ Gone(t)
      BY <2>1, <2>2, <3>5, MoveTyped DEF Ready, Remote, Failed, Settle, Gone
    <3> QED
      BY <1>6, <3>1, <3>2, <3>3, <3>4, <3>5 DEF Work
  <2>5. mode' \in {"PLAYER", "REMOTE"} /\ busy' \in BOOLEAN
    <3>1. CASE Ready(t) \/ Remote(t)
      BY <1>1, <3>1 DEF Ready, Remote, Failed, RemoteMode, Settle
    <3>2. CASE ~(Ready(t) \/ Remote(t))
      BY <1>1, <1>6, <3>2 DEF Work, Take, Kill, Begin, Create, StartHost, LaunchBrowser, Launched, Wait, Gone, stateVars
    <3> QED
      BY <3>1, <3>2
  <2>6. pair' \in 0 .. generation
    BY <1>1, <1>6, <2>3 DEF Work, Take, Kill, Begin, Create, StartHost, LaunchBrowser, Launched, Wait, Ready, Remote,
                            Gone, Works
  <2>7. host' \in 0 .. generation
    BY <1>1, <1>6, <2>3 DEF Work, Take, Kill, Begin, Create, StartHost, LaunchBrowser, Launched, Wait, Ready, Remote,
                            Gone, Works
  <2>8. browser' \in 0 .. generation
    BY <1>1, <1>6, <2>3 DEF Work, Take, Kill, Begin, Create, StartHost, LaunchBrowser, Launched, Wait, Ready, Remote,
                            Gone, Works
  <2>9. UNCHANGED <<device, ended>>
    BY <1>6 DEF Work, Take, Kill, Begin, Create, StartHost, LaunchBrowser, Launched, Wait, Ready, Remote, Gone
  <2> QED
    BY <1>1, <2>1, <2>4, <2>5, <2>6, <2>7, <2>8, <2>9, TypePartsNext
<1>7. CASE UNCHANGED vars
  BY <1>7 DEF vars, stateVars, TypeOK
<1>8. CASE Registers \/ BrowserEnds
  BY <1>1, <1>8, TypePartsNext DEF Registers, BrowserEnds, stateVars, WorkOK, Works
<1> QED
  BY <1>2, <1>3, <1>4, <1>5, <1>6, <1>7, <1>8 DEF Next

-----------------------------------------------------------------------------
(* Requests one at a time.                                                 *)

Clear == pair = NoPair /\ host = NoPair /\ browser = NoPair
Lives == browser = pair \/ (browser = NoPair /\ ended = pair)
Up == pair # NoPair /\ host = pair /\ device = pair /\ Lives

\* What is left can be stopped by taking the registered pair.
Stoppable == IF pair = NoPair THEN Clear ELSE host \in {NoPair, pair}

\* What the only thread may find, by the place it has reached.
Finds(t) ==
    /\ work[t].at \in {"begin", "take"} => Stoppable
    /\ work[t].at = "kill" =>
          /\ pair = NoPair
          /\ IF work[t].taken = NoPair THEN Clear ELSE host \in {NoPair, work[t].taken}
    /\ work[t].at \in {"create", "failed", "remote", "gone"} => Clear
    /\ work[t].at = "start" => pair = generation /\ host = NoPair /\ browser = NoPair
    /\ work[t].at = "launch" => pair = generation /\ host = generation /\ browser = NoPair
    /\ work[t].at \in {"launched", "wait", "ready"}
          => pair = generation /\ host = generation /\ Lives
    /\ work[t].at = "ready" => device = generation

\* What it is there for.
Serves(t) ==
    /\ work[t].gen = generation /\ work[t].then \in {"create", "failed", "remote", "gone"}
    /\ work[t].then \in {"create", "failed"} => mode = "PLAYER" /\ busy /\ online /\ ~closed
    /\ work[t].then = "remote" => mode = "REMOTE" /\ busy /\ ~closed
    /\ work[t].then = "gone" => closed
    /\ work[t].at \notin {"take", "kill", "failed", "remote", "gone"} => work[t].then = "create"
    /\ work[t].at \in {"failed", "remote", "gone"} => work[t].then = work[t].at

Settled ==
    /\ closed \/ ~busy
    /\ closed \/ mode = "REMOTE" => Clear
    /\ ~closed /\ mode = "PLAYER" => Up

OneThread == \A t, u \in Threads : work[t] # NoWork /\ work[u] # NoWork => t = u

Calm ==
    ~overlapped => /\ OneThread
                   /\ \A t \in Threads : work[t] # NoWork => Finds(t) /\ Serves(t)
                   /\ Quiet => Settled

\* A request that overlaps no other starts the only thread.
LEMMA SpawnAlone ==
    ASSUME TypeOK, NEW first \in Places, NEW then \in Places, Spawn(first, then), ~overlapped'
    PROVE  /\ ~overlapped /\ Quiet
           /\ \E t \in Threads : /\ work'[t] = Task(generation + 1, first, then, NoPair)
                                 /\ \A u \in Threads \ {t} : work'[u] = NoWork
<1>1. StateOK /\ WorkOK
  BY TypeParts
<1>2. PICK t \in Threads :
         /\ work[t] = NoWork /\ work' = [work EXCEPT ![t] = Task(generation + 1, first, then, NoPair)]
         /\ overlapped' = (overlapped \/ \E u \in Threads : work[u] # NoWork)
  BY DEF Spawn
<1>3. ~overlapped /\ \A u \in Threads : work[u] = NoWork
  BY <1>1, <1>2 DEF StateOK
<1> QED
  BY <1>1, <1>2, <1>3 DEF WorkOK, Quiet

\* It is enough to look at the thread that was started.
LEMMA SpawnCalm ==
    ASSUME NEW t \in Threads, NEW first \in Places, NEW then \in Places,
           work'[t] = Task(generation + 1, first, then, NoPair),
           \A u \in Threads \ {t} : work'[u] = NoWork,
           (Finds(t) /\ Serves(t))'
    PROVE  Calm'
<1>1. work'[t].at = first
  BY DEF Task
<1>2. work'[t] # NoWork
  BY <1>1 DEF NoWork, Places
<1> QED
  BY <1>2 DEF Calm, OneThread, Quiet

\* A step of the only thread: where it is afterwards.
LEMMA Moved ==
    ASSUME TypeOK, Calm, ~overlapped, NEW t \in Threads, work[t].at \in Places
    PROVE  /\ Finds(t) /\ Serves(t) /\ \A u \in Threads \ {t} : work[u] = NoWork
           /\ Done(t) => \A u \in Threads : work'[u] = NoWork
           /\ \A place \in Places : Goes(t, place) =>
                /\ work'[t] = Task(work[t].gen, place, work[t].then, work[t].taken)
                /\ \A u \in Threads \ {t} : work'[u] = NoWork
           /\ \A place \in Places : StopsThen(t, place) =>
                /\ work'[t] = Task(work[t].gen, "take", place, NoPair)
                /\ \A u \in Threads \ {t} : work'[u] = NoWork
<1>1. WorkOK /\ work[t] \in Works /\ work[t] # NoWork
  BY TypeParts, Working
<1>2. \A u \in Threads \ {t} : work[u] = NoWork
  BY <1>1 DEF Calm, OneThread
<1>3. ASSUME NEW place \in Places, Goes(t, place)
      PROVE  work'[t] = Task(work[t].gen, place, work[t].then, work[t].taken)
  BY <1>1, <1>3 DEF Goes, WorkOK, Works, Task
<1>4. ASSUME NEW place \in Places, Goes(t, place) PROVE \A u \in Threads \ {t} : work'[u] = NoWork
  BY <1>1, <1>2, <1>4 DEF Goes, WorkOK
<1>5. ASSUME NEW place \in Places, StopsThen(t, place)
      PROVE  /\ work'[t] = Task(work[t].gen, "take", place, NoPair)
             /\ \A u \in Threads \ {t} : work'[u] = NoWork
  BY <1>1, <1>2, <1>5 DEF StopsThen, WorkOK
<1>6. Done(t) => \A u \in Threads : work'[u] = NoWork
  BY <1>1, <1>2 DEF Done, WorkOK
<1> QED
  BY <1>1, <1>2, <1>3, <1>4, <1>5, <1>6 DEF Calm

\* It is enough to look at the thread that moved, or at what it has left.
LEMMA MovedCalm ==
    ASSUME NEW t \in Threads, \A u \in Threads \ {t} : work'[u] = NoWork,
           \/ work'[t] = NoWork /\ Settled'
           \/ \E g, place, then, taken : /\ place \in Places /\ work'[t] = Task(g, place, then, taken)
                                         /\ (Finds(t) /\ Serves(t))'
    PROVE  Calm'
<1>1. CASE work'[t] = NoWork /\ Settled'
  BY <1>1 DEF Calm, OneThread
<1>2. ASSUME NEW g, NEW place \in Places, NEW then, NEW taken, work'[t] = Task(g, place, then, taken),
             (Finds(t) /\ Serves(t))'
      PROVE  Calm'
  <2>1. work'[t].at = place
    BY <1>2 DEF Task
  <2>2. work'[t] # NoWork
    BY <2>1 DEF NoWork, Places
  <2> QED
    BY <1>2, <2>2 DEF Calm, OneThread, Quiet
<1> QED
  BY <1>1, <1>2

\* One request at a time leaves nothing behind.
LEMMA CalmKept == TypeOK /\ Calm /\ [Next]_vars => Calm'
<1> SUFFICES ASSUME TypeOK, Calm, [Next]_vars, ~overlapped' PROVE Calm'
  BY DEF Calm
<1>0. StateOK /\ WorkOK
  BY TypeParts
<1> USE DEF browserVars
<1>1. ASSUME NEW first \in Places, NEW then \in {"create", "remote", "gone"}, Spawn(first, then),
             generation' = generation + 1, UNCHANGED <<pair, host, browserVars>>,
             first = "take" \/ (first = "begin" /\ then = "create"),
             CASE then = "create" -> mode' = "PLAYER" /\ busy' = TRUE /\ online' /\ ~closed'
               [] then = "remote" -> mode' = "REMOTE" /\ busy' = TRUE /\ ~closed'
               [] OTHER -> closed',
             ~closed
      PROVE  Calm'
  <2>0. ~overlapped /\ Quiet
    BY <1>1, SpawnAlone DEF Places
  <2>1. Stoppable
    <3>1. Settled /\ ~closed
      BY <1>1, <2>0 DEF Calm
    <3>2. CASE mode = "REMOTE"
      BY <3>1, <3>2 DEF Settled, Stoppable, Clear
    <3>3. CASE mode = "PLAYER"
      BY <3>1, <3>3 DEF Settled, Stoppable, Up
    <3> QED
      BY <1>0, <3>2, <3>3 DEF StateOK
  <2>2. PICK t \in Threads : /\ work'[t] = Task(generation + 1, first, then, NoPair)
                             /\ \A u \in Threads \ {t} : work'[u] = NoWork
    BY <1>1, SpawnAlone DEF Places
  <2>3. Finds(t)'
    BY <1>1, <2>1, <2>2 DEF Finds, Task, Stoppable, Clear
  <2>4. Serves(t)'
    BY <1>1, <2>2 DEF Serves, Task
  <2> QED
    BY <1>1, <2>2, <2>3, <2>4, SpawnCalm DEF Places
<1>2. CASE RequestPlayer
  BY <1>1, <1>2 DEF RequestPlayer, Asks, Places
<1>3. CASE RequestRemote
  BY <1>1, <1>3 DEF RequestRemote, Asks, GoRemote, Places
<1>4. CASE NetworkChanges
  <2>1. CASE online /\ ~closed
    BY <1>1, <1>4, <2>1 DEF NetworkChanges, GoRemote, Places
  <2>2. CASE ~(online /\ ~closed)
    BY <1>0, <1>4, <2>2 DEF NetworkChanges, Calm, OneThread, Finds, Serves, Quiet, Settled, Stoppable, Clear, Lives, Up, StateOK
  <2> QED
    BY <2>1, <2>2
<1>5. CASE Close
  BY <1>1, <1>5 DEF Close, Asks, Places
<1>6. CASE UNCHANGED vars
  BY <1>6 DEF vars, stateVars, Calm, OneThread, Finds, Serves, Quiet, Settled, Stoppable, Clear, Lives, Up
<1>7. ASSUME NEW t \in Threads, Work(t) PROVE Calm'
  <2>1. UNCHANGED <<generation, online, closed, overlapped>> /\ ~overlapped
    BY <1>7 DEF Work, Take, Kill, Begin, Create, StartHost, LaunchBrowser, Launched, Wait, Ready, Remote, Gone, stateVars
  <2>2. work[t].at \in Places
    BY <1>7 DEF Work, Take, Kill, Begin, Create, StartHost, LaunchBrowser, Launched, Wait, Ready, Remote, Failed,
                Gone, At, Places
  <2>3. work[t] \in Works /\ Finds(t) /\ Serves(t) /\ \A u \in Threads \ {t} : work[u] = NoWork
    BY <2>1, <2>2, Working, Moved
  <2>4. ASSUME NEW place \in Places, Goes(t, place),
               (Task(work[t].gen, place, work[t].then, work[t].taken) = work'[t]) => (Finds(t) /\ Serves(t))'
        PROVE  Calm'
    BY <2>1, <2>2, <2>4, Moved, MovedCalm
  <2>5. ASSUME NEW place \in Places, StopsThen(t, place),
               (Task(work[t].gen, "take", place, NoPair) = work'[t]) => (Finds(t) /\ Serves(t))'
        PROVE  Calm'
    BY <2>1, <2>2, <2>5, Moved, MovedCalm DEF Places
  <2>6. ASSUME Done(t), Settled' PROVE Calm'
    BY <2>1, <2>2, <2>6, Moved, MovedCalm
  <2> USE DEF At, NoPair, Clear, Stoppable, Lives
  <2>7. CASE Take(t)
    <3>1. work'[t] = Task(work[t].gen, "kill", work[t].then, pair) /\ \A u \in Threads \ {t} : work'[u] = NoWork
      BY <1>0, <2>3, <2>7 DEF Take, WorkOK
    <3>2. Finds(t)'
      BY <2>3, <2>7, <3>1 DEF Take, Finds, Task
    <3>3. Serves(t)'
      BY <2>1, <2>3, <2>7, <3>1 DEF Take, Serves, Task, stateVars
    <3> QED
      BY <3>1, <3>2, <3>3, MovedCalm DEF Places
  <2>8. CASE Kill(t)
    <3>1. work[t].then \in {"create", "failed", "remote", "gone"} /\ work[t].at = "kill"
      BY <2>3, <2>8 DEF Kill, Serves
    <3>2. Goes(t, work[t].then) /\ Clear' /\ UNCHANGED stateVars
      BY <2>3, <2>8 DEF Kill, Finds
    <3>3. ASSUME work'[t] = Task(work[t].gen, work[t].then, work[t].then, work[t].taken)
          PROVE  Finds(t)' /\ Serves(t)'
      BY <2>1, <2>3, <3>1, <3>2, <3>3 DEF Finds, Serves, Task, stateVars
    <3> QED
      BY <2>4, <3>1, <3>2, <3>3 DEF Places
  <2>9. CASE Begin(t)
    <3>1. online /\ Goes(t, "take") /\ UNCHANGED <<stateVars, pair, host, browserVars>>
      BY <2>3, <2>9 DEF Begin, Serves
    <3>2. ASSUME work'[t] = Task(work[t].gen, "take", work[t].then, work[t].taken)
          PROVE  Finds(t)' /\ Serves(t)'
      BY <2>1, <2>3, <2>9, <3>1, <3>2 DEF Begin, Finds, Serves, Task, stateVars
    <3> QED
      BY <2>4, <3>1, <3>2 DEF Places
  <2>10. ASSUME Fails(t), UNCHANGED <<stateVars, pair, host, browserVars>>, work[t].then = "create", Stoppable
         PROVE  Calm'
    <3>1. ASSUME work'[t] = Task(work[t].gen, "take", "failed", NoPair)
          PROVE  Finds(t)' /\ Serves(t)'
      BY <2>1, <2>3, <2>10, <3>1 DEF Finds, Serves, Task, stateVars
    <3> QED
      BY <2>5, <2>10, <3>1 DEF Fails, Places
  <2>11. work[t].at \in {"create", "start", "launch", "launched", "wait", "ready"} =>
           /\ work[t].then = "create" /\ Current(t) /\ online /\ Stoppable /\ mode = "PLAYER" /\ busy
           /\ work[t].gen = generation /\ generation # 0 /\ generation \in Nat
    BY <1>0, <2>3 DEF Finds, Serves, Current, Works, StateOK
  <2>12. CASE Create(t)
    <3>1. CASE Fails(t) /\ UNCHANGED pair
      BY <2>10, <2>11, <2>12, <3>1 DEF Create
    <3>2. CASE pair' = work[t].gen /\ Goes(t, "start")
      <4>1. ASSUME work'[t] = Task(work[t].gen, "start", work[t].then, work[t].taken)
            PROVE  Finds(t)' /\ Serves(t)'
        BY <2>1, <2>3, <2>11, <2>12, <3>2, <4>1 DEF Create, Finds, Serves, Task, stateVars
      <4> QED
        BY <2>4, <3>2, <4>1 DEF Places
    <3> QED
      BY <2>11, <2>12, <3>1, <3>2 DEF Create
  <2>13. CASE StartHost(t)
    <3>1. CASE Fails(t) /\ UNCHANGED host
      BY <2>10, <2>11, <2>13, <3>1 DEF StartHost
    <3>2. CASE host' = work[t].gen /\ Goes(t, "launch")
      <4>1. ASSUME work'[t] = Task(work[t].gen, "launch", work[t].then, work[t].taken)
            PROVE  Finds(t)' /\ Serves(t)'
        BY <2>1, <2>3, <2>11, <2>13, <3>2, <4>1 DEF StartHost, Finds, Serves, Task, stateVars
      <4> QED
        BY <2>4, <3>2, <4>1 DEF Places
    <3> QED
      BY <2>11, <2>13, <3>1, <3>2 DEF StartHost
  <2>14. CASE LaunchBrowser(t)
    <3>1. CASE Fails(t) /\ UNCHANGED browser
      BY <2>10, <2>11, <2>14, <3>1 DEF LaunchBrowser
    <3>2. CASE Goes(t, "launched") /\ browser' = IF browser = NoPair THEN work[t].gen ELSE browser
      <4>1. ASSUME work'[t] = Task(work[t].gen, "launched", work[t].then, work[t].taken)
            PROVE  Finds(t)' /\ Serves(t)'
        BY <2>1, <2>3, <2>11, <2>14, <3>2, <4>1 DEF LaunchBrowser, Finds, Serves, Task, stateVars
      <4> QED
        BY <2>4, <3>2, <4>1 DEF Places
    <3> QED
      BY <2>11, <2>14, <3>1, <3>2 DEF LaunchBrowser
  <2>15. CASE Launched(t)
    <3>1. CASE Fails(t)
      BY <2>10, <2>11, <2>15, <3>1 DEF Launched
    <3>2. CASE Goes(t, "wait")
      <4>1. ASSUME work'[t] = Task(work[t].gen, "wait", work[t].then, work[t].taken)
            PROVE  Finds(t)' /\ Serves(t)'
        BY <2>1, <2>3, <2>11, <2>15, <3>2, <4>1 DEF Launched, Finds, Serves, Task, stateVars
      <4> QED
        BY <2>4, <3>2, <4>1 DEF Places
    <3> QED
      BY <2>11, <2>15, <3>1, <3>2 DEF Launched
  <2>16. CASE Wait(t)
    <3>1. CASE Fails(t)
      BY <2>10, <2>11, <2>16, <3>1 DEF Wait
    <3>2. CASE device = work[t].gen /\ Goes(t, "ready")
      <4>1. ASSUME work'[t] = Task(work[t].gen, "ready", work[t].then, work[t].taken)
            PROVE  Finds(t)' /\ Serves(t)'
        BY <2>1, <2>3, <2>11, <2>16, <3>2, <4>1 DEF Wait, Finds, Serves, Task, stateVars
      <4> QED
        BY <2>4, <3>2, <4>1 DEF Places
    <3> QED
      BY <2>11, <2>16, <3>1, <3>2 DEF Wait
  <2>17. CASE Ready(t)
    <3>1. Done(t) /\ mode' = "PLAYER" /\ busy' = FALSE /\ UNCHANGED <<pair, host, browserVars>> /\ work[t].at = "ready"
      BY <2>11, <2>17 DEF Ready, Settle
    <3>2. Settled'
      BY <2>1, <2>3, <2>11, <3>1 DEF Settled, Up, Finds, Current
    <3> QED
      BY <2>6, <3>1, <3>2
  <2>18. CASE Remote(t)
    <3>1. /\ Done(t) /\ UNCHANGED <<pair, host, browserVars>> /\ work[t].at \in {"failed", "remote"}
          /\ Settle(t, "REMOTE")
      BY <2>18 DEF Remote, Failed, Settle, RemoteMode
    <3>2. Current(t) /\ Clear
      BY <2>3, <3>1 DEF Finds, Serves, Current
    <3>3. Settled'
      BY <2>1, <3>1, <3>2 DEF Settled, Settle
    <3> QED
      BY <2>6, <3>1, <3>3
  <2>19. CASE Gone(t)
    <3>1. Done(t) /\ closed /\ Clear /\ UNCHANGED <<pair, host, browserVars, stateVars>>
      BY <2>3, <2>19 DEF Gone, Finds, Serves
    <3> QED
      BY <2>1, <2>6, <3>1 DEF Settled
  <2> QED
    BY <1>7, <2>7, <2>8, <2>9, <2>12, <2>13, <2>14, <2>15, <2>16, <2>17, <2>18, <2>19 DEF Work
<1>8. CASE Registers \/ BrowserEnds
  <2>1. UNCHANGED <<online, stateVars, pair, host, work, overlapped>>
    BY <1>8 DEF Registers, BrowserEnds
  <2>2. /\ browser # NoPair /\ browser' \in {browser, NoPair} /\ device' \in {device, host}
        /\ browser' = NoPair => ended' = browser
        /\ browser' = browser => ended' = ended
    BY <1>8 DEF Registers, BrowserEnds
  <2>3. ASSUME NEW t \in Threads, work[t] # NoWork PROVE (Finds(t) /\ Serves(t))'
    BY <2>1, <2>2, <2>3 DEF Calm, Finds, Serves, Stoppable, Clear, Lives, stateVars, NoPair
  <2>4. Quiet' => Settled'
    BY <2>1, <2>2 DEF Calm, Quiet, Settled, Clear, Up, Lives, stateVars
  <2> QED
    BY <2>1, <2>3, <2>4 DEF Calm, OneThread
<1> QED
  BY <1>2, <1>3, <1>4, <1>5, <1>6, <1>7, <1>8 DEF Next

-----------------------------------------------------------------------------
(* The theorems.                                                           *)

\* Types and what one request at a time leaves, in every reachable state.
LEMMA Inductive == Spec => [](TypeOK /\ Calm)
<1>1. Init => TypeOK
  <2> SUFFICES ASSUME Init PROVE TypeOK
    OBVIOUS
  <2>1. StateOK
    <3>1. online \in BOOLEAN /\ closed \in BOOLEAN /\ busy \in BOOLEAN /\ overlapped \in BOOLEAN
      BY DEF Init
    <3>2. generation = 0 /\ pair = 0 /\ host = 0 /\ browser = 0 /\ device = 0 /\ ended = 0 /\ mode = "REMOTE"
      BY DEF Init, NoPair
    <3> QED
      BY <3>1, <3>2 DEF StateOK
  <2>2. WorkOK
    BY DEF Init, WorkOK
  <2> QED
    BY <2>1, <2>2, TypeParts
<1>2. Init => Calm
  BY DEF Init, Calm, OneThread, Quiet, Settled, Clear, NoWork
<1> QED
  BY <1>1, <1>2, TypeKept, CalmKept, PTL DEF Spec

\* Types, for any number of threads and requests; a pair is always registered
\* for a request that was made.
THEOREM TypeCorrect == Spec => []TypeOK
  BY Inductive, PTL

\* However an activation failed, the return to REMOTE mode and close() leave
\* neither the SDK host nor the browser, if requests do not overlap.
THEOREM ReleasedHolds == Spec => []Released
<1>1. TypeOK /\ Calm => Released
  BY DEF TypeOK, Calm, Settled, Clear, Released
<1> QED
  BY <1>1, Inductive, PTL

\* PLAYER mode is reported only with the host of its own request up and told of
\* its device, and with a browser that nobody has stopped, if requests do not
\* overlap.  The browser can be gone only by ending itself.
THEOREM PlayerRunsHolds == Spec => []PlayerRuns
<1>1. TypeOK /\ Calm => PlayerRuns
  <2> SUFFICES ASSUME TypeOK, Calm, mode = "PLAYER", ~busy, ~closed, ~overlapped
               PROVE  Up
    BY DEF PlayerRuns, Up, Lives
  <2>1. Quiet \/ \E t \in Threads : work[t] # NoWork
    BY DEF Quiet
  <2>2. ASSUME NEW t \in Threads, work[t] # NoWork PROVE FALSE
    BY <2>2 DEF Calm, Serves
  <2> QED
    BY <2>1, <2>2 DEF Calm, Settled, Up
<1> QED
  BY <1>1, Inductive, PTL
=============================================================================
