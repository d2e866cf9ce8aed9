--------------------------- MODULE ReceiverProofs ---------------------------
(***************************************************************************)
(* Proofs about ReceiverSession, for any number of panels and of requests: *)
(* retired sessions hold no window, SDR++ and the ADS-B service have the   *)
(* receiver one at a time, and nothing starts SDR++ after the shutdown.    *)
(***************************************************************************)
EXTENDS ReceiverSession, TLAPS

WorkOK ==
    /\ work \in [session : Sessions \cup {NoSession}, at : Places \cup {"idle"},
                 action : Launches \cup {"tune", "noaa", "track", "untrack", "none"}]
    /\ IF work.at = "idle" THEN work = Idle
       ELSE IF work.session = NoSession
       THEN /\ work.action \in {"noaa", "track", "untrack"}
            /\ work.at \in {"start", "present", "presenting", "presented", "failed"}
       ELSE work.action \in Launches \cup {"tune"}
PanelsOK ==
    /\ phase \in [Sessions -> {"new", "live", "retiring", "retired"}]
    /\ view \in [Sessions -> Kinds] /\ loading \in [Sessions -> BOOLEAN]
    /\ native \in [Sessions -> Kinds] /\ surface \in [Sessions -> Kinds]
QueueOK == queue \in Seq(Jobs) /\ requests \in 0..MaxRequests
FlagsOK ==
    /\ closed \in BOOLEAN /\ service \in {"open", "closing", "closed"}
    /\ sdrpp \in BOOLEAN /\ readsb \in BOOLEAN /\ browser \in BOOLEAN /\ stopping \in BOOLEAN
    /\ unowned \in BOOLEAN /\ stuck \in BOOLEAN /\ failed \subseteq Sessions

\* The four parts of the type invariant.
LEMMA TypeParts == TypeOK <=> WorkOK /\ PanelsOK /\ QueueOK /\ FlagsOK
  BY DEF TypeOK, WorkOK, PanelsOK, QueueOK, FlagsOK

\* The same in the next state.
LEMMA TypePartsNext == TypeOK' <=> WorkOK' /\ PanelsOK' /\ QueueOK' /\ FlagsOK'
  BY DEF TypeOK, WorkOK, PanelsOK, QueueOK, FlagsOK

\* Only Fails changes the history of failures; everything else is a choice.
LEMMA FlagsKept == TypeOK /\ Next => FlagsOK'
<1> SUFFICES ASSUME TypeOK, Next PROVE FlagsOK'
  OBVIOUS
<1>1. FlagsOK
  BY TypeParts
<1> USE DEF FlagsOK, receiverVars, serviceVars
<1>2. CASE \E s \in Sessions : Open(s) \/ Request(s) \/ Leave(s) \/ Retire(s)
  BY <1>1, <1>2 DEF Open, Request, Leave, Retire, CleanupNative, StopsAircraft
<1>3. CASE RequestNoaa \/ RequestTracking \/ Close \/ ServiceCloses \/ ServiceStops
  BY <1>1, <1>3 DEF RequestNoaa, RequestTracking, Close, ServiceCloses, ServiceStops
<1>4. CASE AircraftStops \/ SdrppExits
  BY <1>1, <1>4 DEF AircraftStops, SdrppExits
<1>5. CASE Work
  <2>1. CASE Take \/ StartOther \/ Relinquish \/ Aircraft \/ AircraftLaunched \/ Present \/ Presenting
    BY <1>1, <2>1 DEF Take, StartOther, Relinquish, Relinquished, Aircraft, AircraftLaunched, Present, Presenting
  <2>2. CASE Start \/ Presented \/ Embed \/ Embedded \/ Tune
    BY <1>1, <2>2 DEF Start, Presented, Embed, Embedded, Tune, CleanupNative, StopsAircraft
  <2>3. CASE Fails
    <3>1. UNCHANGED <<closed, service, sdrpp, readsb, browser, unowned, stuck>>
      BY <2>3 DEF Fails
    <3>2. failed' \subseteq Sessions
      BY <1>1, <2>3, TypeParts DEF Fails, WorkOK
    <3>3. stopping' \in BOOLEAN
      BY <1>1, <2>3 DEF Fails, CleanupNative, StopsAircraft
    <3> QED
      BY <1>1, <3>1, <3>2, <3>3
  <2> QED
    BY <1>5, <2>1, <2>2, <2>3 DEF Work
<1> QED
  BY <1>2, <1>3, <1>4, <1>5 DEF Next

\* Requests append jobs, the executor takes them from the front.
LEMMA QueueKept == TypeOK /\ Next => QueueOK'
<1> SUFFICES ASSUME TypeOK, Next PROVE QueueOK'
  OBVIOUS
<1>1. QueueOK
  BY TypeParts
<1> USE ReceiverAssumption DEF QueueOK
<1>2. ASSUME NEW s \in Sessions \cup {NoSession}, NEW a, [session |-> s, action |-> a] \in Jobs,
             Submit(s, a)
      PROVE  QueueOK'
  BY <1>1, <1>2 DEF Submit
<1>3. ASSUME NEW s \in Sessions, Open(s) \/ Request(s) PROVE QueueOK'
  <2>1. PICK a \in Launches \cup {"tune"} : Submit(s, a)
    BY <1>3 DEF Open, Request, Launches
  <2>2. [session |-> s, action |-> a] \in Jobs
    BY DEF Jobs
  <2> QED
    BY <1>2, <2>1, <2>2
<1>4. CASE RequestNoaa \/ RequestTracking
  <2>1. PICK a \in {"noaa", "track", "untrack"} : Submit(NoSession, a)
    BY <1>4 DEF RequestNoaa, RequestTracking
  <2>2. [session |-> NoSession, action |-> a] \in Jobs
    BY DEF Jobs
  <2> QED
    BY <1>2, <2>1, <2>2
<1>5. CASE Take
  BY <1>1, <1>5 DEF Take
<1>6. CASE \/ \E s \in Sessions : Leave(s) \/ Retire(s)
           \/ Close \/ ServiceCloses \/ ServiceStops \/ AircraftStops \/ SdrppExits
  BY <1>1, <1>6 DEF Leave, Retire, Close, ServiceCloses, ServiceStops, AircraftStops, SdrppExits,
                    executorVars
<1>7. CASE \/ Start \/ StartOther \/ Relinquish \/ Aircraft \/ AircraftLaunched \/ Present
           \/ Presenting \/ Presented \/ Embed \/ Embedded \/ Tune \/ Fails
  BY <1>1, <1>7 DEF Start, StartOther, Relinquish, Aircraft, AircraftLaunched, Present,
                    Presenting, Presented, Embed, Embedded, Tune, Fails
<1> QED
  BY <1>3, <1>4, <1>5, <1>6, <1>7 DEF Next, Work

\* The executor works for a session, or for the composition.
LEMMA WorkKept == TypeOK /\ Next => WorkOK'
<1> SUFFICES ASSUME TypeOK, Next PROVE WorkOK'
  OBVIOUS
<1>1. WorkOK
  BY TypeParts
<1> USE ReceiverAssumption DEF WorkOK, Places, Launches
<1>2. ASSUME NEW place \in Places, Goes(place), work.at # "idle",
             work.session = NoSession => place \in {"start", "present", "presenting", "presented", "failed"}
      PROVE  WorkOK'
  BY <1>1, <1>2 DEF Goes
<1>3. ASSUME Finishes PROVE WorkOK'
  BY <1>3 DEF Finishes, Idle
<1>4. ASSUME UNCHANGED work PROVE WorkOK'
  BY <1>1, <1>4
<1>5. CASE Take
  <2>1. Head(queue) \in Jobs
    BY <1>5, TypeParts DEF Take, QueueOK
  <2> QED
    BY <1>5, <2>1 DEF Take, Jobs
<1>6. CASE \/ \E s \in Sessions : Open(s) \/ Request(s) \/ Leave(s) \/ Retire(s)
           \/ RequestNoaa \/ RequestTracking \/ Close \/ ServiceCloses \/ ServiceStops
           \/ AircraftStops \/ SdrppExits
  BY <1>4, <1>6 DEF Open, Request, Leave, Retire, RequestNoaa, RequestTracking, Submit, Close,
                    ServiceCloses, ServiceStops, AircraftStops, SdrppExits, executorVars
<1>7. CASE Start \/ Relinquish \/ Aircraft \/ AircraftLaunched
  BY <1>1, <1>2, <1>3, <1>7 DEF Start, Relinquish, Aircraft, AircraftLaunched
<1>8. CASE Present \/ Presenting \/ Presented
  BY <1>1, <1>2, <1>3, <1>8 DEF Present, Presenting, Presented, Current
<1>9. CASE Embed \/ Embedded \/ Tune
  BY <1>1, <1>2, <1>3, <1>9 DEF Embed, Embedded, Tune
<1>10. CASE Fails \/ StartOther
  BY <1>1, <1>2, <1>3, <1>10 DEF Fails, StartOther
<1> QED
  BY <1>5, <1>6, <1>7, <1>8, <1>9, <1>10 DEF Next, Work

\* A clean-up resets one session.
LEMMA CleanupTyped ==
    ASSUME PanelsOK, NEW s \in Sessions, CleanupNative(s)
    PROVE  native' \in [Sessions -> Kinds] /\ surface' \in [Sessions -> Kinds]
  BY DEF PanelsOK, CleanupNative, Kinds

\* Sessions and what they show.
LEMMA PanelsKept == TypeOK /\ Next => PanelsOK'
<1> SUFFICES ASSUME TypeOK, Next PROVE PanelsOK'
  OBVIOUS
<1>1. PanelsOK /\ WorkOK
  BY TypeParts
<1> USE DEF PanelsOK, sessionVars, shownVars
<1>2. CASE \E s \in Sessions : Open(s) \/ Request(s) \/ Leave(s)
  BY <1>1, <1>2 DEF Open, Request, Leave
<1>3. CASE \E s \in Sessions : Retire(s)
  BY <1>1, <1>3, CleanupTyped DEF Retire
<1>4. CASE RequestNoaa \/ RequestTracking \/ Close \/ ServiceCloses \/ ServiceStops \/ AircraftStops \/ SdrppExits
  BY <1>1, <1>4 DEF RequestNoaa, RequestTracking, Close, ServiceCloses, ServiceStops, AircraftStops, SdrppExits
<1>5. CASE Take \/ StartOther \/ Relinquish \/ Aircraft \/ Present \/ Presenting \/ Presented
  BY <1>1, <1>5 DEF Take, StartOther, Relinquish, Aircraft, Present, Presenting, Presented
<1>6. CASE Start
  <2>1. view' \in [Sessions -> Kinds] /\ loading' \in [Sessions -> BOOLEAN]
    BY <1>1, <1>6 DEF Start
  <2>2. UNCHANGED phase /\ (CleanupNative(work.session) \/ UNCHANGED <<native, surface>>)
    BY <1>6 DEF Start
  <2>3. work.session \in Sessions
    BY <1>6 DEF Start
  <2> QED
    BY <1>1, <2>1, <2>2, <2>3, CleanupTyped
<1>7. CASE AircraftLaunched
  BY <1>1, <1>7 DEF AircraftLaunched, Kinds
<1>8. CASE Embed \/ Embedded
  <2>1. work.session \in Sessions
    BY <1>1, <1>8 DEF Embed, Embedded, WorkOK
  <2>2. view' \in [Sessions -> Kinds] /\ loading' \in [Sessions -> BOOLEAN]
    BY <1>1, <1>8, <2>1 DEF Embed, Embedded
  <2>3. Shown \in Kinds
    BY DEF Shown, Kinds
  <2> QED
    BY <1>1, <1>8, <2>1, <2>2, <2>3, CleanupTyped DEF Embed, Embedded
<1>9. CASE Tune
  <2>1. work.session \in Sessions
    BY <1>1, <1>9 DEF Tune, WorkOK
  <2>2. view' \in [Sessions -> Kinds] /\ loading' \in [Sessions -> BOOLEAN]
    BY <1>1, <1>9, <2>1 DEF Tune
  <2> QED
    BY <1>1, <1>9, <2>2 DEF Tune
<1>10. CASE Fails
  <2>1. work.session \in Sessions \cup {NoSession}
    BY <1>1 DEF WorkOK
  <2>2. view' \in [Sessions -> Kinds] /\ loading' \in [Sessions -> BOOLEAN]
    BY <1>1, <1>10, <2>1 DEF Fails, Failed
  <2>3. /\ UNCHANGED phase
        /\ \/ work.session \in Sessions /\ CleanupNative(work.session)
           \/ UNCHANGED <<native, surface>>
    BY <1>10, <2>1 DEF Fails
  <2> QED
    BY <1>1, <2>2, <2>3, CleanupTyped
<1> QED
  BY <1>2, <1>3, <1>4, <1>5, <1>6, <1>7, <1>8, <1>9, <1>10 DEF Next, Work


-----------------------------------------------------------------------------
(* The life of a session.                                                  *)

Opened(s) == phase[s] \in {"live", "retiring"}

\* One panel is open at a time, since the UI thread retires the last first.
OneOpen == \A s, t \in Sessions : Opened(s) /\ Opened(t) => s = t

\* A session does nothing before its panel is there.
Fresh ==
    \A s \in Sessions : phase[s] = "new" =>
        /\ native[s] = "none" /\ surface[s] = "none" /\ view[s] = "none"
        /\ work.session # s /\ \A i \in 1..Len(queue) : queue[i].session # s

\* A panel cannot go while the executor is under the native lock for it.
Held == work.at \in {"launching", "embedding"} => Opened(work.session)

\* The first half of Detached.
Gone == \A s \in Sessions : phase[s] = "retired" => surface[s] = "none" /\ native[s] = "none"

LifeInv == OneOpen /\ Fresh /\ Held /\ Gone

-----------------------------------------------------------------------------
(* Who has the receiver.                                                   *)

\* While a launch is under way for a session the others hold nothing.
Alone ==
    (work.at \notin {"idle", "start"} /\ work.session \in Sessions)
        => \A t \in Sessions \ {work.session} : native[t] = "none"

\* Before it embeds, and without ADS-B, the session of a launch holds nothing.
Bare ==
    (/\ work.session \in Sessions
     /\ \/ work.at \in {"relinquish", "aircraft", "launching", "present", "presenting", "presented"}
        \/ work.at = "embed" /\ work.action # "adsb")
        => native[work.session] = "none"

\* Only a launch of ADS-B relinquishes, and launches the dashboard; of what
\* the composition asks for, only NOAA starts SDR++.
Purposes ==
    /\ work.at \in {"relinquish", "aircraft", "launching"} => work.action = "adsb"
    /\ work.session = NoSession /\ work.at = "present" => work.action = "noaa"
    /\ work.session = NoSession /\ work.at = "presenting" => work.action = "noaa"

\* NOAA is asked for with no panel open, so it is through before one shows.
NoaaFirst ==
    /\ work.action = "noaa" => \A s \in Sessions : native[s] = "none"
    /\ \A i \in 1..Len(queue), s \in Sessions : queue[i].action = "noaa" /\ Opened(s) =>
          /\ native[s] = "none" /\ work.session # s
          /\ \A j \in 1..(i - 1) : queue[j].session # s

Relinquishes == work.at \in {"aircraft", "launching"} => ~sdrpp

\* Somebody answers for the ADS-B service.
Answered(receiver) == receiver => \/ stopping \/ unowned
                                  \/ \E s \in Sessions : native[s] = "adsb"

\* A dashboard is open only while a session shows it or it is being closed,
\* or because something failed to close it.
Dashboard == browser => stopping \/ stuck \/ \E s \in Sessions : native[s] = "adsb"

WorkInv == Alone /\ Bare /\ Purposes /\ NoaaFirst
ReceiverInv == Relinquishes /\ Answered(readsb) /\ Dashboard /\ OneReceiver

-----------------------------------------------------------------------------
(* The shutdown.                                                           *)

\* SDR++ comes up under the operation lock, so close waits for it.
ServiceInv == StaysClosed /\ (work.at = "presenting" => service # "closed")

-----------------------------------------------------------------------------
(* What is shown.                                                          *)

Truthful(s) == view[s] = native[s] /\ view[s] = surface[s]

\* A launch in progress says so until it is over or has failed.
SaysLoading ==
    (/\ work.session \in Sessions
     /\ \/ work.at \in {"relinquish", "aircraft", "launching", "present", "presenting",
                        "presented", "embed", "embedding"}
        \/ work.at = "failed" /\ work.action \in Launches)
        => loading[work.session]

\* What is embedded is what the action shows; only tuning tunes.
EmbedsShown ==
    /\ work.at = "embedding" => native[work.session] = Shown
    /\ work.at = "tune" => work.action = "tune" /\ work.session \in Sessions

Explained ==
    \A s \in Sessions : phase[s] = "live" /\ s \notin failed =>
        \/ Truthful(s)
        \/ work.session = s /\ work.at \notin {"idle", "start", "tune"} /\ loading[s]

ShownInv == SaysLoading /\ EmbedsShown /\ Explained

\* A clean-up leaves the other sessions as they are.
LEMMA CleanupDone ==
    ASSUME PanelsOK, NEW s \in Sessions, CleanupNative(s)
    PROVE  /\ native'[s] = "none" /\ surface'[s] = "none"
           /\ \A t \in Sessions \ {s} : native'[t] = native[t] /\ surface'[t] = surface[t]
           /\ native[s] = "adsb" => stopping'
           /\ stopping => stopping'
           /\ stopping' => stopping \/ native[s] = "adsb"
  BY DEF PanelsOK, CleanupNative, StopsAircraft

\* A request goes to the end of the queue.
LEMMA SubmitDone ==
    ASSUME QueueOK, NEW s, NEW a, Submit(s, a), [session |-> s, action |-> a] \in Jobs
    PROVE  /\ Len(queue') = Len(queue) + 1 /\ Len(queue) \in Nat
           /\ \A i \in 1..Len(queue) : queue'[i] = queue[i]
           /\ queue'[Len(queue) + 1] = [session |-> s, action |-> a]
  BY DEF QueueOK, Submit

\* The executor takes the first job.
LEMMA TakeDone ==
    ASSUME QueueOK, Take
    PROVE  /\ Len(queue') = Len(queue) - 1 /\ Len(queue) \in Nat \ {0}
           /\ \A i \in 1..Len(queue') : queue'[i] = queue[i + 1]
           /\ work' = [session |-> queue[1].session, action |-> queue[1].action, at |-> "start"]
  BY DEF QueueOK, Take

\* The life of a session is that of its panel, whoever is at work for it.
LEMMA LifeKept == TypeOK /\ LifeInv /\ Next => LifeInv'
<1> SUFFICES ASSUME TypeOK, LifeInv, Next PROVE LifeInv'
  OBVIOUS
<1>0. WorkOK /\ PanelsOK /\ QueueOK
  BY TypeParts
<1> USE ReceiverAssumption DEF LifeInv, Opened
<1>1. ASSUME NEW s \in Sessions, Open(s) PROVE LifeInv'
  <2>1. PICK a \in Launches : Submit(s, a)
    BY <1>1 DEF Open
  <2>2. [session |-> s, action |-> a] \in Jobs
    BY DEF Jobs
  <2>3. /\ phase[s] = "new" /\ phase'[s] = "live" /\ \A t \in Sessions \ {s} : phase'[t] = phase[t]
        /\ NothingOpen /\ UNCHANGED <<work, native, surface, view>>
    BY <1>0, <1>1, <2>1 DEF Open, Submit, PanelsOK, shownVars
  <2>4. OneOpen' /\ Held' /\ Gone'
    BY <1>0, <2>3 DEF OneOpen, Held, Gone, NothingOpen, WorkOK
  <2>5. Fresh'
    BY <1>0, <2>1, <2>2, <2>3, SubmitDone DEF Fresh
  <2> QED
    BY <2>4, <2>5
<1>2. ASSUME NEW s \in Sessions, Request(s) PROVE LifeInv'
  <2>1. PICK a \in Launches \cup {"tune"} : Submit(s, a)
    BY <1>2 DEF Request, Launches
  <2>2. [session |-> s, action |-> a] \in Jobs
    BY DEF Jobs
  <2>3. phase[s] = "live" /\ UNCHANGED <<phase, work, native, surface, view>>
    BY <1>2, <2>1 DEF Request, Submit, sessionVars, shownVars
  <2>4. OneOpen' /\ Held' /\ Gone'
    BY <2>3 DEF OneOpen, Held, Gone
  <2>5. Fresh'
    BY <1>0, <2>1, <2>2, <2>3, SubmitDone DEF Fresh
  <2> QED
    BY <2>4, <2>5
<1>3. CASE RequestNoaa \/ RequestTracking
  <2>1. PICK a \in {"noaa", "track", "untrack"} : Submit(NoSession, a)
    BY <1>3 DEF RequestNoaa, RequestTracking
  <2>2. [session |-> NoSession, action |-> a] \in Jobs
    BY DEF Jobs
  <2>3. UNCHANGED <<phase, work, native, surface, view>>
    BY <1>3, <2>1 DEF RequestNoaa, RequestTracking, Submit, sessionVars, shownVars
  <2>4. OneOpen' /\ Held' /\ Gone'
    BY <2>3 DEF OneOpen, Held, Gone
  <2>5. Fresh'
    BY <1>0, <2>1, <2>2, <2>3, SubmitDone DEF Fresh
  <2> QED
    BY <2>4, <2>5
<1>4. ASSUME NEW s \in Sessions, Leave(s) PROVE LifeInv'
  <2>1. /\ phase[s] = "live" /\ phase'[s] = "retiring" /\ \A t \in Sessions \ {s} : phase'[t] = phase[t]
        /\ UNCHANGED <<work, native, surface, view, queue>>
    BY <1>0, <1>4 DEF Leave, PanelsOK, shownVars, executorVars
  <2>2. Held'
    BY <1>0, <2>1 DEF Held, WorkOK
  <2> QED
    BY <2>1, <2>2 DEF OneOpen, Gone, Fresh
<1>5. ASSUME NEW s \in Sessions, Retire(s) PROVE LifeInv'
  <2>1. /\ phase[s] = "retiring" /\ phase'[s] = "retired" /\ \A t \in Sessions \ {s} : phase'[t] = phase[t]
        /\ ~NativeLocked(s) /\ CleanupNative(s) /\ UNCHANGED <<work, view, queue>>
    BY <1>0, <1>5 DEF Retire, MayRetire, PanelsOK, shownVars, executorVars
  <2>2. Held'
    BY <1>0, <2>1 DEF Held, NativeLocked, WorkOK
  <2> QED
    BY <1>0, <2>1, <2>2, CleanupDone DEF OneOpen, Gone, Fresh
<1>6. CASE Close
  <2>1. /\ phase' = [s \in Sessions |-> IF phase[s] = "live" THEN "retiring" ELSE phase[s]]
        /\ UNCHANGED <<work, native, surface, view, queue>>
    BY <1>6 DEF Close, shownVars, executorVars
  <2>2. Held'
    BY <1>0, <2>1 DEF Held, WorkOK
  <2> QED
    BY <2>1, <2>2 DEF OneOpen, Gone, Fresh
<1>7. CASE ServiceCloses \/ ServiceStops \/ AircraftStops \/ SdrppExits
  BY <1>7 DEF ServiceCloses, ServiceStops, AircraftStops, SdrppExits, executorVars, sessionVars,
              shownVars, OneOpen, Gone, Fresh, Held
<1>8. CASE Take
  <2>1. UNCHANGED <<phase, native, surface, view>> /\ work'.at = "start"
    BY <1>8 DEF Take, sessionVars, shownVars
  <2>2. Fresh'
    BY <1>0, <1>8, <2>1, TakeDone DEF Fresh
  <2> QED
    BY <2>1, <2>2 DEF OneOpen, Gone, Held
<1>9. ASSUME Finishes \/ (\E place \in Places \ {"launching", "embedding"} : Goes(place)),
             UNCHANGED <<phase, queue, view, native, surface>>
      PROVE  LifeInv'
  <2>1. work'.at \notin {"launching", "embedding"} /\ work'.session \in {work.session, NoSession}
    BY <1>0, <1>9 DEF Finishes, Goes, Idle, WorkOK
  <2> QED
    BY <1>9, <2>1 DEF OneOpen, Fresh, Gone, Held
<1>10. ASSUME Finishes \/ (\E place \in Places \ {"launching", "embedding"} : Goes(place)),
              UNCHANGED <<phase, queue, view>>, work.session \in Sessions, CleanupNative(work.session)
       PROVE  LifeInv'
  <2>1. work'.at \notin {"launching", "embedding"} /\ work'.session \in {work.session, NoSession}
    BY <1>0, <1>10 DEF Finishes, Goes, Idle, WorkOK
  <2> QED
    BY <1>0, <1>10, <2>1, CleanupDone DEF OneOpen, Fresh, Gone, Held
<1>11. CASE Start
  BY <1>9, <1>10, <1>11 DEF Start, Places
<1>12. CASE StartOther \/ Relinquish \/ Present \/ Presenting \/ Presented \/ Tune
  BY <1>9, <1>12 DEF StartOther, Relinquish, Present, Presenting, Presented, Tune, Places, sessionVars, shownVars
<1>13. CASE Fails
  BY <1>0, <1>9, <1>10, <1>13 DEF Fails, WorkOK
<1>14. CASE Aircraft
  <2>1. UNCHANGED <<phase, queue, view, native, surface>>
    BY <1>14 DEF Aircraft, sessionVars, shownVars
  <2>2. CASE Finishes \/ Goes("failed")
    BY <1>9, <2>1, <2>2 DEF Places
  <2>3. CASE Current(work.session) /\ Goes("launching")
    BY <1>0, <2>1, <2>3 DEF Goes, Current, OneOpen, Fresh, Gone, Held, WorkOK
  <2> QED
    BY <1>14, <2>2, <2>3 DEF Aircraft
<1>15. CASE AircraftLaunched
  <2>1. CASE Goes("failed") /\ UNCHANGED native
    BY <1>9, <1>15, <2>1 DEF AircraftLaunched, Places, shownVars
  <2>2. CASE Goes("embed") /\ native' = [native EXCEPT ![work.session] = "adsb"]
    <3>1. work.session \in Sessions /\ Opened(work.session)
      BY <1>0, <1>15 DEF AircraftLaunched, Held, WorkOK
    <3>2. UNCHANGED <<phase, queue, view, surface>> /\ work'.session = work.session /\ work'.at = "embed"
      BY <1>0, <1>15, <2>2 DEF AircraftLaunched, shownVars, Goes, WorkOK
    <3> QED
      BY <1>0, <2>2, <3>1, <3>2 DEF OneOpen, Fresh, Gone, Held, PanelsOK
  <2> QED
    BY <1>15, <2>1, <2>2 DEF AircraftLaunched
<1>16. CASE Embed
  <2>1. work.session \in Sessions
    BY <1>0, <1>16 DEF Embed, WorkOK
  <2>2. CASE ~Current(work.session)
    BY <1>10, <1>16, <2>1, <2>2 DEF Embed, shownVars
  <2>3. CASE Current(work.session)
    <3>1. /\ UNCHANGED <<phase, queue, view, surface>> /\ native' = [native EXCEPT ![work.session] = Shown]
          /\ work'.session = work.session /\ work'.at = "embedding"
      BY <1>0, <1>16, <2>3 DEF Embed, shownVars, Goes, WorkOK
    <3> QED
      BY <1>0, <2>1, <2>3, <3>1 DEF OneOpen, Fresh, Gone, Held, PanelsOK, Current
  <2> QED
    BY <2>2, <2>3
<1>17. CASE Embedded
  <2>1. work.session \in Sessions /\ Opened(work.session)
    BY <1>0, <1>17 DEF Embedded, WorkOK, Held
  <2>2. CASE Goes("failed") /\ UNCHANGED <<shownVars, native, surface>>
    BY <1>9, <1>17, <2>2 DEF Embedded, shownVars, Places
  <2>3. CASE ~Current(work.session) /\ CleanupNative(work.session) /\ Finishes /\ UNCHANGED shownVars
    BY <1>10, <1>17, <2>1, <2>3 DEF Embedded, shownVars
  <2>4. CASE /\ surface' = [surface EXCEPT ![work.session] = Shown] /\ UNCHANGED native
             /\ view' = [view EXCEPT ![work.session] = native[work.session]]
             /\ Goes("tune") \/ Finishes
    <3>1. UNCHANGED <<phase, queue>> /\ work'.session \in {work.session, NoSession} /\ work'.at \in {"tune", "idle"}
      BY <1>0, <1>17, <2>4 DEF Embedded, Goes, Finishes, Idle, WorkOK
    <3> QED
      BY <1>0, <2>1, <2>4, <3>1 DEF OneOpen, Fresh, Gone, Held, PanelsOK
  <2> QED
    BY <1>17, <2>2, <2>3, <2>4 DEF Embedded
<1> QED
  BY <1>1, <1>2, <1>3, <1>4, <1>5, <1>6, <1>7, <1>8, <1>11, <1>12, <1>13, <1>14, <1>15, <1>16, <1>17
     DEF Next, Work

\* Who holds what, while jobs wait and one is done.
LEMMA WorkInvKept == TypeOK /\ LifeInv /\ WorkInv /\ Next => WorkInv'
<1> SUFFICES ASSUME TypeOK, LifeInv, WorkInv, Next PROVE WorkInv'
  OBVIOUS
<1>0. WorkOK /\ PanelsOK /\ QueueOK
  BY TypeParts
<1> USE ReceiverAssumption DEF WorkInv
<1>1. ASSUME NEW s \in Sessions, Open(s) PROVE WorkInv'
  <2>1. PICK a \in Launches : Submit(s, a)
    BY <1>1 DEF Open
  <2>2. [session |-> s, action |-> a] \in Jobs /\ a # "noaa"
    BY DEF Jobs, Launches
  <2>3. /\ phase[s] = "new" /\ \A t \in Sessions : Opened(t)' => t = s
        /\ \A t \in Sessions : native[t] = "none" /\ UNCHANGED <<work, native>>
    BY <1>0, <1>1, <2>1 DEF Open, Submit, PanelsOK, NothingOpen, Opened, LifeInv, Fresh, Gone
  <2>4. Alone' /\ Bare' /\ Purposes'
    BY <2>3 DEF Alone, Bare, Purposes
  <2>5. NoaaFirst'
    BY <1>0, <2>1, <2>2, <2>3, SubmitDone DEF NoaaFirst, LifeInv, Fresh
  <2> QED
    BY <2>4, <2>5
<1>2. ASSUME NEW s \in Sessions, Request(s) PROVE WorkInv'
  <2>1. PICK a \in Launches \cup {"tune"} : Submit(s, a)
    BY <1>2 DEF Request, Launches
  <2>2. [session |-> s, action |-> a] \in Jobs /\ a # "noaa"
    BY DEF Jobs, Launches
  <2>3. UNCHANGED <<phase, work, native>>
    BY <1>2, <2>1 DEF Request, Submit, sessionVars
  <2>4. NoaaFirst'
    BY <1>0, <2>1, <2>2, <2>3, SubmitDone DEF NoaaFirst, Opened
  <2> QED
    BY <2>3, <2>4 DEF Alone, Bare, Purposes
<1>3. CASE RequestNoaa \/ RequestTracking
  <2>1. PICK a \in {"noaa", "track", "untrack"} : Submit(NoSession, a) /\ (a = "noaa" => NothingOpen)
    BY <1>3 DEF RequestNoaa, RequestTracking
  <2>2. [session |-> NoSession, action |-> a] \in Jobs
    BY DEF Jobs
  <2>3. UNCHANGED <<phase, work, native>>
    BY <1>3, <2>1 DEF RequestNoaa, RequestTracking, Submit, sessionVars
  <2>4. NoaaFirst'
    BY <1>0, <2>1, <2>2, <2>3, SubmitDone DEF NoaaFirst, Opened, NothingOpen
  <2> QED
    BY <2>3, <2>4 DEF Alone, Bare, Purposes
<1>4. ASSUME UNCHANGED <<work, queue>>, \A s \in Sessions : Opened(s)' => Opened(s),
             \A s \in Sessions : native'[s] \in {native[s], "none"}
      PROVE  WorkInv'
  BY <1>4 DEF Alone, Bare, Purposes, NoaaFirst
<1>5. ASSUME NEW s \in Sessions, Leave(s) \/ Retire(s) PROVE WorkInv'
  BY <1>0, <1>4, <1>5, CleanupDone DEF Leave, Retire, MayRetire, executorVars, Opened, PanelsOK
<1>6. CASE Close
  BY <1>0, <1>4, <1>6 DEF Close, executorVars, Opened, PanelsOK
<1>7. CASE ServiceCloses \/ ServiceStops \/ AircraftStops \/ SdrppExits
  BY <1>4, <1>7 DEF ServiceCloses, ServiceStops, AircraftStops, SdrppExits, executorVars, sessionVars, Opened
<1>8. CASE Take
  <2>1. UNCHANGED <<phase, native>>
    BY <1>8 DEF Take, sessionVars
  <2>2. NoaaFirst'
    <3>1. ASSUME work'.action = "noaa", NEW s \in Sessions PROVE native'[s] = "none"
      BY <1>0, <1>8, <2>1, <3>1, TakeDone DEF NoaaFirst, Opened, LifeInv, Fresh, Gone, PanelsOK
    <3>2. ASSUME NEW i \in 1..Len(queue'), NEW s \in Sessions, queue'[i].action = "noaa", Opened(s)'
          PROVE  /\ native'[s] = "none" /\ work'.session # s
                 /\ \A j \in 1..(i - 1) : queue'[j].session # s
      <4>1. i + 1 \in 1..Len(queue) /\ queue[i + 1].action = "noaa" /\ Opened(s) /\ 1 \in 1..i
        BY <1>0, <1>8, <2>1, <3>2, TakeDone DEF Opened
      <4>2. native[s] = "none" /\ \A j \in 1..((i + 1) - 1) : queue[j].session # s
        BY <4>1 DEF NoaaFirst
      <4>3. work'.session = queue[1].session /\ \A k \in 1..Len(queue') : queue'[k] = queue[k + 1]
        BY <1>0, <1>8, TakeDone
      <4>4. work'.session # s
        BY <4>1, <4>2, <4>3
      <4>5. ASSUME NEW j \in 1..(i - 1) PROVE queue'[j].session # s
        <5>1. j \in 1..Len(queue') /\ j + 1 \in 1..((i + 1) - 1)
          BY <1>0, <1>8, <3>2, TakeDone
        <5> QED
          BY <4>2, <4>3, <5>1
      <4> QED
        BY <2>1, <4>2, <4>4, <4>5
    <3> QED
      BY <3>1, <3>2 DEF NoaaFirst
  <2> QED
    BY <1>0, <1>8, <2>2, TakeDone DEF Alone, Bare, Purposes
<1>9. ASSUME Finishes, UNCHANGED <<phase, queue>>, \A s \in Sessions : native'[s] \in {native[s], "none"}
      PROVE  WorkInv'
  BY <1>9 DEF Finishes, Idle, Alone, Bare, Purposes, NoaaFirst, Opened
<1>10. ASSUME NEW place \in Places, Goes(place), UNCHANGED <<phase, queue>>, Purposes',
              work.at \notin {"idle", "start"} \/ Alone', Bare',
              \A s \in Sessions : native'[s] \in {native[s], "none"}
       PROVE  WorkInv'
  <2>1. work'.session = work.session /\ work'.action = work.action /\ work'.at = place
    BY <1>0, <1>10 DEF Goes, WorkOK
  <2> QED
    BY <1>10, <2>1 DEF Alone, NoaaFirst, Opened
<1> HIDE DEF WorkInv
<1>11. CASE Start
  <2>1. work.session \in Sessions /\ work.at = "start" /\ UNCHANGED <<phase, queue>>
    BY <1>11 DEF Start
  <2>2. CASE ~Current(work.session)
    BY <1>9, <1>11, <2>1, <2>2 DEF Start
  <2>3. CASE Current(work.session) /\ ~Launching
    <3>1. \A t \in Sessions \ {work.session} : native[t] = "none"
      BY <1>0, <2>1, <2>3 DEF Current, LifeInv, OneOpen, Opened, Fresh, Gone, PanelsOK
    <3>2. Goes("tune") /\ UNCHANGED native /\ work'.session = work.session /\ work'.at = "tune"
      BY <1>0, <1>11, <2>3 DEF Start, Goes, WorkOK
    <3>3. Alone' /\ Bare' /\ Purposes'
      BY <3>1, <3>2 DEF Alone, Bare, Purposes
    <3> QED
      BY <1>10, <2>1, <3>2, <3>3 DEF Places
  <2>4. CASE Current(work.session) /\ Launching
    <3>1. \A t \in Sessions \ {work.session} : native[t] = "none"
      BY <1>0, <2>1, <2>4 DEF Current, LifeInv, OneOpen, Opened, Fresh, Gone, PanelsOK
    <3>2. PICK place \in {"relinquish", "present"} :
             /\ Goes(place) /\ (place = "relinquish" => work.action = "adsb")
             /\ CleanupNative(work.session)
      BY <1>11, <2>4 DEF Start
    <3>3. work'.session = work.session /\ work'.action = work.action /\ work'.at = place
      BY <1>0, <3>2 DEF Goes, WorkOK
    <3>4. Alone' /\ Bare' /\ Purposes'
      BY <1>0, <2>1, <3>1, <3>2, <3>3, CleanupDone DEF Alone, Bare, Purposes
    <3> QED
      BY <1>0, <1>10, <2>1, <3>2, <3>4, CleanupDone DEF Places
  <2> QED
    BY <2>2, <2>3, <2>4
<1>12. CASE StartOther
  <2>1. UNCHANGED <<phase, queue, native>> /\ work.session = NoSession
    BY <1>12 DEF StartOther, sessionVars
  <2>2. CASE Finishes
    BY <1>9, <2>1, <2>2
  <2>3. CASE work.action = "noaa" /\ Goes("present")
    <3>1. work'.session = NoSession /\ work'.at = "present" /\ work'.action = "noaa"
      BY <1>0, <2>1, <2>3 DEF Goes, WorkOK
    <3>2. Alone' /\ Bare' /\ Purposes'
      BY <2>1, <3>1 DEF Alone, Bare, Purposes
    <3> QED
      BY <1>10, <2>1, <2>3, <3>2 DEF Places
  <2> QED
    BY <1>12, <2>2, <2>3 DEF StartOther
<1>13. ASSUME NEW place \in Places \ {"start"}, Goes(place), UNCHANGED <<phase, queue, native>>,
              work.at \notin {"idle", "start"},
              place \in {"relinquish", "aircraft", "launching"} => work.action = "adsb",
              place \in {"present", "presenting"} => work.at = "present",
              place \in {"relinquish", "aircraft", "launching", "present", "presenting", "presented", "embed"}
                => work.at \in {"relinquish", "aircraft", "present", "presenting", "presented"}
       PROVE  WorkInv'
  <2>1. work'.session = work.session /\ work'.action = work.action /\ work'.at = place
    BY <1>0, <1>13 DEF Goes, WorkOK
  <2>2. Bare' /\ Purposes'
    BY <1>13, <2>1 DEF Bare, Purposes, WorkInv
  <2> QED
    BY <1>10, <1>13, <2>2
<1>14. CASE Relinquish \/ Aircraft
  BY <1>9, <1>13, <1>14 DEF Relinquish, Aircraft, sessionVars, WorkInv, Purposes, Places
<1>15. CASE Present \/ Presenting \/ Presented
  BY <1>9, <1>13, <1>15 DEF Present, Presenting, Presented, sessionVars, Places
<1>16. CASE Tune
  BY <1>9, <1>13, <1>16 DEF Tune, sessionVars, Places
<1>17. CASE Fails
  <2>1. UNCHANGED native \/ (work.session \in Sessions /\ CleanupNative(work.session))
    BY <1>0, <1>17 DEF Fails, WorkOK
  <2> QED
    BY <1>0, <1>9, <1>17, <2>1, CleanupDone DEF Fails
<1>18. CASE AircraftLaunched
  <2>1. CASE Goes("failed") /\ UNCHANGED native
    BY <1>13, <1>18, <2>1 DEF AircraftLaunched, Places
  <2>2. CASE Goes("embed") /\ native' = [native EXCEPT ![work.session] = "adsb"]
    <3>1. /\ work.session \in Sessions /\ Opened(work.session) /\ work.action = "adsb"
          /\ UNCHANGED <<phase, queue>> /\ work' = [work EXCEPT !.at = "embed"]
      BY <1>0, <1>18, <2>2 DEF AircraftLaunched, LifeInv, Held, WorkOK, WorkInv, Purposes, Goes
    <3>2. work'.session = work.session /\ work'.action = "adsb" /\ work'.at = "embed"
      BY <1>0, <3>1 DEF WorkOK
    <3>3. \A t \in Sessions \ {work.session} : native[t] = "none" /\ native'[t] = "none"
      BY <1>0, <1>18, <2>2, <3>1 DEF AircraftLaunched, WorkInv, Alone, PanelsOK
    <3> QED
      BY <3>1, <3>2, <3>3 DEF WorkInv, Alone, Bare, Purposes, NoaaFirst, Opened
  <2> QED
    BY <1>18, <2>1, <2>2 DEF AircraftLaunched
<1>19. CASE Embed
  <2>1. work.session \in Sessions /\ UNCHANGED <<phase, queue>>
    BY <1>0, <1>19 DEF Embed, WorkOK
  <2>2. CASE ~Current(work.session)
    BY <1>0, <1>9, <1>19, <2>1, <2>2, CleanupDone DEF Embed
  <2>3. CASE Current(work.session)
    <3>1. Opened(work.session) /\ work.action \in Launches \cup {"tune"}
      BY <1>0, <1>19, <2>1, <2>3 DEF Embed, WorkOK, Current, Opened
    <3>2. /\ work'.session = work.session /\ work'.action = work.action /\ work'.at = "embedding"
          /\ native' = [native EXCEPT ![work.session] = Shown]
      BY <1>0, <1>19, <2>3 DEF Embed, WorkOK, Goes
    <3>3. \A t \in Sessions \ {work.session} : native[t] = "none" /\ native'[t] = "none"
      BY <1>0, <1>19, <2>1, <3>2 DEF Embed, WorkInv, Alone, PanelsOK
    <3> QED
      BY <2>1, <3>1, <3>2, <3>3 DEF WorkInv, Alone, Bare, Purposes, NoaaFirst, Opened, Launches
  <2> QED
    BY <2>2, <2>3
<1>20. CASE Embedded
  <2>1. work.session \in Sessions /\ UNCHANGED <<phase, queue>>
    BY <1>0, <1>20 DEF Embedded, WorkOK
  <2>2. CASE UNCHANGED native /\ (Finishes \/ Goes("tune") \/ Goes("failed"))
    BY <1>9, <1>13, <1>20, <2>1, <2>2 DEF Embedded, Places
  <2>3. CASE CleanupNative(work.session) /\ Finishes
    BY <1>0, <1>9, <2>1, <2>3, CleanupDone
  <2> QED
    BY <1>20, <2>2, <2>3 DEF Embedded
<1> QED
  BY <1>1, <1>2, <1>3, <1>5, <1>6, <1>7, <1>8, <1>11, <1>12, <1>14, <1>15, <1>16, <1>17, <1>18, <1>19, <1>20
     DEF Next, Work

\* Somebody answers for the ADS-B service while SDR++ runs.
LEMMA ReceiverInvKept == TypeOK /\ LifeInv /\ WorkInv /\ ReceiverInv /\ Next => ReceiverInv'
<1> SUFFICES ASSUME TypeOK, LifeInv, WorkInv, ReceiverInv, Next PROVE ReceiverInv'
  OBVIOUS
<1>0. WorkOK /\ PanelsOK /\ FlagsOK
  BY TypeParts
<1> USE DEF ReceiverInv, Answered, Dashboard, OneReceiver
<1>1. ASSUME UNCHANGED <<sdrpp, readsb, browser, unowned, stuck>>,
             \/ UNCHANGED <<native, stopping>>
             \/ \E s \in Sessions : CleanupNative(s),
             work'.at \in {"aircraft", "launching"} => work.at \in {"aircraft", "launching"}
      PROVE  ReceiverInv'
  <2>1. stopping => stopping'
    BY <1>1 DEF CleanupNative, StopsAircraft
  <2>2. ASSUME NEW s \in Sessions, native[s] = "adsb" PROVE stopping' \/ native'[s] = "adsb"
    BY <1>0, <1>1, <2>2, CleanupDone
  <2> QED
    BY <1>1, <2>1, <2>2 DEF Relinquishes
<1>2. CASE \/ \E s \in Sessions : Open(s) \/ Request(s) \/ Leave(s) \/ Retire(s)
           \/ RequestNoaa \/ RequestTracking \/ Close \/ ServiceCloses
  BY <1>1, <1>2 DEF Open, Request, Leave, Retire, RequestNoaa, RequestTracking, Submit, Close, ServiceCloses,
                    receiverVars, executorVars, sessionVars
<1>3. CASE ServiceStops \/ SdrppExits
  BY <1>3 DEF ServiceStops, SdrppExits, executorVars, sessionVars, Relinquishes
<1>4. CASE AircraftStops
  <2>1. unowned' = readsb' /\ stuck' = browser' /\ UNCHANGED <<sdrpp, work>>
    BY <1>4 DEF AircraftStops, executorVars
  <2> QED
    BY <2>1 DEF Relinquishes
<1>5. CASE Take
  BY <1>0, <1>1, <1>5, TakeDone, TypeParts DEF Take, receiverVars, sessionVars
<1>6. ASSUME NEW place \in Places \cup {"idle"}, Finishes \/ Goes(place) PROVE work'.at \in {place, "idle"}
  BY <1>0, <1>6 DEF Finishes, Goes, Idle, WorkOK
<1>7. CASE Start \/ Embed
  <2>1. work'.at \notin {"aircraft", "launching"}
    BY <1>0, <1>7 DEF Start, Embed, Goes, Finishes, Idle, WorkOK
  <2>2. work.session \in Sessions
    BY <1>0, <1>7 DEF Start, Embed, WorkOK
  <2>3. CASE Start \/ ~Current(work.session)
    BY <1>1, <1>7, <2>1, <2>2, <2>3 DEF Start, Embed
  <2>4. CASE Embed /\ Current(work.session)
    <3>1. native' = [native EXCEPT ![work.session] = Shown] /\ UNCHANGED <<receiverVars>>
      BY <2>4 DEF Embed, receiverVars
    <3>2. native[work.session] = "adsb" => Shown = "adsb"
      BY <2>2, <2>4 DEF Embed, Shown, WorkInv, Bare
    <3>3. ASSUME NEW s \in Sessions, native[s] = "adsb" PROVE native'[s] = "adsb"
      BY <1>0, <3>1, <3>2, <3>3 DEF PanelsOK
    <3> QED
      BY <2>1, <3>1, <3>3 DEF receiverVars, Relinquishes
  <2> QED
    BY <1>7, <2>3, <2>4
<1>8. CASE StartOther
  <2>0. Finishes \/ Goes("present")
    BY <1>8 DEF StartOther
  <2>1. work'.at \notin {"aircraft", "launching"} /\ UNCHANGED <<native, stopping, sdrpp, browser, stuck>>
    BY <1>0, <1>6, <1>8, <2>0 DEF StartOther, Places, sessionVars
  <2>2. readsb' => readsb \/ unowned'
    BY <1>0, <1>8 DEF StartOther, FlagsOK
  <2>3. readsb /\ readsb' => (unowned => unowned')
    BY <1>0, <1>8 DEF StartOther, FlagsOK
  <2> QED
    BY <2>1, <2>2, <2>3 DEF Relinquishes
<1>9. CASE Relinquish
  <2>1. work'.at \in {"aircraft", "launching"} => ~sdrpp'
    BY <1>0, <1>9 DEF Relinquish, Relinquished, Goes, WorkOK
  <2>2. UNCHANGED <<native, stopping, readsb, browser, unowned, stuck>> /\ (sdrpp' => sdrpp)
    BY <1>9 DEF Relinquish, Relinquished, sessionVars
  <2> QED
    BY <2>1, <2>2 DEF Relinquishes
<1>10. CASE Aircraft
  BY <1>1, <1>10 DEF Aircraft, receiverVars, sessionVars
<1>11. CASE AircraftLaunched
  <2>1. ~sdrpp' /\ work'.at \notin {"aircraft", "launching"} /\ UNCHANGED stopping
    BY <1>0, <1>11 DEF AircraftLaunched, Relinquishes, Goes, WorkOK
  <2>2. CASE readsb' = TRUE /\ browser' = TRUE /\ native' = [native EXCEPT ![work.session] = "adsb"]
    <3>1. native'[work.session] = "adsb" /\ work.session \in Sessions
      BY <1>0, <1>11, <2>2 DEF AircraftLaunched, WorkOK, PanelsOK
    <3> QED
      BY <2>1, <3>1 DEF Relinquishes
  <2>3. CASE /\ readsb' \in {readsb, TRUE} /\ unowned' = (unowned \/ readsb' # readsb)
             /\ browser' \in {browser, browser \/ readsb'} /\ stuck' = (stuck \/ browser' # browser)
             /\ UNCHANGED native
    <3>1. (readsb' => readsb \/ unowned') /\ (unowned => unowned')
      BY <1>0, <2>3 DEF FlagsOK
    <3>2. (browser' => browser \/ stuck') /\ (stuck => stuck')
      BY <1>0, <2>3 DEF FlagsOK
    <3> QED
      BY <2>1, <2>3, <3>1, <3>2 DEF Relinquishes
  <2> QED
    BY <1>11, <2>2, <2>3 DEF AircraftLaunched
<1>12. CASE Present \/ Presented \/ Tune
  <2>1. work'.at \notin {"aircraft", "launching"}
    BY <1>0, <1>12 DEF Present, Presented, Tune, Goes, Finishes, Idle, WorkOK
  <2> QED
    BY <1>1, <1>12, <2>1 DEF Present, Presented, Tune, receiverVars, sessionVars
<1>13. CASE Presenting
  <2>1. work'.at \notin {"aircraft", "launching"}
    BY <1>0, <1>13 DEF Presenting, Goes, WorkOK
  <2>2. UNCHANGED <<native, stopping, readsb, browser, unowned, stuck>>
    BY <1>13 DEF Presenting, sessionVars
  <2>3. \A s \in Sessions : native[s] = "none"
    BY <1>0, <1>13 DEF Presenting, WorkInv, Alone, Bare, Purposes, NoaaFirst, WorkOK
  <2> QED
    BY <2>1, <2>2, <2>3 DEF Relinquishes
<1>14. CASE Embedded \/ Fails
  <2>1. work'.at \notin {"aircraft", "launching"}
    BY <1>0, <1>14 DEF Embedded, Fails, Goes, Finishes, Idle, WorkOK
  <2>2. UNCHANGED <<sdrpp, readsb, browser, unowned, stuck>>
    BY <1>14 DEF Embedded, Fails
  <2>3. UNCHANGED <<native, stopping>> \/ (work.session \in Sessions /\ CleanupNative(work.session))
    BY <1>0, <1>14 DEF Embedded, Fails, WorkOK
  <2> QED
    BY <1>1, <2>1, <2>2, <2>3
<1> QED
  BY <1>2, <1>3, <1>4, <1>5, <1>7, <1>8, <1>9, <1>10, <1>11, <1>12, <1>13, <1>14 DEF Next, Work

\* After the shutdown SDR++ is down, and nothing is bringing it up.
LEMMA ServiceInvKept == TypeOK /\ ServiceInv /\ Next => ServiceInv'
<1> SUFFICES ASSUME TypeOK, ServiceInv, Next PROVE ServiceInv'
  OBVIOUS
<1>0. WorkOK /\ FlagsOK
  BY TypeParts
<1> USE DEF ServiceInv, StaysClosed
<1>1. CASE \/ \E s \in Sessions : Open(s) \/ Request(s) \/ Leave(s) \/ Retire(s)
           \/ RequestNoaa \/ RequestTracking \/ Close \/ AircraftStops
  <2>1. CASE \E s \in Sessions : Open(s) \/ Request(s)
    <3>1. UNCHANGED work
      BY <2>1 DEF Open, Request, Submit
    <3>2. UNCHANGED <<service, sdrpp>>
      BY <2>1 DEF Open, Request, receiverVars, serviceVars
    <3> QED
      BY <3>1, <3>2
  <2>2. CASE \E s \in Sessions : Leave(s) \/ Retire(s)
    BY <2>2 DEF Leave, Retire, receiverVars, executorVars, serviceVars
  <2>3. CASE RequestNoaa \/ RequestTracking
    BY <2>3 DEF RequestNoaa, RequestTracking, Submit, receiverVars, serviceVars
  <2>4. CASE Close \/ AircraftStops
    <3>1. UNCHANGED <<work, service, sdrpp>>
      BY <2>4 DEF Close, AircraftStops, receiverVars, executorVars, serviceVars
    <3> QED
      BY <3>1
  <2> QED
    BY <1>1, <2>1, <2>2, <2>3, <2>4
<1>2. CASE ServiceCloses \/ ServiceStops \/ SdrppExits
  BY <1>2 DEF ServiceCloses, ServiceStops, MayStop, SdrppExits, executorVars, receiverVars, serviceVars
<1>3. CASE Take \/ Start \/ StartOther \/ Relinquish \/ Aircraft \/ AircraftLaunched
  <2>1. UNCHANGED service /\ (sdrpp' => sdrpp)
    <3>1. CASE Take \/ Aircraft \/ AircraftLaunched
      <4>1. UNCHANGED serviceVars /\ (UNCHANGED receiverVars \/ UNCHANGED sdrpp)
        BY <3>1 DEF Take, Aircraft, AircraftLaunched
      <4> QED
        BY <4>1 DEF serviceVars, receiverVars
    <3>2. CASE Start \/ StartOther
      <4>1. UNCHANGED <<serviceVars, sdrpp>>
        BY <3>2 DEF Start, StartOther
      <4> QED
        BY <4>1 DEF serviceVars
    <3>3. CASE Relinquish
      <4>1. UNCHANGED serviceVars /\ (sdrpp' = FALSE \/ UNCHANGED sdrpp)
        BY <3>3 DEF Relinquish, Relinquished
      <4> QED
        BY <4>1 DEF serviceVars
    <3> QED
      BY <1>3, <3>1, <3>2, <3>3
  <2>2. CASE Take
    BY <2>1, <2>2 DEF Take
  <2>3. CASE Start \/ StartOther \/ Relinquish
    <3>1. Finishes \/ \E place \in {"tune", "relinquish", "present", "aircraft", "failed"} : Goes(place)
      BY <2>3 DEF Start, StartOther, Relinquish
    <3> QED
      BY <1>0, <2>1, <3>1 DEF Goes, Finishes, Idle, WorkOK
  <2>4. CASE Aircraft \/ AircraftLaunched
    <3>1. Finishes \/ \E place \in {"launching", "embed", "failed"} : Goes(place)
      BY <2>4 DEF Aircraft, AircraftLaunched
    <3> QED
      BY <1>0, <2>1, <3>1 DEF Goes, Finishes, Idle, WorkOK
  <2> QED
    BY <1>3, <2>2, <2>3, <2>4
<1>4. CASE Present
  BY <1>0, <1>4 DEF Present, Goes, WorkOK, serviceVars, receiverVars
<1>5. CASE Presenting
  BY <1>0, <1>5 DEF Presenting, Goes, WorkOK, serviceVars
<1>6. CASE Presented \/ Embed \/ Embedded \/ Tune \/ Fails
  <2>1. work'.at # "presenting" /\ UNCHANGED <<service, sdrpp>>
    BY <1>0, <1>6 DEF Presented, Embed, Embedded, Tune, Fails, Goes, Finishes, Idle, WorkOK, serviceVars, receiverVars
  <2> QED
    BY <2>1
<1> QED
  BY <1>1, <1>2, <1>3, <1>4, <1>5, <1>6 DEF Next, Work

\* What a panel shows agrees with what it holds, or the launch is explained.
LEMMA ShownInvKept == TypeOK /\ LifeInv /\ ShownInv /\ Next => ShownInv'
<1> SUFFICES ASSUME TypeOK, LifeInv, ShownInv, Next PROVE ShownInv'
  OBVIOUS
<1>0. WorkOK /\ PanelsOK
  BY TypeParts
<1> USE DEF ShownInv, Truthful
<1>1. ASSUME UNCHANGED <<work, view, native, surface, loading, failed>>,
             \A s \in Sessions : phase'[s] = "live" =>
                phase[s] = "live" \/ (phase[s] = "new" /\ Truthful(s))
      PROVE  ShownInv'
  BY <1>1 DEF SaysLoading, EmbedsShown, Explained, Shown
<1>2. CASE \E s \in Sessions : Open(s) \/ Request(s) \/ Leave(s)
  BY <1>0, <1>1, <1>2 DEF Open, Request, Leave, Submit, sessionVars, shownVars, executorVars,
                          LifeInv, Fresh, PanelsOK
<1>3. CASE RequestNoaa \/ RequestTracking \/ Close \/ ServiceCloses \/ ServiceStops \/ AircraftStops \/ SdrppExits
  BY <1>0, <1>1, <1>3 DEF RequestNoaa, RequestTracking, Submit, Close, ServiceCloses, ServiceStops, AircraftStops,
                          SdrppExits, sessionVars, shownVars, executorVars, PanelsOK
<1>4. ASSUME NEW s \in Sessions, Retire(s) PROVE ShownInv'
  <2>1. /\ phase'[s] = "retired" /\ \A t \in Sessions \ {s} : phase'[t] = phase[t]
        /\ ~NativeLocked(s) /\ CleanupNative(s) /\ UNCHANGED <<work, view, loading, failed>>
    BY <1>0, <1>4 DEF Retire, MayRetire, PanelsOK, shownVars, executorVars
  <2>2. \A t \in Sessions \ {s} : native'[t] = native[t] /\ surface'[t] = surface[t]
    BY <1>0, <2>1, CleanupDone
  <2>3. EmbedsShown'
    BY <1>0, <2>1, <2>2 DEF EmbedsShown, NativeLocked, Shown, WorkOK
  <2> QED
    BY <2>1, <2>2, <2>3 DEF SaysLoading, Explained
<1>5. ASSUME Finishes, UNCHANGED <<phase, view, loading, failed>>,
             \A s \in Sessions : s # work.session => native'[s] = native[s] /\ surface'[s] = surface[s],
             work.session \in Sessions /\ phase[work.session] = "live"
               => UNCHANGED <<native, surface>> /\ work.at \in {"start", "tune"}
      PROVE  ShownInv'
  <2>1. work'.session = NoSession /\ work'.at = "idle"
    BY <1>5 DEF Finishes, Idle
  <2>2. SaysLoading' /\ EmbedsShown'
    BY <2>1, ReceiverAssumption DEF SaysLoading, EmbedsShown
  <2>3. Explained'
    BY <1>5 DEF Explained
  <2> QED
    BY <2>2, <2>3
<1>6. ASSUME NEW place \in Places \ {"start", "embedding", "tune"}, Goes(place),
             UNCHANGED <<phase, view, native, surface, loading, failed>>,
             \/ place # "failed" /\ work.at \in {"relinquish", "aircraft", "launching", "present", "presenting", "presented"}
             \/ place = "failed" /\ work.at \notin {"idle", "start", "tune"}
             \/ place = "failed" /\ work.at = "tune" /\ work.action \notin Launches
             \/ work.session = NoSession
      PROVE  ShownInv'
  <2>1. work'.session = work.session /\ work'.action = work.action /\ work'.at = place
    BY <1>0, <1>6 DEF Goes, WorkOK
  <2> QED
    BY <1>0, <1>6, <2>1, ReceiverAssumption DEF SaysLoading, EmbedsShown, Explained, Places, WorkOK
<1>7. CASE Take
  <2>1. work'.at = "start" /\ UNCHANGED <<phase, view, native, surface, loading, failed>> /\ work.at = "idle"
    BY <1>7 DEF Take, sessionVars, shownVars, Idle
  <2> QED
    BY <2>1 DEF SaysLoading, EmbedsShown, Explained
<1>8. CASE Start
  <2>1. work.session \in Sessions /\ work.at = "start" /\ UNCHANGED <<phase, view, failed>>
    BY <1>8 DEF Start
  <2>2. CASE ~Current(work.session)
    BY <1>0, <1>5, <1>8, <2>1, <2>2 DEF Start, Current, WorkOK, ReceiverAssumption
  <2>3. CASE Current(work.session) /\ ~Launching
    <3>1. /\ work'.session = work.session /\ work'.action = "tune" /\ work'.at = "tune"
          /\ UNCHANGED <<native, surface, loading>>
      BY <1>0, <1>8, <2>1, <2>3, ReceiverAssumption DEF Start, Launching, Goes, WorkOK
    <3> QED
      BY <2>1, <3>1 DEF SaysLoading, EmbedsShown, Explained
  <2>4. CASE Current(work.session) /\ Launching
    <3>1. PICK place \in {"relinquish", "present"} : Goes(place)
      BY <1>8, <2>4 DEF Start
    <3>2. work'.session = work.session /\ work'.action = work.action /\ work'.at = place
      BY <1>0, <3>1 DEF Goes, WorkOK
    <3>3. CleanupNative(work.session) /\ loading' = [loading EXCEPT ![work.session] = TRUE]
      BY <1>8, <2>4 DEF Start
    <3>4. \A t \in Sessions \ {work.session} : native'[t] = native[t] /\ surface'[t] = surface[t]
      BY <1>0, <2>1, <3>3, CleanupDone
    <3>5. loading'[work.session] /\ \A t \in Sessions \ {work.session} : loading'[t] = loading[t]
      BY <1>0, <2>1, <3>3 DEF PanelsOK
    <3> QED
      BY <2>1, <3>2, <3>4, <3>5 DEF SaysLoading, EmbedsShown, Explained
  <2> QED
    BY <2>2, <2>3, <2>4
<1>9. CASE StartOther
  <2>1. work.session = NoSession /\ UNCHANGED <<phase, view, native, surface, loading, failed>>
    BY <1>9 DEF StartOther, sessionVars, shownVars
  <2>2. Finishes \/ Goes("present")
    BY <1>9 DEF StartOther
  <2> QED
    BY <1>5, <1>6, <2>1, <2>2, ReceiverAssumption DEF Places
<1>10. CASE Relinquish \/ Aircraft
  <2>1. UNCHANGED <<phase, view, native, surface, loading, failed>> /\ work.session \in Sessions
    BY <1>0, <1>10 DEF Relinquish, Aircraft, sessionVars, shownVars, WorkOK
  <2>2. \/ Goes("aircraft") \/ Goes("failed") \/ Goes("launching")
        \/ Finishes /\ ~Current(work.session)
    BY <1>10 DEF Relinquish, Aircraft
  <2>3. work.at \in {"relinquish", "aircraft"}
    BY <1>10 DEF Relinquish, Aircraft
  <2>4. CASE Finishes /\ ~Current(work.session)
    BY <1>5, <2>1, <2>4, ReceiverAssumption DEF Current
  <2>5. CASE Goes("aircraft") \/ Goes("failed") \/ Goes("launching")
    BY <1>6, <2>1, <2>3, <2>5 DEF Places
  <2> QED
    BY <2>2, <2>4, <2>5
<1>11. CASE Present \/ Presenting
  <2>1. UNCHANGED <<phase, view, native, surface, loading, failed>> /\ work.at \in {"present", "presenting"}
    BY <1>11 DEF Present, Presenting, sessionVars, shownVars
  <2>2. Goes("presenting") \/ Goes("presented") \/ Goes("failed")
    BY <1>11 DEF Present, Presenting
  <2> QED
    BY <1>6, <2>1, <2>2 DEF Places
<1>12. CASE Presented
  <2>1. UNCHANGED <<phase, view, native, surface, loading, failed>> /\ work.at = "presented"
    BY <1>12 DEF Presented, sessionVars, shownVars
  <2>2. CASE Goes("embed") \/ Goes("failed")
    BY <1>6, <2>1, <2>2 DEF Places
  <2>3. CASE Finishes /\ ~Current(work.session)
    BY <1>5, <2>1, <2>3, ReceiverAssumption DEF Current
  <2> QED
    BY <1>12, <2>2, <2>3 DEF Presented
<1>13. CASE Tune
  <2>1. UNCHANGED <<phase, view, native, surface, loading, failed>> /\ work.at = "tune"
    BY <1>13 DEF Tune, sessionVars, shownVars
  <2>2. work.action \notin Launches
    BY <2>1 DEF EmbedsShown, Launches
  <2> QED
    BY <1>5, <1>6, <1>13, <2>1, <2>2 DEF Tune, Places
<1>14. CASE AircraftLaunched
  <2>1. /\ UNCHANGED <<phase, view, surface, loading, failed>> /\ work.at = "launching"
        /\ work.session \in Sessions
    BY <1>0, <1>14 DEF AircraftLaunched, shownVars, WorkOK
  <2>2. CASE Goes("failed") /\ UNCHANGED native
    BY <1>6, <2>1, <2>2 DEF Places
  <2>3. CASE Goes("embed") /\ native' = [native EXCEPT ![work.session] = "adsb"]
    <3>1. work'.session = work.session /\ work'.action = work.action /\ work'.at = "embed"
      BY <1>0, <2>3 DEF Goes, WorkOK
    <3>2. \A t \in Sessions \ {work.session} : native'[t] = native[t]
      BY <1>0, <2>3 DEF PanelsOK
    <3> QED
      BY <2>1, <3>1, <3>2 DEF SaysLoading, EmbedsShown, Explained
  <2> QED
    BY <1>14, <2>2, <2>3 DEF AircraftLaunched
<1>15. CASE Embed
  <2>1. work.session \in Sessions /\ work.at = "embed" /\ UNCHANGED <<phase, view, loading, failed>>
    BY <1>0, <1>15 DEF Embed, WorkOK, shownVars
  <2>2. CASE Current(work.session)
    <3>1. /\ work'.session = work.session /\ work'.action = work.action /\ work'.at = "embedding"
          /\ native' = [native EXCEPT ![work.session] = Shown] /\ UNCHANGED surface
      BY <1>0, <1>15, <2>2 DEF Embed, Goes, WorkOK
    <3>2. native'[work.session] = Shown /\ \A t \in Sessions \ {work.session} : native'[t] = native[t]
      BY <1>0, <2>1, <3>1 DEF PanelsOK
    <3> QED
      BY <2>1, <3>1, <3>2 DEF SaysLoading, EmbedsShown, Explained, Shown
  <2>3. CASE ~Current(work.session)
    <3>1. CleanupNative(work.session) /\ Finishes
      BY <1>15, <2>3 DEF Embed
    <3> QED
      BY <1>0, <1>5, <2>1, <2>3, <3>1, CleanupDone, ReceiverAssumption DEF Current
  <2> QED
    BY <2>2, <2>3
<1>16. CASE Embedded
  <2>1. work.session \in Sessions /\ work.at = "embedding" /\ UNCHANGED phase
    BY <1>0, <1>16 DEF Embedded, WorkOK
  <2>2. CASE Goes("failed") /\ UNCHANGED <<shownVars, native, surface, failed>>
    BY <1>6, <2>1, <2>2 DEF shownVars, Places
  <2>3. CASE ~Current(work.session) /\ CleanupNative(work.session) /\ Finishes /\ UNCHANGED <<shownVars, failed>>
    BY <1>0, <1>5, <2>1, <2>3, CleanupDone, ReceiverAssumption DEF shownVars, Current
  <2>4. CASE /\ surface' = [surface EXCEPT ![work.session] = Shown] /\ UNCHANGED native
             /\ view' = [view EXCEPT ![work.session] = native[work.session]]
             /\ loading' = [loading EXCEPT ![work.session] = FALSE]
             /\ failed' = failed \ {work.session}
             /\ IF work.action = "tune" THEN Goes("tune") ELSE Finishes
    <3>1. /\ surface'[work.session] = Shown /\ view'[work.session] = Shown /\ native'[work.session] = Shown
          /\ \A t \in Sessions \ {work.session} : /\ surface'[t] = surface[t] /\ view'[t] = view[t]
                                                  /\ native'[t] = native[t] /\ loading'[t] = loading[t]
                                                  /\ t \notin failed' => t \notin failed
      BY <1>0, <2>1, <2>4 DEF PanelsOK, EmbedsShown
    <3>2. Explained'
      BY <2>1, <3>1 DEF Explained
    <3>3. \/ work'.session = NoSession /\ work'.at = "idle"
          \/ work'.session = work.session /\ work'.action = "tune" /\ work'.at = "tune"
      BY <1>0, <2>4 DEF Goes, Finishes, Idle, WorkOK
    <3> QED
      BY <2>1, <3>2, <3>3, ReceiverAssumption DEF SaysLoading, EmbedsShown
  <2> QED
    BY <1>16, <2>2, <2>3, <2>4 DEF Embedded
<1>17. CASE Fails
  <2>1. work.at = "failed" /\ Finishes /\ UNCHANGED <<phase, view>>
    BY <1>17 DEF Fails
  <2>2. CASE work.session = NoSession
    BY <1>5, <1>17, <2>1, <2>2, ReceiverAssumption DEF Fails
  <2>3. CASE work.session \in Sessions
    <3>1. /\ loading' = [loading EXCEPT ![work.session] = FALSE]
          /\ failed' = IF loading[work.session] THEN failed \cup {work.session} ELSE failed
          /\ IF work.action \in Launches THEN CleanupNative(work.session) ELSE UNCHANGED <<native, surface>>
      BY <1>17, <2>3, ReceiverAssumption DEF Fails, Failed, CleansUp
    <3>2. \A t \in Sessions \ {work.session} : /\ native'[t] = native[t] /\ surface'[t] = surface[t]
                                               /\ t \notin failed' => t \notin failed
      BY <1>0, <2>3, <3>1, CleanupDone
    <3>3. \/ work.session \in failed'
          \/ UNCHANGED <<native, surface, failed>> /\ ~loading[work.session]
      BY <2>1, <2>3, <3>1 DEF SaysLoading
    <3>4. Explained'
      BY <2>1, <2>3, <3>2, <3>3 DEF Explained
    <3>5. work'.session = NoSession /\ work'.at = "idle"
      BY <2>1 DEF Finishes, Idle
    <3> QED
      BY <3>4, <3>5, ReceiverAssumption DEF SaysLoading, EmbedsShown
  <2> QED
    BY <1>0, <2>2, <2>3 DEF WorkOK
<1> QED
  BY <1>2, <1>3, <1>4, <1>7, <1>8, <1>9, <1>10, <1>11, <1>12, <1>13, <1>14, <1>15, <1>16, <1>17 DEF Next, Work

-----------------------------------------------------------------------------
(* The theorems.                                                           *)

IInv == TypeOK /\ LifeInv /\ WorkInv /\ ReceiverInv /\ ServiceInv /\ ShownInv

\* Nothing has been asked for, and readsb may have been left running.
LEMMA InductiveInit == Init => IInv
<1> SUFFICES ASSUME Init PROVE IInv
  OBVIOUS
<1> USE ReceiverAssumption DEF Init, Idle
<1>1. WorkOK /\ PanelsOK /\ FlagsOK
  BY DEF WorkOK, PanelsOK, FlagsOK, Kinds
<1>2. QueueOK /\ Len(queue) = 0
  BY DEF QueueOK
<1>3. LifeInv
  BY <1>2 DEF LifeInv, OneOpen, Fresh, Held, Gone, Opened
<1>4. WorkInv
  BY <1>2 DEF WorkInv, Alone, Bare, Purposes, NoaaFirst
<1>5. ReceiverInv /\ ServiceInv
  BY DEF ReceiverInv, Relinquishes, Answered, Dashboard, OneReceiver, ServiceInv, StaysClosed
<1>6. ShownInv
  BY DEF ShownInv, SaysLoading, EmbedsShown, Explained, Truthful
<1> QED
  BY <1>1, <1>2, <1>3, <1>4, <1>5, <1>6, TypeParts DEF IInv

\* A step that changes nothing.
LEMMA InductiveStutter == IInv /\ UNCHANGED vars => IInv'
<1> SUFFICES ASSUME IInv, UNCHANGED vars PROVE IInv'
  OBVIOUS
<1> USE DEF vars, sessionVars, shownVars, executorVars, serviceVars, receiverVars, IInv
<1>1. TypeOK'
  BY DEF TypeOK
<1>2. LifeInv' /\ WorkInv'
  BY DEF LifeInv, OneOpen, Fresh, Held, Gone, Opened, WorkInv, Alone, Bare, Purposes, NoaaFirst
<1>3. ReceiverInv' /\ ServiceInv'
  BY DEF ReceiverInv, Relinquishes, Answered, Dashboard, OneReceiver, ServiceInv, StaysClosed
<1>4. ShownInv'
  BY DEF ShownInv, SaysLoading, EmbedsShown, Explained, Truthful, Shown
<1> QED
  BY <1>1, <1>2, <1>3, <1>4

\* The invariant is inductive.
LEMMA Inductive == Spec => []IInv
<1>1. Init => IInv
  BY InductiveInit
<1>2. IInv /\ [Next]_vars => IInv'
  <2> SUFFICES ASSUME IInv, [Next]_vars PROVE IInv'
    OBVIOUS
  <2>1. CASE Next
    BY <2>1, FlagsKept, QueueKept, WorkKept, PanelsKept, TypePartsNext, LifeKept, WorkInvKept,
       ReceiverInvKept, ServiceInvKept, ShownInvKept DEF IInv
  <2>2. CASE UNCHANGED vars
    BY <2>2, InductiveStutter
  <2> QED
    BY <2>1, <2>2
<1> QED
  BY <1>1, <1>2, PTL DEF Spec

\* Types, for any number of panels and requests: work on ADS-B, on embedding
\* and on tuning is always done for a session.
THEOREM TypeCorrect == Spec => []TypeOK
<1>1. IInv => TypeOK
  BY DEF IInv
<1> QED
  BY <1>1, Inductive, PTL

\* deactivate() returns only when the session has given up its window, and no
\* launch in progress or queued attaches one again; the dashboard of a session
\* that has gone is being closed, or a launch or a stop failed to close it.
THEOREM DetachedHolds == Spec => []Detached
<1>1. IInv => Detached
  BY DEF IInv, LifeInv, Gone, ReceiverInv, Dashboard, Detached
<1> QED
  BY <1>1, Inductive, PTL

\* SDR++ and the ADS-B service are not both on the receiver, in whatever
\* order launches, retirements, NOAA and the closing thread come, unless a
\* launch or a stop of the dashboard failed or the menu started the service.
THEOREM OneReceiverHolds == Spec => []OneReceiver
<1>1. IInv => OneReceiver
  BY DEF IInv, ReceiverInv
<1> QED
  BY <1>1, Inductive, PTL

\* close() of the application service stops SDR++ for good.
THEOREM StaysClosedHolds == Spec => []StaysClosed
<1>1. IInv => StaysClosed
  BY DEF IInv, ServiceInv
<1> QED
  BY <1>1, Inductive, PTL

\* Between jobs the published view is the one whose window is embedded.
THEOREM ViewTruthfulHolds == Spec => []ViewTruthful
<1>1. IInv => ViewTruthful
  BY DEF IInv, ShownInv, Explained, Truthful, ViewTruthful, Idle
<1> QED
  BY <1>1, Inductive, PTL
=============================================================================
