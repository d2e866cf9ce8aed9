------------------------- MODULE ConnectivityProofs -------------------------
(* Proofs about Connectivity for every probe period, number of events and  *)
(* number of restarts: the saved mode, the single probe, results that came *)
(* too late, and what the bars and the mode say after a loss.              *)
EXTENDS Connectivity, SequenceTheorems, TLAPS

\* An event has room to be counted, also while it is still in the queue.
EventsInv ==
    generation + Len(networkQueue) + (IF link # lastEmitted THEN 1 ELSE 0) <= MaxEvents

\* The probe in flight, as a thread or as a result that waits to be read.
Pending(g) ==
    \/ probing = {g} /\ resultQueue = <<>>
    \/ probing = {} /\ Len(resultQueue) = 1 /\ Head(resultQueue).generation = g

\* There is one exactly while probeActive, and it is outdated exactly when the
\* generation has moved on since it began.
ProbeInv ==
    IF probeActive
    THEN \E g \in 0..generation : Pending(g) /\ (outdated <=> g # generation)
    ELSE probing = {} /\ resultQueue = <<>>

\* BarsAgree at every point of a poll.
ShownInv ==
    ~saveFailed => /\ status = "yes" => Online
                   /\ status = "no" => ~Online

\* LossDisables at every point of a poll: no result that would undo it is current.
LossInv ==
    network = "no" => /\ probeActive => outdated
                      /\ ~saveFailed => ~Online

IInv == TypeOK /\ EventsInv /\ ProbeInv /\ SavedMode /\ ShownInv /\ LossInv

Results == [generation : 0..MaxEvents, reachable : {"yes", "no"}]

-----------------------------------------------------------------------------
(* The mode: what a save, a failed save and a load do to it.               *)

ModeTypes == requested \in BOOLEAN /\ reachable \in Reachability /\ file \in Files /\ heard \in BOOLEAN

\* A save that succeeds: file, memory and listeners take the new mode together.
LEMMA UpdateMode ==
    ASSUME ModeTypes, SavedMode, NEW req \in BOOLEAN, NEW reach \in Reachability, Update(req, reach)
    PROVE  ModeTypes' /\ SavedMode' /\ requested' = req /\ reachable' = reach
<1>1. CASE req = requested /\ reach = reachable
  BY <1>1 DEF Update, modeVars, ModeTypes, SavedMode, SavedOnline, Online, Effective,
              LoadRequested, LoadReachable
<1>2. CASE ~(req = requested /\ reach = reachable)
  <2>1. /\ requested' = req /\ reachable' = reach
        /\ file' = [kind |-> "saved", online |-> Effective(req, reach), requested |-> req]
        /\ heard' = IF Effective(req, reach) # Online THEN Effective(req, reach) ELSE heard
    BY <1>2 DEF Update
  <2>2. file' \in Files BY <2>1 DEF Files, Effective
  <2>3. heard' = Effective(req, reach) /\ heard' \in BOOLEAN BY <2>1 DEF SavedMode, Effective
  <2>4. LoadRequested(file') = req BY <2>1, <2>2 DEF LoadRequested
  <2>5. LoadReachable(file') = IF req /\ ~Effective(req, reach) THEN "no" ELSE "unknown"
    BY <2>1, <2>4 DEF LoadReachable
  <2>6. Effective(LoadRequested(file'), LoadReachable(file')) = Effective(req, reach)
    BY <2>4, <2>5 DEF Effective
  <2> QED BY <2>1, <2>2, <2>3, <2>4, <2>6 DEF ModeTypes, SavedMode, SavedOnline, Online
<1> QED BY <1>1, <1>2

\* Steps that do not touch the mode.
LEMMA SameMode ==
    ASSUME ModeTypes, SavedMode, UNCHANGED modeVars
    PROVE  ModeTypes' /\ SavedMode' /\ Online' = Online
BY DEF modeVars, ModeTypes, SavedMode, SavedOnline, Online, Effective, LoadRequested, LoadReachable

\* A start reads back the mode the file holds.
LEMMA LoadMode ==
    ASSUME ModeTypes, Load
    PROVE  ModeTypes' /\ SavedMode'
<1>1. LoadRequested(file) \in BOOLEAN /\ LoadReachable(file) \in Reachability
  BY DEF ModeTypes, Files, LoadRequested, LoadReachable, Reachability
<1> QED BY <1>1 DEF Load, ModeTypes, SavedMode, SavedOnline, Online, Effective, LoadRequested,
                    LoadReachable


-----------------------------------------------------------------------------
(* The queues and the probe in flight.                                     *)

\* The queues of the UI thread, taken apart.
LEMMA Queues ==
    ASSUME TypeOK
    PROVE  /\ Len(networkQueue) \in Nat
           /\ networkQueue # <<>> => /\ Head(networkQueue) \in Reachability
                                    /\ Tail(networkQueue) \in Seq(Reachability)
                                    /\ Len(Tail(networkQueue)) = Len(networkQueue) - 1
           /\ resultQueue # <<>> => /\ Head(resultQueue) \in Results
                                   /\ Tail(resultQueue) \in Seq(Results)
                                   /\ Len(Tail(resultQueue)) = Len(resultQueue) - 1
<1>1. networkQueue \in Seq(Reachability) /\ resultQueue \in Seq(Results) BY DEF TypeOK, Results
<1> QED BY <1>1, LenProperties, HeadTailProperties

\* Steps that do not touch the probe.
LEMMA SameProbe ==
    ASSUME ProbeInv, UNCHANGED <<probeActive, probing, resultQueue, generation, outdated>>
    PROVE  ProbeInv'
BY DEF ProbeInv, Pending

\* Whatever moves the generation on outdates the probe in flight.
LEMMA OutdatedProbe ==
    ASSUME ProbeInv, generation \in Nat, generation' = generation + 1, outdated' = TRUE,
           UNCHANGED <<probeActive, probing, resultQueue>>
    PROVE  ProbeInv'
<1>1. CASE probeActive
  <2>1. PICK g \in 0..generation : Pending(g) BY <1>1 DEF ProbeInv
  <2>2. Pending(g)' BY <2>1 DEF Pending
  <2>3. g \in 0..generation' /\ g # generation' OBVIOUS
  <2> QED BY <1>1, <2>2, <2>3 DEF ProbeInv
<1>2. CASE ~probeActive BY <1>2 DEF ProbeInv
<1> QED BY <1>1, <1>2

\* Steps that touch neither the bars nor the mode.
LEMMA SameShown ==
    ASSUME ShownInv, LossInv, Online' = Online,
           UNCHANGED <<status, network, probeActive, outdated, saveFailed>>
    PROVE  ShownInv' /\ LossInv'
BY DEF ShownInv, LossInv

\* A save that raised suspends what is said of bars and mode.
LEMMA FailedShown ==
    ASSUME LossInv, saveFailed' = TRUE, UNCHANGED <<network, probeActive, outdated>>
    PROVE  ShownInv' /\ LossInv'
BY DEF ShownInv, LossInv

-----------------------------------------------------------------------------
(* One lemma for each action.                                              *)

\* The user switches online features on or off.
LEMMA TogglePreserves == ASSUME IInv, Toggle PROVE IInv'
<1>1. ModeTypes /\ SavedMode /\ ShownInv /\ LossInv /\ ProbeInv /\ EventsInv /\ TypeOK
  BY DEF IInv, TypeOK, ModeTypes
<1>2. /\ Spare(1)
      /\ UNCHANGED <<at, closing, probeActive, network, threadVars, worldVars, restarts>>
  BY DEF Toggle
<1>3. Len(networkQueue) \in Nat /\ generation \in 0..MaxEvents /\ MaxEvents \in Nat
  BY <1>1, Queues, BoundsAssumption DEF TypeOK
<1>4. CASE Saved(~requested, IF KnownLoss THEN "no" ELSE reachable) /\ Toggled
  <2> DEFINE reach == IF KnownLoss THEN "no" ELSE reachable
  <2>1. /\ Update(~requested, reach) /\ saveFailed' = FALSE
        /\ generation' = generation + 1 /\ status' = "unknown" /\ nextProbe' = 0 /\ outdated' = TRUE
    BY <1>4 DEF Saved, Toggled
  <2>2. reach \in Reachability /\ (~requested) \in BOOLEAN
    <3>1. CASE KnownLoss BY <3>1 DEF Reachability
    <3>2. CASE ~KnownLoss BY <3>2, <1>1 DEF ModeTypes
    <3> QED BY <3>1, <3>2
  <2>3. ModeTypes' /\ SavedMode' /\ requested' = ~requested /\ reachable' = reach
    <3> HIDE DEF reach
    <3> QED BY <1>1, <2>1, <2>2, UpdateMode
  <2>4. generation + 1 \in 0..MaxEvents BY <1>2, <1>3 DEF Spare
  <2>5. TypeOK'
    <3>1. status' \in Reachability /\ nextProbe' \in 0..ProbePeriod
      BY <2>1, BoundsAssumption DEF Reachability
    <3>2. outdated' \in BOOLEAN /\ saveFailed' \in BOOLEAN /\ generation' \in 0..MaxEvents
      BY <2>1, <2>4
    <3> QED BY <1>1, <1>2, <2>3, <3>1, <3>2 DEF TypeOK, ModeTypes, threadVars, worldVars
  <2>6. EventsInv' BY <1>2, <1>3, <2>1 DEF Spare, EventsInv, threadVars, worldVars
  <2>7. ProbeInv' BY <1>1, <1>2, <1>3, <2>1, OutdatedProbe DEF threadVars
  <2>8. ShownInv' BY <2>1 DEF ShownInv
  <2>9. LossInv' BY <1>2, <2>1, <2>3 DEF LossInv, KnownLoss, Online, Effective
  <2> QED BY <2>3, <2>5, <2>6, <2>7, <2>8, <2>9 DEF IInv
<1>5. ASSUME ModeTypes', SavedMode', saveFailed' = TRUE,
             UNCHANGED <<generation, status, nextProbe, outdated>>
      PROVE  IInv'
  <2>1. TypeOK' BY <1>1, <1>2, <1>5 DEF TypeOK, ModeTypes, threadVars, worldVars
  <2>2. EventsInv' BY <1>1, <1>2, <1>5 DEF EventsInv, threadVars, worldVars
  <2>3. ProbeInv' BY <1>1, <1>2, <1>5, SameProbe DEF threadVars
  <2>4. ShownInv' /\ LossInv' BY <1>1, <1>2, <1>5, FailedShown
  <2> QED BY <1>5, <2>1, <2>2, <2>3, <2>4 DEF IInv
<1>6. CASE /\ KnownLoss /\ Update(requested, "no") /\ saveFailed' = TRUE
           /\ UNCHANGED <<generation, status, nextProbe, outdated>>
  <2>1. requested \in BOOLEAN /\ "no" \in Reachability BY <1>1 DEF ModeTypes, Reachability
  <2>2. ModeTypes' /\ SavedMode' BY <1>1, <1>6, <2>1, UpdateMode
  <2> QED BY <1>5, <1>6, <2>2
<1>7. CASE /\ SaveFails(~requested, reachable)
           /\ UNCHANGED <<generation, status, nextProbe, outdated>>
  <2>1. UNCHANGED modeVars /\ saveFailed' = TRUE BY <1>7 DEF SaveFails, UpdateFails
  <2>2. ModeTypes' /\ SavedMode' BY <1>1, <2>1, SameMode
  <2> QED BY <1>5, <1>7, <2>1, <2>2
<1> QED BY <1>4, <1>6, <1>7 DEF Toggle

\* The poll reads a network event.
LEMMA NetworkEventPreserves == ASSUME IInv, NetworkEvent PROVE IInv'
<1> DEFINE event == Head(networkQueue)
<1>1. ModeTypes /\ SavedMode /\ ShownInv /\ LossInv /\ ProbeInv /\ EventsInv /\ TypeOK
  BY DEF IInv, TypeOK, ModeTypes
<1>2. /\ networkQueue # <<>> /\ network' = event /\ networkQueue' = Tail(networkQueue)
      /\ generation' = generation + 1 /\ nextProbe' = 0 /\ outdated' = TRUE
      /\ UNCHANGED <<at, closing, probeActive, resultQueue, probing, lastEmitted, worldVars, restarts>>
  BY DEF NetworkEvent
<1>3. /\ event \in Reachability /\ Tail(networkQueue) \in Seq(Reachability)
      /\ Len(Tail(networkQueue)) = Len(networkQueue) - 1 /\ Len(networkQueue) \in Nat
  BY <1>1, <1>2, Queues
<1>4. generation \in 0..MaxEvents /\ MaxEvents \in Nat /\ 0 \in 0..ProbePeriod
  BY <1>1, BoundsAssumption DEF TypeOK
<1>5. Len(networkQueue) # 0
  BY <1>1, <1>2, EmptySeq DEF TypeOK
<1>6. generation + 1 \in 0..MaxEvents BY <1>1, <1>3, <1>4, <1>5 DEF EventsInv
<1>7. EventsInv' BY <1>1, <1>2, <1>3, <1>4 DEF EventsInv, worldVars
<1>8. ProbeInv' BY <1>1, <1>2, <1>4, OutdatedProbe
<1>9. ModeTypes' /\ SavedMode' /\ status' \in Reachability /\ saveFailed' \in BOOLEAN /\ ShownInv'
      /\ LossInv'
  <2>1. CASE event = "no" /\ requested /\ Saved(requested, "no")
    <3>1. status' = "no" /\ Update(requested, "no") /\ saveFailed' = FALSE
      BY <2>1 DEF NetworkEvent, Saved
    <3>2. requested \in BOOLEAN /\ "no" \in Reachability BY <1>1 DEF ModeTypes, Reachability
    <3>3. ModeTypes' /\ SavedMode' /\ reachable' = "no" BY <1>1, <3>1, <3>2, UpdateMode
    <3>4. ~Online' BY <3>3 DEF Online, Effective
    <3> QED BY <1>2, <3>1, <3>2, <3>3, <3>4 DEF ShownInv, LossInv
  <2>2. CASE event = "no" /\ requested /\ SaveFails(requested, "no")
    <3>1. status' = "no" /\ UNCHANGED modeVars /\ saveFailed' = TRUE
      BY <2>2 DEF NetworkEvent, SaveFails, UpdateFails
    <3>2. ModeTypes' /\ SavedMode' BY <1>1, <3>1, SameMode
    <3> QED BY <1>2, <3>1, <3>2 DEF ShownInv, LossInv, Reachability
  <2>3. CASE ~(event = "no" /\ requested)
    <3>1. UNCHANGED <<status, modeVars, saveFailed>> BY <2>3 DEF NetworkEvent
    <3>2. ModeTypes' /\ SavedMode' /\ Online' = Online BY <1>1, <3>1, SameMode
    <3>3. event = "no" => ~Online BY <2>3 DEF Online, Effective
    <3> QED BY <1>1, <1>2, <3>1, <3>2, <3>3 DEF ShownInv, LossInv, TypeOK
  <2> QED BY <2>1, <2>2, <2>3 DEF NetworkEvent
<1>10. TypeOK'
  BY <1>1, <1>2, <1>3, <1>4, <1>6, <1>9 DEF TypeOK, ModeTypes, worldVars
<1> QED BY <1>7, <1>8, <1>9, <1>10 DEF IInv

\* The poll reads the result of a probe, outdated or not.
LEMMA ProbeResultPreserves == ASSUME IInv, ProbeResult PROVE IInv'
<1> DEFINE result == Head(resultQueue)
<1>1. ModeTypes /\ SavedMode /\ ShownInv /\ LossInv /\ ProbeInv /\ EventsInv /\ TypeOK
  BY DEF IInv, TypeOK, ModeTypes
<1>2. /\ resultQueue # <<>> /\ resultQueue' = Tail(resultQueue) /\ probeActive' = FALSE
      /\ UNCHANGED <<at, closing, generation, nextProbe, network, networkQueue, probing, lastEmitted,
                     worldVars, outdated, restarts>>
  BY DEF ProbeResult
<1>3. result \in Results /\ Tail(resultQueue) \in Seq(Results)
      /\ Len(Tail(resultQueue)) = Len(resultQueue) - 1
  BY <1>1, <1>2, Queues
<1>4. probeActive /\ probing = {} /\ Len(resultQueue) = 1
      /\ (outdated <=> result.generation # generation)
  BY <1>1, <1>2 DEF ProbeInv, Pending
<1>5. Tail(resultQueue) = <<>> BY <1>3, <1>4, EmptySeq
<1>6. ProbeInv' BY <1>2, <1>4, <1>5 DEF ProbeInv
<1>7. EventsInv' BY <1>1, <1>2 DEF EventsInv, worldVars
<1>8. ModeTypes' /\ SavedMode' /\ status' \in Reachability /\ saveFailed' \in BOOLEAN /\ ShownInv'
      /\ LossInv'
  <2>1. ASSUME Current(result) PROVE network # "no" /\ requested
    BY <2>1, <1>1, <1>4 DEF Current, LossInv
  <2>2. result.reachable \in {"yes", "no"} /\ result.reachable \in Reachability
    BY <1>3 DEF Results, Reachability
  <2>3. CASE Current(result) /\ Saved(requested, result.reachable)
    <3>1. status' = result.reachable /\ Update(requested, result.reachable) /\ saveFailed' = FALSE
      BY <2>3 DEF ProbeResult, Saved
    <3>2. ModeTypes' /\ SavedMode' /\ requested' = requested /\ reachable' = result.reachable
      BY <1>1, <2>2, <3>1, UpdateMode DEF ModeTypes
    <3>3. Online' <=> result.reachable # "no" BY <2>1, <2>3, <3>2 DEF Online, Effective
    <3> QED BY <1>2, <2>1, <2>2, <2>3, <3>1, <3>2, <3>3 DEF ShownInv, LossInv
  <2>4. CASE Current(result) /\ SaveFails(requested, result.reachable)
    <3>1. status' = result.reachable /\ UNCHANGED modeVars /\ saveFailed' = TRUE
      BY <2>4 DEF ProbeResult, SaveFails, UpdateFails
    <3>2. ModeTypes' /\ SavedMode' BY <1>1, <3>1, SameMode
    <3> QED BY <1>2, <2>1, <2>2, <2>4, <3>1, <3>2 DEF ShownInv, LossInv
  <2>5. CASE ~Current(result)
    <3>1. UNCHANGED <<status, modeVars, saveFailed>> BY <2>5 DEF ProbeResult
    <3>2. ModeTypes' /\ SavedMode' /\ Online' = Online BY <1>1, <3>1, SameMode
    <3> QED BY <1>1, <1>2, <3>1, <3>2 DEF ShownInv, LossInv, TypeOK
  <2> QED BY <2>3, <2>4, <2>5 DEF ProbeResult
<1>9. resultQueue' \in Seq(Results) BY <1>2, <1>3
<1>10. TypeOK'
  BY <1>1, <1>2, <1>8, <1>9 DEF TypeOK, ModeTypes, worldVars, Results
<1> QED BY <1>6, <1>7, <1>8, <1>10 DEF IInv

\* The poll may start a probe and schedules the next poll.
LEMMA PollEndsPreserves == ASSUME IInv, PollEnds PROVE IInv'
<1>1. ModeTypes /\ SavedMode /\ ShownInv /\ LossInv /\ ProbeInv /\ EventsInv /\ TypeOK
  BY DEF IInv, TypeOK, ModeTypes
<1>2. /\ at' = "idle"
      /\ UNCHANGED <<modeVars, closing, status, generation, network, networkQueue, resultQueue,
                     lastEmitted, worldVars, saveFailed, restarts>>
  BY DEF PollEnds
<1>3. ModeTypes' /\ SavedMode' /\ Online' = Online BY <1>1, <1>2, SameMode
<1>4. EventsInv' BY <1>1, <1>2 DEF EventsInv, worldVars
<1>5. ShownInv' BY <1>1, <1>2, <1>3 DEF ShownInv
<1>6. generation \in 0..MaxEvents /\ generation \in Nat /\ nextProbe \in 0..ProbePeriod
      /\ ProbePeriod \in Nat
  BY <1>1, BoundsAssumption DEF TypeOK
<1>7. CASE MayProbe /\ Due
  <2>1. /\ probeActive' = TRUE /\ nextProbe' = ProbePeriod
        /\ probing' = probing \cup {generation} /\ outdated' = FALSE
    BY <1>7 DEF PollEnds
  <2>2. ~probeActive /\ network # "no" BY <1>7 DEF MayProbe
  <2>3. probing = {} /\ resultQueue = <<>> BY <1>1, <2>2 DEF ProbeInv
  <2>4. ProbeInv'
    <3>1. Pending(generation)' BY <1>2, <2>1, <2>3 DEF Pending
    <3> QED BY <1>2, <1>6, <2>1, <3>1 DEF ProbeInv
  <2>5. LossInv' BY <1>2, <2>2 DEF LossInv
  <2>6. /\ probing' \subseteq 0..MaxEvents /\ nextProbe' \in 0..ProbePeriod
        /\ probeActive' \in BOOLEAN /\ outdated' \in BOOLEAN
    <3>1. probing' = {generation} BY <2>1, <2>3
    <3>2. nextProbe' \in 0..ProbePeriod BY <1>6, <2>1
    <3> QED BY <1>6, <2>1, <3>1, <3>2
  <2>7. TypeOK' BY <1>1, <1>2, <1>3, <2>6 DEF TypeOK, ModeTypes, worldVars
  <2> QED BY <1>3, <1>4, <1>5, <2>4, <2>5, <2>7 DEF IInv
<1>8. CASE ~(MayProbe /\ Due)
  <2>1. /\ nextProbe' = IF MayProbe THEN nextProbe - 1 ELSE nextProbe
        /\ UNCHANGED <<probeActive, probing, outdated>>
    BY <1>8 DEF PollEnds
  <2>2. nextProbe' \in 0..ProbePeriod BY <1>6, <1>8, <2>1 DEF Due
  <2>3. ProbeInv' BY <1>1, <1>2, <2>1, SameProbe
  <2>4. LossInv' BY <1>1, <1>2, <1>3, <2>1 DEF LossInv
  <2>5. TypeOK' BY <1>1, <1>2, <1>3, <2>1, <2>2 DEF TypeOK, ModeTypes, worldVars
  <2> QED BY <1>3, <1>4, <1>5, <2>3, <2>4, <2>5 DEF IInv
<1> QED BY <1>7, <1>8

\* A probe thread puts its result.
LEMMA AnswerPreserves == ASSUME IInv, Answer PROVE IInv'
<1>1. PICK g \in probing : ProbeAnswers(g) BY DEF Answer
<1>2. ModeTypes /\ SavedMode /\ ShownInv /\ LossInv /\ ProbeInv /\ EventsInv /\ TypeOK
  BY DEF IInv, TypeOK, ModeTypes
<1> DEFINE r == [generation |-> g, reachable |-> IF internet THEN "yes" ELSE "no"]
<1>3. /\ probing' = probing \ {g} /\ resultQueue' = Append(resultQueue, r)
      /\ UNCHANGED <<modeVars, shellVars, networkQueue, lastEmitted, worldVars, historyVars>>
  BY <1>1 DEF ProbeAnswers
<1>4. probeActive /\ probing = {g} /\ resultQueue = <<>> /\ g \in 0..generation
      /\ (outdated <=> g # generation)
  BY <1>2 DEF ProbeInv, Pending
<1>5. r \in Results /\ r.generation = g BY <1>2 DEF TypeOK, Results
<1>6. resultQueue' = <<r>> BY <1>3, <1>4
<1> HIDE DEF r
<1>7. resultQueue' \in Seq(Results) /\ Len(resultQueue') = 1 /\ Head(resultQueue') = r
  BY <1>5, <1>6
<1>8. ProbeInv'
  <2>1. Pending(g)' BY <1>3, <1>4, <1>5, <1>7 DEF Pending
  <2> QED BY <1>3, <1>4, <2>1 DEF ProbeInv, shellVars, historyVars
<1>9. ModeTypes' /\ SavedMode' /\ Online' = Online BY <1>2, <1>3, SameMode
<1>10. EventsInv' BY <1>2, <1>3 DEF EventsInv, shellVars, worldVars
<1>11. ShownInv' /\ LossInv' BY <1>2, <1>3, <1>9, SameShown DEF shellVars, historyVars
<1>12. TypeOK'
  BY <1>2, <1>3, <1>7, <1>9 DEF TypeOK, ModeTypes, shellVars, worldVars, historyVars, Results
<1> QED BY <1>8, <1>9, <1>10, <1>11, <1>12 DEF IInv

\* Steps of the monitor, of the world, and the steps of a poll between its loops.
LEMMA OtherPreserve ==
    ASSUME IInv,
           MonitorEmits \/ LinkChanges \/ InternetChanges \/ Close \/ PollStarts \/ NetworkDrained
    PROVE  IInv'
<1>1. ModeTypes /\ SavedMode /\ ShownInv /\ LossInv /\ ProbeInv /\ EventsInv /\ TypeOK
  BY DEF IInv, TypeOK, ModeTypes
<1>2. UNCHANGED <<modeVars, status, generation, probeActive, nextProbe, network, probing, resultQueue,
                  historyVars>>
  BY DEF MonitorEmits, LinkChanges, InternetChanges, Close, PollStarts, NetworkDrained, shellVars,
         threadVars
<1>3. ModeTypes' /\ SavedMode' /\ Online' = Online BY <1>1, <1>2, SameMode
<1>4. ProbeInv' BY <1>1, <1>2, SameProbe DEF historyVars
<1>5. ShownInv' /\ LossInv' BY <1>1, <1>2, <1>3, SameShown DEF historyVars
<1>6. Len(networkQueue) \in Nat /\ generation \in Nat /\ MaxEvents \in Nat
  BY <1>1, Queues, BoundsAssumption DEF TypeOK
<1>7. SUFFICES EventsInv' /\ at' \in {"idle", "network", "results"} /\ closing' \in BOOLEAN
               /\ networkQueue' \in Seq(Reachability) /\ lastEmitted' \in Reachability \cup {"never"}
               /\ link' \in Reachability /\ internet' \in BOOLEAN
  <2>1. TypeOK' BY <1>1, <1>2, <1>3, <1>7 DEF TypeOK, ModeTypes, historyVars
  <2> QED BY <1>3, <1>4, <1>5, <1>7, <2>1 DEF IInv
<1>8. CASE MonitorEmits
  <2>1. /\ link # lastEmitted /\ lastEmitted' = link /\ networkQueue' = Append(networkQueue, link)
        /\ UNCHANGED <<at, closing, link, internet, generation>>
    BY <1>8 DEF MonitorEmits, shellVars, worldVars
  <2>2. link \in Reachability /\ networkQueue \in Seq(Reachability) BY <1>1 DEF TypeOK
  <2>3. networkQueue' \in Seq(Reachability) /\ Len(networkQueue') = Len(networkQueue) + 1
    BY <2>1, <2>2, AppendProperties
  <2>4. EventsInv' BY <1>1, <1>6, <2>1, <2>3 DEF EventsInv
  <2> QED BY <1>1, <2>1, <2>2, <2>3, <2>4 DEF TypeOK
<1>9. CASE LinkChanges
  <2>1. Spare(2) /\ link' \in Reachability
        /\ UNCHANGED <<at, closing, networkQueue, lastEmitted, internet, generation>>
    BY <1>9 DEF LinkChanges, shellVars, threadVars
  <2>2. EventsInv' BY <1>6, <2>1 DEF EventsInv, Spare
  <2> QED BY <1>1, <2>1, <2>2 DEF TypeOK
<1>10. CASE InternetChanges
  <2>1. internet' = ~internet /\ UNCHANGED <<at, closing, networkQueue, lastEmitted, link, generation>>
    BY <1>10 DEF InternetChanges, shellVars, threadVars
  <2>2. EventsInv' BY <1>1, <2>1 DEF EventsInv
  <2>3. internet' \in BOOLEAN BY <2>1
  <2> QED BY <1>1, <2>1, <2>2, <2>3 DEF TypeOK
<1>11. CASE Close \/ PollStarts \/ NetworkDrained
  <2>1. UNCHANGED <<networkQueue, lastEmitted, link, internet, generation>>
    BY <1>11 DEF Close, PollStarts, NetworkDrained, threadVars, worldVars
  <2>2. at' \in {"idle", "network", "results"} /\ closing' \in BOOLEAN
    BY <1>1, <1>11 DEF Close, PollStarts, NetworkDrained, TypeOK
  <2>3. EventsInv' BY <1>1, <2>1 DEF EventsInv
  <2> QED BY <1>1, <2>1, <2>2, <2>3 DEF TypeOK
<1> QED BY <1>8, <1>9, <1>10, <1>11

\* A process that has just started, with the mode it has loaded.
Fresh ==
    ModeTypes /\ SavedMode /\ FreshShell /\ link \in Reachability /\ internet \in BOOLEAN
    /\ restarts \in 0..MaxRestarts

\* A shell that has just been composed satisfies the invariant.
LEMMA FreshStart == Fresh => IInv
<1> SUFFICES ASSUME Fresh PROVE IInv OBVIOUS
<1> USE DEF Fresh
<1>1. TypeOK
  <2>1. networkQueue \in Seq(Reachability) /\ resultQueue \in Seq(Results)
    BY EmptySeq DEF FreshShell
  <2>2. generation \in 0..MaxEvents /\ nextProbe \in 0..ProbePeriod /\ probing \subseteq 0..MaxEvents
    BY BoundsAssumption DEF FreshShell
  <2>3. status \in Reachability /\ network \in Reachability BY DEF FreshShell, Reachability
  <2> QED BY <2>1, <2>2, <2>3 DEF TypeOK, ModeTypes, FreshShell, Results
<1>2. EventsInv BY EmptySeq, BoundsAssumption DEF EventsInv, FreshShell
<1>3. ProbeInv BY DEF ProbeInv, FreshShell
<1>4. ShownInv /\ LossInv BY DEF ShownInv, LossInv, FreshShell
<1> QED BY <1>1, <1>2, <1>3, <1>4 DEF IInv

\* A restart, after a close or a crash.
LEMMA RestartPreserves == ASSUME IInv, Restart PROVE IInv'
<1>1. ModeTypes /\ TypeOK BY DEF IInv, TypeOK, ModeTypes
<1>2. ModeTypes' /\ SavedMode' BY <1>1, LoadMode DEF Restart
<1>3. FreshShell' BY DEF Restart, FreshShell
<1>4. link' \in Reachability /\ internet' \in BOOLEAN /\ restarts' \in 0..MaxRestarts
  BY <1>1, BoundsAssumption DEF Restart, TypeOK, worldVars
<1>5. Fresh' BY <1>2, <1>3, <1>4 DEF Fresh
<1> QED BY <1>5, FreshStart, PTL

-----------------------------------------------------------------------------
(* The theorems.                                                           *)

\* The first start satisfies the invariant.
LEMMA InitIInv == Init => IInv
<1> SUFFICES ASSUME Init PROVE IInv OBVIOUS
<1>1. LoadRequested(file) \in BOOLEAN /\ LoadReachable(file) \in Reachability
  BY DEF Init, InitMode, Files, LoadRequested, LoadReachable, Reachability
<1>2. ModeTypes /\ SavedMode
  BY <1>1 DEF Init, InitMode, ModeTypes, SavedMode, SavedOnline, Online, Effective
<1>3. Fresh BY <1>2, BoundsAssumption DEF Init, Fresh
<1> QED BY <1>3, FreshStart

\* The invariant is inductive.
LEMMA NextIInv == IInv /\ [Next]_vars => IInv'
<1> SUFFICES ASSUME IInv, [Next]_vars PROVE IInv' OBVIOUS
<1>1. CASE Toggle BY <1>1, TogglePreserves
<1>2. CASE Poll
  BY <1>2, NetworkEventPreserves, ProbeResultPreserves, PollEndsPreserves, OtherPreserve DEF Poll
<1>3. CASE Answer BY <1>3, AnswerPreserves
<1>4. CASE MonitorEmits \/ LinkChanges \/ InternetChanges \/ Close BY <1>4, OtherPreserve
<1>5. CASE Restart BY <1>5, RestartPreserves
<1>6. CASE UNCHANGED vars
  <2>1. UNCHANGED <<modeVars, shellVars, threadVars, worldVars, historyVars>> BY <1>6 DEF vars
  <2>2. ModeTypes /\ SavedMode /\ ShownInv /\ LossInv /\ ProbeInv /\ EventsInv /\ TypeOK
    BY DEF IInv, TypeOK, ModeTypes
  <2>3. ModeTypes' /\ SavedMode' /\ Online' = Online BY <2>1, <2>2, SameMode
  <2>4. ProbeInv' BY <2>1, <2>2, SameProbe DEF shellVars, threadVars, historyVars
  <2>5. ShownInv' /\ LossInv' BY <2>1, <2>2, <2>3, SameShown DEF shellVars, historyVars
  <2>6. EventsInv' BY <2>1, <2>2 DEF EventsInv, shellVars, threadVars, worldVars
  <2>7. TypeOK'
    BY <2>1, <2>2, <2>3 DEF TypeOK, ModeTypes, shellVars, threadVars, worldVars, historyVars
  <2> QED BY <2>3, <2>4, <2>5, <2>6, <2>7 DEF IInv
<1> QED BY <1>1, <1>2, <1>3, <1>4, <1>5, <1>6 DEF Next

\* The invariant holds in every reachable state, for all bounds.
THEOREM ConnectivityInductive == Spec => []IInv
BY InitIInv, NextIInv, PTL DEF Spec

\* The types of controller, threads and file (ShellConnectivityController).
THEOREM TypeCorrect == Spec => []TypeOK
<1>1. IInv => TypeOK BY DEF IInv
<1> QED BY <1>1, ConnectivityInductive, PTL

\* File, memory and listeners agree on preference and mode, through saves that
\* raise and restarts at any point (OnlineModeController._update).
THEOREM SavedModeHolds == Spec => []SavedMode
<1>1. IInv => SavedMode BY DEF IInv
<1> QED BY <1>1, ConnectivityInductive, PTL

\* There is one probe at a time, and probeActive says so.
THEOREM OneProbeHolds == Spec => []OneProbe
<1>1. IInv => OneProbe
  <2> SUFFICES ASSUME IInv PROVE OneProbe OBVIOUS
  <2>1. ProbeInv /\ generation \in 0..MaxEvents /\ MaxEvents \in Nat
    BY BoundsAssumption DEF IInv, TypeOK
  <2>2. CASE probeActive
    <3>1. PICK g \in 0..generation : Pending(g) BY <2>1, <2>2 DEF ProbeInv
    <3>2. g \in 0..MaxEvents BY <2>1
    <3> QED BY <2>2, <3>1, <3>2 DEF Pending, OneProbe
  <2>3. CASE ~probeActive
    <3>1. probing = {} /\ Len(resultQueue) = 0 BY <2>1, <2>3, EmptySeq DEF ProbeInv
    <3> QED BY <2>3, <3>1 DEF OneProbe
  <2> QED BY <2>2, <2>3
<1> QED BY <1>1, ConnectivityInductive, PTL

\* The bars agree with the mode between polls (_internet_status).
THEOREM BarsAgreeHolds == Spec => []BarsAgree
<1>1. IInv => BarsAgree BY DEF IInv, ShownInv, BarsAgree
<1> QED BY <1>1, ConnectivityInductive, PTL

\* A definite local loss disables the online features (_network_available).
THEOREM LossDisablesHolds == Spec => []LossDisables
<1>1. IInv => LossDisables BY DEF IInv, LossInv, LossDisables
<1> QED BY <1>1, ConnectivityInductive, PTL

\* A result that outlived its question changes nothing (_internet_generation).
THEOREM OutdatedIgnoredHolds == Spec => OutdatedIgnored
<1> DEFINE ReadsOutdated ==
      outdated /\ resultQueue # <<>> /\ resultQueue' = Tail(resultQueue) /\ UNCHANGED restarts
<1>1. ASSUME IInv, [Next]_vars, ReadsOutdated PROVE UNCHANGED <<status, reachable>>
  <2>1. ProbeInv /\ TypeOK BY <1>1 DEF IInv
  <2>2. Len(Tail(resultQueue)) = Len(resultQueue) - 1 /\ Len(resultQueue) \in Nat
    BY <1>1, <2>1, Queues, LenProperties DEF TypeOK
  <2>3. resultQueue' # resultQueue
    <3>1. \A n \in Nat : n - 1 # n OBVIOUS
    <3>2. Len(Tail(resultQueue)) # Len(resultQueue) BY <2>2, <3>1, Zenon
    <3> QED BY <1>1, <3>2, Zenon
  <2>4. ~Current(Head(resultQueue)) BY <1>1, <2>1 DEF ProbeInv, Pending, Current
  <2>5. ~Restart BY <1>1, <2>1 DEF Restart, TypeOK
  <2>6. ~Answer
    <3>1. ASSUME NEW g \in probing PROVE ~ProbeAnswers(g)
      BY <1>1, <2>1, <3>1 DEF ProbeInv, Pending
    <3> QED BY <3>1 DEF Answer
  <2>7. ProbeResult
    BY <1>1, <2>3, <2>5, <2>6
    DEF Next, Poll, Toggle, PollStarts, NetworkEvent, NetworkDrained, PollEnds, MonitorEmits,
        LinkChanges, InternetChanges, Close, vars, shellVars, threadVars
  <2> QED BY <2>4, <2>7 DEF ProbeResult, modeVars
<1>2. IInv /\ [Next]_vars => [ReadsOutdated => UNCHANGED <<status, reachable>>]_vars
  BY <1>1
<1> QED BY <1>2, ConnectivityInductive, PTL DEF Spec, OutdatedIgnored
=============================================================================
