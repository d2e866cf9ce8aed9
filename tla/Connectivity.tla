---------------------------- MODULE Connectivity ----------------------------
(***************************************************************************)
(* ShellConnectivityController over OnlineModeController.  The UI thread   *)
(* polls two queues that the network monitor and the probe threads fill,   *)
(* starts reachability probes, and toggles the user's preference.          *)
(***************************************************************************)
EXTENDS Integers, Sequences, OnlineMode

CONSTANTS
    ProbePeriod,    \* polls between two probes (10 in the code)
    MaxEvents,      \* bound: toggles and network events of one process
    MaxRestarts     \* bound: restarts of the process

ASSUME BoundsAssumption ==
    ProbePeriod \in Nat \ {0} /\ MaxEvents \in Nat \ {0} /\ MaxRestarts \in Nat

VARIABLES
    at,             \* where _poll_internet_status is: "idle" between polls
    closing,        \* _closing
    status,         \* _internet_status, the bars
    generation,     \* _internet_generation
    probeActive,    \* _internet_probe_active
    nextProbe,      \* _internet_next_probe
    network,        \* _network_available
    networkQueue,   \* _network_results
    resultQueue,    \* _internet_results
    probing,        \* generations of the probe threads in flight
    lastEmitted,    \* NetworkMonitor._last
    link, internet, \* external: what the monitor and a probe would observe
    outdated,       \* history: something invalidated the probe in flight
    saveFailed,     \* history: the latest save raised OSError
    restarts

shellVars == <<at, closing, status, generation, probeActive, nextProbe, network>>
threadVars == <<networkQueue, resultQueue, probing, lastEmitted>>
worldVars == <<link, internet>>
historyVars == <<outdated, saveFailed, restarts>>
vars == <<modeVars, shellVars, threadVars, worldVars, historyVars>>

FreshShell ==
    /\ at = "idle" /\ closing = FALSE /\ status = "unknown"
    /\ generation = 0 /\ probeActive = FALSE /\ nextProbe = 0 /\ network = "unknown"
    /\ networkQueue = <<>> /\ resultQueue = <<>> /\ probing = {} /\ lastEmitted = "never"
    /\ outdated = FALSE /\ saveFailed = FALSE

Init ==
    /\ InitMode /\ FreshShell /\ restarts = 0
    /\ link \in Reachability /\ internet \in BOOLEAN

-----------------------------------------------------------------------------
(* toggle, on the UI thread between two polls.                             *)

\* Mutant: the bars keep the result from before the toggle.
ToggledKeepsBars ==
    /\ generation' = generation + 1 /\ nextProbe' = 0
    /\ outdated' = TRUE /\ UNCHANGED status

Toggled ==
    /\ generation' = generation + 1 /\ status' = "unknown" /\ nextProbe' = 0
    /\ outdated' = TRUE

\* Mutant: a loss observed while manually offline is forgotten.
KnownLossForgotten == FALSE
KnownLoss == ~requested /\ network = "no"

Saved(req, reach) == Update(req, reach) /\ saveFailed' = FALSE
SaveFails(req, reach) == UpdateFails(req, reach) /\ saveFailed' = TRUE

\* The bound: an event that has still to be emitted keeps its place.
Spare(n) ==
    generation + Len(networkQueue) + (IF link # lastEmitted THEN 1 ELSE 0) + n <= MaxEvents

Toggle ==
    /\ at = "idle" /\ ~closing /\ Spare(1)
    /\ \/ /\ Saved(~requested, IF KnownLoss THEN "no" ELSE reachable)
          /\ Toggled
       \/ \* the first save succeeds, the second raises
          /\ KnownLoss /\ Update(requested, "no") /\ saveFailed' = TRUE
          /\ UNCHANGED <<generation, status, nextProbe, outdated>>
       \/ /\ SaveFails(~requested, reachable)
          /\ UNCHANGED <<generation, status, nextProbe, outdated>>
    /\ UNCHANGED <<at, closing, probeActive, network, threadVars, worldVars, restarts>>

-----------------------------------------------------------------------------
(* _poll_internet_status.                                                  *)

PollStarts ==
    /\ at = "idle" /\ ~closing
    /\ at' = "network"
    /\ UNCHANGED <<modeVars, closing, status, generation, probeActive, nextProbe, network,
                   threadVars, worldVars, historyVars>>

NetworkEvent ==
    /\ at = "network" /\ networkQueue # <<>>
    /\ network' = Head(networkQueue) /\ networkQueue' = Tail(networkQueue)
    /\ generation' = generation + 1 /\ nextProbe' = 0 /\ outdated' = TRUE
    /\ IF Head(networkQueue) = "no" /\ requested
       THEN status' = "no" /\ (Saved(requested, "no") \/ SaveFails(requested, "no"))
       ELSE UNCHANGED <<status, modeVars, saveFailed>>
    /\ UNCHANGED <<at, closing, probeActive, resultQueue, probing, lastEmitted, worldVars, restarts>>

NetworkDrained ==
    /\ at = "network" /\ networkQueue = <<>>
    /\ at' = "results"
    /\ UNCHANGED <<modeVars, closing, status, generation, probeActive, nextProbe, network,
                   threadVars, worldVars, historyVars>>

\* Mutant: the generation is not compared.
CurrentAny(result) == requested
Current(result) == result.generation = generation /\ requested

ProbeResult ==
    /\ at = "results" /\ resultQueue # <<>>
    /\ resultQueue' = Tail(resultQueue) /\ probeActive' = FALSE
    /\ IF Current(Head(resultQueue))
       THEN LET seen == Head(resultQueue).reachable
            IN status' = seen /\ (Saved(requested, seen) \/ SaveFails(requested, seen))
       ELSE UNCHANGED <<status, modeVars, saveFailed>>
    /\ UNCHANGED <<at, closing, generation, nextProbe, network, networkQueue, probing, lastEmitted,
                   worldVars, outdated, restarts>>

\* Mutant: a second probe may start beside the first.
MayProbeBeside == requested /\ network # "no"
\* Mutant: probing is gated on the effective mode.
MayProbeOnline == Online /\ network # "no" /\ ~probeActive
MayProbe == requested /\ network # "no" /\ ~probeActive

Due == nextProbe <= 0

PollEnds ==
    /\ at = "results" /\ resultQueue = <<>>
    /\ at' = "idle"
    /\ IF MayProbe /\ Due
       THEN /\ probeActive' = TRUE /\ nextProbe' = ProbePeriod
            /\ probing' = probing \cup {generation} /\ outdated' = FALSE
       ELSE /\ nextProbe' = IF MayProbe THEN nextProbe - 1 ELSE nextProbe
            /\ UNCHANGED <<probeActive, probing, outdated>>
    /\ UNCHANGED <<modeVars, closing, status, generation, network, networkQueue, resultQueue,
                   lastEmitted, worldVars, saveFailed, restarts>>

-----------------------------------------------------------------------------
(* Other threads, the world and the process.                               *)

ProbeAnswers(g) ==
    /\ g \in probing
    /\ probing' = probing \ {g}
    /\ resultQueue' = Append(resultQueue,
           [generation |-> g, reachable |-> IF internet THEN "yes" ELSE "no"])
    /\ UNCHANGED <<modeVars, shellVars, networkQueue, lastEmitted, worldVars, historyVars>>

\* NetworkMonitor._emit: changes only, and nothing after close.
MonitorEmits ==
    /\ ~closing /\ link # lastEmitted
    /\ lastEmitted' = link /\ networkQueue' = Append(networkQueue, link)
    /\ UNCHANGED <<modeVars, shellVars, resultQueue, probing, worldVars, historyVars>>

LinkChanges ==
    /\ Spare(2)
    /\ link' \in Reachability \ {link}
    /\ UNCHANGED <<modeVars, shellVars, threadVars, internet, historyVars>>

InternetChanges ==
    /\ internet' = ~internet
    /\ UNCHANGED <<modeVars, shellVars, threadVars, link, historyVars>>

Close ==
    /\ at = "idle" /\ ~closing
    /\ closing' = TRUE
    /\ UNCHANGED <<modeVars, at, status, generation, probeActive, nextProbe, network,
                   threadVars, worldVars, historyVars>>

\* The process ends at any point, closed or killed, and is started again.
Restart ==
    /\ restarts < MaxRestarts /\ restarts' = restarts + 1
    /\ Load
    /\ at' = "idle" /\ closing' = FALSE /\ status' = "unknown"
    /\ generation' = 0 /\ probeActive' = FALSE /\ nextProbe' = 0 /\ network' = "unknown"
    /\ networkQueue' = <<>> /\ resultQueue' = <<>> /\ probing' = {} /\ lastEmitted' = "never"
    /\ outdated' = FALSE /\ saveFailed' = FALSE
    /\ UNCHANGED worldVars

-----------------------------------------------------------------------------
Poll == PollStarts \/ NetworkEvent \/ NetworkDrained \/ ProbeResult \/ PollEnds
Answer == \E g \in probing : ProbeAnswers(g)

Next ==
    \/ Toggle \/ Poll \/ Answer \/ MonitorEmits
    \/ LinkChanges \/ InternetChanges \/ Close \/ Restart

Spec == Init /\ [][Next]_vars
\* The UI timer keeps polling, a probe times out after three seconds at
\* most, and the monitor thread runs.
FairSpec == Spec /\ WF_vars(Poll) /\ WF_vars(Answer) /\ WF_vars(MonitorEmits)

-----------------------------------------------------------------------------
(* Properties.                                                             *)

\* Every variable has its type; at most one probe runs or waits to be read.
TypeOK ==
    /\ requested \in BOOLEAN /\ reachable \in Reachability /\ file \in Files /\ heard \in BOOLEAN
    /\ at \in {"idle", "network", "results"} /\ closing \in BOOLEAN
    /\ status \in Reachability /\ generation \in 0..MaxEvents
    /\ probeActive \in BOOLEAN /\ nextProbe \in 0..ProbePeriod /\ network \in Reachability
    /\ networkQueue \in Seq(Reachability)
    /\ resultQueue \in Seq([generation : 0..MaxEvents, reachable : {"yes", "no"}])
    /\ probing \subseteq 0..MaxEvents /\ lastEmitted \in Reachability \cup {"never"}
    /\ link \in Reachability /\ internet \in BOOLEAN /\ outdated \in BOOLEAN
    /\ saveFailed \in BOOLEAN
    /\ restarts \in 0..MaxRestarts

\* One reachability check at a time, and its completion is always awaited.
OneProbe ==
    probeActive <=> (\E g \in 0..MaxEvents : probing = {g} /\ resultQueue = <<>>)
                    \/ (probing = {} /\ Len(resultQueue) = 1)

\* Services outside the UI process, the next start, after a crash too, and the
\* listeners see the same mode and preference as the UI, also when a save failed.
SavedMode == SavedOnline = Online /\ LoadRequested(file) = requested /\ heard = Online

\* A result whose probe began before a toggle or a local network event is
\* dropped: it changes neither the mode nor the bars.
OutdatedIgnored ==
    [][(outdated /\ resultQueue # <<>> /\ resultQueue' = Tail(resultQueue) /\ UNCHANGED restarts)
          => UNCHANGED <<status, reachable>>]_vars

\* Between polls the bars agree with the mode unless the latest save failed:
\* a passed check is shown only online, a failed check or a loss only offline.
BarsAgree ==
    (at = "idle" /\ ~saveFailed) => /\ status = "yes" => Online
                                    /\ status = "no" => ~Online

\* After a definite local loss online features are disabled, also when the
\* user asks for them again, unless the save that disables them failed.
LossDisables == (at = "idle" /\ network = "no" /\ ~saveFailed) => ~Online

Settled(up) == ~closing /\ requested /\ internet = up /\ link # "no" /\ ~saveFailed

\* The mode follows a reachability that settles: with saves that no longer
\* fail, the requested online mode comes back when the internet stays
\* reachable, and online features are disabled when it stays unreachable.
FollowsInternet ==
    /\ <>[]Settled(TRUE) => <>[]Online
    /\ <>[]Settled(FALSE) => <>[]~Online
=============================================================================
