----------------------------- MODULE OnlineMode -----------------------------
(***************************************************************************)
(* OnlineModeController (controllers/connectivity/online_mode.py): the     *)
(* user's preference, the observed reachability and the file both are      *)
(* saved in, which services outside the UI process read on their own.      *)
(***************************************************************************)
VARIABLES
    requested,          \* _requested_online
    reachable,          \* _reachable
    file,               \* online-mode.json
    heard               \* the mode the subscribed listeners last acted on

modeVars == <<requested, reachable, file, heard>>

Reachability == {"yes", "no", "unknown"}
\* "legacy" files have the field "online" only.
Files == [kind : {"missing", "legacy", "saved"}, online : BOOLEAN, requested : BOOLEAN]

Effective(req, reach) == req /\ reach # "no"
Online == Effective(requested, reachable)

LoadRequested(f) ==
    \/ f.kind = "missing"
    \/ f.kind = "legacy" /\ f.online
    \/ f.kind = "saved" /\ f.requested

LoadReachable(f) ==
    IF f.kind # "missing" /\ LoadRequested(f) /\ ~f.online THEN "no" ELSE "unknown"

\* saved_online_mode: what a background service sees.
SavedOnline == Effective(LoadRequested(file), LoadReachable(file))

\* A file this program (or its predecessor) wrote.
InitMode ==
    /\ file \in {f \in Files : f.online => f.requested}
    /\ requested = LoadRequested(file) /\ reachable = LoadReachable(file)
    /\ heard = Online

Load ==
    /\ requested' = LoadRequested(file) /\ reachable' = LoadReachable(file)
    /\ heard' = Effective(requested', reachable')
    /\ UNCHANGED file

\* _update: an unchanged pair is not saved; listeners hear a changed mode.
Update(req, reach) ==
    IF req = requested /\ reach = reachable
    THEN UNCHANGED modeVars
    ELSE /\ requested' = req /\ reachable' = reach
         /\ file' = [kind |-> "saved", online |-> Effective(req, reach), requested |-> req]
         /\ heard' = IF Effective(req, reach) # Online THEN Effective(req, reach) ELSE heard

\* Mutant: memory is changed before the file is written.
UpdateFailsLate(req, reach) ==
    /\ <<req, reach>> # <<requested, reachable>>
    /\ requested' = req /\ reachable' = reach
    /\ UNCHANGED <<file, heard>>

\* The save is staged and replaced before memory changes: it may raise.
UpdateFails(req, reach) ==
    /\ <<req, reach>> # <<requested, reachable>>
    /\ UNCHANGED modeVars
=============================================================================
