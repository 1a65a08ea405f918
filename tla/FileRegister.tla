---------------------------- MODULE FileRegister ----------------------------
(***************************************************************************)
(* What the output code expects of a file it writes: it holds one complete *)
(* content at a time, and a call replaces it at once or leaves it alone.   *)
(***************************************************************************)

CONSTANTS Contents, Nothing

VARIABLES
    file,     \* what a reader sees, Nothing when there is no file
    wanted,   \* the content of the latest call
    outcome   \* how that call stands: "busy", "ok", "error", "killed"

registerVars == <<file, wanted, outcome>>

FirstCall == file = Nothing /\ wanted \in Contents /\ outcome = "busy"

Replace == outcome = "busy" /\ file' = wanted /\ UNCHANGED <<wanted, outcome>>

\* A call that succeeds has put its content in place; one that fails has not.
Succeed == outcome = "busy" /\ file = wanted /\ outcome' = "ok" /\ UNCHANGED <<file, wanted>>
GiveUp == outcome = "busy" /\ outcome' \in {"error", "killed"} /\ UNCHANGED <<file, wanted>>

Call == outcome # "busy" /\ outcome' = "busy" /\ wanted' \in Contents /\ UNCHANGED file

RegisterNext == Replace \/ Succeed \/ GiveUp \/ Call

RegisterSpec == FirstCall /\ [][RegisterNext]_registerVars
=============================================================================
