----------------------------- MODULE AtomicFile -----------------------------
(***************************************************************************)
(* utils.WriteFileAtomic and SaveNfo (utils/nfo.go), system call by system *)
(* call: every call may fail, the copy after part of the content, and the  *)
(* process may be killed between any two of them and started again.        *)
(***************************************************************************)
EXTENDS Naturals

CONSTANTS
    Contents,  \* complete contents
    Nothing,   \* no such file
    MaxCalls   \* bound: calls of SaveNfo

ASSUME ContentsAssumption == Nothing \notin Contents /\ MaxCalls \in Nat

VARIABLES
    file,      \* what the target path holds
    temp,      \* the temporary file of this call: "absent", "part" or "whole"
    orphans,   \* temporary files nobody will remove
    pc,
    err,       \* the error the call will return: "nil" or "error"
    wanted,
    before,    \* history: the target when the call began
    outcome,
    calls,
    mishaps    \* history: kills, and removals the system refused

vars == <<file, temp, orphans, pc, err, wanted, before, outcome, calls, mishaps>>

\* A file with the first bytes of some content is none of the Contents.
Torn == "torn"

\* A reader finds no file or a whole content, never the torn file a rename
\* before the end of the copy would show (nfo.go 28-52).
TypeOK ==
    /\ file \in Contents \cup {Nothing}
    /\ temp \in {"absent", "part", "whole"}
    /\ orphans \in Nat /\ calls \in Nat /\ mishaps \in Nat
    /\ pc \in {"compare", "create", "chmod", "copy", "sync", "close", "rename", "remove", "done"}
    /\ err \in {"nil", "error"}
    /\ wanted \in Contents
    /\ before \in Contents \cup {Nothing}
    /\ outcome \in {"busy", "ok", "error", "killed"}

----------------------------------------------------------------------------

Init ==
    /\ file = Nothing /\ temp = "absent" /\ orphans = 0 /\ pc = "compare" /\ err = "nil"
    /\ wanted \in Contents /\ before = Nothing /\ outcome = "busy" /\ calls = 1 /\ mishaps = 0

\* SaveNfo: a file that already says so is not written again; one that says
\* something else, or cannot be read, is. Markers and cache files are written
\* without a look at what is there.
Compare ==
    /\ pc = "compare"
    /\ \/ file = wanted /\ pc' = "done" /\ outcome' = "ok"
       \/ pc' = "create" /\ UNCHANGED outcome
       \/ pc' = "done" /\ outcome' = "error"
    /\ UNCHANGED <<file, temp, orphans, err, wanted, before, calls, mishaps>>

CreateTemp ==
    /\ pc = "create"
    /\ \/ pc' = "done" /\ outcome' = "error" /\ UNCHANGED temp
       \/ pc' = "chmod" /\ temp' = "part" /\ UNCHANGED outcome
    /\ UNCHANGED <<file, orphans, err, wanted, before, calls, mishaps>>

\* A call between the creation and the rename: it succeeds, or the deferred
\* removal is what is left to do.
Syscall(at, next) ==
    /\ pc = at
    /\ \/ pc' = next /\ UNCHANGED err
       \/ pc' = "remove" /\ err' = "error"
    /\ UNCHANGED <<file, orphans, wanted, before, outcome, calls, mishaps>>

\* Mutant: the target is replaced as soon as the file has its mode.
EarlyRename == "rename"
AfterChmod == "copy"

Chmod == Syscall("chmod", AfterChmod) /\ UNCHANGED temp

Copy ==
    /\ Syscall("copy", "sync")
    /\ temp' = IF err' = "nil" THEN "whole" ELSE temp

Sync == Syscall("sync", "close") /\ UNCHANGED temp
Close == Syscall("close", "rename") /\ UNCHANGED temp

Rename ==
    /\ pc = "rename" /\ pc' = "remove"
    /\ \/ /\ file' = (IF temp = "whole" THEN wanted ELSE Torn)
          /\ temp' = "absent" /\ UNCHANGED err
       \/ err' = "error" /\ UNCHANGED <<file, temp>>
    /\ UNCHANGED <<orphans, wanted, before, outcome, calls, mishaps>>

\* Mutant: the temporary file is left when the call fails.
KeepTemp == temp
NoTemp == "absent"

\* Mutant: the error of the copy is forgotten.
AlwaysOk == "ok"
Result == IF err = "nil" THEN "ok" ELSE "error"

RemoveTemp ==
    /\ pc = "remove"
    /\ pc' = "done" /\ outcome' = Result
    /\ \/ temp' = NoTemp /\ UNCHANGED mishaps
       \/ temp # "absent" /\ mishaps' = mishaps + 1 /\ UNCHANGED temp
    /\ UNCHANGED <<file, orphans, err, wanted, before, calls>>

----------------------------------------------------------------------------

\* The process dies: its deferred calls do not run.
Kill ==
    /\ outcome = "busy"
    /\ outcome' = "killed" /\ pc' = "done" /\ mishaps' = mishaps + 1
    /\ UNCHANGED <<file, temp, orphans, err, wanted, before, calls>>

\* The next write of the same file, in this run or the next.
CallAgain ==
    /\ outcome # "busy" /\ calls < MaxCalls /\ calls' = calls + 1
    /\ wanted' \in Contents /\ before' = file
    /\ orphans' = orphans + (IF temp = "absent" THEN 0 ELSE 1)
    /\ temp' = "absent" /\ pc' = "compare" /\ err' = "nil" /\ outcome' = "busy"
    /\ UNCHANGED <<file, mishaps>>

Step ==
    \/ Compare \/ CreateTemp \/ Chmod \/ Copy \/ Sync \/ Close \/ Rename \/ RemoveTemp

Next == Step \/ Kill \/ CallAgain

Spec == Init /\ [][Next]_vars

----------------------------------------------------------------------------

\* A call that reports an error has left the target as it was, whichever
\* system call failed, and one that reports success has put its content there
\* (nfo.go 28: a failure keeps the original file).
OutcomeIsTrue ==
    /\ outcome = "error" => file = before
    /\ outcome = "ok" => file = wanted

\* A temporary file stays in the media directory only after a kill or a
\* removal the system refused, one for each (the deferred os.Remove).
OrphansComeFromMishaps == orphans + (IF outcome # "busy" /\ temp # "absent" THEN 1 ELSE 0) <= mishaps

\* Seen from outside, the file is a register.
Register == INSTANCE FileRegister
ImplementsRegister == Register!RegisterSpec
=============================================================================
