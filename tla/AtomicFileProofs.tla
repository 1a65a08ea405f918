-------------------------- MODULE AtomicFileProofs --------------------------
(***************************************************************************)
(* WriteFileAtomic implements a register for every set of contents and any *)
(* number of calls: the target changes in the one step of the rename, and  *)
(* the rename is reached with a whole temporary file only.                 *)
(***************************************************************************)
EXTENDS AtomicFile, TLAPS

Writing == {"create", "chmod", "copy", "sync", "close", "rename"}

IInv ==
    /\ TypeOK /\ OutcomeIsTrue /\ OrphansComeFromMishaps
    /\ pc = "done" <=> outcome # "busy"
    /\ pc \in {"compare", "create"} => temp = "absent"
    /\ pc \in {"sync", "close", "rename"} => temp = "whole"
    /\ pc \in Writing \cup {"compare"} => file = before /\ err = "nil"
    /\ pc = "remove" => file = IF err = "nil" THEN wanted ELSE before
    /\ orphans <= mishaps

LEMMA Beginning == Init => IInv
  BY ContentsAssumption
     DEF Init, IInv, TypeOK, OutcomeIsTrue, OrphansComeFromMishaps, Writing


LEMMA Stepping == IInv /\ [Next]_vars => IInv'
  <1> SUFFICES ASSUME IInv, [Next]_vars PROVE IInv'
    OBVIOUS
  <1> USE DEF IInv, TypeOK, OutcomeIsTrue, OrphansComeFromMishaps, Writing
  <1>1. CASE Compare
    BY <1>1 DEF Compare
  <1>2. CASE CreateTemp
    BY <1>2 DEF CreateTemp
  <1>3. CASE Chmod
    BY <1>3 DEF Chmod, AfterChmod, Syscall
  <1>4. CASE Copy
    BY <1>4 DEF Copy, Syscall
  <1>5. CASE Sync \/ Close
    BY <1>5 DEF Sync, Close, Syscall
  <1>6. CASE Rename
    BY <1>6 DEF Rename
  <1>7. CASE RemoveTemp
    BY <1>7 DEF RemoveTemp, NoTemp, Result
  <1>8. CASE Kill
    BY <1>8 DEF Kill
  <1>9. CASE CallAgain
    BY <1>9 DEF CallAgain
  <1>10. CASE UNCHANGED vars
    BY <1>10 DEF vars
  <1> QED
    BY <1>1, <1>2, <1>3, <1>4, <1>5, <1>6, <1>7, <1>8, <1>9, <1>10 DEF Next, Step

\* The system calls of one write, and the kills between them, keep IInv.
THEOREM Inductive == Spec => []IInv
  BY Beginning, Stepping, PTL DEF Spec

\* The target holds a whole content in every state (nfo.go 28-52).
THEOREM NeverTorn == Spec => []TypeOK
  <1>1. IInv => TypeOK
    BY DEF IInv
  <1> QED
    BY <1>1, Inductive, PTL

\* An error means the target is as it was, success that it is as asked, after
\* any sequence of failed and killed calls (nfo.go 13-52).
THEOREM OutcomesAreTrue == Spec => []OutcomeIsTrue
  <1>1. IInv => OutcomeIsTrue
    BY DEF IInv
  <1> QED
    BY <1>1, Inductive, PTL

\* No temporary file is left without a kill or a refused removal to blame
\* (nfo.go 35).
THEOREM OrphansAccountedFor == Spec => []OrphansComeFromMishaps
  <1>1. IInv => OrphansComeFromMishaps
    BY DEF IInv
  <1> QED
    BY <1>1, Inductive, PTL

LEMMA RegisterStep == IInv /\ [Next]_vars => [Register!RegisterNext]_(Register!registerVars)
  <1> SUFFICES ASSUME IInv, [Next]_vars
               PROVE  Register!RegisterNext \/ UNCHANGED Register!registerVars
    OBVIOUS
  <1> USE DEF IInv, TypeOK, Writing, Register!RegisterNext, Register!registerVars
  <1>1. CASE Compare
    BY <1>1 DEF Compare, Register!Succeed, Register!GiveUp
  <1>2. CASE CreateTemp
    BY <1>2 DEF CreateTemp, Register!GiveUp
  <1>3. CASE Chmod \/ Copy \/ Sync \/ Close
    BY <1>3 DEF Chmod, Copy, Sync, Close, Syscall
  <1>4. CASE Rename
    BY <1>4 DEF Rename, Register!Replace
  <1>5. CASE RemoveTemp
    BY <1>5 DEF RemoveTemp, Result, Register!GiveUp, Register!Succeed
  <1>6. CASE Kill
    BY <1>6 DEF Kill, Register!GiveUp
  <1>7. CASE CallAgain
    BY <1>7 DEF CallAgain, Register!Call
  <1>8. CASE UNCHANGED vars
    BY <1>8 DEF vars
  <1> QED
    BY <1>1, <1>2, <1>3, <1>4, <1>5, <1>6, <1>7, <1>8 DEF Next, Step

\* Whoever reads the target while it is written, and whenever the writer dies,
\* sees a register (nfo.go 13-52).
THEOREM Refinement == Spec => ImplementsRegister
  <1>1. Init => Register!FirstCall
    BY DEF Init, Register!FirstCall
  <1> QED
    BY <1>1, RegisterStep, Inductive, PTL DEF Spec, ImplementsRegister, Register!RegisterSpec
=============================================================================
