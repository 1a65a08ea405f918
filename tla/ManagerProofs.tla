---------------------------- MODULE ManagerProofs ----------------------------
(***************************************************************************)
(* What Manager does for every list of sources, every set of requests and  *)
(* every limit. The inductive invariant IInv has four parts: where the     *)
(* loop over the sources stands, what the attempt at the current source    *)
(* has established, how often the judge was asked, and what is on disk.    *)
(***************************************************************************)
EXTENDS Manager, FiniteSetTheorems, TLAPS

Searching == {"search", "searchCall"}
Locating == {"manual", "manualCall"}
Confirming == {"match", "judge", "details", "detailsCall"}
Inside == Searching \cup Locating \cup Confirming \cup {"return"}
Unjudged == {"resolve", "source", "match"} \cup Searching \cup Locating

\* Sources passed so far have failed, and a named source lets none fail.
LoopInv ==
    /\ pc = "done" <=> verdict.kind # "pending"
    /\ pc = "resolve" => turn = 1
    /\ pc \in Inside \cup {"source"} /\ Fixed => req.source # NoSource
    /\ pc \in Inside => turn <= Len(Order) /\ Serving(Current)
    /\ req.source # NoSource => failures = {}
    /\ \A n \in 1..Len(Order) :
         n < turn /\ Applicable(Order[n], req.kind, req.source) => Order[n] \in failures

\* What resolveSource has established about the current source.
AttemptInv ==
    /\ pc \in Locating => Fixed
    /\ pc \in Searching => ~Fixed
    /\ pc \in Searching \cup Locating => manualWork = NoWork
    /\ pc \in Confirming =>
         /\ Fixed => \A w \in candidates : Locates(req.work, w)
         /\ manualWork # NoWork => Fixed /\ candidates = {manualWork}
    /\ pc \in {"details", "detailsCall"} => chosen \in candidates /\ Confirmed(Current, chosen)
    /\ pc = "return" /\ got # NoWork =>
         /\ got \in candidates /\ Confirmed(Current, got)
         /\ Fixed => Locates(req.work, got)

VerdictInv ==
    /\ verdict.kind # "option" => verdict = Without(verdict.kind)
    /\ verdict.kind = "mismatch" =>
         /\ req.source # NoSource
         /\ \E s \in Sources : Applicable(s, req.kind, req.source)
    /\ verdict.kind = "unsupported" =>
         /\ req.source # NoSource
         /\ \A s \in Sources : ~Applicable(s, req.kind, req.source)
    /\ verdict.kind = "exhausted" =>
         /\ req.source = NoSource
         /\ \A s \in Sources : Applicable(s, req.kind, req.source) => s \in failures
    /\ verdict.kind = "option" =>
         /\ turn <= Len(Order) /\ verdict.source = Current
         /\ Applicable(verdict.source, req.kind, req.source)
         /\ verdict.work \in candidates /\ Confirmed(verdict.source, verdict.work)
         /\ Fixed => Locates(req.work, verdict.work)

\* The judge is asked at most once for each source, however the attempt ends:
\* the loop of Resolve passes each source once (m.decisions).
JudgedAtMostOnce == \A s \in Sources : decisions[s] <= 1

JudgeInv ==
    /\ JudgedAtMostOnce
    /\ \A n \in 1..Len(Order) :
         n > turn \/ (n = turn /\ pc \in Unjudged) => decisions[Order[n]] = 0

IInv ==
    /\ TypeOK /\ LoopInv /\ AttemptInv /\ VerdictInv /\ JudgeInv
    /\ CacheHoldsVerifiedFacts

----------------------------------------------------------------------------

LEMMA CurrentIsASource ==
    ASSUME turn \in 1..Len(Order)
    PROVE  Current \in Sources
  BY OrderAssumption DEF Current, Sources

LEMMA ConcludeFrame ==
    ASSUME NEW v, Conclude(v)
    PROVE  /\ pc' = "done" /\ verdict' = v
           /\ UNCHANGED <<req, cancelled, runs, turn, failures, candidates, manualWork,
                          chosen, got, decisions, judged, searchCache, factCache>>
  BY DEF Conclude, attempt, counters, disk

LEMMA WithoutIsAVerdict ==
    ASSUME NEW reason \in VerdictKinds
    PROVE  Without(reason) \in Verdicts
  BY DEF Without, Verdicts

LEMMA ConcludeTyped ==
    ASSUME TypeOK, NEW v \in Verdicts, Conclude(v)
    PROVE  TypeOK'
  BY ConcludeFrame DEF TypeOK

LEMMA StoredFactTyped ==
    ASSUME NEW files \in [Sources -> [FactKeys -> CacheFiles]],
           NEW s, NEW key, NEW w \in Works
    PROVE  [files EXCEPT ![s] = [@ EXCEPT ![key] = Kept({w})]]
               \in [Sources -> [FactKeys -> CacheFiles]]
  <1>1. Kept({w}) \in CacheFiles
    BY DEF Kept, CacheFiles
  <1> QED
    BY <1>1

LEMMA AgedTyped ==
    ASSUME NEW file \in CacheFiles
    PROVE  Aged(file) \in CacheFiles
  BY DEF Aged, Miss, CacheFiles

LEMMA TypeStep == IInv /\ [Next]_vars => TypeOK'
  <1> SUFFICES ASSUME IInv, [Next]_vars
               PROVE  TypeOK'
    OBVIOUS
  <1> USE NoneAssumption DEF IInv, TypeOK, LoopInv
  <1>1. CASE Enter
    BY <1>1, ConcludeTyped, WithoutIsAVerdict DEF Enter, VerdictKinds, attempt, counters, disk
  <1>2. CASE LoopCancelled
    BY <1>2, ConcludeTyped, WithoutIsAVerdict DEF LoopCancelled, VerdictKinds
  <1>3. CASE Skip
    BY <1>3, OrderAssumption DEF Skip, attempt, counters, disk
  <1>4. CASE TrySource
    BY <1>4 DEF TrySource, counters, disk
  <1>5. CASE LoopEnds
    BY <1>5, ConcludeTyped, WithoutIsAVerdict DEF LoopEnds, OutOfSources, VerdictKinds
  <1>6. CASE ReadManual
    BY <1>6 DEF ReadManual, ReadFact, UseManual, Fail, Leave, Locates, counters, disk
  <1>7. CASE AnswerManual
    <2> DEFINE Stored(w) == [factCache EXCEPT ![Current] = [@ EXCEPT ![ManualKey] = Kept({w})]]
    <2>0. \A w \in Works : Stored(w) \in [Sources -> [FactKeys -> CacheFiles]]
      BY StoredFactTyped
    <2>a. factCache' = factCache \/ \E w \in Works : factCache' = Stored(w)
      BY <1>7 DEF AnswerManual, AnswerFact, StoreFact, Locates
    <2>1. factCache' \in [Sources -> [FactKeys -> CacheFiles]]
      BY <2>0, <2>a
    <2> HIDE DEF Stored
    <2>2. /\ pc' \in {"match", "return"} /\ candidates' \subseteq Works
          /\ {manualWork', got'} \subseteq Works \cup {NoWork}
      BY <1>7 DEF AnswerManual, AnswerFact, UseManual, Fail, Leave, Locates
    <2>3. UNCHANGED <<req, cancelled, runs, turn, failures, chosen, decisions, judged,
                      verdict, searchCache>>
      BY <1>7 DEF AnswerManual, AnswerFact, counters
    <2> QED
      BY <2>1, <2>2, <2>3
  <1>8. CASE ReadSearch
    BY <1>8, CurrentIsASource DEF ReadSearch, Fail, Leave, Inside, Searching, CacheFiles, counters, disk
  <1>9. CASE AnswerSearch
    <2>1. ASSUME NEW answer \in SUBSET Works
          PROVE  [searchCache EXCEPT ![Current] = Kept(answer)] \in [Sources -> CacheFiles]
      BY DEF Kept, CacheFiles
    <2>2. /\ pc' \in {"match", "return"} /\ candidates' \subseteq Works
          /\ got' \in Works \cup {NoWork}
          /\ searchCache' \in [Sources -> CacheFiles]
      BY <1>9, <2>1 DEF AnswerSearch, Fail, Leave, AcceptableAnswer, Unusable
    <2> QED
      BY <1>9, <2>2 DEF AnswerSearch, counters
  <1>10. CASE Match
    BY <1>10 DEF Match, MatchedHints, Fail, Leave, disk
  <1>11. CASE Judged
    BY <1>11 DEF Judged, Fail, Leave, disk
  <1>12. CASE HaveDetails
    BY <1>12 DEF HaveDetails, Leave, counters, disk
  <1>13. CASE ReadDetails
    BY <1>13 DEF ReadDetails, ReadFact, UseDetails, Fail, Leave, Locates, counters, disk
  <1>14. CASE AnswerDetails
    <2> DEFINE Stored(w) == [factCache EXCEPT ![Current] = [@ EXCEPT ![DetailsKey] = Kept({w})]]
    <2>0. \A w \in Works : Stored(w) \in [Sources -> [FactKeys -> CacheFiles]]
      BY StoredFactTyped
    <2>a. factCache' = factCache \/ \E w \in Works : factCache' = Stored(w)
      BY <1>14 DEF AnswerDetails, AnswerFact, StoreFact, Locates
    <2>1. factCache' \in [Sources -> [FactKeys -> CacheFiles]]
      BY <2>0, <2>a
    <2> HIDE DEF Stored
    <2>2. /\ pc' = "return" /\ got' \in Works \cup {NoWork}
          /\ UNCHANGED <<manualWork, candidates>>
      BY <1>14 DEF AnswerDetails, AnswerFact, UseDetails, Fail, Leave, Locates
    <2>3. UNCHANGED <<req, cancelled, runs, turn, failures, chosen, decisions, judged,
                      verdict, searchCache>>
      BY <1>14 DEF AnswerDetails, AnswerFact, counters
    <2> QED
      BY <2>1, <2>2, <2>3
  <1>15. CASE ReturnCancelled
    BY <1>15, ConcludeTyped, WithoutIsAVerdict DEF ReturnCancelled, VerdictKinds
  <1>16. CASE ReturnOption
    BY <1>16, ConcludeFrame, CurrentIsASource
       DEF ReturnOption, Inside, Verdicts, VerdictKinds, OptionOf
  <1>17. CASE ReturnMismatch
    BY <1>17, ConcludeTyped, WithoutIsAVerdict DEF ReturnMismatch, VerdictKinds
  <1>18. CASE FallBack
    BY <1>18, CurrentIsASource, OrderAssumption
       DEF FallBack, Inside, TurnAfterFailure, attempt, counters, disk
  <1>19. CASE Cancel
    BY <1>19 DEF Cancel, attempt, counters, disk
  <1>20. CASE Restart
    <2>1. /\ searchCache' \in [Sources -> CacheFiles]
          /\ factCache' \in [Sources -> [FactKeys -> CacheFiles]]
      BY <1>20, AgedTyped DEF Restart
    <2>2. PICK r \in Requests : Fresh(r)
      BY <1>20 DEF Restart
    <2>3. runs' \in Nat
      BY <1>20 DEF Restart
    <2>4. turn' \in 1..(Len(Order) + 1)
      BY <2>2, OrderAssumption DEF Fresh
    <2>5. verdict' \in Verdicts
      BY <2>2, WithoutIsAVerdict DEF Fresh, VerdictKinds
    <2>6. /\ req' \in Requests /\ cancelled' \in BOOLEAN /\ pc' = "resolve"
          /\ failures' \subseteq Sources /\ candidates' \subseteq Works
          /\ {manualWork', chosen', got'} \subseteq Works \cup {NoWork}
          /\ decisions' \in [Sources -> Nat]
          /\ judged' \in [Sources -> Works \cup {NoWork}]
      BY <2>2 DEF Fresh
    <2> QED
      BY <2>1, <2>3, <2>4, <2>5, <2>6
  <1>21. CASE UNCHANGED vars
    BY <1>21 DEF vars, attempt, counters, disk
  <1> QED
    BY <1>1, <1>2, <1>3, <1>4, <1>5, <1>6, <1>7, <1>8, <1>9, <1>10, <1>11, <1>12, <1>13,
       <1>14, <1>15, <1>16, <1>17, <1>18, <1>19, <1>20, <1>21 DEF Next, Step

----------------------------------------------------------------------------
(* The steps taken inside resolveSource leave the loop over the sources     *)
(* where it is.                                                             *)

Working ==
    \/ ReadManual \/ AnswerManual \/ ReadSearch \/ AnswerSearch \/ Match \/ Judged
    \/ HaveDetails \/ ReadDetails \/ AnswerDetails

LEMMA WorkingFrame ==
    ASSUME Working
    PROVE  /\ pc \in Inside \ {"return"} /\ pc' \in Inside
           /\ UNCHANGED <<req, cancelled, runs, turn, failures, verdict>>
  <1> USE DEF Inside, Searching, Locating, Confirming, Fail, Leave
  <1>1. CASE ReadManual
    BY <1>1 DEF ReadManual, ReadFact, UseManual
  <1>2. CASE AnswerManual
    BY <1>2 DEF AnswerManual, AnswerFact, UseManual
  <1>3. CASE ReadSearch
    BY <1>3 DEF ReadSearch
  <1>4. CASE AnswerSearch
    BY <1>4 DEF AnswerSearch
  <1>5. CASE Match
    BY <1>5 DEF Match
  <1>6. CASE Judged
    BY <1>6 DEF Judged
  <1>7. CASE HaveDetails
    BY <1>7 DEF HaveDetails
  <1>8. CASE ReadDetails
    BY <1>8 DEF ReadDetails, ReadFact, UseDetails
  <1>9. CASE AnswerDetails
    BY <1>9 DEF AnswerDetails, AnswerFact, UseDetails
  <1> QED
    BY <1>1, <1>2, <1>3, <1>4, <1>5, <1>6, <1>7, <1>8, <1>9 DEF Working

\* A step that ends Resolve.
Ending == LoopCancelled \/ LoopEnds \/ ReturnCancelled \/ ReturnOption \/ ReturnMismatch

LEMMA LoopStep == IInv /\ [Next]_vars => LoopInv'
  <1> SUFFICES ASSUME IInv, [Next]_vars
               PROVE  LoopInv'
    OBVIOUS
  <1> USE DEF LoopInv, Serving, Fixed, Current
  <1>t. TypeOK /\ LoopInv /\ TypeOK'
    BY TypeStep DEF IInv
  <1>1. CASE Enter
    BY <1>1, <1>t, ConcludeFrame
       DEF Enter, ValidRequest, Inside, Searching, Locating, Confirming, Without, attempt, counters, disk
  <1>2. CASE Ending
    BY <1>2, <1>t, ConcludeFrame
       DEF Ending, LoopCancelled, LoopEnds, ReturnCancelled, ReturnOption, ReturnMismatch,
           OutOfSources, Without, OptionOf, Inside, Searching, Locating, Confirming
  <1>3. CASE Skip
    BY <1>3, <1>t DEF Skip, Inside, Searching, Locating, Confirming, TypeOK
  <1>4. CASE TrySource
    BY <1>4, <1>t DEF TrySource, Inside, Searching, Locating, Confirming
  <1>5. CASE Working
    BY <1>5, <1>t, WorkingFrame DEF Inside, Searching, Locating, Confirming
  <1>6. CASE FallBack
    BY <1>6, <1>t
       DEF FallBack, MayFallBack, TurnAfterFailure, Inside, Searching, Locating, Confirming, TypeOK
  <1>7. CASE Cancel
    BY <1>7, <1>t DEF Cancel
  <1>8. CASE Restart
    BY <1>8, <1>t DEF Restart, Fresh, Without, Inside, Searching, Locating, Confirming
  <1>9. CASE UNCHANGED vars
    BY <1>9, <1>t DEF vars
  <1> QED
    BY <1>1, <1>2, <1>3, <1>4, <1>5, <1>6, <1>7, <1>8, <1>9 DEF Next, Step, Ending, Working

----------------------------------------------------------------------------
(* What the attempt at one source establishes.                              *)

LEMMA AttemptStep == IInv /\ [Next]_vars => AttemptInv'
  <1> SUFFICES ASSUME IInv, [Next]_vars
               PROVE  AttemptInv'
    OBVIOUS
  <1> USE NoneAssumption DEF AttemptInv, Fixed, Searching, Locating, Confirming
  <1>t. TypeOK /\ LoopInv /\ AttemptInv
    BY DEF IInv
  <1>1. CASE Enter
    BY <1>1, ConcludeFrame DEF Enter
  <1>2. CASE Ending
    BY <1>2, ConcludeFrame
       DEF Ending, LoopCancelled, LoopEnds, ReturnCancelled, ReturnOption, ReturnMismatch
  <1>3. CASE Skip
    BY <1>3 DEF Skip
  <1>4. CASE TrySource
    BY <1>4 DEF TrySource
  <1>5. CASE ReadManual
    BY <1>5, <1>t DEF ReadManual, ReadFact, UseManual, ManualKey, Fail, Leave, Locates
  <1>6. CASE AnswerManual
    BY <1>6, <1>t DEF AnswerManual, AnswerFact, UseManual, ManualKey, Fail, Leave, Locates
  <1>7. CASE ReadSearch
    BY <1>7, <1>t DEF ReadSearch, Fail, Leave
  <1>8. CASE AnswerSearch
    BY <1>8, <1>t DEF AnswerSearch, Fail, Leave
  <1>9. CASE Match
    <2>1. CASE MatchedHints # {} /\ chosen' \in MatchedHints /\ pc' = "details"
      <3>1. PICK g \in req.hints : g.source = Current /\ g.work = chosen'
        BY <2>1 DEF MatchedHints
      <3>2. g \in Hint
        BY <1>t, RequestsAssumption DEF TypeOK, RequestSet
      <3>3. g = [source |-> Current, work |-> chosen']
        BY <3>1, <3>2 DEF Hint
      <3>4. ~Fixed /\ chosen' \in candidates
        BY <2>1 DEF MatchedHints
      <3>5. UNCHANGED <<req, turn, candidates, manualWork, judged>>
        BY <1>9 DEF Match
      <3>6. Confirmed(Current, chosen)'
        BY <3>1, <3>3, <3>4, <3>5 DEF Confirmed, Current
      <3> QED
        BY <1>9, <1>t, <2>1, <3>4, <3>5, <3>6 DEF Match
    <2>2. CASE pc' \in {"judge", "return"}
      BY <1>9, <1>t, <2>2 DEF Match, Fail, Leave
    <2> QED
      BY <1>9, <2>1, <2>2 DEF Match, Fail, Leave
  <1>10. CASE Judged
    <2>1. CASE Fail /\ UNCHANGED <<chosen, judged>>
      BY <1>10, <2>1 DEF Judged, Fail, Leave
    <2>2. CASE /\ chosen' \in candidates
               /\ judged' = [judged EXCEPT ![Current] = chosen']
               /\ pc' = "details" /\ UNCHANGED got
      <3>1. Current \in Sources
        BY <1>10, <1>t, CurrentIsASource DEF Judged, LoopInv, TypeOK, Inside
      <3>2. Confirmed(Current, chosen)'
        BY <1>10, <1>t, <2>2, <3>1 DEF Judged, Confirmed, Current, TypeOK
      <3> QED
        BY <1>10, <1>t, <2>2, <3>2 DEF Judged
    <2> QED
      BY <1>10, <2>1, <2>2 DEF Judged
  <1>11. CASE HaveDetails
    BY <1>11, <1>t DEF HaveDetails, Leave, Confirmed, Current, counters
  <1>12. CASE ReadDetails
    BY <1>12, <1>t
       DEF ReadDetails, ReadFact, UseDetails, DetailsKey, Fail, Leave, Locates, Confirmed,
           Current, counters, TypeOK
  <1>13. CASE AnswerDetails
    <2>1. /\ pc' = "return" /\ got' \in {NoWork, chosen}
          /\ UNCHANGED <<manualWork, candidates>>
      BY <1>13, <1>t
         DEF AnswerDetails, AnswerFact, UseDetails, DetailsKey, Fail, Leave, Locates, TypeOK
    <2>2. UNCHANGED <<req, turn, chosen, judged>>
      BY <1>13 DEF AnswerDetails, AnswerFact, counters
    <2> QED
      BY <1>13, <1>t, <2>1, <2>2 DEF AnswerDetails, AnswerFact, Confirmed, Current
  <1>14. CASE FallBack
    BY <1>14 DEF FallBack
  <1>15. CASE Cancel
    BY <1>15, <1>t DEF Cancel, attempt, counters, Confirmed, Current
  <1>16. CASE Restart
    BY <1>16 DEF Restart, Fresh
  <1>17. CASE UNCHANGED vars
    BY <1>17, <1>t DEF vars, attempt, counters, Confirmed, Current
  <1> QED
    BY <1>1, <1>2, <1>3, <1>4, <1>5, <1>6, <1>7, <1>8, <1>9, <1>10, <1>11, <1>12, <1>13,
       <1>14, <1>15, <1>16, <1>17 DEF Next, Step, Ending

----------------------------------------------------------------------------
(* The verdict follows from where the loop stood when it was given.         *)

LEMMA VerdictStep == IInv /\ [Next]_vars => VerdictInv'
  <1> SUFFICES ASSUME IInv, [Next]_vars
               PROVE  VerdictInv'
    OBVIOUS
  <1>t. TypeOK /\ LoopInv /\ AttemptInv /\ VerdictInv
    BY DEF IInv
  <1> USE DEF VerdictInv
  <1>1. CASE Enter \/ LoopCancelled \/ ReturnCancelled \/ ReturnMismatch
    <2>1. verdict'.kind \notin {"exhausted", "option", "unsupported"}
      BY <1>1, <1>t, ConcludeFrame
         DEF Enter, LoopCancelled, ReturnCancelled, ReturnMismatch, Without, LoopInv
    <2>2. ASSUME verdict'.kind = "mismatch"
          PROVE  /\ req'.source # NoSource
                 /\ \E s \in Sources : Applicable(s, req'.kind, req'.source)
      <3>1. ReturnMismatch /\ UNCHANGED req
        BY <1>1, <1>t, <2>2, ConcludeFrame
           DEF Enter, LoopCancelled, ReturnCancelled, ReturnMismatch, Without, LoopInv
      <3>2. Current \in Sources /\ Serving(Current)
        BY <3>1, <1>t, CurrentIsASource DEF ReturnMismatch, LoopInv, Inside, TypeOK
      <3> QED
        BY <3>1, <3>2 DEF ReturnMismatch, MayFallBack, Serving
    <2>3. verdict' = Without(verdict'.kind)
      BY <1>1, <1>t, ConcludeFrame
         DEF Enter, LoopCancelled, ReturnCancelled, ReturnMismatch, Without, LoopInv
    <2> QED
      BY <2>1, <2>2, <2>3
  <1>2. CASE LoopEnds
    <2>0. ASSUME verdict'.kind = "unsupported"
          PROVE  /\ req'.source # NoSource
                 /\ \A s \in Sources : ~Applicable(s, req'.kind, req'.source)
      <3>1. UNCHANGED <<req, failures>> /\ turn > Len(Order)
        BY <1>2, ConcludeFrame DEF LoopEnds
      <3>2. req.source # NoSource /\ failures = {}
        BY <1>2, <2>0, ConcludeFrame DEF LoopEnds, OutOfSources, Without
      <3>3. \A s \in Sources : \E n \in 1..Len(Order) : Order[n] = s
        BY OrderAssumption DEF Sources
      <3>4. \A n \in 1..Len(Order) : n < turn
        BY <3>1, <1>t, OrderAssumption DEF TypeOK
      <3> QED
        BY <3>1, <3>2, <3>3, <3>4, <1>t DEF LoopInv
    <2>1. verdict'.kind \notin {"option", "mismatch"}
      BY <1>2, ConcludeFrame DEF LoopEnds, OutOfSources, Without
    <2>2. ASSUME verdict'.kind = "exhausted"
          PROVE  /\ req'.source = NoSource
                 /\ \A s \in Sources : Applicable(s, req'.kind, req'.source) => s \in failures'
      <3>1. UNCHANGED <<req, failures>> /\ turn > Len(Order)
        BY <1>2, ConcludeFrame DEF LoopEnds
      <3>2. req.source = NoSource
        BY <1>2, <1>t, <2>2, ConcludeFrame DEF LoopEnds, OutOfSources, Without, LoopInv
      <3>3. \A s \in Sources : \E n \in 1..Len(Order) : Order[n] = s
        BY OrderAssumption DEF Sources
      <3>4. \A n \in 1..Len(Order) : n < turn
        BY <3>1, <1>t, OrderAssumption DEF TypeOK
      <3> QED
        BY <3>1, <3>2, <3>3, <3>4, <1>t DEF LoopInv
    <2>3. verdict' = Without(verdict'.kind)
      BY <1>2, ConcludeFrame DEF LoopEnds, OutOfSources, Without
    <2> QED
      BY <2>0, <2>1, <2>2, <2>3
  <1>3. CASE ReturnOption
    BY <1>3, <1>t, ConcludeFrame
       DEF ReturnOption, OptionOf, LoopInv, AttemptInv, Inside, Serving, Fixed, Confirmed, Current
  <1>4. CASE Skip \/ TrySource \/ Working \/ FallBack \/ Cancel
    <2>1. verdict' = verdict /\ pc # "done"
      BY <1>4, WorkingFrame
         DEF Skip, TrySource, FallBack, Cancel, Inside, Searching, Locating, Confirming
    <2> QED
      BY <2>1, <1>t DEF LoopInv
  <1>5. CASE Restart
    BY <1>5 DEF Restart, Fresh, Without
  <1>6. CASE UNCHANGED vars
    BY <1>6, <1>t DEF vars, attempt, counters, Confirmed, Current, Fixed
  <1> QED
    BY <1>1, <1>2, <1>3, <1>4, <1>5, <1>6 DEF Next, Step, Working

(* The judge: its counter moves once, when the source leaves "match".       *)

LEMMA JudgeStep == IInv /\ [Next]_vars => JudgeInv'
  <1> SUFFICES ASSUME IInv, [Next]_vars
               PROVE  JudgeInv'
    OBVIOUS
  <1>t. TypeOK /\ LoopInv /\ JudgeInv
    BY DEF IInv
  <1> USE DEF JudgeInv, JudgedAtMostOnce, Unjudged, Searching, Locating
  <1>1. CASE Enter
    BY <1>1, <1>t, ConcludeFrame DEF Enter, counters
  <1>2. CASE Ending
    BY <1>2, <1>t, ConcludeFrame
       DEF Ending, LoopCancelled, LoopEnds, ReturnCancelled, ReturnOption, ReturnMismatch
  <1>3. CASE Skip
    BY <1>3, <1>t DEF Skip, counters, TypeOK
  <1>4. CASE TrySource
    BY <1>4, <1>t DEF TrySource, counters
  <1>5. CASE Match
    <2>1. CASE UNCHANGED decisions /\ pc' \in {"return", "details"}
      BY <1>5, <1>t, <2>1 DEF Match
    <2>2. CASE decisions' = [decisions EXCEPT ![Current] = @ + 1] /\ pc' = "judge"
      <3>1. turn \in 1..Len(Order) /\ turn' = turn
        BY <1>5, <1>t DEF Match, TypeOK, LoopInv, Inside, Confirming
      <3>2. decisions[Current] = 0 /\ Current \in Sources
        BY <1>5, <1>t, <3>1, CurrentIsASource DEF Match, Current
      <3>3. \A n \in 1..Len(Order) : n # turn => Order[n] # Current
        BY <3>1, OrderAssumption DEF Current
      <3> QED
        BY <1>t, <2>2, <3>1, <3>2, <3>3 DEF TypeOK
    <2> QED
      BY <1>5, <2>1, <2>2 DEF Match, Fail, Leave
  <1>6. CASE Working /\ ~Match
    <2>1. UNCHANGED <<turn, decisions>>
      BY <1>6, WorkingFrame
         DEF Working, ReadManual, AnswerManual, ReadSearch, AnswerSearch, Judged, HaveDetails,
             ReadDetails, AnswerDetails, ReadFact, AnswerFact, counters
    <2>2. pc' \in Unjudged => pc \in Unjudged
      BY <1>6
         DEF Working, ReadManual, AnswerManual, ReadSearch, AnswerSearch, Judged, HaveDetails,
             ReadDetails, AnswerDetails, ReadFact, AnswerFact, UseManual, UseDetails, Fail, Leave
    <2> QED
      BY <1>t, <2>1, <2>2
  <1>7. CASE FallBack
    BY <1>7, <1>t DEF FallBack, TurnAfterFailure, counters, TypeOK
  <1>8. CASE Cancel
    BY <1>8, <1>t DEF Cancel, counters
  <1>9. CASE Restart
    BY <1>9, OrderAssumption DEF Restart, Fresh, Sources
  <1>10. CASE UNCHANGED vars
    BY <1>10, <1>t DEF vars, counters
  <1> QED
    BY <1>1, <1>2, <1>3, <1>4, <1>5, <1>6, <1>7, <1>8, <1>9, <1>10 DEF Next, Step, Ending, Working

----------------------------------------------------------------------------
(* The disk: only two actions write it, each what it has just validated.    *)

LEMMA NothingStored ==
    /\ Miss.value = {} /\ Damaged.value = {}
    /\ Cardinality({}) <= MaxDecisionCandidates
    /\ Miss.state # "fresh" /\ Damaged.state # "fresh"
  BY FS_EmptySet, LimitAssumption DEF Miss, Damaged

LEMMA FactStoreStep ==
    ASSUME TypeOK, CacheHoldsVerifiedFacts, NEW key \in FactKeys,
           NEW w \in Works, Locates(key.at, w), UNCHANGED searchCache,
           factCache' = [factCache EXCEPT ![Current] = [@ EXCEPT ![key] = Kept({w})]]
    PROVE  CacheHoldsVerifiedFacts'
  <1> SUFFICES ASSUME NEW s \in Sources, NEW k \in FactKeys, factCache'[s][k].state = "fresh"
               PROVE  \E v \in Works : factCache'[s][k].value = {v} /\ Locates(k.at, v)
    BY DEF CacheHoldsVerifiedFacts
  <1>1. CASE s = Current /\ k = key
    <2>1. factCache'[s][k] = Kept({w})
      BY <1>1 DEF TypeOK
    <2> QED
      BY <1>1, <2>1 DEF Kept
  <1>2. CASE ~(s = Current /\ k = key)
    <2>1. factCache'[s][k] = factCache[s][k]
      BY <1>2 DEF TypeOK
    <2> QED
      BY <2>1 DEF CacheHoldsVerifiedFacts
  <1> QED
    BY <1>1, <1>2

LEMMA CacheStep == IInv /\ [Next]_vars => CacheHoldsVerifiedFacts'
  <1> SUFFICES ASSUME IInv, [Next]_vars
               PROVE  CacheHoldsVerifiedFacts'
    OBVIOUS
  <1>t. TypeOK /\ LoopInv /\ AttemptInv /\ CacheHoldsVerifiedFacts
    BY DEF IInv
  <1>1. CASE UNCHANGED disk
    BY <1>1, <1>t DEF disk, CacheHoldsVerifiedFacts
  <1>2. CASE AnswerManual
    <2>1. ManualKey \in FactKeys
      BY <1>2, <1>t, RequestsAssumption
         DEF AnswerManual, AnswerFact, ManualKey, FactKeys, TypeOK, RequestSet, AttemptInv,
             Fixed, Locating
    <2>2. UNCHANGED searchCache
      BY <1>2 DEF AnswerManual, AnswerFact
    <2>3. CASE UNCHANGED factCache
      BY <1>t, <2>2, <2>3 DEF CacheHoldsVerifiedFacts
    <2>4. ASSUME NEW w \in Works, Locates(ManualKey.at, w),
                 factCache' = [factCache EXCEPT ![Current] = [@ EXCEPT ![ManualKey] = Kept({w})]]
          PROVE  CacheHoldsVerifiedFacts'
      BY <1>t, <2>1, <2>2, <2>4, FactStoreStep
    <2> QED
      BY <1>2, <2>3, <2>4 DEF AnswerManual, AnswerFact, StoreFact, Locates
  <1>3. CASE AnswerDetails
    <2>1. DetailsKey \in FactKeys
      BY <1>3, <1>t
         DEF AnswerDetails, AnswerFact, DetailsKey, FactKeys, TypeOK, AttemptInv, Locators
    <2>2. UNCHANGED searchCache
      BY <1>3 DEF AnswerDetails, AnswerFact
    <2>3. CASE UNCHANGED factCache
      BY <1>t, <2>2, <2>3 DEF CacheHoldsVerifiedFacts
    <2>4. ASSUME NEW w \in Works, Locates(DetailsKey.at, w),
                 factCache' = [factCache EXCEPT ![Current] = [@ EXCEPT ![DetailsKey] = Kept({w})]]
          PROVE  CacheHoldsVerifiedFacts'
      BY <1>t, <2>1, <2>2, <2>4, FactStoreStep
    <2> QED
      BY <1>3, <2>3, <2>4 DEF AnswerDetails, AnswerFact, StoreFact, Locates
  <1>4. CASE AnswerSearch
    <2>1. UNCHANGED factCache
      BY <1>4 DEF AnswerSearch
    <2>2. CASE UNCHANGED searchCache
      BY <1>t, <2>1, <2>2 DEF CacheHoldsVerifiedFacts
    <2>3. ASSUME NEW answer, AcceptableAnswer(answer),
                 searchCache' = [searchCache EXCEPT ![Current] = Kept(answer)]
          PROVE  CacheHoldsVerifiedFacts'
      <3>1. \A s \in Sources : searchCache'[s] \in {searchCache[s], Kept(answer)}
        BY <1>t, <2>3 DEF TypeOK
      <3>2. \A s \in Sources : Cardinality(searchCache'[s].value) <= MaxDecisionCandidates
        BY <1>t, <2>3, <3>1 DEF CacheHoldsVerifiedFacts, AcceptableAnswer, Kept
      <3> QED
        BY <1>t, <2>1, <3>2 DEF CacheHoldsVerifiedFacts
    <2> QED
      BY <1>4, <2>2, <2>3 DEF AnswerSearch
  <1>5. CASE Restart
    <2>1. \A s \in Sources : searchCache'[s] \in {searchCache[s], Miss}
      BY <1>5 DEF Restart, Aged
    <2>2. \A s \in Sources, k \in FactKeys : factCache'[s][k] \in {factCache[s][k], Miss}
      BY <1>5 DEF Restart, Aged
    <2> QED
      BY <1>t, <2>1, <2>2, NothingStored DEF CacheHoldsVerifiedFacts
  <1> QED
    BY <1>1, <1>2, <1>3, <1>4, <1>5
       DEF Next, Step, Enter, LoopCancelled, Skip, TrySource, LoopEnds, ReadManual, ReadSearch,
           Match, Judged, HaveDetails, ReadDetails, ReadFact, ReturnCancelled, ReturnOption,
           ReturnMismatch, FallBack, Conclude, Cancel, vars

----------------------------------------------------------------------------

LEMMA Beginning == Init => IInv
  <1> SUFFICES ASSUME Init PROVE IInv
    OBVIOUS
  <1>1. PICK spoilt \in Spoilt :
          /\ searchCache = [s \in Sources |-> FoundOnDisk(spoilt, s, "search")]
          /\ factCache = [s \in Sources |->
                            [k \in FactKeys |-> FoundOnDisk(spoilt, s, k.kept)]]
    BY DEF Init
  <1>2. \A s, kept : FoundOnDisk(spoilt, s, kept) \in {Miss, Damaged}
    BY DEF FoundOnDisk
  <1>3. Miss \in CacheFiles /\ Damaged \in CacheFiles
    BY DEF Miss, Damaged, CacheFiles
  <1>4. TypeOK
    <2>1. /\ searchCache \in [Sources -> CacheFiles]
          /\ factCache \in [Sources -> [FactKeys -> CacheFiles]]
      <3>1. \A s \in Sources : searchCache[s] \in CacheFiles
        BY <1>1, <1>2, <1>3
      <3>2. \A s \in Sources : [k \in FactKeys |-> FoundOnDisk(spoilt, s, k.kept)]
                                   \in [FactKeys -> CacheFiles]
        BY <1>2, <1>3
      <3> QED
        BY <1>1, <3>1, <3>2
    <2>2. turn \in 1..(Len(Order) + 1) /\ runs \in Nat
      BY OrderAssumption DEF Init
    <2>3. verdict \in Verdicts
      BY WithoutIsAVerdict DEF Init, VerdictKinds
    <2>4. /\ decisions \in [Sources -> Nat]
          /\ judged \in [Sources -> Works \cup {NoWork}]
      BY DEF Init
    <2> QED
      BY <2>1, <2>2, <2>3, <2>4 DEF Init, TypeOK
  <1>5. LoopInv /\ AttemptInv /\ VerdictInv
    BY OrderAssumption
       DEF Init, LoopInv, AttemptInv, VerdictInv, Without, Inside, Searching, Locating, Confirming
  <1>6. JudgeInv
    <2>1. \A s \in Sources : decisions[s] = 0
      BY DEF Init
    <2>2. \A n \in 1..Len(Order) : Order[n] \in Sources
      BY OrderAssumption
    <2> QED
      BY <2>1, <2>2 DEF JudgeInv, JudgedAtMostOnce
  <1>7. CacheHoldsVerifiedFacts
    BY <1>1, <1>2, NothingStored DEF CacheHoldsVerifiedFacts
  <1> QED
    BY <1>4, <1>5, <1>6, <1>7 DEF IInv

\* The four parts of IInv and the disk hold together in every state.
THEOREM Inductive == Spec => []IInv
  <1>1. IInv /\ [Next]_vars => IInv'
    BY TypeStep, LoopStep, AttemptStep, VerdictStep, JudgeStep, CacheStep DEF IInv
  <1> QED
    BY Beginning, <1>1, PTL DEF Spec

\* Every variable of Resolve keeps its type (manager.go 21-78).
THEOREM TypeCorrect == Spec => []TypeOK
  <1>1. IInv => TypeOK
    BY DEF IInv
  <1> QED
    BY <1>1, Inductive, PTL

\* A reference written by a person is never replaced by another source, by
\* another work or by "exhausted" (manager.go 62-71).
THEOREM ManualReferenceBinds == Spec => []NamedSourceKept
  <1>1. IInv => NamedSourceKept
    BY DEF IInv, VerdictInv, NamedSourceKept, Applicable
  <1> QED
    BY <1>1, Inductive, PTL

\* All that Collector assumes of Resolve is proved of it: the verdict is one
\* of those Promised names (manager.go 34-78).
VerdictPromised ==
    verdict.kind # "pending" => verdict \in Promised(req.kind, req.source, req.work)

\* Resolve answers within what its request and its orders promise (Resolve).
THEOREM PromiseKept == Spec => []VerdictPromised
  <1>1. IInv => VerdictPromised
    <2> SUFFICES ASSUME IInv, verdict.kind # "pending"
                 PROVE  verdict \in Promised(req.kind, req.source, req.work)
      BY DEF VerdictPromised
    <2>1. verdict.kind \in VerdictKinds \ {"pending"}
      BY DEF IInv, TypeOK, Verdicts
    <2>2. CASE verdict.kind = "option"
      <3>1. /\ verdict = OptionOf(verdict.source, verdict.work)
            /\ verdict.source \in Sources \cup {NoSource} /\ verdict.work \in Works \cup {NoWork}
        BY <2>2 DEF IInv, TypeOK, Verdicts, OptionOf
      <3>2. verdict.source \in Sources /\ Applicable(verdict.source, req.kind, req.source)
        BY <2>2, OrderAssumption, CurrentIsASource DEF IInv, VerdictInv, TypeOK
      <3>3. verdict.work \in Works /\ (req.work # NoWork => Locates(req.work, verdict.work))
        BY <2>2 DEF IInv, VerdictInv, TypeOK, Fixed
      <3> QED
        BY <3>1, <3>2, <3>3 DEF Promised
    <2>3. CASE verdict.kind # "option"
      <3>1. verdict = Without(verdict.kind)
        BY <2>1, <2>3 DEF IInv, VerdictInv
      <3> QED
        BY <2>1, <2>3, <3>1 DEF IInv, VerdictInv, Promised, VerdictKinds
    <2> QED
      BY <2>2, <2>3
  <1> QED
    BY <1>1, Inductive, PTL

\* Sources are used in their configured order: one is used, or all are given
\* up, only after every earlier applicable one has failed (manager.go 42-77).
THEOREM OrderRespected == Spec => []EarlierSourcesFailed
  <1>1. IInv => EarlierSourcesFailed
    <2> SUFFICES ASSUME IInv PROVE EarlierSourcesFailed
      OBVIOUS
    <2>1. CASE verdict.kind = "exhausted"
      BY <2>1 DEF IInv, VerdictInv, EarlierSourcesFailed
    <2>2. CASE verdict.kind = "option"
      <3>1. turn \in DOMAIN Order /\ verdict.source = Order[turn]
        BY <2>2, OrderAssumption DEF IInv, TypeOK, VerdictInv, Current
      <3>2. \A s \in Before(verdict.source) : \E m \in 1..Len(Order) : m < turn /\ Order[m] = s
        BY <3>1, OrderAssumption DEF Before
      <3> QED
        BY <2>2, <3>2 DEF IInv, LoopInv, EarlierSourcesFailed
    <2> QED
      BY <2>1, <2>2 DEF EarlierSourcesFailed
  <1> QED
    BY <1>1, Inductive, PTL

\* The judge is asked at most once for each source (manager.go 150-165).
THEOREM OneDecisionPerSource == Spec => []JudgedAtMostOnce
  <1>1. IInv => JudgedAtMostOnce
    BY DEF IInv, JudgeInv
  <1> QED
    BY <1>1, Inductive, PTL

\* Details are asked for, and delivered, only of a candidate that a hint or
\* the judge confirmed in this run (manager.go 143-187).
THEOREM ConfirmedOnly == Spec => []OnlyConfirmedWorks
  <1>1. IInv => OnlyConfirmedWorks
    BY DEF IInv, AttemptInv, VerdictInv, OnlyConfirmedWorks
  <1> QED
    BY <1>1, Inductive, PTL

\* No answer of a website and no crash puts an unverified fact into the cache
\* (manager.go 238-322, series_cache.go 14-69).
THEOREM CacheVerified == Spec => []CacheHoldsVerifiedFacts
  <1>1. IInv => CacheHoldsVerifiedFacts
    BY DEF IInv
  <1> QED
    BY <1>1, Inductive, PTL

\* What a source delivered is dropped when the context has ended
\* (manager.go 56-58).
THEOREM CancelledMeansNoOption == Spec => NoOptionAfterCancel
  <1>1. IInv /\ [Next]_vars =>
            [verdict'.kind = "option" /\ verdict.kind # "option" => ~cancelled]_vars
    <2> SUFFICES ASSUME IInv, [Next]_vars, verdict'.kind = "option", verdict.kind # "option"
                 PROVE  ~cancelled
      OBVIOUS
    <2>1. CASE ReturnOption
      BY <2>1 DEF ReturnOption, DropResult
    <2>2. CASE Enter \/ LoopCancelled \/ LoopEnds \/ ReturnCancelled \/ ReturnMismatch
      BY <2>2, ConcludeFrame
         DEF Enter, LoopCancelled, LoopEnds, ReturnCancelled, ReturnMismatch, OutOfSources,
             Without, disk
    <2>3. CASE Skip \/ TrySource \/ Working \/ FallBack \/ Cancel \/ UNCHANGED vars
      BY <2>3, WorkingFrame DEF Skip, TrySource, FallBack, Cancel, vars
    <2>4. CASE Restart
      BY <2>4 DEF Restart, Fresh, Without
    <2> QED
      BY <2>1, <2>2, <2>3, <2>4 DEF Next, Step, Working
  <1> QED
    BY <1>1, Inductive, PTL DEF Spec, NoOptionAfterCancel

----------------------------------------------------------------------------
(* Manager implements SourceChoice: a step inside a source is a stutter.    *)

LEMMA ChoiceStarts == Init => Choice!Start
  BY RequestsAssumption
     DEF Init, Choice!Start, RequestSet, Choice!Without, Without, Choice!Kinds, Kinds,
         Choice!Sources, Sources

LEMMA ChoiceStep == IInv /\ [Next]_vars => [Choice!ChoiceNext]_(Choice!choiceVars)
  <1> SUFFICES ASSUME IInv, [Next]_vars
               PROVE  Choice!ChoiceNext \/ UNCHANGED Choice!choiceVars
    OBVIOUS
  <1>t. TypeOK /\ LoopInv /\ AttemptInv /\ VerdictInv
    BY DEF IInv
  <1> USE DEF Choice!ChoiceNext, Choice!choiceVars, Choice!Without, Without, Choice!OptionOf,
              OptionOf, Choice!Applicable, Applicable
  <1>1. CASE Enter
    BY <1>1, <1>t, ConcludeFrame DEF Enter, LoopInv, attempt, counters, disk, Choice!Interrupt, Choice!Reject
  <1>2. CASE LoopCancelled \/ ReturnCancelled
    BY <1>2, <1>t, ConcludeFrame
       DEF LoopCancelled, ReturnCancelled, DropResult, LoopInv, Choice!Interrupt
  <1>3. CASE Skip
    BY <1>3, <1>t DEF Skip, LoopInv, Serving, Current, Choice!PassOver, Choice!Trying
  <1>4. CASE TrySource \/ Working
    BY <1>4, WorkingFrame DEF TrySource
  <1>5. CASE LoopEnds
    <2>1. OutOfSources = Without(IF req.source = NoSource THEN "exhausted" ELSE "unsupported")
      BY <1>t DEF OutOfSources, LoopInv
    <2> QED
      BY <1>5, <1>t, <2>1, ConcludeFrame DEF LoopEnds, LoopInv, Choice!RunOut
  <1>6. CASE ReturnOption
    <2>1. got \in Works
      BY <1>6, <1>t DEF ReturnOption, TypeOK
    <2> QED
      BY <1>6, <1>t, <2>1, ConcludeFrame
         DEF ReturnOption, DropResult, LoopInv, Inside, Serving, Current, Choice!Deliver, Choice!Trying
  <1>7. CASE ReturnMismatch
    BY <1>7, <1>t, ConcludeFrame
       DEF ReturnMismatch, DropResult, MayFallBack, LoopInv, Inside, Serving, Current,
           Choice!Refuse, Choice!Trying
  <1>8. CASE FallBack
    BY <1>8, <1>t
       DEF FallBack, DropResult, MayFallBack, TurnAfterFailure, LoopInv, Inside,
           Choice!PassOver, Choice!Trying
  <1>9. CASE Restart
    <2>1. PICK r \in Requests : r.kind = req.kind /\ Fresh(r)
      BY <1>9 DEF Restart
    <2>2. r.source \in Sources \cup {NoSource}
      BY RequestsAssumption DEF RequestSet
    <2> QED
      BY <1>9, <2>1, <2>2 DEF Restart, Fresh, Choice!AskAgain, Choice!Sources, Sources
  <1>10. CASE Cancel
    BY <1>10, <1>t DEF Cancel, LoopInv, Choice!EndContext
  <1>11. CASE UNCHANGED vars
    BY <1>11 DEF vars
  <1> QED
    BY <1>1, <1>2, <1>3, <1>4, <1>5, <1>6, <1>7, <1>8, <1>9, <1>10, <1>11 DEF Next, Step, Working

\* However searches, caches, judges, cancellations and crashes interleave,
\* Resolve does what SourceChoice promises and no more (manager.go 34-78).
THEOREM Refinement == Spec => ImplementsChoice
  <1> QED
    BY ChoiceStarts, ChoiceStep, Inductive, PTL DEF Spec, ImplementsChoice, Choice!ChoiceSpec
----------------------------------------------------------------------------

\* How far a call is from its verdict: the sources it has before it, and at one
\* of them what is left to do there.
Rank(at) ==
    CASE at = "resolve" -> 9 [] at = "source" -> 8 [] at \in {"manual", "search"} -> 7
      [] at \in {"manualCall", "searchCall"} -> 6 [] at = "match" -> 5 [] at = "judge" -> 4
      [] at = "details" -> 3 [] at = "detailsCall" -> 2 [] at = "return" -> 1 [] OTHER -> 0
Nearer ==
    \/ turn < turn' /\ turn' <= Len(Order) + 1
    \/ turn' = turn /\ Rank(pc') < Rank(pc)
Advance ==
    /\ Step => Nearer
    /\ Cancel => cancelled' /\ ~cancelled /\ UNCHANGED <<turn, pc>>

LEMMA Ranks ==
    /\ Rank("resolve") = 9 /\ Rank("source") = 8 /\ Rank("manual") = 7 /\ Rank("search") = 7
    /\ Rank("manualCall") = 6 /\ Rank("searchCall") = 6 /\ Rank("match") = 5
    /\ Rank("judge") = 4 /\ Rank("details") = 3 /\ Rank("detailsCall") = 2
    /\ Rank("return") = 1 /\ Rank("done") = 0
  BY DEF Rank

\* Between two starts of the program every step brings Resolve nearer its
\* verdict, and cancelling it sets it back nowhere: no source is tried twice, and
\* at a source nothing is asked twice (manager.go 43-78). This is what
\* ResolveReturns needs besides fairness.
THEOREM NoCircles == Spec => [][runs' = runs => Advance]_vars
  <1>1. IInv /\ [Next]_vars => [runs' = runs => Advance]_vars
    <2> SUFFICES ASSUME IInv, Next PROVE Advance
      OBVIOUS
    <2>1. ASSUME Step PROVE Nearer
      <3>1. CASE Enter
        <4>1. turn' = turn /\ pc = "resolve" /\ pc' \in {"source", "done"}
          BY <3>1, ConcludeFrame DEF Enter
        <4> QED
          BY <4>1, Ranks DEF Nearer
      <3>2. CASE LoopCancelled \/ LoopEnds \/ ReturnCancelled \/ ReturnOption \/ ReturnMismatch
        <4>1. turn' = turn /\ pc \in {"source", "return"} /\ pc' = "done"
          BY <3>2, ConcludeFrame DEF LoopCancelled, LoopEnds, ReturnCancelled, ReturnOption, ReturnMismatch
        <4> QED
          BY <4>1, Ranks DEF Nearer
      <3>3. CASE Skip
        <4>1. turn \in Nat /\ turn' = turn + 1 /\ turn <= Len(Order) /\ Len(Order) \in Nat
          BY <3>3, OrderAssumption DEF Skip, IInv, TypeOK
        <4> QED
          BY <4>1 DEF Nearer
      <3>4. CASE TrySource
        <4>1. turn' = turn /\ pc = "source" /\ pc' \in {"manual", "search"}
          BY <3>4 DEF TrySource
        <4> QED
          BY <4>1, Ranks DEF Nearer
      <3>5. CASE FallBack
        <4>1. turn \in 1..Len(Order) /\ turn' = turn + 1
          BY <3>5 DEF FallBack, TurnAfterFailure, IInv, TypeOK, LoopInv, Inside
        <4> QED
          BY <4>1, OrderAssumption DEF Nearer
      <3>6. CASE Working
        <4>1. turn' = turn
          BY <3>6, WorkingFrame
        <4>2. \/ pc = "manual" /\ pc' \in {"manualCall", "match", "return"}
              \/ pc = "search" /\ pc' \in {"searchCall", "match", "return"}
              \/ pc \in {"manualCall", "searchCall"} /\ pc' \in {"match", "return"}
              \/ pc = "match" /\ pc' \in {"judge", "details", "return"}
              \/ pc = "judge" /\ pc' \in {"details", "return"}
              \/ pc = "details" /\ pc' \in {"detailsCall", "return"}
              \/ pc = "detailsCall" /\ pc' = "return"
          BY <3>6 DEF Working, ReadManual, AnswerManual, ReadSearch, AnswerSearch, Match, Judged,
             HaveDetails, ReadDetails, AnswerDetails, ReadFact, AnswerFact, UseManual, UseDetails,
             Fail, Leave
        <4> QED
          BY <4>1, <4>2, Ranks DEF Nearer
      <3> QED
        BY <2>1, <3>1, <3>2, <3>3, <3>4, <3>5, <3>6 DEF Step, Working
    <2>2. Cancel => cancelled' /\ ~cancelled /\ UNCHANGED <<turn, pc>>
      BY DEF Cancel
    <2> QED
      BY <2>1, <2>2 DEF Advance
  <1> QED
    BY <1>1, Inductive, PTL DEF Spec
=============================================================================
