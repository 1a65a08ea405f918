-------------------------- MODULE SearchPagesProofs --------------------------
(***************************************************************************)
(* What a search promises, for every list of works, page size, limit and   *)
(* number of titles, and for every website.                                *)
(***************************************************************************)
EXTENDS SearchPages, FiniteSetTheorems, SequenceTheorems, TLAPS

\* What the works found so far have to do with the website's lists, while the
\* website goes by them and nothing came twice.
WholeInv ==
    website # "odd" /\ ~repeated =>
        /\ outcome = "busy" =>
             /\ shown = candidates \cup Range(shelf)
             /\ found \subseteq Range(shelf) /\ Cardinality(found) = received
        /\ Answered => candidates = Matching(shown)

IInv == TypeOK /\ Bounded /\ WholeInv /\ (pc = "over" <=> outcome # "busy")

----------------------------------------------------------------------------

\* No sequence has more elements than places, and one that has as many has
\* none twice.
LEMMA RangeCount ==
    ASSUME NEW S, NEW s \in Seq(S)
    PROVE  /\ IsFiniteSet(Range(s)) /\ Range(s) \subseteq S
           /\ Cardinality(Range(s)) \in Nat /\ Cardinality(Range(s)) <= Len(s)
           /\ Cardinality(Range(s)) = Len(s) =>
                \A i, j \in 1..Len(s) : s[i] = s[j] => i = j
           /\ (\A i, j \in 1..Len(s) : s[i] = s[j] => i = j) =>
                Cardinality(Range(s)) = Len(s)
  <1>1. /\ Len(s) \in Nat /\ DOMAIN s = 1..Len(s)
        /\ \A i \in 1..Len(s) : s[i] \in S
    OBVIOUS
  <1>2. s \in Surjection(1..Len(s), Range(s))
    BY <1>1 DEF Surjection, Range
  <1>3. IsFiniteSet(1..Len(s)) /\ Cardinality(1..Len(s)) = Len(s)
    <2> HIDE DEF Range
    <2>1. 1 \in Int /\ Len(s) \in Int /\ Len(s) \in Nat
      BY <1>1
    <2>2. IsFiniteSet(1..Len(s)) /\ Cardinality(1..Len(s)) = IF 1 > Len(s) THEN 0 ELSE Len(s) - 1 + 1
      BY <2>1, FS_Interval
    <2> QED
      BY <2>1, <2>2
  <1>4. /\ IsFiniteSet(Range(s)) /\ Cardinality(Range(s)) <= Cardinality(1..Len(s))
        /\ Cardinality(Range(s)) = Cardinality(1..Len(s)) <=> s \in Injection(1..Len(s), Range(s))
    BY <1>2, <1>3, FS_Surjection
  <1>5. Cardinality(Range(s)) \in Nat
    BY <1>4, FS_CardinalityType
  <1>6. Range(s) \subseteq S
    BY <1>1 DEF Range
  <1>7. s \in Injection(1..Len(s), Range(s)) <=> \A i, j \in 1..Len(s) : s[i] = s[j] => i = j
    BY <1>1, <1>2 DEF Injection, IsInjective, Surjection
  <1> QED
    BY <1>3, <1>4, <1>5, <1>6, <1>7

\* The first n of them, and so on: a slice of a list without repetitions.
LEMMA Slice ==
    ASSUME NEW s \in Seq(Works), Cardinality(Range(s)) = Len(s),
           NEW a \in Nat, NEW b \in Nat, b <= Len(s)
    PROVE  LET t == SubSeq(s, a + 1, b)
           IN  /\ t \in Seq(Works) /\ Range(t) \subseteq Range(s)
               /\ Cardinality(Range(t)) = Len(t)
  <1> DEFINE t == SubSeq(s, a + 1, b)
  <1>1. Len(s) \in Nat /\ DOMAIN s = 1..Len(s) /\ \A i \in 1..Len(s) : s[i] \in Works
    OBVIOUS
  <1>2. \A i \in (a + 1)..b : s[i] \in Works
    BY <1>1
  <1>3. /\ t \in Seq(Works)
        /\ Len(t) = IF a + 1 <= b THEN b - (a + 1) + 1 ELSE 0
        /\ \A i \in 1..(b - (a + 1) + 1) : t[i] = s[(a + 1) + i - 1]
    <2>1. a + 1 \in Int /\ b \in Int
      OBVIOUS
    <2> QED
      BY <1>2, <2>1, SubSeqProperties
  <1> HIDE DEF t
  <1>4. Len(t) \in Nat /\ DOMAIN t = 1..Len(t)
    BY <1>3
  <1>5. \A i \in 1..Len(t) : (a + i) \in 1..Len(s) /\ t[i] = s[a + i]
    BY <1>1, <1>3, <1>4
  <1>6. Range(t) \subseteq Range(s)
    BY <1>1, <1>4, <1>5 DEF Range
  <1>7. \A i, j \in 1..Len(s) : s[i] = s[j] => i = j
    BY RangeCount
  <1>8. \A i, j \in 1..Len(t) : t[i] = t[j] => i = j
    <2> SUFFICES ASSUME NEW i \in 1..Len(t), NEW j \in 1..Len(t), t[i] = t[j] PROVE i = j
      OBVIOUS
    <2>1. a + i = a + j
      BY <1>5, <1>7
    <2> QED
      BY <1>4, <2>1
  <1>9. Cardinality(Range(t)) = Len(t)
    BY <1>3, <1>8, RangeCount
  <1> QED
    BY <1>3, <1>6, <1>9 DEF t

\* An answer that goes by the list.
LEMMA FaithfulAnswer ==
    ASSUME TypeOK, NEW r \in FaithfulAnswers
    PROVE  /\ r \in Answers /\ r.hits \in Seq(Works)
           /\ r.total = Len(shelf) /\ Cardinality(Range(shelf)) = Len(shelf)
           /\ Range(r.hits) \subseteq Range(shelf)
           /\ Cardinality(Range(r.hits)) = Len(r.hits)
  <1> DEFINE before == page * PageSize
             after == LesserOf(before + PageSize, Len(shelf))
  <1>1. /\ shelf \in Seq(Works) /\ Cardinality(Range(shelf)) = Len(shelf) /\ Len(shelf) \in Nat
        /\ PageSize \in Nat \ {0} /\ page \in Nat
    BY ShelvesAssumption, SizeAssumption DEF TypeOK
  <1>2. before \in Nat
    BY <1>1
  <1> HIDE DEF before
  <1>3. after \in Nat /\ after <= Len(shelf)
    BY <1>1, <1>2 DEF LesserOf
  <1>4. Ceil(Len(shelf), PageSize) \in Nat
    BY <1>1 DEF Ceil
  <1>5. /\ r.pages \in Nat /\ r.total = Len(shelf) /\ r.size = PageSize
        /\ r.hits = SubSeq(shelf, before + 1, after)
        /\ r = [pages |-> r.pages, total |-> r.total, size |-> r.size, hits |-> r.hits]
    BY <1>4 DEF FaithfulAnswers, before
  <1>6. r.hits \in Seq(Works) /\ Range(r.hits) \subseteq Range(shelf)
        /\ Cardinality(Range(r.hits)) = Len(r.hits)
    <2> HIDE DEF after
    <2> DEFINE hits == SubSeq(shelf, before + 1, after)
    <2>1. /\ hits \in Seq(Works) /\ Range(hits) \subseteq Range(shelf)
          /\ Cardinality(Range(hits)) = Len(hits)
      BY <1>1, <1>2, <1>3, Slice
    <2> QED
      BY <1>5, <2>1
  <1>7. r.hits \in Seq(Works \cup {NoWork})
    <2> DEFINE h == r.hits
    <2>1. h \in Seq(Works) => h \in Seq(Works \cup {NoWork})
      OBVIOUS
    <2> QED
      BY <1>6, <2>1
  <1> QED
    BY <1>1, <1>5, <1>6, <1>7 DEF Answers

\* Any answer, whichever way the website behaves.
LEMMA AnyAnswer ==
    ASSUME TypeOK, NEW r, Reply(r)
    PROVE  /\ r \in Answers /\ pc = "page" /\ website' \in {"steady", "shifting", "odd"}
           /\ r.pages \in Nat /\ r.total \in Nat /\ Len(r.hits) \in Nat
           /\ TotalsOf(r) \in Totals
           /\ IsFiniteSet(Range(r.hits)) /\ Cardinality(Range(r.hits)) <= Len(r.hits)
           /\ Cardinality(Range(r.hits)) \in Nat
           /\ ValidHits(r) => Range(r.hits) \subseteq Works
           /\ website' # "odd" => website' = website /\ r \in FaithfulAnswers
  <1>1. r \in Answers
    BY FaithfulAnswer, OddAssumption DEF Reply
  <1>2. /\ r.pages \in Nat /\ r.total \in Nat /\ r.size \in Nat
        /\ r.hits \in Seq(Works \cup {NoWork})
    BY <1>1 DEF Answers
  <1>3. /\ IsFiniteSet(Range(r.hits)) /\ Cardinality(Range(r.hits)) <= Len(r.hits)
        /\ Cardinality(Range(r.hits)) \in Nat /\ Range(r.hits) \subseteq Works \cup {NoWork}
    BY <1>2, RangeCount
  <1>4. Len(r.hits) \in Nat
    BY <1>2
  <1>5. TotalsOf(r) \in Totals
    BY <1>2 DEF TotalsOf, Totals
  <1> QED
    BY <1>1, <1>2, <1>3, <1>4, <1>5 DEF Reply, ValidHits, TypeOK

LEMMA Finite == \A s \in SUBSET Works : IsFiniteSet(s) /\ Cardinality(s) \in Nat
  BY WorksAssumption, FS_Subset, FS_CardinalityType

\* What one sound page adds to the works found.
LEMMA Grown ==
    ASSUME IInv, NEW r, Reply(r), Sound(r), outcome = "busy"
    PROVE  LET all == found \cup Range(r.hits)
               again == repeated \/ Range(r.hits) \cap found # {}
           IN  /\ all \subseteq Works
               /\ Cardinality(all) <= received + Len(r.hits)
               /\ website' # "odd" /\ ~again =>
                    /\ website' = website
                    /\ shown = candidates \cup Range(shelf)
                    /\ all \subseteq Range(shelf)
                    /\ Cardinality(all) = received + Len(r.hits)
                    /\ r.total = Cardinality(Range(shelf))
  <1> DEFINE all == found \cup Range(r.hits)
  <1>1. TypeOK /\ Bounded /\ WholeInv
    BY DEF IInv
  <1>2. /\ Range(r.hits) \subseteq Works /\ IsFiniteSet(Range(r.hits))
        /\ Cardinality(Range(r.hits)) <= Len(r.hits) /\ Cardinality(Range(r.hits)) \in Nat
        /\ Len(r.hits) \in Nat
    BY <1>1, AnyAnswer DEF Sound
  <1>3. /\ found \subseteq Works /\ IsFiniteSet(found) /\ Cardinality(found) \in Nat
        /\ received \in Nat /\ Cardinality(found) <= received
    BY <1>1, Finite DEF TypeOK, Bounded
  <1>4. all \subseteq Works /\ Cardinality(all) \in Nat
    BY <1>2, <1>3, Finite
  <1>5. /\ Cardinality(found \cap Range(r.hits)) \in Nat
        /\ Cardinality(all) = Cardinality(found) + Cardinality(Range(r.hits))
                                - Cardinality(found \cap Range(r.hits))
    BY <1>2, <1>3, Finite, FS_Union
  <1>6. Cardinality(all) <= received + Len(r.hits)
    BY <1>2, <1>3, <1>4, <1>5
  <1>7. ASSUME website' # "odd", ~(repeated \/ Range(r.hits) \cap found # {})
        PROVE  /\ website' = website
               /\ shown = candidates \cup Range(shelf)
               /\ all \subseteq Range(shelf)
               /\ Cardinality(all) = received + Len(r.hits)
               /\ r.total = Cardinality(Range(shelf))
    <2>1. website' = website /\ r \in FaithfulAnswers
      BY <1>1, <1>7, AnyAnswer
    <2>2. /\ r.total = Cardinality(Range(shelf)) /\ Range(r.hits) \subseteq Range(shelf)
          /\ Cardinality(Range(r.hits)) = Len(r.hits)
      BY <1>1, <2>1, FaithfulAnswer
    <2>3. /\ shown = candidates \cup Range(shelf)
          /\ found \subseteq Range(shelf) /\ Cardinality(found) = received
      BY <1>1, <1>7, <2>1 DEF WholeInv
    <2>4. found \cap Range(r.hits) = {}
      BY <1>7
    <2>5. Cardinality(found \cap Range(r.hits)) = 0
      BY <2>4, FS_EmptySet
    <2>6. Cardinality(all) = received + Len(r.hits)
      BY <1>2, <1>3, <1>5, <2>2, <2>3, <2>5
    <2> QED
      BY <2>1, <2>2, <2>3, <2>6
  <1> QED
    BY <1>4, <1>6, <1>7

\* The candidates after the last page of a title.
LEMMA Whole ==
    ASSUME IInv, NEW r, LastPage(r), outcome = "busy"
    PROVE  /\ Collected(r) \subseteq Works
           /\ website' # "odd" /\ ~repeated' => Collected(r) = shown /\ website' = website
  <1>1. TypeOK /\ Reply(r) /\ Sound(r) /\ IsLast(r)
        /\ repeated' = (repeated \/ Range(r.hits) \cap found # {})
    BY DEF IInv, LastPage
  <1> DEFINE all == found \cup Range(r.hits)
  <1>2. /\ all \subseteq Works
        /\ website' # "odd" /\ ~repeated' =>
             /\ website' = website
             /\ shown = candidates \cup Range(shelf)
             /\ all \subseteq Range(shelf)
             /\ Cardinality(all) = received + Len(r.hits)
             /\ r.total = Cardinality(Range(shelf))
    BY <1>1, Grown
  <1>3. received + Len(r.hits) = r.total
    BY <1>1 DEF Sound, Complete
  <1>4. Collected(r) = candidates \cup all /\ candidates \subseteq Works
    BY <1>1 DEF Collected, TypeOK
  <1>5. ASSUME website' # "odd", ~repeated' PROVE all = Range(shelf)
    <2>1. Range(shelf) \subseteq Works
      BY <1>1, ShelvesAssumption, RangeCount DEF TypeOK
    <2>2. all \subseteq Range(shelf) /\ Cardinality(all) = Cardinality(Range(shelf))
      BY <1>2, <1>3, <1>5
    <2> HIDE DEF all
    <2> QED
      BY <2>1, <2>2, Finite, FS_Subset
  <1> QED
    BY <1>2, <1>4, <1>5

----------------------------------------------------------------------------

LEMMA Initially == Init => IInv
  <1> SUFFICES ASSUME Init PROVE IInv
    OBVIOUS
  <1>1. TypeOK
    BY ShelvesAssumption, RangeCount DEF Init, TypeOK, NoTotals, Totals
  <1>2. Bounded
    BY SizeAssumption, FS_EmptySet DEF Init, Bounded, NoTotals
  <1>3. WholeInv
    BY FS_EmptySet DEF Init, WholeInv, Answered
  <1> QED
    BY <1>1, <1>2, <1>3 DEF IInv, Init

LEMMA StepKeeps == IInv /\ [Next]_vars => IInv'
  <1> SUFFICES ASSUME IInv, [Next]_vars PROVE IInv'
    OBVIOUS
  <1>0. /\ TypeOK /\ Bounded /\ WholeInv /\ (pc = "over" <=> outcome # "busy")
        /\ NoTotals \in Totals /\ Limit \in Nat /\ MaxTitles \in Nat
    BY SizeAssumption DEF IInv, NoTotals, Totals
  \* Steps that end the search with an error and keep what was collected.
  <1>1. ASSUME pc # "over", End("error"), UNCHANGED <<query, list, progress>>,
               website' \in {"steady", "shifting", "odd"}
        PROVE  IInv'
    <2>1. TypeOK'
      BY <1>0, <1>1 DEF TypeOK, End, query, list, progress
    <2>2. Bounded'
      BY <1>0, <1>1 DEF Bounded, progress
    <2>3. WholeInv'
      BY <1>1 DEF WholeInv, Answered, End
    <2> QED
      BY <1>1, <2>1, <2>2, <2>3 DEF IInv, End
  <1>2. CASE RefuseQuery \/ RequestFails
    BY <1>0, <1>1, <1>2 DEF RefuseQuery, RequestFails, TypeOK
  <1>3. CASE RefusePage
    <2>1. PICK r \in FaithfulAnswers \cup Odd : Reply(r) /\ ~Sound(r)
      BY <1>3 DEF RefusePage
    <2> QED
      BY <1>0, <1>1, <1>3, <2>1, AnyAnswer DEF RefusePage
  \* Steps that only move on.
  <1>4. CASE Start \/ FindEndpoint
    <2>1. TypeOK'
      BY <1>0, <1>4 DEF Start, FindEndpoint, TypeOK, query, list, progress
    <2>2. Bounded'
      BY <1>0, <1>4 DEF Start, FindEndpoint, Bounded, progress
    <2>3. WholeInv'
      BY <1>0, <1>4 DEF Start, FindEndpoint, WholeInv, Answered, Matching, query, list, progress
    <2>4. (pc = "over" <=> outcome # "busy")'
      BY <1>0, <1>4 DEF Start, FindEndpoint
    <2> QED
      BY <2>1, <2>2, <2>3, <2>4 DEF IInv
  <1>5. CASE NextPage
    <2>1. PICK r \in FaithfulAnswers \cup Odd :
            /\ Reply(r) /\ Sound(r) /\ ~IsLast(r)
            /\ head' = TotalsOf(r)
            /\ received' = received + Len(r.hits)
            /\ found' = found \cup Range(r.hits)
            /\ repeated' = (repeated \/ Range(r.hits) \cap found # {})
      BY <1>5 DEF NextPage
    <2>2. /\ page' = page + 1 /\ UNCHANGED <<query, list, title, candidates, pc, outcome>>
          /\ pc = "page" /\ outcome = "busy"
      BY <1>0, <1>5, <2>1 DEF NextPage, Reply
    <2>3. /\ r.pages \in Nat /\ r.total \in Nat /\ Len(r.hits) \in Nat
          /\ TotalsOf(r) \in Totals /\ website' \in {"steady", "shifting", "odd"}
      BY <1>0, <2>1, AnyAnswer
    <2> DEFINE all == found \cup Range(r.hits)
    <2>4. /\ all \subseteq Works /\ Cardinality(all) <= received + Len(r.hits)
          /\ website' # "odd" /\ ~repeated' =>
               /\ website' = website
               /\ shown = candidates \cup Range(shelf)
               /\ all \subseteq Range(shelf)
               /\ Cardinality(all) = received + Len(r.hits)
      BY <2>1, <2>2, Grown
    <2>5. r.total <= Limit /\ page + 1 < r.pages /\ r.pages <= Limit
          /\ received + Len(r.hits) <= r.total
      BY <1>0, <2>1, <2>3 DEF Sound, Valid, IsLast, TypeOK
    <2>6. TypeOK'
      BY <1>0, <2>1, <2>2, <2>3, <2>4 DEF TypeOK, query, list
    <2>7. Bounded'
      <3>1. head'.total = r.total
        BY <2>1 DEF TotalsOf
      <3> QED
        BY <1>0, <2>1, <2>2, <2>3, <2>4, <2>5, <3>1 DEF Bounded, TypeOK
    <2>8. WholeInv'
      BY <2>1, <2>2, <2>4 DEF WholeInv, Answered, list
    <2> QED
      BY <1>0, <2>2, <2>6, <2>7, <2>8 DEF IInv
  \* The last page of a title.
  <1>6. ASSUME NEW r \in FaithfulAnswers \cup Odd, LastPage(r)
        PROVE  /\ pc = "page" /\ outcome = "busy" /\ website' \in {"steady", "shifting", "odd"}
               /\ page' = 0 /\ head' = NoTotals /\ received' = 0 /\ found' = {}
               /\ repeated' \in BOOLEAN
               /\ Collected(r) \subseteq Works
               /\ website' # "odd" /\ ~repeated' =>
                    Collected(r) = shown /\ website' = website
    <2>1. Reply(r)
      BY <1>6 DEF LastPage
    <2>2. pc = "page" /\ outcome = "busy" /\ website' \in {"steady", "shifting", "odd"}
      BY <1>0, <2>1, AnyAnswer
    <2> QED
      BY <1>0, <1>6, <2>2, Whole DEF LastPage, TypeOK
  <1>7. ASSUME page' = 0, head' = NoTotals, received' = 0, found' = {},
               Cardinality(candidates') <= Limit
        PROVE  Bounded'
    BY <1>0, <1>7, FS_EmptySet DEF Bounded, NoTotals
  <1>8. CASE TooMany
    <2>1. PICK r \in FaithfulAnswers \cup Odd : LastPage(r)
      BY <1>8 DEF TooMany
    <2>2. End("error") /\ UNCHANGED <<query, list, title, candidates>>
      BY <1>8 DEF TooMany
    <2>3. TypeOK'
      BY <1>0, <1>6, <2>1, <2>2 DEF TypeOK, End, query, list
    <2>4. Bounded'
      BY <1>0, <1>6, <1>7, <2>1, <2>2 DEF Bounded
    <2>5. WholeInv'
      BY <2>2 DEF WholeInv, Answered, End
    <2> QED
      BY <2>2, <2>3, <2>4, <2>5 DEF IInv, End
  <1>9. CASE TitleDone
    <2>1. PICK r \in FaithfulAnswers \cup Odd :
            /\ LastPage(r) /\ Cardinality(Collected(r)) <= Limit
            /\ candidates' = Collected(r)
      BY <1>9 DEF TitleDone
    <2>2. /\ title' = title + 1 /\ shelf' \in Shelves /\ shown' = shown \cup Range(shelf')
          /\ UNCHANGED <<query, pc, outcome>>
      BY <1>9 DEF TitleDone, NextTitle
    <2>3. Range(shelf') \subseteq Works
      BY <2>2, ShelvesAssumption, RangeCount
    <2>4. TypeOK'
      BY <1>0, <1>6, <2>1, <2>2, <2>3 DEF TypeOK, query
    <2>5. Bounded'
      BY <1>6, <1>7, <2>1
    <2>6. WholeInv'
      BY <1>6, <2>1, <2>2, FS_EmptySet DEF WholeInv, Answered
    <2> QED
      BY <1>0, <2>2, <2>4, <2>5, <2>6 DEF IInv
  <1>10. CASE SearchDone
    <2>1. PICK r \in FaithfulAnswers \cup Odd :
            /\ LastPage(r) /\ Cardinality(Collected(r)) <= Limit
            /\ candidates' = Matching(Collected(r))
      BY <1>10 DEF SearchDone
    <2>2. /\ End(IF candidates' = {} THEN "none" ELSE "found")
          /\ UNCHANGED <<query, list, title>>
      BY <1>10 DEF SearchDone
    <2>3. candidates' \subseteq Collected(r) /\ Collected(r) \subseteq Works
      BY <1>6, <2>1 DEF Matching
    <2>4. Cardinality(candidates') <= Limit
      BY <1>0, <2>1, <2>3, Finite, FS_Subset
    <2>5. TypeOK'
      BY <1>0, <1>6, <2>1, <2>2, <2>3 DEF TypeOK, End, query, list
    <2>6. Bounded'
      BY <1>6, <1>7, <2>1, <2>4
    <2>7. WholeInv'
      BY <1>6, <2>1, <2>2 DEF WholeInv, Answered, End, Matching, query, list
    <2> QED
      BY <2>2, <2>5, <2>6, <2>7 DEF IInv, End
  <1>11. CASE Rerank
    <2>1. TypeOK'
      BY <1>0, <1>11 DEF Rerank, TypeOK, query, progress
    <2>2. Bounded'
      BY <1>0, <1>11 DEF Rerank, Bounded, progress
    <2>3. WholeInv'
      BY <1>0, <1>11 DEF Rerank, WholeInv, Answered, Matching, query, progress
    <2> QED
      BY <1>0, <1>11, <2>1, <2>2, <2>3 DEF IInv, Rerank
  <1>12. CASE UNCHANGED vars
    <2>1. TypeOK' /\ Bounded'
      BY <1>0, <1>12 DEF vars, query, list, progress, TypeOK, Bounded
    <2>2. WholeInv'
      BY <1>0, <1>12 DEF vars, query, list, progress, WholeInv, Answered, Matching
    <2> QED
      BY <1>0, <1>12, <2>1, <2>2 DEF IInv, vars
  <1> QED
    BY <1>2, <1>3, <1>4, <1>5, <1>8, <1>9, <1>10, <1>11, <1>12 DEF Next, Step

\* The inductive invariant of a search.
THEOREM Inductive == Spec => []IInv
  BY Initially, StepKeeps, PTL DEF Spec

\* A hit without a valid number never becomes a candidate, whatever the website
\* sends (the checks of each hit in searchAllPages).
THEOREM TypeCorrect == Spec => []TypeOK
  <1>1. IInv => TypeOK
    BY DEF IInv
  <1> QED
    BY <1>1, Inductive, PTL

\* No website keeps the program reading for more than Limit pages of a title, nor
\* hands it more than Limit candidates.
THEOREM NeverExcessive == Spec => []Bounded
  <1>1. IInv => Bounded
    BY DEF IInv
  <1> QED
    BY <1>1, Inductive, PTL

\* A search over lists that may be ranked anew at any time, in which no work came
\* twice, has missed none: the totals vouch for it.
THEOREM TotalsVouch == Spec => []WholeUnlessRepeated
  <1>1. IInv => WholeUnlessRepeated
    BY DEF IInv, WholeInv, WholeUnlessRepeated, Answered
  <1> QED
    BY <1>1, Inductive, PTL
----------------------------------------------------------------------------

\* How far a search is from its end: what comes before the pages, then the
\* titles, then the pages of a title.
Rank(at) == CASE at = "start" -> 3 [] at = "entry" -> 2 [] at = "page" -> 1 [] OTHER -> 0
Nearer ==
    \/ Rank(pc') < Rank(pc)
    \/ pc' = pc /\ title < title' /\ title' <= titles
    \/ pc' = pc /\ title' = title /\ page < page' /\ page' <= Limit
Advance ==
    /\ UNCHANGED titles
    /\ Step => Nearer
    /\ Rerank => UNCHANGED <<pc, title, page>>

\* Whatever a website answers, every step of a search brings it nearer its end,
\* past a title or past one of at most Limit pages, and a list ranked anew sets
\* it back nowhere. This is what SearchEnds needs besides fairness.
THEOREM NoCircles == Spec => [][Advance]_vars
  <1>1. IInv /\ IInv' /\ Next => Advance
    <2> SUFFICES ASSUME IInv, IInv', Next PROVE Advance
      OBVIOUS
    <2>1. UNCHANGED titles
      BY DEF Next, Step, RefuseQuery, Start, FindEndpoint, RequestFails, RefusePage, NextPage,
             TooMany, TitleDone, SearchDone, Rerank, query
    <2>2. Rerank => UNCHANGED <<pc, title, page>>
      BY DEF Rerank, progress
    <2>3. ASSUME Step PROVE Nearer
      <3>1. CASE RefuseQuery \/ Start \/ FindEndpoint \/ RequestFails
        BY <3>1 DEF RefuseQuery, Start, FindEndpoint, RequestFails, End, Nearer, Rank
      <3>2. CASE RefusePage \/ TooMany \/ SearchDone
        <4>1. pc = "page" /\ pc' = "over"
          BY <3>2 DEF RefusePage, TooMany, SearchDone, LastPage, Reply, End
        <4> QED
          BY <4>1 DEF Nearer, Rank
      <3>3. CASE NextPage
        <4>1. pc' = pc /\ title' = title /\ page' = page + 1
          BY <3>3 DEF NextPage
        <4>2. page \in Nat /\ page' <= Limit
          BY DEF IInv, TypeOK, Bounded
        <4> QED
          BY <4>1, <4>2 DEF Nearer
      <3>4. CASE TitleDone
        <4>1. pc' = pc /\ title < titles /\ title' = title + 1
          BY <3>4 DEF TitleDone, NextTitle
        <4>2. title \in Nat /\ titles \in Nat
          BY SizeAssumption DEF IInv, TypeOK
        <4> QED
          BY <4>1, <4>2 DEF Nearer
      <3> QED
        BY <2>3, <3>1, <3>2, <3>3, <3>4 DEF Step
    <2> QED
      BY <2>1, <2>2, <2>3 DEF Advance
  <1> QED
    BY <1>1, Inductive, PTL DEF Spec
=============================================================================
