--------------------------- MODULE SeriesGateProofs ---------------------------
(***************************************************************************)
(* What calls behind one gate can rely on, for any number of calls, shows, *)
(* episodes, groups and pieces, and any size of a request.                 *)
(***************************************************************************)
EXTENDS SeriesGate, FiniteSetTheorems, SequenceTheorems, TLAPS

Inside == {"keys", "seasons", "details"}
Asking == {"seasons", "details"}

\* The gate is held by the call inside, and by nobody else.
GateInv ==
    \A c \in Calls : /\ stage[c] \in Inside <=> gate = c
                     /\ outcome[c] = "busy" <=> stage[c] # "over"

\* Of a show whose record is not read nothing is at hand.
ShowInv == \A s \in Shows : record[s] = None => DOMAIN cached[s] = {}

\* What is still to ask for is asked for once and not at hand; before the record
\* is read its own pieces come first.
Planned(c) ==
    stage[c] \in Asking =>
        /\ \A m, n \in DOMAIN todo[c] : todo[c][m] = todo[c][n] => m = n
        /\ \A n \in DOMAIN todo[c] : todo[c][n] \notin DOMAIN cached[Of(c)]
        /\ record[Of(c)] = None =>
             /\ Len(MainPaths) <= Len(todo[c])
             /\ \A n \in DOMAIN MainPaths : todo[c][n] = MainPaths[n]

\* A piece a call needs is at hand, or will be.
AtHand(c, p) == p \in DOMAIN cached[Of(c)]
Coming(c, p) == AtHand(c, p) \/ \E m \in DOMAIN todo[c] : todo[c][m] = p

\* So are the season list and the details of each wanted episode.
Needs(c) ==
    \A n \in DOMAIN source[c] :
        LET e == source[c][n].episode
        IN /\ stage[c] = "seasons" => Coming(c, SeasonPath(e))
           /\ stage[c] = "details" \/ outcome[c] = "ok" => AtHand(c, SeasonPath(e))
           /\ stage[c] = "details" => \A x \in DOMAIN Extensions : Coming(c, DetailPath(e, x))
           /\ outcome[c] = "ok" /\ request[c].details =>
                \A x \in DOMAIN Extensions : AtHand(c, DetailPath(e, x))

\* A key stands where it says or where its group has it; a group once read stays.
Found(c, key) ==
    \/ key.group = None
    \/ groups[Of(c)][key.group] # None /\ key.at \in DOMAIN groups[Of(c)][key.group]
Placed(c) ==
    /\ stage[c] \in Asking \/ outcome[c] = "ok" => Len(source[c]) = Len(Keyed(c))
    /\ \A n \in DOMAIN source[c] :
         Found(c, Keyed(c)[n]) /\ source[c][n] = PlaceOf(c, Keyed(c)[n])

\* What a call has matched stays matched.
Matched(c) ==
    stage[c] = "details" \/ outcome[c] = "ok" =>
        /\ DOMAIN answer[c] = DOMAIN source[c]
        /\ \A n \in DOMAIN source[c] :
             Answers(ListOf(c, source[c][n]), source[c][n], answer[c][n])

CallInv(c) == Planned(c) /\ Needs(c) /\ Placed(c) /\ Matched(c)

IInv ==
    /\ TypeOK /\ GateInv /\ ShowInv /\ \A c \in Calls : CallInv(c)
    /\ AskedOnce /\ RecordWhole

----------------------------------------------------------------------------

LEMMA FunctionIsSeq ==
    ASSUME NEW P, NEW n \in Nat, NEW f \in [1..n -> P]
    PROVE  f \in Seq(P) /\ Len(f) = n /\ DOMAIN f = 1..n
  OBVIOUS

\* The places of a finite set of numbers are counted through without a gap.
LEMMA Counting ==
    ASSUME NEW S, S \subseteq Nat, IsFiniteSet(S)
    PROVE  /\ Cardinality(S) \in Nat
           /\ \A k \in 1..Cardinality(S) : Nth(S, k) \in S /\ Rank(S, Nth(S, k)) = k
           /\ \A n \in S : Rank(S, n) \in 1..Cardinality(S)
           /\ \A m, n \in S : Rank(S, m) = Rank(S, n) => m = n
  <1> DEFINE below(n) == {m \in S : m <= n}
             r == [n \in S |-> Rank(S, n)]
  <1>1. Cardinality(S) \in Nat
    BY FS_CardinalityType
  <1>2. ASSUME NEW n \in S
        PROVE  /\ below(n) \in SUBSET S /\ IsFiniteSet(below(n)) /\ Rank(S, n) = Cardinality(below(n))
               /\ Rank(S, n) \in 1..Cardinality(S)
    <2>1. below(n) \in SUBSET S /\ n \in below(n)
      OBVIOUS
    <2>2. IsFiniteSet(below(n)) /\ Cardinality(below(n)) <= Cardinality(S)
      BY <2>1, FS_Subset
    <2>3. Cardinality(below(n)) \in Nat /\ Cardinality(below(n)) # 0
      BY <2>1, <2>2, FS_CardinalityType, FS_EmptySet
    <2>4. Rank(S, n) = Cardinality(below(n))
      BY DEF Rank
    <2> HIDE DEF below
    <2> QED
      BY <1>1, <2>1, <2>2, <2>3, <2>4
  <1>3. ASSUME NEW m \in S, NEW n \in S, m < n
        PROVE  Rank(S, m) # Rank(S, n)
    <2>1. below(m) \in SUBSET below(n) /\ n \in below(n) /\ n \notin below(m)
      <3>1. m \in Nat /\ n \in Nat
        OBVIOUS
      <3>2. \A i \in S : i <= m => i <= n
        BY <1>3, <3>1
      <3>3. ~(n <= m)
        BY <1>3, <3>1
      <3>4. n <= n
        BY <3>1
      <3> QED
        BY <3>2, <3>3, <3>4, Zenon
    <2> HIDE DEF below
    <2>2. IsFiniteSet(below(n)) /\ below(m) # below(n)
      BY <1>2, <2>1
    <2>3. Cardinality(below(n)) # Cardinality(below(m))
      BY <2>1, <2>2, FS_Subset
    <2> QED
      BY <1>2, <2>3
  <1>4. \A m, n \in S : Rank(S, m) = Rank(S, n) => m = n
    <2> SUFFICES ASSUME NEW m \in S, NEW n \in S, m # n PROVE Rank(S, m) # Rank(S, n)
      OBVIOUS
    <2>1. m < n \/ n < m
      OBVIOUS
    <2> QED
      BY <1>3, <2>1
  <1>5. r \in Injection(S, 1..Cardinality(S))
    BY <1>2, <1>4 DEF Injection, IsInjective
  <1>6. IsFiniteSet(1..Cardinality(S)) /\ Cardinality(1..Cardinality(S)) = Cardinality(S)
    <2>1. 1 \in Int /\ Cardinality(S) \in Int
      BY <1>1
    <2> QED
      BY <1>1, <2>1, FS_Interval
  <1>7. r \in Surjection(S, 1..Cardinality(S))
    BY <1>5, <1>6, FS_Injection
  <1>8. \A k \in 1..Cardinality(S) : \E n \in S : Rank(S, n) = k
    BY <1>7 DEF Surjection
  <1>9. \A k \in 1..Cardinality(S) : Nth(S, k) \in S /\ Rank(S, Nth(S, k)) = k
    BY <1>8 DEF Nth
  <1> QED
    BY <1>1, <1>2, <1>4, <1>9

\* A value that a sequence has, it has somewhere first.
LEMMA First ==
    ASSUME NEW P, NEW paths \in Seq(P), NEW i \in DOMAIN paths
    PROVE  \E j \in DOMAIN paths :
             paths[j] = paths[i] /\ \A m \in 1..(j - 1) : paths[m] # paths[i]
  <1> DEFINE I == {j \in DOMAIN paths : paths[j] = paths[i]}
             j == Nth(I, 1)
             low == {m \in I : m <= j}
  <1>1. IsFiniteSet(I) /\ I \subseteq Nat /\ i \in I
    <2>1. Len(paths) \in Nat /\ DOMAIN paths = 1..Len(paths)
      OBVIOUS
    <2>2. IsFiniteSet(DOMAIN paths)
      BY <2>1, FS_Interval
    <2> QED
      BY <2>1, <2>2, FS_Subset
  <1>2. Cardinality(I) \in Nat /\ Cardinality(I) # 0
    BY <1>1, FS_CardinalityType, FS_EmptySet
  <1>3. j \in I /\ Rank(I, j) = 1
    <2>1. 1 \in 1..Cardinality(I)
      BY <1>2
    <2> HIDE DEF I
    <2> QED
      BY <1>1, <2>1, Counting
  <1>4. Cardinality(low) = 1 /\ IsFiniteSet(low) /\ j \in low
    <2>1. low \in SUBSET I
      OBVIOUS
    <2>2. IsFiniteSet(low)
      BY <1>1, <2>1, FS_Subset
    <2> QED
      BY <1>1, <1>3, <2>2 DEF Rank
  <1>5. \A m \in low : m = j
    <2> HIDE DEF low
    <2> QED
      BY <1>4, FS_Singleton
  <1>6. \A m \in 1..(j - 1) : paths[m] # paths[i]
    <2> SUFFICES ASSUME NEW m \in 1..(j - 1), paths[m] = paths[i] PROVE FALSE
      OBVIOUS
    <2>1. j \in Nat /\ j \in 1..Len(paths) /\ Len(paths) \in Nat
      BY <1>3
    <2> HIDE DEF j
    <2>2. m \in 1..Len(paths) /\ m <= j /\ m # j
      BY <2>1
    <2>3. m \in low
      BY <2>2
    <2> QED
      BY <1>5, <2>2, <2>3
  <1> QED
    BY <1>3, <1>6

\* What Missing returns: each once, none at hand, and all that were not.
LEMMA MissingGives ==
    ASSUME NEW c, NEW P, NEW paths \in Seq(P)
    PROVE  /\ Missing(c, paths) \in Seq(P)
           /\ \A m, n \in DOMAIN Missing(c, paths) :
                Missing(c, paths)[m] = Missing(c, paths)[n] => m = n
           /\ \A n \in DOMAIN Missing(c, paths) :
                /\ Missing(c, paths)[n] \notin DOMAIN cached[Of(c)]
                /\ \E i \in DOMAIN paths : Missing(c, paths)[n] = paths[i]
           /\ \A i \in DOMAIN paths :
                \/ paths[i] \in DOMAIN cached[Of(c)]
                \/ \E n \in DOMAIN Missing(c, paths) : Missing(c, paths)[n] = paths[i]
  <1> DEFINE F == Firsts(c, paths)
             ps == Missing(c, paths)
             D == DOMAIN cached[Of(c)]
  <1>1. Len(paths) \in Nat /\ DOMAIN paths = 1..Len(paths) /\ \A n \in DOMAIN paths : paths[n] \in P
    OBVIOUS
  <1>2. /\ F \subseteq Nat /\ IsFiniteSet(F) /\ F \subseteq DOMAIN paths
        /\ \A n \in F : paths[n] \notin D /\ \A m \in 1..(n - 1) : paths[m] # paths[n]
    <2>1. F \in SUBSET (1..Len(paths))
      BY <1>1 DEF Firsts
    <2>2. IsFiniteSet(1..Len(paths))
      BY <1>1, FS_Interval
    <2>3. \A n \in F : paths[n] \notin D /\ \A m \in 1..(n - 1) : paths[m] # paths[n]
      BY DEF Firsts
    <2> QED
      BY <1>1, <2>1, <2>2, <2>3, FS_Subset
  <1>3. /\ Cardinality(F) \in Nat
        /\ \A k \in 1..Cardinality(F) : Nth(F, k) \in F /\ Rank(F, Nth(F, k)) = k
        /\ \A n \in F : Rank(F, n) \in 1..Cardinality(F)
        /\ \A m, n \in F : Rank(F, m) = Rank(F, n) => m = n
    <2> HIDE DEF F
    <2> QED
      BY <1>2, Counting
  <1>4. ps = [k \in 1..Cardinality(F) |-> paths[Nth(F, k)]]
    BY DEF Missing
  <1> HIDE DEF F, ps, D
  <1>5. DOMAIN ps = 1..Cardinality(F) /\ \A k \in DOMAIN ps : ps[k] = paths[Nth(F, k)]
    BY <1>4
  <1>6. ps \in Seq(P)
    <2>1. ps \in [1..Cardinality(F) -> P]
      BY <1>1, <1>2, <1>3, <1>4
    <2> QED
      BY <1>3, <2>1, FunctionIsSeq
  <1>7. \A m, n \in F : paths[m] = paths[n] => m = n
    <2> SUFFICES ASSUME NEW m \in F, NEW n \in F, paths[m] = paths[n], m # n PROVE FALSE
      OBVIOUS
    <2>1. m \in 1..Len(paths) /\ n \in 1..Len(paths)
      BY <1>1, <1>2
    <2>2. m \in 1..(n - 1) \/ n \in 1..(m - 1)
      BY <1>1, <2>1
    <2> QED
      BY <1>2, <2>2
  <1>8. \A m, n \in DOMAIN ps : ps[m] = ps[n] => m = n
    <2> SUFFICES ASSUME NEW m \in DOMAIN ps, NEW n \in DOMAIN ps, ps[m] = ps[n] PROVE m = n
      OBVIOUS
    <2>1. Nth(F, m) = Nth(F, n)
      BY <1>3, <1>5, <1>7
    <2> QED
      BY <1>3, <1>5, <2>1
  <1>9. \A n \in DOMAIN ps : ps[n] \notin D /\ \E i \in DOMAIN paths : ps[n] = paths[i]
    BY <1>2, <1>3, <1>5
  <1>10. ASSUME NEW i \in DOMAIN paths, paths[i] \notin D
         PROVE  \E n \in DOMAIN ps : ps[n] = paths[i]
    <2>1. PICK j \in DOMAIN paths :
            paths[j] = paths[i] /\ \A m \in 1..(j - 1) : paths[m] # paths[i]
      BY First
    <2>2. j \in F
      BY <1>10, <2>1 DEF F, D, Firsts
    <2>3. Rank(F, j) \in DOMAIN ps /\ Nth(F, Rank(F, j)) = j
      BY <1>3, <1>5, <2>2
    <2> QED
      BY <1>5, <2>1, <2>3
  <1> QED
    BY <1>6, <1>8, <1>9, <1>10 DEF ps, D

----------------------------------------------------------------------------

\* What a call is asked for, and where its episodes stand.
LEMMA CallTypes ==
    ASSUME TypeOK, NEW c \in Calls
    PROVE  /\ Of(c) \in Shows /\ request[c].details \in BOOLEAN
           /\ Keyed(c) \in Seq(Keys) /\ Len(Keyed(c)) \in Nat /\ DOMAIN Keyed(c) = 1..Len(Keyed(c))
           /\ \A n \in DOMAIN Keyed(c) :
                Keyed(c)[n].group \in Groups \cup {None} /\ Keyed(c)[n].at \in Episodes
           /\ source[c] \in Seq(Source) /\ Len(source[c]) \in Nat
           /\ DOMAIN source[c] = 1..Len(source[c]) /\ DOMAIN source[c] \subseteq DOMAIN Keyed(c)
           /\ \A n \in DOMAIN source[c] : source[c][n].episode \in Episodes
           /\ todo[c] \in Seq(Paths) /\ Len(todo[c]) \in Nat /\ DOMAIN todo[c] = 1..Len(todo[c])
  <1>1. request[c] \in Request
    BY LoadsAssumption DEF TypeOK
  <1>2. /\ Of(c) \in Shows /\ request[c].details \in BOOLEAN /\ Keyed(c) \in Seq(Keys)
    BY <1>1 DEF Request, Of, Keyed
  <1>3. source[c] \in Seq(Source) /\ todo[c] \in Seq(Paths) /\ Len(source[c]) <= Len(Keyed(c))
    BY DEF TypeOK, Keyed
  <1>4. \A n \in DOMAIN Keyed(c) : Keyed(c)[n] \in Keys
    BY <1>2
  <1>5. \A n \in DOMAIN source[c] : source[c][n] \in Source
    BY <1>3
  <1>6. /\ Len(Keyed(c)) \in Nat /\ DOMAIN Keyed(c) = 1..Len(Keyed(c))
        /\ Len(source[c]) \in Nat /\ DOMAIN source[c] = 1..Len(source[c])
        /\ Len(todo[c]) \in Nat /\ DOMAIN todo[c] = 1..Len(todo[c])
    BY <1>2, <1>3, LenProperties
  <1>7. DOMAIN source[c] \subseteq DOMAIN Keyed(c)
    BY <1>3, <1>6
  <1>8. \A n \in DOMAIN Keyed(c) : Keyed(c)[n].group \in Groups \cup {None} /\ Keyed(c)[n].at \in Episodes
    BY <1>4 DEF Keys
  <1>9. \A n \in DOMAIN source[c] : source[c][n].episode \in Episodes
    BY <1>5 DEF Source
  <1> QED
    BY <1>2, <1>3, <1>6, <1>7, <1>8, <1>9

\* A step that leaves a call alone, keeps what is at hand and what groups say,
\* and touches the show of a call that asks not at all, keeps its invariant.
LEMMA OthersKeep ==
    ASSUME TypeOK, NEW d \in Calls, CallInv(d), UNCHANGED request,
           stage'[d] = stage[d], outcome'[d] = outcome[d], source'[d] = source[d],
           todo'[d] = todo[d], answer'[d] = answer[d],
           \A p \in DOMAIN cached[Of(d)] :
               p \in DOMAIN cached'[Of(d)] /\ cached'[Of(d)][p] = cached[Of(d)][p],
           \A g \in Groups : groups[Of(d)][g] # None => groups'[Of(d)][g] = groups[Of(d)][g],
           stage[d] \in Asking =>
               record'[Of(d)] = record[Of(d)] /\ cached'[Of(d)] = cached[Of(d)]
    PROVE  CallInv(d)'
  <1>1. Of(d)' = Of(d) /\ Keyed(d)' = Keyed(d) /\ request'[d] = request[d]
    BY DEF Of, Keyed
  <1>2. Planned(d)'
    BY <1>1 DEF CallInv, Planned
  <1>3. ASSUME NEW p PROVE AtHand(d, p) => AtHand(d, p)'
    BY <1>1 DEF AtHand
  <1>4. ASSUME NEW p PROVE Coming(d, p) => Coming(d, p)'
    BY <1>3 DEF Coming
  <1>5. Needs(d)'
    BY <1>1, <1>3, <1>4 DEF CallInv, Needs
  <1>6. Placed(d)'
    BY <1>1, CallTypes DEF CallInv, Placed, Found, PlaceOf
  <1>7. Matched(d)'
    <2> SUFFICES ASSUME stage[d] = "details" \/ outcome[d] = "ok", NEW n \in DOMAIN source[d]
                 PROVE  Answers(ListOf(d, source[d][n])', source[d][n], answer[d][n])
      BY DEF CallInv, Matched
    <2>1. Answers(ListOf(d, source[d][n]), source[d][n], answer[d][n])
      BY DEF CallInv, Matched
    <2>2. AtHand(d, SeasonPath(source[d][n].episode))
      BY DEF CallInv, Needs
    <2>3. ListOf(d, source[d][n])' = ListOf(d, source[d][n])
      BY <1>1, <2>2 DEF ListOf, AtHand
    <2> QED
      BY <2>1, <2>3
  <1> QED
    BY <1>2, <1>5, <1>6, <1>7 DEF CallInv

\* A step of one call that learns no piece and forgets no group.
LEMMA LocalStep ==
    ASSUME IInv, NEW c \in Calls, TypeOK', GateInv', CallInv(c)',
           UNCHANGED <<request, record, cached, arrived>>,
           \A d \in Calls \ {c} :
               /\ stage'[d] = stage[d] /\ outcome'[d] = outcome[d]
               /\ source'[d] = source[d] /\ todo'[d] = todo[d] /\ answer'[d] = answer[d],
           \A s \in Shows : \A g \in Groups : groups[s][g] # None => groups'[s][g] = groups[s][g]
    PROVE  IInv'
  <1>1. ASSUME NEW d \in Calls, d # c PROVE CallInv(d)'
    <2>1. Of(d) \in Shows /\ CallInv(d) /\ TypeOK
      BY CallTypes DEF IInv
    <2> QED
      BY <1>1, <2>1, OthersKeep
  <1>2. \A d \in Calls : CallInv(d)'
    BY <1>1
  <1>3. ShowInv' /\ AskedOnce' /\ RecordWhole'
    BY DEF IInv, ShowInv, AskedOnce, RecordWhole
  <1> QED
    BY <1>2, <1>3 DEF IInv

\* Whoever leaves gives the gate back.
LEMMA ReturnKeeps ==
    ASSUME TypeOK, GateInv, NEW c \in Calls, stage[c] \in Inside,
           NEW how \in {"ok", "error", "cancelled"}, Return(c, how)
    PROVE  /\ GateInv' /\ gate' \in Calls \cup {None}
           /\ stage' \in [Calls -> {"gate", "keys", "seasons", "details", "over"}]
           /\ outcome' \in [Calls -> {"busy", "ok", "error", "cancelled"}]
           /\ stage'[c] = "over" /\ outcome'[c] = how
           /\ \A d \in Calls \ {c} : stage'[d] = stage[d] /\ outcome'[d] = outcome[d]
  <1>1. /\ stage' = [stage EXCEPT ![c] = "over"] /\ outcome' = [outcome EXCEPT ![c] = how]
        /\ gate' = None
    BY DEF Return, GateAfter
  <1>2. /\ stage' \in [Calls -> {"gate", "keys", "seasons", "details", "over"}]
        /\ outcome' \in [Calls -> {"busy", "ok", "error", "cancelled"}]
        /\ stage'[c] = "over" /\ outcome'[c] = how
        /\ \A d \in Calls \ {c} : stage'[d] = stage[d] /\ outcome'[d] = outcome[d]
    BY <1>1 DEF TypeOK
  <1>3. gate = c /\ \A d \in Calls : None # d
    BY NamesAssumption DEF GateInv
  <1>4. ASSUME NEW d \in Calls
        PROVE  (stage'[d] \in Inside <=> gate' = d) /\ (outcome'[d] = "busy" <=> stage'[d] # "over")
    <2>1. CASE d = c
      BY <1>1, <1>2, <1>3, <2>1 DEF Inside
    <2>2. CASE d # c
      BY <1>1, <1>2, <1>3, <2>2 DEF GateInv
    <2> QED
      BY <2>1, <2>2
  <1> QED
    BY <1>1, <1>2, <1>4 DEF GateInv

\* A call that fails leaves everything else as it was.
LEMMA LeaveStep ==
    ASSUME IInv, NEW c \in Calls, stage[c] \in Inside, NEW how \in {"error", "cancelled"},
           Return(c, how), UNCHANGED <<request, ended, shared, own>>
    PROVE  IInv'
  <1>1. /\ GateInv' /\ gate' \in Calls \cup {None}
        /\ stage' \in [Calls -> {"gate", "keys", "seasons", "details", "over"}]
        /\ outcome' \in [Calls -> {"busy", "ok", "error", "cancelled"}]
        /\ stage'[c] = "over" /\ outcome'[c] = how
        /\ \A d \in Calls \ {c} : stage'[d] = stage[d] /\ outcome'[d] = outcome[d]
    BY ReturnKeeps DEF IInv
  <1>2. TypeOK'
    BY <1>1 DEF IInv, TypeOK, shared, own
  <1>3. Placed(c)'
    BY <1>1, CallTypes DEF IInv, CallInv, Placed, Found, PlaceOf, Of, Keyed, shared, own, Asking
  <1>4. CallInv(c)'
    BY <1>1, <1>3 DEF CallInv, Planned, Needs, Matched, Asking
  <1> QED
    BY <1>1, <1>2, <1>4, LocalStep DEF shared, own

LEMMA FailsHow ==
    ASSUME NEW c \in Calls, Fails(c)
    PROVE  \E how \in {"error", "cancelled"} : Return(c, how)
  BY DEF Fails, ErrorsOf

LEMMA EnterStep == ASSUME IInv, NEW c \in Calls, Enter(c) PROVE IInv'
  <1>1. /\ stage[c] = "gate" /\ gate = None /\ gate' = c
        /\ stage' = [stage EXCEPT ![c] = "keys"]
        /\ UNCHANGED <<request, ended, outcome, shared, own>>
    BY DEF Enter, Open
  <1>2. /\ stage'[c] = "keys" /\ outcome[c] = "busy"
        /\ \A d \in Calls \ {c} : stage'[d] = stage[d]
    BY <1>1 DEF IInv, TypeOK, GateInv
  <1>3. TypeOK'
    BY <1>1 DEF IInv, TypeOK, shared, own
  <1>4. GateInv'
    <2> SUFFICES ASSUME NEW d \in Calls
                 PROVE  /\ stage'[d] \in Inside <=> gate' = d
                        /\ outcome'[d] = "busy" <=> stage'[d] # "over"
      BY DEF GateInv
    <2>1. gate # d /\ stage[d] \notin Inside /\ (outcome[d] = "busy" <=> stage[d] # "over")
      BY <1>1, NamesAssumption DEF IInv, GateInv
    <2> QED
      BY <1>1, <1>2, <2>1 DEF Inside
  <1>5. Placed(c)'
    BY <1>1, <1>2, CallTypes DEF IInv, CallInv, Placed, Found, PlaceOf, Of, Keyed, shared, own, Asking
  <1>6. CallInv(c)'
    BY <1>1, <1>2, <1>5 DEF CallInv, Planned, Needs, Matched, Asking
  <1> QED
    BY <1>1, <1>2, <1>3, <1>4, <1>6, LocalStep DEF shared, own

LEMMA TurnAwayStep == ASSUME IInv, NEW c \in Calls, TurnAway(c) PROVE IInv'
  <1>1. /\ stage[c] = "gate" /\ stage' = [stage EXCEPT ![c] = "over"]
        /\ outcome' = [outcome EXCEPT ![c] = "cancelled"]
        /\ UNCHANGED <<request, ended, gate, shared, own>>
    BY DEF TurnAway
  <1>2. /\ stage'[c] = "over" /\ outcome'[c] = "cancelled"
        /\ \A d \in Calls \ {c} : stage'[d] = stage[d] /\ outcome'[d] = outcome[d]
    BY <1>1 DEF IInv, TypeOK
  <1>3. TypeOK'
    BY <1>1 DEF IInv, TypeOK, shared, own
  <1>4. GateInv'
    BY <1>1, <1>2 DEF IInv, GateInv, Inside
  <1>5. Placed(c)'
    BY <1>1, <1>2, CallTypes DEF IInv, CallInv, Placed, Found, PlaceOf, Of, Keyed, shared, own, Asking
  <1>6. CallInv(c)'
    BY <1>1, <1>2, <1>5 DEF CallInv, Planned, Needs, Matched, Asking
  <1> QED
    BY <1>1, <1>2, <1>3, <1>4, <1>6, LocalStep DEF shared, own

LEMMA EndContextStep == ASSUME IInv, NEW c \in Calls, EndContext(c) PROVE IInv'
  <1>1. ended' \in [Calls -> BOOLEAN]
        /\ UNCHANGED <<request, stage, outcome, gate, shared, own>>
    BY DEF EndContext, IInv, TypeOK
  <1>2. TypeOK' /\ GateInv'
    BY <1>1 DEF IInv, TypeOK, GateInv, shared, own
  <1>3. CallInv(c)'
    BY <1>1, CallTypes, OthersKeep DEF IInv, shared, own
  <1> QED
    BY <1>1, <1>2, <1>3, LocalStep DEF shared, own

\* One more key stands where its page says.
LEMMA PlacedStep ==
    ASSUME IInv, NEW c \in Calls, InKeys(c), Found(c, At(c)),
           source' = [source EXCEPT ![c] = Append(@, PlaceOf(c, At(c)))],
           UNCHANGED <<request, stage, outcome, gate, ended, shared, todo, answer>>
    PROVE  IInv'
  <1> DEFINE i == Len(source[c]) + 1
             place == PlaceOf(c, At(c))
  <1>1. /\ stage[c] = "keys" /\ outcome[c] = "busy" /\ i \in DOMAIN Keyed(c) /\ At(c) = Keyed(c)[i]
        /\ At(c).group \in Groups \cup {None} /\ At(c).at \in Episodes
    BY CallTypes DEF IInv, GateInv, InKeys, At
  <1>2. place \in Source
    <2>1. CASE At(c).group = None
      BY <1>1, <2>1 DEF PlaceOf, Source
    <2>2. CASE At(c).group # None
      <3>1. Of(c) \in Shows /\ At(c).group \in Groups
        BY <1>1, <2>2, CallTypes DEF IInv
      <3>2. /\ groups[Of(c)][At(c).group] \in GroupPages
            /\ At(c).at \in DOMAIN groups[Of(c)][At(c).group]
        BY <2>2, <3>1 DEF Found, IInv, TypeOK
      <3>3. groups[Of(c)][At(c).group] \in GroupPage
        BY <3>2, PagesAssumption
      <3>4. groups[Of(c)][At(c).group][At(c).at] \in Member
        BY <3>2, <3>3 DEF GroupPage
      <3> QED
        BY <2>2, <3>4 DEF PlaceOf, Member, Source
    <2> QED
      BY <2>1, <2>2
  <1> HIDE DEF place
  <1>3. source[c] \in Seq(Source) /\ Len(source[c]) \in Nat /\ DOMAIN source[c] = 1..Len(source[c])
    BY CallTypes DEF IInv
  <1>4. /\ source'[c] = Append(source[c], place)
        /\ \A d \in Calls \ {c} : source'[d] = source[d]
    BY DEF IInv, TypeOK, place
  <1>5. /\ source'[c] \in Seq(Source) /\ Len(source'[c]) = i /\ DOMAIN source'[c] = 1..i
        /\ source'[c][i] = place /\ \A n \in DOMAIN source[c] : source'[c][n] = source[c][n]
    BY <1>2, <1>3, <1>4
  <1>6. TypeOK'
    <2>1. source' \in [Calls -> Seq(Source)]
      BY <1>2, <1>3 DEF IInv, TypeOK, place
    <2>2. i <= Len(Keyed(c))
      BY <1>1, CallTypes DEF IInv
    <2>3. \A d \in Calls : Len(source'[d]) <= Len(request[d].keys)
      BY <1>4, <1>5, <2>2 DEF IInv, TypeOK, Keyed
    <2> QED
      BY <2>1, <2>3 DEF IInv, TypeOK, shared
  <1>7. Placed(c)'
    <2>1. ASSUME NEW n \in DOMAIN source'[c]
          PROVE  Found(c, Keyed(c)[n]) /\ source'[c][n] = PlaceOf(c, Keyed(c)[n])
      <3>1. CASE n \in DOMAIN source[c]
        BY <1>5, <3>1 DEF IInv, CallInv, Placed
      <3>2. CASE n = i
        BY <1>1, <1>5, <3>2 DEF place
      <3> QED
        BY <1>3, <1>5, <3>1, <3>2
    <2> QED
      BY <1>1, <2>1 DEF Placed, Found, PlaceOf, Of, Keyed, shared, Asking
  <1>8. CallInv(c)'
    BY <1>1, <1>7 DEF CallInv, Planned, Needs, Matched, Asking
  <1>9. GateInv'
    BY DEF IInv, GateInv
  <1> QED
    BY <1>4, <1>6, <1>8, <1>9, LocalStep DEF shared

LEMMA PlaceKeyStep == ASSUME IInv, NEW c \in Calls, PlaceKey(c) PROVE IInv'
  <1>1. InKeys(c) /\ UNCHANGED <<request, ended, shared, todo, answer>>
    BY DEF PlaceKey
  <1>2. stage[c] \in Inside
    BY <1>1 DEF InKeys, Inside
  <1>3. CASE /\ At(c).group = None /\ UNCHANGED <<stage, outcome, gate>>
             /\ source' = [source EXCEPT ![c] = Append(@, [episode |-> At(c).at, id |-> None])]
    BY <1>1, <1>3, PlacedStep DEF Found, PlaceOf
  <1>4. CASE /\ At(c).group # None /\ GroupKnown(c) /\ UNCHANGED <<stage, outcome, gate>>
             /\ At(c).at \in DOMAIN groups[Of(c)][At(c).group]
             /\ source' = [source EXCEPT ![c] = Append(@, groups[Of(c)][At(c).group][At(c).at])]
    BY <1>1, <1>4, PlacedStep DEF Found, PlaceOf, GroupKnown
  <1>5. CASE Return(c, "error") /\ UNCHANGED source
    BY <1>1, <1>2, <1>5, LeaveStep DEF own
  <1> QED
    BY <1>3, <1>4, <1>5 DEF PlaceKey

LEMMA ReadGroupStep == ASSUME IInv, NEW c \in Calls, ReadGroup(c) PROVE IInv'
  <1>1. /\ InKeys(c) /\ At(c).group # None /\ groups[Of(c)][At(c).group] = None
        /\ UNCHANGED <<request, ended, record, cached, arrived, own>>
    BY DEF ReadGroup, GroupKnown
  <1>2. stage[c] \in Inside
    BY <1>1 DEF InKeys, Inside
  <1>3. CASE Fails(c) /\ UNCHANGED groups
    BY <1>1, <1>2, <1>3, FailsHow, LeaveStep DEF shared
  <1>4. ASSUME NEW page \in GroupPages, groups' = [groups EXCEPT ![Of(c)][At(c).group] = page],
               UNCHANGED <<stage, outcome, gate>>
        PROVE  IInv'
    <2>1. Of(c) \in Shows
      BY CallTypes DEF IInv
    <2>2. /\ groups' \in [Shows -> [Groups -> GroupPages \cup {None}]]
          /\ \A s \in Shows : \A g \in Groups : groups[s][g] # None => groups'[s][g] = groups[s][g]
      BY <1>1, <1>4, <2>1 DEF IInv, TypeOK
    <2>3. TypeOK' /\ GateInv'
      BY <1>1, <1>4, <2>2 DEF IInv, TypeOK, GateInv, own
    <2>4. CallInv(c)'
      BY <1>1, <1>4, <2>1, <2>2, OthersKeep DEF IInv, own
    <2> QED
      BY <1>1, <1>4, <2>2, <2>3, <2>4, LocalStep DEF own
  <1> QED
    BY <1>3, <1>4 DEF ReadGroup

----------------------------------------------------------------------------

LEMMA Division ==
    ASSUME NEW w \in Nat \ {0}, NEW m \in Nat
    PROVE  m \div w \in Nat /\ m % w \in 0..(w - 1) /\ m = (w * (m \div w)) + (m % w)
  OBVIOUS

\* A place in a list of l rows of w, and back.
LEMMA RowAndPlace ==
    ASSUME NEW w \in Nat \ {0}, NEW l \in Nat, NEW k \in 1..(l * w)
    PROVE  ((k - 1) \div w) + 1 \in 1..l /\ ((k - 1) % w) + 1 \in 1..w
  <1> DEFINE q == (k - 1) \div w
             r == (k - 1) % w
  <1>1. q \in Nat /\ r \in 0..(w - 1) /\ k - 1 = w * q + r
    OBVIOUS
  <1> HIDE DEF q, r
  <1>2. q < l
    <2> SUFFICES ASSUME l <= q PROVE FALSE
      BY <1>1
    <2>1. w * l <= w * q
      BY <1>1
    <2>2. w * l = l * w
      OBVIOUS
    <2> QED
      BY <1>1, <2>1, <2>2
  <1> QED
    BY <1>1, <1>2 DEF q, r

Lies(w, l, n, x) == \E k \in 1..(l * w) : ((k - 1) \div w) + 1 = n /\ ((k - 1) % w) + 1 = x

LEMMA PlaceOfRow ==
    ASSUME NEW w \in Nat \ {0}, NEW l \in Nat, NEW n \in 1..l, NEW x \in 1..w
    PROVE  Lies(w, l, n, x)
  <1> DEFINE k == (n - 1) * w + x
             q == (k - 1) \div w
             r == (k - 1) % w
  <1>1. (n - 1) * w \in Nat /\ k \in Nat /\ 1 <= k
    OBVIOUS
  <1>2. k <= l * w
    <2>1. (n - 1) * w + w = n * w
      OBVIOUS
    <2>2. n * w <= l * w
      OBVIOUS
    <2> QED
      BY <1>1, <2>1, <2>2
  <1>3. q \in Nat /\ r \in 0..(w - 1) /\ k - 1 = w * q + r
    <2>1. k - 1 \in Nat
      BY <1>1
    <2> HIDE DEF k
    <2> QED
      BY <2>1, Division
  <1>4. w * q + r = w * (n - 1) + (x - 1)
    BY <1>3
  <1> HIDE DEF q, r
  <1>5. q = n - 1
    <2>1. CASE q < n - 1
      <3>1. w * (q + 1) <= w * (n - 1)
        BY <1>3, <2>1
      <3> QED
        BY <1>3, <1>4, <3>1
    <2>2. CASE n - 1 < q
      <3>1. w * n <= w * q
        BY <1>3, <2>2
      <3> QED
        BY <1>3, <1>4, <3>1
    <2> QED
      BY <1>3, <2>1, <2>2
  <1>6. r = x - 1
    BY <1>3, <1>4, <1>5
  <1>7. k \in 1..(l * w) /\ ((k - 1) \div w) + 1 = n /\ ((k - 1) % w) + 1 = x
    BY <1>1, <1>2, <1>5, <1>6 DEF q, r
  <1> HIDE DEF k
  <1> QED
    BY <1>7 DEF Lies

\* The pieces of a record are of another kind than those of seasons.
LEMMA PathKinds ==
    /\ MainPaths \in Seq(Paths) /\ Len(MainPaths) \in Nat \ {0}
    /\ DOMAIN MainPaths = 1..Len(MainPaths)
    /\ \A e \in Episodes : SeasonPath(e) \in Paths
    /\ \A e \in Episodes : \A x \in DOMAIN Extensions : DetailPath(e, x) \in Paths
    /\ \A n \in DOMAIN MainPaths : \A e \in Episodes : MainPaths[n] # SeasonPath(e)
  <1>1. MainPaths \in Seq(Paths)
    <2>1. Range(MainPaths) \subseteq Paths
      BY DEF Paths
    <2> QED
      BY <2>1, BatchAssumption, SeqMonotonic
  <1>2. Len(MainPaths) \in Nat \ {0} /\ DOMAIN MainPaths = 1..Len(MainPaths)
    BY <1>1, BatchAssumption, EmptySeq, LenProperties
  <1>3. \A e \in Episodes : SeasonPath(e)[1] = "season"
    BY DEF SeasonPath
  <1>4. \A n \in DOMAIN MainPaths : \A e \in Episodes : MainPaths[n] # SeasonPath(e)
    BY <1>3, BatchAssumption
  <1>5. \A e \in Episodes : SeasonPath(e) \in Paths
    BY DEF Paths
  <1>6. \A e \in Episodes : \A x \in DOMAIN Extensions : DetailPath(e, x) \in Paths
    BY DEF Paths
  <1> QED
    BY <1>1, <1>2, <1>4, <1>5, <1>6

LEMMA SeasonPathsGive ==
    ASSUME TypeOK, NEW c \in Calls
    PROVE  /\ SeasonPaths(c) \in Seq(Paths) /\ DOMAIN SeasonPaths(c) = DOMAIN source[c]
           /\ \A n \in DOMAIN source[c] : SeasonPaths(c)[n] = SeasonPath(source[c][n].episode)
  <1>1. Len(source[c]) \in Nat /\ DOMAIN source[c] = 1..Len(source[c])
    BY CallTypes
  <1>2. SeasonPaths(c) \in [1..Len(source[c]) -> Paths]
    BY <1>1, CallTypes, PathKinds DEF SeasonPaths
  <1>3. SeasonPaths(c) \in Seq(Paths)
    BY <1>1, <1>2, FunctionIsSeq
  <1> QED
    BY <1>1, <1>3 DEF SeasonPaths

LEMMA DetailPathsGive ==
    ASSUME TypeOK, NEW c \in Calls
    PROVE  /\ AllDetailPaths(c) \in Seq(Paths)
           /\ \A n \in DOMAIN source[c] : \A x \in DOMAIN Extensions :
                \E k \in DOMAIN AllDetailPaths(c) :
                  AllDetailPaths(c)[k] = DetailPath(source[c][n].episode, x)
  <1> DEFINE w == Len(Extensions)
             l == Len(source[c])
             D(k) == DetailPath(source[c][((k - 1) \div w) + 1].episode, ((k - 1) % w) + 1)
             all == [k \in 1..(l * w) |-> D(k)]
  <1>1. /\ w \in Nat /\ DOMAIN Extensions = 1..w /\ l \in Nat /\ DOMAIN source[c] = 1..l
        /\ l * w \in Nat
    BY BatchAssumption, CallTypes, LenProperties
  <1>2. AllDetailPaths(c) = all
    BY DEF AllDetailPaths
  <1>3. CASE w = 0
    <2>1. l * w = 0
      BY <1>1, <1>3
    <2>2. all \in [1..0 -> Paths]
      BY <2>1
    <2>3. AllDetailPaths(c) \in Seq(Paths)
      BY <1>2, <2>2, FunctionIsSeq
    <2> QED
      BY <1>1, <1>3, <2>3
  <1>4. CASE w # 0
    <2> HIDE DEF w, l
    <2>1. \A k \in 1..(l * w) : ((k - 1) \div w) + 1 \in 1..l /\ ((k - 1) % w) + 1 \in 1..w
      BY <1>1, <1>4, RowAndPlace
    <2>2. \A k \in 1..(l * w) : D(k) \in Paths
      BY <1>1, <2>1, CallTypes, PathKinds
    <2>3. AllDetailPaths(c) \in Seq(Paths)
      <3>1. all \in [1..(l * w) -> Paths]
        BY <2>2
      <3> HIDE DEF all
      <3> QED
        BY <1>1, <1>2, <3>1, FunctionIsSeq
    <2>4. ASSUME NEW n \in DOMAIN source[c], NEW x \in DOMAIN Extensions
          PROVE  \E k \in DOMAIN AllDetailPaths(c) :
                   AllDetailPaths(c)[k] = DetailPath(source[c][n].episode, x)
      <3>1. PICK k \in 1..(l * w) : ((k - 1) \div w) + 1 = n /\ ((k - 1) % w) + 1 = x
        <4>1. w \in Nat \ {0} /\ l \in Nat /\ n \in 1..l /\ x \in 1..w
          BY <1>1, <1>4
        <4>2. Lies(w, l, n, x)
          BY <4>1, PlaceOfRow
        <4> QED
          BY <4>2 DEF Lies
      <3>2. k \in DOMAIN all /\ all[k] = D(k)
        OBVIOUS
      <3>3. D(k) = DetailPath(source[c][n].episode, x)
        BY <3>1
      <3> HIDE DEF all, D
      <3> QED
        BY <1>2, <3>2, <3>3
    <2> QED
      BY <2>3, <2>4
  <1> QED
    BY <1>3, <1>4

----------------------------------------------------------------------------

\* Two lists that have nothing in common, each without repetition.
LEMMA JoinedOnce ==
    ASSUME NEW P, NEW a \in Seq(P), NEW b \in Seq(P),
           \A m, n \in DOMAIN a : a[m] = a[n] => m = n,
           \A m, n \in DOMAIN b : b[m] = b[n] => m = n,
           \A m \in DOMAIN a : \A n \in DOMAIN b : a[m] # b[n]
    PROVE  /\ a \o b \in Seq(P) /\ Len(a) <= Len(a \o b)
           /\ \A m, n \in DOMAIN (a \o b) : (a \o b)[m] = (a \o b)[n] => m = n
           /\ \A n \in DOMAIN a : (a \o b)[n] = a[n]
           /\ \A n \in DOMAIN b : \E m \in DOMAIN (a \o b) : (a \o b)[m] = b[n]
           /\ \A n \in DOMAIN (a \o b) :
                \/ \E i \in DOMAIN a : (a \o b)[n] = a[i]
                \/ \E i \in DOMAIN b : (a \o b)[n] = b[i]
  <1> DEFINE s == a \o b
  <1>1. /\ Len(a) \in Nat /\ DOMAIN a = 1..Len(a) /\ Len(b) \in Nat /\ DOMAIN b = 1..Len(b)
        /\ s \in Seq(P) /\ Len(s) = Len(a) + Len(b) /\ DOMAIN s = 1..Len(s)
    BY ConcatProperties, LenProperties
  <1>2. \A i \in 1..Len(s) : s[i] = IF i <= Len(a) THEN a[i] ELSE b[i - Len(a)]
    BY <1>1, ConcatProperties
  <1> HIDE DEF s
  <1>3. \A n \in DOMAIN a : n \in DOMAIN s /\ s[n] = a[n]
    BY <1>1, <1>2
  <1>4. \A n \in DOMAIN b : Len(a) + n \in DOMAIN s /\ s[Len(a) + n] = b[n]
    BY <1>1, <1>2
  <1>5. \A n \in DOMAIN s :
          \/ n \in DOMAIN a /\ s[n] = a[n]
          \/ n - Len(a) \in DOMAIN b /\ s[n] = b[n - Len(a)]
    BY <1>1, <1>2
  <1>6. ASSUME NEW m \in DOMAIN s, NEW n \in DOMAIN s, s[m] = s[n] PROVE m = n
    <2>1. m \in Nat /\ n \in Nat
      BY <1>1
    <2>2. CASE m \in DOMAIN a /\ n \in DOMAIN a
      BY <1>3, <1>6, <2>2
    <2>3. CASE m - Len(a) \in DOMAIN b /\ n - Len(a) \in DOMAIN b
      <3>1. m - Len(a) \in Nat /\ n - Len(a) \in Nat /\ Len(a) \in Nat
        BY <1>1, <2>3
      <3>2. s[m] = b[m - Len(a)] /\ s[n] = b[n - Len(a)]
        BY <1>1, <1>2, <2>3
      <3>3. m - Len(a) = n - Len(a)
        BY <1>6, <2>3, <3>2
      <3> QED
        BY <2>1, <3>1, <3>3
    <2> QED
      BY <1>5, <1>6, <2>2, <2>3
  <1>7. s \in Seq(P) /\ Len(a) <= Len(s)
    BY <1>1
  <1>8. \A n \in DOMAIN b : \E m \in DOMAIN s : s[m] = b[n]
    BY <1>4
  <1>9. \A n \in DOMAIN s :
          (\E i \in DOMAIN a : s[n] = a[i]) \/ (\E i \in DOMAIN b : s[n] = b[i])
    BY <1>5
  <1> QED
    BY <1>3, <1>6, <1>7, <1>8, <1>9, Zenon DEF s

LEMMA PlanSeasonsStep == ASSUME IInv, NEW c \in Calls, PlanSeasons(c) PROVE IInv'
  <1> DEFINE seasons == Missing(c, SeasonPaths(c))
             main == IF record[Of(c)] = None THEN MainPaths ELSE <<>>
  <1>1. /\ stage[c] = "keys" /\ Len(source[c]) = Len(Keyed(c))
        /\ todo' = [todo EXCEPT ![c] = main \o seasons]
        /\ stage' = [stage EXCEPT ![c] = "seasons"]
        /\ UNCHANGED <<request, ended, outcome, gate, shared, source, answer>>
    BY DEF PlanSeasons, FirstPaths
  <1>2. TypeOK /\ Of(c) \in Shows /\ outcome[c] = "busy"
    BY <1>1, CallTypes DEF IInv, GateInv
  <1>3. /\ SeasonPaths(c) \in Seq(Paths) /\ DOMAIN SeasonPaths(c) = DOMAIN source[c]
        /\ \A n \in DOMAIN source[c] : SeasonPaths(c)[n] = SeasonPath(source[c][n].episode)
    BY <1>2, SeasonPathsGive
  <1>4. /\ seasons \in Seq(Paths)
        /\ \A m, n \in DOMAIN seasons : seasons[m] = seasons[n] => m = n
        /\ \A n \in DOMAIN seasons :
             /\ seasons[n] \notin DOMAIN cached[Of(c)]
             /\ \E i \in DOMAIN SeasonPaths(c) : seasons[n] = SeasonPaths(c)[i]
        /\ \A i \in DOMAIN SeasonPaths(c) :
             \/ SeasonPaths(c)[i] \in DOMAIN cached[Of(c)]
             \/ \E n \in DOMAIN seasons : seasons[n] = SeasonPaths(c)[i]
    BY <1>3, MissingGives
  <1> HIDE DEF seasons
  <1>5. \A n \in DOMAIN seasons : \E e \in Episodes : seasons[n] = SeasonPath(e)
    BY <1>2, <1>3, <1>4, CallTypes
  <1>6. /\ main \in Seq(Paths)
        /\ \A m, n \in DOMAIN main : main[m] = main[n] => m = n
        /\ \A m \in DOMAIN main : \A n \in DOMAIN seasons : main[m] # seasons[n]
        /\ \A m \in DOMAIN main : main[m] \notin DOMAIN cached[Of(c)]
    <2>1. CASE record[Of(c)] = None
      <3>1. DOMAIN cached[Of(c)] = {}
        BY <1>2, <2>1 DEF IInv, ShowInv
      <3> QED
        BY <1>5, <2>1, <3>1, PathKinds, BatchAssumption
    <2>2. CASE record[Of(c)] # None
      BY <2>2
    <2> QED
      BY <2>1, <2>2
  <1> DEFINE plan == main \o seasons
  <1>7. /\ plan \in Seq(Paths) /\ Len(main) <= Len(plan)
        /\ \A m, n \in DOMAIN plan : plan[m] = plan[n] => m = n
        /\ \A n \in DOMAIN main : plan[n] = main[n]
        /\ \A n \in DOMAIN seasons : \E m \in DOMAIN plan : plan[m] = seasons[n]
        /\ \A n \in DOMAIN plan :
             (\E i \in DOMAIN main : plan[n] = main[i]) \/ (\E i \in DOMAIN seasons : plan[n] = seasons[i])
    <2> HIDE DEF main
    <2> QED
      BY <1>4, <1>6, JoinedOnce
  <1>8. \A n \in DOMAIN plan : plan[n] \notin DOMAIN cached[Of(c)]
    BY <1>4, <1>6, <1>7
  <1>9. record[Of(c)] = None => main = MainPaths
    OBVIOUS
  <1> HIDE DEF main, plan
  <1>10. /\ todo' \in [Calls -> Seq(Paths)] /\ todo'[c] = plan /\ stage'[c] = "seasons"
         /\ \A d \in Calls \ {c} : todo'[d] = todo[d] /\ stage'[d] = stage[d]
    BY <1>1, <1>2, <1>7 DEF TypeOK, plan
  <1>11. TypeOK'
    BY <1>1, <1>2, <1>10 DEF TypeOK, shared
  <1>12. GateInv'
    BY <1>1, <1>10 DEF IInv, GateInv, Inside
  <1>13. Planned(c)'
    BY <1>1, <1>7, <1>8, <1>9, <1>10 DEF Planned, Of, shared
  <1>14. Needs(c)'
    <2>1. ASSUME NEW n \in DOMAIN source[c]
          PROVE  \/ SeasonPath(source[c][n].episode) \in DOMAIN cached[Of(c)]
                 \/ \E m \in DOMAIN plan : plan[m] = SeasonPath(source[c][n].episode)
      BY <1>3, <1>4, <1>7
    <2> QED
      BY <1>1, <1>2, <1>10, <2>1 DEF Needs, Coming, AtHand, Of, shared
  <1>15. Placed(c)'
    BY <1>1, <1>2 DEF IInv, CallInv, Placed, Found, PlaceOf, Of, Keyed, shared
  <1>16. Matched(c)'
    BY <1>1, <1>2, <1>10 DEF Matched
  <1>17. CallInv(c)'
    BY <1>13, <1>14, <1>15, <1>16 DEF CallInv
  <1> QED
    BY <1>1, <1>10, <1>11, <1>12, <1>17, LocalStep DEF shared

\* A call that succeeds has all it needs at hand.
LEMMA SucceedStep ==
    ASSUME IInv, NEW c \in Calls, Finish(c), Return(c, "ok")
    PROVE  IInv'
  <1>1. /\ stage[c] = "details" /\ todo[c] = <<>>
        /\ UNCHANGED <<request, ended, shared, own>>
    BY DEF Finish
  <1>2. /\ GateInv' /\ gate' \in Calls \cup {None}
        /\ stage' \in [Calls -> {"gate", "keys", "seasons", "details", "over"}]
        /\ outcome' \in [Calls -> {"busy", "ok", "error", "cancelled"}]
        /\ stage'[c] = "over" /\ outcome'[c] = "ok"
        /\ \A d \in Calls \ {c} : stage'[d] = stage[d] /\ outcome'[d] = outcome[d]
    BY <1>1, ReturnKeeps DEF IInv, Inside
  <1>3. TypeOK'
    BY <1>1, <1>2 DEF IInv, TypeOK, shared, own
  <1>4. \A p : Coming(c, p) => AtHand(c, p)
    BY <1>1 DEF Coming
  <1>5. Needs(c)'
    BY <1>1, <1>2, <1>4 DEF IInv, CallInv, Needs, AtHand, Of, shared, own
  <1>6. Placed(c)'
    BY <1>1, <1>2 DEF IInv, CallInv, Placed, Found, PlaceOf, Of, Keyed, shared, own, Asking
  <1>7. Matched(c)'
    BY <1>1 DEF IInv, CallInv, Matched, ListOf, Of, shared, own
  <1>8. CallInv(c)'
    BY <1>2, <1>5, <1>6, <1>7 DEF CallInv, Planned, Asking
  <1> QED
    BY <1>1, <1>2, <1>3, <1>8, LocalStep DEF shared, own

\* One whose answer is refused in the end fails like any other.
LEMMA FinishStep == ASSUME IInv, NEW c \in Calls, Finish(c) PROVE IInv'
  <1>1. CASE Return(c, "error")
    BY <1>1, LeaveStep DEF Finish, Inside
  <1>2. CASE Return(c, "ok")
    BY <1>2, SucceedStep
  <1> QED
    BY <1>1, <1>2 DEF Finish, Conclude

\* Every wanted episode has its one row: the details follow, or the end.
LEMMA MatchStep == ASSUME IInv, NEW c \in Calls, Match(c) PROVE IInv'
  <1> DEFINE found == {ids \in [DOMAIN source[c] -> Ids] :
                         \A n \in DOMAIN source[c] :
                           Answers(ListOf(c, source[c][n]), source[c][n], ids[n])}
             Gives(ids) == answer' = [answer EXCEPT ![c] = ids]
  <1>1. /\ stage[c] = "seasons" /\ todo[c] = <<>> /\ stage[c] \in Inside
        /\ UNCHANGED <<request, ended, shared, source>>
    BY DEF Match, Inside
  <1>2. TypeOK /\ GateInv /\ Of(c) \in Shows /\ outcome[c] = "busy"
    BY <1>1, CallTypes DEF IInv, GateInv
  <1>3. CASE found = {} /\ Return(c, "error") /\ UNCHANGED <<todo, answer>>
    BY <1>1, <1>3, LeaveStep DEF own
  <1>4. \A n \in DOMAIN source[c] : AtHand(c, SeasonPath(source[c][n].episode))
    BY <1>1 DEF IInv, CallInv, Needs, Coming
  <1>5. record[Of(c)] # None
    <2>1. Len(todo[c]) = 0
      BY <1>1
    <2>2. Planned(c)
      BY DEF IInv, CallInv
    <2> QED
      BY <1>1, <2>1, <2>2, PathKinds DEF Planned, Asking
  <1>6. Len(source[c]) = Len(Keyed(c))
    BY <1>1 DEF IInv, CallInv, Placed, Asking
  <1>7. ASSUME NEW ids \in found
        PROVE  /\ ids \in Seq(Ids)
               /\ \A n \in DOMAIN source[c] :
                    Answers(ListOf(c, source[c][n]), source[c][n], ids[n])
    <2>1. Len(source[c]) \in Nat /\ DOMAIN source[c] = 1..Len(source[c])
      BY <1>2, CallTypes
    <2> QED
      BY <2>1, FunctionIsSeq
  <1>8. ASSUME NEW ids \in found, Gives(ids),
               Placed(c)', Needs(c)', Planned(c)', TypeOK', GateInv', UNCHANGED <<request, shared, source>>,
               \A d \in Calls \ {c} :
                 stage'[d] = stage[d] /\ outcome'[d] = outcome[d] /\ todo'[d] = todo[d]
        PROVE  IInv'
    <2>1. answer'[c] = ids /\ \A d \in Calls \ {c} : answer'[d] = answer[d]
      BY <1>2, <1>8 DEF TypeOK
    <2>2. Matched(c)'
      BY <1>7, <1>8, <2>1 DEF Matched, ListOf, Of, shared
    <2>3. CallInv(c)'
      BY <1>8, <2>2 DEF CallInv
    <2> QED
      BY <1>8, <2>1, <2>3, LocalStep DEF shared
  <1>9. ASSUME NEW ids \in found, Gives(ids), request[c].details,
               stage' = [stage EXCEPT ![c] = "details"],
               todo' = [todo EXCEPT ![c] = Missing(c, AllDetailPaths(c))],
               UNCHANGED <<outcome, gate>>
        PROVE  IInv'
    <2> DEFINE plan == Missing(c, AllDetailPaths(c))
    <2>1. /\ AllDetailPaths(c) \in Seq(Paths)
          /\ \A n \in DOMAIN source[c] : \A x \in DOMAIN Extensions :
               \E k \in DOMAIN AllDetailPaths(c) :
                 AllDetailPaths(c)[k] = DetailPath(source[c][n].episode, x)
      BY <1>2, DetailPathsGive
    <2>2. /\ plan \in Seq(Paths)
          /\ \A m, n \in DOMAIN plan : plan[m] = plan[n] => m = n
          /\ \A n \in DOMAIN plan : plan[n] \notin DOMAIN cached[Of(c)]
          /\ \A i \in DOMAIN AllDetailPaths(c) :
               \/ AllDetailPaths(c)[i] \in DOMAIN cached[Of(c)]
               \/ \E n \in DOMAIN plan : plan[n] = AllDetailPaths(c)[i]
      BY <2>1, MissingGives
    <2>3. todo' = [todo EXCEPT ![c] = plan]
      BY <1>9
    <2> HIDE DEF plan, found
    <2>4. /\ todo' \in [Calls -> Seq(Paths)] /\ todo'[c] = plan /\ stage'[c] = "details"
          /\ \A d \in Calls \ {c} : todo'[d] = todo[d] /\ stage'[d] = stage[d]
      BY <1>2, <1>9, <2>2, <2>3 DEF TypeOK
    <2>5. answer' \in [Calls -> Seq(Ids)]
      BY <1>2, <1>7, <1>9 DEF TypeOK
    <2>6. TypeOK'
      BY <1>1, <1>2, <1>9, <2>4, <2>5 DEF TypeOK, shared
    <2>7. GateInv'
      BY <1>1, <1>2, <1>9, <2>4 DEF GateInv, Inside
    <2>8. Planned(c)'
      BY <1>1, <1>5, <2>2, <2>4 DEF Planned, Of, shared
    <2>9. Needs(c)'
      <3>1. ASSUME NEW n \in DOMAIN source[c], NEW x \in DOMAIN Extensions
            PROVE  Coming(c, DetailPath(source[c][n].episode, x))'
        BY <1>1, <2>1, <2>2, <2>4 DEF Coming, AtHand, Of, shared
      <3> QED
        BY <1>1, <1>2, <1>4, <1>9, <2>4, <3>1 DEF Needs, AtHand, Of, shared
    <2>10. Placed(c)'
      BY <1>1, <1>6 DEF IInv, CallInv, Placed, Found, PlaceOf, Of, Keyed, shared
    <2> QED
      BY <1>1, <1>8, <1>9, <2>4, <2>6, <2>7, <2>8, <2>9, <2>10
  <1>10. ASSUME NEW ids \in found, Gives(ids), ~request[c].details,
                NEW how \in {"ok", "error"}, Return(c, how), UNCHANGED todo
         PROVE  IInv'
    <2> HIDE DEF found
    <2>1. /\ GateInv' /\ gate' \in Calls \cup {None}
          /\ stage' \in [Calls -> {"gate", "keys", "seasons", "details", "over"}]
          /\ outcome' \in [Calls -> {"busy", "ok", "error", "cancelled"}]
          /\ stage'[c] = "over" /\ outcome'[c] = how
          /\ \A d \in Calls \ {c} : stage'[d] = stage[d] /\ outcome'[d] = outcome[d]
      BY <1>1, <1>2, <1>10, ReturnKeeps
    <2>2. answer' \in [Calls -> Seq(Ids)]
      BY <1>2, <1>7, <1>10 DEF TypeOK
    <2>3. TypeOK'
      BY <1>1, <1>2, <1>10, <2>1, <2>2 DEF TypeOK, shared
    <2>4. Planned(c)'
      BY <2>1 DEF Planned, Asking
    <2>5. Needs(c)'
      BY <1>1, <1>4, <1>10, <2>1 DEF Needs, AtHand, Of, shared
    <2>6. Placed(c)'
      BY <1>1, <1>6 DEF IInv, CallInv, Placed, Found, PlaceOf, Of, Keyed, shared
    <2> QED
      BY <1>1, <1>8, <1>10, <2>1, <2>3, <2>4, <2>5, <2>6
  <1> QED
    BY <1>3, <1>9, <1>10 DEF Match, Conclude

----------------------------------------------------------------------------

\* A batch is the first part of what is still to ask for.
LEMMA BatchGives ==
    ASSUME TypeOK, NEW c \in Calls, todo[c] # <<>>
    PROVE  LET k == Len(Batch(c))
               rest == SubSeq(todo[c], k + 1, Len(todo[c]))
           IN  /\ k \in 1..Len(todo[c]) /\ k = (IF Len(todo[c]) < MaxAppendedPaths THEN Len(todo[c])
                                                ELSE MaxAppendedPaths)
               /\ Batch(c) \in Seq(Paths) /\ DOMAIN Batch(c) = 1..k
               /\ \A n \in 1..k : Batch(c)[n] = todo[c][n]
               /\ rest \in Seq(Paths) /\ DOMAIN rest = 1..(Len(todo[c]) - k)
               /\ \A n \in DOMAIN rest : rest[n] = todo[c][k + n]
  <1> DEFINE t == todo[c]
             j == IF Len(t) < MaxAppendedPaths THEN Len(t) ELSE MaxAppendedPaths
             rest == SubSeq(t, j + 1, Len(t))
  <1>1. t \in Seq(Paths) /\ Len(t) \in Nat \ {0} /\ \A i \in 1..Len(t) : t[i] \in Paths
    BY CallTypes, EmptySeq
  <1>2. j \in 1..Len(t)
    BY <1>1, BatchAssumption
  <1>3. Batch(c) = SubSeq(t, 1, j)
    BY DEF Batch
  <1> HIDE DEF t, j
  <1>4. /\ SubSeq(t, 1, j) \in Seq(Paths) /\ Len(SubSeq(t, 1, j)) = j
        /\ \A i \in 1..j : SubSeq(t, 1, j)[i] = t[i]
    <2>1. 1 \in Int /\ j \in Int /\ \A i \in 1..j : t[i] \in Paths
      BY <1>1, <1>2
    <2>2. /\ SubSeq(t, 1, j) \in Seq(Paths)
          /\ Len(SubSeq(t, 1, j)) = IF 1 <= j THEN j - 1 + 1 ELSE 0
          /\ \A i \in 1..(j - 1 + 1) : SubSeq(t, 1, j)[i] = t[1 + i - 1]
      BY <2>1, SubSeqProperties
    <2>3. j - 1 + 1 = j /\ 1 <= j /\ \A i \in 1..j : 1 + i - 1 = i
      BY <1>1, <1>2
    <2> QED
      BY <2>2, <2>3
  <1>5. /\ rest \in Seq(Paths) /\ Len(rest) = Len(t) - j
        /\ \A i \in 1..(Len(t) - j) : rest[i] = t[j + i]
    <2>1. j + 1 \in Int /\ Len(t) \in Int /\ \A i \in (j + 1)..Len(t) : t[i] \in Paths
      BY <1>1, <1>2
    <2>2. /\ rest \in Seq(Paths)
          /\ Len(rest) = IF j + 1 <= Len(t) THEN Len(t) - (j + 1) + 1 ELSE 0
          /\ \A i \in 1..(Len(t) - (j + 1) + 1) : rest[i] = t[j + 1 + i - 1]
      BY <2>1, SubSeqProperties
    <2>3. /\ Len(t) - (j + 1) + 1 = Len(t) - j
          /\ (IF j + 1 <= Len(t) THEN Len(t) - (j + 1) + 1 ELSE 0) = Len(t) - j
          /\ \A i \in 1..(Len(t) - j) : j + 1 + i - 1 = j + i
      BY <1>1, <1>2
    <2> HIDE DEF rest
    <2> QED
      BY <2>2, <2>3
  <1>6. DOMAIN rest = 1..(Len(t) - j) /\ DOMAIN SubSeq(t, 1, j) = 1..j
    BY <1>4, <1>5, LenProperties
  <1>7. Len(Batch(c)) = j
    BY <1>3, <1>4
  <1> QED
    BY <1>1, <1>2, <1>3, <1>4, <1>5, <1>6, <1>7 DEF t, j

\* Received: a batch is at hand, and nothing that was at hand has changed.
LEMMA ReceivedStep ==
    ASSUME IInv, NEW c \in Calls, stage[c] \in Asking, todo[c] # <<>>,
           NEW got \in [Range(Batch(c)) -> UNION {Objects(p) : p \in Range(Batch(c))}],
           \A p \in Range(Batch(c)) : got[p] \in Objects(p),
           cached' = [cached EXCEPT ![Of(c)] =
               [p \in Range(Batch(c)) \cup DOMAIN @ |-> IF p \in Range(Batch(c)) THEN got[p] ELSE @[p]]],
           record' = [record EXCEPT ![Of(c)] = IF @ = None THEN Range(Batch(c)) ELSE @],
           arrived' = [arrived EXCEPT ![Of(c)] =
               [p \in Paths |-> IF p \in Range(Batch(c)) THEN @[p] + 1 ELSE @[p]]],
           todo' = [todo EXCEPT ![c] = SubSeq(@, Len(Batch(c)) + 1, Len(@))],
           UNCHANGED <<request, stage, ended, outcome, gate, groups, source, answer>>
    PROVE  IInv'
  <1> DEFINE s == Of(c)
             B == Range(Batch(c))
             k == Len(Batch(c))
             t == todo[c]
             rest == SubSeq(t, k + 1, Len(t))
  <1>1. TypeOK /\ GateInv /\ s \in Shows /\ outcome[c] = "busy" /\ gate = c
    BY CallTypes DEF IInv, GateInv, Asking, Inside
  <1>2. /\ Len(t) \in Nat /\ DOMAIN t = 1..Len(t) /\ k \in 1..Len(t)
        /\ k = (IF Len(t) < MaxAppendedPaths THEN Len(t) ELSE MaxAppendedPaths)
        /\ Batch(c) \in Seq(Paths) /\ DOMAIN Batch(c) = 1..k
        /\ \A n \in 1..k : Batch(c)[n] = t[n]
        /\ rest \in Seq(Paths) /\ DOMAIN rest = 1..(Len(t) - k)
        /\ \A n \in DOMAIN rest : rest[n] = t[k + n]
    BY <1>1, BatchGives, CallTypes
  <1>3. /\ \A m, n \in DOMAIN t : t[m] = t[n] => m = n
        /\ \A n \in DOMAIN t : t[n] \notin DOMAIN cached[s]
        /\ record[s] = None =>
             Len(MainPaths) <= Len(t) /\ \A n \in DOMAIN MainPaths : t[n] = MainPaths[n]
    BY DEF IInv, CallInv, Planned
  <1>4. /\ \A n \in 1..k : t[n] \in B
        /\ \A p \in B : \E n \in 1..k : p = t[n]
        /\ \A p \in B : p \in Paths /\ p \notin DOMAIN cached[s]
    <2>1. B = {Batch(c)[n] : n \in 1..k}
      BY <1>2 DEF Range
    <2> HIDE DEF B, k, t, rest, s
    <2>2. (\A n \in 1..k : t[n] \in B) /\ (\A p \in B : \E n \in 1..k : p = t[n])
      BY <1>2, <2>1
    <2>3. \A n \in 1..k : Batch(c)[n] \in Paths /\ n \in DOMAIN t
      BY <1>2
    <2> QED
      BY <1>2, <1>3, <2>2, <2>3
  <1> HIDE DEF s, B, t, k, rest
  <1>5. /\ cached' = [q \in Shows |-> cached'[q]]
        /\ DOMAIN cached'[s] = B \cup DOMAIN cached[s]
        /\ \A p \in B : cached'[s][p] = got[p]
        /\ \A p \in DOMAIN cached[s] : cached'[s][p] = cached[s][p]
        /\ \A q \in Shows : q # s => cached'[q] = cached[q]
    <2>1. cached' = [cached EXCEPT ![s] =
            [p \in B \cup DOMAIN cached[s] |-> IF p \in B THEN got[p] ELSE cached[s][p]]]
      BY DEF s, B
    <2>2. cached = [q \in Shows |-> cached[q]]
      BY <1>1 DEF TypeOK
    <2>3. cached' = [q \in Shows |->
            IF q = s THEN [p \in B \cup DOMAIN cached[s] |-> IF p \in B THEN got[p] ELSE cached[s][p]]
                     ELSE cached[q]]
      BY <1>1, <2>1, <2>2
    <2> DEFINE f == [p \in B \cup DOMAIN cached[s] |-> IF p \in B THEN got[p] ELSE cached[s][p]]
    <2>4. /\ DOMAIN f = B \cup DOMAIN cached[s] /\ \A p \in B : f[p] = got[p]
          /\ \A p \in DOMAIN cached[s] : f[p] = cached[s][p]
      BY <1>4
    <2>5. cached' = [q \in Shows |-> IF q = s THEN f ELSE cached[q]]
      BY <2>3
    <2> HIDE DEF f
    <2>6. cached'[s] = f /\ \A q \in Shows : q # s => cached'[q] = cached[q]
      BY <1>1, <2>5
    <2>7. cached' = [q \in Shows |-> cached'[q]]
      BY <2>5
    <2> QED
      BY <2>4, <2>6, <2>7
  <1>6. /\ record' \in [Shows -> {None} \cup SUBSET Paths] /\ record'[s] # None
        /\ record'[s] = (IF record[s] = None THEN B ELSE record[s])
        /\ \A q \in Shows : q # s => record'[q] = record[q]
    <2>1. B \in SUBSET Paths
      BY <1>4
    <2> QED
      BY <1>1, <2>1, NamesAssumption DEF TypeOK, s, B
  <1>7. /\ arrived' \in [Shows -> [Paths -> Nat]]
        /\ \A p \in Paths : arrived'[s][p] = (IF p \in B THEN arrived[s][p] + 1 ELSE arrived[s][p])
        /\ \A q \in Shows : q # s => arrived'[q] = arrived[q]
    BY <1>1 DEF TypeOK, s, B
  <1>8. /\ todo' \in [Calls -> Seq(Paths)] /\ todo'[c] = rest
        /\ \A d \in Calls \ {c} : todo'[d] = todo[d]
    BY <1>1, <1>2 DEF TypeOK, t, k, rest
  <1>9. TypeOK'
    <2>1. ASSUME NEW q \in Shows
          PROVE  DOMAIN cached'[q] \subseteq Paths /\ cached'[q] \in [DOMAIN cached'[q] -> Piece]
      <3>1. DOMAIN cached[q] \subseteq Paths /\ cached[q] \in [DOMAIN cached[q] -> Piece]
        BY <1>1 DEF TypeOK
      <3>2. CASE q # s
        BY <1>5, <3>1, <3>2
      <3>3. CASE q = s
        <4>1. \A p \in B : got[p] \in Piece
          BY DEF Objects, Piece, B
        <4>2. \A p \in DOMAIN cached'[s] : p \in Paths /\ cached'[s][p] \in Piece
          BY <1>4, <1>5, <3>1, <3>3, <4>1
        <4>3. cached'[s] = [p \in DOMAIN cached'[s] |-> cached'[s][p]]
          <5>1. cached' = [cached EXCEPT ![s] =
                  [p \in B \cup DOMAIN cached[s] |-> IF p \in B THEN got[p] ELSE cached[s][p]]]
            BY DEF s, B
          <5>2. cached = [r \in Shows |-> cached[r]]
            BY <1>1 DEF TypeOK
          <5>3. cached'[s] = [p \in B \cup DOMAIN cached[s] |-> IF p \in B THEN got[p] ELSE cached[s][p]]
            BY <1>1, <5>1, <5>2
          <5> QED
            BY <5>3
        <4> QED
          BY <3>3, <4>2, <4>3
      <3> QED
        BY <3>2, <3>3
    <2> QED
      BY <1>1, <1>5, <1>6, <1>7, <1>8, <2>1 DEF TypeOK
  <1>10. GateInv'
    BY <1>1 DEF GateInv
  <1>11. ShowInv'
    <2> SUFFICES ASSUME NEW q \in Shows, record'[q] = None PROVE DOMAIN cached'[q] = {}
      BY DEF ShowInv
    <2>1. q # s
      BY <1>6
    <2> QED
      BY <1>5, <1>6, <2>1 DEF IInv, ShowInv
  <1>12. AskedOnce'
    <2> SUFFICES ASSUME NEW q \in Shows, NEW p \in Paths
                 PROVE  arrived'[q][p] = (IF p \in DOMAIN cached'[q] THEN 1 ELSE 0)
      BY DEF AskedOnce
    <2>1. arrived[q][p] = (IF p \in DOMAIN cached[q] THEN 1 ELSE 0)
      BY DEF IInv, AskedOnce
    <2>2. CASE q # s
      BY <1>5, <1>7, <2>1, <2>2
    <2>3. CASE q = s /\ p \in B
      BY <1>4, <1>5, <1>7, <2>1, <2>3
    <2>4. CASE q = s /\ p \notin B
      BY <1>5, <1>7, <2>1, <2>4
    <2> QED
      BY <2>2, <2>3, <2>4
  <1>13. RecordWhole'
    <2> SUFFICES ASSUME NEW q \in Shows, record'[q] # None PROVE Range(MainPaths) \subseteq record'[q]
      BY DEF RecordWhole
    <2>1. CASE q # s \/ record[q] # None
      BY <1>6, <2>1 DEF IInv, RecordWhole
    <2>2. CASE q = s /\ record[q] = None
      <3>1. Len(MainPaths) <= k
        BY <1>2, <1>3, <2>2, BatchAssumption, PathKinds
      <3>2. ASSUME NEW n \in DOMAIN MainPaths PROVE MainPaths[n] \in B
        <4>1. n \in 1..k
          BY <1>2, <3>1, PathKinds
        <4> QED
          BY <1>3, <1>4, <2>2, <4>1
      <3> QED
        BY <1>6, <2>2, <3>2 DEF Range
    <2> QED
      BY <2>1, <2>2
  <1>14. ASSUME NEW d \in Calls, d # c PROVE CallInv(d)'
    <2>1. stage[d] \notin Asking
      BY <1>1, <1>14 DEF GateInv, Inside, Asking
    <2>2. Of(d) \in Shows /\ CallInv(d)
      BY <1>1, CallTypes DEF IInv
    <2>3. \A p \in DOMAIN cached[Of(d)] :
            p \in DOMAIN cached'[Of(d)] /\ cached'[Of(d)][p] = cached[Of(d)][p]
      <3>1. CASE Of(d) = s
        BY <1>5, <3>1
      <3>2. CASE Of(d) # s
        BY <1>5, <2>2, <3>2
      <3> QED
        BY <3>1, <3>2
    <2> QED
      BY <1>1, <1>8, <1>14, <2>1, <2>2, <2>3, OthersKeep
  <1>15. CallInv(c)'
    <2>1. /\ Of(c)' = s /\ Keyed(c)' = Keyed(c)
          /\ stage'[c] = stage[c] /\ source'[c] = source[c] /\ stage[c] \in Asking
      BY DEF Of, Keyed, s
    <2>2. Planned(c)'
      <3>1. \A m, n \in DOMAIN rest : rest[m] = rest[n] => m = n
        <4> SUFFICES ASSUME NEW m \in DOMAIN rest, NEW n \in DOMAIN rest, rest[m] = rest[n]
                     PROVE  m = n
          OBVIOUS
        <4>1. m \in Nat /\ n \in Nat /\ k \in Nat /\ k + m \in DOMAIN t /\ k + n \in DOMAIN t
          BY <1>2
        <4>2. k + m = k + n
          BY <1>2, <1>3, <4>1
        <4> QED
          BY <4>1, <4>2
      <3>2. \A n \in DOMAIN rest : rest[n] \notin DOMAIN cached'[s]
        <4> SUFFICES ASSUME NEW n \in DOMAIN rest, rest[n] \in DOMAIN cached'[s] PROVE FALSE
          OBVIOUS
        <4>1. k \in Nat /\ n \in Nat \ {0} /\ k + n \in DOMAIN t /\ rest[n] = t[k + n]
          BY <1>2
        <4>2. t[k + n] \in B
          BY <1>3, <1>5, <4>1
        <4>3. PICK m \in 1..k : t[k + n] = t[m]
          BY <1>4, <4>2
        <4>4. m = k + n /\ m \in Nat /\ m <= k
          BY <1>2, <1>3, <4>1, <4>3
        <4> QED
          BY <4>1, <4>4
      <3> QED
        BY <1>6, <1>8, <2>1, <3>1, <3>2 DEF Planned
    <2>3. ASSUME NEW p, AtHand(c, p) PROVE AtHand(c, p)'
      BY <1>5, <2>1, <2>3 DEF AtHand, s
    <2>4. ASSUME NEW p, Coming(c, p) PROVE Coming(c, p)'
      <3>1. CASE AtHand(c, p)
        BY <2>3, <3>1 DEF Coming
      <3>2. ASSUME NEW m \in DOMAIN t, t[m] = p PROVE Coming(c, p)'
        <4>1. m \in Nat /\ k \in Nat /\ Len(t) \in Nat
          BY <1>2
        <4>2. CASE m <= k
          BY <1>2, <1>4, <1>5, <2>1, <3>2, <4>1, <4>2 DEF Coming, AtHand
        <4>3. CASE k < m
          <5>1. m - k \in DOMAIN rest /\ k + (m - k) = m
            BY <1>2, <4>1, <4>3
          <5>2. rest[m - k] = p
            BY <1>2, <3>2, <5>1
          <5> QED
            BY <1>8, <5>1, <5>2 DEF Coming
        <4> QED
          BY <4>1, <4>2, <4>3
      <3> QED
        BY <2>4, <3>1, <3>2 DEF Coming, t
    <2>5. Needs(c)'
      BY <1>1, <2>1, <2>3, <2>4 DEF IInv, CallInv, Needs
    <2>6. Placed(c)'
      BY <2>1 DEF IInv, CallInv, Placed, Found, PlaceOf, s
    <2>7. Matched(c)'
      <3> SUFFICES ASSUME stage[c] = "details", NEW n \in DOMAIN source[c]
                   PROVE  Answers(ListOf(c, source[c][n])', source[c][n], answer[c][n])
        BY <1>1, <2>1 DEF IInv, CallInv, Matched
      <3>1. Answers(ListOf(c, source[c][n]), source[c][n], answer[c][n])
        BY DEF IInv, CallInv, Matched
      <3>2. AtHand(c, SeasonPath(source[c][n].episode))
        BY DEF IInv, CallInv, Needs
      <3>3. ListOf(c, source[c][n])' = ListOf(c, source[c][n])
        BY <1>5, <2>1, <3>2 DEF ListOf, AtHand, s
      <3> QED
        BY <3>1, <3>3
    <2> QED
      BY <2>2, <2>5, <2>6, <2>7 DEF CallInv
  <1> QED
    BY <1>9, <1>10, <1>11, <1>12, <1>13, <1>14, <1>15 DEF IInv

LEMMA ReceiveStep == ASSUME IInv, NEW c \in Calls, Receive(c) PROVE IInv'
  <1>1. CASE Fails(c) /\ UNCHANGED <<record, cached, arrived, todo>>
    <2>1. stage[c] \in Inside /\ UNCHANGED <<request, ended, shared, own>>
      BY <1>1 DEF Receive, Inside, shared, own
    <2> QED
      BY <1>1, <2>1, FailsHow, LeaveStep
  <1>2. CASE ~(Fails(c) /\ UNCHANGED <<record, cached, arrived, todo>>)
    <2>1. stage[c] \in Asking /\ todo[c] # <<>> /\ UNCHANGED <<request, ended, groups, source, answer>>
      BY DEF Receive, Asking
    <2> QED
      BY <1>2, <2>1, ReceivedStep DEF Receive
  <1> QED
    BY <1>1, <1>2

----------------------------------------------------------------------------

LEMMA Begin == Init => IInv
  <1> SUFFICES ASSUME Init PROVE IInv
    OBVIOUS
  <1>1. /\ request \in Loads /\ stage = [c \in Calls |-> "gate"] /\ ended = [c \in Calls |-> FALSE]
        /\ outcome = [c \in Calls |-> "busy"] /\ gate = None
        /\ record = [s \in Shows |-> None] /\ cached = [s \in Shows |-> <<>>]
        /\ groups = [s \in Shows |-> [g \in Groups |-> None]]
        /\ source = [c \in Calls |-> <<>>] /\ todo = [c \in Calls |-> <<>>]
        /\ answer = [c \in Calls |-> <<>>]
        /\ arrived = [s \in Shows |-> [p \in Paths |-> 0]]
    BY DEF Init
  <1>2. DOMAIN <<>> = {} /\ Len(<<>>) = 0
    OBVIOUS
  <1>3. \A c \in Calls : Len(source[c]) <= Len(request[c].keys)
    <2> SUFFICES ASSUME NEW c \in Calls PROVE Len(source[c]) <= Len(request[c].keys)
      OBVIOUS
    <2>1. request[c].keys \in Seq(Keys)
      BY <1>1, LoadsAssumption DEF Request
    <2>2. Len(request[c].keys) \in Nat
      BY <2>1
    <2> QED
      BY <1>1, <1>2, <2>2
  <1>4. \A s \in Shows :
          DOMAIN cached[s] \subseteq Paths /\ cached[s] \in [DOMAIN cached[s] -> Piece]
    BY <1>1, <1>2
  <1>5. cached = [s \in Shows |-> cached[s]]
    BY <1>1
  <1>6. source \in [Calls -> Seq(Source)] /\ todo \in [Calls -> Seq(Paths)] /\ answer \in [Calls -> Seq(Ids)]
    BY <1>1
  <1>7. TypeOK
    BY <1>1, <1>3, <1>4, <1>5, <1>6 DEF TypeOK
  <1>8. GateInv
    BY <1>1, NamesAssumption DEF GateInv, Inside
  <1>9. ShowInv /\ AskedOnce /\ RecordWhole
    BY <1>1, <1>2 DEF ShowInv, AskedOnce, RecordWhole
  <1>10. \A c \in Calls : CallInv(c)
    BY <1>1, <1>2 DEF CallInv, Planned, Needs, Placed, Matched, Asking
  <1> QED
    BY <1>7, <1>8, <1>9, <1>10 DEF IInv

LEMMA Steps == IInv /\ [Next]_vars => IInv'
  <1> SUFFICES ASSUME IInv, [Next]_vars PROVE IInv'
    OBVIOUS
  <1>1. ASSUME NEW c \in Calls, Step(c) PROVE IInv'
    BY <1>1, EnterStep, TurnAwayStep, PlaceKeyStep, ReadGroupStep, PlanSeasonsStep,
       ReceiveStep, MatchStep, FinishStep DEF Step
  <1>2. ASSUME NEW c \in Calls, EndContext(c) PROVE IInv'
    BY <1>2, EndContextStep
  <1>3. CASE UNCHANGED vars
    <2>1. UNCHANGED <<request, stage, ended, outcome, gate, record, cached, groups, arrived,
                      source, todo, answer>>
      BY <1>3 DEF vars, shared, own
    <2>2. TypeOK' /\ GateInv' /\ ShowInv' /\ AskedOnce' /\ RecordWhole'
      BY <2>1 DEF IInv, TypeOK, GateInv, ShowInv, AskedOnce, RecordWhole
    <2>3. ASSUME NEW d \in Calls PROVE CallInv(d)'
      BY <2>1, CallTypes, OthersKeep DEF IInv
    <2> QED
      BY <2>2, <2>3 DEF IInv
  <1> QED
    BY <1>1, <1>2, <1>3 DEF Next

\* The inductive invariant: who is inside, what is still to ask for, and where
\* what is needed stands, of every call at once.
THEOREM Inductive == Spec => []IInv
  BY Begin, Steps, PTL DEF Spec

\* Every variable keeps its type; in particular a piece at hand is a list or an
\* object that was looked at before it was kept (requestSeriesPaths, 233-246).
THEOREM TypeCorrect == Spec => []TypeOK
  <1>1. IInv => TypeOK
    BY DEF IInv
  <1> QED
    BY <1>1, Inductive, PTL

OneInside == \A c, d \in Calls : stage[c] \in Inside /\ stage[d] \in Inside => c = d

\* At most one call at a time is between the gate and its return, although the
\* gate is given up on nine different ways out (53-61).
THEOREM Exclusive == Spec => []OneInside
  <1>1. IInv => OneInside
    BY DEF IInv, GateInv, OneInside
  <1> QED
    BY <1>1, Inductive, PTL

\* No piece is received twice for a show, whatever calls come in whatever order
\* and wherever they fail.
THEOREM Once == Spec => []AskedOnce
  <1>1. IInv => AskedOnce
    BY DEF IInv
  <1> QED
    BY <1>1, Inductive, PTL

\* Every record was read together with all the pieces its fields come from.
THEOREM WholeRecords == Spec => []RecordWhole
  <1>1. IInv => RecordWhole
    BY DEF IInv
  <1> QED
    BY <1>1, Inductive, PTL

\* What a call told is what the group and the season list say, then and for ever.
THEOREM AnswersStand == Spec => []AnswersAgree
  <1>1. IInv => AnswersAgree
    <2> SUFFICES ASSUME IInv, NEW c \in Calls, outcome[c] = "ok", NEW n \in DOMAIN Keyed(c)
                 PROVE  LET place == PlaceOf(c, Keyed(c)[n])
                            page == ListOf(c, place)
                        IN  /\ RowsOf(page, place.episode) = {<<place.episode, answer[c][n]>>}
                            /\ page.season = SeasonOf[place.episode]
                            /\ place.id # None => place.id = answer[c][n]
      BY DEF AnswersAgree
    <2>1. n \in DOMAIN source[c]
      <3>1. Len(source[c]) = Len(Keyed(c))
        BY DEF IInv, CallInv, Placed
      <3> QED
        BY <3>1, CallTypes DEF IInv
    <2>2. source[c][n] = PlaceOf(c, Keyed(c)[n])
      BY <2>1 DEF IInv, CallInv, Placed
    <2>3. Answers(ListOf(c, source[c][n]), source[c][n], answer[c][n])
      BY <2>1 DEF IInv, CallInv, Matched
    <2> QED
      BY <2>2, <2>3 DEF Answers, Coordinate
  <1> QED
    BY <1>1, Inductive, PTL

DetailsAtHand ==
    \A c \in Calls : outcome[c] = "ok" /\ request[c].details =>
        \A n \in DOMAIN Keyed(c) : \A x \in DOMAIN Extensions :
            DetailPath(PlaceOf(c, Keyed(c)[n]).episode, x) \in DOMAIN cached[Of(c)]

\* A call that was asked for details and succeeds reads no piece that is not
\* there (190-201).
THEOREM DetailsThere == Spec => []DetailsAtHand
  <1>1. IInv => DetailsAtHand
    <2> SUFFICES ASSUME IInv, NEW c \in Calls, outcome[c] = "ok", request[c].details,
                        NEW n \in DOMAIN Keyed(c), NEW x \in DOMAIN Extensions
                 PROVE  DetailPath(PlaceOf(c, Keyed(c)[n]).episode, x) \in DOMAIN cached[Of(c)]
      BY DEF DetailsAtHand
    <2>1. n \in DOMAIN source[c]
      <3>1. Len(source[c]) = Len(Keyed(c))
        BY DEF IInv, CallInv, Placed
      <3> QED
        BY <3>1, CallTypes DEF IInv
    <2>2. source[c][n] = PlaceOf(c, Keyed(c)[n])
      BY <2>1 DEF IInv, CallInv, Placed
    <2> QED
      BY <2>1, <2>2 DEF IInv, CallInv, Needs, AtHand
  <1> QED
    BY <1>1, Inductive, PTL

----------------------------------------------------------------------------

Kept ==
    \A s \in Shows :
        /\ record[s] # None => record'[s] = record[s]
        /\ \A p \in DOMAIN cached[s] : p \in DOMAIN cached'[s] /\ cached'[s][p] = cached[s][p]
        /\ \A g \in Groups : groups[s][g] # None => groups'[s][g] = groups[s][g]

LEMMA ReceiveLearns == ASSUME IInv, NEW c \in Calls, Receive(c) PROVE Kept
  <1>1. CASE UNCHANGED <<record, cached, groups>>
    BY <1>1 DEF Kept
  <1>2. CASE ~UNCHANGED <<record, cached, groups>>
    <2> DEFINE s == Of(c)
               B == Range(Batch(c))
    <2>1. PICK got \in [B -> UNION {Objects(p) : p \in B}] :
            cached' = [cached EXCEPT ![s] =
              [p \in B \cup DOMAIN @ |-> IF p \in B THEN got[p] ELSE @[p]]]
      BY <1>2 DEF Receive
    <2>2. /\ record' = [record EXCEPT ![s] = IF @ = None THEN B ELSE @]
          /\ UNCHANGED groups /\ stage[c] \in Asking /\ todo[c] # <<>>
      BY <1>2 DEF Receive, Asking
    <2>3. TypeOK /\ s \in Shows
      BY CallTypes DEF IInv
    <2>4. \A p \in B : p \notin DOMAIN cached[s]
      <3>1. /\ DOMAIN todo[c] = 1..Len(todo[c]) /\ Len(todo[c]) \in Nat
            /\ Len(Batch(c)) \in 1..Len(todo[c]) /\ DOMAIN Batch(c) = 1..Len(Batch(c))
            /\ \A n \in 1..Len(Batch(c)) : Batch(c)[n] = todo[c][n]
        BY <2>2, <2>3, BatchGives, CallTypes
      <3>2. \A n \in DOMAIN todo[c] : todo[c][n] \notin DOMAIN cached[s]
        BY <2>2 DEF IInv, CallInv, Planned
      <3> QED
        BY <3>1, <3>2 DEF Range
    <2> HIDE DEF s, B
    <2>5. cached = [q \in Shows |-> cached[q]]
      BY <2>3 DEF TypeOK
    <2> DEFINE f == [p \in B \cup DOMAIN cached[s] |-> IF p \in B THEN got[p] ELSE cached[s][p]]
    <2>6. \A p \in DOMAIN cached[s] : p \in DOMAIN f /\ f[p] = cached[s][p]
      BY <2>4
    <2>7. cached' = [q \in Shows |-> IF q = s THEN f ELSE cached[q]]
      BY <2>1, <2>3, <2>5
    <2> HIDE DEF f
    <2>8. \A q \in Shows : \A p \in DOMAIN cached[q] :
            p \in DOMAIN cached'[q] /\ cached'[q][p] = cached[q][p]
      BY <2>6, <2>7
    <2>9. \A q \in Shows : record[q] # None => record'[q] = record[q]
      BY <2>2, <2>3 DEF TypeOK
    <2> QED
      BY <2>2, <2>8, <2>9 DEF Kept
  <1> QED
    BY <1>1, <1>2

LEMMA StepLearns == IInv /\ [Next]_vars => Kept
  <1> SUFFICES ASSUME IInv, [Next]_vars PROVE Kept
    OBVIOUS
  <1>1. ASSUME UNCHANGED <<record, cached, groups>> PROVE Kept
    BY <1>1 DEF Kept
  <1>2. ASSUME NEW c \in Calls, Receive(c) PROVE Kept
    BY <1>2, ReceiveLearns
  <1>3. ASSUME NEW c \in Calls, ReadGroup(c) PROVE Kept
    <2>1. Of(c) \in Shows /\ TypeOK
      BY CallTypes DEF IInv
    <2>2. UNCHANGED <<record, cached>> /\ groups[Of(c)][At(c).group] = None
      BY <1>3 DEF ReadGroup, GroupKnown
    <2>3. \/ UNCHANGED groups
          \/ \E page \in GroupPages : groups' = [groups EXCEPT ![Of(c)][At(c).group] = page]
      BY <1>3 DEF ReadGroup
    <2>4. \A s \in Shows : \A g \in Groups : groups[s][g] # None => groups'[s][g] = groups[s][g]
      <3>1. CASE UNCHANGED groups
        BY <3>1
      <3>2. ASSUME NEW page \in GroupPages, groups' = [groups EXCEPT ![Of(c)][At(c).group] = page]
            PROVE  \A s \in Shows : \A g \in Groups :
                     groups[s][g] # None => groups'[s][g] = groups[s][g]
        BY <2>1, <2>2, <3>2 DEF TypeOK
      <3> QED
        BY <2>3, <3>1, <3>2
    <2> QED
      BY <2>2, <2>4 DEF Kept
  <1>4. ASSUME NEW c \in Calls,
               Enter(c) \/ TurnAway(c) \/ PlaceKey(c) \/ PlanSeasons(c) \/ Match(c) \/ Finish(c)
                 \/ EndContext(c)
        PROVE  Kept
    BY <1>1, <1>4 DEF Enter, TurnAway, PlaceKey, PlanSeasons, Match, Finish, EndContext, shared
  <1>5. CASE UNCHANGED vars
    BY <1>1, <1>5 DEF vars, shared
  <1> QED
    BY <1>2, <1>3, <1>4, <1>5 DEF Next, Step

\* What a call has learnt about a show, its record, its pieces and its groups,
\* is never lost, read anew or replaced, in particular not by a call that fails.
THEOREM LearntStays == Spec => [][Kept]_vars
  BY Inductive, StepLearns, PTL DEF Spec
----------------------------------------------------------------------------

\* What a call told stands in the book: one number for each key.
TellsBook ==
    \A c \in Calls : outcome[c] = "ok" =>
        /\ answer[c] \in [DOMAIN Keyed(c) -> Ids]
        /\ \A n \in DOMAIN Keyed(c) : <<Of(c), Keyed(c)[n], answer[c][n]>> \in Book

LEMMA ReadFromBook == IInv => TellsBook
  <1> SUFFICES ASSUME IInv, NEW c \in Calls, outcome[c] = "ok"
               PROVE  /\ answer[c] \in [DOMAIN Keyed(c) -> Ids]
                      /\ \A n \in DOMAIN Keyed(c) : <<Of(c), Keyed(c)[n], answer[c][n]>> \in Book
    BY DEF TellsBook
  <1>1. TypeOK /\ CallInv(c)
    BY DEF IInv
  <1>2. DOMAIN source[c] = DOMAIN Keyed(c) /\ DOMAIN answer[c] = DOMAIN source[c]
    BY <1>1, CallTypes DEF CallInv, Placed, Matched
  <1>3. answer[c] \in [DOMAIN Keyed(c) -> Ids]
    <2>1. answer[c] \in Seq(Ids)
      BY <1>1 DEF TypeOK
    <2>2. \A n \in DOMAIN answer[c] : answer[c][n] \in Ids
      BY <2>1
    <2>3. answer[c] = [n \in DOMAIN answer[c] |-> answer[c][n]]
      BY <2>1
    <2> QED
      BY <1>2, <2>2, <2>3
  <1>4. ASSUME NEW n \in DOMAIN Keyed(c)
        PROVE  <<Of(c), Keyed(c)[n], answer[c][n]>> \in Book
    <2> DEFINE key == Keyed(c)[n]
               place == source[c][n]
    <2>1. key \in Keys /\ key.group \in Groups \cup {None} /\ Of(c) \in Shows /\ answer[c][n] \in Ids
      <3>1. Keyed(c) \in Seq(Keys)
        BY <1>1, CallTypes
      <3> QED
        BY <1>1, <1>3, <3>1, CallTypes
    <2>2. Found(c, key) /\ place = PlaceOf(c, key)
      BY <1>1, <1>2 DEF CallInv, Placed
    <2>3. Answers(ListOf(c, place), place, answer[c][n])
      BY <1>1, <1>2 DEF CallInv, Matched
    <2>4. AtHand(c, SeasonPath(place.episode))
      BY <1>1, <1>2 DEF CallInv, Needs
    <2>5. Stands(Of(c), key, answer[c][n])
      BY <2>2, <2>3, <2>4 DEF Stands, Found, PlaceOf, Answers, Coordinate, ListOf, AtHand
    <2> HIDE DEF key
    <2> QED
      BY <2>1, <2>5 DEF Book, key
  <1> QED
    BY <1>3, <1>4

\* What stands in the book stays there.
LEMMA BookStays == IInv /\ Kept => Book \subseteq Book'
  <1> SUFFICES ASSUME Kept, NEW s \in Shows, NEW key \in Keys, NEW i \in Ids, Stands(s, key, i)
               PROVE  Stands(s, key, i)'
    BY DEF Book
  <1>1. key.group # None => key.group \in Groups /\ groups'[s][key.group] = groups[s][key.group]
    BY DEF Keys, Kept, Stands
  <1>2. \A p \in DOMAIN cached[s] : p \in DOMAIN cached'[s] /\ cached'[s][p] = cached[s][p]
    BY DEF Kept
  <1> QED
    BY <1>1, <1>2 DEF Stands, RowsOf, SeasonPath

\* A list has one number for a key, now and after a step.
LEMMA BookSingle == Seen!Single(Book) /\ Seen!Single(Book')
  <1>1. ASSUME NEW s, NEW key, NEW i, NEW j, Stands(s, key, i), Stands(s, key, j) PROVE i = j
    <2> DEFINE e == (IF key.group = None THEN [episode |-> key.at, id |-> None]
                     ELSE groups[s][key.group][key.at]).episode
               rows == RowsOf(cached[s][SeasonPath(e)], e)
    <2>1. rows = {<<e, i>>} /\ rows = {<<e, j>>}
      BY <1>1 DEF Stands
    <2> HIDE DEF e, rows
    <2>2. <<e, i>> \in rows /\ \A r \in rows : r = <<e, j>>
      BY <2>1
    <2>3. <<e, i>> = <<e, j>>
      BY <2>2
    <2> QED
      BY <2>3
  <1>2. ASSUME NEW s, NEW key, NEW i, NEW j, Stands(s, key, i)', Stands(s, key, j)' PROVE i = j
    <2> DEFINE e == (IF key.group = None THEN [episode |-> key.at, id |-> None]
                     ELSE groups'[s][key.group][key.at]).episode
               rows == RowsOf(cached'[s][SeasonPath(e)], e)
    <2>1. rows = {<<e, i>>} /\ rows = {<<e, j>>}
      BY <1>2 DEF Stands, RowsOf, SeasonPath
    <2> HIDE DEF e, rows
    <2>2. <<e, i>> \in rows /\ \A r \in rows : r = <<e, j>>
      BY <2>1
    <2>3. <<e, i>> = <<e, j>>
      BY <2>2
    <2> QED
      BY <2>3
  <1> QED
    BY <1>1, <1>2 DEF Seen!Single, Book

\* A step ends one call at most, and leaves what the others told.
LEMMA OneEnds ==
    ASSUME IInv, [Next]_vars
    PROVE  /\ UNCHANGED request
           /\ \/ UNCHANGED outcome /\ \A d \in Calls : outcome[d] = "ok" => answer'[d] = answer[d]
              \/ \E c \in Calls : \E how \in {"ok", "error", "cancelled"} :
                   /\ outcome[c] = "busy" /\ outcome' = [outcome EXCEPT ![c] = how]
                   /\ \A d \in Calls \ {c} : answer'[d] = answer[d]
  <1> DEFINE Ends(c) ==
               \E how \in {"ok", "error", "cancelled"} :
                   /\ outcome[c] = "busy" /\ outcome' = [outcome EXCEPT ![c] = how]
                   /\ \A d \in Calls \ {c} : answer'[d] = answer[d]
             Still == UNCHANGED outcome /\ \A d \in Calls : outcome[d] = "ok" => answer'[d] = answer[d]
  <1>1. ASSUME NEW c \in Calls, NEW how \in {"ok", "error", "cancelled"}, Return(c, how),
               stage[c] \in Inside, \A d \in Calls \ {c} : answer'[d] = answer[d]
        PROVE  Ends(c)
    BY <1>1 DEF Return, IInv, GateInv, Inside
  <1>2. ASSUME NEW c \in Calls, Fails(c), stage[c] \in Inside, UNCHANGED answer PROVE Ends(c)
    BY <1>1, <1>2, FailsHow
  <1>3. ASSUME NEW c \in Calls, Step(c) PROVE UNCHANGED request /\ (Still \/ Ends(c))
    <2>1. CASE Enter(c) \/ PlanSeasons(c)
      BY <2>1 DEF Enter, PlanSeasons, own
    <2>2. CASE TurnAway(c)
      BY <2>2 DEF TurnAway, own, IInv, GateInv
    <2>3. CASE PlaceKey(c)
      <3>1. UNCHANGED <<request, answer>> /\ stage[c] \in Inside
        BY <2>3 DEF PlaceKey, InKeys, Inside
      <3>2. UNCHANGED outcome \/ Return(c, "error")
        BY <2>3 DEF PlaceKey
      <3> QED
        BY <3>1, <3>2, <1>1
    <2>4. CASE ReadGroup(c)
      <3>1. UNCHANGED <<request, answer>> /\ stage[c] \in Inside
        BY <2>4 DEF ReadGroup, InKeys, Inside, own
      <3>2. UNCHANGED outcome \/ Fails(c)
        BY <2>4 DEF ReadGroup
      <3> QED
        BY <3>1, <3>2, <1>2
    <2>5. CASE Receive(c)
      <3>1. UNCHANGED <<request, answer>> /\ stage[c] \in Inside
        BY <2>5 DEF Receive, Inside
      <3>2. UNCHANGED outcome \/ Fails(c)
        BY <2>5 DEF Receive
      <3> QED
        BY <3>1, <3>2, <1>2
    <2>6. CASE Match(c)
      <3>1. /\ UNCHANGED request /\ stage[c] = "seasons" /\ stage[c] \in Inside
            /\ answer \in [Calls -> Seq(Ids)] /\ outcome[c] = "busy"
        BY <2>6 DEF Match, Inside, IInv, TypeOK, GateInv
      <3>2. UNCHANGED answer \/ \E ids : answer' = [answer EXCEPT ![c] = ids]
        BY <2>6 DEF Match
      <3>3. \A d \in Calls \ {c} : answer'[d] = answer[d]
        BY <3>1, <3>2
      <3>4. Return(c, "error") \/ Return(c, "ok") \/ UNCHANGED outcome
        BY <2>6 DEF Match, Conclude
      <3> QED
        BY <3>1, <3>3, <3>4, <1>1
    <2>7. CASE Finish(c)
      <3>1. UNCHANGED <<request, answer>> /\ stage[c] \in Inside
            /\ \E how \in {"ok", "error"} : Return(c, how)
        BY <2>7 DEF Finish, Conclude, Inside, own
      <3> QED
        BY <3>1, <1>1
    <2> QED
      BY <1>3, <2>1, <2>2, <2>3, <2>4, <2>5, <2>6, <2>7 DEF Step
  <1>4. ASSUME NEW c \in Calls, EndContext(c) PROVE UNCHANGED request /\ Still
    BY <1>4 DEF EndContext, own
  <1>5. CASE UNCHANGED vars
    BY <1>5 DEF vars, own
  <1> QED
    BY <1>3, <1>4, <1>5 DEF Next

\* Every step reads, adds to, or leaves alone the book the callers see.
LEMMA SeenStep ==
    ASSUME IInv, TellsBook', [Next]_vars
    PROVE  [Seen!AnswersNext]_(Seen!answersVars)
  <1>1. Seen!Learn
    BY BookStays, BookSingle, StepLearns DEF Seen!Learn
  <1>2. UNCHANGED request /\ TypeOK /\ outcome \in [Calls -> {"busy", "ok", "error", "cancelled"}]
    BY OneEnds DEF IInv, TypeOK
  <1>3. \A d \in Calls : Of(d)' = Of(d) /\ Keyed(d)' = Keyed(d)
    BY <1>2 DEF Of, Keyed
  <1>4. UNCHANGED Wants
    BY <1>3 DEF Wants
  <1>5. CASE UNCHANGED outcome /\ \A d \in Calls : outcome[d] = "ok" => answer'[d] = answer[d]
    <2>1. UNCHANGED Told
      BY <1>3, <1>5 DEF Told
    <2> QED
      BY <1>1, <1>4, <1>5, <2>1 DEF Seen!AnswersNext, Seen!Wait
  <1>6. ASSUME NEW c \in Calls, NEW how \in {"ok", "error", "cancelled"}, outcome[c] = "busy",
               outcome' = [outcome EXCEPT ![c] = how],
               \A d \in Calls \ {c} : answer'[d] = answer[d]
        PROVE  Seen!Answer(c) \/ Seen!Refuse(c)
    <2>1. outcome'[c] = how /\ \A d \in Calls \ {c} : outcome'[d] = outcome[d]
      BY <1>2, <1>6
    <2>2. \A d \in Calls \ {c} : Told'[d] = Told[d]
      BY <1>3, <1>6, <2>1 DEF Told
    <2>3. CASE how = "ok"
      <3> DEFINE tale == [show |-> Of(c), ids |-> answer'[c]]
      <3>1. /\ answer'[c] \in [DOMAIN Wants[c].keys -> Ids] /\ Wants[c].of = Of(c) /\ Of(c) \in Shows
            /\ \A n \in DOMAIN answer'[c] : <<Of(c), Wants[c].keys[n], answer'[c][n]>> \in Book'
        BY <1>2, <1>3, <2>1, <2>3, CallTypes DEF TellsBook, Wants
      <3>2. Told'[c] = tale
        BY <1>3, <2>1, <2>3 DEF Told
      <3> HIDE DEF tale
      <3>3. Told' = [Told EXCEPT ![c] = tale]
        BY <2>2, <3>2 DEF Told
      <3> QED
        BY <1>6, <2>3, <3>1, <3>3 DEF Seen!Answer, tale
    <2>4. CASE how # "ok"
      <3>1. Told'[c] = Told[c]
        BY <1>6, <2>1, <2>4 DEF Told
      <3>2. UNCHANGED Told
        BY <2>2, <3>1 DEF Told
      <3> QED
        BY <1>6, <2>4, <3>2 DEF Seen!Refuse
    <2> QED
      BY <2>3, <2>4
  <1> QED
    BY <1>1, <1>4, <1>5, <1>6, OneEnds DEF Seen!AnswersNext

\* The calls of one provider are to their callers what SeriesAnswers says: they
\* read one book, which grows and never contradicts itself, although what it is
\* made of is read by different calls at different times, with failures between.
THEOREM Refinement == Spec => ImplementsAnswers
  <1>1. Init => Seen!Fresh
    <2> SUFFICES ASSUME Init PROVE Seen!Fresh
      OBVIOUS
    <2>1. \A s \in Shows : DOMAIN cached[s] = {}
      BY DEF Init
    <2>2. Book = {}
      BY <2>1 DEF Book, Stands
    <2>3. outcome = [c \in Calls |-> "busy"] /\ Told = [c \in Calls |-> None]
      BY DEF Init, Told
    <2> QED
      BY <2>2, <2>3 DEF Seen!Fresh
  <1>2. IInv /\ TellsBook' /\ [Next]_vars => [Seen!AnswersNext]_(Seen!answersVars)
    BY SeenStep
  <1> QED
    BY <1>1, <1>2, ReadFromBook, Inductive, PTL DEF Spec, ImplementsAnswers, Seen!AnswersSpec

\* No two calls, however far apart, tell different numbers for one key of one show.
THEOREM NeverContradicts == Spec => []Seen!NoContradiction
  <1>1. IInv => Seen!NoContradiction
    <2> SUFFICES ASSUME IInv, NEW c \in Calls, NEW d \in Calls,
                        Told[c] # None, Told[d] # None, Told[c].show = Told[d].show,
                        NEW m \in DOMAIN Wants[c].keys, NEW n \in DOMAIN Wants[d].keys,
                        Wants[c].keys[m] = Wants[d].keys[n]
                 PROVE  Told[c].ids[m] = Told[d].ids[n]
      BY DEF Seen!NoContradiction
    <2>1. outcome[c] = "ok" /\ outcome[d] = "ok"
      BY DEF Told
    <2>2. /\ Told[c].show = Of(c) /\ Told[c].ids = answer[c]
          /\ Told[d].show = Of(d) /\ Told[d].ids = answer[d]
          /\ Wants[c].keys = Keyed(c) /\ Wants[d].keys = Keyed(d)
      BY <2>1 DEF Told, Wants
    <2>3. /\ <<Of(c), Keyed(c)[m], answer[c][m]>> \in Book
          /\ <<Of(d), Keyed(d)[n], answer[d][n]>> \in Book
      BY <2>1, <2>2, ReadFromBook DEF TellsBook
    <2> QED
      BY <2>2, <2>3, BookSingle DEF Seen!Single
  <1> QED
    BY <1>1, Inductive, PTL
----------------------------------------------------------------------------

\* How far a call is from its end: the stages before it, and in a stage the keys
\* to place, each with a group to read, or the pieces to ask for.
StageRank(at) ==
    CASE at = "gate" -> 4 [] at = "keys" -> 3 [] at = "seasons" -> 2 [] at = "details" -> 1
      [] OTHER -> 0
GroupRead(c) == InKeys(c) /\ At(c).group # None /\ GroupKnown(c)
Work(c) ==
    CASE stage[c] = "keys" ->
           2 * (Len(Keyed(c)) - Len(source[c])) + (IF GroupRead(c) THEN 0 ELSE 1)
      [] stage[c] \in Asking -> Len(todo[c])
      [] OTHER -> 0
Nearer(c) ==
    \/ StageRank(stage'[c]) < StageRank(stage[c])
    \/ stage'[c] = stage[c] /\ Work(c)' < Work(c)
Untouched(c) == stage'[c] = stage[c] /\ Work(c)' = Work(c)
Advance ==
    \/ \E c \in Calls : Nearer(c) /\ UNCHANGED ended /\ \A d \in Calls \ {c} : Untouched(d)
    \/ \E c \in Calls : /\ ~ended[c] /\ ended' = [ended EXCEPT ![c] = TRUE]
                        /\ \A d \in Calls : Untouched(d)
WorkCounts == \A c \in Calls : Work(c) \in Nat

LEMMA OthersUntouched ==
    ASSUME NEW d \in Calls, stage'[d] = stage[d],
           \/ stage[d] \notin Inside
           \/ UNCHANGED <<request, groups>> /\ source'[d] = source[d] /\ todo'[d] = todo[d]
    PROVE  Untouched(d)
  <1>1. CASE stage[d] \notin Inside
    BY <1>1 DEF Untouched, Work, Inside, Asking
  <1>2. CASE UNCHANGED <<request, groups>> /\ source'[d] = source[d] /\ todo'[d] = todo[d]
    <2>1. Keyed(d)' = Keyed(d) /\ (GroupRead(d)' <=> GroupRead(d))
      BY <1>2 DEF Keyed, GroupRead, InKeys, At, GroupKnown, Of
    <2> QED
      BY <1>2, <2>1 DEF Untouched, Work
  <1> QED
    BY <1>1, <1>2

LEMMA LeavingIsNearer ==
    ASSUME TypeOK, GateInv, NEW c \in Calls, stage[c] \in Inside, NEW how, Return(c, how)
    PROVE  Nearer(c) /\ \A d \in Calls \ {c} : Untouched(d)
  <1>1. stage'[c] = "over" /\ \A d \in Calls \ {c} : stage'[d] = stage[d] /\ stage[d] \notin Inside
    BY DEF Return, TypeOK, GateInv
  <1>2. Nearer(c)
    BY <1>1 DEF Nearer, StageRank, Inside
  <1> QED
    BY <1>1, <1>2, OthersUntouched

\* A piece of work done inside the gate touches no other call.
LEMMA InsideAlone ==
    ASSUME GateInv, NEW c \in Calls, stage[c] \in Inside, NEW d \in Calls \ {c}, stage'[d] = stage[d]
    PROVE  Untouched(d)
  <1>1. stage[d] \notin Inside
    BY DEF GateInv
  <1> QED
    BY <1>1, OthersUntouched

LEMMA StepAdvances ==
    ASSUME IInv, NEW c \in Calls, Step(c)
    PROVE  Nearer(c) /\ UNCHANGED ended /\ \A d \in Calls \ {c} : Untouched(d)
  <1>1. TypeOK /\ GateInv
    BY DEF IInv
  <1>2. CASE Enter(c) \/ TurnAway(c)
    <2>1. /\ stage[c] = "gate" /\ stage'[c] \in {"keys", "over"}
          /\ UNCHANGED <<request, ended, shared, own>>
          /\ \A d \in Calls \ {c} : stage'[d] = stage[d]
      BY <1>1, <1>2 DEF Enter, TurnAway, TypeOK
    <2>2. Nearer(c)
      BY <2>1 DEF Nearer, StageRank
    <2> QED
      BY <2>1, <2>2, OthersUntouched DEF shared, own
  <1>3. CASE PlaceKey(c)
    <2>1. UNCHANGED <<request, ended, groups>> /\ stage[c] \in Inside /\ InKeys(c) /\ stage[c] = "keys"
      BY <1>3 DEF PlaceKey, InKeys, Inside, shared
    <2>2. CASE Return(c, "error")
      BY <1>1, <2>1, <2>2, LeavingIsNearer
    <2>3. CASE UNCHANGED stage /\ \E place : source' = [source EXCEPT ![c] = Append(@, place)]
      <3>1. PICK place : source' = [source EXCEPT ![c] = Append(@, place)]
        BY <2>3
      <3>2. source'[c] = Append(source[c], place) /\ source[c] \in Seq(Source)
        BY <1>1, <3>1 DEF TypeOK
      <3>3. Len(source'[c]) = Len(source[c]) + 1 /\ Len(source[c]) \in Nat /\ Len(Keyed(c)) \in Nat
        BY <1>1, <3>2, CallTypes
      <3>4. Keyed(c)' = Keyed(c) /\ Len(source[c]) < Len(Keyed(c))
        BY <2>1 DEF Keyed, InKeys
      <3>5. /\ \/ Work(c) = 2 * (Len(Keyed(c)) - Len(source[c])) + 0
               \/ Work(c) = 2 * (Len(Keyed(c)) - Len(source[c])) + 1
            /\ \/ Work(c)' = 2 * (Len(Keyed(c)) - Len(source'[c])) + 0
               \/ Work(c)' = 2 * (Len(Keyed(c)) - Len(source'[c])) + 1
        BY <2>1, <2>3, <3>4 DEF Work, Asking
      <3>6. Work(c)' < Work(c)
        BY <3>3, <3>5
      <3> QED
        BY <1>1, <2>1, <2>3, <3>6, InsideAlone DEF Nearer
    <2> QED
      BY <1>3, <2>2, <2>3 DEF PlaceKey
  <1>4. CASE ReadGroup(c)
    <2>1. /\ UNCHANGED <<request, ended, own>> /\ stage[c] \in Inside /\ InKeys(c)
          /\ stage[c] = "keys" /\ At(c).group # None /\ ~GroupKnown(c)
      BY <1>4 DEF ReadGroup, InKeys, Inside
    <2>2. CASE Fails(c)
      <3>1. \E how \in {"error", "cancelled"} : Return(c, how)
        BY <2>2, FailsHow
      <3> QED
        BY <1>1, <2>1, <3>1, LeavingIsNearer
    <2>3. ASSUME NEW page \in GroupPages, UNCHANGED stage,
                 groups' = [groups EXCEPT ![Of(c)][At(c).group] = page]
          PROVE  Nearer(c) /\ \A d \in Calls \ {c} : Untouched(d)
      <3>1. /\ Len(source[c]) \in Nat /\ Len(Keyed(c)) \in Nat /\ Of(c) \in Shows
            /\ Len(source[c]) < Len(Keyed(c)) /\ At(c).group \in Groups
        <4>1. Len(source[c]) + 1 \in DOMAIN Keyed(c)
          BY <1>1, <2>1, CallTypes DEF InKeys
        <4> QED
          BY <1>1, <2>1, <4>1, CallTypes DEF InKeys, At
      <3>2. At(c)' = At(c) /\ Of(c)' = Of(c) /\ Keyed(c)' = Keyed(c) /\ InKeys(c)' /\ source'[c] = source[c]
        BY <2>1, <2>3 DEF At, Of, Keyed, InKeys, own
      <3>3. groups'[Of(c)][At(c).group] = page /\ page # None
        BY <1>1, <2>3, <3>1, NamesAssumption DEF TypeOK
      <3>4. GroupKnown(c)'
        BY <3>2, <3>3 DEF GroupKnown
      <3>5. GroupRead(c)' /\ ~GroupRead(c)
        BY <2>1, <3>2, <3>4 DEF GroupRead
      <3>6. /\ Work(c) = 2 * (Len(Keyed(c)) - Len(source[c])) + 1
            /\ Work(c)' = 2 * (Len(Keyed(c)) - Len(source[c])) + 0
        BY <2>1, <2>3, <3>2, <3>5 DEF Work, Asking
      <3>7. Work(c)' < Work(c)
        BY <3>1, <3>6
      <3> QED
        BY <1>1, <2>1, <2>3, <3>7, InsideAlone DEF Nearer
    <2> QED
      BY <1>4, <2>1, <2>2, <2>3 DEF ReadGroup
  <1>5. CASE PlanSeasons(c)
    <2>1. /\ stage[c] = "keys" /\ stage'[c] = "seasons" /\ UNCHANGED ended
          /\ \A d \in Calls \ {c} : stage'[d] = stage[d]
      BY <1>1, <1>5 DEF PlanSeasons, TypeOK
    <2>2. Nearer(c) /\ stage[c] \in Inside
      BY <2>1 DEF Nearer, StageRank, Inside
    <2> QED
      BY <1>1, <2>1, <2>2, InsideAlone
  <1>6. CASE Receive(c)
    <2>1. UNCHANGED ended /\ stage[c] \in Asking /\ stage[c] \in Inside /\ todo[c] # <<>>
      BY <1>6 DEF Receive, Asking, Inside
    <2>2. CASE Fails(c)
      <3>1. \E how \in {"error", "cancelled"} : Return(c, how)
        BY <2>2, FailsHow
      <3> QED
        BY <1>1, <2>1, <3>1, LeavingIsNearer
    <2>3. CASE UNCHANGED stage /\ todo' = [todo EXCEPT ![c] = SubSeq(@, Len(Batch(c)) + 1, Len(@))]
      <3>1. todo[c] \in Seq(Paths) /\ Len(todo[c]) \in Nat /\ Len(Batch(c)) \in 1..Len(todo[c])
        BY <1>1, <2>1, BatchGives, CallTypes
      <3>2. todo'[c] = SubSeq(todo[c], Len(Batch(c)) + 1, Len(todo[c]))
        BY <1>1, <2>3 DEF TypeOK
      <3>3. Len(todo'[c]) = Len(todo[c]) - Len(Batch(c))
        BY <3>1, <3>2
      <3>4. Work(c)' < Work(c)
        BY <2>1, <2>3, <3>1, <3>3 DEF Work, Asking
      <3> QED
        BY <1>1, <2>1, <2>3, <3>4, InsideAlone DEF Nearer
    <2> QED
      BY <1>6, <2>1, <2>2, <2>3 DEF Receive
  <1>7. CASE Match(c)
    <2>1. stage[c] = "seasons" /\ stage[c] \in Inside /\ UNCHANGED ended
      BY <1>7 DEF Match, Inside
    <2>2. Return(c, "error") \/ Return(c, "ok") \/ stage' = [stage EXCEPT ![c] = "details"]
      BY <1>7 DEF Match, Conclude
    <2>3. ASSUME stage' = [stage EXCEPT ![c] = "details"]
          PROVE  Nearer(c) /\ \A d \in Calls \ {c} : Untouched(d)
      <3>1. stage'[c] = "details" /\ \A d \in Calls \ {c} : stage'[d] = stage[d]
        BY <1>1, <2>3 DEF TypeOK
      <3>2. Nearer(c)
        BY <2>1, <3>1 DEF Nearer, StageRank
      <3> QED
        BY <1>1, <2>1, <3>1, <3>2, InsideAlone
    <2> QED
      BY <1>1, <2>1, <2>2, <2>3, LeavingIsNearer
  <1>8. CASE Finish(c)
    <2>1. stage[c] \in Inside /\ UNCHANGED ended /\ \E how \in {"ok", "error"} : Return(c, how)
      BY <1>8 DEF Finish, Conclude, Inside
    <2> QED
      BY <1>1, <2>1, LeavingIsNearer
  <1> QED
    BY <1>2, <1>3, <1>4, <1>5, <1>6, <1>7, <1>8 DEF Step

\* Every step brings one call nearer its end and sets none back, or ends a
\* context, which happens once to each. The work is a natural number, so the
\* calls cannot go round in circles, whatever they learn from each other: this
\* is what CallsReturn needs besides fairness.
THEOREM NoCircles == Spec => []WorkCounts /\ [][Advance]_vars
  <1>1. IInv => WorkCounts
    <2> SUFFICES ASSUME IInv, NEW c \in Calls PROVE Work(c) \in Nat
      BY DEF WorkCounts
    <2>1. /\ Len(Keyed(c)) \in Nat /\ Len(source[c]) \in Nat /\ Len(todo[c]) \in Nat
          /\ Len(source[c]) <= Len(Keyed(c))
      BY CallTypes DEF IInv, TypeOK, Keyed
    <2>2. CASE stage[c] = "keys"
      <3>1. \/ Work(c) = 2 * (Len(Keyed(c)) - Len(source[c])) + 0
            \/ Work(c) = 2 * (Len(Keyed(c)) - Len(source[c])) + 1
        BY <2>2 DEF Work, Asking
      <3> QED
        BY <2>1, <3>1
    <2>3. CASE stage[c] # "keys"
      BY <2>1, <2>3 DEF Work
    <2> QED
      BY <2>2, <2>3
  <1>2. IInv /\ [Next]_vars => [Advance]_vars
    <2> SUFFICES ASSUME IInv, Next PROVE Advance
      OBVIOUS
    <2>1. ASSUME NEW c \in Calls, Step(c) PROVE Advance
      BY <2>1, StepAdvances DEF Advance
    <2>2. ASSUME NEW c \in Calls, EndContext(c) PROVE Advance
      BY <2>2, OthersUntouched DEF EndContext, Advance, shared, own
    <2> QED
      BY <2>1, <2>2 DEF Next
  <1> QED
    BY <1>1, <1>2, Inductive, PTL DEF Spec

\* Where a call can take a step of its own: in front of an open gate or with its
\* context ended, at a key it has not placed, with all keys placed, or asking.
Moves(c) ==
    \/ stage[c] = "gate" /\ (Open \/ ended[c])
    \/ InKeys(c)
    \/ stage[c] = "keys" /\ Len(source[c]) = Len(Keyed(c))
    \/ stage[c] \in Asking
NobodyStuck ==
    \A c \in Calls : outcome[c] = "busy" =>
        \/ Moves(c)
        \/ stage[c] = "gate" /\ gate \in Calls \ {c} /\ outcome[gate] = "busy" /\ Moves(gate)

\* Nobody waits for nobody: a busy call can go on, or waits at the gate for one
\* behind it that can. A gate that a call which has returned still held would
\* shut out every other for good (provider_batch.go 53-58).
THEOREM NeverStuck == Spec => []NobodyStuck
  <1>1. IInv => NobodyStuck
    <2> SUFFICES ASSUME IInv, NEW c \in Calls, outcome[c] = "busy"
                 PROVE  \/ Moves(c)
                        \/ /\ stage[c] = "gate" /\ gate \in Calls \ {c}
                           /\ outcome[gate] = "busy" /\ Moves(gate)
      BY DEF NobodyStuck
    <2>1. ASSUME NEW d \in Calls, stage[d] \in Inside PROVE Moves(d)
      <3>1. Len(source[d]) \in Nat /\ Len(Keyed(d)) \in Nat /\ Len(source[d]) <= Len(Keyed(d))
        BY CallTypes DEF IInv, TypeOK, Keyed
      <3>2. CASE stage[d] = "keys"
        BY <3>1, <3>2 DEF Moves, InKeys
      <3> QED
        BY <2>1, <3>2 DEF Moves, Inside, Asking
    <2>2. stage[c] = "gate" \/ stage[c] \in Inside
      BY DEF IInv, TypeOK, GateInv, Inside
    <2>3. CASE stage[c] = "gate" /\ gate # None
      <3>1. gate \in Calls /\ stage[gate] \in Inside
        BY <2>3 DEF IInv, TypeOK, GateInv
      <3>2. outcome[gate] = "busy" /\ gate # c
        BY <2>3, <3>1 DEF IInv, GateInv, Inside
      <3> QED
        BY <2>1, <2>3, <3>1, <3>2
    <2>4. CASE stage[c] = "gate" /\ gate = None
      BY <2>4 DEF Moves, Open
    <2> QED
      BY <2>1, <2>2, <2>3, <2>4
  <1> QED
    BY <1>1, Inductive, PTL
=============================================================================
