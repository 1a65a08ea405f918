----------------------------- MODULE IntakeProofs -----------------------------
(***************************************************************************)
(* What the way from a directory to its tasks promises for every tree, all *)
(* answers of the model, all notes and every batch and int size.           *)
(***************************************************************************)
EXTENDS Intake, FiniteSetTheorems, WellFoundedInduction, TLAPS

NothingLocal == unmatched = {} /\ described = {} /\ locals = <<>>
NothingGrouped == next = 1 /\ groups = [d \in Places |-> <<>>] /\ tasks = <<>>

\* Each part of the state is untouched before its stage.
Phases ==
    /\ stage = "start" => at = 1 /\ files = <<>>
    /\ stage \in {"start", "walk"} => result = <<>>
    /\ stage \in {"start", "walk", "extract"} => NothingGrouped
    /\ stage \in {"start", "walk", "extract", "sort"} => show = ShowOf(NoPlace)
    /\ stage \notin {"describe", "local", "done", "failed"} => NothingLocal

\* What is handed on has been checked, and a show is made of what was told of it.
FromAnswer ==
    /\ \A n \in DOMAIN result : ValidIdentity(result[n])
    /\ next <= Len(result) + 1
    /\ \A d \in Places : \A n \in DOMAIN groups[d] : \E m \in 1..(next - 1) :
         /\ groups[d][n] = result[m] /\ result[m].type = "tv" /\ result[m].root = d
         /\ ~IsDir(result[m].path)

\* Keys go with videos, and a show with the entries it is made of.
Paired ==
    /\ \A n \in DOMAIN tasks :
         tasks[n].videos # <<>> /\ Len(tasks[n].keys) <= Len(tasks[n].videos)
    /\ show.entry >= 1 /\ Len(show.keys) = show.entry - 1
    /\ show.root # NoPlace =>
         /\ groups[show.root] # <<>> /\ show.entry <= Len(groups[show.root]) + 1
         /\ stage = "shows" => notes.source[show.root] # BadRef
         /\ show.entry > 1 => notes.id[show.root] # BadId

TypeInv == TypeOK /\ Phases /\ FromAnswer /\ Paired

----------------------------------------------------------------------------
(* Types.                                                                   *)

LEMMA NotesTyped ==
    ASSUME TypeOK
    PROVE  \A p \in Places :
             /\ notes.source[p] \in Ref \cup {BadRef}
             /\ notes.id[p] \in Ids \cup {NoId, BadId}
             /\ notes.season[p] \in Ints
             /\ notes.group[p] \in Groups \cup {NoGroup, Absent, BadGroup}
             /\ notes.join[p] \in Join
  BY PreparationAssumption DEF TypeOK, Sheet

LEMMA EntryPlaces == Entries \subseteq Places /\ \A e \in Entries : Parent[e] \in Places
  BY TreeAssumption DEF Places

LEMMA RefTyped ==
    /\ NoRef \in Ref
    /\ \A id \in Ids \cup {NoId} : Tmdb(id) \in Ref /\ TheTvdb(id) \in Ref
    /\ \A a, b \in Ref : Combine(a, b) \in Ref
  BY DEF Ref, NoRef, Tmdb, TheTvdb, Combine

LEMMA HintsTyped ==
    \A id, number \in Ids \cup {NoId} : Hints(id, number) \subseteq Ref
  BY RefTyped DEF Hints

LEMMA MovieRefTyped ==
    ASSUME TypeOK, NEW v \in Entries, MovieReadable(v)
    PROVE  MovieRef(v) \in Ref
  <1>1. notes.source[v] \in Ref /\ Numbered(v) \in Ref /\ Numbered(Parent[v]) \in Ref
    BY NotesTyped, EntryPlaces, RefTyped DEF MovieReadable, Numbered
  <1> QED
    BY <1>1, RefTyped DEF MovieRef

LEMMA KeyTyped ==
    ASSUME TypeOK, NEW item \in Item, item.path \in Entries, NEW root \in Places,
           Readable(item, root)
    PROVE  KeyOf(item, root) \in Key
  <1> DEFINE dir == Parent[item.path]
  <1>1. /\ dir \in Places /\ notes.season[dir] \in Ints /\ notes.join[dir] \in Join
        /\ notes.group[dir] \in Groups \cup {NoGroup, Absent, BadGroup}
        /\ notes.group[root] \in Groups \cup {NoGroup, Absent, BadGroup}
    BY NotesTyped, EntryPlaces
  <1>2. item.season \in Ints /\ item.episode \in Ints /\ MaxInt \in Nat \ {0}
    BY ExtractionAssumption DEF Item
  <1>3. GroupOf(item, root) \in Groups \cup {NoGroup}
    BY <1>1 DEF GroupOf, Readable
  <1>4. ToldSeason(item) \in Ints
    BY <1>1, <1>2 DEF ToldSeason
  <1>5. JoinOf(item) \in Join
    BY <1>1 DEF JoinOf
  <1>6. JoinOf(item).to \in Ints /\ JoinOf(item).start \in Ints
    BY <1>5 DEF Join
  <1>7. Joined(item) => Wrapped(item.episode + (JoinOf(item).start - 1)) \in Ints
    BY <1>2, <1>6 DEF Joined, Readable, Wrapped, Ints
  <1> QED
    BY <1>2, <1>3, <1>4, <1>6, <1>7 DEF KeyOf, Key

\* As many elements as places, where none comes twice.
LEMMA ImageSize ==
    ASSUME NEW I, IsFiniteSet(I), NEW f, \A m, n \in I : f[m] = f[n] => m = n
    PROVE  IsFiniteSet({f[n] : n \in I}) /\ Cardinality({f[n] : n \in I}) = Cardinality(I)
  <1> DEFINE T == {f[n] : n \in I}
             g == [n \in I |-> f[n]]
  <1>1. g \in Bijection(I, T)
    BY DEF Bijection, Injection, IsInjective, Surjection
  <1>2. ExistsBijection(I, T)
    BY <1>1 DEF ExistsBijection
  <1> HIDE DEF T
  <1>3. IsFiniteSet(T) /\ Cardinality(T) = Cardinality(I)
    BY <1>2, FS_Bijection
  <1> QED
    BY <1>3 DEF T

LEMMA IntervalSize ==
    ASSUME NEW a \in Nat, NEW b \in Nat, a <= b
    PROVE  IsFiniteSet((a + 1)..b) /\ Cardinality((a + 1)..b) = b - a
  <1>1. a + 1 \in Int /\ b \in Int
    OBVIOUS
  <1>2. /\ IsFiniteSet((a + 1)..b)
        /\ Cardinality((a + 1)..b) = IF a + 1 > b THEN 0 ELSE b - (a + 1) + 1
    BY <1>1, FS_Interval
  <1> QED
    BY <1>2

LEMMA AllCount ==
    ASSUME NEW S, NEW s \in Seq(S), \A m, n \in DOMAIN s : s[m] = s[n] => m = n
    PROVE  /\ IsFiniteSet({s[n] : n \in DOMAIN s})
           /\ Cardinality({s[n] : n \in DOMAIN s}) = Len(s)
  <1>1. IsFiniteSet(DOMAIN s) /\ Cardinality(DOMAIN s) = Len(s)
    <2>1. Len(s) \in Nat /\ DOMAIN s = (0 + 1)..Len(s)
      OBVIOUS
    <2>2. 0 \in Nat /\ 0 <= Len(s)
      BY <2>1
    <2>3. IsFiniteSet((0 + 1)..Len(s)) /\ Cardinality((0 + 1)..Len(s)) = Len(s) - 0
      BY <2>1, <2>2, IntervalSize
    <2> QED
      BY <2>1, <2>3
  <1> QED
    BY <1>1, ImageSize

LEMMA WalkTyped ==
    /\ Len(Walk) \in Nat /\ DOMAIN Walk = 1..Len(Walk)
    /\ \A n \in DOMAIN Walk : Walk[n] \in Entries /\ Below[Walk[n]] \subseteq Entries
  BY TreeAssumption, EntryPlaces DEF Entries

LEMMA FolderSize ==
    \A n \in DOMAIN Walk : Cardinality(Below[Walk[n]]) \in Nat
  <1>1. IsFiniteSet(Entries)
    <2>1. Walk \in Seq(Entries) /\ \A m, n \in DOMAIN Walk : Walk[m] = Walk[n] => m = n
      BY TreeAssumption
    <2> QED
      BY <2>1, AllCount DEF Entries
  <1> QED
    BY <1>1, WalkTyped, FS_Subset, FS_CardinalityType

LEMMA TypeInit == Init => TypeInv
  <1> SUFFICES ASSUME Init PROVE TypeInv
    OBVIOUS
  <1> USE DEF Init, DiscoveryInit, ExtractionInit, PreparationInit, LocalInit
  <1>1. show \in ShowSet /\ show = ShowOf(NoPlace)
    BY DEF ShowSet, ShowOf
  <1>2. TypeOK
    BY <1>1 DEF TypeOK
  <1>3. Phases
    BY DEF Phases, NothingLocal, NothingGrouped
  <1>4. FromAnswer /\ Paired
    BY <1>1 DEF FromAnswer, Paired, ShowOf
  <1> QED
    BY <1>2, <1>3, <1>4 DEF TypeInv

LEMMA TypeDiscover ==
    ASSUME TypeInv, Discover
    PROVE  TypeInv'
  <1> USE DEF TypeInv, Discover, directory, discovery, preparation, sorting, localText
  <1>1. /\ UNCHANGED <<look, inside, result, notes, next, groups, show, tasks,
                      unmatched, described, locals>>
        /\ stage \in {"start", "walk"} /\ stage' \in {"walk", "extract", "done", "failed"}
        /\ stage' = "walk" => stage \in {"start", "walk"}
    BY DEF DiscoveryStep, RefuseRoot, BeginWalk, SkipFolder, PassEntry, LeaveOutDisc, TakeDisc,
           TakeVideo, EndWalk, Visiting, AtDisc
  <1>2. \/ UNCHANGED discovery
        \/ /\ at \in DOMAIN Walk
           /\ at' \in {at + 1, at + 1 + Cardinality(Below[Walk[at]])}
           /\ files' = files \/ files' = Append(files, Walk[at])
    <2>1. at \in Nat \ {0} /\ (Visiting => at \in DOMAIN Walk)
      BY WalkTyped DEF TypeOK, Visiting
    <2> QED
      BY <2>1 DEF DiscoveryStep, RefuseRoot, BeginWalk, SkipFolder, PassEntry, LeaveOutDisc,
         TakeDisc, TakeVideo, EndWalk, AtDisc, Here, PastFolder, NextEntry, appendDiscovered
  <1>3. at' \in Nat \ {0} /\ files' \in Seq(Entries)
    <2>1. at \in Nat \ {0} /\ files \in Seq(Entries)
      BY DEF TypeOK
    <2>2. at \in DOMAIN Walk => Walk[at] \in Entries /\ Cardinality(Below[Walk[at]]) \in Nat
      BY WalkTyped, FolderSize
    <2>3. at' \in Nat \ {0}
      BY <1>2, <2>1, <2>2
    <2> QED
      BY <1>2, <2>1, <2>2, <2>3
  <1>4. TypeOK'
    BY <1>1, <1>3 DEF TypeOK
  <1>5. Phases'
    BY <1>1 DEF Phases, NothingGrouped, NothingLocal
  <1>6. FromAnswer' /\ Paired'
    BY <1>1 DEF FromAnswer, Paired, ValidIdentity, IsDir
  <1> QED
    BY <1>4, <1>5, <1>6

LEMMA TypeExtract ==
    ASSUME TypeInv, Extract
    PROVE  TypeInv'
  <1> USE DEF TypeInv, Extract, directory, discovery, preparation, sorting, localText
  <1>1. /\ UNCHANGED <<look, inside, at, files, notes, next, groups, show, tasks,
                      unmatched, described, locals>>
        /\ stage = "extract" /\ stage' \in {"extract", "sort", "failed"}
    BY DEF ExtractionStep, AnalyzeBatch, Extracted
  <1>2. \/ UNCHANGED result
        \/ \E reply \in Seq(Item) :
             /\ \A n \in DOMAIN reply : ValidIdentity(reply[n])
             /\ result' = result \o reply
    BY ExtractionAssumption DEF ExtractionStep, AnalyzeBatch, Extracted, Acceptable
  <1>3. result' \in Seq(Item) /\ Len(result) <= Len(result')
        /\ \A n \in DOMAIN result' : ValidIdentity(result'[n])
    <2>1. CASE UNCHANGED result
      BY <2>1 DEF TypeOK, FromAnswer
    <2>2. ASSUME NEW reply \in Seq(Item), \A n \in DOMAIN reply : ValidIdentity(reply[n]),
                 result' = result \o reply
          PROVE  /\ result' \in Seq(Item) /\ Len(result) <= Len(result')
                 /\ \A n \in DOMAIN result' : ValidIdentity(result'[n])
      BY <2>2 DEF TypeOK, FromAnswer
    <2> QED
      BY <1>2, <2>1, <2>2
  <1>4. TypeOK'
    BY <1>1, <1>3 DEF TypeOK
  <1>5. Phases'
    BY <1>1 DEF Phases, NothingGrouped, NothingLocal
  <1>6. FromAnswer'
    <2>1. next = 1 /\ groups = [d \in Places |-> <<>>]
      BY <1>1 DEF Phases, NothingGrouped
    <2>2. Len(result') \in Nat
      BY <1>3
    <2> QED
      BY <1>1, <1>3, <2>1, <2>2 DEF FromAnswer
  <1>7. Paired'
    BY <1>1 DEF Paired
  <1> QED
    BY <1>4, <1>5, <1>6, <1>7

\* What may be said of a place is of the right kind.
LEMMA BelowTyped == \A d \in Places : Below[d] \subseteq Entries
  BY TreeAssumption

\* An identity that was let through, of a file, tells numbers or none.
LEMMA IdentityTyped ==
    ASSUME TypeInv, NEW n \in DOMAIN result
    PROVE  /\ result[n] \in Item
           /\ result[n].tmdb \in Ids \cup {NoId} /\ result[n].thetvdb \in Ids \cup {NoId}
           /\ result[n].names \in SUBSET Titles
           /\ result[n].type = "tv" =>
                /\ result[n].root \in Places /\ result[n].path \in Entries
                /\ result[n].path \in Below[result[n].root]
           /\ result[n].type \in {"movie", "tv"}
  <1>1. result[n] \in Item /\ ValidIdentity(result[n])
    BY DEF TypeInv, TypeOK, FromAnswer
  <1> QED
    BY <1>1, BelowTyped DEF Item, ValidIdentity

LEMMA EntryTyped ==
    ASSUME TypeInv, NEW d \in Places, NEW n \in DOMAIN groups[d]
    PROVE  /\ groups[d][n] \in Item /\ groups[d][n].path \in Entries
           /\ groups[d][n].tmdb \in Ids \cup {NoId} /\ groups[d][n].thetvdb \in Ids \cup {NoId}
           /\ groups[d][n].names \in SUBSET Titles
           /\ groups[d][n].path \in Below[d] /\ ~IsDir(groups[d][n].path)
  <1>1. PICK m \in 1..(next - 1) :
          /\ groups[d][n] = result[m] /\ result[m].type = "tv" /\ result[m].root = d
          /\ ~IsDir(result[m].path)
    BY DEF TypeInv, FromAnswer
  <1>2. m \in DOMAIN result
    BY DEF TypeInv, TypeOK, FromAnswer
  <1> QED
    BY <1>1, <1>2, IdentityTyped

\* What Preparation leaves alone.
Apart == UNCHANGED <<directory, discovery, result, localText>>

LEMMA MovieTyped ==
    ASSUME TypeInv, PrepareMovie
    PROVE  [kind |-> "movie", root |-> Identity.path, ref |-> MovieRef(Identity.path),
            hints |-> Hints(Identity.tmdb, NoId), videos |-> <<Identity.path>>,
            keys |-> <<>>] \in Task
  <1> DEFINE v == Identity.path
  <1>1. next \in DOMAIN result
    BY DEF PrepareMovie, Expected, Sorting, TypeInv, TypeOK
  <1>2. v \in Entries /\ v \in Places /\ MovieReadable(v)
    BY EntryPlaces DEF PrepareMovie, Expected, Found, TypeInv, TypeOK
  <1>3. MovieRef(v) \in Ref
    BY <1>2, MovieRefTyped DEF TypeInv
  <1>4. Hints(Identity.tmdb, NoId) \subseteq Ref
    BY <1>1, IdentityTyped, HintsTyped DEF Identity, TypeInv
  <1> QED
    BY <1>2, <1>3, <1>4 DEF Task

LEMMA TypePrepareMovie ==
    ASSUME TypeInv, PrepareMovie, Apart
    PROVE  TypeInv'
  <1> DEFINE v == Identity.path
             task == [kind |-> "movie", root |-> v, ref |-> MovieRef(v),
                      hints |-> Hints(Identity.tmdb, NoId), videos |-> <<v>>, keys |-> <<>>]
  <1> USE DEF TypeInv, Apart, directory, discovery, localText
  <1>1. /\ tasks' = Append(tasks, task) /\ next' = next + 1 /\ stage = "sort"
        /\ next \in DOMAIN result
        /\ UNCHANGED <<stage, look, inside, at, files, result, notes, groups, show,
                      unmatched, described, locals>>
    BY DEF PrepareMovie, Expected, Sorting, TypeOK
  <1>5. task \in Task
    BY MovieTyped
  <1>6. NothingLocal /\ NothingLocal'
    BY <1>1 DEF Phases, NothingLocal
  <1> HIDE DEF task
  <1>7. tasks' \in Seq(Task) /\ next' \in Nat \ {0}
    BY <1>1, <1>5 DEF TypeOK
  <1>8. TypeOK'
    BY <1>1, <1>6, <1>7 DEF TypeOK, NothingLocal
  <1>9. Phases'
    BY <1>1, <1>6 DEF Phases
  <1>10. FromAnswer'
    BY <1>1 DEF FromAnswer, TypeOK, IsDir
  <1>11. Paired'
    BY <1>1 DEF Paired, TypeOK, task
  <1> QED
    BY <1>8, <1>9, <1>10, <1>11

LEMMA TypeGroupEpisode ==
    ASSUME TypeInv, GroupEpisode, Apart
    PROVE  TypeInv'
  <1> DEFINE r == Identity.root
  <1> USE DEF TypeInv, Apart, directory, discovery, localText
  <1>1. /\ groups' = [groups EXCEPT ![r] = Append(@, Identity)]
        /\ next' = next + 1 /\ stage = "sort" /\ next \in DOMAIN result
        /\ Identity.type = "tv" /\ ~IsDir(Identity.path)
        /\ UNCHANGED <<stage, look, inside, at, files, result, notes, tasks, show,
                      unmatched, described, locals>>
    BY DEF GroupEpisode, WithEntry, Expected, Sorting, TypeOK
  <1>2. Identity \in Item /\ r \in Places
    BY <1>1, IdentityTyped DEF Identity
  <1>3. groups \in [Places -> Seq(Item)]
    BY DEF TypeOK
  <1>4. /\ groups' \in [Places -> Seq(Item)]
        /\ \A d \in Places : d # r => groups'[d] = groups[d]
        /\ groups'[r] = Append(groups[r], Identity)
    BY <1>1, <1>2, <1>3
  <1>5. NothingLocal /\ NothingLocal'
    BY <1>1 DEF Phases, NothingLocal
  <1>6. TypeOK'
    BY <1>1, <1>4, <1>5 DEF TypeOK, NothingLocal
  <1>7. Phases'
    BY <1>1, <1>5 DEF Phases
  <1>8. ASSUME NEW d \in Places, NEW n \in DOMAIN groups'[d]
        PROVE  \E m \in 1..next :
                 /\ groups'[d][n] = result[m] /\ result[m].type = "tv" /\ result[m].root = d
                 /\ ~IsDir(result[m].path)
    <2>1. next \in Nat \ {0} /\ next \in 1..next
      BY <1>1 DEF TypeOK
    <2>2. groups[d] \in Seq(Item) /\ Identity = result[next]
      BY <1>3 DEF Identity
    <2>3. CASE d = r /\ n = Len(groups[r]) + 1
      <3>1. groups'[d][n] = Identity
        BY <1>4, <2>2, <2>3
      <3> QED
        BY <1>1, <2>1, <2>2, <2>3, <3>1
    <2>4. CASE ~(d = r /\ n = Len(groups[r]) + 1)
      <3>1. n \in DOMAIN groups[d] /\ groups'[d][n] = groups[d][n]
        <4>1. CASE d # r
          BY <1>4, <4>1
        <4>2. CASE d = r
          <5>1. groups'[d] = Append(groups[d], Identity) /\ n # Len(groups[d]) + 1
            BY <1>4, <2>4, <4>2
          <5> QED
            BY <1>2, <2>2, <5>1
        <4> QED
          BY <4>1, <4>2
      <3> QED
        BY <2>1, <3>1 DEF FromAnswer
    <2> QED
      BY <2>3, <2>4
  <1>9. FromAnswer'
    <2>1. next \in Nat /\ Len(result) \in Nat /\ next' - 1 = next /\ next <= Len(result)
      BY <1>1 DEF TypeOK
    <2>2. \A n \in DOMAIN result' : ValidIdentity(result'[n])
      BY <1>1 DEF FromAnswer
    <2> QED
      BY <1>1, <1>8, <2>1, <2>2 DEF FromAnswer, IsDir
  <1>10. Paired'
    <2>1. show.root = NoPlace
      BY <1>1 DEF Phases, ShowOf
    <2> QED
      BY <1>1, <2>1 DEF Paired
  <1> QED
    BY <1>6, <1>7, <1>9, <1>10

\* Stages that follow one another without a change.
LEMMA TypeStageOnly ==
    ASSUME TypeInv, Apart, UNCHANGED preparation,
           stage \in {"sort", "shows"}, stage' \in {"shows", "planned", "failed", "refused"}
    PROVE  TypeInv'
  <1> USE DEF TypeInv, Apart, directory, discovery, localText, preparation, sorting
  <1>1. NothingLocal /\ NothingLocal'
    BY DEF Phases, NothingLocal
  <1>2. TypeOK' /\ Phases'
    BY <1>1 DEF TypeOK, Phases
  <1>3. stage = "sort" => show.root = NoPlace
    BY DEF Phases, ShowOf
  <1>4. FromAnswer' /\ Paired'
    BY <1>3 DEF FromAnswer, Paired, IsDir
  <1> QED
    BY <1>2, <1>4

\* Only the show at hand changes.
LEMMA TypeShowOnly ==
    ASSUME TypeInv, Apart, UNCHANGED <<sorting, tasks>>,
           stage = "shows", stage' \in {"shows", "refused"},
           show' \in ShowSet, show'.entry >= 1, Len(show'.keys) = show'.entry - 1,
           show'.root # NoPlace =>
             /\ groups[show'.root] # <<>> /\ show'.entry <= Len(groups[show'.root]) + 1
             /\ stage' = "shows" => notes.source[show'.root] # BadRef
             /\ show'.entry > 1 => notes.id[show'.root] # BadId
    PROVE  TypeInv'
  <1> USE DEF TypeInv, Apart, directory, discovery, localText, sorting
  <1>1. NothingLocal /\ NothingLocal'
    BY DEF Phases, NothingLocal
  <1>2. TypeOK' /\ Phases'
    BY <1>1 DEF TypeOK, Phases
  <1>3. FromAnswer' /\ Paired'
    BY DEF FromAnswer, Paired, IsDir
  <1> QED
    BY <1>2, <1>3

LEMMA ShowOfTyped ==
    \A d \in Places \cup {NoPlace} :
        /\ ShowOf(d) \in ShowSet /\ ShowOf(d).root = d /\ ShowOf(d).entry = 1
        /\ ShowOf(d).keys = <<>>
  BY DEF ShowOf, ShowSet

LEMMA TypeBeginShow ==
    ASSUME TypeInv, Apart, UNCHANGED <<sorting, tasks>>,
           stage = "shows", stage' \in {"shows", "refused"},
           NEW d \in Waiting, show' = ShowOf(d), stage' = "shows" => notes.source[d] # BadRef
    PROVE  TypeInv'
  <1>1. d \in Places /\ groups[d] # <<>> /\ groups[d] \in Seq(Item)
    BY DEF Waiting, TypeInv, TypeOK
  <1>2. /\ show' \in ShowSet /\ show'.root = d /\ show'.entry = 1 /\ show'.keys = <<>>
    BY <1>1, ShowOfTyped
  <1>3. show'.entry <= Len(groups[d]) + 1 /\ Len(show'.keys) = show'.entry - 1
    BY <1>1, <1>2
  <1> QED
    BY <1>1, <1>2, <1>3, TypeShowOnly

\* The show at hand, and the entry that is read next.
LEMMA InShowTyped ==
    ASSUME TypeInv, InShow
    PROVE  /\ show.root \in Places /\ Inputs \in Seq(Item) /\ Len(Inputs) \in Nat \ {0}
           /\ DOMAIN Inputs = 1..Len(Inputs)
           /\ show.entry \in Nat \ {0} /\ show.entry <= Len(Inputs) + 1
           /\ show.keys \in Seq(Key) /\ Len(show.keys) = show.entry - 1
           /\ show \in ShowSet /\ notes.source[show.root] # BadRef
           /\ show.entry > 1 => notes.id[show.root] # BadId
  BY DEF TypeInv, TypeOK, InShow, Inputs, ShowSet, Paired

LEMMA TypeReadEntry ==
    ASSUME TypeInv, ReadEntry, Apart
    PROVE  TypeInv'
  <1>1. /\ InShow /\ show.entry <= Len(Inputs) /\ EntryFits(Entry)
        /\ UNCHANGED <<sorting, tasks>> /\ stage = "shows" /\ stage' = "shows"
    BY DEF ReadEntry, InShow
  <1>2. /\ show.root \in Places /\ show.entry \in DOMAIN Inputs /\ show.entry \in Nat
        /\ show.keys \in Seq(Key) /\ Len(show.keys) = show.entry - 1 /\ show \in ShowSet
        /\ Inputs = groups[show.root] /\ show.root # NoPlace
    BY <1>1, InShowTyped DEF Inputs, InShow
  <1>3. /\ Entry \in Item /\ Entry.path \in Entries /\ Entry.names \in SUBSET Titles
        /\ Entry.tmdb \in Ids \cup {NoId} /\ Entry.thetvdb \in Ids \cup {NoId}
    BY <1>2, EntryTyped DEF Entry, Inputs
  <1>4. KeyOf(Entry, show.root) \in Key
    BY <1>1, <1>2, <1>3, KeyTyped DEF EntryFits, TypeInv
  <1>5. CommonNames(Entry) \in SUBSET Titles
    BY <1>2, <1>3 DEF CommonNames, ShowSet
  <1>6. /\ show' \in ShowSet /\ show'.root = show.root /\ show'.entry = show.entry + 1
        /\ show'.keys = Append(show.keys, KeyOf(Entry, show.root))
    <2> DEFINE t == IF Entry.tmdb = NoId THEN show.tmdb ELSE Entry.tmdb
               tc == IF Entry.tmdb = NoId THEN show.tmdbCount ELSE show.tmdbCount + 1
               v == IF Entry.thetvdb = NoId THEN show.thetvdb ELSE Entry.thetvdb
               vc == IF Entry.thetvdb = NoId THEN show.theTVDBCount ELSE show.theTVDBCount + 1
               k == Append(show.keys, KeyOf(Entry, show.root))
    <2>1. show' = [show EXCEPT !.entry = @ + 1, !.tmdb = t, !.tmdbCount = tc, !.thetvdb = v,
                               !.theTVDBCount = vc, !.commonNames = CommonNames(Entry),
                               !.keys = k]
      BY DEF ReadEntry
    <2>2. /\ show.entry + 1 \in Nat /\ t \in Ids \cup {NoId} /\ tc \in Nat
          /\ v \in Ids \cup {NoId} /\ vc \in Nat /\ k \in Seq(Key)
      BY <1>2, <1>3, <1>4 DEF ShowSet
    <2> HIDE DEF t, tc, v, vc, k
    <2>3. show' \in ShowSet /\ show'.root = show.root /\ show'.entry = show.entry + 1
      BY <1>2, <1>5, <2>1, <2>2 DEF ShowSet
    <2>4. show'.keys = k
      BY <1>2, <2>1 DEF ShowSet
    <2> QED
      BY <2>3, <2>4 DEF k
  <1>7. Len(show'.keys) = show'.entry - 1
    BY <1>2, <1>4, <1>6
  <1>8. show'.entry <= Len(groups[show.root]) + 1 /\ groups[show.root] # <<>>
    BY <1>1, <1>2, <1>6, InShowTyped
  <1>9. notes.source[show.root] # BadRef /\ notes.id[show.root] # BadId
    BY <1>1, InShowTyped DEF EntryFits, Readable
  <1> QED
    BY <1>1, <1>2, <1>6, <1>7, <1>8, <1>9, TypeShowOnly

LEMMA ShowTyped ==
    ASSUME TypeInv, FinishShow
    PROVE  /\ [kind |-> "show", root |-> show.root, ref |-> ShowRef,
               hints |-> Hints(show.tmdb, show.thetvdb), videos |-> PathsOf(Inputs),
               keys |-> show.keys] \in Task
           /\ Len(PathsOf(Inputs)) = Len(show.keys) /\ PathsOf(Inputs) # <<>>
  <1> DEFINE r == show.root
  <1>1. InShow /\ show.entry > Len(Inputs)
    BY DEF FinishShow
  <1>2. /\ r \in Places /\ Inputs \in Seq(Item) /\ Len(Inputs) \in Nat \ {0}
        /\ DOMAIN Inputs = 1..Len(Inputs) /\ show \in ShowSet /\ Inputs = groups[r]
        /\ show.keys \in Seq(Key) /\ Len(show.keys) = Len(Inputs)
        /\ notes.source[r] # BadRef /\ notes.id[r] # BadId
    <2>1. show.entry = Len(Inputs) + 1
      BY <1>1, InShowTyped
    <2> QED
      BY <1>1, <2>1, InShowTyped DEF Inputs
  <1>3. ShowRef \in Ref
    <2>1. notes.source[r] \in Ref /\ notes.id[r] \in Ids \cup {NoId} /\ NoId \in Ids \cup {NoId}
      BY <1>2, NotesTyped DEF TypeInv
    <2> QED
      BY <2>1, RefTyped DEF ShowRef, GroupRef, Numbered
  <1>4. Hints(show.tmdb, show.thetvdb) \subseteq Ref
    BY <1>2, HintsTyped DEF ShowSet
  <1>5. /\ PathsOf(Inputs) \in Seq(Entries) /\ Len(PathsOf(Inputs)) = Len(Inputs)
        /\ PathsOf(Inputs) # <<>>
    <2>1. \A n \in DOMAIN Inputs : Inputs[n].path \in Entries
      BY <1>2, EntryTyped
    <2>2. PathsOf(Inputs) \in [1..Len(Inputs) -> Entries]
      BY <1>2, <2>1 DEF PathsOf
    <2> QED
      BY <1>2, <2>1, <2>2
  <1> QED
    BY <1>2, <1>3, <1>4, <1>5 DEF Task

LEMMA TypeFinishShow ==
    ASSUME TypeInv, FinishShow, Apart
    PROVE  TypeInv'
  <1> DEFINE r == show.root
             task == [kind |-> "show", root |-> r, ref |-> ShowRef,
                      hints |-> Hints(show.tmdb, show.thetvdb), videos |-> PathsOf(Inputs),
                      keys |-> show.keys]
  <1> USE DEF Apart, directory, discovery, localText
  <1>1. /\ InShow /\ show.entry > Len(Inputs) /\ stage = "shows"
        /\ tasks' = Append(tasks, task) /\ show' = ShowOf(NoPlace)
        /\ UNCHANGED <<stage, look, inside, at, files, result, notes, next, groups,
                      unmatched, described, locals>>
    BY DEF FinishShow, InShow, sorting
  <1>2. show.keys \in Seq(Key) /\ DOMAIN Inputs = 1..Len(Inputs)
    BY <1>1, InShowTyped DEF Inputs
  <1>5. Len(PathsOf(Inputs)) = Len(show.keys) /\ PathsOf(Inputs) # <<>>
    BY ShowTyped
  <1>6. task \in Task
    BY ShowTyped
  <1>7. NothingLocal /\ NothingLocal'
    BY <1>1 DEF TypeInv, Phases, NothingLocal
  <1>8. show' \in ShowSet /\ show'.root = NoPlace /\ show'.entry = 1 /\ show'.keys = <<>>
    BY <1>1, ShowOfTyped
  <1>9. task.videos = PathsOf(Inputs) /\ task.keys = show.keys
    OBVIOUS
  <1> HIDE DEF task
  <1>10. tasks' \in Seq(Task) /\ tasks \in Seq(Task)
    BY <1>1, <1>6 DEF TypeInv, TypeOK
  <1>11. TypeOK' /\ Phases'
    BY <1>1, <1>7, <1>8, <1>10 DEF TypeInv, TypeOK, Phases, NothingLocal
  <1>12. FromAnswer'
    BY <1>1 DEF TypeInv, FromAnswer, IsDir
  <1>13. Paired'
    BY <1>1, <1>2, <1>5, <1>8, <1>9, <1>10 DEF TypeInv, Paired
  <1> QED
    BY <1>11, <1>12, <1>13 DEF TypeInv

LEMMA TypePrepare ==
    ASSUME TypeInv, Prepare
    PROVE  TypeInv'
  <1>1. Apart /\ PreparationStep
    BY DEF Prepare, Apart
  <1>2. CASE RefuseIdentity \/ RefuseMovie \/ Sorted \/ Planned
    BY <1>1, <1>2, TypeStageOnly
       DEF RefuseIdentity, RefuseMovie, Sorted, Planned, Sorting, Expected, BetweenShows
  <1>3. CASE BeginShow
    BY <1>1, <1>3, TypeBeginShow DEF BeginShow, BetweenShows, FirstWaiting
  <1>4. CASE RefuseShow
    <2>1. CASE BetweenShows /\ \E d \in Places :
                 FirstWaiting(d) /\ notes.source[d] = BadRef /\ show' = ShowOf(d)
      BY <1>1, <1>4, <2>1, TypeBeginShow DEF RefuseShow, BetweenShows, FirstWaiting
    <2>2. CASE InShow /\ UNCHANGED show
      BY <1>1, <1>4, <2>2, TypeStageOnly DEF RefuseShow, InShow, preparation
    <2> QED
      BY <1>4, <2>1, <2>2 DEF RefuseShow
  <1> QED
    BY <1>1, <1>2, <1>3, <1>4, TypePrepareMovie, TypeGroupEpisode, TypeReadEntry, TypeFinishShow
       DEF PreparationStep

LEMMA TaskTyped ==
    ASSUME TypeInv, NEW n \in DOMAIN tasks
    PROVE  /\ tasks[n] \in Task /\ tasks[n].videos \in Seq(Entries) /\ tasks[n].keys \in Seq(Key)
           /\ 1 \in DOMAIN tasks[n].videos /\ VideosOf(n) \subseteq Entries
           /\ DOMAIN tasks[n].keys \subseteq DOMAIN tasks[n].videos
  <1>1. tasks[n] \in Task /\ tasks[n].videos # <<>> /\ Len(tasks[n].keys) <= Len(tasks[n].videos)
    BY DEF TypeInv, TypeOK, Paired
  <1>2. tasks[n].videos \in Seq(Entries) /\ tasks[n].keys \in Seq(Key)
    BY <1>1 DEF Task
  <1> QED
    BY <1>1, <1>2 DEF VideosOf

Options ==
    [task : DOMAIN tasks, work : Entries, episodes : SUBSET [key : Key, about : Entries]]

LEMMA OptionTyped ==
    ASSUME TypeInv, NEW n \in DOMAIN tasks
    PROVE  OptionOf(n) \in Options
  <1>1. /\ tasks[n].videos \in Seq(Entries) /\ tasks[n].keys \in Seq(Key)
        /\ 1 \in DOMAIN tasks[n].videos
        /\ DOMAIN tasks[n].keys \subseteq DOMAIN tasks[n].videos
    BY TaskTyped
  <1>2. \A m \in DOMAIN tasks[n].keys : tasks[n].keys[m] \in Key /\ tasks[n].videos[m] \in Entries
    BY <1>1
  <1>3. tasks[n].videos[1] \in Entries
    BY <1>1
  <1> QED
    BY <1>2, <1>3 DEF OptionOf, Options

LEMMA TypeDescribe ==
    ASSUME TypeInv, Describe
    PROVE  TypeInv'
  <1> USE DEF directory, discovery, preparation, sorting, localText
  <1>1. /\ UNCHANGED <<look, inside, at, files, result, notes, next, groups, show, tasks>>
        /\ stage \in {"planned", "describe", "local"}
        /\ stage' \in {"describe", "local", "done", "failed"} /\ LocalStep
    BY DEF Describe, LocalStep, Leave, DescribeBatch, AllDescribed, LocalTask, AllLocal
  <1>2. unmatched' \subseteq DOMAIN tasks
    BY <1>1 DEF LocalStep, Leave, DescribeBatch, AllDescribed, LocalTask, AllLocal, TypeInv, TypeOK
  <1>3. described' \subseteq Entries
    <2>1. Undescribed \subseteq Entries /\ described \subseteq Entries
      BY TaskTyped DEF Undescribed, TypeInv, TypeOK
    <2> QED
      BY <1>1, <2>1 DEF LocalStep, Leave, DescribeBatch, AllDescribed, LocalTask, AllLocal
  <1>4. locals' \in Seq(Options)
    <2>1. locals \in Seq(Options) /\ Left \subseteq DOMAIN tasks
      BY DEF TypeInv, TypeOK, Options, Left
    <2>2. locals' = locals \/ \E n \in Left : locals' = Append(locals, OptionOf(n))
      BY <1>1 DEF LocalStep, Leave, DescribeBatch, AllDescribed, LocalTask, AllLocal
    <2> QED
      BY <2>1, <2>2, OptionTyped
  <1>5. TypeOK'
    BY <1>1, <1>2, <1>3, <1>4 DEF TypeInv, TypeOK, Options
  <1>6. Phases'
    BY <1>1 DEF TypeInv, Phases
  <1>7. FromAnswer'
    BY <1>1 DEF TypeInv, FromAnswer, IsDir
  <1>8. Paired'
    BY <1>1 DEF TypeInv, Paired
  <1> QED
    BY <1>5, <1>6, <1>7, <1>8 DEF TypeInv

LEMMA TypeFail ==
    ASSUME TypeInv, Fail \/ UNCHANGED vars
    PROVE  TypeInv'
  <1> USE DEF directory, discovery, preparation, sorting, localText, vars, TypeInv
  <1>1. /\ UNCHANGED <<look, inside, at, files, result, notes, next, groups, show, tasks,
                      unmatched, described, locals>>
        /\ stage' = stage \/ stage' = "failed"
    BY DEF Fail, DiscoveryFails, ExtractionFails, DescribeFails
  <1>2. TypeOK' /\ Phases'
    BY <1>1 DEF TypeOK, Phases, NothingLocal, NothingGrouped
  <1>3. FromAnswer' /\ Paired'
    BY <1>1 DEF FromAnswer, Paired, IsDir
  <1> QED
    BY <1>2, <1>3

LEMMA TypeStep ==
    ASSUME TypeInv, [Next]_vars
    PROVE  TypeInv'
  BY TypeDiscover, TypeExtract, TypePrepare, TypeDescribe, TypeFail DEF Next, Step

\* Every variable keeps to its type, whatever the model answers and the notes
\* say: the episode numbers of keys are ints, references have numbers that are
\* numbers, and texts are of files of the tasks.
THEOREM TypeCorrect == Spec => []TypeOK
  <1>1. TypeInv => TypeOK
    BY DEF TypeInv
  <1> QED
    BY <1>1, TypeInit, TypeStep, PTL DEF Spec

----------------------------------------------------------------------------
(* The walk.                                                                *)

\* The first n entries that a person would take.
Taken(n) == {Walk[m] : m \in {k \in DOMAIN Walk : k < n /\ Eligible(Walk[k])}}

\* Nothing from position n on is in a closed directory before it.
OpenFrom(n) ==
    \A k, m \in DOMAIN Walk : k < n /\ n <= m /\ Closed(Walk[k]) => Walk[m] \notin Below[Walk[k]]

WalkInv ==
    /\ \A m, n \in DOMAIN files : files[m] = files[n] => m = n
    /\ stage \in {"start", "walk"} => Found = Taken(at) /\ OpenFrom(at)
    /\ stage \notin {"start", "walk", "failed"} => Found = {e \in Entries : Eligible(e)}

\* A directory is followed by what it holds, and by nothing else of it.
LEMMA FolderFollows ==
    \A m, n \in DOMAIN Walk :
        Walk[m] \in Below[Walk[n]] <=> n < m /\ m <= n + Cardinality(Below[Walk[n]])
  <1> SUFFICES ASSUME NEW m \in DOMAIN Walk, NEW n \in DOMAIN Walk
               PROVE  Walk[m] \in Below[Walk[n]] <=>
                        n < m /\ m <= n + Cardinality(Below[Walk[n]])
    OBVIOUS
  <1> DEFINE c == Cardinality(Below[Walk[n]])
  <1>1. /\ c \in Nat /\ n + c <= Len(Walk) /\ Below[Walk[n]] = {Walk[k] : k \in (n + 1)..(n + c)}
        /\ DOMAIN Walk = 1..Len(Walk) /\ Len(Walk) \in Nat
    BY TreeAssumption, FolderSize, WalkTyped
  <1>2. \A k \in DOMAIN Walk : Walk[k] = Walk[m] => k = m
    BY TreeAssumption
  <1> HIDE DEF c
  <1> QED
    BY <1>1, <1>2 DEF c

LEMMA ClosedHides ==
    \A d \in Entries : Closed(d) => \A e \in Below[d] : ~Eligible(e)
  BY DEF Eligible

\* The entry at hand is in no closed directory.
LEMMA HereOpen ==
    ASSUME TypeInv, OpenFrom(at), at \in DOMAIN Walk
    PROVE  \A d \in Entries : Walk[at] \in Below[d] => ~Closed(d)
  <1> SUFFICES ASSUME NEW k \in DOMAIN Walk, Walk[at] \in Below[Walk[k]], Closed(Walk[k])
               PROVE  FALSE
    BY DEF Entries
  <1>1. k < at
    BY FolderFollows, WalkTyped
  <1> QED
    BY <1>1, WalkTyped DEF OpenFrom

\* One entry further: nothing that comes before it closes.
LEMMA PassOne ==
    ASSUME TypeInv, OpenFrom(at), at \in DOMAIN Walk, ~Closed(Walk[at])
    PROVE  /\ OpenFrom(at + 1)
           /\ Taken(at + 1) = Taken(at) \cup (IF Eligible(Walk[at]) THEN {Walk[at]} ELSE {})
  <1>1. \A k \in DOMAIN Walk : k \in Int /\ (k < at + 1 <=> k < at \/ k = at)
    BY WalkTyped DEF TypeInv, TypeOK
  <1>2. OpenFrom(at + 1)
    BY <1>1 DEF OpenFrom
  <1>3. Taken(at + 1) = Taken(at) \cup (IF Eligible(Walk[at]) THEN {Walk[at]} ELSE {})
    BY <1>1 DEF Taken
  <1> QED
    BY <1>2, <1>3

\* Past a closed directory: nothing in it would have been taken, and nothing
\* of it comes later.
LEMMA PassClosed ==
    ASSUME TypeInv, OpenFrom(at), at \in DOMAIN Walk, Closed(Walk[at])
    PROVE  LET n == at + 1 + Cardinality(Below[Walk[at]])
           IN  /\ OpenFrom(n)
               /\ Taken(n) = Taken(at) \cup (IF Eligible(Walk[at]) THEN {Walk[at]} ELSE {})
  <1> DEFINE c == Cardinality(Below[Walk[at]])
             n == at + 1 + c
  <1>1. /\ c \in Nat /\ at \in Nat /\ at + c <= Len(Walk) /\ Len(Walk) \in Nat
        /\ DOMAIN Walk = 1..Len(Walk)
    BY TreeAssumption, FolderSize, WalkTyped
  <1>2. \A m \in DOMAIN Walk : Walk[m] \in Below[Walk[at]] <=> at < m /\ m <= at + c
    BY FolderFollows
  <1> HIDE DEF c
  <1>3. OpenFrom(n)
    <2> SUFFICES ASSUME NEW k \in DOMAIN Walk, NEW m \in DOMAIN Walk, k < n, n <= m,
                        Closed(Walk[k]), Walk[m] \in Below[Walk[k]]
                 PROVE  FALSE
      BY DEF OpenFrom
    <2>1. CASE k < at
      BY <1>1, <2>1 DEF OpenFrom
    <2>2. CASE k = at
      BY <1>1, <1>2, <2>2
    <2>3. CASE k > at
      <3>1. Walk[k] \in Below[Walk[at]]
        BY <1>1, <1>2, <2>3
      <3>2. Below[Walk[k]] \subseteq Below[Walk[at]]
        BY <3>1, TreeAssumption, WalkTyped DEF Places
      <3> QED
        BY <1>1, <1>2, <3>2
    <2> QED
      BY <1>1, <2>1, <2>2, <2>3
  <1>4. Taken(n) = Taken(at) \cup (IF Eligible(Walk[at]) THEN {Walk[at]} ELSE {})
    <2>1. \A k \in DOMAIN Walk : at < k /\ k < n => ~Eligible(Walk[k])
      BY <1>1, <1>2, ClosedHides, WalkTyped
    <2>2. \A k \in DOMAIN Walk :
            k < n /\ Eligible(Walk[k]) <=> (k < at \/ k = at) /\ Eligible(Walk[k])
      BY <1>1, <2>1
    <2> QED
      BY <2>2 DEF Taken
  <1> QED
    BY <1>3, <1>4 DEF c

LEMMA AppendInjective ==
    ASSUME NEW S, NEW s \in Seq(S), NEW x \in S, \A m, n \in DOMAIN s : s[m] = s[n] => m = n,
           \A n \in DOMAIN s : s[n] # x
    PROVE  \A m, n \in DOMAIN Append(s, x) : Append(s, x)[m] = Append(s, x)[n] => m = n
  OBVIOUS

\* What is found, after an entry has been put down.
LEMMA AppendFound ==
    ASSUME TypeInv, WalkInv, NEW e \in Entries,
           files' = IF e \in Found THEN files ELSE Append(files, e)
    PROVE  /\ Found' = Found \cup {e}
           /\ (\A m, n \in DOMAIN files : files[m] = files[n] => m = n)'
  <1>1. files \in Seq(Entries) /\ \A m, n \in DOMAIN files : files[m] = files[n] => m = n
    BY DEF TypeInv, TypeOK, WalkInv
  <1>2. CASE e \in Found
    BY <1>1, <1>2 DEF Found
  <1>3. CASE e \notin Found
    <2>1. files' = Append(files, e) /\ \A n \in DOMAIN files : files[n] # e
      BY <1>3 DEF Found
    <2>2. /\ DOMAIN files' = DOMAIN files \cup {Len(files) + 1}
          /\ files'[Len(files) + 1] = e /\ \A n \in DOMAIN files : files'[n] = files[n]
      BY <1>1, <2>1
    <2>3. Found' = Found \cup {e}
      BY <2>2 DEF Found
    <2>4. (\A m, n \in DOMAIN files : files[m] = files[n] => m = n)'
      BY <1>1, <2>1, AppendInjective
    <2> QED
      BY <2>3, <2>4
  <1> QED
    BY <1>2, <1>3

\* A step over the entry at hand that takes it just when a person would.
LEMMA WalkOver ==
    ASSUME TypeInv, WalkInv, Visiting, UNCHANGED <<stage, directory>>,
           at' = (IF Closed(Here) THEN PastFolder ELSE at + 1),
           IF Eligible(Here) THEN appendDiscovered(Here) ELSE UNCHANGED files
    PROVE  WalkInv'
  <1>1. /\ stage = "walk" /\ at \in DOMAIN Walk /\ Here = Walk[at] /\ Here \in Entries
        /\ Found = Taken(at) /\ OpenFrom(at)
    BY WalkTyped DEF Visiting, Here, WalkInv, TypeInv, TypeOK
  <1>2. /\ OpenFrom(at')
        /\ Taken(at') = Taken(at) \cup (IF Eligible(Here) THEN {Here} ELSE {})
    BY <1>1, PassOne, PassClosed DEF PastFolder
  <1>3. /\ Found' = Found \cup (IF Eligible(Here) THEN {Here} ELSE {})
        /\ (\A m, n \in DOMAIN files : files[m] = files[n] => m = n)'
    BY <1>1, AppendFound DEF appendDiscovered, WalkInv, Found
  <1>4. Taken(at') = Taken(at)' /\ (OpenFrom(at') <=> OpenFrom(at)')
    BY DEF Taken, OpenFrom, Eligible, Closed, Filtered, IsRawDisc, Marked, Contents, IsFile, IsDir,
           IsVideo, directory
  <1> QED
    BY <1>1, <1>2, <1>3, <1>4 DEF WalkInv

LEMMA WalkStep ==
    ASSUME TypeInv, WalkInv, Discover
    PROVE  WalkInv'
  <1>1. ASSUME Visiting
        PROVE  /\ Here \in Entries /\ look[Here].form \in {"dir", "file", "link"}
               /\ \A d \in Entries : Here \in Below[d] => ~Closed(d)
    <2>1. at \in DOMAIN Walk /\ OpenFrom(at)
      BY <1>1, WalkTyped DEF Visiting, WalkInv, TypeInv, TypeOK
    <2>2. Here \in Entries /\ look \in [Places -> Look]
      BY <2>1, WalkTyped, LooksAssumption DEF Here, TypeInv, TypeOK
    <2> QED
      BY <2>1, <2>2, HereOpen, EntryPlaces DEF Here, Look
  <1>2. CASE SkipFolder \/ PassEntry \/ LeaveOutDisc
    <2>1. Visiting /\ UNCHANGED <<stage, directory, files>>
      BY <1>2 DEF SkipFolder, PassEntry, LeaveOutDisc, AtDisc
    <2>2. ~Eligible(Here)
      BY <1>2, <2>1 DEF SkipFolder, PassEntry, LeaveOutDisc, AtDisc, Eligible, IsFile, IsDir
    <2>3. at' = IF Closed(Here) THEN PastFolder ELSE at + 1
      BY <1>2, <2>1 DEF SkipFolder, PassEntry, LeaveOutDisc, AtDisc, Closed, IsFile, IsDir, NextEntry
    <2> QED
      BY <2>1, <2>2, <2>3, WalkOver
  <1>3. CASE TakeDisc \/ TakeVideo
    <2>1. Visiting /\ UNCHANGED <<stage, directory>> /\ appendDiscovered(Here)
      BY <1>3 DEF TakeDisc, TakeVideo, AtDisc
    <2>2. Eligible(Here)
      BY <1>1, <1>3, <2>1 DEF TakeDisc, TakeVideo, AtDisc, Eligible
    <2>3. at' = IF Closed(Here) THEN PastFolder ELSE at + 1
      BY <1>3 DEF TakeDisc, TakeVideo, AtDisc, Closed, IsFile, IsDir, NextEntry
    <2> QED
      BY <2>1, <2>2, <2>3, WalkOver
  <1>4. CASE RefuseRoot \/ BeginWalk
    BY <1>4 DEF RefuseRoot, BeginWalk, WalkInv, directory, discovery, Found, Taken, OpenFrom, Eligible,
           Closed, Filtered, IsRawDisc, Marked, Contents, IsFile, IsDir, IsVideo
  <1>5. CASE EndWalk
    <2>1. /\ stage = "walk" /\ at > Len(Walk) /\ stage' \in {"done", "extract"}
          /\ UNCHANGED <<look, inside, at, files>> /\ Found = Taken(at)
      BY <1>5 DEF EndWalk, directory, discovery, WalkInv
    <2>2. \A k \in DOMAIN Walk : k < at
      BY <2>1, WalkTyped DEF TypeInv, TypeOK
    <2>3. Taken(at) = {e \in Entries : Eligible(e)}
      BY <2>2 DEF Taken, Entries
    <2> QED
      BY <2>1, <2>3 DEF WalkInv, Found, Eligible, Closed, Filtered, IsRawDisc, Marked, Contents, IsFile,
             IsDir, IsVideo
  <1> QED
    BY <1>2, <1>3, <1>4, <1>5 DEF Discover, DiscoveryStep

LEMMA WalkNext ==
    ASSUME TypeInv, WalkInv, [Next]_vars
    PROVE  WalkInv'
  <1>1. CASE Discover
    BY <1>1, WalkStep
  <1>2. CASE ~Discover
    <2>1. /\ UNCHANGED <<look, inside, at, files>>
          /\ \/ stage' = stage \/ stage' = "failed"
             \/ stage \notin {"start", "walk", "failed"} /\ stage' \notin {"start", "walk"}
      BY <1>2 DEF Next, Step, Fail, Extract, Prepare, Describe, DiscoveryFails, ExtractionFails,
             DescribeFails, ExtractionStep, AnalyzeBatch, Extracted, LocalStep, Leave, DescribeBatch,
             AllDescribed, LocalTask, AllLocal, PreparationStep, RefuseIdentity, PrepareMovie,
             RefuseMovie, GroupEpisode, Sorted, BeginShow, ReadEntry, FinishShow, RefuseShow, Planned,
             Sorting, Expected, BetweenShows, InShow, vars, directory, discovery
    <2> QED
      BY <2>1 DEF WalkInv, Found, Taken, OpenFrom, Eligible, Closed, Filtered, IsRawDisc, Marked,
             Contents, IsFile, IsDir, IsVideo
  <1> QED
    BY <1>1, <1>2

LEMMA WalkInit == Init => WalkInv
  <1> SUFFICES ASSUME Init PROVE WalkInv
    OBVIOUS
  <1>1. at = 1 /\ files = <<>> /\ stage = "start"
    BY DEF Init, DiscoveryInit
  <1>2. \A k \in DOMAIN Walk : ~(k < at)
    BY <1>1, WalkTyped
  <1>3. Found = {} /\ Taken(at) = {} /\ OpenFrom(at)
    BY <1>1, <1>2 DEF Found, Taken, OpenFrom
  <1> QED
    BY <1>1, <1>3 DEF WalkInv

LEMMA WalkSafe == TypeInv /\ WalkInv => FoundExactly
  <1> SUFFICES ASSUME TypeInv, WalkInv, stage \notin {"start", "walk", "failed"}
               PROVE  /\ Found = {e \in Entries : Eligible(e)}
                      /\ Len(files) = Cardinality(Found)
                      /\ \A e, f \in Found : e \notin Below[f]
    BY DEF FoundExactly
  <1>1. Found = {e \in Entries : Eligible(e)}
    BY DEF WalkInv
  <1>2. Len(files) = Cardinality(Found)
    <2>1. files \in Seq(Entries) /\ \A m, n \in DOMAIN files : files[m] = files[n] => m = n
      BY DEF TypeInv, TypeOK, WalkInv
    <2> QED
      BY <2>1, AllCount DEF Found
  <1>3. ASSUME NEW e \in Found, NEW f \in Found, e \in Below[f] PROVE FALSE
    <2>1. f \in Places /\ look[f].form = "dir"
      BY <1>1, <1>3, EntryPlaces, LooksAssumption DEF TypeInv, TypeOK
    <2>2. Closed(f)
      BY <1>1, <2>1 DEF Eligible, Closed, IsFile, IsDir
    <2> QED
      BY <1>1, <1>3, <2>2 DEF Eligible
  <1> QED
    BY <1>1, <1>2, <1>3

\* Every walk that ends has found exactly the videos of the directory, each
\* once, whatever the tree and its discs and filters (Discover,
\* collector/discovery.go).
THEOREM FoundExact == Spec => []FoundExactly
  <1>1. Init => TypeInv /\ WalkInv
    BY TypeInit, WalkInit
  <1>2. TypeInv /\ WalkInv /\ [Next]_vars => (TypeInv /\ WalkInv)'
    BY TypeStep, WalkNext
  <1> QED
    BY <1>1, <1>2, WalkSafe, PTL DEF Spec

----------------------------------------------------------------------------
(* The answers.                                                             *)

Told == {result[n].path : n \in DOMAIN result}

\* One item for every file of the batches so far.
ToldInv ==
    /\ Len(result) <= Len(files)
    /\ Told = {files[n] : n \in 1..Len(result)}
    /\ \A m, n \in DOMAIN result : result[m].path = result[n].path => m = n
    /\ stage \notin {"start", "walk", "extract", "failed"} => Len(result) = Len(files)

\* An answer that covers a batch tells each of its files once.
LEMMA CoversAll ==
    ASSUME NEW S, NEW paths \in Seq(S), NEW wanted, IsFiniteSet(wanted), Covers(paths, wanted)
    PROVE  {paths[n] : n \in DOMAIN paths} = wanted
  <1> DEFINE T == {paths[n] : n \in DOMAIN paths}
  <1>1. \A m, n \in DOMAIN paths : paths[m] = paths[n] => m = n
    BY DEF Covers
  <1>2. Cardinality(T) = Len(paths)
    BY <1>1, AllCount
  <1>3. Cardinality(T) = Cardinality(wanted)
    BY <1>2 DEF Covers
  <1>4. T \subseteq wanted
    BY DEF Covers
  <1> QED
    BY <1>3, <1>4, FS_Subset

LEMMA PendingCount ==
    ASSUME TypeInv, WalkInv, Len(result) < Len(files)
    PROVE  LET b == LesserOf(Len(result) + Batch, Len(files))
           IN  /\ b \in Nat /\ Len(result) < b /\ b <= Len(files)
               /\ IsFiniteSet(Pending) /\ Cardinality(Pending) = b - Len(result)
  <1> DEFINE b == LesserOf(Len(result) + Batch, Len(files))
  <1>1. /\ Len(result) \in Nat /\ Len(files) \in Nat /\ Batch \in Nat \ {0}
        /\ files \in Seq(Entries) /\ \A m, n \in DOMAIN files : files[m] = files[n] => m = n
    BY ExtractionAssumption DEF TypeInv, TypeOK, WalkInv
  <1>2. b \in Nat /\ Len(result) < b /\ Len(result) <= b /\ b <= Len(files)
    BY <1>1 DEF LesserOf
  <1>3. Pending = {files[n] : n \in (Len(result) + 1)..b}
    BY DEF Pending
  <1> HIDE DEF b
  <1>4. IsFiniteSet(Pending) /\ Cardinality(Pending) = b - Len(result)
    <2> DEFINE I == (Len(result) + 1)..b
    <2>1. IsFiniteSet(I) /\ Cardinality(I) = b - Len(result)
      BY <1>1, <1>2, IntervalSize
    <2>2. \A m, n \in I : files[m] = files[n] => m = n
      BY <1>1, <1>2
    <2> HIDE DEF I
    <2>3. IsFiniteSet({files[n] : n \in I}) /\ Cardinality({files[n] : n \in I}) = Cardinality(I)
      BY <2>1, <2>2, ImageSize
    <2> QED
      BY <1>3, <2>1, <2>3 DEF I
  <1> QED
    BY <1>2, <1>4 DEF b

LEMMA ToldBatch ==
    ASSUME TypeInv, WalkInv, ToldInv, stage = "extract", Len(result) < Len(files),
           NEW reply \in Replies, Acceptable(reply), result' = result \o reply,
           UNCHANGED <<stage, files>>
    PROVE  ToldInv'
  <1> DEFINE k == Len(result)
             b == LesserOf(k + Batch, Len(files))
             paths == PathsOf(reply)
             all == result'
  <1>1. /\ b \in Nat /\ k < b /\ b <= Len(files) /\ k \in Nat
        /\ IsFiniteSet(Pending) /\ Cardinality(Pending) = b - k
        /\ Pending = {files[n] : n \in (k + 1)..b}
    BY PendingCount DEF Pending, TypeInv, TypeOK
  <1>2. /\ reply \in Seq(Item) /\ result \in Seq(Item) /\ files \in Seq(Entries)
        /\ \A m, n \in DOMAIN files : files[m] = files[n] => m = n
    BY ExtractionAssumption DEF TypeInv, TypeOK, WalkInv
  <1>3. paths \in Seq(Entries \cup {Stray}) /\ DOMAIN paths = DOMAIN reply /\ Len(paths) = Len(reply)
        /\ \A n \in DOMAIN reply : paths[n] = reply[n].path
    <2>1. \A n \in DOMAIN reply : reply[n].path \in Entries \cup {Stray}
      <3>1. \A n \in DOMAIN reply : reply[n] \in Item
        BY <1>2
      <3> QED
        BY <3>1 DEF Item
    <2>2. paths \in [1..Len(reply) -> Entries \cup {Stray}]
      BY <1>2, <2>1 DEF PathsOf
    <2> QED
      BY <1>2, <2>2 DEF PathsOf
  <1>4. Covers(paths, Pending)
    BY DEF Acceptable
  <1> HIDE DEF b, paths, k
  <1>5. /\ {paths[n] : n \in DOMAIN paths} = Pending /\ Len(reply) = b - k
        /\ \A m, n \in DOMAIN reply : reply[m].path = reply[n].path => m = n
    BY <1>1, <1>3, <1>4, CoversAll DEF Covers
  <1>6. /\ Len(all) = b /\ DOMAIN all = 1..b
        /\ \A n \in 1..k : all[n] = result[n]
        /\ \A n \in 1..b : n > k => (n - k) \in DOMAIN reply /\ all[n] = reply[n - k]
    BY <1>1, <1>2, <1>5 DEF k, all
  <1> HIDE DEF all
  <1>7. \A n \in 1..k : \E m \in 1..k : result[n].path = files[m]
    <2>1. DOMAIN result = 1..k /\ Told = {files[m] : m \in 1..k}
      BY <1>2 DEF ToldInv, k
    <2> QED
      BY <2>1 DEF Told
  <1>8. \A n \in (k + 1)..b : \E m \in (k + 1)..b : all[n].path = files[m]
    <2> SUFFICES ASSUME NEW n \in (k + 1)..b
                 PROVE  \E m \in (k + 1)..b : all[n].path = files[m]
      OBVIOUS
    <2>1. n \in 1..b /\ n > k
      BY <1>1
    <2>2. n - k \in DOMAIN reply /\ all[n] = reply[n - k]
      BY <1>6, <2>1
    <2>3. all[n].path \in Pending
      BY <1>3, <1>5, <2>2
    <2> QED
      BY <1>1, <2>3
  <1>9. /\ \A n \in 1..b : n \in 1..k \/ n \in (k + 1)..b
        /\ 1..k \subseteq 1..b /\ (k + 1)..b \subseteq 1..b /\ 1..b \subseteq DOMAIN files
        /\ \A m \in 1..k, n \in (k + 1)..b : m # n
    BY <1>1, <1>2
  <1>10. /\ \A n \in 1..b : \E m \in 1..b : all[n].path = files[m]
         /\ \A m \in 1..b : \E n \in 1..b : all[n].path = files[m]
    <2>1. ASSUME NEW n \in 1..b PROVE \E m \in 1..b : all[n].path = files[m]
      <3>1. CASE n \in 1..k
        BY <1>6, <1>7, <1>9, <3>1
      <3>2. CASE n \in (k + 1)..b
        BY <1>8, <1>9, <3>2
      <3> QED
        BY <1>9, <3>1, <3>2
    <2>2. ASSUME NEW m \in 1..k PROVE \E n \in 1..b : all[n].path = files[m]
      <3>1. files[m] \in Told
        BY DEF ToldInv, k
      <3>2. PICK n \in DOMAIN result : result[n].path = files[m]
        BY <3>1 DEF Told
      <3>3. n \in 1..k
        BY <1>2 DEF k
      <3> QED
        BY <1>6, <1>9, <3>2, <3>3
    <2>3. ASSUME NEW m \in (k + 1)..b PROVE \E n \in 1..b : all[n].path = files[m]
      <3>1. files[m] \in Pending
        BY <1>1
      <3>2. PICK n \in DOMAIN reply : reply[n].path = files[m]
        BY <1>3, <1>5, <3>1
      <3>3. n + k \in 1..b /\ n + k > k /\ (n + k) - k = n
        BY <1>1, <1>2, <1>5, <3>2
      <3> QED
        BY <1>6, <3>2, <3>3
    <2>4. \A m \in 1..b : \E n \in 1..b : all[n].path = files[m]
      BY <1>9, <2>2, <2>3
    <2> QED
      BY <1>1, <2>1, <2>4
  <1>11. ASSUME NEW m \in 1..b, NEW n \in 1..b, all[m].path = all[n].path PROVE m = n
    <2>1. CASE m \in 1..k /\ n \in 1..k
      <3>1. m \in DOMAIN result /\ n \in DOMAIN result
        BY <1>2, <2>1 DEF k
      <3> QED
        BY <1>6, <1>11, <2>1, <3>1 DEF ToldInv
    <2>2. CASE m \in (k + 1)..b /\ n \in (k + 1)..b
      <3>1. m > k /\ n > k /\ m \in Int /\ n \in Int
        BY <1>1, <2>2
      <3>2. reply[m - k].path = reply[n - k].path /\ m - k \in DOMAIN reply /\ n - k \in DOMAIN reply
        BY <1>6, <1>11, <3>1
      <3>3. m - k = n - k
        BY <1>5, <3>2
      <3> QED
        BY <1>1, <3>1, <3>3
    <2>3. ASSUME NEW i \in 1..k, NEW j \in (k + 1)..b PROVE all[i].path # all[j].path
      <3>1. PICK f \in 1..k : all[i].path = files[f]
        BY <1>1, <1>6, <1>7
      <3>2. PICK g \in (k + 1)..b : all[j].path = files[g]
        BY <1>8
      <3> QED
        BY <1>2, <1>9, <3>1, <3>2
    <2> QED
      BY <1>9, <1>11, <2>1, <2>2, <2>3
  <1>12. stage' = "extract" /\ files' = files
    OBVIOUS
  <1> QED
    <2>1. Told' = {files[n] : n \in 1..b}
      <3>1. Told' = {all[n].path : n \in 1..b}
        BY <1>6 DEF Told, all
      <3>2. ASSUME NEW x \in Told' PROVE x \in {files[n] : n \in 1..b}
        <4>1. PICK n \in 1..b : x = all[n].path
          BY <3>1
        <4>2. PICK m \in 1..b : all[n].path = files[m]
          BY <1>10
        <4> QED
          BY <4>1, <4>2
      <3>3. {files[n] : n \in 1..b} \subseteq Told'
        BY <1>10, <3>1
      <3> QED
        BY <3>2, <3>3
    <2>2. \A m, n \in DOMAIN all : all[m].path = all[n].path => m = n
      BY <1>6, <1>11
    <2> QED
      BY <1>1, <1>6, <1>12, <2>1, <2>2 DEF ToldInv, all

LEMMA ToldStep ==
    ASSUME TypeInv, WalkInv, ToldInv, [Next]_vars
    PROVE  ToldInv'
  <1>1. CASE AnalyzeBatch /\ Extract
    <2>1. PICK reply \in Replies :
            IF Acceptable(reply) THEN result' = result \o reply /\ UNCHANGED stage
            ELSE stage' = "failed" /\ UNCHANGED result
      BY <1>1 DEF AnalyzeBatch
    <2>2. stage = "extract" /\ Len(result) < Len(files) /\ UNCHANGED files
      BY <1>1 DEF AnalyzeBatch, Extract, discovery
    <2>3. CASE Acceptable(reply)
      BY <2>1, <2>2, <2>3, ToldBatch
    <2>4. CASE ~Acceptable(reply)
      BY <2>1, <2>2, <2>4 DEF ToldInv, Told
    <2> QED
      BY <2>3, <2>4
  <1>2. CASE Discover
    <2>1. result = <<>> /\ result' = <<>> /\ Len(files') \in Nat
      BY <1>2, TypeStep DEF Discover, DiscoveryStep, RefuseRoot, BeginWalk, SkipFolder, PassEntry,
         LeaveOutDisc, TakeDisc, TakeVideo, EndWalk, Visiting, AtDisc, TypeInv, Phases, TypeOK
    <2>2. stage' \in {"walk", "extract", "failed"} \/ (stage' = "done" /\ files' = <<>>)
      BY <1>2 DEF Discover, DiscoveryStep, RefuseRoot, BeginWalk, SkipFolder, PassEntry,
         LeaveOutDisc, TakeDisc, TakeVideo, EndWalk, Visiting, AtDisc, discovery
    <2> QED
      BY <2>1, <2>2 DEF ToldInv, Told
  <1>3. CASE ~Discover /\ ~(AnalyzeBatch /\ Extract)
    <2>1. /\ UNCHANGED <<files, result>>
          /\ \/ stage' = stage \/ stage' = "failed"
             \/ stage = "extract" /\ Len(result) >= Len(files)
             \/ stage \notin {"start", "walk", "extract", "failed"}
      BY <1>3 DEF Next, Step, Fail, Extract, Prepare, Describe, DiscoveryFails, ExtractionFails,
             DescribeFails, ExtractionStep, Extracted, LocalStep, Leave, DescribeBatch,
             AllDescribed, LocalTask, AllLocal, PreparationStep, RefuseIdentity, PrepareMovie,
             RefuseMovie, GroupEpisode, Sorted, BeginShow, ReadEntry, FinishShow, RefuseShow, Planned,
             Sorting, Expected, BetweenShows, InShow, vars, discovery
    <2>2. Len(result) \in Nat /\ Len(files) \in Nat /\ Len(result) <= Len(files)
      BY DEF TypeInv, TypeOK, ToldInv
    <2>3. stage' \notin {"start", "walk", "extract", "failed"} => Len(result) = Len(files)
      BY <2>1, <2>2 DEF ToldInv
    <2>4. Told' = Told /\ {files'[n] : n \in 1..Len(result')} = {files[n] : n \in 1..Len(result)}
      BY <2>1 DEF Told
    <2>5. \A m, n \in DOMAIN result' : result'[m].path = result'[n].path => m = n
      BY <2>1 DEF ToldInv
    <2> QED
      BY <2>1, <2>2, <2>3, <2>4, <2>5 DEF ToldInv
  <1> QED
    BY <1>1, <1>2, <1>3

LEMMA ToldInit == Init => ToldInv
  BY DEF Init, DiscoveryInit, ExtractionInit, ToldInv, Told

----------------------------------------------------------------------------
(* From identities to tasks.                                                *)

SortInv ==
    \* each file told is where it belongs
    /\ \A m \in 1..(next - 1) :
         /\ result[m].type = "tv" =>
              \E n \in DOMAIN groups[result[m].root] : groups[result[m].root][n] = result[m]
         /\ result[m].type = "movie" =>
              \E n \in DOMAIN tasks : tasks[n].kind = "movie" /\ tasks[n].root = result[m].path
    \* and nowhere else
    /\ \A d \in Places : \A m, n \in DOMAIN groups[d] : groups[d][m].path = groups[d][n].path => m = n
    /\ \A n \in DOMAIN tasks :
         /\ tasks[n].kind = "movie" =>
              /\ tasks[n].videos = <<tasks[n].root>>
              /\ \E m \in 1..(next - 1) : result[m].type = "movie" /\ result[m].path = tasks[n].root
         /\ tasks[n].kind = "show" => tasks[n].videos = PathsOf(groups[tasks[n].root])
    /\ \A m, n \in DOMAIN tasks :
         tasks[m].kind = tasks[n].kind /\ tasks[m].root = tasks[n].root => m = n
    \* shows are prepared when all files have been sorted, until none waits
    /\ stage \in {"start", "walk", "extract", "sort"} => \A n \in DOMAIN tasks : tasks[n].kind = "movie"
    /\ show.root # NoPlace => show.root \in Waiting
    /\ stage \notin {"start", "walk", "extract", "sort", "failed", "refused"} => next = Len(result) + 1
    /\ Prepared => Waiting = {} /\ show.root = NoPlace

TellInv == TypeInv /\ WalkInv /\ ToldInv /\ SortInv

\* Before anything is grouped.
LEMMA SortNothing ==
    ASSUME NothingGrouped, show = ShowOf(NoPlace),
           stage \in {"start", "walk", "extract", "sort", "failed", "done"},
           stage = "done" => result = <<>>
    PROVE  SortInv
  <1>1. /\ next = 1 /\ tasks = <<>> /\ \A d \in Places : groups[d] = <<>>
        /\ show.root = NoPlace
    BY DEF NothingGrouped, ShowOf
  <1>2. Waiting = {}
    BY <1>1 DEF Waiting
  <1> QED
    BY <1>1, <1>2 DEF SortInv, Prepared

LEMMA SortInit == Init => SortInv
  <1> SUFFICES ASSUME Init PROVE SortInv
    OBVIOUS
  <1>1. /\ NothingGrouped /\ show = ShowOf(NoPlace) /\ stage = "start" /\ result = <<>>
    BY DEF Init, DiscoveryInit, ExtractionInit, PreparationInit, NothingGrouped
  <1> QED
    BY <1>1, SortNothing

\* Where identities, groups, tasks and the show at hand stay as they are.
LEMMA SortStays ==
    ASSUME TellInv, UNCHANGED <<result, groups, tasks, next, show>>,
           stage' # "sort" => next = Len(result) + 1 \/ stage' \in {"failed", "refused"},
           stage' \in {"start", "walk", "extract", "sort"} => stage \in {"start", "walk", "extract", "sort"},
           Prepared' => Waiting = {} /\ show.root = NoPlace
    PROVE  SortInv'
  <1>1. Waiting' = Waiting
    BY DEF Waiting
  <1> QED
    BY <1>1 DEF TellInv, SortInv

LEMMA SortMovie ==
    ASSUME TellInv, PrepareMovie, Apart
    PROVE  SortInv'
  <1> DEFINE task == [kind |-> "movie", root |-> Identity.path, ref |-> MovieRef(Identity.path),
                      hints |-> Hints(Identity.tmdb, NoId), videos |-> <<Identity.path>>, keys |-> <<>>]
             N == Len(tasks) + 1
  <1>1. /\ tasks' = Append(tasks, task) /\ next' = next + 1 /\ stage = "sort" /\ stage' = "sort"
        /\ UNCHANGED <<result, groups, show>> /\ Identity.type = "movie"
    BY DEF PrepareMovie, Expected, Sorting, Apart
  <1>2. /\ task.kind = "movie" /\ task.root = Identity.path /\ task.videos = <<Identity.path>>
    OBVIOUS
  <1> HIDE DEF task
  <1>3. /\ next \in Nat \ {0} /\ next \in DOMAIN result /\ DOMAIN result = 1..Len(result)
        /\ tasks \in Seq(Task) /\ Identity = result[next] /\ Len(result) \in Nat
    BY DEF TellInv, TypeInv, TypeOK, PrepareMovie, Expected, Sorting, Identity
  <1>4. /\ DOMAIN tasks' = DOMAIN tasks \cup {N} /\ tasks'[N] = task /\ N \notin DOMAIN tasks
        /\ \A n \in DOMAIN tasks : tasks'[n] = tasks[n]
    BY <1>1, <1>3
  <1>5. /\ 1..(next' - 1) = 1..(next - 1) \cup {next} /\ 1..(next - 1) \subseteq DOMAIN result
        /\ next \notin 1..(next - 1)
    BY <1>1, <1>3
  <1>6. \A n \in DOMAIN tasks : tasks[n].kind = "movie" => tasks[n].root # Identity.path
    BY <1>3, <1>5 DEF TellInv, SortInv, ToldInv
  <1> HIDE DEF N
  <1>7. ASSUME NEW m \in 1..(next' - 1)
        PROVE  /\ result[m].type = "tv" =>
                    \E n \in DOMAIN groups[result[m].root] : groups[result[m].root][n] = result[m]
               /\ result[m].type = "movie" =>
                    \E n \in DOMAIN tasks' : tasks'[n].kind = "movie" /\ tasks'[n].root = result[m].path
    <2>1. CASE m = next
      BY <1>1, <1>2, <1>3, <1>4, <2>1
    <2>2. CASE m # next
      <3>1. m \in 1..(next - 1)
        BY <1>5, <2>2
      <3> QED
        BY <1>4, <3>1 DEF TellInv, SortInv
    <2> QED
      BY <2>1, <2>2
  <1>8. ASSUME NEW n \in DOMAIN tasks'
        PROVE  /\ tasks'[n].kind = "movie" =>
                    /\ tasks'[n].videos = <<tasks'[n].root>>
                    /\ \E m \in 1..(next' - 1) : result[m].type = "movie" /\ result[m].path = tasks'[n].root
               /\ tasks'[n].kind = "show" => tasks'[n].videos = PathsOf(groups[tasks'[n].root])
               /\ tasks'[n].kind = "movie"
    <2>1. CASE n = N
      BY <1>1, <1>2, <1>3, <1>4, <1>5, <2>1
    <2>2. CASE n # N
      <3>1. n \in DOMAIN tasks /\ tasks'[n] = tasks[n]
        BY <1>4, <2>2
      <3> QED
        BY <1>1, <1>5, <3>1 DEF TellInv, SortInv
    <2> QED
      BY <2>1, <2>2
  <1>9. \A m, n \in DOMAIN tasks' :
          tasks'[m].kind = tasks'[n].kind /\ tasks'[m].root = tasks'[n].root => m = n
    BY <1>2, <1>4, <1>6 DEF TellInv, SortInv
  <1>10. show'.root = NoPlace
    BY <1>1 DEF TellInv, TypeInv, Phases, ShowOf
  <1>11. \A d \in Places : \A m, n \in DOMAIN groups[d] :
           groups[d][m].path = groups[d][n].path => m = n
    BY DEF TellInv, SortInv
  <1>12. stage' = "sort" /\ UNCHANGED <<result, groups, show>>
    BY <1>1
  <1> QED
    BY <1>7, <1>8, <1>9, <1>10, <1>11, <1>12 DEF SortInv, Prepared

LEMMA SortEpisode ==
    ASSUME TellInv, GroupEpisode, Apart
    PROVE  SortInv'
  <1> DEFINE r == Identity.root
             N == Len(groups[r]) + 1
  <1>1. /\ groups' = [groups EXCEPT ![r] = Append(@, Identity)]
        /\ next' = next + 1 /\ stage = "sort" /\ stage' = "sort"
        /\ Identity.type = "tv" /\ UNCHANGED <<result, tasks, show>>
    BY DEF GroupEpisode, WithEntry, Expected, Sorting, Apart
  <1>2. /\ next \in Nat \ {0} /\ next \in DOMAIN result /\ DOMAIN result = 1..Len(result)
        /\ Identity = result[next] /\ Len(result) \in Nat /\ groups \in [Places -> Seq(Item)]
    BY DEF TellInv, TypeInv, TypeOK, GroupEpisode, Expected, Sorting, Identity
  <1>3. r \in Places /\ Identity \in Item
    BY <1>1, <1>2, IdentityTyped DEF TellInv
  <1>4. /\ DOMAIN groups'[r] = DOMAIN groups[r] \cup {N} /\ groups'[r][N] = Identity
        /\ N \notin DOMAIN groups[r]
        /\ \A n \in DOMAIN groups[r] : groups'[r][n] = groups[r][n]
    <2>1. groups[r] \in Seq(Item) /\ groups'[r] = Append(groups[r], Identity)
      BY <1>1, <1>2, <1>3
    <2> QED
      BY <1>3, <2>1
  <1>5. \A d \in Places : d # r => groups'[d] = groups[d]
    BY <1>1, <1>2, <1>3
  <1>6. /\ 1..(next' - 1) = 1..(next - 1) \cup {next} /\ 1..(next - 1) \subseteq DOMAIN result
        /\ next \notin 1..(next - 1)
    BY <1>1, <1>2
  <1> HIDE DEF N
  <1>7. ASSUME NEW n \in DOMAIN groups[r] PROVE groups[r][n].path # Identity.path
    <2>1. PICK m \in 1..(next - 1) : groups[r][n] = result[m]
      BY <1>3 DEF TellInv, TypeInv, FromAnswer
    <2>2. m \in DOMAIN result /\ m # next
      BY <1>6
    <2> QED
      BY <1>2, <2>1, <2>2 DEF TellInv, ToldInv
  <1>8. ASSUME NEW m \in 1..(next' - 1)
        PROVE  /\ result[m].type = "tv" =>
                    \E n \in DOMAIN groups'[result[m].root] : groups'[result[m].root][n] = result[m]
               /\ result[m].type = "movie" =>
                    \E n \in DOMAIN tasks : tasks[n].kind = "movie" /\ tasks[n].root = result[m].path
    <2>1. CASE m = next
      BY <1>1, <1>2, <1>4, <2>1
    <2>2. CASE m # next
      <3>1. m \in 1..(next - 1) /\ m \in DOMAIN result
        BY <1>6, <2>2
      <3>2. result[m].type = "tv" => result[m].root \in Places
        BY <3>1, IdentityTyped DEF TellInv
      <3>3. /\ result[m].type = "tv" =>
                 \E n \in DOMAIN groups[result[m].root] : groups[result[m].root][n] = result[m]
            /\ result[m].type = "movie" =>
                 \E n \in DOMAIN tasks : tasks[n].kind = "movie" /\ tasks[n].root = result[m].path
        BY <3>1 DEF TellInv, SortInv
      <3> QED
        BY <1>4, <1>5, <3>2, <3>3
    <2> QED
      BY <2>1, <2>2
  <1>9. ASSUME NEW d \in Places, NEW m \in DOMAIN groups'[d], NEW n \in DOMAIN groups'[d],
               groups'[d][m].path = groups'[d][n].path
        PROVE  m = n
    <2>1. CASE d # r
      BY <1>5, <1>9, <2>1 DEF TellInv, SortInv
    <2>2. CASE d = r
      BY <1>4, <1>7, <1>9, <2>2 DEF TellInv, SortInv
    <2> QED
      BY <2>1, <2>2
  <1>10. \A n \in DOMAIN tasks :
           /\ tasks[n].kind = "movie"
           /\ tasks[n].videos = <<tasks[n].root>>
           /\ \E m \in 1..(next' - 1) : result[m].type = "movie" /\ result[m].path = tasks[n].root
    BY <1>1, <1>6 DEF TellInv, SortInv
  <1>11. show.root = NoPlace
    BY <1>1 DEF TellInv, TypeInv, Phases, ShowOf
  <1>12. \A m, n \in DOMAIN tasks :
           tasks[m].kind = tasks[n].kind /\ tasks[m].root = tasks[n].root => m = n
    BY DEF TellInv, SortInv
  <1> QED
    BY <1>1, <1>8, <1>9, <1>10, <1>11, <1>12 DEF SortInv, Prepared

\* Only the show at hand changes, to one that waits.
LEMMA SortShow ==
    ASSUME TellInv, UNCHANGED <<result, groups, tasks, next>>, stage = "shows",
           stage' \in {"shows", "refused"}, show'.root \in Waiting
    PROVE  SortInv'
  <1>1. Waiting' = Waiting
    BY DEF Waiting
  <1> QED
    BY <1>1 DEF TellInv, SortInv, Prepared

LEMMA SortFinish ==
    ASSUME TellInv, FinishShow, Apart
    PROVE  SortInv'
  <1> DEFINE r == show.root
             task == [kind |-> "show", root |-> r, ref |-> ShowRef,
                      hints |-> Hints(show.tmdb, show.thetvdb), videos |-> PathsOf(Inputs),
                      keys |-> show.keys]
             N == Len(tasks) + 1
  <1>1. /\ tasks' = Append(tasks, task) /\ show' = ShowOf(NoPlace) /\ stage = "shows" /\ stage' = "shows"
        /\ UNCHANGED <<result, groups, next>> /\ r # NoPlace
    BY DEF FinishShow, InShow, sorting, Apart
  <1>2. task.kind = "show" /\ task.root = r /\ task.videos = PathsOf(groups[r])
    BY DEF Inputs
  <1> HIDE DEF task
  <1>3. tasks \in Seq(Task) /\ show'.root = NoPlace
    BY <1>1 DEF TellInv, TypeInv, TypeOK, ShowOf
  <1>4. /\ DOMAIN tasks' = DOMAIN tasks \cup {N} /\ tasks'[N] = task /\ N \notin DOMAIN tasks
        /\ \A n \in DOMAIN tasks : tasks'[n] = tasks[n]
    BY <1>1, <1>3
  <1>5. \A n \in DOMAIN tasks : tasks[n].kind = "show" => tasks[n].root # r
    BY <1>1 DEF TellInv, SortInv, Waiting
  <1>6. stage' = "shows" /\ UNCHANGED <<result, groups, next>> /\ next = Len(result) + 1
    BY <1>1 DEF TellInv, SortInv
  <1> HIDE DEF N
  <1>7. \A m \in 1..(next - 1) :
          /\ result[m].type = "tv" =>
               \E n \in DOMAIN groups[result[m].root] : groups[result[m].root][n] = result[m]
          /\ result[m].type = "movie" =>
               \E n \in DOMAIN tasks' : tasks'[n].kind = "movie" /\ tasks'[n].root = result[m].path
    BY <1>4 DEF TellInv, SortInv
  <1>8. ASSUME NEW n \in DOMAIN tasks'
        PROVE  /\ tasks'[n].kind = "movie" =>
                    /\ tasks'[n].videos = <<tasks'[n].root>>
                    /\ \E m \in 1..(next - 1) : result[m].type = "movie" /\ result[m].path = tasks'[n].root
               /\ tasks'[n].kind = "show" => tasks'[n].videos = PathsOf(groups[tasks'[n].root])
    <2>1. CASE n = N
      BY <1>2, <1>4, <2>1
    <2>2. CASE n # N
      <3>1. n \in DOMAIN tasks /\ tasks'[n] = tasks[n]
        BY <1>4, <2>2
      <3> QED
        BY <3>1 DEF TellInv, SortInv
    <2> QED
      BY <2>1, <2>2
  <1>9. \A m, n \in DOMAIN tasks' :
          tasks'[m].kind = tasks'[n].kind /\ tasks'[m].root = tasks'[n].root => m = n
    BY <1>2, <1>4, <1>5 DEF TellInv, SortInv
  <1>10. \A d \in Places : \A m, n \in DOMAIN groups[d] :
           groups[d][m].path = groups[d][n].path => m = n
    BY DEF TellInv, SortInv
  <1> QED
    BY <1>3, <1>6, <1>7, <1>8, <1>9, <1>10 DEF SortInv, Prepared, PathsOf

LEMMA SortPrepare ==
    ASSUME TellInv, Prepare
    PROVE  SortInv'
  <1>1. Apart /\ PreparationStep /\ UNCHANGED result
    BY DEF Prepare, Apart
  <1>2. CASE RefuseIdentity \/ RefuseMovie \/ Sorted \/ Planned
    <2>1. next \in Nat /\ Len(result) \in Nat /\ next <= Len(result) + 1
      BY DEF TellInv, TypeInv, TypeOK, FromAnswer
    <2>2. UNCHANGED <<result, groups, tasks, next, show>> /\ stage' # "sort"
      BY <1>1, <1>2 DEF RefuseIdentity, RefuseMovie, Sorted, Planned, preparation, sorting
    <2>3. next = Len(result) + 1 \/ stage' \in {"failed", "refused"}
      BY <1>2, <2>1 DEF RefuseIdentity, RefuseMovie, Sorted, Planned, BetweenShows, TellInv, SortInv
    <2>4. Prepared' => Waiting = {} /\ show.root = NoPlace
      BY <1>2 DEF RefuseIdentity, RefuseMovie, Sorted, Planned, BetweenShows, Prepared
    <2>5. stage' \notin {"start", "walk", "extract", "sort"}
      BY <1>2 DEF RefuseIdentity, RefuseMovie, Sorted, Planned
    <2> QED
      BY <2>2, <2>3, <2>4, <2>5, SortStays
  <1>3. CASE BeginShow
    BY <1>1, <1>3, SortShow DEF BeginShow, BetweenShows, FirstWaiting, ShowOf, sorting
  <1>4. CASE RefuseShow
    <2>1. stage = "shows" /\ stage' = "refused" /\ UNCHANGED <<result, groups, tasks, next>>
      BY <1>1, <1>4 DEF RefuseShow, BetweenShows, InShow, sorting
    <2>2. show'.root \in Waiting
      BY <1>4 DEF RefuseShow, FirstWaiting, ShowOf, InShow, TellInv, SortInv
    <2> QED
      BY <2>1, <2>2, SortShow
  <1>5. CASE ReadEntry
    <2>1. stage = "shows" /\ stage' = "shows" /\ UNCHANGED <<result, groups, tasks, next>> /\ InShow
      BY <1>1, <1>5 DEF ReadEntry, InShow, sorting
    <2>2. show'.root = show.root
      BY <1>5, <2>1, InShowTyped DEF ReadEntry, TellInv, ShowSet
    <2> QED
      BY <2>1, <2>2, SortShow DEF TellInv, SortInv, InShow
  <1> QED
    BY <1>1, <1>2, <1>3, <1>4, <1>5, SortMovie, SortEpisode, SortFinish DEF PreparationStep

LEMMA SortStep ==
    ASSUME TellInv, [Next]_vars
    PROVE  SortInv'
  <1>1. CASE Discover \/ Extract
    <2>1. stage \in {"start", "walk", "extract"} /\ UNCHANGED preparation
      BY <1>1 DEF Discover, Extract, DiscoveryStep, RefuseRoot, BeginWalk, SkipFolder, PassEntry,
         LeaveOutDisc, TakeDisc, TakeVideo, EndWalk, Visiting, AtDisc, ExtractionStep, AnalyzeBatch,
         Extracted
    <2>2. NothingGrouped' /\ show' = ShowOf(NoPlace)
      BY <2>1 DEF TellInv, TypeInv, Phases, NothingGrouped, preparation, sorting
    <2>3. stage' \in {"walk", "extract", "sort", "failed", "done"} /\ (stage' = "done" => result' = <<>>)
      BY <1>1 DEF Discover, Extract, DiscoveryStep, RefuseRoot, BeginWalk, SkipFolder, PassEntry,
         LeaveOutDisc, TakeDisc, TakeVideo, EndWalk, Visiting, AtDisc, ExtractionStep, AnalyzeBatch,
         Extracted, TellInv, TypeInv, Phases
    <2>4. ShowOf(NoPlace)' = ShowOf(NoPlace)
      BY DEF ShowOf
    <2> QED
      BY <2>2, <2>3, <2>4 DEF NothingGrouped, SortInv, Prepared, Waiting, ShowOf
  <1>2. CASE Prepare
    BY <1>2, SortPrepare
  <1>3. CASE Describe \/ Fail \/ UNCHANGED vars
    <2>1. /\ UNCHANGED <<result, groups, tasks, next, show>>
          /\ \/ stage' \in {stage, "failed"}
             \/ Prepared /\ Prepared'
      BY <1>3 DEF Describe, Fail, LocalStep, Leave, DescribeBatch, AllDescribed, LocalTask, AllLocal,
         DiscoveryFails, ExtractionFails, DescribeFails, vars, preparation, sorting, Prepared
    <2>2. Waiting' = Waiting
      BY <2>1 DEF Waiting
    <2>3. CASE stage' = stage
      BY <2>1, <2>2, <2>3 DEF TellInv, SortInv, Prepared
    <2>4. CASE stage' = "failed"
      BY <2>1, <2>2, <2>4 DEF TellInv, SortInv, Prepared
    <2>5. CASE Prepared /\ Prepared'
      BY <2>1, <2>2, <2>5 DEF TellInv, SortInv, Prepared
    <2> QED
      BY <2>1, <2>3, <2>4, <2>5
  <1> QED
    BY <1>1, <1>2, <1>3 DEF Next, Step

\* The item of the answer that a video of a task comes from.
LEMMA VideoTold ==
    ASSUME TellInv, NEW n \in DOMAIN tasks, NEW m \in DOMAIN tasks[n].videos
    PROVE  \E i \in DOMAIN result :
             /\ tasks[n].videos[m] = result[i].path
             /\ \/ /\ tasks[n].kind = "movie" /\ result[i].type = "movie"
                   /\ tasks[n].root = result[i].path /\ m = 1
                \/ /\ tasks[n].kind = "show" /\ result[i].type = "tv"
                   /\ tasks[n].root = result[i].root /\ tasks[n].root \in Places
                   /\ ~IsDir(result[i].path) /\ result[i].path \in Below[tasks[n].root]
                   /\ m \in DOMAIN groups[tasks[n].root]
                   /\ groups[tasks[n].root][m].path = result[i].path
  <1>1. tasks[n].kind \in {"movie", "show"} /\ tasks[n].root \in Places
    BY TaskTyped DEF TellInv, Task
  <1>2. 1..(next - 1) \subseteq DOMAIN result
    BY DEF TellInv, TypeInv, TypeOK, FromAnswer
  <1>3. CASE tasks[n].kind = "movie"
    <2>1. PICK i \in 1..(next - 1) : result[i].type = "movie" /\ result[i].path = tasks[n].root
      BY <1>3 DEF TellInv, SortInv
    <2>2. tasks[n].videos = <<tasks[n].root>>
      BY <1>3 DEF TellInv, SortInv
    <2>3. m = 1 /\ tasks[n].videos[m] = tasks[n].root
      BY <2>2
    <2> QED
      BY <1>2, <1>3, <2>1, <2>3
  <1>4. CASE tasks[n].kind = "show"
    <2> DEFINE r == tasks[n].root
    <2>1. tasks[n].videos = PathsOf(groups[r])
      BY <1>4 DEF TellInv, SortInv
    <2>2. m \in DOMAIN groups[r] /\ tasks[n].videos[m] = groups[r][m].path
      BY <2>1 DEF PathsOf
    <2>3. PICK i \in 1..(next - 1) :
            /\ groups[r][m] = result[i] /\ result[i].type = "tv" /\ result[i].root = r
            /\ ~IsDir(result[i].path)
      BY <1>1, <2>2 DEF TellInv, TypeInv, FromAnswer
    <2>4. result[i].path \in Below[r]
      BY <1>2, <2>3, IdentityTyped DEF TellInv
    <2> QED
      BY <1>1, <1>2, <1>4, <2>2, <2>3, <2>4
  <1> QED
    BY <1>1, <1>3, <1>4

LEMMA OncePrepared == TellInv => EveryVideoOnce
  <1> SUFFICES ASSUME TellInv, Prepared PROVE EveryVideoOnce
    BY DEF EveryVideoOnce
  <1>1. /\ Waiting = {} /\ next = Len(result) + 1 /\ Len(result) = Len(files)
        /\ Len(result) \in Nat /\ DOMAIN result = 1..Len(result) /\ DOMAIN result = 1..(next - 1)
        /\ Found = {e \in Entries : Eligible(e)} /\ DOMAIN files = 1..Len(files)
    BY DEF TellInv, SortInv, ToldInv, WalkInv, TypeInv, TypeOK, Prepared
  <1>2. Told = Found
    BY <1>1 DEF TellInv, ToldInv, Found
  <1>3. \A p \in Positions :
          /\ p = <<p[1], p[2]>> /\ p[1] \in DOMAIN tasks /\ p[2] \in DOMAIN tasks[p[1]].videos
    BY DEF Positions
  <1>4. \A n \in DOMAIN tasks : \A m \in DOMAIN tasks[n].videos :
          <<n, m>> \in Positions /\ VideoAt(<<n, m>>) = tasks[n].videos[m]
    BY DEF Positions, VideoAt
  <1>5. ASSUME NEW p \in Positions PROVE VideoAt(p) \in Found
    BY <1>2, <1>3, VideoTold DEF VideoAt, Told
  <1>6. ASSUME NEW e \in Found PROVE \E p \in Positions : VideoAt(p) = e
    <2>1. PICK i \in 1..(next - 1) : result[i].path = e
      BY <1>1, <1>2 DEF Told
    <2>2. CASE result[i].type = "movie"
      <3>1. PICK n \in DOMAIN tasks : tasks[n].kind = "movie" /\ tasks[n].root = e
        BY <2>1, <2>2 DEF TellInv, SortInv
      <3>2. tasks[n].videos = <<e>>
        BY <3>1 DEF TellInv, SortInv
      <3>3. 1 \in DOMAIN tasks[n].videos /\ tasks[n].videos[1] = e
        BY <3>2
      <3> QED
        BY <1>4, <3>3
    <2>3. CASE result[i].type = "tv"
      <3> DEFINE r == result[i].root
      <3>1. r \in Places
        BY <1>1, <2>1, <2>3, IdentityTyped DEF TellInv
      <3>2. PICK k \in DOMAIN groups[r] : groups[r][k] = result[i]
        BY <2>3 DEF TellInv, SortInv
      <3>3. groups[r] # <<>>
        BY <3>2
      <3>4. PICK n \in DOMAIN tasks : tasks[n].kind = "show" /\ tasks[n].root = r
        BY <1>1, <3>1, <3>3 DEF Waiting
      <3>5. tasks[n].videos = PathsOf(groups[r])
        BY <3>4 DEF TellInv, SortInv
      <3>6. k \in DOMAIN tasks[n].videos /\ tasks[n].videos[k] = e
        BY <2>1, <3>2, <3>5 DEF PathsOf
      <3> QED
        BY <1>4, <3>6
    <2>4. result[i].type \in {"movie", "tv"}
      BY <1>1, IdentityTyped DEF TellInv
    <2> QED
      BY <2>2, <2>3, <2>4
  <1>7. ASSUME NEW p \in Positions, NEW q \in Positions, VideoAt(p) = VideoAt(q) PROVE p = q
    <2> DEFINE n == p[1]
               o == q[1]
    <2>1. /\ n \in DOMAIN tasks /\ p[2] \in DOMAIN tasks[n].videos
          /\ o \in DOMAIN tasks /\ q[2] \in DOMAIN tasks[o].videos
          /\ tasks[n].videos[p[2]] = tasks[o].videos[q[2]]
          /\ p = <<p[1], p[2]>> /\ q = <<q[1], q[2]>>
      BY <1>3, <1>7 DEF VideoAt
    <2>2. PICK i \in DOMAIN result :
             /\ tasks[n].videos[p[2]] = result[i].path
             /\ \/ /\ tasks[n].kind = "movie" /\ result[i].type = "movie"
                   /\ tasks[n].root = result[i].path /\ p[2] = 1
                \/ /\ tasks[n].kind = "show" /\ result[i].type = "tv"
                   /\ tasks[n].root = result[i].root /\ tasks[n].root \in Places
                   /\ p[2] \in DOMAIN groups[tasks[n].root]
                   /\ groups[tasks[n].root][p[2]].path = result[i].path
      BY <2>1, VideoTold
    <2>3. PICK j \in DOMAIN result :
             /\ tasks[o].videos[q[2]] = result[j].path
             /\ \/ /\ tasks[o].kind = "movie" /\ result[j].type = "movie"
                   /\ tasks[o].root = result[j].path /\ q[2] = 1
                \/ /\ tasks[o].kind = "show" /\ result[j].type = "tv"
                   /\ tasks[o].root = result[j].root /\ tasks[o].root \in Places
                   /\ q[2] \in DOMAIN groups[tasks[o].root]
                   /\ groups[tasks[o].root][q[2]].path = result[j].path
      BY <2>1, VideoTold
    <2>4. i = j
      BY <2>1, <2>2, <2>3 DEF TellInv, ToldInv
    <2>5. tasks[n].kind = tasks[o].kind /\ tasks[n].root = tasks[o].root
      BY <2>2, <2>3, <2>4
    <2>6. n = o
      BY <2>1, <2>5 DEF TellInv, SortInv
    <2>7. p[2] = q[2]
      BY <2>2, <2>3, <2>4, <2>6 DEF TellInv, SortInv
    <2> QED
      BY <2>1, <2>6, <2>7
  <1>8. \A n \in DOMAIN tasks : tasks[n].kind = "movie" => tasks[n].videos = <<tasks[n].root>>
    BY DEF TellInv, SortInv
  <1>9. ASSUME NEW p \in Positions, tasks[p[1]].kind = "show"
        PROVE  IsFile(VideoAt(p)) /\ VideoAt(p) \in Below[tasks[p[1]].root]
    <2>1. ~IsDir(VideoAt(p)) /\ VideoAt(p) \in Below[tasks[p[1]].root]
      BY <1>3, <1>9, VideoTold DEF VideoAt
    <2> QED
      BY <1>1, <1>5, <2>1 DEF Eligible, IsFile, IsDir
  <1>10. \A m, n \in DOMAIN tasks :
           tasks[m].kind = tasks[n].kind /\ tasks[m].root = tasks[n].root => m = n
    BY DEF TellInv, SortInv
  <1>11. {VideoAt(p) : p \in Positions} = Found
    BY <1>5, <1>6
  <1> QED
    BY <1>7, <1>8, <1>9, <1>10, <1>11 DEF EveryVideoOnce

LEMMA TellAlways == Spec => []TellInv
  <1>1. Init => TellInv
    BY TypeInit, WalkInit, ToldInit, SortInit DEF TellInv
  <1>2. TellInv /\ [Next]_vars => TellInv'
    BY TypeStep, WalkNext, ToldStep, SortStep DEF TellInv
  <1> QED
    BY <1>1, <1>2, PTL DEF Spec

\* Whatever the model answers, in whatever order and batches: when the tasks are
\* prepared every video of the directory is in one of them, once, and no two
\* tasks are for one root (prepareTasks, collector/process.go).
THEOREM AllOnce == Spec => []EveryVideoOnce
  BY TellAlways, OncePrepared, PTL

----------------------------------------------------------------------------
(* References.                                                              *)

\* c says all that a reference with a source says.
Says(c, p) ==
    p.provider # "none" =>
        /\ c.provider = p.provider
        /\ p.id # NoId => c.id = p.id
        /\ p.slug # NoSlug => c.slug = p.slug

LEMMA AgreeBoth ==
    ASSUME NEW a, NEW b
    PROVE  Agree(a, a) /\ (Agree(a, b) <=> Agree(b, a))
  BY DEF Agree

LEMMA CombineTwo ==
    ASSUME NEW a \in Ref, NEW b \in Ref, Agree(a, b)
    PROVE  /\ Says(Combine(a, b), a) /\ Says(Combine(a, b), b)
           /\ Combine(a, b).id # NoId =>
                \E p \in {a, b} : p.id = Combine(a, b).id /\ p.provider = Combine(a, b).provider
           /\ \A c \in Ref : Agree(Combine(a, b), c) <=> Agree(a, c) /\ Agree(b, c)
  <1>1. CASE a.provider = "none" \/ b.provider = "none"
    BY <1>1 DEF Agree, Combine, Says
  <1>2. CASE a.provider # "none" /\ b.provider # "none"
    <2> DEFINE c == Combine(a, b)
    <2>1. /\ c.provider = a.provider /\ a.provider = b.provider
          /\ c.id = IF a.id = NoId THEN b.id ELSE a.id
          /\ c.slug = IF a.slug = NoSlug THEN b.slug ELSE a.slug
          /\ a.id = NoId \/ b.id = NoId \/ a.id = b.id
          /\ a.slug = NoSlug \/ b.slug = NoSlug \/ a.slug = b.slug
      BY <1>2 DEF Combine, Agree, Ref
    <2> HIDE DEF c
    <2>2. Says(c, a) /\ Says(c, b)
      BY <2>1 DEF Says
    <2>3. c.id # NoId => \E p \in {a, b} : p.id = c.id /\ p.provider = c.provider
      BY <2>1
    <2>4. \A d \in Ref : Agree(c, d) <=> Agree(a, d) /\ Agree(b, d)
      BY <1>2, <2>1 DEF Agree
    <2> QED
      BY <2>2, <2>3, <2>4 DEF c
  <1> QED
    BY <1>1, <1>2

\* Three of them, as they are combined for a movie and for a show.
LEMMA CombineThree ==
    ASSUME NEW a \in Ref, NEW b \in Ref, NEW c \in Ref
    PROVE  /\ Agree(a, b) /\ Agree(Combine(a, b), c) <=> \A p, q \in {a, b, c} : Agree(p, q)
           /\ Agree(a, b) /\ Agree(Combine(a, b), c) =>
                LET d == Combine(Combine(a, b), c)
                IN  /\ \A p \in {a, b, c} : Says(d, p)
                    /\ d.id # NoId => \E p \in {a, b, c} : p.id = d.id /\ p.provider = d.provider
  <1> DEFINE e == Combine(a, b)
             d == Combine(e, c)
  <1>1. e \in Ref
    BY RefTyped
  <1>2. Agree(a, b) => /\ Says(e, a) /\ Says(e, b)
                       /\ e.id # NoId => \E p \in {a, b} : p.id = e.id /\ p.provider = e.provider
                       /\ Agree(e, c) <=> Agree(a, c) /\ Agree(b, c)
    BY CombineTwo
  <1> HIDE DEF e
  <1>3. Agree(e, c) => /\ Says(d, e) /\ Says(d, c)
                       /\ d.id # NoId => \E p \in {e, c} : p.id = d.id /\ p.provider = d.provider
    BY <1>1, CombineTwo
  <1> HIDE DEF d
  <1>4. Agree(a, b) /\ Agree(e, c) <=> \A p, q \in {a, b, c} : Agree(p, q)
    BY <1>2, AgreeBoth
  <1>5. ASSUME Agree(a, b), Agree(e, c)
        PROVE  /\ \A p \in {a, b, c} : Says(d, p)
               /\ d.id # NoId => \E p \in {a, b, c} : p.id = d.id /\ p.provider = d.provider
    <2>1. Says(d, a) /\ Says(d, b) /\ Says(d, c)
      BY <1>2, <1>3, <1>5 DEF Says
    <2>2. d.id # NoId => \E p \in {a, b, c} : p.id = d.id /\ p.provider = d.provider
      BY <1>2, <1>3, <1>5
    <2> QED
      BY <2>1, <2>2
  <1> QED
    BY <1>4, <1>5 DEF d, e

LEMMA MovieNotes ==
    ASSUME TypeOK, NEW v \in Entries
    PROVE  /\ ConsistentMovie(v) <=> MovieReadable(v) /\ MovieNotesAgree(v)
           /\ ConsistentMovie(v) =>
                /\ \A p \in MoviePins(v) : Says(MovieRef(v), p)
                /\ MovieRef(v).id # NoId => \E p \in MoviePins(v) : p.id = MovieRef(v).id
  <1> SUFFICES ASSUME MovieReadable(v)
               PROVE  /\ ConsistentMovie(v) <=> MovieNotesAgree(v)
                      /\ ConsistentMovie(v) =>
                           /\ \A p \in MoviePins(v) : Says(MovieRef(v), p)
                           /\ MovieRef(v).id # NoId => \E p \in MoviePins(v) : p.id = MovieRef(v).id
    BY DEF ConsistentMovie
  <1> DEFINE a == notes.source[v]
             b == Numbered(v)
             c == Numbered(Parent[v])
  <1>1. a \in Ref /\ b \in Ref /\ c \in Ref
    BY NotesTyped, EntryPlaces, RefTyped DEF MovieReadable, Numbered
  <1>2. /\ MoviePins(v) = {a, b, c} /\ MovieRef(v) = Combine(Combine(a, b), c)
        /\ MovieNotesAgree(v) <=> Agree(a, b) /\ Agree(Combine(a, b), c)
    BY DEF MoviePins, MovieRef, MovieNotesAgree
  <1> HIDE DEF a, b, c
  <1> QED
    BY <1>1, <1>2, CombineThree DEF ConsistentMovie

----------------------------------------------------------------------------
(* The loop over the entries of a show.                                     *)

\* The key of an entry is its place, and no number of a place is a wrapped one.
LEMMA KeyMeans ==
    ASSUME TypeOK, NEW i \in Item, i.path \in Entries, NEW root \in Places, Readable(i, root)
    PROVE  /\ Located(KeyOf(i, root)) <=> SeasonOf(i) >= 0 /\ EpisodeOf(i) \in 1..MaxInt
           /\ Located(KeyOf(i, root)) =>
                KeyOf(i, root) = [season |-> SeasonOf(i), episode |-> EpisodeOf(i),
                                  group |-> GroupOf(i, root)]
  <1> DEFINE j == JoinOf(i)
             sum == i.episode + (j.start - 1)
  <1>1. /\ MaxInt \in Nat \ {0} /\ i.episode \in Int /\ i.episode <= MaxInt
        /\ j.start \in Int /\ j.start <= MaxInt
    <2>1. j \in Join
      BY NotesTyped, EntryPlaces DEF JoinOf
    <2> QED
      BY <2>1, ExtractionAssumption DEF Join, Item, Ints
  <1>2. /\ KeyOf(i, root).season = SeasonOf(i) /\ KeyOf(i, root).group = GroupOf(i, root)
        /\ KeyOf(i, root).episode = IF Joined(i) THEN Wrapped(sum) ELSE i.episode
        /\ KeyOf(i, root) = [season |-> KeyOf(i, root).season, episode |-> KeyOf(i, root).episode,
                             group |-> KeyOf(i, root).group]
    BY DEF KeyOf, SeasonOf
  <1>3. EpisodeOf(i) = IF Joined(i) THEN sum ELSE i.episode
    BY <1>1 DEF EpisodeOf
  <1>4. Joined(i) => i.episode >= 1 /\ j.start >= 1
    BY DEF Joined, Readable
  <1> HIDE DEF j
  <1>5. Joined(i) => /\ sum \in 1..(2 * MaxInt - 1)
                     /\ Wrapped(sum) >= 1 <=> sum <= MaxInt
                     /\ sum <= MaxInt => Wrapped(sum) = sum
    BY <1>1, <1>4 DEF Wrapped
  <1>6. KeyOf(i, root).episode >= 1 <=> EpisodeOf(i) \in 1..MaxInt
    BY <1>1, <1>2, <1>3, <1>5
  <1>7. KeyOf(i, root).episode >= 1 => KeyOf(i, root).episode = EpisodeOf(i)
    BY <1>1, <1>2, <1>3, <1>5
  <1> QED
    BY <1>2, <1>6, <1>7 DEF Located

\* What the loop knows of the entries before the one at hand.
LoopInv ==
    show.root # NoPlace =>
        /\ \A m \in 1..(show.entry - 1) :
             /\ Readable(Inputs[m], show.root) /\ Located(KeyOf(Inputs[m], show.root))
             /\ show.keys[m] = KeyOf(Inputs[m], show.root)
             /\ Inputs[m].tmdb \in {NoId, show.tmdb} /\ Inputs[m].thetvdb \in {NoId, show.thetvdb}
        /\ show.tmdb # NoId => \E m \in 1..(show.entry - 1) : Inputs[m].tmdb = show.tmdb
        /\ show.thetvdb # NoId => \E m \in 1..(show.entry - 1) : Inputs[m].thetvdb = show.thetvdb
        /\ show.tmdbCount <= show.entry - 1
        /\ show.tmdbCount = show.entry - 1 <=> \A m \in 1..(show.entry - 1) : Inputs[m].tmdb # NoId
        /\ show.theTVDBCount <= show.entry - 1
        /\ show.theTVDBCount = show.entry - 1 <=>
             \A m \in 1..(show.entry - 1) : Inputs[m].thetvdb # NoId
        /\ show.entry > 1 =>
             \A t \in Titles : t \in show.commonNames <=>
                                \A m \in 1..(show.entry - 1) : t \in Inputs[m].names

\* An entry that does not fit contradicts something.
LEMMA UnfitEntry ==
    ASSUME TellInv, LoopInv, InShow, show.entry <= Len(Inputs), ~EntryFits(Entry)
    PROVE  ~Consistent(show.root)
  <1> DEFINE r == show.root
             n == show.entry
  <1>1. /\ r \in Places /\ n \in DOMAIN Inputs /\ n \in Nat \ {0} /\ Inputs = groups[r]
        /\ DOMAIN Inputs = 1..Len(Inputs) /\ Len(Inputs) \in Nat /\ r # NoPlace
    BY InShowTyped DEF TellInv, Inputs, InShow
  <1>2. /\ Entry = groups[r][n] /\ Entry \in Item /\ Entry.path \in Entries
        /\ Entry.path \in Below[r]
    BY <1>1, EntryTyped DEF TellInv, Entry
  <1>3. \A m \in 1..(n - 1) : m \in DOMAIN Inputs /\ Inputs[m].path # Entry.path
    BY <1>1, <1>2 DEF TellInv, SortInv
  <1>4. /\ Entry \in Entered(r) /\ \A m \in 1..(n - 1) : Inputs[m] \in Entered(r)
    BY <1>1, <1>2, <1>3 DEF Entered
  <1>5. CASE ~(Readable(Entry, r) /\ Located(KeyOf(Entry, r)))
    BY <1>1, <1>2, <1>4, <1>5, KeyMeans DEF Consistent, TellInv, TypeInv
  <1>6. CASE ~SameNumber(show.tmdb, Entry.tmdb)
    <2>1. Entry.tmdb # NoId /\ show.tmdb # NoId /\ show.tmdb # Entry.tmdb
      BY <1>6 DEF SameNumber
    <2>2. PICK m \in 1..(n - 1) : Inputs[m].tmdb = show.tmdb
      BY <1>1, <2>1 DEF LoopInv
    <2> QED
      BY <1>4, <2>1, <2>2 DEF Consistent
  <1>7. CASE ~SameNumber(show.thetvdb, Entry.thetvdb)
    <2>1. Entry.thetvdb # NoId /\ show.thetvdb # NoId /\ show.thetvdb # Entry.thetvdb
      BY <1>7 DEF SameNumber
    <2>2. PICK m \in 1..(n - 1) : Inputs[m].thetvdb = show.thetvdb
      BY <1>1, <2>1 DEF LoopInv
    <2> QED
      BY <1>4, <2>1, <2>2 DEF Consistent
  <1> QED
    BY <1>2, <1>3, <1>5, <1>6, <1>7 DEF EntryFits

\* Another entry read.
LEMMA LoopReads ==
    ASSUME TellInv, LoopInv, ReadEntry, UNCHANGED result
    PROVE  LoopInv'
  <1> DEFINE r == show.root
             n == show.entry
  <1>1. /\ InShow /\ r \in Places /\ n \in Nat \ {0} /\ n <= Len(Inputs) /\ r # NoPlace
        /\ show.keys \in Seq(Key) /\ Len(show.keys) = n - 1 /\ show \in ShowSet
        /\ EntryFits(Entry) /\ Entry = Inputs[n] /\ Inputs = groups[r] /\ n \in DOMAIN Inputs
    BY InShowTyped DEF TellInv, ReadEntry, InShow, Entry, Inputs
  <1>2. /\ Entry \in Item /\ Entry.names \in SUBSET Titles /\ Entry.path \in Entries
    BY <1>1, EntryTyped DEF TellInv
  <1>3. /\ show'.root = r /\ show'.entry = n + 1
        /\ show'.tmdb = IF Entry.tmdb = NoId THEN show.tmdb ELSE Entry.tmdb
        /\ show'.tmdbCount = IF Entry.tmdb = NoId THEN show.tmdbCount ELSE show.tmdbCount + 1
        /\ show'.thetvdb = IF Entry.thetvdb = NoId THEN show.thetvdb ELSE Entry.thetvdb
        /\ show'.theTVDBCount =
             IF Entry.thetvdb = NoId THEN show.theTVDBCount ELSE show.theTVDBCount + 1
        /\ show'.commonNames = CommonNames(Entry)
        /\ show'.keys = Append(show.keys, KeyOf(Entry, r))
    BY <1>1 DEF ReadEntry, ShowSet
  <1>4. Inputs' = Inputs /\ notes' = notes
    BY <1>1, <1>3 DEF ReadEntry, sorting, Inputs
  <1>5. KeyOf(Entry, r) \in Key
    BY <1>1, <1>2, KeyTyped DEF TellInv, TypeInv, EntryFits
  <1>6. show'.keys[n] = KeyOf(Entry, r) /\ \A m \in 1..(n - 1) : show'.keys[m] = show.keys[m]
    BY <1>1, <1>3, <1>5
  <1>7. /\ show.tmdbCount \in Nat /\ show.theTVDBCount \in Nat
        /\ \A m \in 1..n : m = n \/ m \in 1..(n - 1)
        /\ \A m \in 1..(n - 1) : m \in 1..n
        /\ n \in 1..n
    BY <1>1 DEF ShowSet
  <1> HIDE DEF n, r
  <1>8. \A m \in 1..n :
          /\ Readable(Inputs[m], r) /\ Located(KeyOf(Inputs[m], r))
          /\ show'.keys[m] = KeyOf(Inputs[m], r)
    BY <1>1, <1>6, <1>7 DEF LoopInv, EntryFits, n, r
  <1>9. /\ \A m \in 1..n : Inputs[m].tmdb \in {NoId, show'.tmdb}
        /\ show'.tmdb # NoId => \E m \in 1..n : Inputs[m].tmdb = show'.tmdb
    <2>1. SameNumber(show.tmdb, Entry.tmdb)
      BY <1>1 DEF EntryFits
    <2> QED
      BY <1>1, <1>3, <1>7, <2>1 DEF LoopInv, SameNumber, n, r
  <1>10. /\ \A m \in 1..n : Inputs[m].thetvdb \in {NoId, show'.thetvdb}
         /\ show'.thetvdb # NoId => \E m \in 1..n : Inputs[m].thetvdb = show'.thetvdb
    <2>1. SameNumber(show.thetvdb, Entry.thetvdb)
      BY <1>1 DEF EntryFits
    <2> QED
      BY <1>1, <1>3, <1>7, <2>1 DEF LoopInv, SameNumber, n, r
  <1>11. /\ show'.tmdbCount <= n
         /\ show'.tmdbCount = n <=> \A m \in 1..n : Inputs[m].tmdb # NoId
    BY <1>1, <1>3, <1>7 DEF LoopInv, n, r
  <1>12. /\ show'.theTVDBCount <= n
         /\ show'.theTVDBCount = n <=> \A m \in 1..n : Inputs[m].thetvdb # NoId
    BY <1>1, <1>3, <1>7 DEF LoopInv, n, r
  <1>13. \A t \in Titles : t \in show'.commonNames <=> \A m \in 1..n : t \in Inputs[m].names
    <2>1. CASE n = 1
      BY <1>1, <1>2, <1>3, <1>7, <2>1 DEF CommonNames, n
    <2>2. CASE n # 1
      <3>1. n > 1
        BY <1>1, <2>2
      <3>2. \A t \in Titles : t \in show.commonNames <=> \A m \in 1..(n - 1) : t \in Inputs[m].names
        BY <1>1, <3>1 DEF LoopInv, n, r
      <3>3. show'.commonNames = show.commonNames \cap Inputs[n].names
        BY <1>1, <1>3, <2>2 DEF CommonNames, n
      <3> QED
        BY <1>7, <3>2, <3>3
    <2> QED
      BY <2>1, <2>2
  <1>14. show'.entry - 1 = n /\ show'.root = r
    BY <1>1, <1>3
  <1>15. (\A m \in 1..(show.entry - 1) :
             /\ Readable(Inputs[m], show.root) /\ Located(KeyOf(Inputs[m], show.root))
             /\ show.keys[m] = KeyOf(Inputs[m], show.root))'
    <2> SUFFICES ASSUME NEW m \in 1..n
                 PROVE  (/\ Readable(Inputs[m], show.root) /\ Located(KeyOf(Inputs[m], show.root))
                         /\ show.keys[m] = KeyOf(Inputs[m], show.root))'
      BY <1>14
    <2>1. notes' = notes /\ Inputs' = Inputs /\ show'.root = r
      BY <1>4, <1>14
    <2>2. Readable(Inputs[m], r) /\ Located(KeyOf(Inputs[m], r)) /\ show'.keys[m] = KeyOf(Inputs[m], r)
      BY <1>8
    <2>3. Readable(Inputs[m], show.root)'
      BY <2>1, <2>2 DEF Readable, GroupOf, JoinOf, ToldSeason
    <2>4. KeyOf(Inputs[m], show.root)' = KeyOf(Inputs[m], r)
      BY <2>1 DEF KeyOf, GroupOf, Joined, JoinOf, ToldSeason
    <2>5. Located(KeyOf(Inputs[m], show.root))'
      BY <2>2, <2>4 DEF Located
    <2> QED
      BY <2>2, <2>3, <2>4, <2>5
  <1>16. /\ \A m \in 1..(show'.entry - 1) :
              Inputs'[m].tmdb \in {NoId, show'.tmdb} /\ Inputs'[m].thetvdb \in {NoId, show'.thetvdb}
         /\ show'.tmdb # NoId => \E m \in 1..(show'.entry - 1) : Inputs'[m].tmdb = show'.tmdb
         /\ show'.thetvdb # NoId => \E m \in 1..(show'.entry - 1) : Inputs'[m].thetvdb = show'.thetvdb
    BY <1>4, <1>9, <1>10, <1>14
  <1>17. /\ show'.tmdbCount <= show'.entry - 1
         /\ show'.tmdbCount = show'.entry - 1 <=> \A m \in 1..(show'.entry - 1) : Inputs'[m].tmdb # NoId
         /\ show'.theTVDBCount <= show'.entry - 1
         /\ show'.theTVDBCount = show'.entry - 1 <=>
              \A m \in 1..(show'.entry - 1) : Inputs'[m].thetvdb # NoId
    BY <1>4, <1>11, <1>12, <1>14
  <1>18. \A t \in Titles : t \in show'.commonNames <=>
                            \A m \in 1..(show'.entry - 1) : t \in Inputs'[m].names
    BY <1>4, <1>13, <1>14
  <1> QED
    BY <1>15, <1>16, <1>17, <1>18 DEF LoopInv

\* The loop is through: what it knows of the entries, said of all of them.
LEMMA LoopDone ==
    ASSUME TellInv, LoopInv, InShow, show.entry > Len(Inputs)
    PROVE  LET r == show.root
           IN  /\ r \in Places /\ show.entry - 1 = Len(Inputs) /\ Len(Inputs) \in Nat \ {0}
               /\ notes.source[r] \in Ref /\ Numbered(r) \in Ref
               /\ Entered(r) # {} /\ Entered(r) = {Inputs[m] : m \in 1..Len(Inputs)}
               /\ \A i \in Entered(r) : /\ i \in Item /\ i.path \in Entries
                                         /\ i.names \in SUBSET Titles
                                         /\ Readable(i, r) /\ Located(KeyOf(i, r))
               /\ DOMAIN show.keys = 1..Len(Inputs)
               /\ \A m \in 1..Len(Inputs) : show.keys[m] = KeyOf(Inputs[m], r)
               /\ \A i \in Entered(r) : i.tmdb \in {NoId, show.tmdb} /\ i.thetvdb \in {NoId, show.thetvdb}
               /\ show.tmdb # NoId => \E i \in Entered(r) : i.tmdb = show.tmdb
               /\ show.thetvdb # NoId => \E i \in Entered(r) : i.thetvdb = show.thetvdb
               /\ show.tmdbCount = Len(Inputs) <=> \A i \in Entered(r) : i.tmdb # NoId
               /\ show.theTVDBCount = Len(Inputs) <=> \A i \in Entered(r) : i.thetvdb # NoId
               /\ \A t \in Titles : t \in show.commonNames <=> \A i \in Entered(r) : t \in i.names
               /\ show.commonNames \in SUBSET Titles
  <1> DEFINE r == show.root
             k == Len(Inputs)
  <1>1. /\ r \in Places /\ r # NoPlace /\ show.entry - 1 = k /\ k \in Nat \ {0} /\ show.entry > 1
        /\ DOMAIN Inputs = 1..k /\ Inputs = groups[r] /\ show \in ShowSet
        /\ show.keys \in Seq(Key) /\ Len(show.keys) = show.entry - 1
        /\ notes.source[r] # BadRef /\ notes.id[r] # BadId
    BY InShowTyped DEF TellInv, InShow, Inputs
  <1>2. notes.source[r] \in Ref /\ Numbered(r) \in Ref
    BY <1>1, NotesTyped, RefTyped DEF TellInv, TypeInv, Numbered
  <1>3. Entered(r) = {Inputs[m] : m \in 1..k} /\ DOMAIN show.keys = 1..k /\ 1 \in 1..k
    BY <1>1 DEF Entered
  <1>4. \A m \in 1..k : /\ Inputs[m] \in Item /\ Inputs[m].path \in Entries
                        /\ Inputs[m].names \in SUBSET Titles
    BY <1>1, EntryTyped DEF TellInv
  <1>5. \A m \in 1..k :
          /\ Readable(Inputs[m], r) /\ Located(KeyOf(Inputs[m], r))
          /\ show.keys[m] = KeyOf(Inputs[m], r)
          /\ Inputs[m].tmdb \in {NoId, show.tmdb} /\ Inputs[m].thetvdb \in {NoId, show.thetvdb}
    BY <1>1 DEF LoopInv
  <1>6. /\ show.tmdb # NoId => \E m \in 1..k : Inputs[m].tmdb = show.tmdb
        /\ show.thetvdb # NoId => \E m \in 1..k : Inputs[m].thetvdb = show.thetvdb
        /\ show.tmdbCount = k <=> \A m \in 1..k : Inputs[m].tmdb # NoId
        /\ show.theTVDBCount = k <=> \A m \in 1..k : Inputs[m].thetvdb # NoId
        /\ \A t \in Titles : t \in show.commonNames <=> \A m \in 1..k : t \in Inputs[m].names
    BY <1>1 DEF LoopInv
  <1>7. show.commonNames \in SUBSET Titles
    BY <1>1 DEF ShowSet
  <1> HIDE DEF r, k
  <1>8. Entered(r) # {}
    BY <1>3
  <1>9. \A i \in Entered(r) : \E m \in 1..k : i = Inputs[m]
    BY <1>3
  <1>10. \A m \in 1..k : Inputs[m] \in Entered(r)
    BY <1>3
  <1>11. \A i \in Entered(r) : /\ i \in Item /\ i.path \in Entries /\ i.names \in SUBSET Titles
                               /\ Readable(i, r) /\ Located(KeyOf(i, r))
    BY <1>4, <1>5, <1>9
  <1>12. \A i \in Entered(r) : i.tmdb \in {NoId, show.tmdb} /\ i.thetvdb \in {NoId, show.thetvdb}
    BY <1>5, <1>9
  <1>13. /\ show.tmdb # NoId => \E i \in Entered(r) : i.tmdb = show.tmdb
         /\ show.thetvdb # NoId => \E i \in Entered(r) : i.thetvdb = show.thetvdb
    BY <1>6, <1>10
  <1>14. /\ show.tmdbCount = k <=> \A i \in Entered(r) : i.tmdb # NoId
         /\ show.theTVDBCount = k <=> \A i \in Entered(r) : i.thetvdb # NoId
    BY <1>6, <1>9, <1>10
  <1>15. \A t \in Titles : t \in show.commonNames <=> \A i \in Entered(r) : t \in i.names
    BY <1>6, <1>9, <1>10
  <1> QED
    BY <1>1, <1>2, <1>3, <1>5, <1>7, <1>8, <1>11, <1>12, <1>13, <1>14, <1>15 DEF r, k

\* A show whose entries all fit is accepted just when it is consistent.
LEMMA ShowWhole ==
    ASSUME TellInv, LoopInv, InShow, show.entry > Len(Inputs)
    PROVE  /\ ShowFits <=> Consistent(show.root)
           /\ ShowFits =>
                /\ \A p \in Pins(show.root) : Says(ShowRef, p)
                /\ ShowRef.id # NoId => \E p \in Pins(show.root) : p.id = ShowRef.id
  <1> DEFINE r == show.root
             items == Entered(r)
             a == notes.source[r]
             b == Numbered(r)
             c == GroupRef
             ref == ShowRef
  <1>1. /\ r \in Places /\ a \in Ref /\ b \in Ref /\ items # {}
        /\ \A i \in items : /\ i \in Item /\ i.path \in Entries /\ i.names \in SUBSET Titles
                            /\ Readable(i, r) /\ Located(KeyOf(i, r))
        /\ \A i \in items : i.tmdb \in {NoId, show.tmdb} /\ i.thetvdb \in {NoId, show.thetvdb}
        /\ show.tmdb # NoId => \E i \in items : i.tmdb = show.tmdb
        /\ show.thetvdb # NoId => \E i \in items : i.thetvdb = show.thetvdb
    BY LoopDone
  <1>2. OneWork <=> \/ \E t \in Titles : \A i \in items : t \in i.names
                    \/ \A i \in items : i.tmdb # NoId
                    \/ \A i \in items : i.thetvdb # NoId
    <2>1. /\ show.tmdbCount = Len(Inputs) <=> \A i \in items : i.tmdb # NoId
          /\ show.theTVDBCount = Len(Inputs) <=> \A i \in items : i.thetvdb # NoId
          /\ \A t \in Titles : t \in show.commonNames <=> \A i \in items : t \in i.names
          /\ show.commonNames \in SUBSET Titles
      BY LoopDone
    <2> QED
      BY <2>1 DEF OneWork
  <1>3. Grouped <=> \E i \in items : GroupOf(i, r) # NoGroup
    <2>1. /\ DOMAIN show.keys = 1..Len(Inputs) /\ items = {Inputs[m] : m \in 1..Len(Inputs)}
          /\ \A m \in 1..Len(Inputs) : show.keys[m] = KeyOf(Inputs[m], r)
      BY LoopDone
    <2>2. \A i : KeyOf(i, r).group = GroupOf(i, r)
      BY DEF KeyOf
    <2> QED
      BY <2>1, <2>2 DEF Grouped
  <1>4. /\ c \in Ref /\ c.id = NoId
        /\ Grouped => c = Tmdb(NoId)
        /\ ~Grouped => c = NoRef
    BY RefTyped DEF GroupRef, Tmdb, NoRef
  <1>5. Pins(r) = {a, b} \cup (IF Grouped THEN {c} ELSE {})
    BY <1>3, <1>4 DEF Pins
  <1>6. NoRef.provider = "none"
    BY DEF NoRef
  <1>7. ref = Combine(Combine(a, b), c) /\ (ShowNotesAgree <=> Agree(a, b) /\ Agree(Combine(a, b), c))
    BY DEF ShowRef, ShowNotesAgree
  <1>8. \A i \in items : SeasonOf(i) >= 0 /\ EpisodeOf(i) \in 1..MaxInt
    BY <1>1, KeyMeans DEF TellInv, TypeInv
  <1>9. a # BadRef
    BY InShowTyped DEF TellInv
  <1>10. Consistent(r) <=>
           /\ OneWork
           /\ \A i, j \in items : NoId \in {i.tmdb, j.tmdb} \/ i.tmdb = j.tmdb
           /\ \A i, j \in items : NoId \in {i.thetvdb, j.thetvdb} \/ i.thetvdb = j.thetvdb
           /\ \A p, q \in Pins(r) : Agree(p, q)
           /\ \A p \in Pins(r), i \in items :
                 /\ p.provider = "tmdb" => NoId \in {p.id, i.tmdb} \/ p.id = i.tmdb
                 /\ p.provider = "thetvdb" => NoId \in {p.id, i.thetvdb} \/ p.id = i.thetvdb
    BY <1>1, <1>2, <1>8, <1>9 DEF Consistent
  <1> HIDE DEF r, items, a, b, c, ref
  <1>11. /\ \A i, j \in items : NoId \in {i.tmdb, j.tmdb} \/ i.tmdb = j.tmdb
         /\ \A i, j \in items : NoId \in {i.thetvdb, j.thetvdb} \/ i.thetvdb = j.thetvdb
    BY <1>1
  <1>12. ShowNotesAgree <=> \A p, q \in Pins(r) : Agree(p, q)
    <2>1. ShowNotesAgree <=> \A p, q \in {a, b, c} : Agree(p, q)
      BY <1>1, <1>4, <1>7, CombineThree
    <2>2. ~Grouped => \A p : Agree(p, c) /\ Agree(c, p)
      BY <1>4, <1>6 DEF Agree
    <2> QED
      BY <1>5, <2>1, <2>2
  <1>13. ASSUME ShowNotesAgree
         PROVE  /\ \A p \in Pins(r) : Says(ref, p)
                /\ ref.id # NoId => \E p \in Pins(r) : p.id = ref.id /\ p.provider = ref.provider
    <2>1. /\ \A p \in {a, b, c} : Says(ref, p)
          /\ ref.id # NoId => \E p \in {a, b, c} : p.id = ref.id /\ p.provider = ref.provider
      BY <1>1, <1>4, <1>7, <1>13, CombineThree
    <2> QED
      BY <1>4, <1>5, <2>1
  <1>14. ASSUME ShowNotesAgree
         PROVE  (ref.provider = "tmdb" /\ ref.id # NoId => show.tmdb \in {NoId, ref.id})
                  <=> \A p \in Pins(r), i \in items :
                        p.provider = "tmdb" => NoId \in {p.id, i.tmdb} \/ p.id = i.tmdb
    <2>1. ASSUME ref.provider = "tmdb" /\ ref.id # NoId => show.tmdb \in {NoId, ref.id},
                 NEW p \in Pins(r), NEW i \in items, p.provider = "tmdb", p.id # NoId, i.tmdb # NoId
          PROVE  p.id = i.tmdb
      <3>1. ref.provider = "tmdb" /\ ref.id = p.id
        BY <1>13, <1>14, <2>1 DEF Says
      <3>2. i.tmdb = show.tmdb
        BY <1>1, <2>1
      <3> QED
        BY <2>1, <3>1, <3>2
    <2>2. ASSUME ref.provider = "tmdb", ref.id # NoId, show.tmdb \notin {NoId, ref.id}
          PROVE  \E p \in Pins(r), i \in items :
                   p.provider = "tmdb" /\ NoId \notin {p.id, i.tmdb} /\ p.id # i.tmdb
      <3>1. PICK p \in Pins(r) : p.id = ref.id /\ p.provider = ref.provider
        BY <1>13, <1>14, <2>2
      <3>2. PICK i \in items : i.tmdb = show.tmdb
        BY <1>1, <2>2
      <3> QED
        BY <2>2, <3>1, <3>2
    <2> QED
      BY <2>1, <2>2
  <1>15. ASSUME ShowNotesAgree
         PROVE  (ref.provider = "thetvdb" /\ ref.id # NoId => show.thetvdb \in {NoId, ref.id})
                  <=> \A p \in Pins(r), i \in items :
                        p.provider = "thetvdb" => NoId \in {p.id, i.thetvdb} \/ p.id = i.thetvdb
    <2>1. ASSUME ref.provider = "thetvdb" /\ ref.id # NoId => show.thetvdb \in {NoId, ref.id},
                 NEW p \in Pins(r), NEW i \in items, p.provider = "thetvdb", p.id # NoId, i.thetvdb # NoId
          PROVE  p.id = i.thetvdb
      <3>1. ref.provider = "thetvdb" /\ ref.id = p.id
        BY <1>13, <1>15, <2>1 DEF Says
      <3>2. i.thetvdb = show.thetvdb
        BY <1>1, <2>1
      <3> QED
        BY <2>1, <3>1, <3>2
    <2>2. ASSUME ref.provider = "thetvdb", ref.id # NoId, show.thetvdb \notin {NoId, ref.id}
          PROVE  \E p \in Pins(r), i \in items :
                   p.provider = "thetvdb" /\ NoId \notin {p.id, i.thetvdb} /\ p.id # i.thetvdb
      <3>1. PICK p \in Pins(r) : p.id = ref.id /\ p.provider = ref.provider
        BY <1>13, <1>15, <2>2
      <3>2. PICK i \in items : i.thetvdb = show.thetvdb
        BY <1>1, <2>2
      <3> QED
        BY <2>2, <3>1, <3>2
    <2> QED
      BY <2>1, <2>2
  <1>16. ShowFits <=> /\ OneWork /\ ShowNotesAgree
                      /\ ref.provider = "tmdb" /\ ref.id # NoId => show.tmdb \in {NoId, ref.id}
                      /\ ref.provider = "thetvdb" /\ ref.id # NoId => show.thetvdb \in {NoId, ref.id}
    BY DEF ShowFits, ref
  <1>17. ShowFits <=> Consistent(r)
    BY <1>10, <1>11, <1>12, <1>14, <1>15, <1>16
  <1> QED
    BY <1>13, <1>16, <1>17 DEF r, ref

----------------------------------------------------------------------------
(* Tasks and the notes.                                                     *)

Right(t) == IF t.kind = "show" THEN Consistent(t.root) ELSE ConsistentMovie(t.root)

Noted(t) ==
    LET pins == IF t.kind = "show" THEN Pins(t.root) ELSE MoviePins(t.root)
    IN  /\ \A p \in pins : Says(t.ref, p)
        /\ t.ref.id # NoId => \E p \in pins : p.id = t.ref.id
        /\ t.kind = "show" =>
             \A m \in DOMAIN t.videos : \E i \in Entered(t.root) :
                 /\ i.path = t.videos[m]
                 /\ t.keys[m] = [season |-> SeasonOf(i), episode |-> EpisodeOf(i),
                                 group |-> GroupOf(i, t.root)]

RefusedRightly ==
    stage = "refused" =>
        IF show.root # NoPlace THEN ~Consistent(show.root) ELSE ~ConsistentMovie(Identity.path)

FitInv ==
    /\ TellInv /\ LoopInv /\ RefusedRightly
    /\ \A n \in DOMAIN tasks : Right(tasks[n]) /\ Noted(tasks[n])

LEMMA FitSafe == FitInv => RightlyAccepted /\ RequestsAsNoted
  BY DEF FitInv, RightlyAccepted, RequestsAsNoted, RefusedRightly, Right, Noted, Says

\* What is said of shows and movies goes by the notes and the groups alone.
LEMMA SameNotes ==
    ASSUME UNCHANGED <<notes, groups>>
    PROVE  /\ \A d : Consistent(d)' <=> Consistent(d)
           /\ \A d : ConsistentMovie(d)' <=> ConsistentMovie(d)
           /\ \A d : Pins(d)' = Pins(d) /\ MoviePins(d)' = MoviePins(d) /\ Entered(d)' = Entered(d)
           /\ \A i, d : /\ Readable(i, d)' <=> Readable(i, d)
                       /\ KeyOf(i, d)' = KeyOf(i, d) /\ GroupOf(i, d)' = GroupOf(i, d)
           /\ \A i : SeasonOf(i)' = SeasonOf(i) /\ EpisodeOf(i)' = EpisodeOf(i)
  <1>1. \A d : Entered(d)' = Entered(d) /\ Numbered(d)' = Numbered(d)
    BY DEF Entered, Numbered
  <1>2. /\ \A i, d : Readable(i, d)' <=> Readable(i, d)
        /\ \A i, d : KeyOf(i, d)' = KeyOf(i, d) /\ GroupOf(i, d)' = GroupOf(i, d)
        /\ \A i : SeasonOf(i)' = SeasonOf(i) /\ EpisodeOf(i)' = EpisodeOf(i)
    BY DEF Readable, KeyOf, GroupOf, SeasonOf, EpisodeOf, Joined, JoinOf, ToldSeason
  <1>3. \A d : Pins(d)' = Pins(d) /\ MoviePins(d)' = MoviePins(d)
    BY DEF Pins, MoviePins, Entered, Numbered, GroupOf
  <1>4. \A d : Consistent(d)' <=> Consistent(d)
    BY DEF Consistent, Pins, Entered, Numbered, Readable, GroupOf, SeasonOf, EpisodeOf, Joined,
           JoinOf, ToldSeason
  <1>5. \A d : ConsistentMovie(d)' <=> ConsistentMovie(d)
    BY DEF ConsistentMovie, MoviePins, MovieReadable, Numbered
  <1> QED
    BY <1>1, <1>2, <1>3, <1>4, <1>5

LEMMA SameTasks ==
    ASSUME UNCHANGED <<notes, groups>>
    PROVE  /\ \A t : Right(t)' <=> Right(t)
           /\ \A t : Noted(t)' <=> Noted(t)
  <1>1. \A t : Right(t)' <=> Right(t)
    BY SameNotes DEF Right
  <1>2. \A t : Noted(t)' <=> Noted(t)
    BY SameNotes DEF Noted
  <1> QED
    BY <1>1, <1>2

\* Steps that prepare no task and group no file.
LEMMA FitStays ==
    ASSUME FitInv, TellInv', LoopInv', UNCHANGED <<notes, groups, tasks>>, RefusedRightly'
    PROVE  FitInv'
  BY SameTasks DEF FitInv

LEMMA LoopStays ==
    ASSUME LoopInv, UNCHANGED <<notes, groups, show>>
    PROVE  LoopInv'
  BY SameNotes DEF LoopInv, Inputs, Located

LEMMA AppendAt ==
    ASSUME NEW S, NEW s \in Seq(S), NEW x \in S
    PROVE  \A n \in DOMAIN Append(s, x) :
             Append(s, x)[n] = x \/ (n \in DOMAIN s /\ Append(s, x)[n] = s[n])
  OBVIOUS

\* A task is added that is right.
LEMMA FitAppend ==
    ASSUME FitInv, TellInv', LoopInv', UNCHANGED <<notes, groups>>, RefusedRightly',
           NEW task \in Task, tasks' = Append(tasks, task), Right(task), Noted(task)
    PROVE  FitInv'
  <1> DEFINE all == tasks'
  <1>1. \A n \in DOMAIN all : all[n] = task \/ (n \in DOMAIN tasks /\ all[n] = tasks[n])
    <2>1. tasks \in Seq(Task)
      BY DEF FitInv, TellInv, TypeInv, TypeOK
    <2> QED
      BY <2>1, AppendAt
  <1> HIDE DEF all
  <1>2. \A n \in DOMAIN all : Right(all[n]) /\ Noted(all[n])
    BY <1>1 DEF FitInv
  <1>3. (\A n \in DOMAIN tasks : Right(tasks[n]) /\ Noted(tasks[n]))'
    BY <1>2, SameTasks DEF all
  <1> QED
    BY <1>3 DEF FitInv

LEMMA FitMovie ==
    ASSUME FitInv, PrepareMovie, Apart, TellInv'
    PROVE  FitInv'
  <1> DEFINE v == Identity.path
             task == [kind |-> "movie", root |-> v, ref |-> MovieRef(v),
                      hints |-> Hints(Identity.tmdb, NoId), videos |-> <<v>>, keys |-> <<>>]
  <1>1. /\ tasks' = Append(tasks, task) /\ UNCHANGED <<notes, groups, show>> /\ stage' = "sort"
        /\ MovieReadable(v) /\ MovieNotesAgree(v)
    BY DEF PrepareMovie, Expected, Sorting
  <1>2. v \in Entries /\ TypeOK
    BY DEF FitInv, TellInv, TypeInv, TypeOK, PrepareMovie, Expected, Found
  <1>3. /\ ConsistentMovie(v) /\ \A p \in MoviePins(v) : Says(MovieRef(v), p)
        /\ MovieRef(v).id # NoId => \E p \in MoviePins(v) : p.id = MovieRef(v).id
    BY <1>1, <1>2, MovieNotes
  <1>4. Right(task) /\ Noted(task)
    BY <1>3 DEF Right, Noted
  <1>5. LoopInv' /\ RefusedRightly'
    BY <1>1, LoopStays DEF FitInv, RefusedRightly
  <1>6. task \in Task
    BY MovieTyped DEF FitInv, TellInv
  <1> QED
    BY <1>1, <1>4, <1>5, <1>6, FitAppend

LEMMA FitEpisode ==
    ASSUME FitInv, GroupEpisode, TellInv'
    PROVE  FitInv'
  <1>1. UNCHANGED <<notes, tasks, show>> /\ stage = "sort" /\ stage' = "sort"
    BY DEF GroupEpisode, Expected, Sorting
  <1>2. show.root = NoPlace /\ \A n \in DOMAIN tasks : tasks[n].kind = "movie"
    BY <1>1 DEF FitInv, TellInv, TypeInv, Phases, ShowOf, SortInv
  <1>3. LoopInv' /\ RefusedRightly'
    BY <1>1, <1>2 DEF LoopInv, RefusedRightly
  <1>4. \A d : (ConsistentMovie(d)' <=> ConsistentMovie(d)) /\ MoviePins(d)' = MoviePins(d)
    BY <1>1 DEF ConsistentMovie, MoviePins, MovieReadable, Numbered
  <1>5. ASSUME NEW n \in DOMAIN tasks PROVE Right(tasks[n])' /\ Noted(tasks[n])'
    <2>1. tasks'[n] = tasks[n] /\ tasks[n].kind # "show" /\ Right(tasks[n]) /\ Noted(tasks[n])
      BY <1>1, <1>2 DEF FitInv
    <2> QED
      BY <1>4, <2>1 DEF Right, Noted
  <1> QED
    BY <1>1, <1>3, <1>5 DEF FitInv

LEMMA FitFinish ==
    ASSUME FitInv, FinishShow, TellInv'
    PROVE  FitInv'
  <1> DEFINE r == show.root
             task == [kind |-> "show", root |-> r, ref |-> ShowRef,
                      hints |-> Hints(show.tmdb, show.thetvdb), videos |-> PathsOf(Inputs),
                      keys |-> show.keys]
  <1>1. /\ InShow /\ show.entry > Len(Inputs) /\ ShowFits /\ stage' = "shows"
        /\ tasks' = Append(tasks, task) /\ UNCHANGED <<notes, groups>> /\ show'.root = NoPlace
    BY DEF FinishShow, InShow, sorting, ShowOf
  <1>2. /\ Consistent(r) /\ \A p \in Pins(r) : Says(ShowRef, p)
        /\ ShowRef.id # NoId => \E p \in Pins(r) : p.id = ShowRef.id
    BY <1>1, ShowWhole DEF FitInv
  <1>3. /\ r \in Places
        /\ Entered(r) = {Inputs[m] : m \in 1..Len(Inputs)} /\ DOMAIN Inputs = 1..Len(Inputs)
        /\ \A i \in Entered(r) : /\ i \in Item /\ i.path \in Entries
                                  /\ Readable(i, r) /\ Located(KeyOf(i, r))
        /\ \A m \in 1..Len(Inputs) : show.keys[m] = KeyOf(Inputs[m], r)
    BY <1>1, LoopDone, InShowTyped DEF FitInv, TellInv
  <1>4. ASSUME NEW m \in DOMAIN PathsOf(Inputs)
        PROVE  \E i \in Entered(r) :
                 /\ i.path = PathsOf(Inputs)[m]
                 /\ show.keys[m] = [season |-> SeasonOf(i), episode |-> EpisodeOf(i),
                                    group |-> GroupOf(i, r)]
    <2>1. m \in 1..Len(Inputs) /\ PathsOf(Inputs)[m] = Inputs[m].path /\ Inputs[m] \in Entered(r)
      BY <1>3 DEF PathsOf
    <2>2. KeyOf(Inputs[m], r) = [season |-> SeasonOf(Inputs[m]), episode |-> EpisodeOf(Inputs[m]),
                                 group |-> GroupOf(Inputs[m], r)]
      BY <1>3, <2>1, KeyMeans DEF FitInv, TellInv, TypeInv
    <2> QED
      BY <1>3, <2>1, <2>2
  <1>5. Right(task) /\ Noted(task)
    BY <1>2, <1>4 DEF Right, Noted
  <1>6. LoopInv' /\ RefusedRightly'
    BY <1>1 DEF LoopInv, RefusedRightly
  <1>7. task \in Task
    BY ShowTyped DEF FitInv, TellInv
  <1> QED
    BY <1>1, <1>5, <1>6, <1>7, FitAppend

LEMMA FitPrepare ==
    ASSUME FitInv, Prepare, TellInv'
    PROVE  FitInv'
  <1>1. Apart /\ PreparationStep /\ UNCHANGED result
    BY DEF Prepare, Apart
  <1>2. CASE RefuseIdentity \/ Sorted \/ Planned
    <2>1. UNCHANGED <<notes, groups, tasks, show>> /\ stage' # "refused"
      BY <1>2 DEF RefuseIdentity, Sorted, Planned, preparation, sorting
    <2> QED
      BY <2>1, LoopStays, FitStays DEF FitInv, RefusedRightly
  <1>3. CASE RefuseMovie
    <2>1. /\ UNCHANGED <<notes, groups, tasks, show, result, next>> /\ stage = "sort"
          /\ Identity.path \in Found
          /\ ~(MovieReadable(Identity.path) /\ MovieNotesAgree(Identity.path))
      BY <1>1, <1>3 DEF RefuseMovie, Expected, Sorting, preparation, sorting
    <2>2. Identity.path \in Entries /\ TypeOK /\ show.root = NoPlace
      BY <2>1 DEF FitInv, TellInv, TypeInv, TypeOK, Found, Phases, ShowOf
    <2>3. ~ConsistentMovie(Identity.path)
      BY <2>1, <2>2, MovieNotes
    <2>4. Identity' = Identity
      BY <2>1 DEF Identity
    <2>5. RefusedRightly'
      BY <2>1, <2>2, <2>3, <2>4, SameNotes DEF RefusedRightly
    <2> QED
      BY <2>1, <2>5, LoopStays, FitStays DEF FitInv
  <1>4. CASE BeginShow
    <2>1. /\ UNCHANGED <<notes, groups, tasks>> /\ stage' = "shows"
          /\ \E d \in Places : show' = ShowOf(d)
      BY <1>4 DEF BeginShow, BetweenShows, sorting
    <2>2. LoopInv' /\ RefusedRightly'
      BY <2>1 DEF LoopInv, RefusedRightly, ShowOf
    <2> QED
      BY <2>1, <2>2, FitStays
  <1>5. CASE ReadEntry
    <2>1. UNCHANGED <<notes, groups, tasks>> /\ stage' = "shows"
      BY <1>5 DEF ReadEntry, InShow, sorting
    <2> QED
      BY <1>1, <1>5, <2>1, LoopReads, FitStays DEF FitInv, RefusedRightly
  <1>6. CASE RefuseShow
    <2>1. UNCHANGED <<notes, groups, tasks>>
      BY <1>6 DEF RefuseShow, sorting
    <2>2. CASE \E d \in Places : FirstWaiting(d) /\ notes.source[d] = BadRef /\ show' = ShowOf(d)
      <3>1. PICK d \in Places : notes.source[d] = BadRef /\ show' = ShowOf(d)
        BY <2>2
      <3>2. ~Consistent(d) /\ show'.root = d /\ d # NoPlace
        BY <3>1, ExtractionAssumption DEF Consistent, ShowOf
      <3>3. LoopInv' /\ RefusedRightly'
        BY <2>1, <3>1, <3>2, SameNotes DEF LoopInv, RefusedRightly, ShowOf
      <3> QED
        BY <2>1, <3>3, FitStays
    <2>3. CASE \/ InShow /\ show.entry <= Len(Inputs) /\ ~EntryFits(Entry) /\ UNCHANGED show
               \/ InShow /\ show.entry > Len(Inputs) /\ ~ShowFits /\ UNCHANGED show
      <3>1. ~Consistent(show.root) /\ show.root # NoPlace /\ UNCHANGED show
        BY <2>3, UnfitEntry, ShowWhole DEF FitInv, InShow
      <3>2. LoopInv' /\ RefusedRightly'
        BY <2>1, <3>1, SameNotes, LoopStays DEF FitInv, RefusedRightly
      <3> QED
        BY <2>1, <3>2, FitStays
    <2> QED
      BY <1>6, <2>2, <2>3 DEF RefuseShow
  <1> QED
    BY <1>1, <1>2, <1>3, <1>4, <1>5, <1>6, FitMovie, FitEpisode, FitFinish DEF PreparationStep

LEMMA FitStep ==
    ASSUME FitInv, [Next]_vars
    PROVE  FitInv'
  <1>1. TellInv'
    BY TypeStep, WalkNext, ToldStep, SortStep DEF FitInv, TellInv
  <1>2. CASE Prepare
    BY <1>1, <1>2, FitPrepare
  <1>3. CASE ~Prepare
    <2>1. /\ UNCHANGED <<notes, groups, tasks, show, next>>
          /\ stage' # "refused" \/ UNCHANGED <<stage, result>>
      BY <1>3 DEF Next, Step, Fail, Discover, Extract, Describe, DiscoveryStep, RefuseRoot, BeginWalk,
         SkipFolder, PassEntry, LeaveOutDisc, TakeDisc, TakeVideo, EndWalk, Visiting, AtDisc,
         ExtractionStep, AnalyzeBatch, Extracted, LocalStep, Leave, DescribeBatch, AllDescribed,
         LocalTask, AllLocal, DiscoveryFails, ExtractionFails, DescribeFails, vars, preparation, sorting
    <2>2. RefusedRightly'
      BY <2>1, SameNotes DEF FitInv, RefusedRightly, Identity
    <2> QED
      BY <1>1, <2>1, <2>2, LoopStays, FitStays DEF FitInv
  <1> QED
    BY <1>2, <1>3

LEMMA FitInit == Init => FitInv
  <1> SUFFICES ASSUME Init PROVE FitInv
    OBVIOUS
  <1>1. TellInv
    BY TypeInit, WalkInit, ToldInit, SortInit DEF TellInv
  <1>2. tasks = <<>> /\ show.root = NoPlace /\ stage = "start"
    BY DEF Init, PreparationInit, DiscoveryInit, ShowOf
  <1> QED
    BY <1>1, <1>2 DEF FitInv, LoopInv, RefusedRightly

LEMMA FitAlways == Spec => []FitInv
  BY FitInit, FitStep, PTL DEF Spec

\* The loop over the entries of a show accepts it exactly when nothing in it
\* contradicts anything else, in whatever order the model names the files, and
\* so for the notes of a movie (shows.Prepare, movies.Prepare).
THEOREM AcceptedRightly == Spec => []RightlyAccepted
  BY FitAlways, FitSafe, PTL

\* A task asks for all the notes say and for nothing else, and for each file
\* under the numbers that the notes and the model give it (CombineReferences,
\* readMetadataOverrides).
THEOREM AskedAsNoted == Spec => []RequestsAsNoted
  BY FitAlways, FitSafe, PTL

----------------------------------------------------------------------------
(* The local phase.                                                        *)

\* Whose options there are, and what they are made of.
Served == {locals[m].task : m \in DOMAIN locals}
LocalInv ==
    /\ TypeInv
    /\ Served \subseteq unmatched
    /\ \A m \in DOMAIN locals :
         locals[m] = OptionOf(locals[m].task) /\ VideosOf(locals[m].task) \subseteq described
    /\ stage = "done" => Served = unmatched

LEMMA Least ==
    ASSUME NEW T \in SUBSET Nat, T # {}
    PROVE  \E x \in T : \A y \in T : x <= y
  <1>1. PICK x \in T : \A y \in T : <<y, x>> \notin OpToRel(<, Nat)
    BY WFMin, NatLessThanWellFounded
  <1>2. \A y \in T : ~(y < x)
    BY <1>1 DEF OpToRel
  <1> QED
    BY <1>2

\* Of the files of one episode exactly one comes first.
LEMMA FirstIsOne ==
    ASSUME NEW S, NEW keys \in Seq(S)
    PROVE  /\ \A k \in DOMAIN keys : \E j \in DOMAIN keys : keys[j] = keys[k] /\ FirstOfKey(keys, j)
           /\ \A i, j \in DOMAIN keys :
                keys[i] = keys[j] /\ FirstOfKey(keys, i) /\ FirstOfKey(keys, j) => i = j
  <1>1. DOMAIN keys = 1..Len(keys) /\ Len(keys) \in Nat
    OBVIOUS
  <1>2. ASSUME NEW k \in DOMAIN keys
        PROVE  \E j \in DOMAIN keys : keys[j] = keys[k] /\ FirstOfKey(keys, j)
    <2> DEFINE T == {j \in DOMAIN keys : keys[j] = keys[k]}
    <2>1. T \in SUBSET Nat /\ k \in T
      BY <1>1
    <2> HIDE DEF T
    <2>2. PICK j \in T : \A i \in T : j <= i
      BY <2>1, Least
    <2>3. j \in DOMAIN keys /\ keys[j] = keys[k]
      BY DEF T
    <2>4. ASSUME NEW i \in 1..(j - 1) PROVE keys[i] # keys[j]
      <3>1. i \in DOMAIN keys /\ i < j
        BY <1>1, <2>3
      <3>2. i \notin T
        BY <1>1, <2>2, <2>3, <3>1
      <3> QED
        BY <2>3, <3>1, <3>2 DEF T
    <2> QED
      BY <2>3, <2>4 DEF FirstOfKey
  <1>3. ASSUME NEW i \in DOMAIN keys, NEW j \in DOMAIN keys, keys[i] = keys[j],
               FirstOfKey(keys, i), FirstOfKey(keys, j)
        PROVE  i = j
    <2>1. i < j => i \in 1..(j - 1)
      BY <1>1
    <2>2. j < i => j \in 1..(i - 1)
      BY <1>1
    <2>3. ~(i < j) /\ ~(j < i)
      BY <1>3, <2>1, <2>2 DEF FirstOfKey
    <2> QED
      BY <1>1, <2>3
  <1> QED
    BY <1>2, <1>3

LEMMA LocalSafe == LocalInv => LocalTextComplete
  <1> SUFFICES ASSUME LocalInv PROVE LocalTextComplete
    OBVIOUS
  <1>1. ASSUME NEW m \in DOMAIN locals
        PROVE  LET task == tasks[locals[m].task]
               IN /\ locals[m].work \in described
                  /\ \A k \in DOMAIN task.keys :
                       /\ \E f \in locals[m].episodes : f.key = task.keys[k]
                       /\ \A f, g \in locals[m].episodes : f.key = g.key => f = g
                       /\ \A f \in locals[m].episodes : f.key = task.keys[k] =>
                            /\ f.about \in described
                            /\ \E j \in DOMAIN task.keys :
                                 task.keys[j] = f.key /\ task.videos[j] = f.about
    <2> DEFINE n == locals[m].task
               keys == tasks[n].keys
               videos == tasks[n].videos
               episodes == {[key |-> keys[j], about |-> videos[j]] :
                              j \in {k \in DOMAIN keys : FirstOfKey(keys, k)}}
    <2>1. n \in DOMAIN tasks
      BY DEF LocalInv, Served, TypeInv, TypeOK
    <2>2. /\ keys \in Seq(Key) /\ DOMAIN keys \subseteq DOMAIN videos /\ 1 \in DOMAIN videos
      BY <2>1, TaskTyped DEF LocalInv
    <2>3. \A j \in DOMAIN videos : videos[j] \in described
      BY DEF LocalInv, VideosOf
    <2>4. locals[m].work = videos[1] /\ locals[m].episodes = episodes
      BY DEF LocalInv, OptionOf
    <2> HIDE DEF keys, videos
    <2>5. ASSUME NEW k \in DOMAIN keys PROVE \E f \in episodes : f.key = keys[k]
      <3>1. PICK j \in DOMAIN keys : keys[j] = keys[k] /\ FirstOfKey(keys, j)
        BY <2>2, FirstIsOne
      <3>2. [key |-> keys[j], about |-> videos[j]] \in episodes
        BY <3>1
      <3> QED
        BY <3>1, <3>2
    <2>6. ASSUME NEW f \in episodes, NEW g \in episodes, f.key = g.key PROVE f = g
      <3>1. PICK i \in DOMAIN keys :
              f = [key |-> keys[i], about |-> videos[i]] /\ FirstOfKey(keys, i)
        OBVIOUS
      <3>2. PICK j \in DOMAIN keys :
              g = [key |-> keys[j], about |-> videos[j]] /\ FirstOfKey(keys, j)
        OBVIOUS
      <3>3. keys[i] = keys[j]
        BY <2>6, <3>1, <3>2
      <3>4. i = j
        BY <2>2, <3>1, <3>2, <3>3, FirstIsOne
      <3> QED
        BY <3>1, <3>2, <3>4
    <2>7. ASSUME NEW f \in episodes
          PROVE  /\ f.about \in described
                 /\ \E j \in DOMAIN keys : keys[j] = f.key /\ videos[j] = f.about
      <3>1. PICK j \in DOMAIN keys : f = [key |-> keys[j], about |-> videos[j]]
        OBVIOUS
      <3> QED
        BY <2>2, <2>3, <3>1
    <2>8. locals[m].work \in described
      BY <2>2, <2>3, <2>4
    <2> HIDE DEF episodes
    <2> QED
      BY <2>4, <2>5, <2>6, <2>7, <2>8 DEF keys, videos
  <1> QED
    BY <1>1 DEF LocalTextComplete, LocalInv, Served

LEMMA LocalStays ==
    ASSUME LocalInv, TypeInv', UNCHANGED <<tasks, unmatched, locals>>, described \subseteq described',
           stage' = "done" => stage = "done" \/ Served = unmatched
    PROVE  LocalInv'
  <1>1. Served' = Served
    BY DEF Served
  <1>2. \A n : OptionOf(n)' = OptionOf(n) /\ VideosOf(n)' = VideosOf(n)
    BY DEF OptionOf, VideosOf
  <1> QED
    BY <1>1, <1>2 DEF LocalInv

LEMMA LocalNone ==
    ASSUME TypeInv', locals' = <<>>, stage' = "done" => unmatched' = {}
    PROVE  LocalInv'
  BY DEF LocalInv, Served

LEMMA LocalAdd ==
    ASSUME LocalInv, LocalTask, UNCHANGED tasks, TypeInv'
    PROVE  LocalInv'
  <1>1. CASE UNCHANGED locals
    BY <1>1, LocalStays DEF LocalTask
  <1>2. CASE \E n \in Left : VideosOf(n) \subseteq described /\ locals' = Append(locals, OptionOf(n))
    <2>1. PICK n \in Left : VideosOf(n) \subseteq described /\ locals' = Append(locals, OptionOf(n))
      BY <1>2
    <2>2. /\ n \in unmatched /\ n \in DOMAIN tasks /\ stage' # "done"
          /\ UNCHANGED <<unmatched, described>>
      BY DEF LocalTask, Left, LocalInv, TypeInv, TypeOK
    <2> DEFINE S == [task : DOMAIN tasks, work : Entries, episodes : SUBSET [key : Key, about : Entries]]
               option == OptionOf(n)
               all == locals'
    <2>3. option \in S
      <3>1. /\ tasks[n].videos \in Seq(Entries) /\ tasks[n].keys \in Seq(Key)
            /\ 1 \in DOMAIN tasks[n].videos /\ DOMAIN tasks[n].keys \subseteq DOMAIN tasks[n].videos
        BY <2>2, TaskTyped DEF LocalInv
      <3>2. \A m \in DOMAIN tasks[n].keys : tasks[n].keys[m] \in Key /\ tasks[n].videos[m] \in Entries
        BY <3>1
      <3> QED
        BY <2>2, <3>1, <3>2 DEF OptionOf
    <2>4. locals \in Seq(S)
      BY DEF LocalInv, TypeInv, TypeOK
    <2>5. option.task = n
      BY DEF OptionOf
    <2> HIDE DEF S, option
    <2>6. \A m \in DOMAIN all : all[m] = option \/ (m \in DOMAIN locals /\ all[m] = locals[m])
      BY <2>1, <2>3, <2>4, AppendAt DEF option
    <2> HIDE DEF all
    <2>7. \A m \in DOMAIN all :
            /\ all[m].task \in unmatched
            /\ all[m] = OptionOf(all[m].task) /\ VideosOf(all[m].task) \subseteq described
      BY <2>1, <2>2, <2>5, <2>6 DEF LocalInv, Served, option
    <2>8. \A d : OptionOf(d)' = OptionOf(d) /\ VideosOf(d)' = VideosOf(d)
      BY DEF OptionOf, VideosOf
    <2>9. \A m \in DOMAIN locals' :
            /\ locals'[m].task \in unmatched'
            /\ locals'[m] = OptionOf(locals'[m].task) /\ VideosOf(locals'[m].task) \subseteq described'
      BY <2>2, <2>7 DEF all
    <2>10. (\A m \in DOMAIN locals :
              locals[m] = OptionOf(locals[m].task) /\ VideosOf(locals[m].task) \subseteq described)'
      BY <2>8, <2>9
    <2>11. (Served \subseteq unmatched)'
      BY <2>9 DEF Served
    <2> QED
      BY <2>2, <2>10, <2>11 DEF LocalInv
  <1> QED
    BY <1>1, <1>2 DEF LocalTask

LEMMA LocalNext ==
    ASSUME LocalInv, [Next]_vars
    PROVE  LocalInv'
  <1>1. TypeInv'
    BY TypeStep DEF LocalInv
  <1>2. CASE Describe
    <2>1. UNCHANGED tasks /\ LocalStep
      BY <1>2 DEF Describe, preparation
    <2>2. CASE Leave
      BY <1>1, <2>2, LocalNone DEF Leave, LocalInv, TypeInv, Phases, NothingLocal
    <2>3. CASE DescribeBatch
      BY <1>1, <2>1, <2>3, LocalStays DEF DescribeBatch
    <2>4. CASE AllDescribed
      BY <1>1, <2>1, <2>4, LocalStays DEF AllDescribed, localText
    <2>5. CASE AllLocal
      <3>1. Left = {} /\ UNCHANGED <<tasks, unmatched, locals, described>>
        BY <2>1, <2>5 DEF AllLocal, localText
      <3>2. Served = unmatched
        BY <3>1 DEF Left, Served, LocalInv
      <3> QED
        BY <1>1, <3>1, <3>2, LocalStays
    <2> QED
      BY <1>1, <2>1, <2>2, <2>3, <2>4, <2>5, LocalAdd DEF LocalStep
  <1>3. CASE ~Describe
    <2>1. UNCHANGED localText
      BY <1>3 DEF Next, Step, Fail, Discover, Extract, Prepare, vars
    <2>2. CASE stage \in {"describe", "local", "done", "failed"}
      <3>1. UNCHANGED tasks /\ (stage' = "done" => stage = "done")
        BY <1>3, <2>2 DEF Next, Step, Fail, Discover, Extract, Prepare, DiscoveryStep, RefuseRoot,
           BeginWalk, SkipFolder, PassEntry, LeaveOutDisc, TakeDisc, TakeVideo, EndWalk, Visiting,
           AtDisc, ExtractionStep, AnalyzeBatch, Extracted, PreparationStep, RefuseIdentity,
           PrepareMovie, RefuseMovie, GroupEpisode, Sorted, Expected, Sorting, BeginShow, ReadEntry,
           FinishShow, RefuseShow, Planned, BetweenShows, InShow, DiscoveryFails, ExtractionFails,
           DescribeFails, vars, preparation
      <3> QED
        BY <1>1, <2>1, <3>1, LocalStays DEF localText
    <2>3. CASE stage \notin {"describe", "local", "done", "failed"}
      BY <1>1, <2>1, <2>3, LocalNone DEF LocalInv, TypeInv, Phases, NothingLocal, localText
    <2> QED
      BY <2>2, <2>3
  <1> QED
    BY <1>2, <1>3

\* A run that is done has described each task that no source could serve, and
\* each file of it, by one text that was given for a file of the same episode.
THEOREM TextComplete == Spec => []LocalTextComplete
  <1>1. Init => LocalInv
    BY TypeInit DEF Init, DiscoveryInit, LocalInit, LocalInv, Served
  <1>2. LocalInv /\ [Next]_vars => LocalInv'
    BY LocalNext
  <1> QED
    BY <1>1, <1>2, LocalSafe, PTL DEF Spec

----------------------------------------------------------------------------
(* The plan.                                                                *)

\* Shows come after movies and by root, those prepared before those that wait.
OrderInv ==
    /\ \A m, n \in DOMAIN tasks : m < n /\ tasks[m].kind = "show" =>
         tasks[n].kind = "show" /\ Rank[tasks[m].root] < Rank[tasks[n].root]
    /\ \A n \in DOMAIN tasks, d \in Waiting :
         tasks[n].kind = "show" => Rank[tasks[n].root] < Rank[d]
    /\ show.root # NoPlace => FirstWaiting(show.root)

\* While files are sorted there are only movies.
LEMMA OrderSorting ==
    ASSUME TellInv, stage \in {"start", "walk", "extract", "sort"} \/ tasks = <<>>,
           show.root = NoPlace
    PROVE  OrderInv
  BY DEF TellInv, SortInv, OrderInv

LEMMA OrderStays ==
    ASSUME OrderInv, UNCHANGED <<groups, tasks>>,
           show'.root \in {show.root, NoPlace} \/ FirstWaiting(show'.root)
    PROVE  OrderInv'
  <1>1. Waiting' = Waiting
    BY DEF Waiting
  <1>2. \A d : FirstWaiting(d)' <=> FirstWaiting(d)
    BY <1>1 DEF FirstWaiting
  <1> QED
    BY <1>1, <1>2 DEF OrderInv, FirstWaiting

LEMMA OrderFinish ==
    ASSUME TellInv, OrderInv, FinishShow
    PROVE  OrderInv'
  <1> DEFINE r == show.root
             task == [kind |-> "show", root |-> r, ref |-> ShowRef,
                      hints |-> Hints(show.tmdb, show.thetvdb), videos |-> PathsOf(Inputs),
                      keys |-> show.keys]
             N == Len(tasks) + 1
  <1>1. /\ tasks' = Append(tasks, task) /\ show' = ShowOf(NoPlace) /\ UNCHANGED groups
        /\ r # NoPlace
    BY DEF FinishShow, InShow, sorting
  <1>2. task.kind = "show" /\ task.root = r
    OBVIOUS
  <1> HIDE DEF task
  <1>3. tasks \in Seq(Task) /\ show'.root = NoPlace
    BY <1>1 DEF TellInv, TypeInv, TypeOK, ShowOf
  <1>4. /\ DOMAIN tasks' = DOMAIN tasks \cup {N} /\ tasks'[N] = task
        /\ \A n \in DOMAIN tasks : tasks'[n] = tasks[n] /\ n \in Nat /\ n < N
        /\ N \in Nat
    BY <1>1, <1>3
  <1>5. FirstWaiting(r) /\ r \in Waiting /\ r \in Places
    BY <1>1 DEF OrderInv, FirstWaiting, Waiting
  <1> HIDE DEF N
  <1>6. Waiting' = Waiting \ {r}
    <2>1. \A d \in Places : (\A n \in DOMAIN tasks' : tasks'[n].kind = "show" => tasks'[n].root # d)
              <=> (\A n \in DOMAIN tasks : tasks[n].kind = "show" => tasks[n].root # d) /\ d # r
      BY <1>2, <1>4
    <2> QED
      BY <1>1, <2>1 DEF Waiting
  <1>7. \A d \in Waiting \ {r} : Rank[r] < Rank[d]
    BY <1>5, PreparationAssumption DEF FirstWaiting, Waiting
  <1>8. ASSUME NEW m \in DOMAIN tasks', NEW n \in DOMAIN tasks', m < n, tasks'[m].kind = "show"
        PROVE  tasks'[n].kind = "show" /\ Rank[tasks'[m].root] < Rank[tasks'[n].root]
    <2>1. m # N /\ m \in DOMAIN tasks /\ tasks'[m] = tasks[m]
      BY <1>4, <1>8
    <2>2. CASE n = N
      BY <1>2, <1>4, <1>5, <1>8, <2>1, <2>2 DEF OrderInv
    <2>3. CASE n # N
      BY <1>4, <1>8, <2>1, <2>3 DEF OrderInv
    <2> QED
      BY <2>2, <2>3
  <1>9. ASSUME NEW n \in DOMAIN tasks', NEW d \in Waiting', tasks'[n].kind = "show"
        PROVE  Rank[tasks'[n].root] < Rank[d]
    BY <1>2, <1>4, <1>6, <1>7, <1>9 DEF OrderInv
  <1> QED
    BY <1>3, <1>8, <1>9 DEF OrderInv

LEMMA OrderStep ==
    ASSUME TellInv, TellInv', OrderInv, [Next]_vars
    PROVE  OrderInv'
  <1>1. CASE Discover \/ Extract
    <2>1. stage \in {"start", "walk", "extract"} /\ UNCHANGED preparation
      BY <1>1 DEF Discover, Extract, DiscoveryStep, RefuseRoot, BeginWalk, SkipFolder, PassEntry,
         LeaveOutDisc, TakeDisc, TakeVideo, EndWalk, Visiting, AtDisc, ExtractionStep, AnalyzeBatch,
         Extracted
    <2> QED
      BY <2>1, OrderStays DEF preparation, sorting
  <1>2. CASE Prepare
    <2>1. PreparationStep
      BY <1>2 DEF Prepare
    <2>2. CASE PrepareMovie \/ GroupEpisode
      <3>1. stage' = "sort"
        BY <2>2 DEF PrepareMovie, GroupEpisode, Expected, Sorting
      <3>2. show'.root = NoPlace
        BY <3>1 DEF TellInv, TypeInv, Phases, ShowOf
      <3> QED
        BY <3>1, <3>2 DEF TellInv, SortInv, OrderInv
    <2>3. CASE RefuseIdentity \/ RefuseMovie \/ Sorted \/ Planned
      BY <2>3, OrderStays DEF RefuseIdentity, RefuseMovie, Sorted, Planned, preparation, sorting
    <2>4. CASE BeginShow \/ RefuseShow
      BY <2>4, OrderStays DEF BeginShow, RefuseShow, ShowOf, sorting
    <2>5. CASE ReadEntry
      <3>1. show'.root = show.root /\ UNCHANGED <<groups, tasks>>
        BY <2>5, InShowTyped DEF ReadEntry, TellInv, ShowSet, InShow, sorting
      <3> QED
        BY <3>1, OrderStays
    <2> QED
      BY <2>1, <2>2, <2>3, <2>4, <2>5, OrderFinish DEF PreparationStep
  <1>3. CASE Describe \/ Fail \/ UNCHANGED vars
    <2>1. UNCHANGED preparation
      BY <1>3 DEF Describe, Fail, vars, preparation, sorting
    <2> QED
      BY <2>1, OrderStays DEF preparation, sorting
  <1> QED
    BY <1>1, <1>2, <1>3 DEF Next, Step

\* An enumeration without repetition is one of the orders of what it lists.
LEMMA OrdersAll ==
    ASSUME NEW T, NEW s \in Seq(T), \A t \in T : \E n \in DOMAIN s : s[n] = t,
           \A m, n \in DOMAIN s : s[m] = s[n] => m = n
    PROVE  s \in Plans!Orders(T)
  <1>1. {s[n] : n \in DOMAIN s} = T
    OBVIOUS
  <1>2. Cardinality(T) = Len(s)
    BY <1>1, AllCount
  <1>3. DOMAIN s = 1..Cardinality(T)
    BY <1>2
  <1>4. Plans!Cardinality(T) = Cardinality(T)
    BY DEF Plans!Cardinality, Cardinality
  <1>5. s \in [1..Plans!Cardinality(T) -> T]
    <2>1. s \in [1..Len(s) -> T]
      OBVIOUS
    <2>2. Plans!Cardinality(T) = Len(s)
      BY <1>2, <1>4
    <2> QED
      BY <2>1, <2>2
  <1>6. \A t \in T : \E n \in 1..Plans!Cardinality(T) : s[n] = t
    BY <1>3, <1>4
  <1> QED
    BY <1>5, <1>6 DEF Plans!Orders, Plans!Surjection

\* What is said of a file that was told of.
LEMMA SaidOf ==
    ASSUME TellInv, NEW i \in DOMAIN result, result[i].path \in Found
    PROVE  Said[result[i].path] = IF result[i].type = "movie" THEN "movie" ELSE result[i].root
  <1>1. ItemOf(result[i].path) = result[i]
    <2>1. \A n \in DOMAIN result : result[n].path = result[i].path => n = i
      BY DEF TellInv, ToldInv
    <2>2. (CHOOSE n \in DOMAIN result : result[n].path = result[i].path) = i
      BY <2>1
    <2> QED
      BY <2>2 DEF ItemOf
  <1> QED
    BY <1>1 DEF Said

\* A video of a task is one that the model's word asks for in that task.
LEMMA KeyTold ==
    ASSUME TellInv, stage = "planned", NEW n \in DOMAIN tasks, NEW m \in DOMAIN tasks[n].videos
    PROVE  /\ tasks[n].videos[m] \in Found
           /\ Plans!KeyOf(tasks[n].videos[m], Said) = TaskOrder[n]
  <1>1. PICK i \in DOMAIN result :
             /\ tasks[n].videos[m] = result[i].path
             /\ \/ /\ tasks[n].kind = "movie" /\ result[i].type = "movie"
                   /\ tasks[n].root = result[i].path
                \/ /\ tasks[n].kind = "show" /\ result[i].type = "tv"
                   /\ tasks[n].root = result[i].root /\ tasks[n].root \in Places
    BY VideoTold
  <1>2. Told = Found
    BY DEF TellInv, ToldInv, Found, TypeInv, TypeOK
  <1>3. result[i].path \in Found
    BY <1>2 DEF Told
  <1>4. Said[result[i].path] = IF result[i].type = "movie" THEN "movie" ELSE result[i].root
    BY <1>3, SaidOf
  <1> QED
    BY <1>1, <1>3, <1>4, PlacesAssumption DEF Plans!KeyOf, TaskOrder

LEMMA PlanSafe == TellInv /\ OrderInv => OrganisedAsTold
  <1> SUFFICES ASSUME TellInv, OrderInv, stage = "planned" PROVE OrganisedAsTold
    BY DEF OrganisedAsTold
  <1> DEFINE keys == {Plans!KeyOf(v, Said) : v \in Found}
  <1>1. /\ {VideoAt(p) : p \in Positions} = Found
        /\ \A p, q \in Positions : VideoAt(p) = VideoAt(q) => p = q
        /\ \A m, n \in DOMAIN tasks :
             tasks[m].kind = tasks[n].kind /\ tasks[m].root = tasks[n].root => m = n
    BY OncePrepared DEF EveryVideoOnce, Prepared
  <1>2. \A n \in DOMAIN tasks : \A m \in DOMAIN tasks[n].videos :
          <<n, m>> \in Positions /\ VideoAt(<<n, m>>) = tasks[n].videos[m]
    BY DEF Positions, VideoAt
  <1>3. \A v \in Found : \E n \in DOMAIN tasks : \E m \in DOMAIN tasks[n].videos :
          tasks[n].videos[m] = v
    BY <1>1 DEF Positions, VideoAt
  <1>4. /\ next = Len(result) + 1 /\ Len(result) = Len(files) /\ Len(result) \in Nat
        /\ DOMAIN result = 1..(next - 1) /\ DOMAIN files = 1..Len(files)
    BY DEF TellInv, ToldInv, SortInv, TypeInv, TypeOK
  <1>12. Told = Found
    BY <1>4 DEF TellInv, ToldInv, Found
  <1>5. tasks \in Seq(Task) /\ \A n \in DOMAIN tasks : tasks[n] \in Task /\ tasks[n].videos # <<>>
    BY TaskTyped DEF TellInv, TypeInv, TypeOK, Paired
  <1>6. Said \in Plans!Labels(Found) /\ \A v \in Found : IsDir(v) => Said[v] = "movie"
    <2>1. ASSUME NEW v \in Found
          PROVE  /\ Said[v] \in {"movie"} \cup Places
                 /\ Said[v] \in Places => v \in Below[Said[v]]
                 /\ IsDir(v) => Said[v] = "movie"
      <3>1. PICK i \in DOMAIN result : result[i].path = v
        BY <1>12 DEF Told
      <3>2. Said[v] = IF result[i].type = "movie" THEN "movie" ELSE result[i].root
        BY <3>1, SaidOf
      <3>3. CASE result[i].type = "movie"
        BY <3>2, <3>3, PlacesAssumption
      <3>4. CASE result[i].type # "movie"
        <4>1. result[i].type = "tv" /\ result[i].root \in Places
              /\ result[i].path \in Below[result[i].root]
          BY <3>4, IdentityTyped DEF TellInv
        <4>2. PICK n \in DOMAIN groups[result[i].root] : groups[result[i].root][n] = result[i]
          BY <1>4, <4>1 DEF TellInv, SortInv
        <4>3. ~IsDir(result[i].path)
          BY <4>1, <4>2 DEF TellInv, TypeInv, FromAnswer
        <4> QED
          BY <3>1, <3>2, <3>4, <4>1, <4>3
      <3> QED
        BY <3>3, <3>4
    <2>2. Said \in [Found -> {"movie"} \cup Places]
      BY <2>1 DEF Said
    <2> QED
      BY <2>1, <2>2 DEF Plans!Labels
  <1>7. \A n \in DOMAIN tasks :
          TaskOrder[n] = IF tasks[n].kind = "movie" THEN <<"movie", tasks[n].root>>
                         ELSE <<"show", tasks[n].root>>
    BY DEF TaskOrder, Plans!MovieAt, Plans!ShowAt
  <1>8. /\ \A m, n \in DOMAIN tasks : TaskOrder[m] = TaskOrder[n] => m = n
        /\ DOMAIN TaskOrder = DOMAIN tasks
    <2>1. DOMAIN TaskOrder = DOMAIN tasks
      BY DEF TaskOrder
    <2>2. ASSUME NEW m \in DOMAIN tasks, NEW n \in DOMAIN tasks, TaskOrder[m] = TaskOrder[n]
          PROVE  m = n
      <3>1. tasks[m].kind \in {"movie", "show"} /\ tasks[n].kind \in {"movie", "show"}
        BY <1>5 DEF Task
      <3>2. tasks[m].kind = tasks[n].kind /\ tasks[m].root = tasks[n].root
        <4>1. CASE tasks[m].kind = "movie" /\ tasks[n].kind = "movie"
          <5>1. <<"movie", tasks[m].root>> = <<"movie", tasks[n].root>>
            BY <1>7, <2>2, <4>1
          <5> QED
            BY <4>1, <5>1
        <4>2. CASE tasks[m].kind = "show" /\ tasks[n].kind = "show"
          <5>1. <<"show", tasks[m].root>> = <<"show", tasks[n].root>>
            BY <1>7, <2>2, <4>2
          <5> QED
            BY <4>2, <5>1
        <4>3. CASE tasks[m].kind # tasks[n].kind
          <5>1. \/ <<"movie", tasks[m].root>> = <<"show", tasks[n].root>>
                \/ <<"show", tasks[m].root>> = <<"movie", tasks[n].root>>
            BY <1>7, <2>2, <3>1, <4>3
          <5> QED
            BY <5>1
        <4> QED
          BY <3>1, <4>1, <4>2, <4>3
      <3> QED
        BY <1>1, <3>2
    <2> QED
      BY <2>1, <2>2
  <1>9. TaskOrder \in Plans!Orders(keys)
    <2>1. ASSUME NEW n \in DOMAIN tasks PROVE TaskOrder[n] \in keys
      <3>1. 1 \in DOMAIN tasks[n].videos
        BY <1>5 DEF Task
      <3> QED
        BY <3>1, KeyTold
    <2>2. TaskOrder \in Seq(keys)
      BY <1>5, <1>8, <2>1 DEF TaskOrder
    <2>3. \A t \in keys : \E n \in DOMAIN TaskOrder : TaskOrder[n] = t
      BY <1>3, <1>8, KeyTold
    <2> HIDE DEF keys
    <2> QED
      BY <1>8, <2>2, <2>3, OrdersAll
  <1>10. Plans!InTaskOrder(TaskOrder)
    BY <1>5, <1>7, <1>8 DEF OrderInv, Plans!InTaskOrder, Task
  <1>11. ASSUME NEW n \in DOMAIN tasks
         PROVE  tasks[n].videos \in
                  Plans!Orders({v \in Found : Plans!KeyOf(v, Said) = TaskOrder[n]})
    <2> DEFINE own == {v \in Found : Plans!KeyOf(v, Said) = TaskOrder[n]}
               s == tasks[n].videos
    <2>1. s \in Seq(Entries) /\ \A m \in DOMAIN s : s[m] \in own
      BY <1>5, KeyTold DEF Task
    <2>2. s \in Seq(own)
      BY <2>1
    <2>3. ASSUME NEW v \in own PROVE \E m \in DOMAIN s : s[m] = v
      <3>1. PICK o \in DOMAIN tasks : \E m \in DOMAIN tasks[o].videos : tasks[o].videos[m] = v
        BY <1>3
      <3>2. TaskOrder[o] = TaskOrder[n]
        BY <3>1, KeyTold
      <3> QED
        BY <1>8, <3>1, <3>2
    <2>4. ASSUME NEW m \in DOMAIN s, NEW k \in DOMAIN s, s[m] = s[k] PROVE m = k
      <3>1. /\ <<n, m>> \in Positions /\ VideoAt(<<n, m>>) = s[m]
            /\ <<n, k>> \in Positions /\ VideoAt(<<n, k>>) = s[k]
        BY <1>2
      <3>2. <<n, m>> = <<n, k>>
        BY <1>1, <2>4, <3>1
      <3> QED
        BY <3>2
    <2> HIDE DEF own, s
    <2>5. s \in Plans!Orders(own)
      BY <2>2, <2>3, <2>4, OrdersAll
    <2> QED
      BY <2>5 DEF own, s
  <1> QED
    BY <1>6, <1>9, <1>10, <1>11 DEF OrganisedAsTold

\* The tasks prepared are a plan that Collector knows: those the model's word
\* on each file asks for, movies first and shows by root, whatever the order of
\* the answers and of the map the shows are gathered in (process.go 47-100).
THEOREM PlanAsTold == Spec => []OrganisedAsTold
  <1>1. Init => TellInv /\ OrderInv
    <2> SUFFICES ASSUME Init PROVE TellInv /\ OrderInv
      OBVIOUS
    <2>1. TellInv
      BY TypeInit, WalkInit, ToldInit, SortInit DEF TellInv
    <2>2. tasks = <<>> /\ show.root = NoPlace
      BY DEF Init, PreparationInit, ShowOf
    <2> QED
      BY <2>1, <2>2, OrderSorting
  <1>2. TellInv /\ OrderInv /\ [Next]_vars => (TellInv /\ OrderInv)'
    BY TypeStep, WalkNext, ToldStep, SortStep, OrderStep DEF TellInv
  <1> QED
    BY <1>1, <1>2, PlanSafe, PTL DEF Spec
----------------------------------------------------------------------------
(* The way to the end.                                                      *)

\* How far a run is from its end: the stages before it, and in a stage the
\* entries, files, items, shows and descriptions not yet dealt with.
StageRank(place) ==
    CASE place = "start" -> 8 [] place = "walk" -> 7 [] place = "extract" -> 6 [] place = "sort" -> 5
      [] place = "shows" -> 4 [] place = "planned" -> 3 [] place = "describe" -> 2 [] place = "local" -> 1
      [] OTHER -> 0
Rises(n, top) == n < n' /\ n' <= top
Falls(S) == Cardinality(S') \in Nat /\ Cardinality(S) \in Nat /\ Cardinality(S') < Cardinality(S)
ShowOnward ==
    \/ Falls(Waiting)
    \/ UNCHANGED Waiting /\ show.root = NoPlace /\ show'.root # NoPlace
    \/ /\ UNCHANGED <<Waiting, groups>> /\ show'.root = show.root /\ show.root # NoPlace
       /\ show.entry < show'.entry /\ show'.entry <= Len(Inputs) + 1
Onward ==
    CASE stage = "walk" -> Rises(at, Len(Walk) + 1)
      [] stage = "extract" -> UNCHANGED files /\ Rises(Len(result), Len(files))
      [] stage = "sort" -> UNCHANGED result /\ Rises(next, Len(result) + 1)
      [] stage = "shows" -> ShowOnward
      [] stage = "describe" -> Falls(Undescribed)
      [] stage = "local" -> Falls(Left)
      [] OTHER -> FALSE
Nearer ==
    \/ StageRank(stage') < StageRank(stage)
    \/ stage' = stage /\ Onward

LEMMA StageRanks ==
    /\ StageRank("start") = 8 /\ StageRank("walk") = 7 /\ StageRank("extract") = 6
    /\ StageRank("sort") = 5 /\ StageRank("shows") = 4 /\ StageRank("planned") = 3
    /\ StageRank("describe") = 2 /\ StageRank("local") = 1 /\ StageRank("done") = 0
    /\ StageRank("failed") = 0 /\ StageRank("refused") = 0
  BY DEF StageRank

LEMMA Fewer ==
    ASSUME NEW S, NEW T, IsFiniteSet(T), S \subseteq T, S # T
    PROVE  Cardinality(S) \in Nat /\ Cardinality(T) \in Nat /\ Cardinality(S) < Cardinality(T)
  <1>1. /\ IsFiniteSet(S) /\ Cardinality(S) <= Cardinality(T)
        /\ Cardinality(S) = Cardinality(T) => S = T
    BY FS_Subset
  <1>2. Cardinality(S) \in Nat /\ Cardinality(T) \in Nat
    BY <1>1, FS_CardinalityType
  <1> QED
    BY <1>1, <1>2

LEMMA PlacesFinite == IsFiniteSet(Entries) /\ IsFiniteSet(Places)
  <1>1. IsFiniteSet(Entries)
    <2>1. Walk \in Seq(Entries) /\ \A m, n \in DOMAIN Walk : Walk[m] = Walk[n] => m = n
      BY TreeAssumption
    <2> QED
      BY <2>1, AllCount DEF Entries
  <1>2. IsFiniteSet({Top})
    BY FS_Singleton
  <1> QED
    BY <1>1, <1>2, FS_Union DEF Places

\* What a directory holds lies behind it in the walk, so a jump over it ends
\* within the walk.
LEMMA DiscoverNearer ==
    ASSUME TypeInv, Discover
    PROVE  Nearer
  <1>1. CASE RefuseRoot \/ BeginWalk \/ EndWalk
    BY <1>1, StageRanks DEF RefuseRoot, BeginWalk, EndWalk, Nearer
  <1>2. CASE SkipFolder \/ PassEntry \/ LeaveOutDisc \/ TakeDisc \/ TakeVideo
    <2>1. /\ stage = "walk" /\ stage' = stage /\ at \in DOMAIN Walk /\ at \in Nat
          /\ at' \in {at + 1, at + 1 + Cardinality(Below[Walk[at]])}
      <3>1. at \in Nat \ {0} /\ (Visiting => at \in DOMAIN Walk)
        BY WalkTyped DEF TypeInv, TypeOK, Visiting
      <3>2. Visiting /\ stage' = stage
        BY <1>2 DEF SkipFolder, PassEntry, LeaveOutDisc, TakeDisc, TakeVideo, AtDisc
      <3>3. at' \in {at + 1, at + 1 + Cardinality(Below[Walk[at]])}
        BY <1>2 DEF SkipFolder, PassEntry, LeaveOutDisc, TakeDisc, TakeVideo, AtDisc, Here,
               PastFolder, NextEntry
      <3> QED
        BY <3>1, <3>2, <3>3 DEF Visiting
    <2>2. Cardinality(Below[Walk[at]]) \in Nat /\ at + Cardinality(Below[Walk[at]]) <= Len(Walk)
      BY <2>1, FolderSize, TreeAssumption
    <2>3. at < at' /\ at' <= Len(Walk) + 1
      BY <2>1, <2>2, WalkTyped
    <2>4. Rises(at, Len(Walk) + 1)
      BY <2>3 DEF Rises
    <2> QED
      BY <2>1, <2>4 DEF Nearer, Onward
  <1> QED
    BY <1>1, <1>2 DEF Discover, DiscoveryStep

\* A batch is of one file at least, and an answer that is taken has an item for
\* each of its files.
LEMMA ExtractNearer ==
    ASSUME TellInv, TellInv', Extract
    PROVE  Nearer
  <1>1. CASE stage' # stage
    BY <1>1, StageRanks DEF Extract, ExtractionStep, AnalyzeBatch, Extracted, Nearer
  <1>2. CASE stage' = stage
    <2>1. PICK reply \in Replies : Acceptable(reply) /\ result' = result \o reply
      BY <1>2 DEF Extract, ExtractionStep, AnalyzeBatch, Extracted
    <2>2. stage = "extract" /\ Len(result) < Len(files) /\ UNCHANGED files
      BY <1>2 DEF Extract, ExtractionStep, AnalyzeBatch, Extracted, discovery
    <2>3. Len(reply) = Cardinality(Pending) /\ Cardinality(Pending) > 0
      <3>1. DOMAIN PathsOf(reply) = DOMAIN reply /\ reply \in Seq(Item)
        BY ExtractionAssumption DEF PathsOf
      <3>2. Len(PathsOf(reply)) = Len(reply)
        BY <3>1 DEF PathsOf
      <3>3. Len(result) \in Nat
        BY DEF TellInv, TypeInv, TypeOK
      <3> DEFINE b == LesserOf(Len(result) + Batch, Len(files))
      <3>4. b \in Nat /\ Len(result) < b /\ Cardinality(Pending) = b - Len(result)
        BY <2>2, PendingCount DEF TellInv
      <3> HIDE DEF b
      <3>5. Len(PathsOf(reply)) = Cardinality(Pending)
        BY <2>1 DEF Acceptable, Covers
      <3>6. Cardinality(Pending) > 0
        BY <3>3, <3>4
      <3> QED
        BY <3>2, <3>5, <3>6
    <2>4. Len(result) < Len(result')
      BY <2>1, <2>3, ExtractionAssumption DEF TellInv, TypeInv, TypeOK
    <2>5. Len(result') <= Len(files)
      BY <2>2 DEF TellInv, ToldInv
    <2>6. Rises(Len(result), Len(files))
      BY <2>4, <2>5, <2>2 DEF Rises
    <2> QED
      BY <1>2, <2>2, <2>6 DEF Nearer, Onward
  <1> QED
    BY <1>1, <1>2

\* A show that is finished waits no longer, and none begins to wait.
LEMMA FinishNearer ==
    ASSUME TellInv, FinishShow, Apart
    PROVE  Falls(Waiting)
  <1>1. /\ show.root # NoPlace /\ groups' = groups /\ tasks \in Seq(Task)
        /\ \E t : t.kind = "show" /\ t.root = show.root /\ tasks' = Append(tasks, t)
    BY DEF FinishShow, InShow, sorting, TellInv, TypeInv, TypeOK
  <1>2. show.root \in Waiting
    BY <1>1 DEF TellInv, SortInv
  <1>3. /\ \A n \in DOMAIN tasks : n \in DOMAIN tasks' /\ tasks'[n] = tasks[n]
        /\ \E n \in DOMAIN tasks' : tasks'[n].kind = "show" /\ tasks'[n].root = show.root
    BY <1>1
  <1>4. Waiting' \subseteq Waiting /\ show.root \notin Waiting'
    BY <1>1, <1>3 DEF Waiting
  <1>5. IsFiniteSet(Waiting)
    BY PlacesFinite, FS_Subset DEF Waiting
  <1> QED
    BY <1>2, <1>4, <1>5, Fewer DEF Falls

LEMMA PrepareNearer ==
    ASSUME TellInv, Prepare
    PROVE  Nearer
  <1>1. CASE RefuseIdentity \/ RefuseMovie \/ Sorted \/ RefuseShow \/ Planned
    BY <1>1, StageRanks DEF RefuseIdentity, RefuseMovie, Sorted, RefuseShow, Planned, Sorting,
           Expected, BetweenShows, InShow, Nearer
  <1>2. CASE PrepareMovie \/ GroupEpisode
    <2>1. stage = "sort" /\ stage' = stage /\ next' = next + 1 /\ next <= Len(result)
      BY <1>2 DEF PrepareMovie, GroupEpisode, Expected, Sorting
    <2>2. Rises(next, Len(result) + 1) /\ UNCHANGED result
      BY <2>1 DEF Rises, Prepare, TellInv, TypeInv, TypeOK
    <2> QED
      BY <2>1, <2>2 DEF Nearer, Onward
  <1>3. CASE BeginShow
    <2>1. /\ stage = "shows" /\ stage' = stage /\ show.root = NoPlace
          /\ \E d \in Places : show' = ShowOf(d)
          /\ UNCHANGED <<groups, tasks>>
      BY <1>3 DEF BeginShow, BetweenShows, sorting
    <2>2. show'.root # NoPlace
      BY <2>1, ShowOfTyped, ExtractionAssumption
    <2>3. UNCHANGED Waiting
      BY <2>1 DEF Waiting
    <2> QED
      BY <2>1, <2>2, <2>3 DEF Nearer, Onward, ShowOnward
  <1>4. CASE ReadEntry
    <2>1. /\ stage = "shows" /\ stage' = stage /\ InShow /\ show.entry <= Len(Inputs)
          /\ UNCHANGED <<groups, tasks>>
      BY <1>4 DEF ReadEntry, InShow, sorting
    <2>2. show'.root = show.root /\ show'.entry = show.entry + 1
      BY <1>4, <2>1, InShowTyped DEF ReadEntry, ShowSet, TellInv
    <2>3. UNCHANGED <<Waiting, groups>>
      BY <2>1 DEF Waiting
    <2>4. show.entry < show'.entry /\ show'.entry <= Len(Inputs) + 1
      BY <2>1, <2>2, InShowTyped DEF TellInv
    <2> QED
      BY <2>1, <2>2, <2>3, <2>4 DEF Nearer, Onward, ShowOnward, InShow
  <1>5. CASE FinishShow
    <2>1. stage = "shows" /\ stage' = stage
      BY <1>5 DEF FinishShow, InShow
    <2>2. Falls(Waiting)
      BY <1>5, FinishNearer DEF Prepare, Apart
    <2> QED
      BY <2>1, <2>2 DEF Nearer, Onward, ShowOnward
  <1> QED
    BY <1>1, <1>2, <1>3, <1>4, <1>5 DEF Prepare, PreparationStep

\* A batch of descriptions and a task described leave fewer to do.
LEMMA DescribeNearer ==
    ASSUME TellInv, Describe
    PROVE  Nearer
  <1>1. CASE stage' # stage
    BY <1>1, StageRanks DEF Describe, LocalStep, Leave, DescribeBatch, AllDescribed, LocalTask,
           AllLocal, Nearer
  <1>2. CASE DescribeBatch /\ stage' = stage
    <2>1. /\ stage = "describe" /\ UNCHANGED <<tasks, unmatched>>
          /\ \E batch \in SUBSET Undescribed :
               batch # {} /\ described' = described \cup batch
      BY <1>2 DEF DescribeBatch, Describe, preparation
    <2>2. PICK batch \in SUBSET Undescribed : batch # {} /\ described' = described \cup batch
      BY <2>1
    <2> DEFINE sent == UNION {VideosOf(n) : n \in unmatched}
    <2>3. /\ Undescribed = sent \ described /\ Undescribed' = sent' \ described'
          /\ sent' = sent
      BY <2>1 DEF Undescribed, VideosOf
    <2> HIDE DEF sent
    <2>4. Undescribed' = Undescribed \ batch
      BY <2>2, <2>3
    <2>5. IsFiniteSet(Undescribed)
      <3>1. Undescribed \subseteq Entries
        BY TaskTyped DEF Undescribed, TellInv, TypeInv, TypeOK
      <3> QED
        BY <3>1, PlacesFinite, FS_Subset
    <2>6. Falls(Undescribed)
      BY <2>2, <2>4, <2>5, Fewer DEF Falls
    <2> QED
      BY <1>2, <2>1, <2>6 DEF Nearer, Onward
  <1>3. CASE LocalTask /\ stage' = stage
    <2>1. /\ stage = "local" /\ UNCHANGED <<tasks, unmatched>>
          /\ \E n \in Left : locals' = Append(locals, OptionOf(n))
      BY <1>3 DEF LocalTask, Describe, preparation
    <2>2. PICK n \in Left : locals' = Append(locals, OptionOf(n))
      BY <2>1
    <2>3. OptionOf(n).task = n
      BY DEF OptionOf
    <2> DEFINE option == OptionOf(n)
    <2> HIDE DEF option
    <2>4. locals' = Append(locals, option) /\ option.task = n
      BY <2>2, <2>3 DEF option
    <2>5. \E S : locals \in Seq(S)
      BY DEF TellInv, TypeInv, TypeOK
    <2>6. /\ \A m \in DOMAIN locals : m \in DOMAIN locals' /\ locals'[m] = locals[m]
          /\ \E m \in DOMAIN locals' : locals'[m].task = n
      BY <2>4, <2>5
    <2>7. Left' \subseteq Left /\ n \notin Left'
      BY <2>1, <2>6 DEF Left
    <2>8. IsFiniteSet(Left)
      <3>1. Left \subseteq 1..Len(tasks) /\ Len(tasks) \in Nat
        BY DEF Left, TellInv, TypeInv, TypeOK
      <3>2. IsFiniteSet(1..Len(tasks))
        BY <3>1, FS_Interval
      <3> QED
        BY <3>1, <3>2, FS_Subset
    <2>9. Falls(Left)
      BY <2>2, <2>7, <2>8, Fewer DEF Falls
    <2> QED
      BY <1>3, <2>1, <2>9 DEF Nearer, Onward
  <1>4. CASE stage' = stage /\ ~DescribeBatch /\ ~LocalTask
    BY <1>4 DEF Describe, LocalStep, Leave, AllDescribed, AllLocal
  <1> QED
    BY <1>1, <1>2, <1>3, <1>4

\* Whatever the model answers and the notes say, every step of a run brings it
\* nearer its end: to a later stage, or past an entry of the walk, a file, an
\* item, an entry of a show, a show or a description that is still to come; a
\* useless answer is never asked for again (discovery.go 46-87, ai.go 89-138,
\* process.go 46-101, shows/pipeline.go 85-180). This is what IntakeEnds needs
\* besides fairness.
THEOREM NoCircles == Spec => [][Nearer]_vars
  <1>1. TellInv /\ TellInv' /\ [Next]_vars => [Nearer]_vars
    <2> SUFFICES ASSUME TellInv, TellInv', Next PROVE Nearer
      OBVIOUS
    <2>1. CASE Fail
      BY <2>1, StageRanks DEF Fail, DiscoveryFails, ExtractionFails, DescribeFails, Nearer
    <2> QED
      BY <2>1, DiscoverNearer, ExtractNearer, PrepareNearer, DescribeNearer DEF Next, Step, TellInv
  <1> QED
    BY <1>1, TellAlways, PTL DEF Spec
=============================================================================
