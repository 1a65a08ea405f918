----------------------------- MODULE Preparation -----------------------------
(***************************************************************************)
(* prepareTasks (collector/process.go) with movies.Prepare and             *)
(* shows.Prepare: what the model said of each file, together with the      *)
(* notes people left beside the files, becomes one task per movie and one  *)
(* per root of a show, or nothing at all. Part of Intake.                  *)
(***************************************************************************)
EXTENDS Extraction

CONSTANTS
    Rank,         \* Rank[d]: place of d in sort.Strings order
    Slugs, NoSlug,
    Groups,       \* episode groups of TMDb
    NoGroup,      \* GroupId = "", also from a blank group.txt
    Absent,       \* a group.txt that is not there
    BadGroup,     \* one that cannot be read
    NoteSheets    \* the notes people may have left

\* metadata.Ref; the kind is that of the task throughout.
Ref ==
    [provider : {"tmdb", "thetvdb", "none"}, id : Ids \cup {NoId}, slug : Slugs \cup {NoSlug}]
NoRef == [provider |-> "none", id |-> NoId, slug |-> NoSlug]
BadRef == [provider |-> "unreadable", id |-> NoId, slug |-> NoSlug]
Tmdb(id) == [provider |-> "tmdb", id |-> id, slug |-> NoSlug]
TheTvdb(id) == [provider |-> "thetvdb", id |-> id, slug |-> NoSlug]

\* join.txt: in season `from`, episode 1 is episode `start` of season `to`.
Join == [from : Ints, to : Ints, start : Ints]
NoJoin == [from |-> Unknown, to |-> Unknown, start |-> Unknown]

\* The notes by the directory or video they stand for. A season below Unknown
\* and a join with such a number are notes that make no sense.
Sheet ==
    [source : [Places -> Ref \cup {BadRef}], id : [Places -> Ids \cup {NoId, BadId}],
     season : [Places -> Ints], group : [Places -> Groups \cup {NoGroup, Absent, BadGroup}],
     join : [Places -> Join]]

ASSUME PreparationAssumption ==
    /\ Rank \in [Places -> Nat] /\ \A d, e \in Places : Rank[d] = Rank[e] => d = e
    /\ NoSlug \notin Slugs /\ NoGroup \notin Groups
    /\ Absent \notin Groups \cup {NoGroup} /\ BadGroup \notin Groups \cup {NoGroup, Absent}
    /\ NoteSheets \subseteq Sheet

Key == [season : Ints, episode : Ints, group : Groups \cup {NoGroup}]

\* A movie's root is the movie; videos and keys are in the order of the answer.
Task ==
    [kind : {"movie", "show"}, root : Places, ref : Ref, hints : SUBSET Ref,
     videos : Seq(Entries), keys : Seq(Key)]

\* The locals of the loop in shows.Prepare; root is NoPlace outside of it.
ShowSet ==
    [root : Places \cup {NoPlace}, entry : Nat, tmdb : Ids \cup {NoId}, tmdbCount : Nat,
     thetvdb : Ids \cup {NoId}, theTVDBCount : Nat, commonNames : SUBSET Titles,
     keys : Seq(Key)]
ShowOf(root) ==
    [root |-> root, entry |-> 1, tmdb |-> NoId, tmdbCount |-> 0, thetvdb |-> NoId,
     theTVDBCount |-> 0, commonNames |-> {}, keys |-> <<>>]

VARIABLES
    notes,    \* the notes on disk
    next,     \* the identity at hand
    groups,   \* groups[d]: the entries of the show whose root is d
    show,     \* the show being prepared
    tasks

sorting == <<notes, next, groups>>
preparation == <<sorting, show, tasks>>

PreparationInit ==
    /\ notes \in NoteSheets
    /\ next = 1 /\ groups = [d \in Places |-> <<>>]
    /\ show = ShowOf(NoPlace) /\ tasks = <<>>

----------------------------------------------------------------------------
(* References: source.json, id.txt and groups constrain one another.        *)

Agree(a, b) ==
    a.provider = "none" \/ b.provider = "none"
    \/ /\ a.provider = b.provider
       /\ a.id = NoId \/ b.id = NoId \/ a.id = b.id
       /\ a.slug = NoSlug \/ b.slug = NoSlug \/ a.slug = b.slug

\* CombineReferences, of two that agree. Mutant: the first one is kept as it is.
FirstRef(a, b) == IF a.provider = "none" THEN b ELSE a
Combine(a, b) ==
    IF a.provider = "none" THEN b
    ELSE IF b.provider = "none" THEN a
    ELSE [a EXCEPT !.id = IF @ = NoId THEN b.id ELSE @,
                   !.slug = IF @ = NoSlug THEN b.slug ELSE @]

\* ReadNumericOverride of an id.txt that can be read.
Numbered(place) == IF notes.id[place] = NoId THEN NoRef ELSE Tmdb(notes.id[place])

----------------------------------------------------------------------------
(* The loop over the identities.                                            *)

Identity == result[next]
Sorting == stage = "sort" /\ next <= Len(result)
Seen == {result[m].path : m \in 1..(next - 1)}

\* An episode is looked for in a file, never in a disc.
RefuseIdentity ==
    /\ Sorting
    /\ \/ Identity.path \notin Found \ Seen
       \/ Identity.type = "tv" /\ IsDir(Identity.path)
    /\ stage' = "failed"
    /\ UNCHANGED preparation

Expected == Sorting /\ Identity.path \in Found \ Seen

\* movies.Prepare reads the notes of the file, then those of its directory.
MovieRef(v) == Combine(Combine(notes.source[v], Numbered(v)), Numbered(Parent[v]))

MovieNotesAgree(v) ==
    /\ Agree(notes.source[v], Numbered(v))
    /\ Agree(Combine(notes.source[v], Numbered(v)), Numbered(Parent[v]))

MovieReadable(v) == notes.source[v] # BadRef /\ BadId \notin {notes.id[v], notes.id[Parent[v]]}

\* The numbers the model told go along as hints.
Hints(tmdb, thetvdb) ==
    (IF tmdb = NoId THEN {} ELSE {Tmdb(tmdb)})
        \cup (IF thetvdb = NoId THEN {} ELSE {TheTvdb(thetvdb)})

PrepareMovie ==
    /\ Expected /\ Identity.type = "movie"
    /\ MovieReadable(Identity.path) /\ MovieNotesAgree(Identity.path)
    /\ tasks' = Append(tasks,
         [kind |-> "movie", root |-> Identity.path, ref |-> MovieRef(Identity.path),
          hints |-> Hints(Identity.tmdb, NoId), videos |-> <<Identity.path>>, keys |-> <<>>])
    /\ next' = next + 1
    /\ UNCHANGED <<stage, notes, groups, show>>

RefuseMovie ==
    /\ Expected /\ Identity.type = "movie"
    /\ ~(MovieReadable(Identity.path) /\ MovieNotesAgree(Identity.path))
    /\ stage' = "refused"
    /\ UNCHANGED preparation

\* Mutant: an entry takes the place of those before it.
LastOnly(entries, item) == <<item>>
WithEntry(entries, item) == Append(entries, item)

GroupEpisode ==
    /\ Expected /\ Identity.type = "tv" /\ ~IsDir(Identity.path)
    /\ groups' = [groups EXCEPT ![Identity.root] = WithEntry(@, Identity)]
    /\ next' = next + 1
    /\ UNCHANGED <<stage, notes, show, tasks>>

\* Every file has been seen by now; one left out would end the run.
Sorted ==
    /\ stage = "sort" /\ next > Len(result)
    /\ stage' = IF Seen = Found THEN "shows" ELSE "failed"
    /\ UNCHANGED preparation

----------------------------------------------------------------------------
(* shows.Prepare, root by root.                                             *)

Waiting ==
    {d \in Places : groups[d] # <<>> /\ \A n \in DOMAIN tasks :
                        tasks[n].kind = "show" => tasks[n].root # d}
BetweenShows == stage = "shows" /\ show.root = NoPlace

\* Mutant: the roots are taken as the map has them.
AnyWaiting(d) == d \in Waiting
FirstWaiting(d) == d \in Waiting /\ \A e \in Waiting : Rank[d] <= Rank[e]

BeginShow ==
    /\ BetweenShows
    /\ \E d \in Places :
         FirstWaiting(d) /\ notes.source[d] # BadRef /\ show' = ShowOf(d)
    /\ UNCHANGED <<stage, sorting, tasks>>

InShow == stage = "shows" /\ show.root # NoPlace
Inputs == groups[show.root]
Entry == Inputs[show.entry]

\* season.txt of the file's directory, else what the model said.
ToldSeason(item) ==
    IF notes.season[Parent[item.path]] # Unknown THEN notes.season[Parent[item.path]]
    ELSE item.season

\* ReadGroupId: a group.txt in the file's directory hides the root's, blank or not.
GroupOf(item, root) ==
    IF notes.group[Parent[item.path]] # Absent THEN notes.group[Parent[item.path]]
    ELSE IF notes.group[root] # Absent THEN notes.group[root] ELSE NoGroup

\* Addition of two positive ints. Mutant: one that does not overflow.
Widened(n) == n
Wrapped(n) == IF n > MaxInt THEN n - 2 * (MaxInt + 1) ELSE n

JoinOf(item) == notes.join[Parent[item.path]]
Joined(item) == JoinOf(item) # NoJoin /\ ToldSeason(item) = JoinOf(item).from

KeyOf(item, root) ==
    [season |-> IF Joined(item) THEN JoinOf(item).to ELSE ToldSeason(item),
     episode |-> IF Joined(item) THEN Wrapped(item.episode + (JoinOf(item).start - 1))
                 ELSE item.episode,
     group |-> GroupOf(item, root)]

\* readMetadataOverrides: the notes can be read, and where there is a join.txt
\* the season and the episode are told.
Readable(item, root) ==
    /\ notes.id[root] # BadId /\ notes.season[Parent[item.path]] >= Unknown
    /\ GroupOf(item, root) # BadGroup
    /\ JoinOf(item) # NoJoin =>
         /\ JoinOf(item).from >= 0 /\ JoinOf(item).to >= 0 /\ JoinOf(item).start >= 1
         /\ ToldSeason(item) # Unknown /\ item.episode >= 1

\* A season and an episode that can be.
Located(key) == key.season >= 0 /\ key.episode >= 1

\* The number of the model does not contradict that of an entry before it.
SameNumber(before, id) == id = NoId \/ before \in {NoId, id}

EntryFits(item) ==
    /\ item.path \in Below[show.root]
    /\ \A m \in 1..(show.entry - 1) : Inputs[m].path # item.path
    /\ Readable(item, show.root) /\ Located(KeyOf(item, show.root))
    /\ SameNumber(show.tmdb, item.tmdb) /\ SameNumber(show.thetvdb, item.thetvdb)

\* Mutant: a title of the first entry counts as common.
FirstNames(item) == IF show.entry = 1 THEN item.names ELSE show.commonNames
CommonNames(item) ==
    IF show.entry = 1 THEN item.names ELSE show.commonNames \cap item.names

ReadEntry ==
    /\ InShow /\ show.entry <= Len(Inputs) /\ EntryFits(Entry)
    /\ show' = [show EXCEPT
         !.entry = @ + 1,
         !.tmdb = IF Entry.tmdb = NoId THEN @ ELSE Entry.tmdb,
         !.tmdbCount = IF Entry.tmdb = NoId THEN @ ELSE @ + 1,
         !.thetvdb = IF Entry.thetvdb = NoId THEN @ ELSE Entry.thetvdb,
         !.theTVDBCount = IF Entry.thetvdb = NoId THEN @ ELSE @ + 1,
         !.commonNames = CommonNames(Entry),
         !.keys = Append(@, KeyOf(Entry, show.root))]
    /\ UNCHANGED <<stage, sorting, tasks>>

\* One work: a title all entries tell, or a number that each of them tells.
OneWork ==
    \/ show.commonNames # {}
    \/ show.tmdbCount = Len(Inputs)
    \/ show.theTVDBCount = Len(Inputs)

Grouped == \E n \in DOMAIN show.keys : show.keys[n].group # NoGroup
GroupRef == IF Grouped THEN Tmdb(NoId) ELSE NoRef

ShowRef == Combine(Combine(notes.source[show.root], Numbered(show.root)), GroupRef)
ShowNotesAgree ==
    /\ Agree(notes.source[show.root], Numbered(show.root))
    /\ Agree(Combine(notes.source[show.root], Numbered(show.root)), GroupRef)

ShowFits ==
    /\ OneWork /\ ShowNotesAgree
    /\ ~(ShowRef.provider = "tmdb" /\ ShowRef.id # NoId /\ show.tmdb \notin {NoId, ShowRef.id})
    /\ ~(ShowRef.provider = "thetvdb" /\ ShowRef.id # NoId
           /\ show.thetvdb \notin {NoId, ShowRef.id})

FinishShow ==
    /\ InShow /\ show.entry > Len(Inputs) /\ ShowFits
    /\ tasks' = Append(tasks,
         [kind |-> "show", root |-> show.root, ref |-> ShowRef,
          hints |-> Hints(show.tmdb, show.thetvdb),
          videos |-> PathsOf(Inputs), keys |-> show.keys])
    /\ show' = ShowOf(NoPlace)
    /\ UNCHANGED <<stage, sorting>>

\* Prepare gives up at source.json, at an entry, or at their sum.
RefuseShow ==
    /\ \/ BetweenShows /\ \E d \in Places :
            FirstWaiting(d) /\ notes.source[d] = BadRef /\ show' = ShowOf(d)
       \/ InShow /\ show.entry <= Len(Inputs) /\ ~EntryFits(Entry) /\ UNCHANGED show
       \/ InShow /\ show.entry > Len(Inputs) /\ ~ShowFits /\ UNCHANGED show
    /\ stage' = "refused"
    /\ UNCHANGED <<sorting, tasks>>

\* validateOutputPlan: outputs outside of the directory or on one another.
Planned ==
    /\ BetweenShows /\ Waiting = {}
    /\ stage' \in {"planned", "failed"}
    /\ UNCHANGED preparation

PreparationStep ==
    \/ RefuseIdentity \/ PrepareMovie \/ RefuseMovie \/ GroupEpisode \/ Sorted
    \/ BeginShow \/ ReadEntry \/ FinishShow \/ RefuseShow \/ Planned
----------------------------------------------------------------------------

Prepared == stage \in {"planned", "describe", "local", "done"}

Positions == UNION {{<<n, m>> : m \in DOMAIN tasks[n].videos} : n \in DOMAIN tasks}
VideoAt(p) == tasks[p[1]].videos[p[2]]

\* Whatever order, batches and nonsense the model answers with: when tasks are
\* prepared each video discovered is in one task, once. A disc is a movie, a
\* movie a task of its own, the episodes of a show lie under its root, and no
\* two tasks are for one root (process.go 46-101, ai.go 99-138).
EveryVideoOnce ==
    Prepared =>
        /\ {VideoAt(p) : p \in Positions} = Found
        /\ \A p, q \in Positions : VideoAt(p) = VideoAt(q) => p = q
        /\ \A n \in DOMAIN tasks : tasks[n].kind = "movie" => tasks[n].videos = <<tasks[n].root>>
        /\ \A p \in Positions : tasks[p[1]].kind = "show" =>
             IsFile(VideoAt(p)) /\ VideoAt(p) \in Below[tasks[p[1]].root]
        /\ \A m, n \in DOMAIN tasks :
             tasks[m].kind = tasks[n].kind /\ tasks[m].root = tasks[n].root => m = n

\* What notes say of a show or a movie, one by one.
Entered(root) == {groups[root][n] : n \in DOMAIN groups[root]}
Pins(root) ==
    {notes.source[root], Numbered(root)}
        \cup {Tmdb(NoId) : item \in {i \in Entered(root) : GroupOf(i, root) # NoGroup}}
MoviePins(v) == {notes.source[v], Numbered(v), Numbered(Parent[v])}

\* Where an entry belongs by the notes and the model, in unbounded numbers.
EpisodeOf(item) ==
    IF Joined(item) THEN item.episode + JoinOf(item).start - 1 ELSE item.episode
SeasonOf(item) == IF Joined(item) THEN JoinOf(item).to ELSE ToldSeason(item)

\* A show whose entries and notes contradict one another nowhere, said of each
\* pair of them and without an order.
Consistent(root) ==
    LET items == Entered(root)
    IN /\ notes.source[root] # BadRef
       /\ \A i \in items :
            Readable(i, root) /\ SeasonOf(i) >= 0 /\ EpisodeOf(i) \in 1..MaxInt
       /\ \A i, j \in items : NoId \in {i.tmdb, j.tmdb} \/ i.tmdb = j.tmdb
       /\ \A i, j \in items : NoId \in {i.thetvdb, j.thetvdb} \/ i.thetvdb = j.thetvdb
       /\ \/ \E t \in Titles : \A i \in items : t \in i.names
          \/ \A i \in items : i.tmdb # NoId
          \/ \A i \in items : i.thetvdb # NoId
       /\ \A p, q \in Pins(root) : Agree(p, q)
       /\ \A p \in Pins(root), i \in items :
            /\ p.provider = "tmdb" => NoId \in {p.id, i.tmdb} \/ p.id = i.tmdb
            /\ p.provider = "thetvdb" => NoId \in {p.id, i.thetvdb} \/ p.id = i.thetvdb

ConsistentMovie(v) == MovieReadable(v) /\ \A p, q \in MoviePins(v) : Agree(p, q)

\* The loop that reads one entry after another accepts a show exactly when it
\* is consistent: neither the order of the model's answer nor which of two
\* contradicting notes is read first decides, and no episode number is one
\* that an addition has wrapped around (shows/pipeline.go 85-180,
\* override.go 53-58, movies/pipeline.go 70-85).
RightlyAccepted ==
    /\ \A n \in DOMAIN tasks :
         IF tasks[n].kind = "show" THEN Consistent(tasks[n].root)
         ELSE ConsistentMovie(tasks[n].root)
    /\ stage = "refused" =>
         IF show.root # NoPlace THEN ~Consistent(show.root) ELSE ~ConsistentMovie(Identity.path)

\* A task asks for what the notes say: its reference has all of every note and
\* nothing else, and each of its files the coordinates that the notes and the
\* model give that very file.
RequestsAsNoted ==
    \A n \in DOMAIN tasks :
        LET task == tasks[n]
            pins == IF task.kind = "show" THEN Pins(task.root) ELSE MoviePins(task.root)
        IN /\ \A p \in pins : p.provider # "none" =>
                /\ task.ref.provider = p.provider
                /\ p.id # NoId => task.ref.id = p.id
                /\ p.slug # NoSlug => task.ref.slug = p.slug
           /\ task.ref.id # NoId => \E p \in pins : p.id = task.ref.id
           /\ task.kind = "show" =>
                \A m \in DOMAIN task.videos : \E i \in Entered(task.root) :
                    /\ i.path = task.videos[m]
                    /\ task.keys[m] = [season |-> SeasonOf(i), episode |-> EpisodeOf(i),
                                       group |-> GroupOf(i, task.root)]
=============================================================================
