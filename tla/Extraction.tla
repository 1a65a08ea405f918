----------------------------- MODULE Extraction -----------------------------
(***************************************************************************)
(* Analyze (common/ai/ai.go): the language model is told of the files      *)
(* batch by batch and says of each what it is. Its answers are anything;   *)
(* validateCoverage and validateIdentity decide what is let through. Part  *)
(* of Intake.                                                              *)
(***************************************************************************)
EXTENDS Discovery

CONSTANTS
    Batch,    \* files in one request (50)
    MaxInt,   \* the largest int
    Ids,      \* numbers of works
    NoId,     \* no number told
    BadId,    \* not a positive number
    Titles,   \* titles without case and spaces
    NoPlace,  \* an empty path
    Stray,    \* a path that was not asked for
    Replies   \* answers the model may give to one request

Unknown == -1
Ints == -(MaxInt + 1)..MaxInt

\* names: the titles an item tells, none when the title itself is blank.
Item ==
    [path : Entries \cup {Stray}, type : {"movie", "tv", "other"},
     root : Places \cup {NoPlace, Stray}, season : Ints, episode : Ints,
     names : SUBSET Titles, tmdb : Ids \cup {NoId, BadId}, thetvdb : Ids \cup {NoId, BadId}]

ASSUME ExtractionAssumption ==
    /\ Batch \in Nat \ {0} /\ MaxInt \in Nat \ {0}
    /\ NoId \notin Ids /\ BadId \notin Ids \cup {NoId}
    /\ {NoPlace, Stray} \cap Places = {} /\ NoPlace # Stray
    /\ Replies \subseteq Seq(Item)

VARIABLE result   \* the items of all batches so far

ExtractionInit == result = <<>>

LesserOf(m, n) == IF m <= n THEN m ELSE n

\* The files of the request that follows.
Pending == {files[n] : n \in (Len(result) + 1)..LesserOf(Len(result) + Batch, Len(files))}

\* validateCoverage: as many items as files, each of a file asked for, no file
\* twice.
Covers(paths, wanted) ==
    /\ Len(paths) = Cardinality(wanted)
    /\ \A n \in DOMAIN paths : paths[n] \in wanted
    /\ \A m, n \in DOMAIN paths : paths[m] = paths[n] => m = n

PathsOf(items) == [n \in DOMAIN items |-> items[n].path]

ValidIdentity(item) ==
    /\ item.names # {} /\ item.type \in {"movie", "tv"}
    /\ BadId \notin {item.tmdb, item.thetvdb}
    /\ item.season = Unknown \/ item.season >= 0
    /\ item.episode = Unknown \/ item.episode >= 1
    /\ item.type = "movie" =>
         /\ item.thetvdb = NoId /\ item.root = NoPlace
         /\ item.season = Unknown /\ item.episode = Unknown
    /\ item.type = "tv" => item.root \in Places /\ item.path \in Below[item.root]

Acceptable(reply) ==
    /\ Covers(PathsOf(reply), Pending)
    /\ \A n \in DOMAIN reply : ValidIdentity(reply[n])

AnalyzeBatch ==
    /\ stage = "extract" /\ Len(result) < Len(files)
    /\ \E reply \in Replies :
         IF Acceptable(reply) THEN result' = result \o reply /\ UNCHANGED stage
         ELSE stage' = "failed" /\ UNCHANGED result

\* The context has ended, the request failed, its answer is no JSON.
ExtractionFails ==
    /\ stage = "extract"
    /\ stage' = "failed"
    /\ UNCHANGED result

Extracted ==
    /\ stage = "extract" /\ Len(result) >= Len(files)
    /\ stage' = "sort"
    /\ UNCHANGED result

ExtractionStep == AnalyzeBatch \/ Extracted
=============================================================================
