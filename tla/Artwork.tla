------------------------------- MODULE Artwork -------------------------------
(***************************************************************************)
(* artwork.Downloader.Save and Download (artwork/download.go): pictures    *)
(* beside the media files, each with a marker file that records the URL it *)
(* came from. Both are written by WriteFileAtomic, which AtomicFile shows  *)
(* to act like a register; the process may die between the two.            *)
(***************************************************************************)
EXTENDS Naturals, Sequences

CONSTANTS
    Paths,      \* where pictures are kept
    Urls,
    NoUrl,      \* Item.URL = ""
    Nothing,    \* no such file
    Empty,      \* a body without bytes or with more than 32 MiB
    ItemLists,  \* the lists of items Write may pass to Save
    MaxCalls    \* bound: calls of Save

Item == [url : Urls \cup {NoUrl}, path : Paths]

ASSUME UrlsAssumption ==
    Urls \cap {NoUrl, Nothing, Empty} = {} /\ NoUrl # Nothing /\ Nothing # Empty
ASSUME ItemsAssumption == ItemLists \subseteq Seq(Item) /\ MaxCalls \in Nat

VARIABLES
    picture,   \* picture[p]: the URL the picture at p was loaded from
    marker,    \* marker[p]: the URL its marker file names
    items,
    at,        \* the item in hand
    selected,  \* paths that have had their item
    pc,
    body,      \* what the last request brought
    stage,     \* position in Writes
    outcome,   \* "busy", "ok", "error" or "killed"
    torn,      \* history: paths where a replacement was cut off before its marker
    misled,    \* history: paths skipped though they hold another picture
    calls

files == <<picture, marker>>
vars == <<files, items, at, selected, pc, body, stage, outcome, torn, misled, calls>>

\* No empty body and no excessive one ever becomes a picture.
TypeOK ==
    /\ picture \in [Paths -> Urls \cup {Nothing}]
    /\ marker \in [Paths -> Urls \cup {Nothing}]
    /\ items \in ItemLists /\ at \in 1..(Len(items) + 1)
    /\ selected \subseteq Paths /\ torn \subseteq Paths /\ misled \subseteq Paths
    /\ pc \in {"item", "fetch", "write", "over"} /\ stage \in 1..3
    /\ body \in Urls \cup {Nothing, Empty}
    /\ outcome \in {"busy", "ok", "error", "killed"}
    /\ calls \in Nat

----------------------------------------------------------------------------

\* Mutant: the marker is written before the picture it vouches for.
MarkerFirst == <<"directory", "marker", "picture">>
Writes == <<"picture", "directory", "marker">>

Url == items[at].url
Path == items[at].path

Init ==
    /\ picture = [p \in Paths |-> Nothing] /\ marker = [p \in Paths |-> Nothing]
    /\ items \in ItemLists /\ at = 1 /\ selected = {} /\ pc = "item" /\ stage = 1
    /\ body = Nothing /\ outcome = "busy" /\ torn = {} /\ misled = {} /\ calls = 1

End(how) == pc' = "over" /\ outcome' = how

\* Save goes on to the next item.
NextItem == pc' = "item" /\ at' = at + 1 /\ stage' = 1

\* A source without client (before the first item), a context that has ended
\* (before a download).
PassOver == Url = NoUrl \/ Path \in selected

Refuse ==
    /\ pc = "item" /\ at <= Len(items) /\ (at = 1 \/ ~PassOver)
    /\ End("error")
    /\ UNCHANGED <<files, items, at, selected, body, stage, torn, misled, calls>>

PassItem ==
    /\ pc = "item" /\ at <= Len(items) /\ PassOver
    /\ NextItem
    /\ UNCHANGED <<files, items, selected, body, outcome, torn, misled, calls>>

\* Mutant: any picture will do.
AnyPicture == picture[Path] # Nothing
SameSource == picture[Path] # Nothing /\ marker[Path] = Url

SkipItem ==
    /\ pc = "item" /\ at <= Len(items) /\ ~PassOver /\ SameSource
    /\ selected' = selected \cup {Path}
    /\ misled' = IF picture[Path] = Url THEN misled ELSE misled \cup {Path}
    /\ NextItem
    /\ UNCHANGED <<files, items, body, outcome, torn, calls>>

TakeItem ==
    /\ pc = "item" /\ at <= Len(items) /\ ~PassOver /\ ~SameSource
    /\ selected' = selected \cup {Path}
    /\ pc' = "fetch"
    /\ UNCHANGED <<files, items, at, body, stage, outcome, torn, misled, calls>>

\* Mutant: the size of the body is not looked at.
AnyBody(b) == TRUE
Acceptable(b) == b # Empty

\* The request fails, or answers with a body that Download looks at.
Fetch ==
    /\ pc = "fetch"
    /\ body' \in {Nothing, Url, Empty}
    /\ IF body' # Nothing /\ Acceptable(body') THEN pc' = "write" /\ UNCHANGED outcome
       ELSE End("error")
    /\ UNCHANGED <<files, items, at, selected, stage, torn, misled, calls>>

\* A picture has been replaced and its marker has not.
CutOff ==
    IF pc = "write" /\ \E k \in 1..(stage - 1) : Writes[k] = "picture" THEN {Path} ELSE {}

\* A write fails: what was written before it stays.
FailWrite ==
    /\ pc = "write"
    /\ torn' = torn \cup CutOff
    /\ End("error")
    /\ UNCHANGED <<files, items, at, selected, body, stage, misled, calls>>

\* One of the three writes has succeeded.
Advance ==
    IF stage < Len(Writes) THEN stage' = stage + 1 /\ UNCHANGED <<pc, at, torn>>
    ELSE NextItem /\ torn' = torn \ {Path}

WritePicture ==
    /\ pc = "write" /\ Writes[stage] = "picture"
    /\ picture' = [picture EXCEPT ![Path] = body]
    /\ Advance
    /\ UNCHANGED <<marker, items, selected, body, outcome, misled, calls>>

MakeDirectory ==
    /\ pc = "write" /\ Writes[stage] = "directory"
    /\ Advance
    /\ UNCHANGED <<files, items, selected, body, outcome, misled, calls>>

WriteMarker ==
    /\ pc = "write" /\ Writes[stage] = "marker"
    /\ marker' = [marker EXCEPT ![Path] = Url]
    /\ Advance
    /\ UNCHANGED <<picture, items, selected, body, outcome, misled, calls>>

SaveDone ==
    /\ pc = "item" /\ at > Len(items)
    /\ End("ok")
    /\ UNCHANGED <<files, items, at, selected, body, stage, torn, misled, calls>>

----------------------------------------------------------------------------

Kill ==
    /\ outcome = "busy"
    /\ torn' = torn \cup CutOff
    /\ End("killed")
    /\ UNCHANGED <<files, items, at, selected, body, stage, misled, calls>>

\* A later Save, with what the sources offer by then. People delete pictures.
SaveAgain ==
    /\ outcome # "busy" /\ calls < MaxCalls /\ calls' = calls + 1
    /\ items' \in ItemLists /\ at' = 1 /\ selected' = {} /\ pc' = "item" /\ stage' = 1
    /\ outcome' = "busy" /\ body' = Nothing /\ misled' = {}
    /\ \E gone \in SUBSET Paths :
         picture' = [p \in Paths |-> IF p \in gone THEN Nothing ELSE picture[p]]
    /\ UNCHANGED <<marker, torn>>

Step ==
    \/ Refuse \/ PassItem \/ SkipItem \/ TakeItem \/ Fetch
    \/ FailWrite \/ WritePicture \/ MakeDirectory \/ WriteMarker \/ SaveDone

Next == Step \/ Kill \/ SaveAgain

Spec == Init /\ [][Next]_vars

----------------------------------------------------------------------------

\* First(p): the item that counts for p among several, the first with a URL.
Offered(p) == {n \in DOMAIN items : items[n].path = p /\ items[n].url # NoUrl}
Wanted(p) == items[CHOOSE n \in Offered(p) : \A m \in Offered(p) : n <= m].url

\* A marker tells the truth about the picture beside it, except while the
\* download at hand is between the two files, and where a download was cut off
\* there: no other step, and no number of failed requests and restarts, makes
\* the two disagree (download.go 51-57).
MarkersVouch ==
    \A p \in Paths :
        picture[p] # Nothing /\ p \notin torn /\ ~(pc = "write" /\ Path = p)
            => marker[p] = picture[p]

\* When Save succeeds, every path that was offered a picture has the first
\* one offered, unless an earlier interruption has left a false marker there
\* (download.go 63-85, README "one selected image").
SavedAsSelected ==
    outcome = "ok" => \A p \in Paths :
        Offered(p) # {} /\ p \notin torn => picture[p] = Wanted(p)

\* What the comment on Download says: only a complete file of the same source
\* is skipped (download.go 16).
SkippedHaveSameSource == misled = {}
=============================================================================
