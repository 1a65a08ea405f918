------------------------------ MODULE Discovery ------------------------------
(***************************************************************************)
(* Discover (collector/discovery.go) with the filters and the names of     *)
(* media files: one walk over the directory given with --path, which takes *)
(* video files one by one and a raw DVD or Blu-ray directory as a whole.   *)
(* Part of Intake, whose modules share `stage`.                            *)
(***************************************************************************)
EXTENDS Integers, Sequences, FiniteSets

CONSTANTS
    Top,      \* the directory given with --path
    Walk,     \* what it holds, in the order of WalkDir
    Parent,   \* Parent[e]: the directory e is in
    Below,    \* Below[d]: what d holds at any depth
    Looks     \* what those entries may be

Entries == {Walk[n] : n \in DOMAIN Walk}
Places == Entries \cup {Top}

\* What a name means: "mark" is the flag file of the disc directory it is in,
\* "clip" a .m2ts, "film" another video.
Names == {"plain", "film", "mark", "clip", "bdmv", "stream", "video_ts", "hdvd_ts", "dvd"}

\* skip: the filters the name falls under.
Look == [form : {"dir", "file", "link"}, name : Names, skip : SUBSET {"folder", "file"}]

\* A directory comes before what it holds, and all of that comes next.
ASSUME TreeAssumption ==
    /\ Walk \in Seq(Entries) /\ Top \notin Entries
    /\ \A m, n \in DOMAIN Walk : Walk[m] = Walk[n] => m = n
    /\ Parent \in [Entries -> Places] /\ Below \in [Places -> SUBSET Entries]
    /\ Below[Top] = Entries
    /\ \A d \in Places :
         /\ Below[d] = UNION {{e} \cup Below[e] : e \in {c \in Entries : Parent[c] = d}}
         /\ \A e \in Below[d] : Below[e] \subseteq Below[d]
    /\ \A n \in DOMAIN Walk :
         /\ n + Cardinality(Below[Walk[n]]) <= Len(Walk)
         /\ Below[Walk[n]] = {Walk[m] : m \in (n + 1)..(n + Cardinality(Below[Walk[n]]))}
ASSUME LooksAssumption ==
    \A looks \in Looks :
        /\ looks \in [Places -> Look] /\ looks[Top].form = "dir"
        /\ \A d \in Places : Below[d] # {} => looks[d].form = "dir"

VARIABLES
    stage,   \* where Run stands between its start and the tasks it prepares
    look,    \* the directory as it is
    inside,  \* --path lies somewhere inside a raw disc
    at,      \* the next entry of the walk
    files    \* discovery.Files

directory == <<look, inside>>
discovery == <<at, files>>

Found == {files[n] : n \in DOMAIN files}

----------------------------------------------------------------------------

DiscoveryInit ==
    /\ look \in Looks /\ inside \in BOOLEAN
    /\ stage = "start" /\ at = 1 /\ files = <<>>

Contents(d) == {e \in Entries : Parent[e] = d}
IsFile(e) == look[e].form = "file"
IsDir(e) == look[e].form = "dir"
IsVideo(e) == look[e].name \in {"film", "mark", "clip"}
Marked(d) == \E e \in Contents(d) : IsFile(e) /\ look[e].name = "mark"

IsRawDisc(d) ==
    CASE look[d].name = "bdmv" ->
           \/ Marked(d)
           \/ \E s \in Contents(d) : IsDir(s) /\ look[s].name = "stream"
                /\ \E e \in Contents(s) : IsFile(e) /\ look[e].name = "clip"
      [] look[d].name \in {"video_ts", "hdvd_ts"} -> Marked(d)
      [] look[d].name = "dvd" ->
           \E s \in Contents(d) : IsDir(s) /\ look[s].name = "video_ts" /\ Marked(s)
      [] OTHER -> FALSE

\* A directory that is no directory, cannot be read, or is part of a disc.
RefuseRoot ==
    /\ stage = "start" /\ (inside \/ IsRawDisc(Top))
    /\ stage' = "failed"
    /\ UNCHANGED <<directory, discovery>>

BeginWalk ==
    /\ stage = "start" /\ ~inside /\ ~IsRawDisc(Top)
    /\ stage' = "walk"
    /\ UNCHANGED <<directory, discovery>>

DiscoveryFails ==
    /\ stage \in {"start", "walk"}
    /\ stage' = "failed"
    /\ UNCHANGED <<directory, discovery>>

Here == Walk[at]
Visiting == stage = "walk" /\ at <= Len(Walk)

\* Mutant: the walk does not advance.
SameEntry == at
NextEntry == at + 1

\* fs.SkipDir. Mutant: what a taken disc holds is walked as well.
WalkOn == at + 1
PastFolder == at + 1 + Cardinality(Below[Here])

SkipFolder ==
    /\ Visiting /\ IsDir(Here) /\ "folder" \in look[Here].skip
    /\ at' = PastFolder
    /\ UNCHANGED <<stage, directory, files>>

\* A folder as any other, a link, a file that is filtered or no video.
PassEntry ==
    /\ Visiting
    /\ \/ IsDir(Here) /\ "folder" \notin look[Here].skip /\ ~IsRawDisc(Here)
       \/ IsFile(Here) /\ ("file" \in look[Here].skip \/ ~IsVideo(Here))
       \/ look[Here].form = "link"
    /\ at' = NextEntry
    /\ UNCHANGED <<stage, directory, files>>

AtDisc == Visiting /\ IsDir(Here) /\ "folder" \notin look[Here].skip /\ IsRawDisc(Here)

\* A disc goes by the name of the directory it is in as well as its own.
Filtered(disc) == "file" \in look[Parent[disc]].skip \cup look[disc].skip

LeaveOutDisc ==
    /\ AtDisc /\ Filtered(Here)
    /\ at' = PastFolder
    /\ UNCHANGED <<stage, directory, files>>

appendDiscovered(e) == files' = IF e \in Found THEN files ELSE Append(files, e)

TakeDisc ==
    /\ AtDisc /\ ~Filtered(Here)
    /\ appendDiscovered(Here) /\ at' = PastFolder
    /\ UNCHANGED <<stage, directory>>

TakeVideo ==
    /\ Visiting /\ IsFile(Here) /\ "file" \notin look[Here].skip /\ IsVideo(Here)
    /\ appendDiscovered(Here) /\ at' = NextEntry
    /\ UNCHANGED <<stage, directory>>

\* Run is done at once where there is nothing.
EndWalk ==
    /\ stage = "walk" /\ at > Len(Walk)
    /\ stage' = IF files = <<>> THEN "done" ELSE "extract"
    /\ UNCHANGED <<directory, discovery>>

DiscoveryStep ==
    \/ RefuseRoot \/ BeginWalk \/ SkipFolder \/ PassEntry
    \/ LeaveOutDisc \/ TakeDisc \/ TakeVideo \/ EndWalk

----------------------------------------------------------------------------

\* What a directory holds is out of reach: it is filtered, or a disc.
Closed(d) == IsDir(d) /\ ("folder" \in look[d].skip \/ IsRawDisc(d))

\* What a person would call a video of the library, said of each entry alone.
Eligible(e) ==
    /\ \A d \in Entries : e \in Below[d] => ~Closed(d)
    /\ \/ IsFile(e) /\ IsVideo(e) /\ "file" \notin look[e].skip
       \/ /\ IsDir(e) /\ "folder" \notin look[e].skip /\ IsRawDisc(e)
          /\ ~Filtered(e)

\* A walk that ends has taken exactly the videos there are, each once: no file
\* of a disc beside the disc it belongs to, whose outputs would go into the
\* disc, and nothing lost behind a directory that was left out or only looked
\* like a disc (discovery.go 46-87).
FoundExactly ==
    stage \notin {"start", "walk", "failed"} =>
        /\ Found = {e \in Entries : Eligible(e)}
        /\ Len(files) = Cardinality(Found)
        /\ \A e, f \in Found : e \notin Below[f]
=============================================================================
