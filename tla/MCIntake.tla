------------------------------ MODULE MCIntake ------------------------------
(***************************************************************************)
(* A library of a show with a season folder and a box with a disc and      *)
(* another video, which may look in several ways:                          *)
(*    show/  season/  e1        box/  disc/  mark                          *)
(*           e2                       extra                                *)
(* Requests of two files, ints up to 7.                                    *)
(***************************************************************************)
EXTENDS Intake

MCWalk == <<"show", "e2", "season", "e1", "zbox", "disc", "mark", "zextra">>
MCParent ==
    [show |-> "top", e2 |-> "show", season |-> "show", e1 |-> "season", zbox |-> "top",
     disc |-> "zbox", mark |-> "disc", zextra |-> "zbox"]
MCBelow ==
    [top |-> {"show", "e2", "season", "e1", "zbox", "disc", "mark", "zextra"},
     show |-> {"e2", "season", "e1"}, season |-> {"e1"}, zbox |-> {"disc", "mark", "zextra"},
     disc |-> {"mark"}, e1 |-> {}, e2 |-> {}, mark |-> {}, zextra |-> {}]
MCRank ==
    [top |-> 0, show |-> 1, e2 |-> 2, season |-> 3, e1 |-> 4, zbox |-> 5, disc |-> 6,
     mark |-> 7, zextra |-> 8]

At(form, name, skip) == [form |-> form, name |-> name, skip |-> skip]
Plain == At("dir", "plain", {})
Film == At("file", "film", {})

\* A Blu-ray beside its extra, and a show in two directories.
BluRay ==
    [top |-> Plain, show |-> Plain, e2 |-> Film, season |-> Plain, e1 |-> Film, zbox |-> Plain,
     disc |-> At("dir", "bdmv", {}), mark |-> At("file", "mark", {}), zextra |-> Film]

MCLooks ==
    {BluRay,
     \* no flag in the disc, so what is in it is a film
     [BluRay EXCEPT !.mark = Film],
     \* a disc that is filtered by the name of its box, and one by its own
     [BluRay EXCEPT !.zbox.skip = {"file"}],
     [BluRay EXCEPT !.disc.skip = {"file"}, !.e2.skip = {"file"}],
     \* a box that is skipped, a link, a file that is no video
     [BluRay EXCEPT !.zbox.skip = {"folder"}, !.e2.form = "link"],
     [BluRay EXCEPT !.season.skip = {"folder", "file"}, !.zextra.name = "plain"],
     \* a DVD with its VIDEO_TS, and a Blu-ray that has clips but no flag
     [BluRay EXCEPT !.zbox.name = "dvd", !.disc.name = "video_ts"],
     [BluRay EXCEPT !.zbox.name = "bdmv", !.disc.name = "stream", !.mark.name = "clip"],
     \* nothing, and a root that is a disc
     [BluRay EXCEPT !.show.skip = {"folder"}, !.zbox.skip = {"folder"}],
     [BluRay EXCEPT !.top.name = "hdvd_ts", !.e2.name = "mark"],
     [BluRay EXCEPT !.top.name = "dvd", !.show.name = "video_ts", !.e2.name = "mark"]}

Movie(path, tmdb) ==
    [path |-> path, type |-> "movie", root |-> "noplace", season |-> Unknown,
     episode |-> Unknown, names |-> {"x"}, tmdb |-> tmdb, thetvdb |-> "noid"]
Episode(path, root, season, episode, names, tmdb, thetvdb) ==
    [path |-> path, type |-> "tv", root |-> root, season |-> season, episode |-> episode,
     names |-> names, tmdb |-> tmdb, thetvdb |-> thetvdb]

FirstItems ==
    {Movie("e1", "7"),
     Episode("e1", "show", 1, 1, {"x"}, "noid", "noid"),
     Episode("e1", "show", Unknown, 2, {"x", "y"}, "7", "9"),
     Episode("e1", "season", 2, 2, {"y"}, "8", "noid"),
     Episode("e1", "top", 1, 1, {"z"}, "7", "noid")}
SecondItems ==
    {Movie("e2", "noid"),
     Episode("e2", "show", 1, 1, {"x"}, "noid", "noid"),
     Episode("e2", "show", 1, 2, {"y"}, "7", "8"),
     Episode("e2", "show", 2, Unknown, {"z"}, "8", "9")}
OtherItems ==
    {Movie("disc", "7"), Movie("zextra", "noid"), Movie("mark", "noid"), Movie("zbox", "7"),
     Episode("disc", "zbox", 1, 1, {"x"}, "noid", "noid"),
     Episode("zextra", "top", 1, 1, {"y"}, "noid", "9")}
BadItems ==
    {[Movie("e1", "7") EXCEPT !.season = 1], [Movie("e1", "7") EXCEPT !.names = {}],
     [Movie("e2", "noid") EXCEPT !.tmdb = "badid"],
     Episode("e2", "zbox", 1, 1, {"x"}, "noid", "noid"), Movie("stray", "noid")}

MCItems == FirstItems \cup SecondItems \cup OtherItems
MCReplies ==
    {<<i>> : i \in MCItems \cup BadItems} \cup {<<i, j>> : i, j \in MCItems}
        \cup {<<>>} \cup {<<i, j>> : i \in BadItems, j \in SecondItems}
        \cup {<<i, i, i>> : i \in FirstItems}

MCEchoes ==
    LET paths == {"e1", "e2", "disc", "mark", "zextra", "zbox", "stray"}
    IN {<<p>> : p \in paths} \cup {<<p, q>> : p, q \in paths} \cup {<<"e1", "e2", "e1">>}

NoNotes ==
    [source |-> [p \in Places |-> NoRef], id |-> [p \in Places |-> "noid"],
     season |-> [p \in Places |-> Unknown], group |-> [p \in Places |-> Absent],
     join |-> [p \in Places |-> NoJoin]]
JoinTo(from, to, start) == [from |-> from, to |-> to, start |-> start]

MCNoteSheets ==
    {NoNotes,
     \* the second season, counted on from the first; a start that overflows
     [NoNotes EXCEPT !.join["season"] = JoinTo(1, 2, 3), !.id["show"] = "7"],
     [NoNotes EXCEPT !.season["season"] = 1, !.join["season"] = JoinTo(1, 1, 7)],
     \* a group for the show but not for its season, with and without TheTVDB
     [NoNotes EXCEPT !.group["show"] = "g", !.group["season"] = NoGroup,
                     !.source["show"] = Tmdb("noid"), !.id["show"] = "8"],
     [NoNotes EXCEPT !.group["season"] = "g", !.source["show"] = TheTvdb("9")],
     \* a page at TheTVDB that is known by number as well, a movie of two numbers
     [NoNotes EXCEPT !.source["show"] = [provider |-> "thetvdb", id |-> "9", slug |-> "s"],
                     !.id["zextra"] = "7", !.id["zbox"] = "8"],
     [NoNotes EXCEPT !.source["e1"] = Tmdb("noid"), !.id["e1"] = "7", !.id["season"] = "7",
                     !.id["top"] = "7"],
     \* notes that cannot be read
     [NoNotes EXCEPT !.source["disc"] = BadRef, !.source["season"] = BadRef,
                     !.join["show"] = JoinTo(1, 1, 0)],
     [NoNotes EXCEPT !.group["show"] = BadGroup, !.season["season"] = -2, !.id["zbox"] = "badid"]}
=============================================================================
