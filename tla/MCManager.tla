----------------------------- MODULE MCManager -----------------------------
(***************************************************************************)
(* Two sources, of which the second serves shows only, and three works.    *)
(***************************************************************************)
EXTENDS Manager

MCOrder == <<"tmdb", "thetvdb">>
MCServes == [tmdb |-> {"movie", "show"}, thetvdb |-> {"show"}]

Ask(kind, source, work, hints) ==
    [kind |-> kind, source |-> source, work |-> work, titled |-> TRUE,
     wellFormed |-> TRUE, hints |-> hints]

HintAt(s, w) == [source |-> s, work |-> w]

\* One request of each sort: free, hinted at one of the sources, tied to a
\* source, tied to a work by page or by number (for a movie with a hint that
\* disagrees, which shows.Prepare refuses), tied to a source that cannot serve
\* it, and two that only callers other than the pipelines make and Resolve refuses.
MCRequests ==
    {Ask("show", NoSource, NoWork, {}),
     Ask("show", NoSource, NoWork, {HintAt("thetvdb", "b")}),
     Ask("show", "thetvdb", NoWork, {HintAt("thetvdb", "a")}),
     Ask("show", "thetvdb", Slug, {}),
     Ask("show", "tmdb", "a", {}),
     Ask("movie", NoSource, NoWork, {HintAt("tmdb", "a")}),
     Ask("movie", "tmdb", "a", {HintAt("tmdb", "b")}),
     Ask("movie", "thetvdb", NoWork, {}),
     Ask("movie", NoSource, "a", {}),
     Ask("movie", NoSource, NoWork, {HintAt("tmdb", "a"), HintAt("tmdb", "b")})}
=============================================================================
