----------------------------- MODULE MCCollector -----------------------------
(***************************************************************************)
(* A directory with two files that may be two films or one show, and a     *)
(* disc whose movie.nfo is also the NFO of the file movie.mkv beside it.   *)
(***************************************************************************)
EXTENDS Collector

MCOrder == <<"tmdb">>
MCServes == [tmdb |-> {"movie", "show"}]
MCRank == [season |-> 1]
MCUnder == [season |-> {"first", "movie"}]
MCMovieNfo ==
    [first |-> <<"first.nfo">>, movie |-> <<"movie.nfo">>,
     disc |-> <<"movie.nfo", "index.nfo">>]
MCEntryNfo == [first |-> "first.nfo", movie |-> "movie.nfo", disc |-> "movie.nfo"]
MCShowNfo == [season |-> "tvshow.nfo"]

\* Nothing pinned, or the show pinned to a work and the disc to its source.
MCPinChoices ==
    {[k \in Keys |-> Free],
     [k \in Keys |->
        IF k = ShowAt("season") THEN [source |-> "tmdb", at |-> "a"]
        ELSE IF k = MovieAt("disc") THEN [source |-> "tmdb", at |-> NoWork] ELSE Free]}
=============================================================================
