----------------------------- MODULE MCSeriesGate -----------------------------
(***************************************************************************)
(* Three calls for one show: one reads it in its own order, with details;  *)
(* the others through a group, or in its own order without details.        *)
(***************************************************************************)
EXTENDS SeriesGate, TLC

MCSeasonOf == [e \in Episodes |-> IF e = "e1" THEN "s1" ELSE "s2"]
MCMainPaths == <<<<"main", "credits">>, <<"main", "ratings">>>>
MCExtensions == <<"credits", "images">>

\* A season list that is right, renumbered, of another season, with a row of
\* another work, or with a row too many.
MCSeasonPages ==
    {[season |-> "s1", rows |-> {<<"e1", "i">>}], [season |-> "s1", rows |-> {<<"e1", "j">>}],
     [season |-> "s2", rows |-> {<<"e2", "j">>}], [season |-> "s2", rows |-> {<<"e2", None>>}],
     [season |-> "s1", rows |-> {<<"e1", "i">>, <<"e1", "j">>}]}
MCGroupPages ==
    {"e1" :> [episode |-> "e2", id |-> "j"],
     ("e1" :> [episode |-> "e2", id |-> "j"]) @@ ("e2" :> [episode |-> "e1", id |-> "i"])}

Plain(e) == [group |-> None, at |-> e]
Grouped(e) == [group |-> "g", at |-> e]
Ask(keys, details) == [of |-> "show", keys |-> keys, details |-> details]
MCLoads ==
    {[c \in Calls |->
        CASE c = "c1" -> Ask(<<Plain("e1"), Plain("e2")>>, TRUE)
          [] c = "c2" -> Ask(<<Grouped("e2"), Plain("e1")>>, TRUE)
          [] c = "c3" -> Ask(<<Grouped("e1")>>, FALSE)]}
=============================================================================
