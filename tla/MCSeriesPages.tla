---------------------------- MODULE MCSeriesPages ----------------------------
(***************************************************************************)
(* The website of two shows with an episode in each of two seasons, and    *)
(* two calls that reach one show by its number and by its slug, one of     *)
(* them with details. A reading of the website may differ from the one     *)
(* before.                                                                 *)
(***************************************************************************)
EXTENDS SeriesPages, TLC

CONSTANTS x, y, slugX, slugY

MCSlugOf == (x :> slugX) @@ (y :> slugY)
MCSeasonOf == [e \in Episodes |-> IF e = "e1" THEN "s1" ELSE "s2"]

\* Numbers may be exchanged, and one may stand twice.
TwoSeasons ==
    {{<<"e1", "i">>}, {<<"e1", "j">>}, {<<"e2", "i">>}, {<<"e2", "j">>},
     {<<"e1", "i">>, <<"e2", "j">>}, {<<"e1", "i">>, <<"e2", "i">>}}
TwoLoads ==
    {[c \in Calls |->
        [at |-> IF c = "c1" THEN a ELSE x, keys |-> IF c = "c1" THEN <<"e1", "e2">> ELSE ks,
         details |-> c = "c1"]] : a \in {x, slugX}, ks \in {<<"e2">>, <<"e2", "e1">>}}
=============================================================================
