---------------------------- MODULE MCSearchPages ----------------------------
(***************************************************************************)
(* Four works, pages of two, a limit of three (four where a re-ranking is  *)
(* looked for), two titles. The odd answers hold up to two hits.           *)
(***************************************************************************)
EXTENDS SearchPages

MCShelves ==
    {<<>>, <<"a">>, <<"a", "b", "c">>, <<"c", "a", "b">>, <<"b", "c">>,
     <<"d", "a">>, <<"a", "b", "c", "d">>, <<"c", "a", "d", "b">>}

MCHits == {<<>>, <<"a">>, <<"d">>, <<"nowork">>, <<"a", "b">>, <<"b", "c">>, <<"c", "c">>}

MCOdd == [pages : 0..(Limit + 1), total : 0..(Limit + 1), size : 1..2, hits : MCHits]
=============================================================================
