------------------------------ MODULE MCArtwork ------------------------------
(***************************************************************************)
(* Two paths and two URLs, offered singly, twice for a path, and empty.    *)
(***************************************************************************)
EXTENDS Artwork

At(u, p) == [url |-> u, path |-> p]

MCItemLists ==
    {<<>>, <<At("u", "poster")>>, <<At("v", "poster"), At("u", "poster")>>,
     <<At(NoUrl, "poster"), At("v", "poster"), At("v", "fanart")>>,
     <<At("u", "fanart"), At("u", "poster")>>}
=============================================================================
