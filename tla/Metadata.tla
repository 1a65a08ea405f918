------------------------------ MODULE Metadata ------------------------------
(***************************************************************************)
(* The vocabulary of metadata/types.go that the other modules share: the   *)
(* configured sources, requests for a work, and the verdicts of a search.  *)
(***************************************************************************)
EXTENDS Naturals, Sequences

CONSTANTS
    Order,     \* the configured sources in scraper.providers order
    Works,     \* the record numbers sources give their works
    Slug,      \* a page name that locates a work without its number
    Serves,    \* Serves[s]: the kinds source s supports
    NoSource,  \* Ref.Provider = ""
    NoWork     \* no record: Ref.ID and Ref.Slug empty, a nil *Record

Sources == {Order[n] : n \in DOMAIN Order}
Kinds == {"movie", "show"}

\* providers.New refuses a name it already has, and an empty list.
ASSUME OrderAssumption ==
    /\ Order \in Seq(Sources) /\ Order # <<>>
    /\ \A m, n \in DOMAIN Order : Order[m] = Order[n] => m = n
ASSUME ServesAssumption == Serves \in [Sources -> SUBSET Kinds]
ASSUME NoneAssumption ==
    /\ NoSource \notin Sources
    /\ NoWork \notin Works \cup {Slug} /\ Slug \notin Works

\* How a request or a cache key points at a work: its number or its page.
Locators == Works \cup {Slug}

\* A record found for a locator: a number locates itself, a page whatever
\* work is shown on it.
Locates(locator, work) == work \in Works /\ locator \in {work, Slug}

\* Provider.Supports and Ref.Provider: a request that names a source is
\* served by that source only.
Applicable(s, kind, named) == kind \in Serves[s] /\ named \in {NoSource, s}

VerdictKinds ==
    {"pending", "option", "mismatch", "unsupported", "exhausted", "cancelled", "invalid"}

Verdicts ==
    [kind : VerdictKinds, source : Sources \cup {NoSource}, work : Works \cup {NoWork}]

Without(reason) == [kind |-> reason, source |-> NoSource, work |-> NoWork]
OptionOf(s, w) == [kind |-> "option", source |-> s, work |-> w]

\* Every verdict Resolve may return for a request of this kind, tied to the
\* source `named` and to the work at `at` (NoSource and NoWork when free).
Promised(kind, named, at) ==
    {Without("cancelled"), Without("invalid")}
        \cup {OptionOf(s, w) : s \in {t \in Sources : Applicable(t, kind, named)},
                               w \in {x \in Works : at # NoWork => Locates(at, x)}}
        \cup (IF named = NoSource THEN {Without("exhausted")}
              ELSE IF \E s \in Sources : Applicable(s, kind, named)
              THEN {Without("mismatch")} ELSE {Without("unsupported")})
=============================================================================
