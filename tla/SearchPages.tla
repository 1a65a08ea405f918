----------------------------- MODULE SearchPages -----------------------------
(***************************************************************************)
(* The searches of the two websites: Search and searchAllPages of          *)
(* tmdb/provider_search.go and of thetvdb/search.go. One search asks for   *)
(* every page of every title and returns all candidates or none. The       *)
(* website is whatever answers: one that keeps its list, one that ranks it *)
(* anew between two pages, or one whose answers make no sense.             *)
(***************************************************************************)
EXTENDS Naturals, Sequences, FiniteSets, Functions

CONSTANTS
    Works,      \* what hits may be about
    NoWork,     \* a hit without a valid number or title
    InYear,     \* the works of the year that is asked for
    Limit,      \* MaxDecisionCandidates
    PageSize,   \* hits on a full page
    Shelves,    \* the lists a website may have for a title
    Odd,        \* answers of a website that makes no sense
    MaxTitles   \* distinct titles of a query

Answers == [pages : Nat, total : Nat, size : Nat, hits : Seq(Works \cup {NoWork})]

ASSUME WorksAssumption == NoWork \notin Works /\ IsFiniteSet(Works) /\ InYear \subseteq Works
ASSUME SizeAssumption == Limit \in Nat /\ PageSize \in Nat \ {0} /\ MaxTitles \in Nat
ASSUME ShelvesAssumption ==
    /\ Shelves \subseteq Seq(Works)
    /\ \A s \in Shelves : Cardinality(Range(s)) = Len(s)
ASSUME OddAssumption == Odd \subseteq Answers

VARIABLES
    site, kind, titles, \* the provider, what is searched, the number of titles
    title,      \* the title at hand
    shelf,      \* the website's list for it
    website,    \* "steady", "shifting" or "odd": how it has answered so far
    pc,
    page,       \* pages of this title read so far
    head,       \* totals on its first page
    received,   \* hits counted on its pages
    found,      \* works on its pages
    candidates, \* works of the titles before it
    outcome,    \* "busy", "found", "none" or "error"
    shown,      \* history: works on the lists of the titles so far
    repeated    \* history: a page repeated a work of an earlier page

query == <<site, kind, titles>>
list == <<shelf, shown>>
progress == <<title, page, head, received, found, candidates, repeated>>
vars == <<query, list, website, pc, progress, outcome>>

Totals == [pages : Nat, total : Nat, size : Nat]
NoTotals == [pages |-> 0, total |-> 0, size |-> 0]

TypeOK ==
    /\ site \in {"tmdb", "thetvdb"} /\ kind \in {"movie", "show"}
    /\ titles \in 0..MaxTitles /\ title \in Nat
    /\ shelf \in Shelves /\ shown \subseteq Works
    /\ website \in {"steady", "shifting", "odd"}
    /\ pc \in {"start", "entry", "page", "over"}
    /\ page \in Nat /\ head \in Totals /\ received \in Nat
    /\ found \subseteq Works /\ candidates \subseteq Works
    /\ repeated \in BOOLEAN /\ outcome \in {"busy", "found", "none", "error"}

----------------------------------------------------------------------------

Init ==
    /\ site \in {"tmdb", "thetvdb"} /\ kind \in {"movie", "show"} /\ titles \in 0..MaxTitles
    /\ shelf \in Shelves /\ shown = Range(shelf) /\ website = "steady"
    /\ title = 1 /\ page = 0 /\ head = NoTotals /\ received = 0 /\ found = {}
    /\ candidates = {} /\ repeated = FALSE /\ pc = "start" /\ outcome = "busy"

End(how) == pc' = "over" /\ outcome' = how

Supported == site = "tmdb" \/ kind = "show"

\* Kinds the website does not serve, a query without titles.
RefuseQuery ==
    /\ pc = "start" /\ (~Supported \/ titles = 0)
    /\ End("error")
    /\ UNCHANGED <<query, list, website, progress>>

Start ==
    /\ pc = "start" /\ Supported /\ titles # 0
    /\ pc' = IF site = "thetvdb" THEN "entry" ELSE "page"
    /\ UNCHANGED <<query, list, website, progress, outcome>>

\* TheTVDB names the address of its search on a page of its own.
FindEndpoint ==
    /\ pc = "entry" /\ pc' = "page"
    /\ UNCHANGED <<query, list, website, progress, outcome>>

\* A request fails at any time, a 404 included; fields are missing or
\* negative; the hit count is not exhaustive; the answer is for another page.
RequestFails ==
    /\ pc \in {"entry", "page"}
    /\ End("error")
    /\ UNCHANGED <<query, list, website, progress>>

----------------------------------------------------------------------------

Ceil(n, size) == IF n = 0 THEN 0 ELSE 1 + (n - 1) \div size
LesserOf(m, n) == IF m <= n THEN m ELSE n

\* What a website that goes by its list answers. TMDb may count an empty
\* first page.
FaithfulAnswers ==
    LET before == page * PageSize
        pages == Ceil(Len(shelf), PageSize)
    IN {[pages |-> p, total |-> Len(shelf), size |-> PageSize,
         hits |-> SubSeq(shelf, before + 1, LesserOf(before + PageSize, Len(shelf)))] :
            p \in IF shelf = <<>> /\ site = "tmdb" THEN {0, 1} ELSE {pages}}

Reply(r) ==
    /\ pc = "page"
    /\ \/ website # "odd" /\ r \in FaithfulAnswers /\ UNCHANGED website
       \/ r \in Odd /\ website' = "odd"

\* The website ranks its list anew while pages are being read.
Rerank ==
    /\ pc = "page" /\ page > 0 /\ website # "odd"
    /\ shelf' \in Shelves /\ shelf' # shelf /\ Range(shelf') = Range(shelf)
    /\ website' = "shifting"
    /\ UNCHANGED <<query, shown, pc, progress, outcome>>

----------------------------------------------------------------------------

EmptyPageFits(r) ==
    /\ page = 0 /\ r.total = 0
    /\ IF site = "tmdb" THEN r.pages <= 1 ELSE r.pages = 0

FullPageFits(r) ==
    IF site = "tmdb"
      THEN page < r.pages /\ r.pages <= r.total /\ Len(r.hits) <= r.total
      ELSE /\ r.size > 0 /\ r.total > 0
           /\ r.pages = Ceil(r.total, r.size) /\ page < r.pages
           /\ Len(r.hits) = LesserOf(r.size, r.total - page * r.size)

\* Mutant: totals beyond the limit are taken.
AnyTotals(r) == IF r.hits = <<>> THEN EmptyPageFits(r) ELSE FullPageFits(r)
Valid(r) ==
    /\ r.pages <= Limit /\ r.total <= Limit
    /\ IF r.hits = <<>> THEN EmptyPageFits(r) ELSE FullPageFits(r)

\* TMDb has no page size.
TotalsOf(r) ==
    [pages |-> r.pages, total |-> r.total, size |-> IF site = "tmdb" THEN 0 ELSE r.size]

SameTotals(r) == page = 0 \/ TotalsOf(r) = head

ValidHits(r) == NoWork \notin Range(r.hits)

Gain(r) == page = 0 \/ ~(Range(r.hits) \subseteq found)

IsLast(r) == page + 1 >= r.pages
Complete(r) == received + Len(r.hits) = r.total

Sound(r) ==
    /\ Valid(r) /\ SameTotals(r)
    /\ received + Len(r.hits) <= r.total
    /\ ValidHits(r) /\ Gain(r)
    /\ IsLast(r) => Complete(r)

RefusePage ==
    /\ \E r \in FaithfulAnswers \cup Odd : Reply(r) /\ ~Sound(r)
    /\ End("error")
    /\ UNCHANGED <<query, list, progress>>

NextPage ==
    /\ \E r \in FaithfulAnswers \cup Odd :
         /\ Reply(r) /\ Sound(r) /\ ~IsLast(r)
         /\ head' = TotalsOf(r)
         /\ received' = received + Len(r.hits)
         /\ found' = found \cup Range(r.hits)
         /\ repeated' = (repeated \/ Range(r.hits) \cap found # {})
    /\ page' = page + 1
    /\ UNCHANGED <<query, list, title, candidates, pc, outcome>>

----------------------------------------------------------------------------

\* Mutant: each title starts with the candidates of its own pages only.
LatestTitle(r) == found \cup Range(r.hits)
Collected(r) == candidates \cup found \cup Range(r.hits)

\* The last page of a title, with the candidates of the titles so far.
LastPage(r) ==
    /\ Reply(r) /\ Sound(r) /\ IsLast(r)
    /\ repeated' = (repeated \/ Range(r.hits) \cap found # {})
    /\ page' = 0 /\ head' = NoTotals /\ received' = 0 /\ found' = {}

\* Mutant: the loop over the titles does not advance.
SameTitle == title
NextTitle == title + 1

TooMany ==
    /\ \E r \in FaithfulAnswers \cup Odd :
         LastPage(r) /\ Cardinality(Collected(r)) > Limit
    /\ End("error")
    /\ UNCHANGED <<query, list, title, candidates>>

TitleDone ==
    /\ \E r \in FaithfulAnswers \cup Odd :
         /\ LastPage(r) /\ Cardinality(Collected(r)) <= Limit
         /\ candidates' = Collected(r)
    /\ title < titles /\ title' = NextTitle
    /\ shelf' \in Shelves /\ shown' = shown \cup Range(shelf')
    /\ UNCHANGED <<query, pc, outcome>>

\* TMDb is asked with the year; TheTVDB's candidates are sorted out afterwards.
Matching(works) == IF site = "tmdb" THEN works ELSE works \cap InYear

SearchDone ==
    /\ \E r \in FaithfulAnswers \cup Odd :
         /\ LastPage(r) /\ Cardinality(Collected(r)) <= Limit
         /\ candidates' = Matching(Collected(r))
    /\ title = titles
    /\ End(IF candidates' = {} THEN "none" ELSE "found")
    /\ UNCHANGED <<query, list, title>>

Step ==
    \/ RefuseQuery \/ Start \/ FindEndpoint \/ RequestFails
    \/ RefusePage \/ NextPage \/ TooMany \/ TitleDone \/ SearchDone

Next == Step \/ Rerank

Spec == Init /\ [][Next]_vars /\ WF_vars(Step)

----------------------------------------------------------------------------

Answered == outcome \in {"found", "none"}

\* A search that ends without an error has every work of every title (of the
\* year, where the year is sorted out here), from a website that keeps its
\* lists and from one that ranks them anew between two pages, provided that no
\* work came twice: the totals then leave no room for a missing one
\* (searchAllPages of both providers, tmdb 71-128, thetvdb 123-170).
WholeUnlessRepeated ==
    Answered /\ website # "odd" /\ ~repeated => candidates = Matching(shown)

\* Whatever a website answers, it can neither keep the program reading (a title
\* has at most Limit pages) nor hand it more than Limit candidates, and no hit is
\* counted that the totals have no room for (validate of both providers).
Bounded ==
    /\ page <= Limit /\ received <= head.total /\ head.total <= Limit
    /\ Cardinality(found) <= received /\ Cardinality(candidates) <= Limit

\* A search ends, however the website answers.
SearchEnds == <>(outcome # "busy")

\* What README.md 42 says: searches reject incomplete candidate sets.
IncompleteRejected ==
    Answered /\ website # "odd" => Matching(shown) \subseteq candidates
=============================================================================
