------------------------------- MODULE Manager -------------------------------
(***************************************************************************)
(* metadata.Manager (metadata/manager.go, series_cache.go): one call of    *)
(* Resolve at the grain at which other parties act: every cache read and   *)
(* every provider or judge call is a step of its own, the context may be   *)
(* cancelled between any two steps, and the process may be killed and      *)
(* started again, finding on disk what the earlier run cached.             *)
(***************************************************************************)
EXTENDS Metadata, FiniteSets

CONSTANTS
    Requests,               \* the requests callers may make
    MaxDecisionCandidates,  \* 254 in the code
    MaxRuns                 \* bound: starts of the program

Hint == [source : Sources, work : Works]

\* metadata.Request as far as Resolve looks at it. wellFormed abstracts the
\* checks on coordinates, episode set and the kind of reference and hints.
RequestSet ==
    [kind : Kinds, source : Sources \cup {NoSource}, work : Locators \cup {NoWork},
     titled : BOOLEAN, wellFormed : BOOLEAN, hints : SUBSET Hint]

ASSUME RequestsAssumption == Requests \subseteq RequestSet
ASSUME LimitAssumption == MaxDecisionCandidates \in Nat /\ MaxRuns \in Nat

\* One file under .metadata/cache as readCache sees it. A file that is
\* absent, expired, of another version or from the future is a miss.
Miss == [state |-> "miss", value |-> {}]
Damaged == [state |-> "damaged", value |-> {}]
Kept(v) == [state |-> "fresh", value |-> v]
CacheFiles == [state : {"miss", "damaged", "fresh"}, value : SUBSET Works]

\* cacheFile's keys for facts: "detail" for one record, "series" for a show
\* with its episodes. A fact file holds one work.
FactKeys == [kept : {"detail", "series"}, at : Locators]

\* What a website may hand over: works, and records without identity or title.
Unusable == NoWork

VARIABLES
    req,
    cancelled,    \* ctx.Err() # nil
    runs,
    pc,
    turn,         \* index into m.providers
    failures,     \* sources appended to failures
    candidates,
    manualWork,   \* the record fetched for an explicit reference
    chosen,       \* the candidate confirmed by hint or judge
    got,          \* Option.Work of resolveSource, NoWork for an error
    decisions,    \* m.decisions
    judged,       \* history: the judge's pick at each source in this run
    verdict,
    searchCache, factCache

attempt == <<candidates, manualWork, chosen, got>>
disk == <<searchCache, factCache>>
counters == <<decisions, judged>>
vars == <<req, cancelled, runs, pc, turn, failures, attempt, counters, verdict, disk>>

TypeOK ==
    /\ req \in Requests
    /\ cancelled \in BOOLEAN
    /\ runs \in Nat
    /\ pc \in {"resolve", "source", "manual", "manualCall", "search", "searchCall",
               "match", "judge", "details", "detailsCall", "return", "done"}
    /\ turn \in 1..(Len(Order) + 1)
    /\ failures \subseteq Sources
    /\ candidates \subseteq Works
    /\ {manualWork, chosen, got} \subseteq Works \cup {NoWork}
    /\ decisions \in [Sources -> Nat]
    /\ judged \in [Sources -> Works \cup {NoWork}]
    /\ verdict \in Verdicts
    /\ searchCache \in [Sources -> CacheFiles]
    /\ factCache \in [Sources -> [FactKeys -> CacheFiles]]

----------------------------------------------------------------------------

Current == Order[turn]
Fixed == req.work # NoWork

\* validateResolveRequest.
ValidRequest(r) ==
    /\ r.wellFormed
    /\ r.source = NoSource => r.work = NoWork
    /\ r.work # NoWork \/ r.titled
    /\ \A g, h \in r.hints : g.source = h.source => g.work = h.work

\* The cache a first run meets: empty, or with the files of one kind at one
\* source that readCache cannot parse.
Spoilt ==
    [source : Sources, kept : {"search", "detail", "series"}]
        \cup {[source |-> NoSource, kept |-> "search"]}
FoundOnDisk(spoilt, s, kept) ==
    IF spoilt = [source |-> s, kept |-> kept] THEN Damaged ELSE Miss

\* A fresh Resolve for r: nothing tried, nothing counted.
Fresh(r) ==
    /\ req' = r /\ cancelled' = FALSE /\ pc' = "resolve" /\ turn' = 1
    /\ failures' = {} /\ candidates' = {}
    /\ manualWork' = NoWork /\ chosen' = NoWork /\ got' = NoWork
    /\ decisions' = [s \in Sources |-> 0]
    /\ judged' = [s \in Sources |-> NoWork]
    /\ verdict' = Without("pending")

Init ==
    /\ req \in Requests /\ cancelled = FALSE /\ runs = 1 /\ pc = "resolve" /\ turn = 1
    /\ failures = {} /\ candidates = {}
    /\ manualWork = NoWork /\ chosen = NoWork /\ got = NoWork
    /\ decisions = [s \in Sources |-> 0]
    /\ judged = [s \in Sources |-> NoWork]
    /\ verdict = Without("pending")
    /\ \E spoilt \in Spoilt :
         /\ searchCache = [s \in Sources |-> FoundOnDisk(spoilt, s, "search")]
         /\ factCache = [s \in Sources |->
                           [k \in FactKeys |-> FoundOnDisk(spoilt, s, k.kept)]]

Conclude(v) ==
    /\ verdict' = v /\ pc' = "done"
    /\ UNCHANGED <<req, cancelled, runs, turn, failures, attempt, counters, disk>>

\* resolveSource returns to Resolve, with the work or with an error.
Leave(w) == got' = w /\ pc' = "return"
Fail == Leave(NoWork)

----------------------------------------------------------------------------
(* Resolve: the checks before the loop, and the loop over the sources.      *)

Enter ==
    /\ pc = "resolve"
    /\ IF cancelled THEN Conclude(Without("cancelled"))
       ELSE IF ~ValidRequest(req) THEN Conclude(Without("invalid"))
       ELSE /\ pc' = "source"
            /\ UNCHANGED <<req, cancelled, runs, turn, failures, attempt, counters,
                           verdict, disk>>

\* Mutant: a source the hints do not mention is passed over.
HintedServe(s) ==
    /\ Applicable(s, req.kind, req.source)
    /\ req.hints # {} => \E h \in req.hints : h.source = s

Serving(s) == Applicable(s, req.kind, req.source)

LoopCancelled ==
    /\ pc = "source" /\ turn <= Len(Order) /\ cancelled
    /\ Conclude(Without("cancelled"))

Skip ==
    /\ pc = "source" /\ turn <= Len(Order) /\ ~cancelled
    /\ ~Serving(Current)
    /\ turn' = turn + 1
    /\ UNCHANGED <<req, cancelled, runs, pc, failures, attempt, counters, verdict, disk>>

TrySource ==
    /\ pc = "source" /\ turn <= Len(Order) /\ ~cancelled
    /\ Serving(Current)
    /\ pc' = IF Fixed THEN "manual" ELSE "search"
    /\ candidates' = {} /\ manualWork' = NoWork /\ chosen' = NoWork /\ got' = NoWork
    /\ UNCHANGED <<req, cancelled, runs, turn, failures, counters, verdict, disk>>

\* No source applied to a named reference, or all of them failed.
OutOfSources ==
    Without(IF failures = {} /\ req.source # NoSource THEN "unsupported" ELSE "exhausted")

LoopEnds ==
    /\ pc = "source" /\ turn > Len(Order)
    /\ Conclude(OutOfSources)

----------------------------------------------------------------------------
(* fetch and fetchSeries: the cache is read first, the provider is called   *)
(* on a miss, a result from either is validated, and only a validated       *)
(* result from the provider is written. A failed write is an error.         *)

FactFile(key) == factCache[Current][key]

\* Mutant: the provider's answer is written before it is validated.
StoreAnyAnswer(key, w) == w \in Works
StoreFact(key, w) == Locates(key.at, w)

\* Cache read at state `at`: a damaged file and an invalid value are errors.
ReadFact(at, call, key, Use(_)) ==
    /\ pc = at
    /\ IF cancelled \/ FactFile(key).state = "damaged"
       THEN Fail /\ UNCHANGED <<manualWork, candidates>>
       ELSE IF FactFile(key).state = "miss"
       THEN pc' = call /\ UNCHANGED <<got, manualWork, candidates>>
       ELSE \E w \in FactFile(key).value :
              IF Locates(key.at, w) THEN Use(w)
              ELSE Fail /\ UNCHANGED <<manualWork, candidates>>
    /\ UNCHANGED <<req, cancelled, runs, turn, failures, chosen, counters, verdict, disk>>

\* The provider answers with an error or a record; the context is looked at
\* between validation and the cache write.
AnswerFact(call, key, Use(_)) ==
    /\ pc = call
    /\ \/ Fail /\ UNCHANGED <<manualWork, candidates, factCache>>
       \/ \E w \in Works \cup {Unusable} :
            /\ factCache' = IF StoreFact(key, w) /\ ~cancelled
                            THEN [factCache EXCEPT ![Current] = [@ EXCEPT ![key] = Kept({w})]]
                            ELSE factCache
            /\ IF Locates(key.at, w) /\ ~cancelled THEN Use(w)
               ELSE Fail /\ UNCHANGED <<manualWork, candidates>>
    /\ UNCHANGED <<req, cancelled, runs, turn, failures, chosen, counters, verdict,
                   searchCache>>

----------------------------------------------------------------------------
(* resolveSource: candidates from an explicit reference or from a search.   *)

ManualKey == [kept |-> "detail", at |-> req.work]

UseManual(w) ==
    /\ manualWork' = w /\ candidates' = {w}
    /\ pc' = "match" /\ UNCHANGED got

ReadManual == ReadFact("manual", "manualCall", ManualKey, UseManual)
AnswerManual == AnswerFact("manualCall", ManualKey, UseManual)

ReadSearch ==
    /\ pc = "search"
    /\ LET file == searchCache[Current] IN
       \/ file.state = "damaged" /\ Fail /\ UNCHANGED candidates
       \/ file.state = "miss" /\ pc' = "searchCall" /\ UNCHANGED <<candidates, got>>
       \/ /\ file.state = "fresh"
          /\ candidates' = file.value
          /\ pc' = "match" /\ UNCHANGED got
    /\ UNCHANGED <<req, cancelled, runs, turn, failures, manualWork, chosen, counters,
                   verdict, disk>>

\* Every candidate is complete and there are not too many distinct ones.
AcceptableAnswer(answer) ==
    /\ Unusable \notin answer
    /\ Cardinality(answer) <= MaxDecisionCandidates

\* Nothing found is an answer too, and is cached like any other.
AnswerSearch ==
    /\ pc = "searchCall"
    /\ \/ Fail /\ UNCHANGED <<candidates, searchCache>>
       \/ \E answer \in SUBSET (Works \cup {Unusable}) :
            /\ ~cancelled /\ AcceptableAnswer(answer)
            /\ candidates' = answer
            /\ searchCache' = [searchCache EXCEPT ![Current] = Kept(answer)]
            /\ pc' = "match" /\ UNCHANGED got
    /\ UNCHANGED <<req, cancelled, runs, turn, failures, manualWork, chosen, counters,
                   verdict, factCache>>

----------------------------------------------------------------------------
(* resolveSource: confirmation by hint or judge, then the complete facts.   *)

\* Mutant: a hint is believed although the search did not find its work.
UnseenHints == {h.work : h \in {g \in req.hints : g.source = Current}}

\* matchedHint: hints of this source among the real candidates. An explicit
\* reference is judged, hints or not.
MatchedHints ==
    IF Fixed THEN {}
    ELSE candidates \cap {h.work : h \in {g \in req.hints : g.source = Current}}

Match ==
    /\ pc = "match"
    /\ \/ (cancelled \/ candidates = {}) /\ Fail /\ UNCHANGED <<chosen, decisions>>
       \/ /\ ~cancelled /\ candidates # {} /\ MatchedHints # {}
          /\ chosen' \in MatchedHints
          /\ pc' = "details" /\ UNCHANGED <<got, decisions>>
       \/ /\ ~cancelled /\ candidates # {} /\ MatchedHints = {}
          /\ decisions' = [decisions EXCEPT ![Current] = @ + 1]
          /\ pc' = "judge" /\ UNCHANGED <<got, chosen>>
    /\ UNCHANGED <<req, cancelled, runs, turn, failures, candidates, manualWork, judged,
                   verdict, disk>>

\* judge.Select: an error, an index outside the candidates, or a candidate.
Judged ==
    /\ pc = "judge"
    /\ \/ Fail /\ UNCHANGED <<chosen, judged>>
       \/ /\ ~cancelled
          /\ chosen' \in candidates
          /\ judged' = [judged EXCEPT ![Current] = chosen']
          /\ pc' = "details" /\ UNCHANGED got
    /\ UNCHANGED <<req, cancelled, runs, turn, failures, candidates, manualWork, decisions,
                   verdict, disk>>

DetailsKey == [kept |-> IF req.kind = "show" THEN "series" ELSE "detail", at |-> chosen]

UseDetails(w) == Leave(w) /\ UNCHANGED <<manualWork, candidates>>

\* A movie a person named has its facts already; a show still needs its episodes.
HaveDetails ==
    /\ pc = "details" /\ req.kind = "movie" /\ manualWork # NoWork
    /\ Leave(manualWork)
    /\ UNCHANGED <<req, cancelled, runs, turn, failures, candidates, manualWork, chosen,
                   counters, verdict, disk>>

ReadDetails ==
    /\ ~(req.kind = "movie" /\ manualWork # NoWork)
    /\ ReadFact("details", "detailsCall", DetailsKey, UseDetails)
AnswerDetails == AnswerFact("detailsCall", DetailsKey, UseDetails)

----------------------------------------------------------------------------
(* Back in Resolve.                                                         *)

\* Mutant: the context is not looked at behind a source.
IgnoreContext == FALSE
DropResult == cancelled

\* Mutants: a named source's failure is a failure like another; a failed
\* source is tried again.
Fallible == TRUE
MayFallBack == req.source = NoSource
SameTurn == turn
TurnAfterFailure == turn + 1

ReturnCancelled ==
    /\ pc = "return" /\ DropResult
    /\ Conclude(Without("cancelled"))

ReturnOption ==
    /\ pc = "return" /\ ~DropResult /\ got # NoWork
    /\ Conclude(OptionOf(Current, got))

ReturnMismatch ==
    /\ pc = "return" /\ ~DropResult /\ got = NoWork /\ ~MayFallBack
    /\ Conclude(Without("mismatch"))

FallBack ==
    /\ pc = "return" /\ ~DropResult /\ got = NoWork /\ MayFallBack
    /\ failures' = failures \cup {Current}
    /\ turn' = TurnAfterFailure
    /\ pc' = "source"
    /\ UNCHANGED <<req, cancelled, runs, attempt, counters, verdict, disk>>

----------------------------------------------------------------------------
(* The world around Resolve.                                                *)

Cancel ==
    /\ pc # "done" /\ ~cancelled
    /\ cancelled' = TRUE
    /\ UNCHANGED <<req, runs, pc, turn, failures, attempt, counters, verdict, disk>>

\* A file that cannot be parsed does not expire: its age cannot be read.
Aged(file) == IF file.state = "fresh" THEN Miss ELSE file

\* A killed or finished process is started again. The name, the hints and
\* the person's reference may have changed, the kind of work has not. Cache
\* files of a source may have outlived cache_hours.
Restart ==
    /\ runs < MaxRuns
    /\ runs' = runs + 1
    /\ \E r \in Requests : r.kind = req.kind /\ Fresh(r)
    /\ \E old \in SUBSET Sources :
         /\ searchCache' = [s \in Sources |->
                IF s \in old THEN Aged(searchCache[s]) ELSE searchCache[s]]
         /\ factCache' = [s \in Sources |-> [k \in FactKeys |->
                IF s \in old THEN Aged(factCache[s][k]) ELSE factCache[s][k]]]

Step ==
    \/ Enter \/ LoopCancelled \/ Skip \/ TrySource \/ LoopEnds
    \/ ReadManual \/ AnswerManual \/ ReadSearch \/ AnswerSearch
    \/ Match \/ Judged \/ HaveDetails \/ ReadDetails \/ AnswerDetails
    \/ ReturnCancelled \/ ReturnOption \/ ReturnMismatch \/ FallBack

Next == Step \/ Cancel \/ Restart

Spec == Init /\ [][Next]_vars

\* Provider and judge calls return (every client carries a timeout), so the
\* goroutine running Resolve keeps taking steps.
FairSpec == Spec /\ WF_vars(Step)

----------------------------------------------------------------------------
(* What Resolve must do.                                                    *)

\* A reference written by a person binds: whatever fails, the verdict is an
\* option of that source and that work or an error that ends the run, never
\* "exhausted", which would let Collector describe the file by itself
\* (manager.go 62-71, README "Manual constraints").
NamedSourceKept ==
    req.source # NoSource =>
        /\ verdict.kind # "exhausted"
        /\ verdict.kind = "option" => /\ verdict.source = req.source
                                      /\ Fixed => Locates(req.work, verdict.work)

\* A later source, or none, is used only after each earlier applicable one
\* was tried and failed in this very run (the loop of Resolve).
Before(s) == {Order[n] : n \in {m \in DOMAIN Order : \E l \in DOMAIN Order : m < l /\ Order[l] = s}}

EarlierSourcesFailed ==
    verdict.kind \in {"option", "exhausted"} =>
        \A s \in (IF verdict.kind = "option" THEN Before(verdict.source) ELSE Sources) :
            Applicable(s, req.kind, req.source) => s \in failures

\* Confirmed(s, w): a hint for this source that is not overruled by an
\* explicit reference, or the judge, picked w in this run.
Confirmed(s, w) ==
    \/ judged[s] = w
    \/ ~Fixed /\ [source |-> s, work |-> w] \in req.hints

\* No work is delivered, and no details are asked for, unless it was confirmed
\* in this run and is a candidate of the source that delivers it. A cached
\* fact confirms nothing.
OnlyConfirmedWorks ==
    /\ pc \in {"details", "detailsCall"} =>
           Confirmed(Current, chosen) /\ chosen \in candidates
    /\ verdict.kind = "option" =>
           Confirmed(verdict.source, verdict.work) /\ verdict.work \in candidates

\* The cache never holds what Resolve would have refused: a fact file holds
\* the one work it is filed under and a search file no excessive list, across
\* crashes and runs and whatever the website answered.
CacheHoldsVerifiedFacts ==
    \A s \in Sources :
        /\ Cardinality(searchCache[s].value) <= MaxDecisionCandidates
        /\ \A k \in FactKeys : factCache[s][k].state = "fresh" =>
               \E w \in Works : factCache[s][k].value = {w} /\ Locates(k.at, w)

\* An option is never returned once the context has ended, even when the
\* source had already delivered it (manager.go 56-58).
NoOptionAfterCancel ==
    [][verdict'.kind = "option" /\ verdict.kind # "option" => ~cancelled]_vars

\* Every call of Resolve returns, whatever fails on the way.
ResolveReturns == pc # "done" ~> pc = "done"

\* Resolve does no more than SourceChoice promises.
Choice == INSTANCE SourceChoice WITH kind <- req.kind, named <- req.source
ImplementsChoice == Choice!ChoiceSpec
=============================================================================
