# Formal models of kodi-metadata-tmdb-cli

The program takes one media directory, asks a language model what each file is, finds
the work at TMDb or TheTVDB, lets a judge confirm it, and writes NFO files and pictures
beside the videos. These TLA+ modules model the parts of it whose behaviour depends on
order, failure and what earlier runs left behind; TLC checks them on small instances and
TLAPS proves their invariants for every instance. Paths below are relative to the
repository's source directory.

## 1. The system

| Part | State it keeps | Operations | Talks to |
|---|---|---|---|
| `main.go`, `providers/` | none beyond construction | parse flags, build clients, run once | everything, once |
| `config/` | settings, constant after `LoadConfig` | load, validate | all |
| `collector/` | discovery, task list, `unmatched` list, all of one run | `Run`, `Discover`, `prepareTasks`, `validateOutputPlan` | `ai`, `metadata`, `movies`, `shows`, `artwork` |
| `common/ai` | request counters | `Analyze` (batches of 50), `DescribeLocal`, judge `Select` | a language model over HTTP |
| `common/jev` | none | `Select`: one choice and a match probability per candidate | Jev over HTTP |
| `metadata/` | `decisions` counters; files under `.metadata/cache` | `Resolve`, `LoadReference`, cache read and write | providers, judge, disk |
| `tmdb/` | facts of shows behind a gate, statistics | `Search`, `Fetch`, `FetchSeries` | TMDb API |
| `thetvdb/` | shared pages, season lists, next request time | `Search`, `Fetch`, `FetchSeries` | TheTVDB site |
| `movies/`, `shows/` | one task each | `Prepare`, `OutputPaths`, `Local`, `Write` | `nfo`, `artwork` |
| `nfo/`, `utils/nfo.go` | NFO files | `Write`, `SaveNfo`, `WriteFileAtomic` | disk |
| `artwork/` | pictures, marker files | `Save`, `Download` | websites, disk |
| `utils/`, `media_file/`, `common/httpx` | log file | naming, logging, transport | - |

How they interact. `main` builds the clients and calls `collector.Run`. `Run` discovers
the files, has `Analyze` classify them, makes one task per movie and one per show root,
checks that no two outputs share a file, then takes the tasks in order: `Resolve`, then
the task's `Write`. A task whose sources are all exhausted is kept for the end, when
`DescribeLocal` describes all of these from their paths. `Resolve` goes through the
sources in configured order; for each it reads the cache or asks the provider, has the
candidate confirmed by a hint or the judge, and fetches the complete facts, again by way
of the cache. `Write` saves NFO files (`WriteFileAtomic`), then pictures (`Save`), each
with a marker file that names its URL. Disk is the only thing one run hands to the next.

What is hard here, and where:

- **Failure at every step.** A dozen ways for a source to fail must end in one of four
  verdicts; which one decides whether a person's constraint is broken (`manager.go` 48-77).
- **What earlier runs left.** Cache files, NFO files, pictures and markers of killed or
  failed runs, of other requests, with another reading of the same file.
- **Files written one after the other.** Two NFOs of a disc, the many of a show, a picture
  and its marker, a temporary file and its rename.
- **Cancellation** between any two steps (the command passes a background context; tests
  and other callers cancel).
- **Sharing inside a provider.** Concurrent callers of one page, one gate, one pace. The
  command uses one caller; the provider tests use several.
- **Completeness of what websites say.** Pages, totals, overlapping results.
- **What a language model says.** Any answer may come, in any order, batch by batch, next to
  notes that people left in several places; it must become tasks that leave nothing out.

What makes each part correct:

- `metadata`: the order of sources is respected; a named source binds; nothing unconfirmed
  is delivered, and nothing at all once the context has ended; the cache holds nothing that
  would not have been accepted; every call returns.
- `collector`: success means everything is catalogued consistently; pins hold; no output
  is overwritten within a run; local descriptions come last; a cancelled run takes up nothing
  new; every run ends.
- `collector/discovery.go`, `common/ai`, `movies.Prepare`, `shows.Prepare`: every video found
  exactly once and put into exactly one task; a show is accepted just when what is said of its files
  contradicts itself nowhere; a task asks for what the notes say; each local text is of its file.
- `utils/nfo.go`: a reader sees old or new, an error means old, no litter without cause.
- `artwork`: the first picture offered is the one on disk; a marker tells the truth.
- providers: a search is complete or an error; a shared page is fetched once, a failed one
  not kept and none filed under a wrong number; a gate is always given back and what is
  kept behind it is complete; the website is not asked faster than configured.

## 2. The modules

```
Metadata ---- sources, requests' locators, verdicts, Promised
   |-- SourceChoice      what Resolve promises            (abstract)
   |-- Manager           Resolve, step by step            implements SourceChoice
   |      |-- MCManager, ManagerProofs
   |-- Collector         Run, using Promised for Resolve, and Organisation
          |-- MCCollector, CollectorProofs
Organisation             the tasks prepareTasks may make of what was found  (abstract)
   Discovery             the walk of Discover
     Extraction          Analyze, batch by batch
       Preparation       prepareTasks, movies.Prepare, shows.Prepare
         LocalText       the local phase: DescribeLocal and Local
           Intake        the four in a row                makes only plans of Organisation
             |-- MCIntake, IntakeProofs
FileRegister             what a written file is to its readers  (abstract)
   AtomicFile            SaveNfo and WriteFileAtomic      implements FileRegister
          |-- AtomicFileProofs
Artwork                  Save and Download
          |-- MCArtwork, ArtworkProofs
SearchPages              Search of TMDb and of TheTVDB
          |-- MCSearchPages, SearchPagesProofs
SeriesAnswers            what FetchSeries of any source promises its callers  (abstract)
   SeriesPages           FetchSeries of TheTVDB, pages shared by calls  implements SeriesAnswers
          |-- MCSeriesPages, TheTvdbProofs
   SeriesGate            FetchSeries of TMDb, facts behind a gate       implements SeriesAnswers
          |-- MCSeriesGate, SeriesGateProofs
RequestPace              waitRequest and request of TheTVDB
          |-- TheTvdbProofs
```

The parts compose by their promises. `Collector` takes any verdict in
`Promised(kind, named, at)` as the result of `Resolve`; the theorem `PromiseKept` of
`ManagerProofs` says that Manager returns no other. Its `Organise` takes any tasks that
Organisation allows for what was found; the theorem `PlanAsTold` of `IntakeProofs` says that
prepareTasks makes no other. Collector and Artwork replace a file
in one step or fail; the theorem `Refinement` of `AtomicFileProofs` says that
`WriteFileAtomic` does just that. The modules of the providers stand below Manager: its
`AnswerSearch` takes any candidates within the limit or an error, and `AnswerDetails` any
facts or an error, which is all that SearchPages, SeriesPages and SeriesGate return.

**Manager** (`metadata/manager.go`, `cache.go`, `series_cache.go`). One call of
`Resolve`, with `pc` for the place in `Resolve` and `resolveSource`. Every cache read and
every call of a provider or the judge is its own step, because the context may end, or
the process be killed, between any two of them.

| Variable | Code | Actions |
|---|---|---|
| `turn`, `failures` | the loop, `failures` | `Enter`, `Skip`, `TrySource`, `FallBack`, `LoopEnds` |
| `candidates`, `manualWork`, `chosen` | the locals of `resolveSource` | `ReadManual`, `AnswerManual`, `ReadSearch`, `AnswerSearch`, `Match`, `Judged` |
| `got` | what `resolveSource` returns | `HaveDetails`, `ReadDetails`, `AnswerDetails` |
| `decisions` | `m.decisions` | `Match` |
| `searchCache`, `factCache` | `.metadata/cache` | the reads and answers, `Restart` |
| `cancelled` | `ctx.Err()` | `Cancel` |
| `verdict` | what `Resolve` returns | `Return...`, `LoopEnds`, `LoopCancelled` |
| `judged` | history, only for properties | `Judged` |

Abstractions: a record is the work it is about; a search key and a fact key per work
stand for the hashes of the whole request (coverage of episodes by a cached show is left
to a later module); `wellFormed` stands for the checks of `validateResolveRequest` that
concern fields the model does not have. A cache that is switched off (`cache_hours` 0)
behaves like one whose files have always expired, which `Restart` allows. The
kind of the work is fixed across restarts: a file that changes its kind is another task
with other keys.

**SourceChoice** is what is left when the inside of a source is taken away: the sources in turn are
passed over, deliver or are refused, and `cancelled` says when none of that may happen any more. A
context that ends behind the last source is not looked at: `RunOut` may then still say "exhausted",
as `Resolve` does.

**Collector** (`collector/`, with `Write` of `movies/` and `shows/`). `phase` is the place
in `Run`; `tasks`, `at`, `unmatched` are its locals; `out` the position in the outputs of
the task being written; `nfo` the files on disk, which is all that survives `RunAgain`.
`Labels`, `Orders` and `InTaskOrder` of Organisation are what `Organise` may make of the files.
`taken`, `writer` and `due` are history; `due` is the set of tasks that needed nothing more from a
website or the model when the context ended. Actions: `DiscoverFiles`, `Organise` (classification,
`prepareTasks` and `validateOutputPlan`), `ResolveTask`, `WriteNfo`, `SavePictures`,
`TaskWritten`, `WebsitesDone`, `DescribeLocal`, `LocalTask`, `LocalsDone`, `Cancel`,
`RunAgain`. A run that is killed is one in which `RunAgain` follows any state. An
element of `NfoFiles` stands for all the names the file system takes for the same file.
Pictures are one step for each call of `Save`; where they go is not in this module.

**Intake** (`collector/discovery.go`, `collector/process.go`, `common/ai/ai.go`, `movies/` and
`shows/` up to `Prepare` and `Local`, `metadata/override.go`). The inside of Collector's
`DiscoverFiles`, `Organise` and `DescribeLocal`, in four modules, each extending the one before;
`stage` says where `Run` stands and is the only variable they share.

| Module | Variable | Code | Actions |
|---|---|---|---|
| Discovery | `look`, `inside` | the directory, and whether `--path` is within a disc | - |
| | `at`, `files` | the walk, `discovery.Files` | `RefuseRoot`, `BeginWalk`, `SkipFolder`, `PassEntry`, `LeaveOutDisc`, `TakeDisc`, `TakeVideo`, `EndWalk` |
| Extraction | `result` | the items of `Analyze` | `AnalyzeBatch`, `Extracted` |
| Preparation | `notes` | `source.json`, `id.txt`, `season.txt`, `group.txt`, `join.txt` | - |
| | `next`, `groups` | the loop of `prepareTasks` and its map of shows | `RefuseIdentity`, `PrepareMovie`, `RefuseMovie`, `GroupEpisode`, `Sorted` |
| | `show`, `tasks` | the locals of the loop in `shows.Prepare`, its result | `BeginShow`, `ReadEntry`, `FinishShow`, `RefuseShow`, `Planned` |
| LocalText | `unmatched`, `described`, `locals` | the local phase of `Run` | `Leave`, `DescribeBatch`, `AllDescribed`, `LocalTask`, `AllLocal` |

`Fail` is a read or a request that fails, or the end of the context. What is abstracted: a name
is what filters and the recognition of discs tell of it (`Names`, `skip`); of titles only which are
equal counts, whichever field it stands in; the flag files of a disc are one name; requests and JSON are an answer from `Replies` or `Echoes`, which may be
any, or a failure. `Wrapped` keeps the width of an int, which `join.txt` can exceed. A movie's
notes are read together, as all of them are read or none counts; those of a show entry by entry,
as the code does, because an error at one entry may come before a contradiction at a later one.
`Leave` takes any free tasks as those without a source, which is what Manager may leave.

**AtomicFile** (`utils/nfo.go`). One action per system call of `WriteFileAtomic`, each
of which may fail; the copy may stop after part of the content; the deferred removal may
be refused; `Kill` skips it. `Compare` is the look `SaveNfo` takes first; its second
disjunct also covers callers that write at once (cache, pictures, markers).

**Artwork** (`artwork/download.go`). `Save` item by item, `Download` as skip, fetch and
three writes (picture, marker directory, marker). `torn` and `misled` are history: paths
where a replacement was cut off, paths skipped with another picture in place. People may
delete pictures between calls; the markers stay, as in the hidden directory they are in.

**SearchPages** (`tmdb/provider_search.go`, `thetvdb/search.go`). The two searches are
one module with `site` telling them apart where they differ (the page of the entry, the
page size, empty first pages, who sorts out the year). `pc` is the place in `Search` and `searchAllPages`;
`page`, `head`, `received`, `found` their locals for one title, `candidates` the result.
The website is `shelf`, a list it may rank anew (`Rerank`), or answers from `Odd` that
need not make sense; `shown` and `repeated` are history. Actions: `RefuseQuery`, `Start`,
`FindEndpoint`, `RequestFails`, `RefusePage`, `NextPage`, `TooMany`, `TitleDone`, `SearchDone`.

**SeriesAnswers** (`metadata/series.go`, `series_validate.go`). What the pipelines expect of
`FetchSeries`, whichever source stands behind it: there is a book of what the source is known to
say of its shows, which only grows (`Learn`) and has one number for each key (`Single`). A call
that succeeds reads from it a number for each of its keys, of the show it named if it named one
(`Answer`), which is what `ValidateSeriesResult` demands; one that fails tells nothing (`Refuse`). In SeriesPages
the book is what the list of a show and that of a season both say; in SeriesGate what the group
and the season list at hand say. Whose call learnt it, and when, is gone.

**SeriesPages** (`thetvdb/series.go`). `stored` is the map `seriesPages`, `made[c][k]` the
page object call `c` made for key `k` (a call makes at most one), so that `stored` can file one
page under several keys as the code does. `stage` is the place in `FetchSeries`, `mode`
the place in `loadSeriesPage`: `TurnBack`, `Lead` and `Follow` are its three ways in,
`Publish` and `FetchFails` what the fetch ends with, `Receive`, `ReceiveError` and `StopWaiting`
the three ways out of the `select`. `HaveShow`, `HaveAll`, `HaveSeason`, `HaveDetail`
are what `FetchSeries` does with a page before it asks for the next; `FileAliases` is
`cacheShowAliases`. A page's address is its show's number where the code uses the slug of the
show (`SlugOf` is one to one). Of what an episode is told only its number is kept.

**SeriesGate** (`tmdb/provider_batch.go`, `provider_group.go`). `gate` holds the call that
is inside; `record`, `cached` and `groups` are `seriesShows` and `seriesGroups`. A call
places its keys (`PlaceKey`, `ReadGroup`), plans its season lists (`PlanSeasons`), receives them
batch by batch (`Receive`), finds its episodes (`Match`) and receives their details
(`Receive`, `Finish`). Both ways out, with details or without, are `Conclude`: what was received may
still be refused when it is put together. `record` keeps which pieces the show was read with; `arrived` is history. `Missing` is the loop
that passes over what is at hand or planned already, as the list of the places where a piece
comes first.
The season summary that `applyEpisodeGroup` puts in the work is not modelled.

**RequestPace** (`thetvdb/provider.go`). `TakeSlot` is what happens under `rateMu`,
`Wake` and `GiveUp` the `select`, `Send` the call of the client and `Redirect` what the
client does by itself. `Tick` may come between any two steps. Its specification is `PaceSpec`:
its names differ from those of SeriesPages, since `TheTvdbProofs` extends both.

Definitions commented `Mutant:` are not part of any specification. Each is a
plausible mistake (a dropped check, a swapped order, a missing reset) in the definition
that follows it, and is kept to show that the properties notice it.

## 3. What the runs check

| Run | Asks | Instance | Distinct states |
|---|---|---|---|
| `MCManager.cfg` | does Resolve keep its promise | 2 sources (one serves shows only), 3 works, 10 requests, limit of 2 candidates, 2 starts | 462,581 |
| `MCCollector.cfg` | is a finished directory really catalogued | 3 videos (one disc), 1 show root, 4 NFO files of which one is a target of both disc and movie, 2 sets of pins, 2 runs | 97,282 |
| `MCAtomicFile.cfg` (module AtomicFile) | is a write all or nothing, and told so | 2 contents, 4 calls | 2,152 |
| `MCArtwork.cfg` | do pictures and markers agree | 2 paths, 2 URLs, 5 item lists, 3 calls | 7,783 |
| `MCArtworkSkip.cfg` | is only the same picture skipped | the same | violated, see 5 |
| `MCIntake.cfg` | does each video found become part of one sound task | 8 entries that look in 11 ways, 9 sets of notes, 3 works, batches of 2, ints to 7, answers of 15 good and 5 bad items in any order | 210,259 |
| `MCSearchPages.cfg` | is a search whole or an error | limit 3, pages of 2, 4 works, up to 2 titles | 34,182 |
| `MCSearchRerank.cfg` | are incomplete searches rejected | limit 4, one title | violated, see 5 |
| `MCSeriesPages.cfg` | do calls share pages correctly, is what is told confirmed, is every call answered | 2 calls by number and by slug, 2 seasons, 6 readings of a list, 4 loads | 115,402 |
| `MCSeriesGate.cfg` | are the pieces left behind the gate complete | 3 calls with details, groups or neither, batches of 3 | 76,469 |
| `MCRequestPace.cfg` (module RequestPace) | is the pace kept | 3 requests, interval 2, clock to 5, 2 requests on a redirect | 3,570,324 |
| `MCRedirect.cfg` (module RequestPace) | is the interval a minimum | the same | violated, see 5 |

Why these bounds are enough to meet the cases. Manager: two sources are needed for an
order, one that does not serve movies for `unsupported` and for a skipped source; three
works make an answer exceed the limit of two; two starts let every cache state one run
leaves be met by another request, after ageing or not. Collector: two files under one
root give the choice of two movies, a show of two or a mixture; the disc has two NFOs and a
clash with a movie; a second run meets every state in which a first one stopped, and
the proofs cover any number. AtomicFile: four calls let a mishap be followed by a success
and again by failures. Artwork: three calls are needed for the finding (save, cut-off
replacement, save of the first again). The bounds are `MaxRuns` and `MaxCalls`, in the
guards of `Restart`, `RunAgain`, `CallAgain` and `SaveAgain`, `MaxTime` in that of `Tick`
and `MaxTitles` in the first state of SearchPages; nothing else is cut.
Intake: two episodes in two directories and a batch that splits them are what a contradiction
between entries and an order of answers need; the disc and its neighbour what the walk can confuse; each set
of notes holds one way for notes to combine, contradict, or make no sense. The tree is fixed and the
looks are chosen, which the proofs are not: they hold for every tree, note and answer.
SearchPages: two pages are needed for a repetition, two titles for the sum over titles,
and more works than the limit for both refusals. SeriesPages: one call fetches, the other
waits or comes when the page has failed; the slug's call and the number's meet in
the aliases. Two seasons with exchanged numbers are what `Confirmed` is about. SeriesGate:
two main pieces and a batch of three make the season lists fall into another batch than
the record; two calls inherit from one that failed halfway. RequestPace: three requests and five
units of time let one give up between two that wait, and the clock pass two slots.

`CHECK_DEADLOCK FALSE` is set throughout: a call or a run ends, and after the last
permitted one nothing is left to do.

Fairness. `ResolveReturns` and `RunEnds` assume weak fairness of the program's own steps
(`Step`), never of cancellation, kills or restarts. The code justifies it: a call is one goroutine
that is blocked only in HTTP requests, and every HTTP client is built with a timeout
(`common/httpx/client.go`), so each of them returns with an answer or an error. `IntakeEnds` assumes it of the steps
that succeed alone: no failure is needed for an end. `SearchEnds` assumes the same of
a search; `CallsEnd` and `CallsReturn` of each call by itself, since goroutines that can
run are run, a page is published by the one that fetches it, and a gate given back is
a channel another call can send to. RequestPace states no liveness: its clock is bounded. No
property assumes that a request ever succeeds.

The properties:

- *Manager*: `NamedSourceKept`, `EarlierSourcesFailed`, `OnlyConfirmedWorks`,
  `CacheHoldsVerifiedFacts` (invariants),
  `ResolveReturns` (liveness), `ImplementsChoice` (refinement of SourceChoice, the end of the
  context included).
- *Collector*: `SuccessIsComplete`, `PinsKept`, `LocalAfterWebsites`,
  `StopsWhenCancelled` (what is written after the end of the context was at hand before it),
  `WrittenOnce` (steps), `RunEnds` (liveness).
- *Intake*: `FoundExactly`, `EveryVideoOnce`, `RightlyAccepted`, `RequestsAsNoted`,
  `LocalTextComplete`, `OrganisedAsTold` (its plans are those of Organisation), `IntakeEnds` (liveness).
- *AtomicFile*: `OutcomeIsTrue`, `OrphansComeFromMishaps`, `ImplementsRegister`
  (refinement of FileRegister).
- *Artwork*: `MarkersVouch`, `SavedAsSelected`; `SkippedHaveSameSource` is the one that fails.
- *SearchPages*: `WholeUnlessRepeated`, `Bounded`, `SearchEnds`
  (liveness); `IncompleteRejected` fails.
- *SeriesPages*: `FetchedOnce`, `StoreTrue`, `Confirmed`, `CancelHasCause`, `ImplementsAnswers`
  (refinement of SeriesAnswers), `CallsEnd` (liveness).
- *SeriesGate*: `AskedOnce`, `RecordWhole`, `AnswersAgree`, `ImplementsAnswers`
  (refinement of SeriesAnswers), `CallsReturn` (liveness).
- *RequestPace*: `AttemptsPaced`; `MinimumInterval` fails.
- `TypeOK` is run in Artwork only, where it says that no refused body becomes a picture. Elsewhere
  a theorem has it: `NeverTorn` in AtomicFile (no reader finds part of a content), `TypeCorrect` in the
  others, as `CancelledMeansNoOption` has `NoOptionAfterCancel`: no option is returned once the
  context has ended.

## 4. What is proved

tlapm checks every proof without further assumptions than the named `ASSUME`s of the
modules: sources are distinct and not empty (`OrderAssumption`), the special values are
none of the ordinary ones (`NoneAssumption`, `ContentsAssumption`, `UrlsAssumption`),
functions have their types, the library is finite (`LibraryAssumption`), and pins name a work only
with its source (`PinAssumption`, which `LoadReference` enforces). For Intake: the walk lists a tree,
a directory before what it holds and that next (`TreeAssumption`); only directories hold anything
(`LooksAssumption`); batches and ints are positive, special values apart from ordinary ones
(`ExtractionAssumption`, `PreparationAssumption`, `PlacesAssumption`), places sorted without ties, notes and
answers of their types (`EchoesAssumption`). For SeriesGate: the four pieces of a record are different,
no seasons or details, and fit into one request (`BatchAssumption`, as in the code), a website's lists
and groups have their types (`PagesAssumption`), and so have the calls (`LoadsAssumption`, `NamesAssumption`).
TLC evaluates them all in the runs.

Termination is proved as far as the prover goes. The theorems called `NoCircles` say that every step
of the program decreases a measure that has an end, and that cancellation, other calls and a website
that ranks its list anew increase it nowhere; so no loop of the code can go round, whatever mixture
of failures it meets and however large the instance. What they leave to TLC is that some step can be
taken and, under fairness, is. Where calls wait for one another, `NeverStuck` says the first: of those
that wait for pages or at the gate there is always one they wait for that can go on.

**ManagerProofs.** `IInv` is `TypeOK`, `LoopInv`, `AttemptInv`, `VerdictInv`, `JudgeInv`
and `CacheHoldsVerifiedFacts`. The properties say something about the verdict; they are
not inductive because the verdict is made of what earlier steps established. `LoopInv`
carries that every applicable source before `turn` is in `failures` and that a named
source never gets there, so that running out of sources can be told apart; `AttemptInv`
follows one source from its candidates to `got`; `JudgeInv` that the judge was asked at most once
at each source (`OneDecisionPerSource`; the loop passes each once, so no run checks it). Each
action preserves each part; the theorems `TypeCorrect`, `ManualReferenceBinds`,
`OrderRespected`, `ConfirmedOnly`, `CacheVerified`,
`CancelledMeansNoOption` and `PromiseKept` follow. `NoCircles`: a step goes on to a later source, or at
one source to a lower `Rank`, so nothing is asked twice there. `Refinement` maps `req.kind` and
`req.source` to the abstract `kind` and `named`, `cancelled` to itself, and shows that each step is one of
SourceChoice or a stutter.

**CollectorProofs.** `IInv` is `TypeOK`, `PlanInv` (the outputs are apart and no video is left
out), `FactInv` (what a task is written with fits it), `WriterInv` (a file written in this
run still holds its task's facts), `LoopInv` (which tasks are done, by phase) and
`WriteInv` (which outputs of the current task are). The heart is `WriterInv`: it survives
`WriteNfo` only because the outputs of two tasks are apart. Lemmas about `Organise` show
that tasks built from any classification have their types and cover the library.
Theorems: `TypeCorrect`, `SuccessTold`, `PinsHold`, `LocalComesLast`, `NeverWrittenTwice`, `CancelHeeded`
(with `CancelInv` beside `IInv`: after the end only tasks that are due have facts, and tasks are due
as soon as they are described), and
`NoCircles`: the parts of a run, in a part its tasks, in a task its files; a task moved to the local
phase is met again only there.

**IntakeProofs.** One inductive invariant for each phase, over `TypeInv` (types, and what each stage
rules out). `WalkInv`: the files taken are the eligible entries before `at`, and nothing before
`at` hides what comes; skipping a directory is a jump over exactly what it holds, which is where
`TreeAssumption` is used. `FoundExact` follows at the end of the walk. `ToldInv`: the items so far name the
first files, each once, as many as were asked for; by counting, two lists of one length of which
one is within the other agree. `SortInv`: every item behind `next` is in a task or in the group of its
root, once; with the two before it gives `AllOnce`. `LoopInv` says in one sentence per number and
title what the loop over the entries has found so far; `FitInv` that all finished tasks are consistent.
The heart is that a loop which keeps only the last number told, a count of those who told it and the
common titles accepts exactly what is consistent pair by pair (`ShowWhole`): this is
`AcceptedRightly`, and `AskedAsNoted` with it. `LocalInv` ties the options to the files described
(`TextComplete`). `OrderInv`: shows follow all movies and come by rank, since the next one is the least of
those that wait; then the tasks are one of the plans of Organisation (`PlanAsTold`).
`NoCircles` counts down stage by stage: entries of the walk (a jump over a directory ends within it), files
without an item (an answer that is taken has one at least), items, shows that wait, descriptions.

**AtomicFileProofs.** `IInv` ties the temporary file and the error to the place in the
call; `NeverTorn`, `OutcomesAreTrue`, `OrphansAccountedFor` and `Refinement` follow, for any
number of contents, calls and kills.

**ArtworkProofs.** `HandInv` and `FilesInv` say where a download stands between its
files; `LoopInv` says that the items behind are selected and that the first offer of each path is on
disk. Theorems: `OnlyPictures`, `MarkersTell`, `FirstOfferSaved`.

**SearchPagesProofs.** The invariant relates the hits counted to the works kept: without a
repetition the works of a title are as many as the hits, these as many as the total at its
end, and the total is the length of the list, whose works `Rerank` does not change. Two
sets of one size, one within the other, are the same: that is `TotalsVouch`. Theorems:
`TypeCorrect`, `NeverExcessive`, `TotalsVouch`, and `NoCircles`: titles, and at a title pages, at most `Limit`.

**TheTvdbProofs**, SeriesPages. `IInv` ties the map of pages to the calls. `PageInv`: a page on its way
or come is filed under its own key, and a call fetches just the page on its way; `FiledInv`:
under another key there are only show pages that have come; `WaitInv`: a waiter waits for what
is filed under its key unless that failed. Together they make a failed page leave the map
without a trace, which no single part would give. `OneFetch`, `FiledTruly` and `CancelledForCause` follow.
`ToldConfirmed` needs `KnowInv` besides: a filed page never changes (`PagesStay`), and each row
a call holds is found again under the season of its own coordinate. `Refinement` rests on both: what
a call tells is in the book when it ends, pages that stay make the book grow, and a list that has
each row once makes it single. `NeverContradicts` follows. `LeftInv`, that a call at
the seasons has some left, gives `NoCircles` and `NeverStuck`.

**TheTvdbProofs**, RequestPace. `SlotInv`: the slots taken lie an interval apart, the next one lies an
interval after them all, and a request is sent only after its slot. Dividing slots by the
interval therefore maps the requests sent one to one into the intervals passed, which is
`Paced` for any number of requests, finite or not.

**SeriesGateProofs.** The lemmas `Counting`, `First` and `MissingGives` say of `Missing` that it
returns each piece once, none that is at hand, and all that are not; `JoinedOnce`, `BatchGives`
and `DetailPathsGive` say the like of the other lists. `IInv` has one part for the gate (`GateInv`: the call
inside holds it) and four for each call. `Planned`: what is still to ask for is asked for once
and not at hand, and while the record is missing its own pieces come first; without it neither
`AskedOnce` nor `RecordWhole` is inductive. `Needs`: the season list and the details of every wanted
episode are at hand or coming. `Placed`: every key stands where its group has it, although the group
may have been read by another call. `Matched`: what was matched still matches. The last three
hold after the call has left the gate because nothing at hand is ever received again, which is `Planned` of
whoever is inside (`OthersKeep`). Theorems: `TypeCorrect`, `Exclusive`, `Once`, `WholeRecords`, `AnswersStand`,
`DetailsThere`, and `LearntStays`, a property of steps. `Refinement` needs of them that what stands at hand
stays (`LearntStays`) and has one answer (`RowsOf` finds just one row); `NeverContradicts` follows.
`NoCircles` counts keys, then pieces still to ask for; `NeverStuck` is `GateInv` read the other way: who
holds the gate has not returned.

Only model-checked: `ResolveReturns`, `RunEnds`, `IntakeEnds`, `SearchEnds`, `CallsEnd` and `CallsReturn`, since
liveness under fairness is beyond the prover (`NoCircles` is the part of it that
is not). Every other property of a passing run is a theorem.

## 5. What the models show about the code

`Download` replaces the picture, then the marker. If the marker cannot be written, or the
process dies between the two, the marker goes on naming the earlier URL. When a later run is
offered that URL again, `Download` skips it although the file holds another picture: the
run `MCArtworkSkip.cfg` finds it in fourteen states. The comment on `Download`
(`artwork/download.go` 16) promises that only a file of the same source is skipped.
`MarkersVouch` shows that this is the only way for the two to disagree.

Searches drop a work that a later page repeats and then compare the number of hits, not
of works, with the total (`tmdb/provider_search.go` 112 and 122, `thetvdb/search.go` 149 and 164).
`MCSearchRerank.cfg` ranks the list a, b, c, d anew after its first page: the second page
repeats b, c is never received, and the search succeeds. README.md 42 says that incomplete
sets are rejected. `WholeUnlessRepeated` (proved) shows that a repeated work is the only way.

The configured interval of TheTVDB is called the minimum between two web page requests
(`config/struct.go` 64). The client follows redirects without waiting, and an address by
number is always redirected: `MCRedirect.cfg` has two requests at one time in four states.
`AttemptsPaced` is what holds: calls of `request` are no more than the slots that have passed.

Everything else that was stated holds.

## 6. Not modelled

Configuration, logging and transport set-up have no state that a step order could spoil.
The NFO document, the names of files written, the prompts, the decoding of JSON and the reduction of a
website's answer to a record (`tmdb/provider_record.go`, `thetvdb/html.go`) are pure conversions;
of the parsers only what they refuse is modelled. So is the reading of a Jev answer
(`common/jev/client.go` 169-223): Manager takes any candidate or an error for it, which covers every
reading, and sums of floating-point numbers are nothing TLC can add up. `allSeasons` and its cache of
one hour (`thetvdb/provider.go` 240-268) are called by tests only. Power loss, which may undo a
rename but not a later one, is outside AtomicFile: it knows process death.

One behaviour is in the models and judged by no property: a show whose files fall into two batches of
`Analyze` may be given two roots, and becomes two tasks. Nothing in the code relates the answers of
two batches; `Labels` allows it, and both tasks are sound by themselves.

## 7. Plan

Done, in this order: Metadata, SourceChoice, Manager, Collector, AtomicFile with
FileRegister, Artwork, and the proofs of the four; SearchPages and SeriesPages, each with its
proofs; SeriesGate and RequestPace with their
proofs; SeriesAnswers, which SeriesPages and SeriesGate implement; Organisation, taken out of Collector, and
Intake with Discovery, Extraction, Preparation and LocalText, with their proofs.

What would come next:

1. The episodes of cached shows (`ValidateSeriesResult`) in Manager's fact files, by composing
   Manager with SeriesAnswers.
2. Pictures in Collector's `Write`, by composing it with Artwork: which task's picture is
   left when two tasks of successive runs share a path.
3. A model of the directory's write-back under AtomicFile and Artwork, for power loss.
