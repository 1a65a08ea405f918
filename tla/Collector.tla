------------------------------ MODULE Collector ------------------------------
(***************************************************************************)
(* collector.Run (collector/collector.go, process.go) with the Write       *)
(* methods of movies/pipeline.go and shows/pipeline.go: one run of the     *)
(* program over a media directory, file by file, and what later runs find. *)
(* Resolve is one step here; Manager has its inside, and Promised is all   *)
(* that is assumed of it.                                                  *)
(***************************************************************************)
EXTENDS Metadata, Organisation

CONSTANTS
    Discs,       \* the videos that are raw DVD or Blu-ray directories
    NfoFiles,    \* the .nfo files written
    MovieNfo,    \* MovieNfo[v]: the NFOs of v as a movie, two for a disc
    EntryNfo,    \* EntryNfo[v]: the NFO of v as an episode
    ShowNfo,     \* ShowNfo[r]: tvshow.nfo in r
    Pictures,    \* stands for one call of Downloader.Save among the outputs
    Local,       \* the provider name of records made from file names
    PinChoices,  \* what people may have written in .metadata before a run
    MaxRuns      \* bound: starts of the program

ASSUME LibraryAssumption ==
    /\ IsFiniteSet(Videos) /\ Discs \subseteq Videos
    /\ Rank \in [Roots -> Nat] /\ \A r, q \in Roots : Rank[r] = Rank[q] => r = q
    /\ Under \in [Roots -> SUBSET Videos]
    /\ Pictures \notin NfoFiles
    /\ MovieNfo \in [Videos -> Seq(NfoFiles)]
    /\ EntryNfo \in [Videos -> NfoFiles]
    /\ ShowNfo \in [Roots -> NfoFiles]
    /\ Local \notin Sources /\ Local # NoSource

\* A person may pin a task to a source, or to a work at that source.
Pin == [source : Sources \cup {NoSource}, at : Locators \cup {NoWork}]
Free == [source |-> NoSource, at |-> NoWork]

ASSUME PinAssumption ==
    /\ PinChoices \subseteq [Keys -> Pin]
    /\ \A pins \in PinChoices, k \in Keys : pins[k].source = NoSource => pins[k] = Free
ASSUME RunsAssumption == MaxRuns \in Nat

\* preparedTask: outputs lists its NFO files and picture downloads in the
\* order in which Write comes to them.
Task == [kind : Kinds, pin : Pin, videos : SUBSET Videos, outputs : Seq(NfoFiles \cup {Pictures})]

\* Whose facts an NFO holds: a work at a source, or a local description.
Blank == [source |-> NoSource, work |-> NoWork]
Described == [source |-> Local, work |-> NoWork]
Facts == [source : Sources, work : Works] \cup {Described}

VARIABLES
    phase,      \* where Run stands
    exit,       \* "running", or how Run returned
    cancelled,  \* ctx.Err() # nil
    due,        \* history: the tasks whose facts were at hand when the context ended
    library,    \* discovery.Files
    tasks,
    at,         \* the task being taken
    unmatched,  \* positions of the tasks left for DescribeLocal
    out,        \* the output of the current task being written
    taken,      \* history: taken[n], the facts task n is written with
    writer,     \* history: writer[f], the task that wrote f in this run
    nfo,        \* the NFO files on disk
    runs

run == <<cancelled, due, library, tasks, runs>>
progress == <<at, unmatched, out>>
output == <<taken, writer, nfo>>
vars == <<phase, exit, run, progress, output>>

TypeOK ==
    /\ phase \in {"discover", "organise", "resolve", "write", "describe", "local", "over"}
    /\ exit \in {"running", "ok", "error"}
    /\ cancelled \in BOOLEAN
    /\ due \subseteq DOMAIN tasks
    /\ library \subseteq Videos
    /\ tasks \in Seq(Task)
    /\ at \in 1..(Len(tasks) + 1)
    /\ unmatched \subseteq DOMAIN tasks
    /\ out \in Nat \ {0}
    /\ taken \in [DOMAIN tasks -> Facts \cup {Blank}]
    /\ writer \in [NfoFiles -> {0} \cup DOMAIN tasks]
    /\ nfo \in [NfoFiles -> Facts \cup {Blank}]
    /\ runs \in Nat

----------------------------------------------------------------------------

\* The state in which a process starts.
Started ==
    [due |-> {}, library |-> {}, tasks |-> <<>>, at |-> 1, unmatched |-> {}, out |-> 1,
     taken |-> <<>>, writer |-> [f \in NfoFiles |-> 0]]

Init ==
    /\ phase = "discover" /\ exit = "running" /\ cancelled = FALSE
    /\ due = Started.due /\ library = Started.library /\ tasks = Started.tasks
    /\ at = Started.at /\ unmatched = Started.unmatched /\ out = Started.out
    /\ taken = Started.taken /\ writer = Started.writer
    /\ nfo = [f \in NfoFiles |-> Blank]
    /\ runs = 1

Return(how) == phase' = "over" /\ exit' = how

----------------------------------------------------------------------------
(* Discover, Analyze and prepareTasks, by what Organisation lets them make.  *)

\* An empty directory is a success at once, one that cannot be read an error.
DiscoverFiles ==
    /\ phase = "discover"
    /\ \/ Return("error") /\ UNCHANGED library
       \/ \E found \in SUBSET Videos :
            /\ library' = found
            /\ IF found = {} THEN Return("ok") ELSE phase' = "organise" /\ UNCHANGED exit
    /\ UNCHANGED <<cancelled, due, tasks, runs, progress, output>>

\* Write of a movie: the NFOs, then the pictures.
MovieOutputs(v) == MovieNfo[v] \o <<Pictures>>

\* Write of a show: tvshow.nfo, its pictures, then NFO and picture of each
\* entry in the order of the model's answer.
ShowOutputs(r, entries) ==
    [n \in 1..(2 * Len(entries) + 2) |->
        IF n % 2 = 0 THEN Pictures
        ELSE IF n = 1 THEN ShowNfo[r] ELSE EntryNfo[entries[n \div 2]]]

MovieTask(v, pins) ==
    [kind |-> "movie", pin |-> pins[MovieAt(v)], videos |-> {v}, outputs |-> MovieOutputs(v)]

ShowTask(r, entries, pins) ==
    [kind |-> "show", pin |-> pins[ShowAt(r)], videos |-> {entries[n] : n \in DOMAIN entries},
     outputs |-> ShowOutputs(r, entries)]

TasksFor(key, label, pins) ==
    IF key[1] = "movie" THEN {MovieTask(key[2], pins)}
    ELSE {ShowTask(key[2], entries, pins) :
             entries \in Orders({v \in DOMAIN label : label[v] = key[2]})}

\* Mutant: targets are compared within each task only.
ApartInTask(list) ==
    \A n \in DOMAIN list : \A i, j \in DOMAIN list[n].outputs :
        list[n].outputs[i] = list[n].outputs[j] => i = j \/ list[n].outputs[i] = Pictures

\* validateOutputPlan: no file is the target of two outputs. One file stands
\* for all the names the directory takes to be the same.
OutputsApart(list) ==
    \A m, n \in DOMAIN list :
        \A i \in DOMAIN list[m].outputs, j \in DOMAIN list[n].outputs :
            list[m].outputs[i] = list[n].outputs[j] =>
                <<m, i>> = <<n, j>> \/ list[m].outputs[i] = Pictures

\* Episodes on a disc, a bad answer and a conflict of outputs end the run.
Organise ==
    /\ phase = "organise"
    /\ \/ Return("error") /\ UNCHANGED <<tasks, taken>>
       \/ /\ ~cancelled
          /\ \E label \in Labels(library), pins \in PinChoices :
               /\ \A v \in library \cap Discs : label[v] = "movie"
               /\ \E order \in Orders({KeyOf(v, label) : v \in library}) :
                    /\ InTaskOrder(order)
                    /\ tasks' \in {list \in [DOMAIN order ->
                                              UNION {TasksFor(order[n], label, pins) :
                                                        n \in DOMAIN order}] :
                                     \A n \in DOMAIN order :
                                         list[n] \in TasksFor(order[n], label, pins)}
          /\ OutputsApart(tasks')
          /\ taken' = [n \in DOMAIN tasks' |-> Blank]
          /\ phase' = "resolve" /\ UNCHANGED exit
    /\ UNCHANGED <<cancelled, due, library, runs, progress, writer, nfo>>

----------------------------------------------------------------------------
(* The website tasks.                                                       *)

\* The identity check at the head of Write.
Fits(task, fact) ==
    /\ task.pin.source # NoSource => fact.source = task.pin.source
    /\ task.pin.at \in Works => fact.work = task.pin.at

\* Write starts with this task's facts.
Begin(n, fact) ==
    /\ IF Fits(tasks[n], fact)
       THEN /\ phase' = "write" /\ UNCHANGED exit
            /\ out' = 1 /\ taken' = [taken EXCEPT ![n] = fact]
       ELSE Return("error") /\ UNCHANGED <<out, taken>>
    /\ at' = n

\* Mutants: the loop does not move on, or stops one task early.
SameTask == at
NextTask == at + 1
AtLast == at >= Len(tasks)
AllTried == at > Len(tasks)

\* Mutant: any failure of the sources is taken for exhaustion.
AnyFailure(verdict) == verdict.kind \in {"exhausted", "mismatch", "unsupported"}
LeftForLocal(verdict) == verdict.kind = "exhausted"

ResolveTask ==
    /\ phase = "resolve" /\ ~AllTried
    /\ IF cancelled THEN Return("error") /\ UNCHANGED <<progress, taken>>
       ELSE \E verdict \in Promised(tasks[at].kind, tasks[at].pin.source, tasks[at].pin.at) :
              IF LeftForLocal(verdict)
              THEN /\ unmatched' = unmatched \cup {at} /\ at' = NextTask
                   /\ UNCHANGED <<phase, exit, out, taken>>
              ELSE IF verdict.kind = "option"
              THEN /\ Begin(at, [source |-> verdict.source, work |-> verdict.work])
                   /\ UNCHANGED unmatched
              ELSE Return("error") /\ UNCHANGED <<progress, taken>>
    /\ UNCHANGED <<run, writer, nfo>>

WebsitesDone ==
    /\ phase = "resolve" /\ AllTried
    /\ IF unmatched = {} THEN Return("ok") ELSE phase' = "describe" /\ UNCHANGED exit
    /\ UNCHANGED <<run, progress, output>>

----------------------------------------------------------------------------
(* Write: each NFO replaces the file in one step or fails and leaves it.    *)

Outputs == tasks[at].outputs

\* Mutant: an NFO that exists is left alone, whatever it says.
KeepExisting(old, new) == IF old = Blank THEN new ELSE old
Saved(old, new) == new

WriteNfo ==
    /\ phase = "write" /\ out \in DOMAIN Outputs /\ Outputs[out] # Pictures
    /\ \/ Return("error") /\ UNCHANGED <<out, writer, nfo>>
       \/ /\ nfo' = [nfo EXCEPT ![Outputs[out]] = Saved(@, taken[at])]
          /\ writer' = [writer EXCEPT ![Outputs[out]] = at]
          /\ out' = out + 1 /\ UNCHANGED <<phase, exit>>
    /\ UNCHANGED <<run, at, unmatched, taken>>

\* A described work has no pictures; a website's may have none either.
SavePictures ==
    /\ phase = "write" /\ out \in DOMAIN Outputs /\ Outputs[out] = Pictures
    /\ \/ taken[at] # Described /\ Return("error") /\ UNCHANGED out
       \/ out' = out + 1 /\ UNCHANGED <<phase, exit>>
    /\ UNCHANGED <<run, at, unmatched, output>>

TaskWritten ==
    /\ phase = "write" /\ out \notin DOMAIN Outputs
    /\ phase' = IF taken[at] = Described THEN "local" ELSE "resolve"
    /\ at' = NextTask
    /\ UNCHANGED <<exit, run, unmatched, out, output>>

----------------------------------------------------------------------------
(* The tasks no source could serve.                                         *)

\* Mutant: the context is not looked at before the request.
DescribeRegardless == TRUE
MayDescribe == ~cancelled

\* DescribeLocal for all of them, in one request or several.
DescribeLocal ==
    /\ phase = "describe"
    /\ \/ Return("error") /\ UNCHANGED at
       \/ MayDescribe /\ phase' = "local" /\ at' = 1 /\ UNCHANGED exit
    /\ UNCHANGED <<run, unmatched, out, output>>

StillLocal == {n \in unmatched : n >= at}

\* The next of them is written, unless its description does not hold up.
LocalTask ==
    /\ phase = "local"
    /\ \E n \in StillLocal :
         /\ \A m \in StillLocal : n <= m
         /\ \/ Return("error") /\ UNCHANGED <<at, out, taken>>
            \/ Begin(n, Described)
    /\ UNCHANGED <<run, unmatched, writer, nfo>>

LocalsDone ==
    /\ phase = "local" /\ StillLocal = {}
    /\ Return("ok")
    /\ UNCHANGED <<run, progress, output>>

----------------------------------------------------------------------------

\* The tasks that need nothing more from a website or the model.
FactsAtHand ==
    {n \in DOMAIN tasks : taken[n] # Blank}
        \cup (IF phase = "local" \/ (phase = "write" /\ taken[at] = Described)
              THEN unmatched ELSE {})

Cancel ==
    /\ exit = "running" /\ ~cancelled
    /\ cancelled' = TRUE /\ due' = FactsAtHand
    /\ UNCHANGED <<phase, exit, library, tasks, runs, progress, output>>

\* The program is run again after it ended or was killed: the NFO files are
\* what is left of the earlier runs.
RunAgain ==
    /\ runs < MaxRuns /\ runs' = runs + 1
    /\ phase' = "discover" /\ exit' = "running" /\ cancelled' = FALSE
    /\ due' = Started.due /\ library' = Started.library /\ tasks' = Started.tasks
    /\ at' = Started.at /\ unmatched' = Started.unmatched /\ out' = Started.out
    /\ taken' = Started.taken /\ writer' = Started.writer
    /\ UNCHANGED nfo

Step ==
    \/ DiscoverFiles \/ Organise \/ ResolveTask \/ WebsitesDone
    \/ WriteNfo \/ SavePictures \/ TaskWritten
    \/ DescribeLocal \/ LocalTask \/ LocalsDone

Next == Step \/ Cancel \/ RunAgain

Spec == Init /\ [][Next]_vars

\* Every call Run makes returns: requests carry timeouts, the rest is local.
FairSpec == Spec /\ WF_vars(Step)

----------------------------------------------------------------------------

NfosOf(n) == {tasks[n].outputs[i] : i \in DOMAIN tasks[n].outputs} \ {Pictures}

\* A run that exits zero has catalogued everything: each video found belongs
\* to a task, and every NFO of the task, tvshow.nfo, episodes and both copies
\* of a disc, holds the facts this run settled on, whatever mixture earlier
\* killed or failed runs had left (collector.go 52-112, README "exits nonzero").
SuccessIsComplete ==
    exit = "ok" =>
        /\ \A v \in library : \E n \in DOMAIN tasks : v \in tasks[n].videos
        /\ \A n \in DOMAIN tasks :
             taken[n] # Blank /\ \A f \in NfosOf(n) : nfo[f] = taken[n]

\* A pinned task is never left for the local description, and no file of it
\* is written with another source's or another work's facts (README "Manual
\* constraints"; collector.go 58-65).
PinsKept ==
    \A n \in DOMAIN tasks : tasks[n].pin.source # NoSource =>
        /\ n \notin unmatched
        /\ \A f \in NfosOf(n) : writer[f] = n =>
             /\ nfo[f].source = tasks[n].pin.source
             /\ tasks[n].pin.at \in Works => nfo[f].work = tasks[n].pin.at

\* Local descriptions come last: while one is on its way to a file of this
\* run, every other task has been resolved, and those a source could serve
\* are written to the last file (collector.go 75-104).
LocalAfterWebsites ==
    \A m \in DOMAIN tasks : taken[m] = Described =>
        \A n \in DOMAIN tasks \ unmatched :
            taken[n] \notin {Blank, Described} /\ \A f \in NfosOf(n) : nfo[f] = taken[n]

\* No file is written for two tasks of one run, and what a finished task left
\* is not touched again, neither by a later task nor when the run fails
\* (output_plan.go 12; README "completed files are not rolled back").
WrittenOnce ==
    [][runs' = runs => \A f \in NfoFiles :
          writer[f] # 0 => writer'[f] = writer[f] /\ nfo'[f] = nfo[f]]_vars

\* A run whose context has ended takes up nothing new: the one website task
\* in Write and the tasks described already may still reach the disk, whose
\* NFOs are written without looking at the context, but no other task, local
\* or not, does (collector.go 54-57, 81, 89-105; ai.go 142-150).
StopsWhenCancelled == cancelled => \A f \in NfoFiles : writer[f] # 0 => writer[f] \in due

\* Every run ends.
RunEnds == exit = "running" ~> exit # "running"
=============================================================================
