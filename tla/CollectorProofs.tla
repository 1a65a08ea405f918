--------------------------- MODULE CollectorProofs ---------------------------
(***************************************************************************)
(* What a run does for every library, every answer of the model, every set *)
(* of sources and every verdict Resolve may promise. The loop over the     *)
(* tasks is described by which tasks are done and which not yet begun; the *)
(* output plan makes "done" stable, since no later write meets its files.  *)
(***************************************************************************)
EXTENDS Collector, FiniteSetTheorems, TLAPS

Running == {"resolve", "write", "describe", "local"}

\* Every NFO of task n was written in this run.
Done(n) == taken[n] # Blank /\ \A f \in NfosOf(n) : writer[f] = n

PlanInv ==
    /\ exit = "running" <=> phase # "over"
    /\ phase \in {"discover", "organise"} => tasks = <<>>
    /\ OutputsApart(tasks)
    /\ phase \in Running \/ exit = "ok" =>
         \A v \in library : \E n \in DOMAIN tasks : v \in tasks[n].videos

FactInv ==
    /\ \A n \in unmatched : tasks[n].pin.source = NoSource
    /\ \A n \in DOMAIN tasks :
         /\ taken[n] # Blank => Fits(tasks[n], taken[n])
         /\ taken[n] = Described => n \in unmatched
         /\ taken[n] # Described /\ n \in unmatched => taken[n] = Blank

WriterInv ==
    \A f \in NfoFiles : writer[f] # 0 =>
        /\ f \in NfosOf(writer[f])
        /\ taken[writer[f]] # Blank /\ nfo[f] = taken[writer[f]]

OnWebsites == phase = "resolve" \/ (phase = "write" /\ taken[at] # Described)
OnLocals == phase \in {"describe", "local"} \/ (phase = "write" /\ taken[at] = Described)

LoopInv ==
    /\ OnWebsites => \A n \in DOMAIN tasks :
         /\ n \in unmatched => taken[n] = Blank
         /\ n < at => n \in unmatched \/ Done(n)
         /\ n > at \/ (n = at /\ phase = "resolve") => taken[n] = Blank /\ n \notin unmatched
    /\ OnLocals => \A n \in DOMAIN tasks :
         /\ n \notin unmatched => Done(n)
         /\ n \in unmatched /\ n < at /\ phase # "describe" => Done(n)
         /\ n \in unmatched /\ (n > at \/ (n = at /\ phase = "local") \/ phase = "describe") =>
              taken[n] = Blank
    /\ exit = "ok" => \A n \in DOMAIN tasks : Done(n)
    /\ \A m \in unmatched : taken[m] = Described =>
         \A n \in DOMAIN tasks \ unmatched : Done(n)

WriteInv ==
    phase = "write" =>
        /\ at \in DOMAIN tasks /\ taken[at] # Blank
        /\ \A i \in DOMAIN Outputs : Outputs[i] # Pictures =>
             (writer[Outputs[i]] = at <=> i < out)

IInv == TypeOK /\ PlanInv /\ FactInv /\ WriterInv /\ LoopInv /\ WriteInv

----------------------------------------------------------------------------
(* The plan: prepareTasks builds tasks of the right type that leave no      *)
(* video out.                                                               *)

LEMMA OrdersTyped ==
    ASSUME NEW set, IsFiniteSet(set), NEW list \in Orders(set)
    PROVE  /\ list \in Seq(set) /\ DOMAIN list = 1..Cardinality(set)
           /\ \A n \in DOMAIN list : list[n] \in set
           /\ \A x \in set : \E n \in DOMAIN list : list[n] = x
  <1>1. Cardinality(set) \in Nat
    BY FS_CardinalityType
  <1>2. /\ list \in [1..Cardinality(set) -> set]
        /\ \A x \in set : \E n \in 1..Cardinality(set) : list[n] = x
    BY DEF Orders, Surjection
  <1> QED
    BY <1>1, <1>2

LEMMA ShowOutputsTyped ==
    ASSUME NEW r \in Roots, NEW entries \in Seq(Videos)
    PROVE  ShowOutputs(r, entries) \in Seq(NfoFiles \cup {Pictures})
  <1> DEFINE top == 2 * Len(entries) + 2
  <1>1. Len(entries) \in Nat /\ top \in Nat
    OBVIOUS
  <1>2. ASSUME NEW n \in 1..top, n % 2 # 0, n # 1
        PROVE  EntryNfo[entries[n \div 2]] \in NfoFiles
    <2>1. n \div 2 \in 1..Len(entries)
      BY <1>1, <1>2
    <2> QED
      BY <2>1, LibraryAssumption
  <1>3. ShowOutputs(r, entries) \in [1..top -> NfoFiles \cup {Pictures}]
    BY <1>2, LibraryAssumption DEF ShowOutputs
  <1> QED
    BY <1>1, <1>3

LEMMA TasksTyped ==
    ASSUME NEW found \in SUBSET Videos, NEW label \in Labels(found),
           NEW pins \in PinChoices, NEW v \in found,
           NEW task \in TasksFor(KeyOf(v, label), label, pins)
    PROVE  task \in Task /\ v \in task.videos
  <1> DEFINE key == KeyOf(v, label)
             mine == {u \in DOMAIN label : label[u] = key[2]}
  <1>1. /\ label \in [found -> {"movie"} \cup Roots]
        /\ pins \in [Keys -> Pin]
    BY PinAssumption DEF Labels
  <1>2. CASE label[v] = "movie"
    <2>1. key = MovieAt(v) /\ key[1] = "movie" /\ key[2] = v
      BY <1>2 DEF KeyOf, MovieAt
    <2>2. task = MovieTask(v, pins)
      BY <2>1 DEF TasksFor
    <2>3. MovieOutputs(v) \in Seq(NfoFiles \cup {Pictures})
      <3>1. MovieNfo[v] \in Seq(NfoFiles \cup {Pictures})
        BY LibraryAssumption
      <3> QED
        BY <3>1 DEF MovieOutputs
    <2>4. pins[MovieAt(v)] \in Pin
      BY <1>1 DEF Keys
    <2> QED
      BY <2>2, <2>3, <2>4 DEF MovieTask, Task, Kinds
  <1>3. CASE label[v] # "movie"
    <2>1. label[v] \in Roots
      BY <1>1, <1>3
    <2>2. key = ShowAt(label[v]) /\ key[1] # "movie" /\ key[2] = label[v]
      BY <1>3 DEF KeyOf, ShowAt
    <2>3. PICK entries \in Orders(mine) : task = ShowTask(key[2], entries, pins)
      BY <2>2 DEF TasksFor
    <2>4. mine \subseteq Videos /\ v \in mine /\ IsFiniteSet(mine)
      BY <1>1, <2>2, LibraryAssumption, FS_Subset
    <2> HIDE DEF mine
    <2>5. entries \in Seq(mine) /\ \E n \in DOMAIN entries : entries[n] = v
      BY <2>4, OrdersTyped
    <2>6. entries \in Seq(Videos)
      BY <2>4, <2>5
    <2>7. ShowOutputs(key[2], entries) \in Seq(NfoFiles \cup {Pictures})
      BY <2>1, <2>2, <2>6, ShowOutputsTyped
    <2>8. pins[ShowAt(key[2])] \in Pin
      BY <1>1, <2>1, <2>2 DEF Keys
    <2>9. {entries[n] : n \in DOMAIN entries} \subseteq Videos
      BY <2>6
    <2> QED
      BY <2>3, <2>5, <2>7, <2>8, <2>9 DEF ShowTask, Task, Kinds
  <1> QED
    BY <1>2, <1>3

LEMMA PlanTyped ==
    ASSUME library \in SUBSET Videos, Organise, phase' # "over"
    PROVE  /\ tasks' \in Seq(Task) /\ OutputsApart(tasks')
           /\ \A v \in library : \E n \in DOMAIN tasks' : v \in tasks'[n].videos
           /\ taken' = [n \in DOMAIN tasks' |-> Blank]
           /\ phase' = "resolve" /\ UNCHANGED exit
  <1>0. PICK label \in Labels(library), pins \in PinChoices :
          \E order \in Orders({KeyOf(v, label) : v \in library}) :
            tasks' \in {list \in [DOMAIN order ->
                                   UNION {TasksFor(order[n], label, pins) : n \in DOMAIN order}] :
                          \A n \in DOMAIN order : list[n] \in TasksFor(order[n], label, pins)}
    BY DEF Organise, Return
  <1> DEFINE keys == {KeyOf(v, label) : v \in library}
  <1>1. PICK order \in Orders(keys) :
          /\ DOMAIN tasks' = DOMAIN order
          /\ \A n \in DOMAIN order : tasks'[n] \in TasksFor(order[n], label, pins)
          /\ \E set : tasks' \in [DOMAIN order -> set]
    BY <1>0
  <1>2. IsFiniteSet(keys)
    <2>1. IsFiniteSet(library)
      BY LibraryAssumption, FS_Subset
    <2>2. [v \in library |-> KeyOf(v, label)] \in Surjection(library, keys)
      BY DEF Surjection
    <2> QED
      BY <2>1, <2>2, FS_Surjection
  <1>3. /\ order \in Seq(keys) /\ DOMAIN order = 1..Cardinality(keys)
        /\ \A n \in DOMAIN order : order[n] \in keys
        /\ \A k \in keys : \E n \in DOMAIN order : order[n] = k
    BY <1>2, OrdersTyped
  <1>4. Cardinality(keys) \in Nat
    BY <1>2, FS_CardinalityType
  <1>5. \A n \in DOMAIN order : tasks'[n] \in Task
    <2> TAKE n \in DOMAIN order
    <2>1. PICK v \in library : order[n] = KeyOf(v, label)
      BY <1>3
    <2> QED
      BY <1>1, <2>1, TasksTyped
  <1>6. tasks' \in Seq(Task)
    <2> HIDE DEF keys
    <2>1. tasks' \in [1..Cardinality(keys) -> Task]
      BY <1>1, <1>3, <1>5
    <2> QED
      BY <1>4, <2>1
  <1>7. \A v \in library : \E n \in DOMAIN tasks' : v \in tasks'[n].videos
    <2> TAKE v \in library
    <2>1. PICK n \in DOMAIN order : order[n] = KeyOf(v, label)
      BY <1>3
    <2> QED
      BY <1>1, <2>1, TasksTyped
  <1> QED
    BY <1>6, <1>7 DEF Organise, Return

----------------------------------------------------------------------------
(* Facts used by several steps.                                             *)

LEMMA FactsAreApart ==
    /\ Blank \notin Facts /\ Described \in Facts /\ Described # Blank
    /\ \A fact \in Facts : fact # Described => fact.source \in Sources /\ fact.work \in Works
    /\ \A s \in Sources, w \in Works : [source |-> s, work |-> w] \in Facts \ {Described}
  <1>1. /\ Blank.source = NoSource /\ Described.source = Local
        /\ NoSource \notin Sources /\ Local \notin Sources /\ Local # NoSource
    BY LibraryAssumption, NoneAssumption DEF Blank, Described
  <1>2. Described \in Facts /\ Described # Blank
    BY <1>1 DEF Facts
  <1>3. Blank \notin [source : Sources, work : Works]
    BY <1>1
  <1>4. \A s \in Sources, w \in Works : [source |-> s, work |-> w].source = s
    OBVIOUS
  <1>5. \A s \in Sources, w \in Works : [source |-> s, work |-> w] # Described
    BY <1>1, <1>4
  <1>6. Blank # Described
    BY <1>2
  <1>7. Facts = [source : Sources, work : Works] \cup {Described}
    BY DEF Facts
  <1>8. \A s \in Sources, w \in Works : [source |-> s, work |-> w] \in Facts \ {Described}
    BY <1>5, <1>7
  <1>9. \A fact \in Facts : fact # Described => fact.source \in Sources /\ fact.work \in Works
    BY <1>7
  <1> HIDE DEF Facts
  <1> QED
    BY <1>2, <1>3, <1>6, <1>7, <1>8, <1>9

LEMMA OutputsTyped ==
    ASSUME TypeOK, NEW n \in DOMAIN tasks
    PROVE  /\ n \in Nat /\ n # 0 /\ n <= Len(tasks)
           /\ tasks[n] \in Task /\ tasks[n].outputs \in Seq(NfoFiles \cup {Pictures})
           /\ NfosOf(n) \subseteq NfoFiles
  <1>1. n \in Nat /\ n # 0 /\ n <= Len(tasks) /\ tasks[n] \in Task
    BY DEF TypeOK
  <1>2. tasks[n].outputs \in Seq(NfoFiles \cup {Pictures})
    BY <1>1 DEF Task
  <1> QED
    BY <1>1, <1>2 DEF NfosOf

\* A run that stops early changes nothing but where it stands.
LEMMA Failing ==
    ASSUME IInv, Return("error"), at' \in 1..(Len(tasks) + 1),
           UNCHANGED <<cancelled, due, library, tasks, runs, unmatched, out, output>>
    PROVE  IInv'
  <1> USE DEF IInv, Return, output
  <1>1. TypeOK'
    BY DEF TypeOK
  <1>2. PlanInv' /\ FactInv'
    BY DEF PlanInv, FactInv, Running
  <1>3. WriterInv' /\ WriteInv'
    BY DEF WriterInv, NfosOf, WriteInv
  <1>4. LoopInv'
    BY DEF LoopInv, OnWebsites, OnLocals, Done, NfosOf
  <1> QED
    BY <1>1, <1>2, <1>3, <1>4

LEMMA BeginStep ==
    ASSUME IInv, NEW n \in DOMAIN tasks, NEW fact \in Facts,
           phase \in {"resolve", "local"}, Begin(n, fact),
           UNCHANGED <<run, unmatched, writer, nfo>>,
           phase = "resolve" => n = at /\ fact # Described,
           phase = "local" => /\ fact = Described /\ n \in StillLocal
                              /\ \A m \in StillLocal : n <= m
    PROVE  IInv'
  <1> USE DEF IInv
  <1>1. CASE ~Fits(tasks[n], fact)
    BY <1>1, OutputsTyped, Failing DEF Begin, TypeOK, run, output
  <1>2. CASE Fits(tasks[n], fact)
    <2> USE FactsAreApart, OutputsTyped
    <2>1. /\ phase' = "write" /\ exit' = exit /\ out' = 1 /\ at' = n
          /\ taken' = [taken EXCEPT ![n] = fact]
          /\ UNCHANGED <<cancelled, due, library, tasks, runs, unmatched, writer, nfo>>
      BY <1>2 DEF Begin, run
    <2>2. /\ taken'[n] = fact /\ \A m \in DOMAIN tasks \ {n} : taken'[m] = taken[m]
          /\ fact # Blank
      BY <2>1 DEF TypeOK
    <2>3. taken[n] = Blank
      <3>1. CASE phase = "resolve"
        BY <3>1 DEF LoopInv, OnWebsites
      <3>2. CASE phase = "local"
        <4>1. n \in unmatched /\ (n > at \/ n = at)
          BY <3>2 DEF StillLocal, TypeOK
        <4> QED
          BY <3>2, <4>1 DEF LoopInv, OnLocals
      <3> QED
        BY <3>1, <3>2
    <2>4. \A m \in DOMAIN tasks : Done(m) => m # n /\ Done(m)'
      BY <2>1, <2>2, <2>3 DEF Done, NfosOf
    <2>5. TypeOK'
      BY <2>1 DEF TypeOK
    <2>6. PlanInv'
      BY <2>1 DEF PlanInv, Running
    <2>7. phase = "resolve" => n \notin unmatched
      BY DEF LoopInv, OnWebsites
    <2>8. FactInv'
      <3>1. \A m \in unmatched : tasks'[m].pin.source = NoSource
        BY <2>1 DEF FactInv
      <3>2. /\ Fits(tasks[n], taken[n])'
            /\ taken'[n] = Described => n \in unmatched
            /\ taken'[n] # Described => n \notin unmatched
        BY <1>2, <2>1, <2>2, <2>7 DEF Fits, StillLocal
      <3>3. \A m \in DOMAIN tasks \ {n} :
              /\ taken'[m] # Blank => Fits(tasks[m], taken[m])'
              /\ taken'[m] = Described => m \in unmatched
              /\ taken'[m] # Described /\ m \in unmatched => taken'[m] = Blank
        BY <2>1, <2>2 DEF FactInv, Fits
      <3> QED
        BY <2>1, <3>1, <3>2, <3>3 DEF FactInv
    <2>9. WriterInv'
      BY <2>1, <2>2, <2>3 DEF WriterInv, NfosOf, TypeOK
    <2>10. WriteInv'
      BY <2>1, <2>2, <2>3 DEF WriteInv, WriterInv, NfosOf, Outputs
    <2>11. LoopInv'
      <3>1. CASE phase = "resolve"
        <4>1. fact # Described /\ n = at /\ \A m \in unmatched : taken[m] # Described
          BY <3>1, <2>3, <2>7 DEF LoopInv, Done
        <4>2. OnWebsites' /\ ~OnLocals' /\ OnWebsites
          BY <2>1, <2>2, <3>1, <4>1 DEF OnWebsites, OnLocals
        <4>3. exit' # "ok" /\ \A m \in unmatched : taken'[m] # Described
          BY <2>1, <2>2, <3>1, <4>1, <2>7 DEF PlanInv, TypeOK
        <4> QED
          BY <2>1, <2>2, <2>4, <4>1, <4>2, <4>3, <3>1 DEF LoopInv
      <3>2. CASE phase = "local"
        <4>1. OnLocals' /\ ~OnWebsites' /\ OnLocals /\ exit' # "ok"
          BY <2>1, <2>2, <3>2 DEF OnWebsites, OnLocals, PlanInv
        <4>2. n \in unmatched /\ n >= at /\ \A m \in unmatched : m >= at => n <= m
          BY <3>2 DEF StillLocal
        <4>3. \A m \in DOMAIN tasks : m \notin unmatched => Done(m)'
          BY <2>4, <3>2 DEF LoopInv, OnLocals
        <4>4. \A m \in DOMAIN tasks : m \in unmatched /\ m < n => Done(m)'
          BY <2>4, <3>2, <4>2 DEF LoopInv, OnLocals, TypeOK
        <4>5. \A m \in DOMAIN tasks : m \in unmatched /\ m > n => taken'[m] = Blank
          BY <2>2, <3>2, <4>2 DEF LoopInv, OnLocals, TypeOK
        <4> QED
          BY <2>1, <4>1, <4>3, <4>4, <4>5 DEF LoopInv
      <3> QED
        BY <3>1, <3>2
    <2> QED
      BY <2>5, <2>6, <2>8, <2>9, <2>10, <2>11
  <1> QED
    BY <1>1, <1>2

----------------------------------------------------------------------------
(* One lemma for each action.                                               *)

LEMMA Beginning == Init => IInv
  <1> SUFFICES ASSUME Init PROVE IInv
    OBVIOUS
  <1>1. /\ due = {} /\ tasks = <<>> /\ taken = <<>> /\ unmatched = {} /\ library = {} /\ at = 1 /\ out = 1
        /\ phase = "discover" /\ exit = "running"
        /\ \A f \in NfoFiles : writer[f] = 0 /\ nfo[f] = Blank
    BY DEF Init, Started
  <1>2. TypeOK
    <2>1. /\ writer \in [NfoFiles -> {0} \cup DOMAIN tasks]
          /\ nfo \in [NfoFiles -> Facts \cup {Blank}]
      BY DEF Init, Started
    <2>2. taken \in [DOMAIN tasks -> Facts \cup {Blank}] /\ DOMAIN tasks = {}
      BY <1>1
    <2>3. cancelled \in BOOLEAN /\ runs \in Nat
      BY DEF Init
    <2> QED
      BY <1>1, <2>1, <2>2, <2>3 DEF TypeOK
  <1> QED
    BY <1>1, <1>2
       DEF IInv, PlanInv, FactInv, WriterInv, LoopInv, WriteInv, OutputsApart, OnWebsites,
           OnLocals, Running

LEMMA DiscoverStep == IInv /\ DiscoverFiles => IInv'
  <1> SUFFICES ASSUME IInv, DiscoverFiles PROVE IInv'
    OBVIOUS
  <1> USE DEF IInv
  <1>1. /\ UNCHANGED <<cancelled, due, tasks, runs, at, unmatched, out, taken, writer, nfo>>
        /\ library' \subseteq Videos /\ phase = "discover" /\ tasks = <<>>
        /\ \/ library' = {} /\ phase' = "over" /\ exit' = "ok"
           \/ phase' = "organise" /\ exit' = exit
           \/ phase' = "over" /\ exit' = "error"
    BY DEF DiscoverFiles, Return, progress, output, PlanInv, TypeOK
  <1>2. TypeOK'
    BY <1>1 DEF TypeOK
  <1>3. PlanInv'
    BY <1>1 DEF PlanInv, Running
  <1>4. FactInv' /\ WriterInv' /\ WriteInv'
    BY <1>1 DEF FactInv, WriterInv, WriteInv, NfosOf, Fits
  <1>5. LoopInv'
    BY <1>1 DEF LoopInv, OnWebsites, OnLocals, TypeOK
  <1> QED
    BY <1>2, <1>3, <1>4, <1>5

LEMMA OrganiseStep == IInv /\ Organise => IInv'
  <1> SUFFICES ASSUME IInv, Organise PROVE IInv'
    OBVIOUS
  <1>1. CASE phase' = "over"
    <2>1. Return("error") /\ UNCHANGED <<tasks, taken>>
      BY <1>1 DEF Organise
    <2> QED
      BY <2>1, Failing DEF Organise, progress, output, IInv, TypeOK
  <1>2. CASE phase' # "over"
    <2> USE DEF IInv
    <2>1. /\ UNCHANGED <<cancelled, due, library, runs, at, unmatched, out, writer, nfo>>
          /\ phase = "organise" /\ exit = "running" /\ tasks = <<>>
      BY DEF Organise, progress, PlanInv
    <2>2. at = 1 /\ unmatched = {} /\ \A f \in NfoFiles : writer[f] = 0
      BY <2>1 DEF TypeOK
    <2>3. /\ tasks' \in Seq(Task) /\ OutputsApart(tasks')
          /\ \A v \in library : \E n \in DOMAIN tasks' : v \in tasks'[n].videos
          /\ taken' = [n \in DOMAIN tasks' |-> Blank]
          /\ phase' = "resolve" /\ exit' = exit
      BY <1>2, PlanTyped DEF TypeOK
    <2>4. TypeOK'
      BY <2>1, <2>2, <2>3 DEF TypeOK
    <2>5. PlanInv' /\ WriteInv'
      BY <2>1, <2>3 DEF PlanInv, WriteInv
    <2>6. FactInv' /\ WriterInv'
      BY <2>1, <2>2, <2>3, FactsAreApart DEF FactInv, WriterInv
    <2>7. LoopInv'
      BY <2>1, <2>2, <2>3 DEF LoopInv, OnWebsites, OnLocals, TypeOK
    <2> QED
      BY <2>4, <2>5, <2>6, <2>7
  <1> QED
    BY <1>1, <1>2

LEMMA ResolveStep == IInv /\ ResolveTask => IInv'
  <1> SUFFICES ASSUME IInv, ResolveTask PROVE IInv'
    OBVIOUS
  <1>1. at \in DOMAIN tasks /\ phase = "resolve"
    BY DEF ResolveTask, AllTried, IInv, TypeOK
  <1>2. UNCHANGED <<cancelled, due, library, tasks, runs, writer, nfo>>
    BY DEF ResolveTask, run
  <1>3. CASE Return("error") /\ UNCHANGED <<progress, taken>>
    BY <1>2, <1>3, Failing DEF progress, output, IInv, TypeOK
  <1>4. ASSUME NEW verdict \in Promised(tasks[at].kind, tasks[at].pin.source, tasks[at].pin.at),
               verdict.kind = "option", UNCHANGED unmatched,
               Begin(at, [source |-> verdict.source, work |-> verdict.work])
        PROVE  IInv'
    <2>1. PICK s \in Sources, w \in Works : verdict = OptionOf(s, w)
      BY <1>4 DEF Promised, Without
    <2>2. [source |-> verdict.source, work |-> verdict.work] \in Facts \ {Described}
      BY <2>1, FactsAreApart DEF OptionOf
    <2> QED
      BY <1>1, <1>2, <1>4, <2>2, BeginStep DEF run
  <1>5. ASSUME NEW verdict \in Promised(tasks[at].kind, tasks[at].pin.source, tasks[at].pin.at),
               verdict.kind = "exhausted", unmatched' = unmatched \cup {at}, at' = NextTask,
               UNCHANGED <<phase, exit, out, taken>>
        PROVE  IInv'
    <2> USE DEF IInv
    <2>1. tasks[at].pin.source = NoSource
      BY <1>5 DEF Promised, Without, OptionOf
    <2>2. TypeOK'
      BY <1>1, <1>2, <1>5 DEF TypeOK, NextTask
    <2>3. PlanInv' /\ WriteInv' /\ WriterInv'
      BY <1>1, <1>2, <1>5 DEF PlanInv, Running, WriteInv, WriterInv, NfosOf
    <2>4. taken[at] = Blank
      BY <1>1 DEF LoopInv, OnWebsites
    <2>5. FactInv'
      BY <1>1, <1>2, <1>5, <2>1, <2>4, FactsAreApart DEF FactInv, Fits
    <2>6. LoopInv'
      <3>1. \A n \in DOMAIN tasks : Done(n) => Done(n)'
        BY <1>2, <1>5 DEF Done, NfosOf
      <3>2. OnWebsites /\ OnWebsites' /\ ~OnLocals' /\ exit' # "ok"
        BY <1>1, <1>5 DEF OnWebsites, OnLocals, PlanInv
      <3>3. \A m \in unmatched' : taken'[m] # Described
        BY <1>1, <1>5, <2>4, FactsAreApart, <3>2 DEF LoopInv, Done
      <3> QED
        BY <1>1, <1>2, <1>5, <3>1, <3>2, <3>3 DEF LoopInv, NextTask, TypeOK
    <2> QED
      BY <2>2, <2>3, <2>5, <2>6
  <1> QED
    BY <1>3, <1>4, <1>5 DEF ResolveTask, LeftForLocal

LEMMA WebsitesStep == IInv /\ WebsitesDone => IInv'
  <1> SUFFICES ASSUME IInv, WebsitesDone PROVE IInv'
    OBVIOUS
  <1> USE DEF IInv
  <1>1. /\ UNCHANGED <<cancelled, due, library, tasks, runs, at, unmatched, out, taken, writer, nfo>>
        /\ phase = "resolve" /\ exit = "running"
        /\ \A n \in DOMAIN tasks : n < at
        /\ \/ unmatched = {} /\ phase' = "over" /\ exit' = "ok"
           \/ phase' = "describe" /\ exit' = exit
    BY DEF WebsitesDone, Return, run, progress, output, PlanInv, AllTried, TypeOK
  <1>2. TypeOK'
    BY <1>1 DEF TypeOK
  <1>3. PlanInv' /\ WriteInv' /\ WriterInv' /\ FactInv'
    BY <1>1 DEF PlanInv, Running, WriteInv, WriterInv, NfosOf, FactInv, Fits
  <1>4. \A n \in DOMAIN tasks : Done(n)' <=> Done(n)
    BY <1>1 DEF Done, NfosOf
  <1>5. \A n \in DOMAIN tasks : n \in unmatched \/ Done(n)
    BY <1>1 DEF LoopInv, OnWebsites
  <1>6. \A n \in unmatched : phase' = "describe" => taken[n] = Blank
    BY <1>1 DEF LoopInv, OnWebsites, TypeOK
  <1>7. LoopInv'
    BY <1>1, <1>4, <1>5, <1>6 DEF LoopInv, OnWebsites, OnLocals
  <1> QED
    BY <1>2, <1>3, <1>7

\* validateOutputPlan pays off: the file about to be written belongs to no
\* other task, and to no other output of this one.
LEMMA FreshTarget ==
    ASSUME IInv, phase = "write", out \in DOMAIN Outputs, Outputs[out] # Pictures
    PROVE  /\ at \in DOMAIN tasks /\ Outputs[out] \in NfosOf(at) /\ Outputs[out] \in NfoFiles
           /\ writer[Outputs[out]] = 0
           /\ \A i \in DOMAIN Outputs : Outputs[i] = Outputs[out] => i = out
           /\ \A n \in DOMAIN tasks : n # at => Outputs[out] \notin NfosOf(n)
  <1> USE DEF IInv
  <1>1. at \in DOMAIN tasks
    BY DEF WriteInv
  <1>2. Outputs[out] \in NfosOf(at) /\ Outputs[out] \in NfoFiles
    BY <1>1, OutputsTyped DEF NfosOf, Outputs
  <1>3. \A i \in DOMAIN Outputs : Outputs[i] = Outputs[out] => i = out
    BY <1>1 DEF PlanInv, OutputsApart, Outputs
  <1>4. \A n \in DOMAIN tasks : n # at => Outputs[out] \notin NfosOf(n)
    <2> SUFFICES ASSUME NEW n \in DOMAIN tasks, n # at, Outputs[out] \in NfosOf(n)
                 PROVE  FALSE
      OBVIOUS
    <2>1. PICK i \in DOMAIN tasks[n].outputs : tasks[n].outputs[i] = Outputs[out]
      BY DEF NfosOf
    <2> QED
      BY <1>1, <2>1 DEF PlanInv, OutputsApart, Outputs
  <1>5. writer[Outputs[out]] # at
    <2>1. out \in Nat
      BY DEF TypeOK
    <2> QED
      BY <2>1 DEF WriteInv
  <1>6. writer[Outputs[out]] \in {0} \cup DOMAIN tasks
    BY <1>2 DEF TypeOK
  <1>7. writer[Outputs[out]] = 0
    BY <1>2, <1>4, <1>5, <1>6 DEF WriterInv
  <1> QED
    BY <1>1, <1>2, <1>3, <1>4, <1>7

LEMMA WriteNfoStep == IInv /\ WriteNfo => IInv'
  <1> SUFFICES ASSUME IInv, WriteNfo PROVE IInv'
    OBVIOUS
  <1>1. CASE Return("error") /\ UNCHANGED <<out, writer, nfo>>
    BY <1>1, Failing DEF WriteNfo, run, output, IInv, TypeOK
  <1>2. CASE phase' = phase
    <2> USE DEF IInv
    <2> DEFINE f == Outputs[out]
    <2>1. /\ phase = "write" /\ out \in DOMAIN Outputs /\ f # Pictures
          /\ nfo' = [nfo EXCEPT ![f] = taken[at]] /\ writer' = [writer EXCEPT ![f] = at]
          /\ out' = out + 1
          /\ UNCHANGED <<phase, exit, cancelled, due, library, tasks, runs, at, unmatched, taken>>
      BY <1>2 DEF WriteNfo, Return, Saved, run, PlanInv
    <2>2. /\ at \in DOMAIN tasks /\ f \in NfosOf(at) /\ f \in NfoFiles
          /\ writer[f] = 0
          /\ \A i \in DOMAIN Outputs : Outputs[i] = f => i = out
          /\ \A n \in DOMAIN tasks : n # at => f \notin NfosOf(n)
      BY <2>1, FreshTarget
    <2> HIDE DEF f
    <2>3. /\ writer'[f] = at /\ nfo'[f] = taken[at]
          /\ \A g \in NfoFiles \ {f} : writer'[g] = writer[g] /\ nfo'[g] = nfo[g]
      BY <2>1, <2>2 DEF TypeOK
    <2>4. at # 0 /\ at \in Nat /\ taken[at] # Blank
      BY <2>1, <2>2, OutputsTyped DEF WriteInv
    <2>5. TypeOK'
      <3>1. writer' \in [NfoFiles -> {0} \cup DOMAIN tasks]
        BY <2>1, <2>2 DEF TypeOK
      <3>2. nfo' \in [NfoFiles -> Facts \cup {Blank}]
        BY <2>1, <2>2 DEF TypeOK
      <3>3. out' \in Nat \ {0}
        BY <2>1 DEF TypeOK
      <3> QED
        BY <2>1, <3>1, <3>2, <3>3 DEF TypeOK
    <2>6. PlanInv' /\ FactInv'
      BY <2>1 DEF PlanInv, Running, FactInv, Fits
    <2>7. WriterInv'
      BY <2>1, <2>2, <2>3, <2>4 DEF WriterInv, NfosOf
    <2>8. \A n \in DOMAIN tasks : Done(n) => Done(n)'
      <3> SUFFICES ASSUME NEW n \in DOMAIN tasks, Done(n) PROVE Done(n)'
        OBVIOUS
      <3>1. n # at
        BY <2>2, <2>4 DEF Done
      <3>2. \A g \in NfosOf(n) : g # f /\ g \in NfoFiles
        BY <3>1, <2>2, OutputsTyped
      <3>3. NfosOf(n)' = NfosOf(n)
        BY <2>1 DEF NfosOf
      <3> QED
        BY <2>1, <2>3, <3>2, <3>3 DEF Done
    <2>9. LoopInv'
      BY <2>1, <2>8 DEF LoopInv, OnWebsites, OnLocals
    <2>10. WriteInv'
      <3> SUFFICES ASSUME NEW i \in DOMAIN Outputs, Outputs[i] # Pictures
                   PROVE  writer'[Outputs[i]] = at <=> i < out + 1
        BY <2>1, <2>2, <2>4 DEF WriteInv, Outputs
      <3>1. i \in Nat /\ out \in Nat /\ Outputs[i] \in NfoFiles
        BY <2>2, OutputsTyped DEF TypeOK, Outputs, NfosOf
      <3>2. CASE i = out
        BY <3>1, <3>2, <2>3 DEF f
      <3>3. CASE i # out
        <4>1. Outputs[i] # f
          BY <2>2, <3>3
        <4>2. writer'[Outputs[i]] = writer[Outputs[i]]
          BY <2>3, <3>1, <4>1
        <4> QED
          BY <2>1, <3>1, <3>3, <4>2 DEF WriteInv
      <3> QED
        BY <3>2, <3>3
    <2> QED
      BY <2>5, <2>6, <2>7, <2>9, <2>10
  <1> QED
    BY <1>1, <1>2 DEF WriteNfo

LEMMA SavePicturesStep == IInv /\ SavePictures => IInv'
  <1> SUFFICES ASSUME IInv, SavePictures PROVE IInv'
    OBVIOUS
  <1>1. CASE Return("error") /\ UNCHANGED out
    BY <1>1, Failing DEF SavePictures, run, output, IInv, TypeOK
  <1>2. CASE out' = out + 1 /\ UNCHANGED <<phase, exit>>
    <2> USE DEF IInv
    <2>1. /\ phase = "write" /\ out \in DOMAIN Outputs /\ Outputs[out] = Pictures
          /\ out' = out + 1
          /\ UNCHANGED <<phase, exit, cancelled, due, library, tasks, runs, at, unmatched,
                         taken, writer, nfo>>
      BY <1>2 DEF SavePictures, run, output
    <2>2. TypeOK'
      BY <2>1 DEF TypeOK
    <2>3. PlanInv' /\ FactInv' /\ WriterInv'
      BY <2>1 DEF PlanInv, Running, FactInv, Fits, WriterInv, NfosOf
    <2>4. LoopInv'
      BY <2>1 DEF LoopInv, OnWebsites, OnLocals, Done, NfosOf
    <2>5. WriteInv'
      <3> SUFFICES ASSUME NEW i \in DOMAIN Outputs, Outputs[i] # Pictures
                   PROVE  writer[Outputs[i]] = at <=> i < out + 1
        BY <2>1 DEF WriteInv, Outputs
      <3>1. at \in DOMAIN tasks
        BY <2>1 DEF WriteInv
      <3>2. i \in Nat /\ out \in Nat /\ i # out
        BY <2>1, <3>1, OutputsTyped DEF TypeOK, Outputs
      <3> QED
        BY <2>1, <3>2 DEF WriteInv
    <2> QED
      BY <2>2, <2>3, <2>4, <2>5
  <1> QED
    BY <1>1, <1>2 DEF SavePictures

LEMMA TaskWrittenStep == IInv /\ TaskWritten => IInv'
  <1> SUFFICES ASSUME IInv, TaskWritten PROVE IInv'
    OBVIOUS
  <1> USE DEF IInv
  <1>1. /\ phase = "write" /\ out \notin DOMAIN Outputs
        /\ phase' = IF taken[at] = Described THEN "local" ELSE "resolve"
        /\ at' = at + 1
        /\ UNCHANGED <<exit, cancelled, due, library, tasks, runs, unmatched, out, taken, writer, nfo>>
    BY DEF TaskWritten, NextTask, run, output
  <1>2. at \in DOMAIN tasks /\ at \in Nat /\ taken[at] # Blank /\ exit = "running"
    BY <1>1, OutputsTyped DEF WriteInv, PlanInv
  <1>3. Done(at)
    <2> SUFFICES ASSUME NEW i \in DOMAIN Outputs, Outputs[i] # Pictures
                 PROVE  writer[Outputs[i]] = at
      BY <1>2 DEF Done, NfosOf, Outputs
    <2>1. i \in 1..Len(Outputs) /\ out \in Nat \ {0} /\ out \notin 1..Len(Outputs)
          /\ Len(Outputs) \in Nat
      BY <1>1, <1>2, OutputsTyped DEF TypeOK, Outputs
    <2>2. i < out
      BY <2>1
    <2> QED
      BY <1>1, <2>2 DEF WriteInv
  <1>4. TypeOK'
    BY <1>1, <1>2 DEF TypeOK
  <1>5. PlanInv' /\ FactInv' /\ WriterInv' /\ WriteInv'
    BY <1>1 DEF PlanInv, Running, FactInv, Fits, WriterInv, NfosOf, WriteInv
  <1>6. \A n \in DOMAIN tasks : Done(n) => Done(n)'
    BY <1>1 DEF Done, NfosOf
  <1>7. LoopInv'
    <2>1. CASE taken[at] = Described
      <3>1. OnLocals /\ OnLocals' /\ ~OnWebsites' /\ exit' # "ok"
        BY <1>1, <1>2, <2>1 DEF OnLocals, OnWebsites
      <3> QED
        BY <1>1, <1>2, <1>3, <1>6, <2>1, <3>1 DEF LoopInv, TypeOK
    <2>2. CASE taken[at] # Described
      <3>1. OnWebsites /\ OnWebsites' /\ ~OnLocals' /\ exit' # "ok"
        BY <1>1, <1>2, <2>2 DEF OnLocals, OnWebsites
      <3> QED
        BY <1>1, <1>2, <1>3, <1>6, <2>2, <3>1 DEF LoopInv, TypeOK
    <2> QED
      BY <2>1, <2>2
  <1> QED
    BY <1>4, <1>5, <1>7

LEMMA DescribeStep == IInv /\ DescribeLocal => IInv'
  <1> SUFFICES ASSUME IInv, DescribeLocal PROVE IInv'
    OBVIOUS
  <1>1. CASE Return("error") /\ UNCHANGED at
    BY <1>1, Failing DEF DescribeLocal, run, output, IInv, TypeOK
  <1>2. CASE phase' = "local" /\ at' = 1 /\ UNCHANGED exit
    <2> USE DEF IInv
    <2>1. /\ phase = "describe" /\ exit = "running"
          /\ UNCHANGED <<cancelled, due, library, tasks, runs, unmatched, out, taken, writer, nfo>>
      BY <1>2 DEF DescribeLocal, run, output, PlanInv
    <2>2. TypeOK'
      BY <1>2, <2>1 DEF TypeOK
    <2>3. PlanInv' /\ FactInv' /\ WriterInv' /\ WriteInv'
      BY <1>2, <2>1 DEF PlanInv, Running, FactInv, Fits, WriterInv, NfosOf, WriteInv
    <2>4. LoopInv'
      <3>1. \A n \in DOMAIN tasks : (Done(n)' <=> Done(n)) /\ ~(n < 1)
        BY <2>1, OutputsTyped DEF Done, NfosOf
      <3>2. OnLocals /\ OnLocals' /\ ~OnWebsites' /\ exit' # "ok"
        BY <1>2, <2>1 DEF OnLocals, OnWebsites
      <3> QED
        BY <1>2, <2>1, <3>1, <3>2 DEF LoopInv
    <2> QED
      BY <2>2, <2>3, <2>4
  <1> QED
    BY <1>1, <1>2 DEF DescribeLocal

LEMMA LocalTaskStep == IInv /\ LocalTask => IInv'
  <1> SUFFICES ASSUME IInv, LocalTask PROVE IInv'
    OBVIOUS
  <1>1. PICK n \in StillLocal :
           /\ \A m \in StillLocal : n <= m
           /\ \/ Return("error") /\ UNCHANGED <<at, out, taken>>
              \/ Begin(n, Described)
    BY DEF LocalTask
  <1>2. n \in DOMAIN tasks
    BY DEF IInv, TypeOK, StillLocal
  <1>3. CASE Return("error") /\ UNCHANGED <<at, out, taken>>
    BY <1>3, Failing DEF LocalTask, run, output, IInv, TypeOK
  <1>4. CASE Begin(n, Described)
    BY <1>1, <1>2, <1>4, BeginStep, FactsAreApart DEF LocalTask
  <1> QED
    BY <1>1, <1>3, <1>4

LEMMA LocalsStep == IInv /\ LocalsDone => IInv'
  <1> SUFFICES ASSUME IInv, LocalsDone PROVE IInv'
    OBVIOUS
  <1> USE DEF IInv
  <1>1. /\ phase = "local" /\ phase' = "over" /\ exit' = "ok"
        /\ \A n \in unmatched : n < at
        /\ UNCHANGED <<cancelled, due, library, tasks, runs, at, unmatched, out, taken, writer, nfo>>
    BY DEF LocalsDone, Return, run, progress, output, StillLocal, TypeOK
  <1>2. TypeOK'
    BY <1>1 DEF TypeOK
  <1>3. PlanInv' /\ WriteInv' /\ WriterInv' /\ FactInv'
    BY <1>1 DEF PlanInv, Running, WriteInv, WriterInv, NfosOf, FactInv, Fits
  <1>4. \A n \in DOMAIN tasks : Done(n) /\ (Done(n) => Done(n)')
    BY <1>1 DEF LoopInv, OnLocals, Done, NfosOf
  <1>5. LoopInv'
    BY <1>1, <1>4 DEF LoopInv, OnWebsites, OnLocals
  <1> QED
    BY <1>2, <1>3, <1>5

LEMMA WorldStep == IInv /\ (Cancel \/ RunAgain \/ UNCHANGED vars) => IInv'
  <1> SUFFICES ASSUME IInv, Cancel \/ RunAgain \/ UNCHANGED vars PROVE IInv'
    OBVIOUS
  <1> USE DEF IInv
  <1>1. CASE Cancel \/ UNCHANGED vars
    <2>1. /\ UNCHANGED <<phase, exit, library, tasks, runs, at, unmatched, out, taken, writer, nfo>>
          /\ cancelled' \in BOOLEAN /\ due' \subseteq DOMAIN tasks
      BY <1>1 DEF Cancel, FactsAtHand, vars, run, progress, output, TypeOK
    <2>2. TypeOK'
      BY <2>1 DEF TypeOK
    <2>3. PlanInv' /\ WriterInv' /\ FactInv'
      BY <2>1 DEF PlanInv, Running, WriterInv, NfosOf, FactInv, Fits
    <2>4. LoopInv' /\ WriteInv'
      BY <2>1 DEF LoopInv, OnWebsites, OnLocals, Done, NfosOf, WriteInv, Outputs
    <2> QED
      BY <2>2, <2>3, <2>4
  <1>2. CASE RunAgain
    <2>1. /\ due' = {} /\ tasks' = <<>> /\ taken' = <<>> /\ unmatched' = {} /\ library' = {}
          /\ at' = 1 /\ out' = 1 /\ phase' = "discover" /\ exit' = "running"
          /\ writer' = [f \in NfoFiles |-> 0] /\ nfo' = nfo
          /\ runs' \in Nat /\ cancelled' \in BOOLEAN
      <3>1. runs' = runs + 1 /\ cancelled' = FALSE
        BY <1>2 DEF RunAgain
      <3>2. runs \in Nat
        BY DEF TypeOK
      <3>3. runs' \in Nat
        BY <3>1, <3>2
      <3>5. cancelled' \in BOOLEAN
        BY <3>1
      <3>4. /\ Started.due = {} /\ Started.tasks = <<>> /\ Started.taken = <<>> /\ Started.unmatched = {}
            /\ Started.library = {} /\ Started.at = 1 /\ Started.out = 1
            /\ Started.writer = [f \in NfoFiles |-> 0]
        BY DEF Started
      <3> QED
        BY <1>2, <3>3, <3>4, <3>5 DEF RunAgain
    <2>2. TypeOK'
      BY <2>1 DEF TypeOK
    <2>3. PlanInv' /\ FactInv' /\ WriterInv' /\ LoopInv' /\ WriteInv'
      BY <2>1
         DEF PlanInv, FactInv, WriterInv, LoopInv, WriteInv, OutputsApart, OnWebsites,
             OnLocals, Running
    <2> QED
      BY <2>2, <2>3
  <1> QED
    BY <1>1, <1>2

----------------------------------------------------------------------------

\* The plan, the loop and the files keep agreeing, whatever answers come.
THEOREM Inductive == Spec => []IInv
  <1>1. IInv /\ [Next]_vars => IInv'
    BY DiscoverStep, OrganiseStep, ResolveStep, WebsitesStep, WriteNfoStep, SavePicturesStep,
       TaskWrittenStep, DescribeStep, LocalTaskStep, LocalsStep, WorldStep DEF Next, Step
  <1> QED
    BY Beginning, <1>1, PTL DEF Spec

\* Every variable of Run keeps its type (collector.go 16-112).
THEOREM TypeCorrect == Spec => []TypeOK
  <1>1. IInv => TypeOK
    BY DEF IInv
  <1> QED
    BY <1>1, Inductive, PTL

\* Exit status zero means that every video found is catalogued with the facts
\* of this run, down to the last NFO (collector.go 52-112).
THEOREM SuccessTold == Spec => []SuccessIsComplete
  <1>1. IInv => SuccessIsComplete
    <2> SUFFICES ASSUME IInv, exit = "ok"
                 PROVE  /\ \A v \in library : \E n \in DOMAIN tasks : v \in tasks[n].videos
                        /\ \A n \in DOMAIN tasks :
                             taken[n] # Blank /\ \A f \in NfosOf(n) : nfo[f] = taken[n]
      BY DEF SuccessIsComplete
    <2>1. \A n \in DOMAIN tasks : \A f \in NfosOf(n) : nfo[f] = taken[n]
      BY OutputsTyped DEF IInv, LoopInv, Done, WriterInv
    <2> QED
      BY <2>1 DEF IInv, LoopInv, Done, PlanInv
  <1> QED
    BY <1>1, Inductive, PTL

\* What a person pinned is neither described locally nor written with other
\* facts (collector.go 58-65, the identity checks of both Write methods).
THEOREM PinsHold == Spec => []PinsKept
  <1>1. IInv => PinsKept
    <2> SUFFICES ASSUME IInv, NEW n \in DOMAIN tasks, tasks[n].pin.source # NoSource
                 PROVE  /\ n \notin unmatched
                        /\ \A f \in NfosOf(n) : writer[f] = n =>
                             /\ nfo[f].source = tasks[n].pin.source
                             /\ tasks[n].pin.at \in Works => nfo[f].work = tasks[n].pin.at
      BY DEF PinsKept
    <2>1. n \notin unmatched
      BY DEF IInv, FactInv
    <2>2. ASSUME NEW f \in NfosOf(n), writer[f] = n
          PROVE  nfo[f] = taken[n] /\ Fits(tasks[n], taken[n])
      BY <2>2, OutputsTyped DEF IInv, WriterInv, FactInv
    <2> QED
      BY <2>1, <2>2 DEF Fits
  <1> QED
    BY <1>1, Inductive, PTL

\* Local descriptions are written after everything a source could serve
\* (collector.go 75-104).
THEOREM LocalComesLast == Spec => []LocalAfterWebsites
  <1>1. IInv => LocalAfterWebsites
    <2> SUFFICES ASSUME IInv, NEW m \in DOMAIN tasks, taken[m] = Described,
                        NEW n \in DOMAIN tasks \ unmatched
                 PROVE  taken[n] \notin {Blank, Described} /\ \A f \in NfosOf(n) : nfo[f] = taken[n]
      BY DEF LocalAfterWebsites
    <2>1. m \in unmatched /\ Done(n)
      BY DEF IInv, FactInv, LoopInv
    <2>2. taken[n] # Described
      BY DEF IInv, FactInv
    <2> QED
      BY <2>1, <2>2, OutputsTyped DEF IInv, Done, WriterInv
  <1> QED
    BY <1>1, Inductive, PTL

\* No NFO is written twice in a run (output_plan.go 12-44, collector.go 53-104).
THEOREM NeverWrittenTwice == Spec => WrittenOnce
  <1>1. IInv /\ [Next]_vars =>
          [runs' = runs => \A f \in NfoFiles :
              writer[f] # 0 => writer'[f] = writer[f] /\ nfo'[f] = nfo[f]]_vars
    <2> SUFFICES ASSUME IInv, [Next]_vars, runs' = runs, NEW f \in NfoFiles, writer[f] # 0
                 PROVE  writer'[f] = writer[f] /\ nfo'[f] = nfo[f]
      OBVIOUS
    <2>1. CASE WriteNfo
      <3>1. CASE UNCHANGED <<out, writer, nfo>>
        BY <3>1
      <3>2. CASE /\ nfo' = [nfo EXCEPT ![Outputs[out]] = Saved(@, taken[at])]
                 /\ writer' = [writer EXCEPT ![Outputs[out]] = at]
        <4>1. Outputs[out] # f
          BY <2>1, FreshTarget DEF WriteNfo
        <4> QED
          BY <3>2, <4>1 DEF IInv, TypeOK
      <3> QED
        BY <2>1, <3>1, <3>2 DEF WriteNfo
    <2>2. CASE RunAgain
      BY <2>2 DEF RunAgain, IInv, TypeOK
    <2>3. CASE UNCHANGED <<writer, nfo>>
      BY <2>3
    <2> QED
      BY <2>1, <2>2, <2>3
         DEF Next, Step, DiscoverFiles, Organise, ResolveTask, WebsitesDone, SavePictures,
             TaskWritten, DescribeLocal, LocalTask, LocalsDone, Cancel, vars, output
  <1> QED
    BY <1>1, Inductive, PTL DEF Spec, WrittenOnce

\* Once the context has ended only tasks that are due have facts, and the
\* tasks left for a description are due as soon as they are described.
CancelInv ==
    cancelled =>
        /\ \A n \in DOMAIN tasks : taken[n] # Blank => n \in due
        /\ phase = "local" \/ (phase = "write" /\ taken[at] = Described) => unmatched \subseteq due

LEMMA CancelStep == IInv /\ CancelInv /\ [Next]_vars => CancelInv'
  <1> SUFFICES ASSUME IInv, CancelInv, [Next]_vars, cancelled'
               PROVE  CancelInv'
    BY DEF CancelInv
  <1>1. CASE Cancel
    BY <1>1 DEF Cancel, FactsAtHand, CancelInv, progress, output
  <1>2. CASE RunAgain
    BY <1>2 DEF RunAgain
  <1>3. CASE DiscoverFiles \/ Organise
    <2>1. cancelled /\ UNCHANGED <<due, tasks, taken>>
      BY <1>3 DEF DiscoverFiles, Organise, output
    <2>2. phase' \in {"over", "organise"}
      BY <1>3, <2>1 DEF DiscoverFiles, Organise, Return
    <2> QED
      BY <2>1, <2>2 DEF CancelInv
  <1>4. CASE ResolveTask
    <2>1. phase' = "over" /\ cancelled /\ UNCHANGED <<due, tasks, taken>>
      BY <1>4 DEF ResolveTask, Return, run
    <2> QED
      BY <2>1 DEF CancelInv
  <1>5. CASE WebsitesDone \/ DescribeLocal \/ LocalsDone
    <2>1. phase' \in {"over", "describe"} /\ cancelled /\ UNCHANGED <<due, tasks, taken>>
      BY <1>5 DEF WebsitesDone, DescribeLocal, MayDescribe, LocalsDone, Return, run, output
    <2> QED
      BY <2>1 DEF CancelInv
  <1>6. CASE WriteNfo \/ SavePictures
    <2>1. /\ phase = "write" /\ phase' \in {"write", "over"} /\ cancelled
          /\ UNCHANGED <<due, tasks, at, unmatched, taken>>
      BY <1>6 DEF WriteNfo, SavePictures, Return, run, output
    <2> QED
      BY <2>1 DEF CancelInv
  <1>7. CASE TaskWritten
    <2>1. /\ phase = "write" /\ phase' = (IF taken[at] = Described THEN "local" ELSE "resolve")
          /\ cancelled /\ UNCHANGED <<due, tasks, unmatched, taken>>
      BY <1>7 DEF TaskWritten, run, output
    <2> QED
      BY <2>1 DEF CancelInv
  <1>8. CASE LocalTask
    <2>1. /\ phase = "local" /\ cancelled /\ UNCHANGED <<due, tasks, unmatched>>
          /\ unmatched \subseteq due
      BY <1>8 DEF LocalTask, run, CancelInv
    <2>2. CASE phase' = "over" /\ UNCHANGED taken
      BY <2>1, <2>2 DEF CancelInv
    <2>3. ASSUME NEW n \in unmatched, phase' = "write", taken' = [taken EXCEPT ![n] = Described]
          PROVE  CancelInv'
      BY <2>1, <2>3 DEF CancelInv, IInv, TypeOK
    <2> QED
      BY <1>8, <2>2, <2>3 DEF LocalTask, StillLocal, Begin, Return
  <1>9. CASE UNCHANGED vars
    BY <1>9 DEF CancelInv, vars, run, progress, output
  <1> QED
    BY <1>1, <1>2, <1>3, <1>4, <1>5, <1>6, <1>7, <1>8, <1>9 DEF Next, Step

\* After the end of the context nothing reaches the disk but the task being
\* written and what had been described (collector.go 54-57, 81, 89-105).
THEOREM CancelHeeded == Spec => []StopsWhenCancelled
  <1>1. Init => CancelInv
    BY DEF Init, CancelInv
  <1>2. IInv /\ CancelInv => StopsWhenCancelled
    BY OutputsTyped DEF CancelInv, StopsWhenCancelled, IInv, TypeOK, WriterInv
  <1> QED
    BY <1>1, <1>2, CancelStep, Inductive, PTL DEF Spec
----------------------------------------------------------------------------

\* How far a run is from its end: the parts it has before it, in a part the
\* tasks, and in a task the files it writes.
Part ==
    IF phase = "discover" THEN 5 ELSE IF phase = "organise" THEN 4 ELSE IF OnWebsites THEN 3
    ELSE IF phase = "describe" THEN 2 ELSE IF OnLocals THEN 1 ELSE 0
Onward ==
    \/ at < at' /\ at' <= Len(tasks) + 1
    \/ at' = at /\ phase # "write" /\ phase' = "write"
    \/ at' = at /\ phase = "write" /\ phase' = "write" /\ out < out' /\ out' <= Len(Outputs) + 1
Nearer == Part' < Part \/ (Part' = Part /\ UNCHANGED tasks /\ Onward)
Advance ==
    /\ Step => Nearer
    /\ Cancel => cancelled' /\ ~cancelled /\ Part' = Part /\ UNCHANGED <<phase, tasks, at, out>>

LEMMA EarlyEnd == ASSUME exit = "running", IInv, Return("error") \/ Return("ok") PROVE Nearer
  <1>1. phase # "over" /\ phase' = "over"
    BY DEF IInv, PlanInv, Return
  <1>2. Part' = 0
    BY <1>1 DEF Part, OnWebsites, OnLocals
  <1>3. Part \in 1..5
    BY <1>1 DEF Part, OnWebsites, OnLocals, IInv, TypeOK
  <1> QED
    BY <1>2, <1>3 DEF Nearer

\* A task that is begun is at hand or still to come, and belongs to the part
\* the run is in.
LEMMA BeginNearer ==
    ASSUME IInv, NEW n \in DOMAIN tasks, NEW fact \in Facts, Begin(n, fact), UNCHANGED <<run, unmatched>>,
           \/ phase = "resolve" /\ n = at /\ fact # Described
           \/ phase = "local" /\ n \in StillLocal /\ fact = Described
    PROVE  Nearer
  <1>1. exit = "running"
    BY DEF IInv, PlanInv
  <1>2. CASE Return("error")
    BY <1>1, <1>2, EarlyEnd
  <1>3. CASE phase' = "write" /\ taken' = [taken EXCEPT ![n] = fact]
    <2>1. at' = n /\ n \in 1..Len(tasks) /\ at \in Nat /\ Len(tasks) \in Nat /\ UNCHANGED tasks
      BY DEF Begin, run, IInv, TypeOK
    <2>2. taken'[at'] = fact
      BY <1>3, <2>1 DEF IInv, TypeOK
    <2>3. CASE phase = "resolve" /\ n = at /\ fact # Described
      <3>1. Part = 3 /\ Part' = 3
        BY <1>3, <2>2, <2>3 DEF Part, OnWebsites
      <3> QED
        BY <1>3, <2>1, <2>3, <3>1 DEF Nearer, Onward
    <2>4. CASE phase = "local" /\ n \in StillLocal /\ fact = Described
      <3>1. Part = 1 /\ Part' = 1
        BY <1>3, <2>2, <2>4 DEF Part, OnWebsites, OnLocals
      <3>2. n >= at
        BY <2>4 DEF StillLocal
      <3>3. at' = at \/ (at < at' /\ at' <= Len(tasks) + 1)
        BY <2>1, <3>2
      <3> QED
        BY <1>3, <2>1, <2>4, <3>1, <3>3 DEF Nearer, Onward
    <2> QED
      BY <2>3, <2>4
  <1> QED
    BY <1>2, <1>3 DEF Begin

LEMMA StepNearer == ASSUME IInv, Step PROVE Nearer
  <1>1. exit = "running"
    BY DEF Step, DiscoverFiles, Organise, ResolveTask, WebsitesDone, WriteNfo, SavePictures,
           TaskWritten, DescribeLocal, LocalTask, LocalsDone, IInv, PlanInv
  <1>2. CASE DiscoverFiles
    <2>1. CASE Return("error") \/ Return("ok")
      BY <1>1, <2>1, EarlyEnd
    <2>2. CASE phase' = "organise"
      <3>1. Part = 5 /\ Part' = 4
        BY <1>2, <2>2 DEF DiscoverFiles, Part
      <3> QED
        BY <3>1 DEF Nearer
    <2> QED
      BY <1>2, <2>1, <2>2 DEF DiscoverFiles
  <1>3. CASE Organise
    <2>1. CASE Return("error")
      BY <1>1, <2>1, EarlyEnd
    <2>2. CASE phase' = "resolve"
      <3>1. Part = 4 /\ Part' = 3
        BY <1>3, <2>2 DEF Organise, Part, OnWebsites
      <3> QED
        BY <3>1 DEF Nearer
    <2> QED
      BY <1>3, <2>1, <2>2 DEF Organise
  <1>4. CASE ResolveTask
    <2>1. at \in DOMAIN tasks /\ phase = "resolve" /\ UNCHANGED run
      BY <1>4 DEF ResolveTask, AllTried, IInv, TypeOK
    <2>2. CASE Return("error")
      BY <1>1, <2>2, EarlyEnd
    <2>3. CASE at' = NextTask /\ UNCHANGED phase
      <3>1. at < at' /\ at' <= Len(tasks) + 1
        BY <2>1, <2>3 DEF NextTask, IInv, TypeOK
      <3>2. Part = 3 /\ Part' = 3 /\ UNCHANGED tasks
        BY <2>1, <2>3 DEF Part, OnWebsites, run
      <3> QED
        BY <3>1, <3>2 DEF Nearer, Onward
    <2>4. ASSUME NEW verdict \in Promised(tasks[at].kind, tasks[at].pin.source, tasks[at].pin.at),
                 verdict.kind = "option", UNCHANGED unmatched,
                 Begin(at, [source |-> verdict.source, work |-> verdict.work])
          PROVE  Nearer
      <3>1. PICK s \in Sources, w \in Works : verdict = OptionOf(s, w)
        BY <2>4 DEF Promised, Without
      <3>2. [source |-> verdict.source, work |-> verdict.work] \in Facts \ {Described}
        BY <3>1, FactsAreApart DEF OptionOf
      <3> QED
        BY <2>1, <2>4, <3>2, BeginNearer
    <2> QED
      BY <1>4, <2>2, <2>3, <2>4 DEF ResolveTask, LeftForLocal
  <1>5. CASE WebsitesDone
    <2>1. CASE Return("ok")
      BY <1>1, <2>1, EarlyEnd
    <2>2. CASE phase' = "describe"
      <3>1. Part = 3 /\ Part' = 2
        BY <1>5, <2>2 DEF WebsitesDone, Part, OnWebsites
      <3> QED
        BY <3>1 DEF Nearer
    <2> QED
      BY <1>5, <2>1, <2>2 DEF WebsitesDone
  <1>6. CASE WriteNfo \/ SavePictures
    <2>1. CASE Return("error")
      BY <1>1, <2>1, EarlyEnd
    <2>2. CASE out' = out + 1 /\ UNCHANGED <<phase, exit>>
      <3>1. phase = "write" /\ out \in DOMAIN Outputs /\ UNCHANGED <<tasks, at, taken>>
        BY <1>6 DEF WriteNfo, SavePictures, run, output
      <3>2. out \in Nat /\ out <= Len(Outputs) /\ Len(Outputs) \in Nat
        BY <3>1, OutputsTyped DEF IInv, TypeOK, WriteInv, Outputs
      <3>3. Part' = Part
        BY <2>2, <3>1 DEF Part, OnWebsites, OnLocals
      <3> QED
        BY <2>2, <3>1, <3>2, <3>3 DEF Nearer, Onward
    <2> QED
      BY <1>6, <2>1, <2>2 DEF WriteNfo, SavePictures
  <1>7. CASE TaskWritten
    <2>1. phase = "write" /\ at' = at + 1 /\ UNCHANGED <<tasks, taken>>
          /\ phase' = IF taken[at] = Described THEN "local" ELSE "resolve"
      BY <1>7 DEF TaskWritten, NextTask, run, output
    <2>2. Part' = Part
      BY <2>1 DEF Part, OnWebsites, OnLocals
    <2>3. at < at' /\ at' <= Len(tasks) + 1
      BY <2>1 DEF IInv, TypeOK, WriteInv
    <2> QED
      BY <2>1, <2>2, <2>3 DEF Nearer, Onward
  <1>8. CASE DescribeLocal
    <2>1. CASE Return("error")
      BY <1>1, <2>1, EarlyEnd
    <2>2. CASE phase' = "local"
      <3>1. Part = 2 /\ Part' = 1
        BY <1>8, <2>2 DEF DescribeLocal, Part, OnWebsites, OnLocals
      <3> QED
        BY <3>1 DEF Nearer
    <2> QED
      BY <1>8, <2>1, <2>2 DEF DescribeLocal
  <1>9. CASE LocalTask
    <2>1. PICK n \in StillLocal : Return("error") \/ Begin(n, Described)
      BY <1>9 DEF LocalTask
    <2>2. n \in DOMAIN tasks
      BY DEF IInv, TypeOK, StillLocal
    <2>3. CASE Return("error")
      BY <1>1, <2>3, EarlyEnd
    <2>4. CASE Begin(n, Described)
      BY <1>9, <2>2, <2>4, BeginNearer, FactsAreApart DEF LocalTask
    <2> QED
      BY <2>1, <2>3, <2>4
  <1>10. CASE LocalsDone
    BY <1>1, <1>10, EarlyEnd DEF LocalsDone
  <1> QED
    BY <1>2, <1>3, <1>4, <1>5, <1>6, <1>7, <1>8, <1>9, <1>10 DEF Step

\* Between two starts of the program every step brings the run nearer its end:
\* on to a later part, a later task or a later file, of which there are finitely
\* many. This is what RunEnds needs besides fairness.
THEOREM NoCircles == Spec => [][runs' = runs => Advance]_vars
  <1>1. IInv /\ [Next]_vars => [runs' = runs => Advance]_vars
    <2> SUFFICES ASSUME IInv, Next, runs' = runs PROVE Advance
      OBVIOUS
    <2>1. Cancel => cancelled' /\ ~cancelled /\ Part' = Part /\ UNCHANGED <<phase, tasks, at, out>>
      BY DEF Cancel, Part, OnWebsites, OnLocals, progress, output
    <2> QED
      BY <2>1, StepNearer DEF Advance
  <1> QED
    BY <1>1, Inductive, PTL DEF Spec
=============================================================================
