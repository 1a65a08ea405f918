------------------------------ MODULE LocalText ------------------------------
(***************************************************************************)
(* The local phase of Run (collector/collector.go 75-104): DescribeLocal   *)
(* (common/ai/ai.go) batch by batch for the tasks no source could serve,   *)
(* then Local and the checks of Write for each. Part of Intake.            *)
(***************************************************************************)
EXTENDS Preparation

CONSTANT Echoes   \* the paths a description may be given for, in one answer

ASSUME EchoesAssumption == Echoes \subseteq Seq(Entries \cup {Stray})

VARIABLES
    unmatched,  \* positions of the tasks left for DescribeLocal
    described,  \* the files described so far
    locals      \* the options made of descriptions, in order of the tasks

localText == <<unmatched, described, locals>>

LocalInit == unmatched = {} /\ described = {} /\ locals = <<>>

\* Which tasks the sources leave: any, but none that notes tie to a source.
Leave ==
    /\ stage = "planned"
    /\ unmatched' \in SUBSET {n \in DOMAIN tasks : tasks[n].ref.provider = "none"}
    /\ stage' = IF unmatched' = {} THEN "done" ELSE "describe"
    /\ UNCHANGED <<described, locals>>

VideosOf(n) == {tasks[n].videos[m] : m \in DOMAIN tasks[n].videos}
Undescribed == (UNION {VideosOf(n) : n \in unmatched}) \ described

\* The files of earlier tasks are sent first, those of a task in its order.
Before(v, w) ==
    \E p, q \in Positions :
        /\ VideoAt(p) = v /\ VideoAt(q) = w
        /\ p[1] < q[1] \/ (p[1] = q[1] /\ p[2] < q[2])

\* A request for the next batch; its answer is checked like that of Analyze.
DescribeBatch ==
    /\ stage = "describe"
    /\ \E batch \in SUBSET Undescribed, echo \in Echoes :
         /\ batch # {}
         /\ Cardinality(batch) = LesserOf(Batch, Cardinality(Undescribed))
         /\ \A v \in batch, w \in Undescribed \ batch : Before(v, w)
         /\ IF Covers(echo, batch) THEN described' = described \cup batch /\ UNCHANGED stage
            ELSE stage' = "failed" /\ UNCHANGED described
    /\ UNCHANGED <<unmatched, locals>>

DescribeFails ==
    /\ stage = "describe"
    /\ stage' = "failed"
    /\ UNCHANGED localText

AllDescribed ==
    /\ stage = "describe" /\ Undescribed = {}
    /\ stage' = "local"
    /\ UNCHANGED localText

\* Two files of one episode share its first description. Mutant: what follows
\* the first file of a task is taken for a repetition.
FirstFile(keys, m) == m = 1
FirstOfKey(keys, m) == \A k \in 1..(m - 1) : keys[k] # keys[m]

\* Local: the work is described by the first file, each episode by its own.
OptionOf(n) ==
    [task |-> n, work |-> tasks[n].videos[1],
     episodes |-> {[key |-> tasks[n].keys[m], about |-> tasks[n].videos[m]] :
                     m \in {k \in DOMAIN tasks[n].keys : FirstOfKey(tasks[n].keys, k)}}]

Left == {n \in unmatched : \A m \in DOMAIN locals : locals[m].task # n}

\* A description is missing, or Write fails.
LocalTask ==
    /\ stage = "local"
    /\ \E n \in Left :
         /\ \A m \in Left : n <= m
         /\ \/ VideosOf(n) \subseteq described /\ locals' = Append(locals, OptionOf(n))
               /\ UNCHANGED stage
            \/ stage' = "failed" /\ UNCHANGED locals
    /\ UNCHANGED <<unmatched, described>>

AllLocal ==
    /\ stage = "local" /\ Left = {}
    /\ stage' = "done"
    /\ UNCHANGED localText

LocalStep == Leave \/ DescribeBatch \/ AllDescribed \/ LocalTask \/ AllLocal

----------------------------------------------------------------------------

\* Every file of a locally described show has a text: one, that the model gave
\* for a file of this show at the same place, and the show that of its first
\* (shows/pipeline.go 205-241, collector.go 75-104).
LocalTextComplete ==
    /\ stage = "done" => {locals[m].task : m \in DOMAIN locals} = unmatched
    /\ \A m \in DOMAIN locals :
        LET task == tasks[locals[m].task]
        IN /\ locals[m].work \in described
           /\ \A k \in DOMAIN task.keys :
                /\ \E f \in locals[m].episodes : f.key = task.keys[k]
                /\ \A f, g \in locals[m].episodes : f.key = g.key => f = g
                /\ \A f \in locals[m].episodes : f.key = task.keys[k] =>
                     /\ f.about \in described
                     /\ \E j \in DOMAIN task.keys :
                          task.keys[j] = f.key /\ task.videos[j] = f.about
=============================================================================
