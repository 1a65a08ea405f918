---------------------------- MODULE Organisation ----------------------------
(***************************************************************************)
(* What prepareTasks (collector/process.go) may make of the files found:   *)
(* a task per movie and one per root of a show, in an order. Collector     *)
(* takes any such plan; Intake, which has the inside of prepareTasks, is   *)
(* shown to make no other.                                                 *)
(***************************************************************************)
EXTENDS Naturals, Sequences, FiniteSets, Functions

CONSTANTS
    Videos,   \* what may be discovered under --path
    Roots,    \* the directories that may be named as a show's root
    Rank,     \* Rank[r]: place of r in sort.Strings order
    Under     \* Under[r]: the videos inside r

\* What one task is about: a single movie, or a show with its root.
MovieAt(v) == <<"movie", v>>
ShowAt(r) == <<"show", r>>
Keys == {MovieAt(v) : v \in Videos} \cup {ShowAt(r) : r \in Roots}

\* The listing in one order or another.
Orders(set) == Surjection(1..Cardinality(set), set)

\* What the model may say of each file: a movie, or an episode of a show
\* whose root holds the file.
Labels(found) ==
    {label \in [found -> {"movie"} \cup Roots] :
        \A v \in found : label[v] \in Roots => v \in Under[label[v]]}

KeyOf(v, label) == IF label[v] = "movie" THEN MovieAt(v) ELSE ShowAt(label[v])

\* prepareTasks: the movies in the order of the answer, then the shows by root.
InTaskOrder(list) ==
    \A m, n \in DOMAIN list : m < n =>
        /\ list[m][1] = "show" => list[n][1] = "show"
        /\ list[m][1] = "show" /\ list[n][1] = "show" => Rank[list[m][2]] < Rank[list[n][2]]
=============================================================================
