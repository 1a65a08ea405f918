------------------------------- MODULE Intake -------------------------------
(***************************************************************************)
(* Run from its start to the tasks it hands to the sources, and what it    *)
(* does with those they leave: Discovery, Extraction, Preparation and      *)
(* LocalText, one after another. This is the inside of DiscoverFiles,      *)
(* Organise and DescribeLocal of Collector.                                *)
(***************************************************************************)
EXTENDS LocalText

vars == <<stage, directory, discovery, result, preparation, localText>>

Init == DiscoveryInit /\ ExtractionInit /\ PreparationInit /\ LocalInit

Discover == DiscoveryStep /\ UNCHANGED <<result, preparation, localText>>
Extract == ExtractionStep /\ UNCHANGED <<directory, discovery, preparation, localText>>
Prepare == PreparationStep /\ UNCHANGED <<directory, discovery, result, localText>>
Describe == LocalStep /\ UNCHANGED <<directory, discovery, result, preparation>>

\* A request or a read fails, or the context has ended.
Fail ==
    /\ DiscoveryFails \/ ExtractionFails \/ DescribeFails
    /\ UNCHANGED <<directory, discovery, result, preparation, localText>>

Step == Discover \/ Extract \/ Prepare \/ Describe
Next == Step \/ Fail

\* Every request carries a timeout and all else is local; nothing relies on a
\* failure.
Spec == Init /\ [][Next]_vars /\ WF_vars(Step)

TypeOK ==
    /\ stage \in {"start", "walk", "extract", "sort", "shows", "planned", "describe", "local",
                  "done", "failed", "refused"}
    /\ look \in Looks /\ inside \in BOOLEAN
    /\ at \in Nat \ {0} /\ files \in Seq(Entries)
    /\ result \in Seq(Item)
    /\ notes \in NoteSheets /\ next \in Nat \ {0}
    /\ groups \in [Places -> Seq(Item)]
    /\ show \in ShowSet /\ tasks \in Seq(Task)
    /\ unmatched \subseteq DOMAIN tasks /\ described \subseteq Entries
    /\ locals \in Seq([task : DOMAIN tasks, work : Entries,
                       episodes : SUBSET [key : Key, about : Entries]])

----------------------------------------------------------------------------

\* What Collector takes for the result of all this in its Organise.
Plans == INSTANCE Organisation WITH Videos <- Entries, Roots <- Places, Under <- Below

\* A path is told apart from the word that stands for a movie.
ASSUME PlacesAssumption == "movie" \notin Places

ItemOf(v) == result[CHOOSE n \in DOMAIN result : result[n].path = v]
Said == [v \in Found |-> IF ItemOf(v).type = "movie" THEN "movie" ELSE ItemOf(v).root]
TaskOrder ==
    [n \in DOMAIN tasks |->
        IF tasks[n].kind = "movie" THEN Plans!MovieAt(tasks[n].root)
        ELSE Plans!ShowAt(tasks[n].root)]

\* Collector's Organise leaves out nothing that can come of an answer: the
\* tasks are those the model's word on each file asks for, discs are movies,
\* the movies come first and the shows by root, whatever the order of the
\* answer and of a Go map (process.go 47-100).
OrganisedAsTold ==
    stage = "planned" =>
        /\ Said \in Plans!Labels(Found)
        /\ \A v \in Found : IsDir(v) => Said[v] = "movie"
        /\ TaskOrder \in Plans!Orders({Plans!KeyOf(v, Said) : v \in Found})
        /\ Plans!InTaskOrder(TaskOrder)
        /\ \A n \in DOMAIN tasks :
             tasks[n].videos \in
               Plans!Orders({v \in Found : Plans!KeyOf(v, Said) = TaskOrder[n]})

\* Every run gets its tasks prepared and described, or ends with an error.
IntakeEnds == <>(stage \in {"done", "failed", "refused"})
=============================================================================
