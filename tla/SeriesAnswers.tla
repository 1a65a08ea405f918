---------------------------- MODULE SeriesAnswers ----------------------------
(***************************************************************************)
(* What the movie and show pipelines expect of FetchSeries of any source:  *)
(* the source keeps a book of what it is known to say, which grows and     *)
(* never contradicts itself. A call that succeeds reads from it one number *)
(* for each key it was asked for, of the show it was asked for; a call     *)
(* that fails tells nothing. SeriesGate and SeriesPages refine this.       *)
(***************************************************************************)

CONSTANTS Calls, Shows, Ids, None

VARIABLES
    wants,    \* of each call: the show it names, or None, and its keys
    book,     \* triples of a show, a key, and the number that answers it
    told,     \* what a call has told: the show and a number for each key
    outcome   \* how each call stands: "busy", "ok", "error", "cancelled"

answersVars == <<wants, book, told, outcome>>

\* A key of a show has one answer.
Single(b) == \A p, q \in b : p[1] = q[1] /\ p[2] = q[2] => p[3] = q[3]

Fresh ==
    /\ book = {}
    /\ told = [c \in Calls |-> None]
    /\ outcome = [c \in Calls |-> "busy"]

Learn == book \subseteq book' /\ Single(book')

Wait == UNCHANGED <<told, outcome>>

\* ValidateSeriesResult: the show asked for, and every key once.
Answer(c) ==
    /\ outcome[c] = "busy"
    /\ \E show \in Shows : \E ids \in [DOMAIN wants[c].keys -> Ids] :
         /\ wants[c].of \in {show, None}
         /\ \A n \in DOMAIN ids : <<show, wants[c].keys[n], ids[n]>> \in book'
         /\ told' = [told EXCEPT ![c] = [show |-> show, ids |-> ids]]
    /\ outcome' = [outcome EXCEPT ![c] = "ok"]

Refuse(c) ==
    /\ outcome[c] = "busy"
    /\ \E how \in {"error", "cancelled"} : outcome' = [outcome EXCEPT ![c] = how]
    /\ UNCHANGED told

AnswersNext ==
    /\ Learn /\ UNCHANGED wants
    /\ Wait \/ \E c \in Calls : Answer(c) \/ Refuse(c)

AnswersSpec == Fresh /\ [][AnswersNext]_answersVars

----------------------------------------------------------------------------

\* No two calls of a source ever tell different numbers for one episode of one
\* show, whenever they were made.
NoContradiction ==
    \A c, d \in Calls :
        told[c] # None /\ told[d] # None /\ told[c].show = told[d].show =>
            \A m \in DOMAIN wants[c].keys, n \in DOMAIN wants[d].keys :
                wants[c].keys[m] = wants[d].keys[n] => told[c].ids[m] = told[d].ids[n]
=============================================================================
