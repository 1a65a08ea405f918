---------------------------- MODULE SourceChoice ----------------------------
(***************************************************************************)
(* What metadata.Manager.Resolve promises for one work, whatever happens   *)
(* inside a source: the configured sources are taken in order, each is     *)
(* used at most once, and the verdict is one of                            *)
(*   option       a source delivered the complete facts of a work,         *)
(*   mismatch     the source a person named did not succeed,               *)
(*   unsupported  no configured source can serve the named one,            *)
(*   exhausted    every applicable source failed (ErrSourcesExhausted),    *)
(*   cancelled    the context had ended,                                   *)
(*   invalid      the request is malformed.                                *)
(* Once the context has ended no source is used, passed over or blamed any *)
(* more.                                                                   *)
(* Manager refines this module; Collector consumes its verdicts.           *)
(***************************************************************************)
EXTENDS Metadata

VARIABLES
    kind,     \* kind of the work asked for
    named,    \* the source a person named, or NoSource
    cancelled,\* the context of the call has ended
    turn,     \* position in Order of the source being tried
    verdict,
    runs      \* how often the work has been asked for

choiceVars == <<kind, named, cancelled, turn, verdict, runs>>

Start ==
    /\ kind \in Kinds
    /\ named \in Sources \cup {NoSource}
    /\ cancelled = FALSE
    /\ turn = 1
    /\ verdict = Without("pending")
    /\ runs = 1

Trying == verdict.kind = "pending" /\ turn <= Len(Order) /\ ~cancelled

\* The source in turn does not apply, or failed and nobody named it.
PassOver ==
    /\ Trying
    /\ Applicable(Order[turn], kind, named) => named = NoSource
    /\ turn' = turn + 1
    /\ UNCHANGED <<kind, named, cancelled, verdict, runs>>

\* The source in turn delivered everything that was asked of it.
Deliver ==
    /\ Trying
    /\ Applicable(Order[turn], kind, named)
    /\ \E w \in Works : verdict' = OptionOf(Order[turn], w)
    /\ UNCHANGED <<kind, named, cancelled, turn, runs>>

\* The source a person named failed: no other source takes its place.
Refuse ==
    /\ Trying
    /\ named # NoSource
    /\ Applicable(Order[turn], kind, named)
    /\ verdict' = Without("mismatch")
    /\ UNCHANGED <<kind, named, cancelled, turn, runs>>

\* Every source was passed over. A context that ends behind the last of them
\* is not looked at any more.
RunOut ==
    /\ verdict.kind = "pending"
    /\ turn > Len(Order)
    /\ verdict' = Without(IF named = NoSource THEN "exhausted" ELSE "unsupported")
    /\ UNCHANGED <<kind, named, cancelled, turn, runs>>

\* The request is malformed.
Reject ==
    /\ verdict.kind = "pending" /\ ~cancelled
    /\ verdict' = Without("invalid")
    /\ UNCHANGED <<kind, named, cancelled, turn, runs>>

\* The context ends, and with it, in a step of its own, the call.
EndContext ==
    /\ verdict.kind = "pending" /\ ~cancelled
    /\ cancelled' = TRUE
    /\ UNCHANGED <<kind, named, turn, verdict, runs>>

Interrupt ==
    /\ verdict.kind = "pending" /\ cancelled
    /\ verdict' = Without("cancelled")
    /\ UNCHANGED <<kind, named, cancelled, turn, runs>>

\* Another run of the program asks again for the same work. What a person
\* wrote about it may have changed in between.
AskAgain ==
    /\ kind' = kind
    /\ named' \in Sources \cup {NoSource}
    /\ cancelled' = FALSE
    /\ turn' = 1
    /\ verdict' = Without("pending")
    /\ runs' = runs + 1

ChoiceNext == PassOver \/ Deliver \/ Refuse \/ RunOut \/ Reject \/ EndContext \/ Interrupt \/ AskAgain

ChoiceSpec == Start /\ [][ChoiceNext]_choiceVars
=============================================================================
