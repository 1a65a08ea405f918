----------------------------- MODULE RequestPace -----------------------------
(***************************************************************************)
(* waitRequest and request of thetvdb/provider.go: every request takes the *)
(* next slot before it waits, and is sent some time after its slot. The    *)
(* client follows redirects by itself. Time stands for the clock of        *)
(* time.Now; any delay may come between two steps. Names are its own, so   *)
(* that it can be extended beside SeriesPages.                             *)
(***************************************************************************)
EXTENDS Naturals, Sequences, FiniteSets

CONSTANTS
    Requests,   \* uses of request, by whatever caller
    Interval,   \* request_interval_ms
    MaxVia,     \* requests a redirect may follow on (10)
    MaxTime,    \* bound of the clock in a check
    NoSlot

ASSUME PaceAssumption ==
    Interval \in Nat \ {0} /\ MaxVia \in Nat \ {0} /\ MaxTime \in Nat /\ NoSlot \notin Nat

VARIABLES
    now,
    nextRequest,    \* the first slot still free, unless it has passed
    slot,           \* slot[r]: the time r may be sent from
    phase, dropped,   \* of each request, and its context
    hits            \* hits[r]: when the website was asked on behalf of r

paceVars == <<now, nextRequest, slot, phase, dropped, hits>>

PaceTypeOK ==
    /\ now \in 0..MaxTime /\ nextRequest \in Nat
    /\ slot \in [Requests -> Nat \cup {NoSlot}]
    /\ phase \in [Requests -> {"new", "waiting", "ready", "sent", "over"}]
    /\ dropped \in [Requests -> BOOLEAN]
    /\ hits \in [Requests -> Seq(0..MaxTime)]
    /\ \A r \in Requests : Len(hits[r]) <= MaxVia

PaceInit ==
    /\ now = 0 /\ nextRequest = 0
    /\ slot = [r \in Requests |-> NoSlot]
    /\ phase = [r \in Requests |-> "new"]
    /\ dropped = [r \in Requests |-> FALSE]
    /\ hits = [r \in Requests |-> <<>>]

Becomes(r, next) == phase' = [phase EXCEPT ![r] = next]

Tick ==
    /\ now < MaxTime
    /\ now' = now + 1
    /\ UNCHANGED <<nextRequest, slot, phase, dropped, hits>>

\* The address is not of the website, or the context has ended already.
Refuse(r) ==
    /\ phase[r] = "new"
    /\ Becomes(r, "over")
    /\ UNCHANGED <<now, nextRequest, slot, dropped, hits>>

\* Mutant: the slot moves on by one interval from now, whoever waits.
FromNow(due) == now + Interval
SlotAfter(due) == due + Interval

\* Under rateMu.
TakeSlot(r) ==
    LET due == IF nextRequest > now THEN nextRequest ELSE now
    IN /\ phase[r] = "new" /\ ~dropped[r]
       /\ slot' = [slot EXCEPT ![r] = due]
       /\ nextRequest' = SlotAfter(due)
       /\ Becomes(r, IF due = now THEN "ready" ELSE "waiting")
       /\ UNCHANGED <<now, dropped, hits>>

Wake(r) ==
    /\ phase[r] = "waiting" /\ slot[r] <= now
    /\ Becomes(r, "ready")
    /\ UNCHANGED <<now, nextRequest, slot, dropped, hits>>

\* The slot of a request that gives up is not handed back.
GiveUp(r) ==
    /\ phase[r] \in {"waiting", "ready"} /\ dropped[r]
    /\ Becomes(r, "over")
    /\ UNCHANGED <<now, nextRequest, slot, dropped, hits>>

Hit(r) == hits' = [hits EXCEPT ![r] = Append(@, now)]

Send(r) ==
    /\ phase[r] = "ready"
    /\ Hit(r) /\ Becomes(r, "sent")
    /\ UNCHANGED <<now, nextRequest, slot, dropped>>

MayFollow(n) == n < MaxVia

\* CheckRedirect; a redirect off the website ends the request.
Redirect(r) ==
    /\ phase[r] = "sent" /\ MayFollow(Len(hits[r]))
    /\ Hit(r)
    /\ UNCHANGED <<now, nextRequest, slot, phase, dropped>>

\* An answer, or an error.
Done(r) ==
    /\ phase[r] = "sent"
    /\ Becomes(r, "over")
    /\ UNCHANGED <<now, nextRequest, slot, dropped, hits>>

Drop(r) ==
    /\ phase[r] # "over" /\ ~dropped[r]
    /\ dropped' = [dropped EXCEPT ![r] = TRUE]
    /\ UNCHANGED <<now, nextRequest, slot, phase, hits>>

PaceNext ==
    \/ Tick
    \/ \E r \in Requests :
         \/ Refuse(r) \/ TakeSlot(r) \/ Wake(r) \/ GiveUp(r) \/ Send(r)
         \/ Redirect(r) \/ Done(r) \/ Drop(r)

PaceSpec == PaceInit /\ [][PaceNext]_paceVars

----------------------------------------------------------------------------

\* By any time no more requests have been made than slots have passed, in
\* whatever order they came, waited, were held up or gave up (153-176).
AttemptsPaced ==
    Cardinality({r \in Requests : hits[r] # <<>>}) <= (now \div Interval) + 1

\* Request_interval_ms is "the minimum interval between two web page requests"
\* (config/struct.go:64). It is not: the client follows a redirect at once, and
\* an address by number, /dereferrer/series/<n>, is always redirected.
MinimumInterval ==
    \A r, s \in Requests : \A m \in DOMAIN hits[r], n \in DOMAIN hits[s] :
        <<r, m>> # <<s, n>> =>
            hits[r][m] + Interval <= hits[s][n] \/ hits[s][n] + Interval <= hits[r][m]
=============================================================================
