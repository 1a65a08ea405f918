----------------------------- MODULE SeriesPages -----------------------------
(***************************************************************************)
(* FetchSeries of thetvdb/series.go: calls of one provider that share the  *)
(* pages they load. Who first asks for a page fetches it; who comes later  *)
(* waits for it or finds it ready; a page that failed is taken out again.  *)
(* A show page is also filed under the other addresses of its show.        *)
(***************************************************************************)
EXTENDS Naturals, Sequences, Functions

CONSTANTS
    Calls,      \* calls of FetchSeries
    Shows,      \* shows, by their numbers
    Slugs,
    SlugOf,     \* the slug in the address of a show's page
    Episodes,   \* coordinates
    SeasonOf,
    Ids,        \* numbers of episodes at the website
    Listings,   \* what a page of all seasons or of one may list
    Loads,      \* what the calls may ask for together
    None

Seasons == {SeasonOf[e] : e \in Episodes}
Locators == Shows \cup Slugs
Keys ==
    ({"show"} \X Locators \X {None}) \cup ({"all"} \X Shows \X {None})
        \cup ({"season"} \X Shows \X Seasons) \cup ({"detail"} \X Shows \X Ids)
Pages == Calls \X Keys

Request == [at : Locators, keys : Seq(Episodes), details : BOOLEAN]

ASSUME NamesAssumption ==
    Shows \cap Slugs = {} /\ None \notin Pages \cup Shows \cup Ids \cup Seasons
ASSUME SiteAssumption ==
    /\ SlugOf \in [Shows -> Slugs] /\ SeasonOf \in [Episodes -> Seasons]
    /\ \A s, t \in Shows : SlugOf[s] = SlugOf[t] => s = t
    /\ Listings \subseteq SUBSET (Episodes \X Ids)
ASSUME RequestsAssumption ==
    Loads \subseteq [Calls -> Request] /\ \A r \in Loads : \A c \in Calls : r[c].keys # <<>>

VARIABLES
    request,    \* what each call asks for
    made,       \* made[c][k]: the page call c made for key k
    stored,     \* seriesPages: the page filed under a key
    stage, mode, \* where a call is: which kind of page, and how it gets it
    key, on,    \* the key it loads and the page it waits for
    show,       \* the show its show page is about
    entry,      \* the number of each wanted episode
    left,       \* seasons still to load
    rows,       \* the rows of the seasons loaded
    turn,       \* the wanted episode at hand
    ended,      \* calls whose context has ended
    outcome     \* "busy", "ok", "error" or "cancelled"

local == <<show, entry, left, rows, turn>>
vars == <<request, made, stored, stage, mode, key, on, local, ended, outcome>>

Facts == Shows \cup Listings \cup {None}
Page == [state : {"absent", "fetching", "ok", "error", "cancelled"}, facts : Facts]
Absent == [state |-> "absent", facts |-> None]

TypeOK ==
    /\ request \in Loads
    /\ made \in [Calls -> [Keys -> Page]]
    /\ stored \in [Keys -> Pages \cup {None}]
    /\ stage \in [Calls -> {"show", "alias", "all", "season", "detail", "over"}]
    /\ mode \in [Calls -> {"enter", "fetch", "wait"}]
    /\ key \in [Calls -> Keys \cup {None}] /\ on \in [Calls -> Pages \cup {None}]
    /\ show \in [Calls -> Shows \cup {None}]
    /\ entry \in [Calls -> [Episodes -> Ids \cup {None}]]
    /\ left \in [Calls -> SUBSET Seasons]
    /\ rows \in [Calls -> SUBSET (Episodes \X Ids)]
    /\ turn \in [Calls -> Nat] /\ ended \in [Calls -> BOOLEAN]
    /\ outcome \in [Calls -> {"busy", "ok", "error", "cancelled"}]

----------------------------------------------------------------------------

Init ==
    /\ request \in Loads
    /\ made = [c \in Calls |-> [k \in Keys |-> Absent]]
    /\ stored = [k \in Keys |-> None]
    /\ stage = [c \in Calls |-> "show"] /\ mode = [c \in Calls |-> "enter"]
    /\ key = [c \in Calls |-> None] /\ on = [c \in Calls |-> None]
    /\ show = [c \in Calls |-> None]
    /\ entry = [c \in Calls |-> [e \in Episodes |-> None]]
    /\ left = [c \in Calls |-> {}] /\ rows = [c \in Calls |-> {}]
    /\ turn = [c \in Calls |-> 1] /\ ended = [c \in Calls |-> FALSE]
    /\ outcome = [c \in Calls |-> "busy"]

Wanted(c) == Range(request[c].keys)

\* The keys a call may load next. Seasons come in any order, as a map is
\* ranged over.
NextKeys(c) ==
    CASE stage[c] = "show" -> {<<"show", request[c].at, None>>}
      [] stage[c] = "all" -> {<<"all", show[c], None>>}
      [] stage[c] = "season" -> {<<"season", show[c], s>> : s \in left[c]}
      [] stage[c] = "detail" -> {<<"detail", show[c], entry[c][request[c].keys[turn[c]]]>>}
      [] OTHER -> {}

Go(c, next) ==
    /\ stage' = [stage EXCEPT ![c] = next]
    /\ mode' = [mode EXCEPT ![c] = "enter"]
    /\ UNCHANGED outcome

End(c, how) ==
    /\ stage' = [stage EXCEPT ![c] = "over"]
    /\ mode' = [mode EXCEPT ![c] = "enter"]
    /\ outcome' = [outcome EXCEPT ![c] = how]

\* loadSeriesPage, before the lock is taken.
TurnBack(c) ==
    /\ mode[c] = "enter" /\ NextKeys(c) # {} /\ ended[c]
    /\ End(c, "cancelled")
    /\ UNCHANGED <<request, made, stored, key, on, local, ended>>

\* Mutant: a page on its way is taken for missing.
NotHere(k) == stored[k] # None => made[stored[k][1]][stored[k][2]].state = "fetching"
Vacant(k) == stored[k] = None

\* Nobody has asked for this page: the call is the one to fetch it.
Lead(c) ==
    /\ mode[c] = "enter" /\ ~ended[c]
    /\ \E k \in NextKeys(c) :
         /\ Vacant(k)
         /\ made' = [made EXCEPT ![c][k] = [state |-> "fetching", facts |-> None]]
         /\ stored' = [stored EXCEPT ![k] = <<c, k>>]
         /\ key' = [key EXCEPT ![c] = k]
    /\ mode' = [mode EXCEPT ![c] = "fetch"]
    /\ UNCHANGED <<request, stage, on, local, ended, outcome>>

\* The page is there, ready or on its way.
Follow(c) ==
    /\ mode[c] = "enter" /\ ~ended[c]
    /\ \E k \in NextKeys(c) :
         /\ ~Vacant(k)
         /\ key' = [key EXCEPT ![c] = k]
         /\ on' = [on EXCEPT ![c] = stored[k]]
    /\ mode' = [mode EXCEPT ![c] = "wait"]
    /\ UNCHANGED <<request, made, stored, stage, local, ended, outcome>>

----------------------------------------------------------------------------

\* What parseShow and the other parsers let through: a page asked for by number
\* is about that show; no number stands twice in a list, no coordinate twice in
\* a season.
EachOnce(list) == \A p, q \in list : p[2] = q[2] => p = q
ListingsOf(season) ==
    {f \in Listings : /\ f # {} /\ EachOnce(f)
                      /\ \A p, q \in f : SeasonOf[p[1]] = season /\ (p[1] = q[1] => p = q)}

ShowsAt(at) == IF at \in Shows THEN {at} ELSE Shows

Readable(k) ==
    CASE k[1] = "show" -> ShowsAt(k[2])
      [] k[1] = "all" -> {f \in Listings : f # {} /\ EachOnce(f)}
      [] k[1] = "season" -> ListingsOf(k[3])
      [] k[1] = "detail" -> {None}

\* ValidateSeriesResult.
Valid(c) == request[c].at \in Shows => show[c] = request[c].at
\* Mutant: the coordinates of a row are not compared.
Mentioned(c, n, rs) == \E p \in rs : p[2] = entry[c][request[c].keys[n]]
Fits(c, n, rs) == LET e == request[c].keys[n] IN <<e, entry[c][e]>> \in rs

\* On to the nth wanted episode: its row must fit, its details may be wanted.
Serve(c, n, rs) ==
    LET keys == request[c].keys
        all == \A m \in n..Len(keys) : Fits(c, m, rs)
    IN IF n <= Len(keys) /\ request[c].details /\ Fits(c, n, rs)
         THEN Go(c, "detail") /\ turn' = [turn EXCEPT ![c] = n]
         ELSE /\ End(c, IF all /\ Valid(c) THEN "ok" ELSE "error")
              /\ UNCHANGED turn

\* What FetchSeries does with a page of each kind.
HaveShow(c, f) ==
    /\ stage[c] = "show"
    /\ show' = [show EXCEPT ![c] = f]
    /\ Go(c, "alias")
    /\ UNCHANGED <<entry, left, rows, turn>>

Numbers(f, e) == {i \in Ids : <<e, i>> \in f}

HaveAll(c, f) ==
    /\ stage[c] = "all"
    /\ IF \A e \in Wanted(c) : \E i \in Ids : Numbers(f, e) = {i}
         THEN /\ entry' = [entry EXCEPT ![c] =
                    [e \in Episodes |-> IF e \in Wanted(c)
                        THEN CHOOSE i \in Ids : Numbers(f, e) = {i} ELSE None]]
              /\ left' = [left EXCEPT ![c] = {SeasonOf[e] : e \in Wanted(c)}]
              /\ Go(c, "season")
         ELSE End(c, "error") /\ UNCHANGED <<entry, left>>
    /\ UNCHANGED <<show, rows, turn>>

\* A number that stands in two seasons counts where it was read last.
HaveSeason(c, f) ==
    LET others == left[c] \ {key[c][3]}
        known == f \cup {p \in rows[c] : \A q \in f : p[2] # q[2]}
    IN /\ stage[c] = "season"
       /\ left' = [left EXCEPT ![c] = others]
       /\ rows' = [rows EXCEPT ![c] = known]
       /\ IF others # {} THEN Go(c, "season") /\ UNCHANGED turn ELSE Serve(c, 1, known)
       /\ UNCHANGED <<show, entry>>

HaveDetail(c) ==
    /\ stage[c] = "detail"
    /\ Serve(c, turn[c] + 1, rows[c])
    /\ UNCHANGED <<show, entry, left, rows>>

Have(c, f) == HaveShow(c, f) \/ HaveAll(c, f) \/ HaveSeason(c, f) \/ HaveDetail(c)

----------------------------------------------------------------------------

\* The page has come; all who wait for it are let go.
Publish(c) ==
    /\ mode[c] = "fetch"
    /\ \E f \in Readable(key[c]) :
         /\ made' = [made EXCEPT ![c][key[c]] = [state |-> "ok", facts |-> f]]
         /\ Have(c, f)
    /\ UNCHANGED <<request, stored, key, on, ended>>

\* Mutant: a page that failed stays where it is.
KeepFailed(k) == stored
Withdrawn(k) == [stored EXCEPT ![k] = None]

\* Mutant: every error looks like a cancellation.
AnyError(c) == {"error", "cancelled"}
\* The context's own error can be met only once it has ended.
ErrorsOf(c) == {"error"} \cup {how \in {"cancelled"} : ended[c]}

\* Mutant: those who wait for a page that failed are not let go.
StillAwaited(how) == [state |-> "fetching", facts |-> None]
Failed(how) == [state |-> how, facts |-> None]

\* The request fails, or the page is refused.
FetchFails(c) ==
    /\ mode[c] = "fetch"
    /\ \E how \in ErrorsOf(c) :
         /\ made' = [made EXCEPT ![c][key[c]] = Failed(how)]
         /\ End(c, how)
    /\ stored' = Withdrawn(key[c])
    /\ UNCHANGED <<request, key, on, local, ended>>

Awaited(c) == made[on[c][1]][on[c][2]]

Receive(c) ==
    /\ mode[c] = "wait" /\ Awaited(c).state = "ok"
    /\ Have(c, Awaited(c).facts)
    /\ UNCHANGED <<request, made, stored, key, on, ended>>

\* The error of the call that fetched, its context's included.
ReceiveError(c) ==
    /\ mode[c] = "wait" /\ Awaited(c).state \in {"error", "cancelled"}
    /\ End(c, Awaited(c).state)
    /\ UNCHANGED <<request, made, stored, key, on, local, ended>>

StopWaiting(c) ==
    /\ mode[c] = "wait" /\ ended[c]
    /\ End(c, "cancelled")
    /\ UNCHANGED <<request, made, stored, key, on, local, ended>>

\* Mutant: the page replaces what is filed under its show's addresses.
AnyAlias(k) == TRUE
FreeAlias(k) == stored[k] = None

\* cacheShowAliases: the page just received, under the addresses of its show.
FileAliases(c) ==
    LET mine == <<"show", request[c].at, None>>
        aliases == {<<"show", show[c], None>>, <<"show", SlugOf[show[c]], None>>}
    IN /\ stage[c] = "alias"
       /\ stored' = IF stored[mine] = None THEN stored
                    ELSE [k \in Keys |-> IF k \in aliases /\ FreeAlias(k)
                                           THEN stored[mine] ELSE stored[k]]
       /\ Go(c, "all")
       /\ UNCHANGED <<request, made, key, on, local, ended>>

EndContext(c) ==
    /\ outcome[c] = "busy" /\ ~ended[c]
    /\ ended' = [ended EXCEPT ![c] = TRUE]
    /\ UNCHANGED <<request, made, stored, stage, mode, key, on, local, outcome>>

Step(c) ==
    \/ TurnBack(c) \/ Lead(c) \/ Follow(c) \/ Publish(c) \/ FetchFails(c)
    \/ Receive(c) \/ ReceiveError(c) \/ StopWaiting(c) \/ FileAliases(c)

Next == \E c \in Calls : Step(c) \/ EndContext(c)

Spec == Init /\ [][Next]_vars /\ \A c \in Calls : WF_vars(Step(c))

----------------------------------------------------------------------------

\* A page is fetched by one call at a time, and never again once it has come:
\* the website gets each request once, however many calls there are and
\* whatever order they come in (loadSeriesPage 160-181).
FetchedOnce ==
    \A k \in Keys : \A c, d \in Calls :
        {made[c][k].state, made[d][k].state} \subseteq {"fetching", "ok"} => c = d

\* What is filed is on its way or has come, and what stands under the number of
\* a show is about that show, also where cacheShowAliases put it. A failed page
\* is therefore never what a later call finds.
StoreTrue ==
    \A k \in Keys : stored[k] # None =>
        LET page == made[stored[k][1]][stored[k][2]]
        IN /\ page.state \in {"fetching", "ok"}
           /\ k[1] = "show" /\ k[2] \in Shows /\ page.state = "ok" => page.facts = k[2]

\* What a call that succeeded tells about an episode stands both on the list of
\* its show and on the list of its season, on the pages all other calls use too:
\* rows of several seasons, read in any order, do not vouch for each other
\* (FetchSeries 103-126).
Confirmed ==
    \A c \in Calls : outcome[c] = "ok" =>
        \A e \in Wanted(c) :
            \A k \in {<<"all", show[c], None>>, <<"season", show[c], SeasonOf[e]>>} :
                /\ stored[k] # None
                /\ <<e, entry[c][e]>> \in made[stored[k][1]][stored[k][2]].facts

\* A call is told "cancelled" only when its own context has ended or that of the
\* call whose page it waited for (160-167): a neighbour that merely shared
\* another page has no say.
CancelHasCause ==
    \A c \in Calls : outcome[c] = "cancelled" =>
        ended[c] \/ (on[c] # None /\ on[c][2] = key[c] /\ ended[on[c][1]])

----------------------------------------------------------------------------

\* The page filed under a key has come and lists this.
Lists(k, p) ==
    /\ stored[k] # None /\ made[stored[k][1]][stored[k][2]].state = "ok"
    /\ p \in made[stored[k][1]][stored[k][2]].facts

\* Seen by their callers, the calls read one book: what the list of a show and
\* that of the season both say. A slug names no show before its page is read.
Named(at) == IF at \in Shows THEN at ELSE None
Wants == [c \in Calls |-> [of |-> Named(request[c].at), keys |-> request[c].keys]]
Book ==
    {row \in Shows \X Episodes \X Ids :
        \A k \in {<<"all", row[1], None>>, <<"season", row[1], SeasonOf[row[2]]>>} :
            Lists(k, <<row[2], row[3]>>)}
Told ==
    [c \in Calls |-> IF outcome[c] # "ok" THEN None
        ELSE [show |-> show[c],
              ids |-> [n \in DOMAIN request[c].keys |-> entry[c][request[c].keys[n]]]]]
Seen == INSTANCE SeriesAnswers WITH wants <- Wants, book <- Book, told <- Told
ImplementsAnswers == Seen!AnswersSpec

\* Every call is answered: whoever waits for a page is let go, also when the
\* call that fetches it fails or is cancelled.
CallsEnd == \A c \in Calls : <>(outcome[c] # "busy")
=============================================================================
