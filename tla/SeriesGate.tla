------------------------------ MODULE SeriesGate ------------------------------
(***************************************************************************)
(* FetchSeries of tmdb/provider_batch.go: calls that pass one gate, one at *)
(* a time, and leave what they learn about a show to the next: its own     *)
(* record, its season lists, the details of episodes and its episode       *)
(* groups. Pieces are asked for in batches beside the record of the show.  *)
(***************************************************************************)
EXTENDS Naturals, Sequences, FiniteSets, Functions

CONSTANTS
    Calls, Shows,
    Episodes,         \* coordinates, of the source or of a group
    SeasonOf,
    Ids,              \* numbers of episodes at the website
    Groups,           \* episode groups: other orders of the same episodes
    MainPaths,        \* the pieces every show record is asked for with
    Extensions,       \* the pieces with the details of an episode
    MaxAppendedPaths, \* pieces in one request (20)
    SeasonPages,      \* what a season list may read
    GroupPages,       \* what a group may read: members by group coordinate
    Loads,            \* what the calls may ask for together
    Opaque,           \* a piece whose content nothing depends on
    None

Seasons == {SeasonOf[e] : e \in Episodes}
SeasonPath(e) == <<"season", SeasonOf[e]>>
DetailPath(e, x) == <<"detail", e, Extensions[x]>>
Paths ==
    Range(MainPaths) \cup {SeasonPath(e) : e \in Episodes}
        \cup {DetailPath(e, x) : e \in Episodes, x \in DOMAIN Extensions}

Keys == [group : Groups \cup {None}, at : Episodes]
Request == [of : Shows, keys : Seq(Keys), details : BOOLEAN]
SeasonPage == [season : Seasons, rows : SUBSET (Episodes \X (Ids \cup {None}))]
Member == [episode : Episodes, id : Ids]
GroupPage == UNION {[D -> Member] : D \in SUBSET Episodes}

ASSUME NamesAssumption ==
    /\ None \notin Ids \cup Groups \cup Calls \cup Seasons
    /\ None \notin GroupPages /\ \A P \in SUBSET Paths : P # None
\* The pieces of a record are four names, which are neither seasons nor details
\* and fit into one request (114); an episode has three more (160).
ASSUME BatchAssumption ==
    /\ MaxAppendedPaths \in Nat \ {0}
    /\ MainPaths \in Seq(Range(MainPaths)) /\ MainPaths # <<>> /\ Len(MainPaths) <= MaxAppendedPaths
    /\ \A m, n \in DOMAIN MainPaths : MainPaths[m] = MainPaths[n] => m = n
    /\ \A n \in DOMAIN MainPaths : MainPaths[n][1] \notin {"season", "detail"}
    /\ Extensions \in Seq(Range(Extensions))
ASSUME PagesAssumption ==
    /\ SeasonOf \in [Episodes -> Seasons]
    /\ SeasonPages \subseteq SeasonPage /\ GroupPages \subseteq GroupPage
ASSUME LoadsAssumption ==
    Loads \subseteq [Calls -> Request] /\ \A r \in Loads : \A c \in Calls : r[c].keys # <<>>

VARIABLES
    request, stage, ended, outcome, \* of each call
    gate,       \* the call inside, or None
    record,     \* seriesShows.show: the pieces the show record was read with
    cached,     \* seriesShows.paths: pieces confirmed so far
    groups,     \* seriesGroups
    source,     \* where each wanted key stands at the website
    todo,       \* pieces still to ask for
    answer,     \* the number a call tells for each key
    arrived     \* how often a piece has been received

own == <<source, todo, answer>>
shared == <<record, cached, groups, arrived>>
vars == <<request, stage, ended, outcome, gate, shared, own>>

Piece == SeasonPages \cup {Opaque}
Source == [episode : Episodes, id : Ids \cup {None}]

TypeOK ==
    /\ request \in Loads
    /\ stage \in [Calls -> {"gate", "keys", "seasons", "details", "over"}]
    /\ ended \in [Calls -> BOOLEAN]
    /\ outcome \in [Calls -> {"busy", "ok", "error", "cancelled"}]
    /\ gate \in Calls \cup {None}
    /\ record \in [Shows -> {None} \cup SUBSET Paths]
    /\ cached = [s \in Shows |-> cached[s]]
    /\ \A s \in Shows :
         DOMAIN cached[s] \subseteq Paths /\ cached[s] \in [DOMAIN cached[s] -> Piece]
    /\ groups \in [Shows -> [Groups -> GroupPages \cup {None}]]
    /\ source \in [Calls -> Seq(Source)] /\ todo \in [Calls -> Seq(Paths)]
    /\ answer \in [Calls -> Seq(Ids)]
    /\ \A c \in Calls : Len(source[c]) <= Len(request[c].keys)
    /\ arrived \in [Shows -> [Paths -> Nat]]

----------------------------------------------------------------------------

Init ==
    /\ request \in Loads
    /\ stage = [c \in Calls |-> "gate"] /\ ended = [c \in Calls |-> FALSE]
    /\ outcome = [c \in Calls |-> "busy"] /\ gate = None
    /\ record = [s \in Shows |-> None] /\ cached = [s \in Shows |-> <<>>]
    /\ groups = [s \in Shows |-> [g \in Groups |-> None]]
    /\ source = [c \in Calls |-> <<>>] /\ todo = [c \in Calls |-> <<>>]
    /\ answer = [c \in Calls |-> <<>>]
    /\ arrived = [s \in Shows |-> [p \in Paths |-> 0]]

Keyed(c) == request[c].keys
Of(c) == request[c].of

\* Mutant: an error path keeps the gate.
KeepGate(how) == IF how = "ok" THEN None ELSE gate
GateAfter(how) == None

Return(c, how) ==
    /\ stage' = [stage EXCEPT ![c] = "over"]
    /\ outcome' = [outcome EXCEPT ![c] = how]
    /\ gate' = GateAfter(how)

\* Mutant: the gate lets everybody in.
AlwaysOpen == TRUE
Open == gate = None

Enter(c) ==
    /\ stage[c] = "gate" /\ Open /\ ~ended[c]
    /\ gate' = c
    /\ stage' = [stage EXCEPT ![c] = "keys"]
    /\ UNCHANGED <<request, ended, outcome, shared, own>>

\* The context ends before the gate opens, or is found ended behind it.
TurnAway(c) ==
    /\ stage[c] = "gate" /\ ended[c]
    /\ stage' = [stage EXCEPT ![c] = "over"]
    /\ outcome' = [outcome EXCEPT ![c] = "cancelled"]
    /\ UNCHANGED <<request, ended, gate, shared, own>>

\* Any request may fail, be refused, or be cut off by the end of the context.
ErrorsOf(c) == {"error"} \cup {how \in {"cancelled"} : ended[c]}
Fails(c) == \E how \in ErrorsOf(c) : Return(c, how)

----------------------------------------------------------------------------

At(c) == Keyed(c)[Len(source[c]) + 1]
InKeys(c) == stage[c] = "keys" /\ Len(source[c]) < Len(Keyed(c))
GroupKnown(c) == groups[Of(c)][At(c).group] # None

\* The key stands where it says, or where its group has it.
PlaceKey(c) ==
    /\ InKeys(c)
    /\ \/ /\ At(c).group = None
          /\ source' = [source EXCEPT ![c] = Append(@, [episode |-> At(c).at, id |-> None])]
          /\ UNCHANGED <<stage, outcome, gate>>
       \/ /\ At(c).group # None /\ GroupKnown(c)
          /\ LET members == groups[Of(c)][At(c).group]
             IN IF At(c).at \in DOMAIN members
                  THEN /\ source' = [source EXCEPT ![c] = Append(@, members[At(c).at])]
                       /\ UNCHANGED <<stage, outcome, gate>>
                  ELSE Return(c, "error") /\ UNCHANGED source
    /\ UNCHANGED <<request, ended, shared, todo, answer>>

\* fetchGroup, for a group no call has read yet.
ReadGroup(c) ==
    /\ InKeys(c) /\ At(c).group # None /\ ~GroupKnown(c)
    /\ \/ /\ \E page \in GroupPages :
               groups' = [groups EXCEPT ![Of(c)][At(c).group] = page]
          /\ UNCHANGED <<stage, outcome, gate>>
       \/ Fails(c) /\ UNCHANGED groups
    /\ UNCHANGED <<request, ended, record, cached, arrived, own>>

\* Those of the paths that are not at hand, each once, in the order they come.
Firsts(c, paths) ==
    {n \in DOMAIN paths : paths[n] \notin DOMAIN cached[Of(c)]
                            /\ \A m \in 1..(n - 1) : paths[m] # paths[n]}
Rank(S, n) == Cardinality({m \in S : m <= n})
Nth(S, k) == CHOOSE n \in S : Rank(S, n) = k
Missing(c, paths) ==
    [k \in 1..Cardinality(Firsts(c, paths)) |-> paths[Nth(Firsts(c, paths), k)]]

SeasonPaths(c) == [n \in DOMAIN source[c] |-> SeasonPath(source[c][n].episode)]
\* Every wanted episode with every extension, episode by episode.
AllDetailPaths(c) ==
    LET w == Len(Extensions)
    IN [n \in 1..(Len(source[c]) * w) |->
          DetailPath(source[c][((n - 1) \div w) + 1].episode, ((n - 1) % w) + 1)]

\* Mutant: the seasons come before the pieces of the record.
MainLast(c, seasons) == seasons \o (IF record[Of(c)] = None THEN MainPaths ELSE <<>>)
FirstPaths(c, seasons) == (IF record[Of(c)] = None THEN MainPaths ELSE <<>>) \o seasons

PlanSeasons(c) ==
    /\ stage[c] = "keys" /\ Len(source[c]) = Len(Keyed(c))
    /\ todo' = [todo EXCEPT ![c] = FirstPaths(c, Missing(c, SeasonPaths(c)))]
    /\ stage' = [stage EXCEPT ![c] = "seasons"]
    /\ UNCHANGED <<request, ended, outcome, gate, shared, source, answer>>

----------------------------------------------------------------------------

Batch(c) == SubSeq(todo[c], 1, IF Len(todo[c]) < MaxAppendedPaths THEN Len(todo[c])
                               ELSE MaxAppendedPaths)

\* What validAppendedObject lets through. The number a season list bears, its
\* rows included, is looked at only when an episode is sought.
Objects(p) == IF p[1] = "season" THEN SeasonPages ELSE {Opaque}

\* requestSeriesPaths, one batch: all pieces are confirmed before one is kept.
Receive(c) ==
    LET s == Of(c) batch == Batch(c)
    IN /\ stage[c] \in {"seasons", "details"} /\ todo[c] # <<>>
       /\ \/ /\ \E got \in [Range(batch) -> UNION {Objects(p) : p \in Range(batch)}] :
                  /\ \A p \in Range(batch) : got[p] \in Objects(p)
                  /\ cached' = [cached EXCEPT ![s] =
                       [p \in Range(batch) \cup DOMAIN @ |-> IF p \in Range(batch) THEN got[p] ELSE @[p]]]
             /\ record' = [record EXCEPT ![s] = IF @ = None THEN Range(batch) ELSE @]
             /\ arrived' = [arrived EXCEPT ![s] =
                  [p \in Paths |-> IF p \in Range(batch) THEN @[p] + 1 ELSE @[p]]]
             /\ todo' = [todo EXCEPT ![c] = SubSeq(@, Len(batch) + 1, Len(@))]
             /\ UNCHANGED <<stage, outcome, gate>>
          \/ /\ Fails(c)
             /\ UNCHANGED <<record, cached, arrived, todo>>
       /\ UNCHANGED <<request, ended, groups, source, answer>>

\* The rows a list has for a coordinate, and the one that answers it: alone, in
\* the list of the right season, and with the number the group gave.
RowsOf(page, e) == {row \in page.rows : row[1] = e}
\* Mutant: the number the group gave is not compared.
Coordinate(page, place, i) ==
    page.season = SeasonOf[place.episode] /\ RowsOf(page, place.episode) = {<<place.episode, i>>}
Answers(page, place, i) == Coordinate(page, place, i) /\ place.id \in {None, i}

ListOf(c, place) == cached[Of(c)][SeasonPath(place.episode)]

\* The answer as a whole may still be refused: a detail that does not decode, or
\* a show or an episode whose name is blank (ValidateSeriesResult).
Conclude(c) == \E how \in {"ok", "error"} : Return(c, how)

\* All seasons are there: every key must be answered.
Match(c) ==
    LET found == {ids \in [DOMAIN source[c] -> Ids] :
                    \A n \in DOMAIN source[c] : Answers(ListOf(c, source[c][n]), source[c][n], ids[n])}
    IN /\ stage[c] = "seasons" /\ todo[c] = <<>>
       /\ \/ /\ found = {} /\ Return(c, "error")
             /\ UNCHANGED <<todo, answer>>
          \/ /\ answer' \in {[answer EXCEPT ![c] = ids] : ids \in found}
             /\ IF request[c].details
                  THEN /\ stage' = [stage EXCEPT ![c] = "details"]
                       /\ todo' = [todo EXCEPT ![c] = Missing(c, AllDetailPaths(c))]
                       /\ UNCHANGED <<outcome, gate>>
                  ELSE Conclude(c) /\ UNCHANGED todo
       /\ UNCHANGED <<request, ended, shared, source>>

Finish(c) ==
    /\ stage[c] = "details" /\ todo[c] = <<>>
    /\ Conclude(c)
    /\ UNCHANGED <<request, ended, shared, own>>

EndContext(c) ==
    /\ outcome[c] = "busy" /\ ~ended[c]
    /\ ended' = [ended EXCEPT ![c] = TRUE]
    /\ UNCHANGED <<request, stage, outcome, gate, shared, own>>

Step(c) ==
    \/ Enter(c) \/ TurnAway(c) \/ PlaceKey(c) \/ ReadGroup(c) \/ PlanSeasons(c)
    \/ Receive(c) \/ Match(c) \/ Finish(c)

Next == \E c \in Calls : Step(c) \/ EndContext(c)

Spec == Init /\ [][Next]_vars /\ \A c \in Calls : WF_vars(Step(c))

----------------------------------------------------------------------------

\* A piece reaches the cache once: no call asks again for what another has
\* learnt, whatever order the calls come in and whichever of them fail halfway
\* (FetchSeries 102-116 and 155-171, requestSeriesPaths).
AskedOnce == \A s \in Shows : \A p \in Paths : arrived[s][p] = (IF p \in DOMAIN cached[s] THEN 1 ELSE 0)

\* The record of a show was read with all the pieces its fields come from,
\* however many seasons are wanted beside it and whichever request failed first
\* (113-116, 248-254).
RecordWhole == \A s \in Shows : record[s] # None => Range(MainPaths) \subseteq record[s]

\* Where a key stands by the group as it is known now.
PlaceOf(c, key) ==
    IF key.group = None THEN [episode |-> key.at, id |-> None]
    ELSE groups[Of(c)][key.group][key.at]

\* A call that succeeded tells, for each key, the one row the list of the right
\* season has for it, by a number its group confirms, although the group and the
\* list were read at different times, perhaps by different calls (77-101, 125-154).
AnswersAgree ==
    \A c \in Calls : outcome[c] = "ok" =>
        \A n \in DOMAIN Keyed(c) :
            LET place == PlaceOf(c, Keyed(c)[n])
                page == ListOf(c, place)
            IN /\ RowsOf(page, place.episode) = {<<place.episode, answer[c][n]>>}
               /\ page.season = SeasonOf[place.episode]
               /\ place.id # None => place.id = answer[c][n]

----------------------------------------------------------------------------

\* What stands at hand for a key: a group, if it names one, and the one row of
\* the right season's list.
Stands(s, key, i) ==
    /\ key.group # None =>
         groups[s][key.group] # None /\ key.at \in DOMAIN groups[s][key.group]
    /\ LET place == IF key.group = None THEN [episode |-> key.at, id |-> None]
                    ELSE groups[s][key.group][key.at]
           path == SeasonPath(place.episode)
       IN /\ path \in DOMAIN cached[s] /\ cached[s][path].season = SeasonOf[place.episode]
          /\ RowsOf(cached[s][path], place.episode) = {<<place.episode, i>>}
          /\ place.id \in {None, i}

\* Seen by their callers, the calls read one book.
Wants == [c \in Calls |-> [of |-> Of(c), keys |-> Keyed(c)]]
Book == {row \in Shows \X Keys \X Ids : Stands(row[1], row[2], row[3])}
Told == [c \in Calls |-> IF outcome[c] = "ok" THEN [show |-> Of(c), ids |-> answer[c]] ELSE None]
Seen == INSTANCE SeriesAnswers WITH wants <- Wants, book <- Book, told <- Told
ImplementsAnswers == Seen!AnswersSpec

\* Every call returns: the gate is given back on every path out (53-58).
CallsReturn == \A c \in Calls : <>(outcome[c] # "busy")
=============================================================================
