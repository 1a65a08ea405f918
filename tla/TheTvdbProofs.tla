---------------------------- MODULE TheTvdbProofs ----------------------------
(***************************************************************************)
(* What calls that share pages can rely on, for any number of calls, shows,*)
(* episodes and readings of the website; and the pace of the requests they *)
(* make, for any number of them, any interval and any limit on redirects.  *)
(***************************************************************************)
EXTENDS SeriesPages, RequestPace, FiniteSetTheorems, SequenceTheorems, TLAPS

\* The part of the type invariant that is about what a call keeps for itself.
LocalOK ==
    /\ stage \in [Calls -> {"show", "alias", "all", "season", "detail", "over"}]
    /\ mode \in [Calls -> {"enter", "fetch", "wait"}]
    /\ show \in [Calls -> Shows \cup {None}]
    /\ entry \in [Calls -> [Episodes -> Ids \cup {None}]]
    /\ left \in [Calls -> SUBSET Seasons]
    /\ rows \in [Calls -> SUBSET (Episodes \X Ids)]
    /\ turn \in [Calls -> Nat]
    /\ outcome \in [Calls -> {"busy", "ok", "error", "cancelled"}]

\* A call has what its stage needs, and loads a page of that stage.
Ready(c) ==
    /\ stage[c] = "over" <=> outcome[c] # "busy"
    /\ mode[c] # "enter" => key[c] \in NextKeys(c)
    /\ stage[c] \in {"alias", "all", "season", "detail"} => show[c] \in Shows
    /\ stage[c] \in {"season", "detail"} => \A e \in Wanted(c) : entry[c][e] \in Ids
    /\ stage[c] = "detail" => turn[c] \in 1..Len(request[c].keys)
LoadInv == \A c \in Calls : Ready(c)

\* A page that is on its way or has come is filed under its own key; one that
\* failed has ended its call.
PageInv ==
    \A c \in Calls : \A k \in Keys :
        /\ made[c][k].state \in {"fetching", "ok"} => stored[k] = <<c, k>>
        /\ made[c][k].state = "fetching" <=> mode[c] = "fetch" /\ key[c] = k
        /\ made[c][k].state \in {"error", "cancelled"} => stage[c] = "over"
        /\ made[c][k].state = "cancelled" => ended[c]
        /\ made[c][k].state = "ok" => made[c][k].facts \in Readable(k)

\* Under another key there are only pages of shows that have come.
FiledInv ==
    \A k \in Keys : stored[k] # None =>
        /\ made[stored[k][1]][stored[k][2]].state \in {"fetching", "ok"}
        /\ stored[k][2] # k =>
             /\ made[stored[k][1]][stored[k][2]].state = "ok"
             /\ k[1] = "show" /\ stored[k][2][1] = "show"

\* A call waits for what is filed under its key, unless that has failed.
WaitInv ==
    \A c \in Calls : mode[c] = "wait" =>
        /\ on[c] \in Pages /\ Awaited(c).state # "absent"
        /\ Awaited(c).state \in {"fetching", "ok"} => stored[key[c]] = on[c]
        /\ on[c][2] # key[c] => Awaited(c).state = "ok"

\* A call that is about to file its show page has it.
AliasInv ==
    \A c \in Calls : stage[c] = "alias" =>
        LET page == stored[<<"show", request[c].at, None>>]
        IN /\ page # None
           /\ made[page[1]][page[2]].state = "ok" /\ made[page[1]][page[2]].facts = show[c]

IInv ==
    TypeOK /\ LoadInv /\ PageInv /\ FiledInv /\ StoreTrue /\ WaitInv /\ AliasInv /\ CancelHasCause

----------------------------------------------------------------------------

\* What a request is made of.
LEMMA RequestTypes ==
    ASSUME request \in Loads, NEW c \in Calls
    PROVE  /\ request[c].at \in Locators /\ request[c].keys \in Seq(Episodes)
           /\ Len(request[c].keys) \in Nat
           /\ \A n \in 1..Len(request[c].keys) :
                request[c].keys[n] \in Wanted(c) /\ request[c].keys[n] \in Episodes
           /\ Wanted(c) \subseteq Episodes /\ Len(request[c].keys) # 0
  <1>1. request \in [Calls -> Request] /\ request[c].keys # <<>>
    BY RequestsAssumption
  <1>2. request[c] \in Request
    BY <1>1
  <1>3. request[c].at \in Locators /\ request[c].keys \in Seq(Episodes)
    BY <1>2 DEF Request
  <1>4. Len(request[c].keys) \in Nat /\ DOMAIN request[c].keys = 1..Len(request[c].keys)
    BY <1>3
  <1>5. \A n \in 1..Len(request[c].keys) : request[c].keys[n] \in Episodes
    BY <1>3
  <1> QED
    BY <1>1, <1>3, <1>4, <1>5 DEF Wanted, Range

\* Every kind of key, and what the second and third parts of it are.
LEMMA KeyKinds ==
    /\ \A l \in Locators : <<"show", l, None>> \in Keys
    /\ \A s \in Shows : <<"all", s, None>> \in Keys
    /\ \A s \in Shows, n \in Seasons : <<"season", s, n>> \in Keys
    /\ \A s \in Shows, i \in Ids : <<"detail", s, i>> \in Keys
    /\ \A k \in Keys : k[1] \in {"show", "all", "season", "detail"}
  BY DEF Keys

\* A call loads pages of the kind its stage is named for.
LEMMA NextKeysTyped ==
    ASSUME request \in Loads, LocalOK, NEW c \in Calls, Ready(c)
    PROVE  /\ NextKeys(c) \subseteq Keys
           /\ \A k \in NextKeys(c) : k[1] = stage[c] /\ stage[c] \notin {"alias", "over"}
           /\ stage[c] = "show" => NextKeys(c) = {<<"show", request[c].at, None>>}
  <1>1. CASE stage[c] = "show"
    BY <1>1, RequestTypes, KeyKinds DEF NextKeys
  <1>2. CASE stage[c] = "all"
    BY <1>2, KeyKinds DEF NextKeys, Ready
  <1>3. CASE stage[c] = "season"
    BY <1>3, KeyKinds DEF NextKeys, Ready, LocalOK
  <1>4. CASE stage[c] = "detail"
    <2>1. request[c].keys[turn[c]] \in Wanted(c)
      BY <1>4, RequestTypes DEF Ready
    <2>2. show[c] \in Shows /\ entry[c][request[c].keys[turn[c]]] \in Ids
      BY <1>4, <2>1 DEF Ready
    <2> QED
      BY <1>4, <2>2, KeyKinds DEF NextKeys
  <1>5. CASE stage[c] \in {"alias", "over"}
    BY <1>5 DEF NextKeys
  <1> QED
    BY <1>1, <1>2, <1>3, <1>4, <1>5 DEF LocalOK

\* A page that has come is of the kind its key says.
Suits(k, f) ==
    /\ k[1] = "show" => f \in Shows
    /\ k[1] \in {"all", "season"} => f \in Listings

LEMMA ReadableSuits == \A k \in Keys : \A f \in Readable(k) : Suits(k, f)
  BY KeyKinds DEF Readable, Suits, ListingsOf, ShowsAt

----------------------------------------------------------------------------

\* What changes nothing for a call keeps it ready.
LEMMA ReadyStays ==
    ASSUME NEW c \in Calls, Ready(c), request' = request,
           stage'[c] = stage[c], mode'[c] = mode[c], key'[c] = key[c], show'[c] = show[c],
           entry'[c] = entry[c], left'[c] = left[c], turn'[c] = turn[c], outcome'[c] = outcome[c]
    PROVE  Ready(c)'
  BY DEF Ready, NextKeys, Wanted

\* What FetchSeries does with a page keeps the types, and brings the call to a
\* stage it is ready for.
LEMMA ServeKeeps ==
    ASSUME request \in Loads, LocalOK, NEW c \in Calls, NEW n \in Nat, n >= 1, NEW rs,
           Serve(c, n, rs), show[c] \in Shows, \A e \in Wanted(c) : entry[c][e] \in Ids
    PROVE  /\ mode' = [mode EXCEPT ![c] = "enter"]
           /\ stage' \in [Calls -> {"show", "alias", "all", "season", "detail", "over"}]
           /\ outcome' \in [Calls -> {"busy", "ok", "error", "cancelled"}]
           /\ turn' \in [Calls -> Nat]
           /\ \A d \in Calls \ {c} :
                stage'[d] = stage[d] /\ outcome'[d] = outcome[d] /\ turn'[d] = turn[d]
           /\ \/ /\ stage'[c] = "detail" /\ outcome'[c] = outcome[c]
                 /\ turn'[c] \in 1..Len(request[c].keys)
              \/ stage'[c] = "over" /\ outcome'[c] \in {"ok", "error"}
  <1>1. Len(request[c].keys) \in Nat
    BY RequestTypes
  <1>2. CASE n <= Len(request[c].keys) /\ request[c].details /\ Fits(c, n, rs)
    <2>1. Go(c, "detail") /\ turn' = [turn EXCEPT ![c] = n]
      BY <1>2 DEF Serve
    <2>2. n \in 1..Len(request[c].keys)
      BY <1>1, <1>2
    <2> QED
      BY <2>1, <2>2 DEF Go, LocalOK
  <1>3. CASE ~(n <= Len(request[c].keys) /\ request[c].details /\ Fits(c, n, rs))
    <2>1. \E how \in {"ok", "error"} : End(c, how)
      BY <1>3 DEF Serve
    <2>2. turn' = turn
      BY <1>3 DEF Serve
    <2> QED
      BY <2>1, <2>2 DEF End, LocalOK
  <1> QED
    BY <1>2, <1>3

\* What FetchSeries does with a page: types, readiness, and who is left alone.
LEMMA HaveKeeps ==
    ASSUME TypeOK, LoadInv, NEW c \in Calls, mode[c] # "enter", NEW f, Suits(key[c], f),
           Have(c, f), request' = request, key' = key
    PROVE  /\ LocalOK' /\ LoadInv'
           /\ mode' = [mode EXCEPT ![c] = "enter"]
           /\ \A d \in Calls \ {c} :
                stage'[d] = stage[d] /\ outcome'[d] = outcome[d] /\ show'[d] = show[d]
           /\ outcome'[c] # "cancelled"
           /\ stage'[c] = "alias" => stage[c] = "show" /\ show'[c] = f
  <1> DEFINE Rest == /\ LocalOK'
                     /\ mode' = [mode EXCEPT ![c] = "enter"]
                     /\ \A d \in Calls \ {c} :
                          /\ stage'[d] = stage[d] /\ outcome'[d] = outcome[d] /\ show'[d] = show[d]
                          /\ entry'[d] = entry[d] /\ left'[d] = left[d] /\ turn'[d] = turn[d]
                     /\ outcome'[c] # "cancelled"
                     /\ stage'[c] = "alias" => stage[c] = "show" /\ show'[c] = f
                     /\ Ready(c)'
  <1>1. LocalOK /\ request \in Loads /\ Ready(c)
    BY DEF TypeOK, LocalOK, LoadInv
  <1>2. key[c] \in NextKeys(c) /\ key[c] \in Keys /\ key[c][1] = stage[c] /\ stage[c] # "over"
        /\ outcome[c] = "busy"
    BY <1>1, NextKeysTyped DEF Ready, LocalOK
  <1>3. ASSUME HaveShow(c, f) PROVE Rest
    <2>1. f \in Shows
      BY <1>2, <1>3 DEF HaveShow, Suits
    <2>2. LocalOK' /\ stage'[c] = "alias" /\ show'[c] = f /\ mode'[c] = "enter" /\ outcome' = outcome
      BY <1>1, <1>3, <2>1 DEF HaveShow, Go, LocalOK
    <2>3. Ready(c)'
      BY <1>2, <2>1, <2>2 DEF Ready
    <2> QED
      BY <1>1, <1>2, <1>3, <2>2, <2>3 DEF HaveShow, Go, LocalOK
  <1>4. ASSUME HaveAll(c, f) PROVE Rest
    <2>1. show[c] \in Shows /\ stage[c] = "all"
      BY <1>1, <1>4 DEF HaveAll, Ready
    <2>2. CASE \A e \in Wanted(c) : \E i \in Ids : Numbers(f, e) = {i}
      <3> DEFINE new == [e \in Episodes |-> IF e \in Wanted(c)
                           THEN CHOOSE i \in Ids : Numbers(f, e) = {i} ELSE None]
      <3>1. /\ entry' = [entry EXCEPT ![c] = new]
            /\ left' = [left EXCEPT ![c] = {SeasonOf[e] : e \in Wanted(c)}]
            /\ Go(c, "season") /\ show' = show /\ rows' = rows /\ turn' = turn
        BY <1>4, <2>2 DEF HaveAll
      <3>2. new \in [Episodes -> Ids \cup {None}] /\ \A e \in Wanted(c) : new[e] \in Ids
        BY <1>1, <2>2, RequestTypes
      <3>3. {SeasonOf[e] : e \in Wanted(c)} \subseteq Seasons
        BY <1>1, RequestTypes DEF Seasons
      <3> HIDE DEF new
      <3>4. LocalOK' /\ entry'[c] = new /\ stage'[c] = "season" /\ mode'[c] = "enter"
            /\ outcome' = outcome
        BY <1>1, <3>1, <3>2, <3>3 DEF Go, LocalOK
      <3>5. Ready(c)'
        BY <1>2, <2>1, <3>1, <3>2, <3>4 DEF Ready, Wanted
      <3> QED
        BY <1>1, <1>2, <3>1, <3>4, <3>5 DEF Go, LocalOK
    <2>3. CASE ~(\A e \in Wanted(c) : \E i \in Ids : Numbers(f, e) = {i})
      <3>1. /\ End(c, "error") /\ entry' = entry /\ left' = left
            /\ show' = show /\ rows' = rows /\ turn' = turn
        BY <1>4, <2>3 DEF HaveAll
      <3>2. LocalOK' /\ stage'[c] = "over" /\ outcome'[c] = "error" /\ mode'[c] = "enter"
        BY <1>1, <3>1 DEF End, LocalOK
      <3> QED
        BY <1>1, <3>1, <3>2 DEF End, LocalOK, Ready
    <2> QED
      BY <2>2, <2>3
  <1>5. ASSUME HaveSeason(c, f) PROVE Rest
    <2> DEFINE others == left[c] \ {key[c][3]}
               known == f \cup {p \in rows[c] : \A q \in f : p[2] # q[2]}
    <2>1. /\ show[c] \in Shows /\ stage[c] = "season" /\ f \in Listings
          /\ \A e \in Wanted(c) : entry[c][e] \in Ids
      BY <1>1, <1>2, <1>5 DEF HaveSeason, Ready, Suits
    <2>2. /\ left' = [left EXCEPT ![c] = others] /\ rows' = [rows EXCEPT ![c] = known]
          /\ show' = show /\ entry' = entry
          /\ IF others # {} THEN Go(c, "season") /\ UNCHANGED turn ELSE Serve(c, 1, known)
      BY <1>5 DEF HaveSeason
    <2>3. others \subseteq Seasons /\ known \subseteq Episodes \X Ids
      BY <1>1, <2>1, SiteAssumption DEF LocalOK
    <2> HIDE DEF others, known
    <2>4. CASE others # {}
      <3>1. LocalOK' /\ stage'[c] = "season" /\ mode'[c] = "enter" /\ outcome' = outcome
        BY <1>1, <2>2, <2>3, <2>4 DEF Go, LocalOK
      <3>2. Ready(c)'
        BY <1>2, <2>1, <2>2, <3>1 DEF Ready, Wanted
      <3> QED
        BY <1>1, <1>2, <2>2, <2>4, <3>1, <3>2 DEF Go, LocalOK
    <2>5. CASE others = {}
      <3>1. /\ mode' = [mode EXCEPT ![c] = "enter"]
            /\ stage' \in [Calls -> {"show", "alias", "all", "season", "detail", "over"}]
            /\ outcome' \in [Calls -> {"busy", "ok", "error", "cancelled"}]
            /\ turn' \in [Calls -> Nat]
            /\ \A d \in Calls \ {c} :
                 stage'[d] = stage[d] /\ outcome'[d] = outcome[d] /\ turn'[d] = turn[d]
            /\ \/ /\ stage'[c] = "detail" /\ outcome'[c] = outcome[c]
                  /\ turn'[c] \in 1..Len(request[c].keys)
               \/ stage'[c] = "over" /\ outcome'[c] \in {"ok", "error"}
        BY <1>1, <2>1, <2>2, <2>5, ServeKeeps
      <3>2. LocalOK' /\ mode'[c] = "enter"
        BY <1>1, <2>2, <2>3, <3>1 DEF LocalOK
      <3>3. Ready(c)'
        BY <1>2, <2>1, <2>2, <3>1, <3>2 DEF Ready, Wanted
      <3> QED
        BY <1>1, <1>2, <2>2, <3>1, <3>2, <3>3 DEF LocalOK
    <2> QED
      BY <2>4, <2>5
  <1>6. ASSUME HaveDetail(c) PROVE Rest
    <2>1. /\ show[c] \in Shows /\ stage[c] = "detail" /\ turn[c] + 1 \in Nat /\ turn[c] + 1 >= 1
          /\ \A e \in Wanted(c) : entry[c][e] \in Ids
      BY <1>1, <1>6 DEF HaveDetail, Ready, LocalOK
    <2>2. Serve(c, turn[c] + 1, rows[c]) /\ show' = show /\ entry' = entry /\ left' = left /\ rows' = rows
      BY <1>6 DEF HaveDetail
    <2>3. /\ mode' = [mode EXCEPT ![c] = "enter"]
          /\ stage' \in [Calls -> {"show", "alias", "all", "season", "detail", "over"}]
          /\ outcome' \in [Calls -> {"busy", "ok", "error", "cancelled"}]
          /\ turn' \in [Calls -> Nat]
          /\ \A d \in Calls \ {c} :
               stage'[d] = stage[d] /\ outcome'[d] = outcome[d] /\ turn'[d] = turn[d]
          /\ \/ /\ stage'[c] = "detail" /\ outcome'[c] = outcome[c]
                /\ turn'[c] \in 1..Len(request[c].keys)
             \/ stage'[c] = "over" /\ outcome'[c] \in {"ok", "error"}
      BY <1>1, <2>1, <2>2, ServeKeeps
    <2>4. LocalOK' /\ mode'[c] = "enter"
      BY <1>1, <2>2, <2>3 DEF LocalOK
    <2>5. Ready(c)'
      BY <1>2, <2>1, <2>2, <2>3, <2>4 DEF Ready, Wanted
    <2> QED
      BY <1>1, <1>2, <2>2, <2>3, <2>4, <2>5 DEF LocalOK
  <1>7. Rest
    BY <1>3, <1>4, <1>5, <1>6 DEF Have
  <1> HIDE DEF Rest
  <1>8. LocalOK' /\ Ready(c)' /\ mode' = [mode EXCEPT ![c] = "enter"]
    BY <1>7 DEF Rest
  <1>9. ASSUME NEW d \in Calls, d # c
        PROVE  Ready(d)'
    <2>1. Ready(d)
      BY DEF LoadInv
    <2>2. mode'[d] = mode[d] /\ key'[d] = key[d]
      BY <1>1, <1>8, <1>9 DEF LocalOK
    <2>3. /\ stage'[d] = stage[d] /\ outcome'[d] = outcome[d] /\ show'[d] = show[d]
          /\ entry'[d] = entry[d] /\ left'[d] = left[d] /\ turn'[d] = turn[d]
      BY <1>7, <1>9 DEF Rest
    <2> QED
      BY <2>1, <2>2, <2>3, ReadyStays
  <1> QED
    BY <1>7, <1>8, <1>9 DEF Rest, LoadInv

\* The same for a call that ends with an error.
LEMMA EndKeeps ==
    ASSUME TypeOK, LoadInv, NEW c \in Calls, NEW how \in {"error", "cancelled"}, End(c, how),
           request' = request, key' = key, UNCHANGED local
    PROVE  /\ LocalOK' /\ LoadInv'
           /\ stage'[c] = "over" /\ mode'[c] = "enter" /\ outcome'[c] = how
           /\ \A d \in Calls \ {c} :
                stage'[d] = stage[d] /\ outcome'[d] = outcome[d] /\ mode'[d] = mode[d]
  <1>1. LocalOK
    BY DEF TypeOK, LocalOK
  <1>2. /\ LocalOK' /\ stage'[c] = "over" /\ mode'[c] = "enter" /\ outcome'[c] = how
        /\ \A d \in Calls \ {c} :
             stage'[d] = stage[d] /\ outcome'[d] = outcome[d] /\ mode'[d] = mode[d]
    BY <1>1 DEF End, LocalOK, local
  <1>3. Ready(c)'
    BY <1>2 DEF Ready
  <1>4. ASSUME NEW d \in Calls, d # c
        PROVE  Ready(d)'
    <2>1. Ready(d)
      BY DEF LoadInv
    <2> QED
      BY <1>2, <1>4, <2>1, ReadyStays DEF local
  <1> QED
    BY <1>2, <1>3, <1>4 DEF LoadInv

\* The rest of the type invariant.
LEMMA TypesTogether ==
    ASSUME TypeOK, LocalOK', request' = request,
           made' \in [Calls -> [Keys -> Page]], stored' \in [Keys -> Pages \cup {None}],
           key' \in [Calls -> Keys \cup {None}], on' \in [Calls -> Pages \cup {None}],
           ended' \in [Calls -> BOOLEAN]
    PROVE  TypeOK'
  BY DEF TypeOK, LocalOK

\* A call ends with an error and leaves the pages alone.
LEMMA QuietEnd ==
    ASSUME IInv, NEW c \in Calls, NEW how \in {"error", "cancelled"}, End(c, how),
           UNCHANGED <<request, made, stored, key, on, local, ended>>,
           mode[c] # "fetch", stage[c] # "over",
           how = "cancelled" => ended[c] \/ (on[c] # None /\ on[c][2] = key[c] /\ ended[on[c][1]])
    PROVE  IInv'
  <1>1. /\ LocalOK' /\ LoadInv'
        /\ stage'[c] = "over" /\ mode'[c] = "enter" /\ outcome'[c] = how
        /\ \A d \in Calls \ {c} :
             stage'[d] = stage[d] /\ outcome'[d] = outcome[d] /\ mode'[d] = mode[d]
    BY EndKeeps DEF IInv
  <1>2. TypeOK'
    BY <1>1, TypesTogether DEF IInv, TypeOK
  <1>3. PageInv'
    <2> SUFFICES ASSUME NEW d \in Calls, NEW k \in Keys
                 PROVE  /\ made[d][k].state \in {"fetching", "ok"} => stored[k] = <<d, k>>
                        /\ made[d][k].state = "fetching" <=> mode'[d] = "fetch" /\ key[d] = k
                        /\ made[d][k].state \in {"error", "cancelled"} => stage'[d] = "over"
                        /\ made[d][k].state = "cancelled" => ended[d]
                        /\ made[d][k].state = "ok" => made[d][k].facts \in Readable(k)
      BY DEF PageInv
    <2> QED
      BY <1>1 DEF IInv, PageInv
  <1>4. FiledInv' /\ StoreTrue'
    BY DEF IInv, FiledInv, StoreTrue
  <1>5. WaitInv'
    BY <1>1 DEF IInv, WaitInv, Awaited
  <1>6. AliasInv'
    BY <1>1 DEF IInv, AliasInv, local
  <1>7. CancelHasCause'
    BY <1>1 DEF IInv, CancelHasCause
  <1> QED
    BY <1>1, <1>2, <1>3, <1>4, <1>5, <1>6, <1>7 DEF IInv

\* What is filed under a key a call is fetching is the page it fetches, filed
\* nowhere else and awaited under that key only.
LEMMA Fetching ==
    ASSUME IInv, NEW c \in Calls, mode[c] = "fetch"
    PROVE  /\ key[c] \in Keys /\ key[c] \in NextKeys(c) /\ key[c][1] = stage[c]
           /\ made[c][key[c]].state = "fetching" /\ stored[key[c]] = <<c, key[c]>>
           /\ \A k \in Keys : stored[k] = <<c, key[c]>> => k = key[c]
           /\ \A d \in Calls : mode[d] = "wait" /\ on[d] = <<c, key[c]>> => key[d] = key[c]
           /\ stage[c] \notin {"alias", "over"} /\ outcome[c] = "busy"
  <1>1. LocalOK /\ request \in Loads /\ Ready(c)
    BY DEF IInv, TypeOK, LocalOK, LoadInv
  <1>2. /\ key[c] \in NextKeys(c) /\ key[c] \in Keys /\ key[c][1] = stage[c]
        /\ stage[c] \notin {"alias", "over"} /\ outcome[c] = "busy"
    BY <1>1, NextKeysTyped DEF Ready, LocalOK
  <1>3. made[c][key[c]].state = "fetching" /\ stored[key[c]] = <<c, key[c]>>
    BY <1>2 DEF IInv, PageInv
  <1>4. \A k \in Keys : stored[k] = <<c, key[c]>> => k = key[c]
    <2> SUFFICES ASSUME NEW k \in Keys, stored[k] = <<c, key[c]>>
                 PROVE  k = key[c]
      OBVIOUS
    <2>1. <<c, key[c]>> # None
      BY <1>2, NamesAssumption DEF Pages
    <2>2. stored[k][1] = c /\ stored[k][2] = key[c]
      OBVIOUS
    <2> QED
      BY <1>3, <2>1, <2>2 DEF IInv, FiledInv
  <1>5. \A d \in Calls : mode[d] = "wait" /\ on[d] = <<c, key[c]>> => key[d] = key[c]
    BY <1>3 DEF IInv, WaitInv, Awaited
  <1> QED
    BY <1>2, <1>3, <1>4, <1>5

----------------------------------------------------------------------------

\* A call that is on its way in has no page that is being fetched, is awaited
\* or stays filed under a vacant key.
LEMMA LeadStep == ASSUME IInv, NEW c \in Calls, Lead(c) PROVE IInv'
  <1>1. PICK k \in NextKeys(c) :
          /\ stored[k] = None
          /\ made' = [made EXCEPT ![c][k] = [state |-> "fetching", facts |-> None]]
          /\ stored' = [stored EXCEPT ![k] = <<c, k>>]
          /\ key' = [key EXCEPT ![c] = k]
    BY DEF Lead, Vacant
  <1>2. /\ mode[c] = "enter" /\ mode' = [mode EXCEPT ![c] = "fetch"]
        /\ UNCHANGED <<request, stage, on, local, ended, outcome>>
    BY DEF Lead
  <1>3. LocalOK /\ request \in Loads /\ Ready(c)
    BY DEF IInv, TypeOK, LocalOK, LoadInv
  <1>4. k \in Keys /\ k[1] = stage[c] /\ stage[c] \notin {"alias", "over"} /\ outcome[c] = "busy"
    BY <1>1, <1>3, NextKeysTyped DEF Ready, LocalOK
  <1>5. <<c, k>> \in Pages /\ <<c, k>> # None /\ <<c, k>>[1] = c /\ <<c, k>>[2] = k
    BY <1>4, NamesAssumption DEF Pages
  <1>6. /\ made \in [Calls -> [Keys -> Page]] /\ stored \in [Keys -> Pages \cup {None}]
        /\ key \in [Calls -> Keys \cup {None}] /\ mode \in [Calls -> {"enter", "fetch", "wait"}]
        /\ on \in [Calls -> Pages \cup {None}]
    BY DEF IInv, TypeOK
  <1>7. made[c][k].state = "absent"
    <2>1. made[c][k].state \in {"absent", "fetching", "ok", "error", "cancelled"}
      BY <1>4, <1>6 DEF Page
    <2> QED
      BY <1>1, <1>4, <1>5, <2>1 DEF IInv, PageInv
  <1>8. /\ made'[c][k] = [state |-> "fetching", facts |-> None] /\ stored'[k] = <<c, k>>
        /\ key'[c] = k /\ mode'[c] = "fetch"
        /\ \A d \in Calls, j \in Keys : d # c \/ j # k => made'[d][j] = made[d][j]
        /\ \A j \in Keys : j # k => stored'[j] = stored[j]
        /\ \A d \in Calls : d # c => key'[d] = key[d] /\ mode'[d] = mode[d]
    BY <1>1, <1>2, <1>4, <1>6
  <1>9. \A j \in Keys : stored[j] # None => stored[j][1] # c \/ stored[j][2] # k
    BY <1>7 DEF IInv, FiledInv
  <1>10. LocalOK' /\ TypeOK'
    <2>1. LocalOK'
      BY <1>2, <1>3 DEF LocalOK, local
    <2>2. [state |-> "fetching", facts |-> None] \in Page
      BY DEF Page, Facts
    <2>3. /\ made' \in [Calls -> [Keys -> Page]] /\ stored' \in [Keys -> Pages \cup {None}]
          /\ key' \in [Calls -> Keys \cup {None}]
      BY <1>1, <1>4, <1>5, <1>6, <2>2
    <2> QED
      BY <1>2, <2>1, <2>3, TypesTogether DEF IInv, TypeOK
  <1>11. LoadInv'
    <2>1. Ready(c)'
      BY <1>1, <1>2, <1>3, <1>8 DEF Ready, NextKeys, Wanted, local
    <2>2. ASSUME NEW d \in Calls, d # c
          PROVE  Ready(d)'
      <3>1. Ready(d)
        BY DEF IInv, LoadInv
      <3> QED
        BY <1>2, <1>8, <2>2, <3>1, ReadyStays DEF local
    <2> QED
      BY <2>1, <2>2 DEF LoadInv
  <1>12. PageInv'
    <2> SUFFICES ASSUME NEW d \in Calls, NEW j \in Keys
                 PROVE  /\ made'[d][j].state \in {"fetching", "ok"} => stored'[j] = <<d, j>>
                        /\ made'[d][j].state = "fetching" <=> mode'[d] = "fetch" /\ key'[d] = j
                        /\ made'[d][j].state \in {"error", "cancelled"} => stage'[d] = "over"
                        /\ made'[d][j].state = "cancelled" => ended'[d]
                        /\ made'[d][j].state = "ok" => made'[d][j].facts \in Readable(j)
      BY DEF PageInv
    <2>1. CASE d = c /\ j = k
      BY <1>8, <2>1
    <2>2. CASE d # c /\ j = k
      BY <1>1, <1>2, <1>5, <1>8, <2>2, NamesAssumption DEF IInv, PageInv, Pages
    <2>3. CASE j # k
      BY <1>2, <1>8, <2>3 DEF IInv, PageInv
    <2> QED
      BY <2>1, <2>2, <2>3
  <1>13. FiledInv' /\ StoreTrue'
    <2> SUFFICES ASSUME NEW j \in Keys, stored'[j] # None
                 PROVE  /\ made'[stored'[j][1]][stored'[j][2]].state \in {"fetching", "ok"}
                        /\ stored'[j][2] # j =>
                             /\ made'[stored'[j][1]][stored'[j][2]].state = "ok"
                             /\ j[1] = "show" /\ stored'[j][2][1] = "show"
                        /\ j[1] = "show" /\ j[2] \in Shows /\ made'[stored'[j][1]][stored'[j][2]].state = "ok"
                             => made'[stored'[j][1]][stored'[j][2]].facts = j[2]
      BY DEF FiledInv, StoreTrue
    <2>1. CASE j = k
      BY <1>5, <1>8, <2>1
    <2>2. CASE j # k
      <3>1. stored'[j] = stored[j] /\ stored[j] \in Pages
        BY <1>6, <1>8, <2>2
      <3>2. made'[stored'[j][1]][stored'[j][2]] = made[stored[j][1]][stored[j][2]]
        BY <1>8, <1>9, <3>1 DEF Pages
      <3> QED
        BY <3>1, <3>2 DEF IInv, FiledInv, StoreTrue
    <2> QED
      BY <2>1, <2>2
  <1>14. WaitInv'
    <2> SUFFICES ASSUME NEW d \in Calls, mode'[d] = "wait"
                 PROVE  /\ on'[d] \in Pages /\ Awaited(d)'.state # "absent"
                        /\ Awaited(d)'.state \in {"fetching", "ok"} => stored'[key'[d]] = on'[d]
                        /\ on'[d][2] # key'[d] => Awaited(d)'.state = "ok"
      BY DEF WaitInv
    <2>1. d # c /\ mode[d] = "wait" /\ key'[d] = key[d] /\ on'[d] = on[d] /\ on[d] \in Pages
      BY <1>2, <1>8 DEF IInv, WaitInv
    <2>2. Awaited(d)' = Awaited(d)
      BY <1>7, <1>8, <2>1 DEF IInv, WaitInv, Awaited, Pages
    <2>3. key[d] \in Keys
      <3>1. Ready(d)
        BY DEF IInv, LoadInv
      <3> QED
        BY <1>3, <2>1, <3>1, NextKeysTyped DEF Ready
    <2>4. stored[key[d]] = on[d] => stored'[key[d]] = on[d]
      BY <1>1, <1>8, <2>1, <2>3, NamesAssumption
    <2> QED
      BY <2>1, <2>2, <2>4 DEF IInv, WaitInv
  <1>15. AliasInv'
    <2> SUFFICES ASSUME NEW d \in Calls, stage[d] = "alias"
                 PROVE  LET page == stored'[<<"show", request[d].at, None>>]
                        IN /\ page # None /\ made'[page[1]][page[2]].state = "ok"
                           /\ made'[page[1]][page[2]].facts = show[d]
      BY <1>2 DEF AliasInv, local
    <2> DEFINE mine == <<"show", request[d].at, None>>
    <2>1. mine \in Keys
      BY <1>3, RequestTypes, KeyKinds
    <2>2. /\ stored[mine] # None /\ made[stored[mine][1]][stored[mine][2]].state = "ok"
          /\ made[stored[mine][1]][stored[mine][2]].facts = show[d]
      BY DEF IInv, AliasInv
    <2> HIDE DEF mine
    <2>3. stored'[mine] = stored[mine] /\ stored[mine] \in Pages
      BY <1>1, <1>6, <1>8, <2>1, <2>2
    <2>4. made'[stored[mine][1]][stored[mine][2]] = made[stored[mine][1]][stored[mine][2]]
      BY <1>8, <1>9, <2>1, <2>2, <2>3 DEF Pages
    <2> QED
      BY <2>2, <2>3, <2>4 DEF mine
  <1>16. CancelHasCause'
    BY <1>2, <1>4, <1>8 DEF IInv, CancelHasCause
  <1> QED
    BY <1>10, <1>11, <1>12, <1>13, <1>14, <1>15, <1>16 DEF IInv

\* A call that waits takes note of what is filed under its key, which is on its
\* way or has come.
LEMMA FollowStep == ASSUME IInv, NEW c \in Calls, Follow(c) PROVE IInv'
  <1>1. PICK k \in NextKeys(c) :
          stored[k] # None /\ key' = [key EXCEPT ![c] = k] /\ on' = [on EXCEPT ![c] = stored[k]]
    BY DEF Follow, Vacant
  <1>2. /\ mode[c] = "enter" /\ mode' = [mode EXCEPT ![c] = "wait"]
        /\ UNCHANGED <<request, made, stored, stage, local, ended, outcome>>
    BY DEF Follow
  <1>3. LocalOK /\ request \in Loads /\ Ready(c)
    BY DEF IInv, TypeOK, LocalOK, LoadInv
  <1>4. k \in Keys /\ stage[c] \notin {"alias", "over"} /\ outcome[c] = "busy"
    BY <1>1, <1>3, NextKeysTyped DEF Ready, LocalOK
  <1>5. /\ key \in [Calls -> Keys \cup {None}] /\ mode \in [Calls -> {"enter", "fetch", "wait"}]
        /\ on \in [Calls -> Pages \cup {None}] /\ stored[k] \in Pages
    BY <1>1, <1>4 DEF IInv, TypeOK
  <1>6. /\ key'[c] = k /\ mode'[c] = "wait" /\ on'[c] = stored[k]
        /\ \A d \in Calls : d # c => key'[d] = key[d] /\ mode'[d] = mode[d] /\ on'[d] = on[d]
    BY <1>1, <1>2, <1>5
  <1>7. LocalOK' /\ TypeOK'
    <2>1. LocalOK'
      BY <1>2, <1>3 DEF LocalOK, local
    <2>2. key' \in [Calls -> Keys \cup {None}] /\ on' \in [Calls -> Pages \cup {None}]
      BY <1>1, <1>4, <1>5
    <2> QED
      BY <1>2, <2>1, <2>2, TypesTogether DEF IInv, TypeOK
  <1>8. LoadInv'
    <2>1. Ready(c)'
      BY <1>1, <1>2, <1>3, <1>6 DEF Ready, NextKeys, Wanted, local
    <2>2. ASSUME NEW d \in Calls, d # c
          PROVE  Ready(d)'
      <3>1. Ready(d)
        BY DEF IInv, LoadInv
      <3> QED
        BY <1>2, <1>6, <2>2, <3>1, ReadyStays DEF local
    <2> QED
      BY <2>1, <2>2 DEF LoadInv
  <1>9. PageInv'
    <2> SUFFICES ASSUME NEW d \in Calls, NEW j \in Keys
                 PROVE  /\ made[d][j].state \in {"fetching", "ok"} => stored[j] = <<d, j>>
                        /\ made[d][j].state = "fetching" <=> mode'[d] = "fetch" /\ key'[d] = j
                        /\ made[d][j].state \in {"error", "cancelled"} => stage[d] = "over"
                        /\ made[d][j].state = "cancelled" => ended[d]
                        /\ made[d][j].state = "ok" => made[d][j].facts \in Readable(j)
      BY <1>2 DEF PageInv
    <2> QED
      BY <1>2, <1>6 DEF IInv, PageInv
  <1>10. FiledInv' /\ StoreTrue'
    BY <1>2 DEF IInv, FiledInv, StoreTrue
  <1>11. WaitInv'
    <2> SUFFICES ASSUME NEW d \in Calls, mode'[d] = "wait"
                 PROVE  /\ on'[d] \in Pages /\ Awaited(d)'.state # "absent"
                        /\ Awaited(d)'.state \in {"fetching", "ok"} => stored[key'[d]] = on'[d]
                        /\ on'[d][2] # key'[d] => Awaited(d)'.state = "ok"
      BY <1>2 DEF WaitInv
    <2>1. CASE d = c
      <3>1. made'[on'[c][1]][on'[c][2]].state \in {"fetching", "ok"}
        BY <1>1, <1>2, <1>4, <1>6 DEF IInv, FiledInv
      <3>2. on'[c][2] # key'[c] => made'[on'[c][1]][on'[c][2]].state = "ok"
        BY <1>1, <1>2, <1>4, <1>6 DEF IInv, FiledInv
      <3> QED
        BY <1>5, <1>6, <2>1, <3>1, <3>2 DEF Awaited
    <2>2. CASE d # c
      BY <1>2, <1>6, <2>2 DEF IInv, WaitInv, Awaited
    <2> QED
      BY <2>1, <2>2
  <1>12. AliasInv'
    BY <1>2 DEF IInv, AliasInv, local
  <1>13. CancelHasCause'
    BY <1>2, <1>4, <1>6 DEF IInv, CancelHasCause
  <1> QED
    BY <1>7, <1>8, <1>9, <1>10, <1>11, <1>12, <1>13 DEF IInv

\* The page awaited is still filed under the key, so a show page received is the
\* one whose addresses the call files next.
LEMMA ReceiveStep == ASSUME IInv, NEW c \in Calls, Receive(c) PROVE IInv'
  <1> DEFINE f == Awaited(c).facts
  <1>1. /\ mode[c] = "wait" /\ Awaited(c).state = "ok" /\ Have(c, f)
        /\ UNCHANGED <<request, made, stored, key, on, ended>>
    BY DEF Receive
  <1>2. LocalOK /\ request \in Loads /\ Ready(c) /\ TypeOK /\ LoadInv
    BY DEF IInv, TypeOK, LocalOK, LoadInv
  <1>3. key[c] \in NextKeys(c) /\ key[c] \in Keys /\ outcome[c] = "busy"
    BY <1>1, <1>2, NextKeysTyped DEF Ready, LocalOK
  <1>4. /\ on[c] \in Pages /\ on[c][1] \in Calls /\ on[c][2] \in Keys /\ stored[key[c]] = on[c]
        /\ on[c] # None
    BY <1>1, NamesAssumption DEF IInv, WaitInv, Pages
  <1>5. Suits(key[c], f)
    <2>1. Suits(on[c][2], f)
      BY <1>1, <1>4, ReadableSuits DEF IInv, PageInv, Awaited
    <2>2. on[c][2] # key[c] => key[c][1] = "show" /\ on[c][2][1] = "show"
      BY <1>3, <1>4 DEF IInv, FiledInv
    <2> QED
      BY <2>1, <2>2 DEF Suits
  <1> HIDE DEF f
  <1>6. /\ LocalOK' /\ LoadInv'
        /\ mode' = [mode EXCEPT ![c] = "enter"]
        /\ \A d \in Calls \ {c} :
             stage'[d] = stage[d] /\ outcome'[d] = outcome[d] /\ show'[d] = show[d]
        /\ outcome'[c] # "cancelled"
        /\ stage'[c] = "alias" => stage[c] = "show" /\ show'[c] = f
    BY <1>1, <1>2, <1>5, HaveKeeps
  <1>7. TypeOK'
    BY <1>1, <1>6, TypesTogether DEF IInv, TypeOK
  <1>8. mode'[c] = "enter" /\ \A d \in Calls : d # c => mode'[d] = mode[d]
    BY <1>2, <1>6 DEF LocalOK
  <1>9. PageInv'
    <2> SUFFICES ASSUME NEW d \in Calls, NEW j \in Keys
                 PROVE  /\ made[d][j].state \in {"fetching", "ok"} => stored[j] = <<d, j>>
                        /\ made[d][j].state = "fetching" <=> mode'[d] = "fetch" /\ key[d] = j
                        /\ made[d][j].state \in {"error", "cancelled"} => stage'[d] = "over"
                        /\ made[d][j].state = "cancelled" => ended[d]
                        /\ made[d][j].state = "ok" => made[d][j].facts \in Readable(j)
      BY <1>1 DEF PageInv
    <2>1. stage[c] # "over"
      BY <1>2, <1>3 DEF Ready
    <2> QED
      BY <1>1, <1>6, <1>8, <2>1 DEF IInv, PageInv
  <1>10. FiledInv' /\ StoreTrue'
    BY <1>1 DEF IInv, FiledInv, StoreTrue
  <1>11. WaitInv'
    BY <1>1, <1>8 DEF IInv, WaitInv, Awaited
  <1>12. AliasInv'
    <2> SUFFICES ASSUME NEW d \in Calls, stage'[d] = "alias"
                 PROVE  LET page == stored[<<"show", request[d].at, None>>]
                        IN /\ page # None /\ made[page[1]][page[2]].state = "ok"
                           /\ made[page[1]][page[2]].facts = show'[d]
      BY <1>1 DEF AliasInv
    <2>1. CASE d = c
      <3>1. key[c] = <<"show", request[c].at, None>>
        BY <1>2, <1>3, <1>6, <2>1, NextKeysTyped
      <3>2. made[on[c][1]][on[c][2]].state = "ok" /\ made[on[c][1]][on[c][2]].facts = f
        BY <1>1 DEF Awaited, f
      <3>3. show'[c] = f
        BY <1>6, <2>1
      <3> QED
        BY <1>4, <2>1, <3>1, <3>2, <3>3
    <2>2. CASE d # c
      BY <1>6, <2>2 DEF IInv, AliasInv
    <2> QED
      BY <2>1, <2>2
  <1>13. CancelHasCause'
    BY <1>1, <1>6 DEF IInv, CancelHasCause
  <1> QED
    BY <1>6, <1>7, <1>9, <1>10, <1>11, <1>12, <1>13 DEF IInv

\* A page that has come stays where it was filed; who waits for it waits under
\* its own key.
LEMMA PublishStep == ASSUME IInv, NEW c \in Calls, Publish(c) PROVE IInv'
  <1>1. PICK f \in Readable(key[c]) :
          made' = [made EXCEPT ![c][key[c]] = [state |-> "ok", facts |-> f]] /\ Have(c, f)
    BY DEF Publish
  <1>2. mode[c] = "fetch" /\ UNCHANGED <<request, stored, key, on, ended>>
    BY DEF Publish
  <1> DEFINE k == key[c]
  <1>3. /\ k \in Keys /\ k \in NextKeys(c) /\ k[1] = stage[c]
        /\ made[c][k].state = "fetching" /\ stored[k] = <<c, k>>
        /\ \A j \in Keys : stored[j] = <<c, k>> => j = k
        /\ \A d \in Calls : mode[d] = "wait" /\ on[d] = <<c, k>> => key[d] = k
        /\ stage[c] \notin {"alias", "over"} /\ outcome[c] = "busy"
    BY <1>2, Fetching
  <1>4. LocalOK /\ request \in Loads /\ Ready(c) /\ TypeOK /\ LoadInv
    BY DEF IInv, TypeOK, LocalOK, LoadInv
  <1>5. /\ LocalOK' /\ LoadInv'
        /\ mode' = [mode EXCEPT ![c] = "enter"]
        /\ \A d \in Calls \ {c} :
             stage'[d] = stage[d] /\ outcome'[d] = outcome[d] /\ show'[d] = show[d]
        /\ outcome'[c] # "cancelled"
        /\ stage'[c] = "alias" => stage[c] = "show" /\ show'[c] = f
    <2>1. Suits(k, f)
      BY <1>1, <1>3, ReadableSuits
    <2> QED
      BY <1>1, <1>2, <1>4, <2>1, HaveKeeps
  <1>6. mode'[c] = "enter" /\ \A d \in Calls : d # c => mode'[d] = mode[d]
    BY <1>4, <1>5 DEF LocalOK
  <1>7. made \in [Calls -> [Keys -> Page]] /\ stored \in [Keys -> Pages \cup {None}]
    BY <1>4 DEF TypeOK
  <1>8. f \in Facts
    <2>1. k[1] = "detail" => f = None
      BY <1>1, <1>3 DEF Readable
    <2>2. Suits(k, f)
      BY <1>1, <1>3, ReadableSuits
    <2> QED
      BY <1>3, <2>1, <2>2, KeyKinds DEF Facts, Suits
  <1> HIDE DEF k
  <1>9. /\ made'[c][k] = [state |-> "ok", facts |-> f]
        /\ \A d \in Calls, j \in Keys : d # c \/ j # k => made'[d][j] = made[d][j]
    BY <1>1, <1>3, <1>7 DEF k
  <1>10. TypeOK'
    <2>1. [state |-> "ok", facts |-> f] \in Page
      BY <1>8 DEF Page
    <2>2. made' \in [Calls -> [Keys -> Page]]
      BY <1>1, <1>3, <1>7, <2>1 DEF k
    <2> QED
      BY <1>2, <1>4, <1>5, <2>2, TypesTogether DEF TypeOK
  <1>11. PageInv'
    <2> SUFFICES ASSUME NEW d \in Calls, NEW j \in Keys
                 PROVE  /\ made'[d][j].state \in {"fetching", "ok"} => stored[j] = <<d, j>>
                        /\ made'[d][j].state = "fetching" <=> mode'[d] = "fetch" /\ key[d] = j
                        /\ made'[d][j].state \in {"error", "cancelled"} => stage'[d] = "over"
                        /\ made'[d][j].state = "cancelled" => ended[d]
                        /\ made'[d][j].state = "ok" => made'[d][j].facts \in Readable(j)
      BY <1>2 DEF PageInv
    <2>1. CASE d = c /\ j = k
      BY <1>1, <1>3, <1>6, <1>9, <2>1 DEF k
    <2>2. CASE d = c /\ j # k
      <3>1. made'[c][j] = made[c][j] /\ made[c][j].state # "fetching"
        BY <1>9, <2>2 DEF IInv, PageInv, k
      <3> QED
        BY <1>3, <1>6, <2>2, <3>1 DEF IInv, PageInv
    <2>3. CASE d # c
      BY <1>5, <1>6, <1>9, <2>3 DEF IInv, PageInv
    <2> QED
      BY <2>1, <2>2, <2>3
  <1>12. FiledInv' /\ StoreTrue'
    <2> SUFFICES ASSUME NEW j \in Keys, stored[j] # None
                 PROVE  /\ made'[stored[j][1]][stored[j][2]].state \in {"fetching", "ok"}
                        /\ stored[j][2] # j =>
                             /\ made'[stored[j][1]][stored[j][2]].state = "ok"
                             /\ j[1] = "show" /\ stored[j][2][1] = "show"
                        /\ j[1] = "show" /\ j[2] \in Shows /\ made'[stored[j][1]][stored[j][2]].state = "ok"
                             => made'[stored[j][1]][stored[j][2]].facts = j[2]
      BY <1>2 DEF FiledInv, StoreTrue
    <2>1. stored[j] \in Pages
      BY <1>7
    <2>2. CASE j = k
      <3>1. stored[j][1] = c /\ stored[j][2] = k
        BY <1>3, <2>2
      <3>2. j[1] = "show" /\ j[2] \in Shows => f = j[2]
        BY <1>1, <2>2 DEF Readable, ShowsAt, k
      <3> QED
        BY <1>9, <2>2, <3>1, <3>2
    <2>3. CASE j # k
      <3>1. stored[j][1] # c \/ stored[j][2] # k
        BY <1>3, <2>1, <2>3 DEF Pages
      <3>2. made'[stored[j][1]][stored[j][2]] = made[stored[j][1]][stored[j][2]]
        BY <1>9, <2>1, <3>1 DEF Pages
      <3> QED
        BY <3>2 DEF IInv, FiledInv, StoreTrue
    <2> QED
      BY <2>2, <2>3
  <1>13. WaitInv'
    <2> SUFFICES ASSUME NEW d \in Calls, mode'[d] = "wait"
                 PROVE  /\ on[d] \in Pages /\ made'[on[d][1]][on[d][2]].state # "absent"
                        /\ made'[on[d][1]][on[d][2]].state \in {"fetching", "ok"} => stored[key[d]] = on[d]
                        /\ on[d][2] # key[d] => made'[on[d][1]][on[d][2]].state = "ok"
      BY <1>2 DEF WaitInv, Awaited
    <2>1. d # c /\ mode[d] = "wait"
      BY <1>6
    <2>2. /\ on[d] \in Pages /\ made[on[d][1]][on[d][2]].state # "absent"
          /\ made[on[d][1]][on[d][2]].state \in {"fetching", "ok"} => stored[key[d]] = on[d]
          /\ on[d][2] # key[d] => made[on[d][1]][on[d][2]].state = "ok"
      BY <2>1 DEF IInv, WaitInv, Awaited
    <2>3. CASE on[d] = <<c, k>>
      <3>1. on[d][1] = c /\ on[d][2] = k /\ key[d] = k
        BY <1>3, <2>1, <2>3
      <3> QED
        BY <1>3, <1>9, <2>2, <2>3, <3>1
    <2>4. CASE on[d] # <<c, k>>
      <3>1. on[d][1] # c \/ on[d][2] # k
        BY <2>2, <2>4 DEF Pages
      <3>2. made'[on[d][1]][on[d][2]] = made[on[d][1]][on[d][2]]
        BY <1>9, <2>2, <3>1 DEF Pages
      <3> QED
        BY <2>2, <3>2
    <2> QED
      BY <2>3, <2>4
  <1>14. AliasInv'
    <2> SUFFICES ASSUME NEW d \in Calls, stage'[d] = "alias"
                 PROVE  LET page == stored[<<"show", request[d].at, None>>]
                        IN /\ page # None /\ made'[page[1]][page[2]].state = "ok"
                           /\ made'[page[1]][page[2]].facts = show'[d]
      BY <1>2 DEF AliasInv
    <2> DEFINE mine == <<"show", request[d].at, None>>
    <2>1. CASE d = c
      <3>1. k = mine
        BY <1>3, <1>4, <1>5, <2>1, NextKeysTyped DEF k
      <3>2. stored[mine][1] = c /\ stored[mine][2] = k /\ stored[mine] # None
        <4>1. stored[k] = <<c, k>> /\ <<c, k>> # None
          BY <1>3, NamesAssumption DEF Pages
        <4> HIDE DEF mine
        <4> QED
          BY <3>1, <4>1
      <3>3. show'[d] = f
        BY <1>5, <2>1
      <3> HIDE DEF mine
      <3>4. made'[stored[mine][1]][stored[mine][2]].state = "ok"
            /\ made'[stored[mine][1]][stored[mine][2]].facts = f
        BY <1>9, <3>2
      <3> QED
        BY <3>2, <3>3, <3>4 DEF mine
    <2>2. CASE d # c
      <3>1. mine \in Keys
        BY <1>4, RequestTypes, KeyKinds
      <3>2. /\ stored[mine] # None /\ made[stored[mine][1]][stored[mine][2]].state = "ok"
            /\ made[stored[mine][1]][stored[mine][2]].facts = show[d]
        BY <1>5, <2>2 DEF IInv, AliasInv
      <3> HIDE DEF mine
      <3>3. stored[mine] \in Pages /\ (stored[mine][1] # c \/ stored[mine][2] # k)
        BY <1>3, <1>7, <3>1, <3>2
      <3>4. made'[stored[mine][1]][stored[mine][2]] = made[stored[mine][1]][stored[mine][2]]
        BY <1>9, <3>3 DEF Pages
      <3>5. show'[d] = show[d]
        BY <1>5, <2>2
      <3> QED
        BY <3>2, <3>4, <3>5 DEF mine
    <2> QED
      BY <2>1, <2>2
  <1>15. CancelHasCause'
    BY <1>2, <1>5 DEF IInv, CancelHasCause
  <1> QED
    BY <1>5, <1>10, <1>11, <1>12, <1>13, <1>14, <1>15 DEF IInv

\* A page that failed was filed under its own key only, and is there no longer.
LEMMA FetchFailsStep == ASSUME IInv, NEW c \in Calls, FetchFails(c) PROVE IInv'
  <1> DEFINE k == key[c]
  <1>1. PICK how \in ErrorsOf(c) :
          made' = [made EXCEPT ![c][k] = [state |-> how, facts |-> None]] /\ End(c, how)
    BY DEF FetchFails, Failed
  <1>2. /\ mode[c] = "fetch" /\ stored' = [stored EXCEPT ![k] = None]
        /\ UNCHANGED <<request, key, on, local, ended>>
    BY DEF FetchFails, Withdrawn
  <1>3. how \in {"error", "cancelled"} /\ (how = "cancelled" => ended[c])
    BY DEF ErrorsOf
  <1>4. /\ k \in Keys /\ made[c][k].state = "fetching" /\ stored[k] = <<c, k>>
        /\ \A j \in Keys : stored[j] = <<c, k>> => j = k
        /\ \A d \in Calls : mode[d] = "wait" /\ on[d] = <<c, k>> => key[d] = k
        /\ outcome[c] = "busy"
    BY <1>2, Fetching
  <1>5. /\ LocalOK' /\ LoadInv' /\ request \in Loads
        /\ stage'[c] = "over" /\ mode'[c] = "enter" /\ outcome'[c] = how
        /\ \A d \in Calls \ {c} :
             stage'[d] = stage[d] /\ outcome'[d] = outcome[d] /\ mode'[d] = mode[d]
    BY <1>1, <1>2, <1>3, EndKeeps DEF IInv, TypeOK
  <1>6. made \in [Calls -> [Keys -> Page]] /\ stored \in [Keys -> Pages \cup {None}]
    BY DEF IInv, TypeOK
  <1> HIDE DEF k
  <1>7. /\ made'[c][k] = [state |-> how, facts |-> None] /\ stored'[k] = None
        /\ \A d \in Calls, j \in Keys : d # c \/ j # k => made'[d][j] = made[d][j]
        /\ \A j \in Keys : j # k => stored'[j] = stored[j]
    BY <1>1, <1>2, <1>4, <1>6
  <1>8. TypeOK'
    <2>1. [state |-> how, facts |-> None] \in Page
      BY <1>3 DEF Page, Facts
    <2>2. made' \in [Calls -> [Keys -> Page]] /\ stored' \in [Keys -> Pages \cup {None}]
      BY <1>1, <1>2, <1>4, <1>6, <2>1
    <2> QED
      BY <1>2, <1>5, <2>2, TypesTogether DEF IInv, TypeOK
  <1>9. PageInv'
    <2> SUFFICES ASSUME NEW d \in Calls, NEW j \in Keys
                 PROVE  /\ made'[d][j].state \in {"fetching", "ok"} => stored'[j] = <<d, j>>
                        /\ made'[d][j].state = "fetching" <=> mode'[d] = "fetch" /\ key[d] = j
                        /\ made'[d][j].state \in {"error", "cancelled"} => stage'[d] = "over"
                        /\ made'[d][j].state = "cancelled" => ended[d]
                        /\ made'[d][j].state = "ok" => made'[d][j].facts \in Readable(j)
      BY <1>2 DEF PageInv
    <2>1. CASE d = c /\ j = k
      BY <1>3, <1>5, <1>7, <2>1
    <2>2. CASE d = c /\ j # k
      <3>1. made'[c][j] = made[c][j] /\ stored'[j] = stored[j] /\ made[c][j].state # "fetching"
        BY <1>7, <2>2 DEF IInv, PageInv, k
      <3> QED
        BY <1>5, <2>2, <3>1 DEF IInv, PageInv
    <2>3. CASE d # c
      <3>1. made[d][j].state \in {"fetching", "ok"} => j # k
        BY <1>4, <2>3 DEF IInv, PageInv
      <3> QED
        BY <1>5, <1>7, <2>3, <3>1 DEF IInv, PageInv
    <2> QED
      BY <2>1, <2>2, <2>3
  <1>10. \A j \in Keys : stored'[j] # None =>
           /\ j # k /\ stored'[j] = stored[j] /\ stored[j] \in Pages
           /\ made'[stored[j][1]][stored[j][2]] = made[stored[j][1]][stored[j][2]]
    <2> SUFFICES ASSUME NEW j \in Keys, stored'[j] # None
                 PROVE  /\ j # k /\ stored'[j] = stored[j] /\ stored[j] \in Pages
                        /\ made'[stored[j][1]][stored[j][2]] = made[stored[j][1]][stored[j][2]]
      OBVIOUS
    <2>1. j # k /\ stored'[j] = stored[j] /\ stored[j] \in Pages
      BY <1>6, <1>7
    <2>2. stored[j][1] # c \/ stored[j][2] # k
      BY <1>4, <2>1 DEF Pages
    <2> QED
      BY <1>7, <2>1, <2>2 DEF Pages
  <1>11. FiledInv' /\ StoreTrue'
    BY <1>10 DEF IInv, FiledInv, StoreTrue
  <1>12. WaitInv'
    <2> SUFFICES ASSUME NEW d \in Calls, mode'[d] = "wait"
                 PROVE  /\ on[d] \in Pages /\ made'[on[d][1]][on[d][2]].state # "absent"
                        /\ made'[on[d][1]][on[d][2]].state \in {"fetching", "ok"} => stored'[key[d]] = on[d]
                        /\ on[d][2] # key[d] => made'[on[d][1]][on[d][2]].state = "ok"
      BY <1>2 DEF WaitInv, Awaited
    <2>1. d # c /\ mode[d] = "wait"
      BY <1>5
    <2>2. /\ on[d] \in Pages /\ made[on[d][1]][on[d][2]].state # "absent"
          /\ made[on[d][1]][on[d][2]].state \in {"fetching", "ok"} => stored[key[d]] = on[d]
          /\ on[d][2] # key[d] => made[on[d][1]][on[d][2]].state = "ok"
      BY <2>1 DEF IInv, WaitInv, Awaited
    <2>3. CASE on[d] = <<c, k>>
      <3>1. on[d][1] = c /\ on[d][2] = k /\ key[d] = k
        BY <1>4, <2>1, <2>3
      <3> QED
        BY <1>3, <1>7, <2>2, <3>1
    <2>4. CASE on[d] # <<c, k>>
      <3>1. on[d][1] # c \/ on[d][2] # k
        BY <2>2, <2>4 DEF Pages
      <3>2. made'[on[d][1]][on[d][2]] = made[on[d][1]][on[d][2]]
        BY <1>7, <2>2, <3>1 DEF Pages
      <3>3. key[d] \in Keys
        BY <2>1, NextKeysTyped DEF IInv, TypeOK, LoadInv, Ready, LocalOK
      <3>4. stored[key[d]] = on[d] => stored'[key[d]] = on[d]
        BY <1>4, <1>7, <2>4, <3>3
      <3> QED
        BY <2>2, <3>2, <3>4
    <2> QED
      BY <2>3, <2>4
  <1>13. AliasInv'
    <2> SUFFICES ASSUME NEW d \in Calls, stage'[d] = "alias"
                 PROVE  LET page == stored'[<<"show", request[d].at, None>>]
                        IN /\ page # None /\ made'[page[1]][page[2]].state = "ok"
                           /\ made'[page[1]][page[2]].facts = show[d]
      BY <1>2 DEF AliasInv, local
    <2> DEFINE mine == <<"show", request[d].at, None>>
    <2>1. mine \in Keys
      BY <1>5, RequestTypes, KeyKinds
    <2>2. /\ stored[mine] # None /\ made[stored[mine][1]][stored[mine][2]].state = "ok"
          /\ made[stored[mine][1]][stored[mine][2]].facts = show[d]
      BY <1>5 DEF IInv, AliasInv
    <2> HIDE DEF mine
    <2>3. mine # k
      BY <1>4, <2>2
    <2>4. stored'[mine] = stored[mine]
      BY <1>7, <2>1, <2>3
    <2>5. made'[stored[mine][1]][stored[mine][2]] = made[stored[mine][1]][stored[mine][2]]
      BY <1>10, <2>1, <2>2, <2>4
    <2> QED
      BY <2>2, <2>4, <2>5 DEF mine
  <1>14. CancelHasCause'
    BY <1>2, <1>3, <1>5 DEF IInv, CancelHasCause
  <1> QED
    BY <1>5, <1>8, <1>9, <1>11, <1>12, <1>13, <1>14 DEF IInv

\* Addresses of a show that are vacant get its page, others are left as they are.
LEMMA AliasStep == ASSUME IInv, NEW c \in Calls, FileAliases(c) PROVE IInv'
  <1> DEFINE mine == <<"show", request[c].at, None>>
             aliases == {<<"show", show[c], None>>, <<"show", SlugOf[show[c]], None>>}
  <1>1. LocalOK /\ request \in Loads /\ Ready(c) /\ TypeOK /\ LoadInv
    BY DEF IInv, TypeOK, LocalOK, LoadInv
  <1>2. /\ stage[c] = "alias" /\ Go(c, "all") /\ UNCHANGED <<request, made, key, on, local, ended>>
        /\ stored' = IF stored[mine] = None THEN stored
                     ELSE [k \in Keys |-> IF k \in aliases /\ stored[k] = None
                                            THEN stored[mine] ELSE stored[k]]
    BY DEF FileAliases, FreeAlias
  <1>3. mine \in Keys /\ show[c] \in Shows /\ mode[c] = "enter" /\ outcome[c] = "busy"
    BY <1>1, <1>2, RequestTypes, KeyKinds DEF Ready, NextKeys
  <1>4. /\ stored[mine] # None /\ made[stored[mine][1]][stored[mine][2]].state = "ok"
        /\ made[stored[mine][1]][stored[mine][2]].facts = show[c]
    BY <1>2 DEF IInv, AliasInv
  <1>5. mine[1] = "show"
    OBVIOUS
  <1>6. \A j \in aliases : j[1] = "show" /\ (j[2] \in Shows => j[2] = show[c])
    BY <1>3, SiteAssumption, NamesAssumption
  <1> HIDE DEF mine, aliases
  <1>7. stored[mine][2][1] = "show" /\ stored[mine] \in Pages
    BY <1>1, <1>3, <1>4, <1>5 DEF IInv, FiledInv, TypeOK
  <1>8. /\ stored' \in [Keys -> Pages \cup {None}]
        /\ \A j \in Keys : stored[j] # None => stored'[j] = stored[j]
        /\ \A j \in Keys : stored[j] = None /\ stored'[j] # None =>
             j \in aliases /\ stored'[j] = stored[mine]
    BY <1>1, <1>2, <1>4, <1>7 DEF TypeOK
  <1>9. /\ stage'[c] = "all" /\ mode' = mode /\ outcome' = outcome
        /\ \A d \in Calls : d # c => stage'[d] = stage[d]
    BY <1>1, <1>2, <1>3 DEF Go, LocalOK
  <1>10. LocalOK' /\ TypeOK'
    <2>1. LocalOK'
      BY <1>1, <1>2 DEF Go, LocalOK, local
    <2> QED
      BY <1>1, <1>2, <1>8, <2>1, TypesTogether DEF TypeOK
  <1>11. LoadInv'
    <2>1. Ready(c)'
      BY <1>2, <1>3, <1>9 DEF Ready, local
    <2>2. ASSUME NEW d \in Calls, d # c
          PROVE  Ready(d)'
      <3>1. Ready(d)
        BY <1>1 DEF LoadInv
      <3> QED
        BY <1>2, <1>9, <2>2, <3>1, ReadyStays DEF local
    <2> QED
      BY <2>1, <2>2 DEF LoadInv
  <1>12. PageInv'
    <2> SUFFICES ASSUME NEW d \in Calls, NEW j \in Keys
                 PROVE  /\ made[d][j].state \in {"fetching", "ok"} => stored'[j] = <<d, j>>
                        /\ made[d][j].state = "fetching" <=> mode[d] = "fetch" /\ key[d] = j
                        /\ made[d][j].state \in {"error", "cancelled"} => stage'[d] = "over"
                        /\ made[d][j].state = "cancelled" => ended[d]
                        /\ made[d][j].state = "ok" => made[d][j].facts \in Readable(j)
      BY <1>2, <1>9 DEF PageInv
    <2>1. <<d, j>> # None
      BY NamesAssumption DEF Pages
    <2>2. /\ made[d][j].state \in {"fetching", "ok"} => stored[j] = <<d, j>>
          /\ made[d][j].state = "fetching" <=> mode[d] = "fetch" /\ key[d] = j
          /\ made[d][j].state \in {"error", "cancelled"} => stage[d] = "over"
          /\ made[d][j].state = "cancelled" => ended[d]
          /\ made[d][j].state = "ok" => made[d][j].facts \in Readable(j)
      BY DEF IInv, PageInv
    <2>3. made[d][j].state \in {"fetching", "ok"} => stored'[j] = <<d, j>>
      BY <1>8, <2>1, <2>2
    <2>4. made[d][j].state \in {"error", "cancelled"} => stage'[d] = "over"
      BY <1>2, <1>9, <2>2
    <2> QED
      BY <2>2, <2>3, <2>4
  <1>13. FiledInv' /\ StoreTrue'
    <2> SUFFICES ASSUME NEW j \in Keys, stored'[j] # None
                 PROVE  /\ made[stored'[j][1]][stored'[j][2]].state \in {"fetching", "ok"}
                        /\ stored'[j][2] # j =>
                             /\ made[stored'[j][1]][stored'[j][2]].state = "ok"
                             /\ j[1] = "show" /\ stored'[j][2][1] = "show"
                        /\ j[1] = "show" /\ j[2] \in Shows /\ made[stored'[j][1]][stored'[j][2]].state = "ok"
                             => made[stored'[j][1]][stored'[j][2]].facts = j[2]
      BY <1>2 DEF FiledInv, StoreTrue
    <2>1. CASE stored[j] # None
      BY <1>8, <2>1 DEF IInv, FiledInv, StoreTrue
    <2>2. CASE stored[j] = None
      BY <1>4, <1>6, <1>7, <1>8, <2>2
    <2> QED
      BY <2>1, <2>2
  <1>14. WaitInv'
    <2> SUFFICES ASSUME NEW d \in Calls, mode[d] = "wait"
                 PROVE  /\ on[d] \in Pages /\ Awaited(d).state # "absent"
                        /\ Awaited(d).state \in {"fetching", "ok"} => stored'[key[d]] = on[d]
                        /\ on[d][2] # key[d] => Awaited(d).state = "ok"
      BY <1>2, <1>9 DEF WaitInv, Awaited
    <2>1. key[d] \in Keys
      BY <1>1, NextKeysTyped DEF LoadInv, Ready
    <2> QED
      BY <1>8, <2>1, NamesAssumption DEF IInv, WaitInv
  <1>15. AliasInv'
    <2> SUFFICES ASSUME NEW d \in Calls, stage'[d] = "alias"
                 PROVE  LET page == stored'[<<"show", request[d].at, None>>]
                        IN /\ page # None /\ made[page[1]][page[2]].state = "ok"
                           /\ made[page[1]][page[2]].facts = show[d]
      BY <1>2 DEF AliasInv, local
    <2>1. <<"show", request[d].at, None>> \in Keys
      BY <1>1, RequestTypes, KeyKinds
    <2>2. stage[d] = "alias"
      BY <1>9
    <2> QED
      BY <1>8, <2>1, <2>2 DEF IInv, AliasInv
  <1>16. CancelHasCause'
    BY <1>2, <1>9 DEF IInv, CancelHasCause
  <1> QED
    BY <1>10, <1>11, <1>12, <1>13, <1>14, <1>15, <1>16 DEF IInv

\* The ways a call ends without touching a page.
LEMMA TurnBackStep == ASSUME IInv, NEW c \in Calls, TurnBack(c) PROVE IInv'
  <1>1. /\ mode[c] = "enter" /\ ended[c] /\ NextKeys(c) # {} /\ End(c, "cancelled")
        /\ UNCHANGED <<request, made, stored, key, on, local, ended>>
    BY DEF TurnBack
  <1>2. stage[c] # "over"
    BY <1>1 DEF NextKeys
  <1> QED
    BY <1>1, <1>2, QuietEnd

LEMMA StopWaitingStep == ASSUME IInv, NEW c \in Calls, StopWaiting(c) PROVE IInv'
  <1>1. /\ mode[c] = "wait" /\ ended[c] /\ End(c, "cancelled")
        /\ UNCHANGED <<request, made, stored, key, on, local, ended>>
    BY DEF StopWaiting
  <1>2. stage[c] # "over"
    BY <1>1 DEF IInv, LoadInv, Ready, NextKeys
  <1> QED
    BY <1>1, <1>2, QuietEnd

LEMMA ReceiveErrorStep == ASSUME IInv, NEW c \in Calls, ReceiveError(c) PROVE IInv'
  <1>1. /\ mode[c] = "wait" /\ Awaited(c).state \in {"error", "cancelled"}
        /\ End(c, Awaited(c).state)
        /\ UNCHANGED <<request, made, stored, key, on, local, ended>>
    BY DEF ReceiveError
  <1>2. stage[c] # "over"
    BY <1>1 DEF IInv, LoadInv, Ready, NextKeys
  <1>3. on[c] \in Pages /\ on[c] # None /\ on[c][2] = key[c]
    BY <1>1, NamesAssumption DEF IInv, WaitInv
  <1>4. Awaited(c).state = "cancelled" => ended[on[c][1]]
    BY <1>3 DEF IInv, PageInv, Awaited, Pages
  <1> QED
    BY <1>1, <1>2, <1>3, <1>4, QuietEnd

\* Contexts end and never come back.
LEMMA EndContextStep == ASSUME IInv, NEW c \in Calls, EndContext(c) PROVE IInv'
  <1>1. /\ ended' = [ended EXCEPT ![c] = TRUE]
        /\ UNCHANGED <<request, made, stored, stage, mode, key, on, local, outcome>>
    BY DEF EndContext
  <1>2. ended \in [Calls -> BOOLEAN]
    BY DEF IInv, TypeOK
  <1>3. ended' \in [Calls -> BOOLEAN] /\ \A d \in Calls : ended[d] => ended'[d]
    BY <1>1, <1>2
  <1>4. TypeOK'
    BY <1>1, <1>3 DEF IInv, TypeOK, local
  <1>5. LoadInv'
    BY <1>1, ReadyStays DEF IInv, LoadInv, local
  <1>6. PageInv'
    BY <1>1, <1>3 DEF IInv, PageInv
  <1>7. FiledInv' /\ StoreTrue' /\ WaitInv' /\ AliasInv'
    BY <1>1 DEF IInv, FiledInv, StoreTrue, WaitInv, Awaited, AliasInv, local
  <1>8. CancelHasCause'
    <2> SUFFICES ASSUME NEW d \in Calls, outcome[d] = "cancelled"
                 PROVE  ended'[d] \/ (on[d] # None /\ on[d][2] = key[d] /\ ended'[on[d][1]])
      BY <1>1 DEF CancelHasCause
    <2>1. on[d] # None => on[d][1] \in Calls
      BY DEF IInv, TypeOK, Pages
    <2> QED
      BY <1>3, <2>1 DEF IInv, CancelHasCause
  <1> QED
    BY <1>4, <1>5, <1>6, <1>7, <1>8 DEF IInv

\* The invariant holds at first, and every step keeps it.
LEMMA Begin == Init => IInv
  <1> SUFFICES ASSUME Init PROVE IInv
    OBVIOUS
  <1>1. TypeOK
    BY DEF Init, TypeOK, Absent, Page, Facts
  <1>2. LoadInv
    BY DEF Init, LoadInv, Ready
  <1>3. PageInv
    BY DEF Init, PageInv, Absent
  <1>4. FiledInv /\ StoreTrue /\ WaitInv /\ AliasInv /\ CancelHasCause
    BY DEF Init, FiledInv, StoreTrue, WaitInv, AliasInv, CancelHasCause
  <1> QED
    BY <1>1, <1>2, <1>3, <1>4 DEF IInv

LEMMA Steps == IInv /\ [Next]_vars => IInv'
  <1> SUFFICES ASSUME IInv, [Next]_vars PROVE IInv'
    OBVIOUS
  <1>1. CASE UNCHANGED vars
    <2>1. TypeOK' /\ LoadInv' /\ PageInv'
      BY <1>1 DEF IInv, TypeOK, LoadInv, Ready, NextKeys, Wanted, PageInv, vars, local
    <2>2. FiledInv' /\ StoreTrue' /\ WaitInv' /\ AliasInv' /\ CancelHasCause'
      BY <1>1 DEF IInv, FiledInv, StoreTrue, WaitInv, Awaited, AliasInv, CancelHasCause, vars, local
    <2> QED
      BY <2>1, <2>2 DEF IInv
  <1>2. ASSUME NEW c \in Calls, Step(c)
        PROVE  IInv'
    BY <1>2, TurnBackStep, LeadStep, FollowStep, PublishStep, FetchFailsStep, ReceiveStep,
       ReceiveErrorStep, StopWaitingStep, AliasStep DEF Step
  <1>3. ASSUME NEW c \in Calls, EndContext(c)
        PROVE  IInv'
    BY <1>3, EndContextStep
  <1> QED
    BY <1>1, <1>2, <1>3 DEF Next

----------------------------------------------------------------------------

\* The inductive invariant: what is filed, what is awaited and what each call
\* fetches fit together, whatever order the calls take their steps in.
THEOREM Inductive == Spec => []IInv
  BY Begin, Steps, PTL DEF Spec

\* Every variable keeps its type.
THEOREM TypeCorrect == Spec => []TypeOK
  <1>1. IInv => TypeOK
    BY DEF IInv
  <1> QED
    BY <1>1, Inductive, PTL

\* However many calls ask for a page, one fetches it, and none does once it has
\* come (loadSeriesPage).
THEOREM OneFetch == Spec => []FetchedOnce
  <1>1. IInv => FetchedOnce
    <2> SUFFICES ASSUME IInv, NEW k \in Keys, NEW c \in Calls, NEW d \in Calls,
                        {made[c][k].state, made[d][k].state} \subseteq {"fetching", "ok"}
                 PROVE  c = d
      BY DEF FetchedOnce
    <2>1. stored[k] = <<c, k>> /\ stored[k] = <<d, k>>
      BY DEF IInv, PageInv
    <2> QED
      BY <2>1
  <1> QED
    BY <1>1, Inductive, PTL

\* No later call finds a failed page, and what stands under the number of a show
\* is about that show (loadSeriesPage, cacheShowAliases).
THEOREM FiledTruly == Spec => []StoreTrue
  <1>1. IInv => StoreTrue
    BY DEF IInv
  <1> QED
    BY <1>1, Inductive, PTL

\* A call is told "cancelled" for its own context or for that of the call whose
\* page it waited for, and for no other (loadSeriesPage).
THEOREM CancelledForCause == Spec => []CancelHasCause
  <1>1. IInv => CancelHasCause
    BY DEF IInv
  <1> QED
    BY <1>1, Inductive, PTL

----------------------------------------------------------------------------

\* What a call knows about its episodes stands on pages that are filed, and
\* every episode it has passed fits the rows it has read. A call that succeeded
\* is about the show it named.
Knows(c) ==
    /\ stage[c] \in {"show", "alias", "all"} => rows[c] = {}
    /\ stage[c] \in {"season", "detail"} \/ outcome[c] = "ok" =>
         /\ show[c] \in Shows
         /\ \A e \in Wanted(c) : Lists(<<"all", show[c], None>>, <<e, entry[c][e]>>)
         /\ \A p \in rows[c] : Lists(<<"season", show[c], SeasonOf[p[1]]>>, p)
    /\ stage[c] = "detail" => \A n \in 1..turn[c] : Fits(c, n, rows[c])
    /\ outcome[c] = "ok" => Valid(c) /\ \A e \in Wanted(c) : <<e, entry[c][e]>> \in rows[c]
KnowInv == \A c \in Calls : Knows(c)

\* A page that has come stays where it is filed.
LEMMA PagesStay ==
    ASSUME IInv, NEW c \in Calls, Step(c), NEW k \in Keys, NEW p, Lists(k, p)
    PROVE  Lists(k, p)'
  <1>1. /\ stored[k] # None /\ stored[k] \in Pages /\ p \in made[stored[k][1]][stored[k][2]].facts
        /\ made[stored[k][1]][stored[k][2]].state = "ok"
        /\ made \in [Calls -> [Keys -> Page]] /\ stored \in [Keys -> Pages \cup {None}]
    BY DEF Lists, IInv, TypeOK
  <1>2. /\ stored[k][1] \in Calls /\ stored[k][2] \in Keys
        /\ stored[stored[k][2]] = stored[k]
    <2>1. PICK d \in Calls, j \in Keys : stored[k] = <<d, j>>
      BY <1>1 DEF Pages
    <2>2. made[d][j].state = "ok"
      BY <1>1, <2>1
    <2>3. stored[j] = <<d, j>>
      BY <2>2 DEF IInv, PageInv
    <2> QED
      BY <2>1, <2>3
  <1>3. CASE Lead(c)
    <2>1. PICK j \in NextKeys(c) :
            /\ stored[j] = None
            /\ made' = [made EXCEPT ![c][j] = [state |-> "fetching", facts |-> None]]
            /\ stored' = [stored EXCEPT ![j] = <<c, j>>]
      BY <1>3 DEF Lead, Vacant
    <2>2. j # k /\ j # stored[k][2]
      BY <1>1, <1>2, <2>1
    <2> QED
      BY <1>1, <1>2, <2>1, <2>2 DEF Lists
  <1>4. CASE Publish(c) \/ FetchFails(c)
    <2>1. mode[c] = "fetch" /\ \E page : made' = [made EXCEPT ![c][key[c]] = page]
      BY <1>4 DEF Publish, FetchFails
    <2>2. made[c][key[c]].state = "fetching" /\ stored[key[c]] = <<c, key[c]>>
      BY <2>1, Fetching
    <2>3. stored[k][1] # c \/ stored[k][2] # key[c]
      BY <1>1, <2>2
    <2>4. made'[stored[k][1]][stored[k][2]] = made[stored[k][1]][stored[k][2]]
      BY <1>1, <1>2, <2>1, <2>3
    <2>5. k # key[c]
      BY <1>1, <2>2
    <2>6. stored'[k] = stored[k]
      BY <1>1, <1>4, <2>5 DEF Publish, FetchFails, Withdrawn
    <2> QED
      BY <1>1, <2>4, <2>6 DEF Lists
  <1>5. CASE FileAliases(c)
    <2>1. stored'[k] = stored[k] /\ made' = made
      BY <1>1, <1>5 DEF FileAliases, FreeAlias
    <2> QED
      BY <1>1, <2>1 DEF Lists
  <1>6. CASE TurnBack(c) \/ Follow(c) \/ Receive(c) \/ ReceiveError(c) \/ StopWaiting(c)
    <2>1. stored' = stored /\ made' = made
      BY <1>6 DEF TurnBack, Follow, Receive, ReceiveError, StopWaiting
    <2> QED
      BY <1>1, <2>1 DEF Lists
  <1> QED
    BY <1>3, <1>4, <1>5, <1>6 DEF Step

\* What a call knows survives the steps that leave the call alone.
LEMMA KnowsStays ==
    ASSUME IInv, NEW c \in Calls, Step(c), NEW d \in Calls, Knows(d), request' = request,
           stage'[d] = stage[d], outcome'[d] = outcome[d], show'[d] = show[d],
           entry'[d] = entry[d], rows'[d] = rows[d], turn'[d] = turn[d]
    PROVE  Knows(d)'
  <1>1. /\ Wanted(d)' = Wanted(d) /\ Wanted(d) \subseteq Episodes
        /\ \A n \in 1..turn[d] : Fits(d, n, rows[d])' = Fits(d, n, rows[d])
    BY RequestTypes DEF Wanted, Fits, IInv, TypeOK
  <1>2. \A p \in rows[d] : SeasonOf[p[1]] \in Seasons
    BY SiteAssumption DEF IInv, TypeOK
  <1>3. ASSUME stage[d] \in {"season", "detail"} \/ outcome[d] = "ok"
        PROVE  /\ show[d] \in Shows
               /\ \A e \in Wanted(d) : Lists(<<"all", show[d], None>>, <<e, entry[d][e]>>)'
               /\ \A p \in rows[d] : Lists(<<"season", show[d], SeasonOf[p[1]]>>, p)'
    BY <1>2, <1>3, KeyKinds, PagesStay DEF Knows
  <1> QED
    BY <1>1, <1>3 DEF Knows, Valid

\* The rows a call has passed fit, and so do all of them once it has succeeded.
LEMMA ServeFits ==
    ASSUME request \in Loads, LocalOK, NEW c \in Calls, NEW n \in Nat, n >= 1, NEW rs,
           Serve(c, n, rs), outcome[c] = "busy", \A m \in 1..(n - 1) : Fits(c, m, rs)
    PROVE  /\ stage'[c] \in {"detail", "over"}
           /\ stage'[c] = "detail" => \A m \in 1..turn'[c] : Fits(c, m, rs)
           /\ outcome'[c] = "ok" => Valid(c) /\ \A e \in Wanted(c) : <<e, entry[c][e]>> \in rs
  <1>1. Len(request[c].keys) \in Nat /\ Wanted(c) = {request[c].keys[m] : m \in 1..Len(request[c].keys)}
    <2>1. request[c].keys \in Seq(Episodes)
      BY RequestTypes
    <2> QED
      BY <2>1 DEF Wanted, Range
  <1>2. CASE n <= Len(request[c].keys) /\ request[c].details /\ Fits(c, n, rs)
    <2>1. Go(c, "detail") /\ turn' = [turn EXCEPT ![c] = n]
      BY <1>2 DEF Serve
    <2>2. stage'[c] = "detail" /\ outcome'[c] = "busy" /\ turn'[c] = n
      BY <2>1 DEF Go, LocalOK
    <2>3. \A m \in 1..n : m \in 1..(n - 1) \/ m = n
      OBVIOUS
    <2> QED
      BY <1>2, <2>2, <2>3
  <1>3. CASE ~(n <= Len(request[c].keys) /\ request[c].details /\ Fits(c, n, rs))
    <2> DEFINE all == \A m \in n..Len(request[c].keys) : Fits(c, m, rs)
    <2>1. End(c, IF all /\ Valid(c) THEN "ok" ELSE "error")
      BY <1>3 DEF Serve
    <2>2. stage'[c] = "over" /\ (outcome'[c] = "ok" => all /\ Valid(c))
      BY <2>1 DEF End, LocalOK
    <2>3. ASSUME all, NEW e \in Wanted(c)
          PROVE  <<e, entry[c][e]>> \in rs
      <3>1. PICK m \in 1..Len(request[c].keys) : e = request[c].keys[m]
        BY <1>1
      <3>2. m \in n..Len(request[c].keys) \/ m \in 1..(n - 1)
        BY <1>1
      <3>3. Fits(c, m, rs)
        BY <2>3, <3>2
      <3> QED
        BY <3>1, <3>3 DEF Fits
    <2> QED
      BY <2>2, <2>3
  <1> QED
    BY <1>2, <1>3

\* What a call does with a page concerns no other call.
LEMMA HaveAlone ==
    ASSUME LocalOK, NEW c \in Calls, NEW f, Have(c, f), NEW d \in Calls, d # c
    PROVE  entry'[d] = entry[d] /\ rows'[d] = rows[d] /\ turn'[d] = turn[d]
  <1>1. CASE HaveShow(c, f)
    BY <1>1 DEF HaveShow
  <1>2. CASE HaveAll(c, f)
    BY <1>2 DEF HaveAll, LocalOK
  <1>3. CASE HaveSeason(c, f)
    BY <1>3 DEF HaveSeason, Serve, LocalOK
  <1>4. CASE HaveDetail(c)
    BY <1>4 DEF HaveDetail, Serve, LocalOK
  <1> QED
    BY <1>1, <1>2, <1>3, <1>4 DEF Have

\* What a call learns from a page stands on a filed page: a season has only rows
\* of its own, so a row is found again under the season of its coordinate.
LEMMA HaveKnows ==
    ASSUME IInv, NEW c \in Calls, Knows(c), Step(c), mode[c] # "enter", NEW f, Have(c, f),
           request' = request, key' = key,
           Suits(key[c], f), stage[c] = "season" => f \in ListingsOf(key[c][3]),
           stage[c] \in {"all", "season"} => \A p \in f : Lists(key[c], p)'
    PROVE  Knows(c)'
  <1>1. LocalOK /\ request \in Loads /\ Ready(c) /\ TypeOK /\ LoadInv
    BY DEF IInv, TypeOK, LocalOK, LoadInv
  <1>2. /\ key[c] \in NextKeys(c) /\ stage[c] \notin {"alias", "over"} /\ outcome[c] = "busy"
        /\ Wanted(c)' = Wanted(c) /\ Wanted(c) \subseteq Episodes
    BY <1>1, NextKeysTyped, RequestTypes DEF Ready, LocalOK, Wanted
  <1>3. PICK s, k : s = show[c] /\ k = key[c]
    OBVIOUS
  <1>4. CASE HaveShow(c, f)
    <2>1. stage'[c] = "alias" /\ outcome'[c] = "busy" /\ rows' = rows /\ stage[c] = "show"
      BY <1>1, <1>2, <1>4 DEF HaveShow, Go, LocalOK
    <2> QED
      BY <2>1 DEF Knows
  <1>5. CASE HaveAll(c, f)
    <2>1. stage[c] = "all" /\ show' = show /\ rows' = rows /\ rows[c] = {} /\ show[c] \in Shows
      BY <1>1, <1>5 DEF HaveAll, Knows, Ready
    <2>2. k = <<"all", s, None>>
      BY <1>2, <1>3, <2>1 DEF NextKeys
    <2>3. CASE \A e \in Wanted(c) : \E i \in Ids : Numbers(f, e) = {i}
      <3>0. PICK new : new = [e \in Episodes |-> IF e \in Wanted(c)
                           THEN CHOOSE i \in Ids : Numbers(f, e) = {i} ELSE None]
        OBVIOUS
      <3>1. entry' = [entry EXCEPT ![c] = new] /\ Go(c, "season")
        BY <1>5, <2>3, <3>0 DEF HaveAll
      <3>2. \A e \in Wanted(c) : Numbers(f, e) = {new[e]}
        BY <1>2, <2>3, <3>0
      <3>3. \A e \in Wanted(c) : <<e, new[e]>> \in f
        BY <3>2 DEF Numbers
      <3>4. entry'[c] = new /\ stage'[c] = "season" /\ outcome'[c] = "busy"
        BY <1>1, <1>2, <3>1 DEF Go, LocalOK
      <3>5. ASSUME NEW e \in Wanted(c)
            PROVE  Lists(<<"all", s, None>>, <<e, new[e]>>)'
        <4>1. Lists(k, <<e, new[e]>>)'
          BY <1>3, <2>1, <3>3
        <4> QED
          BY <2>2, <4>1
      <3>6. show'[c] = s /\ rows'[c] = {}
        BY <1>3, <2>1
      <3>7. Knows(c)' <=>
              /\ s \in Shows
              /\ \A e \in Wanted(c) : Lists(<<"all", s, None>>, <<e, new[e]>>)'
        BY <1>2, <3>4, <3>6 DEF Knows
      <3> QED
        BY <1>3, <2>1, <3>5, <3>7
    <2>4. CASE ~(\A e \in Wanted(c) : \E i \in Ids : Numbers(f, e) = {i})
      <3>1. stage'[c] = "over" /\ outcome'[c] = "error"
        BY <1>1, <1>5, <2>4 DEF HaveAll, End, LocalOK
      <3> QED
        BY <3>1 DEF Knows
    <2> QED
      BY <2>3, <2>4
  <1>6. CASE HaveSeason(c, f) \/ HaveDetail(c)
    <2>0. PICK more, old : /\ old = entry[c]
                           /\ more = IF stage[c] = "season"
                                THEN f \cup {p \in rows[c] : \A q \in f : p[2] # q[2]} ELSE rows[c]
      OBVIOUS
    <2>1. /\ stage[c] \in {"season", "detail"} /\ show' = show /\ entry' = entry
          /\ rows'[c] = more /\ s \in Shows /\ show'[c] = s /\ entry'[c] = old
          /\ \A e \in Wanted(c) : Lists(<<"all", s, None>>, <<e, old[e]>>)
          /\ \A p \in rows[c] : Lists(<<"season", s, SeasonOf[p[1]]>>, p)
      BY <1>1, <1>3, <1>6, <2>0 DEF HaveSeason, HaveDetail, Knows, Ready, LocalOK
    <2>2. ASSUME NEW e \in Wanted(c)
          PROVE  Lists(<<"all", s, None>>, <<e, old[e]>>)'
      BY <2>1, KeyKinds, PagesStay
    <2>3. ASSUME NEW p \in more
          PROVE  Lists(<<"season", s, SeasonOf[p[1]]>>, p)'
      <3>1. CASE p \in rows[c]
        <4>1. SeasonOf[p[1]] \in Seasons
          BY <1>1, <3>1, SiteAssumption DEF LocalOK
        <4> QED
          BY <2>1, <3>1, <4>1, KeyKinds, PagesStay
      <3>2. CASE p \notin rows[c]
        <4>1. stage[c] = "season" /\ p \in f
          BY <2>0, <2>3, <3>2
        <4>2. SeasonOf[p[1]] = k[3]
          BY <1>3, <4>1 DEF ListingsOf
        <4>3. k = <<"season", s, SeasonOf[p[1]]>>
          BY <1>2, <1>3, <4>1, <4>2 DEF NextKeys
        <4>4. Lists(k, p)'
          BY <1>3, <4>1
        <4> QED
          BY <4>3, <4>4
      <3> QED
        BY <3>1, <3>2
    <2>8. /\ \A n : Fits(c, n, rows[c])' <=> Fits(c, n, more)
          /\ Knows(c)' <=>
               /\ stage'[c] \in {"show", "alias", "all"} => more = {}
               /\ stage'[c] = "detail" => \A n \in 1..turn'[c] : Fits(c, n, more)
               /\ outcome'[c] = "ok" =>
                    Valid(c) /\ \A e \in Wanted(c) : <<e, entry[c][e]>> \in more
      <3>1. \A n : Fits(c, n, rows[c])' <=> Fits(c, n, more)
        BY <2>0, <2>1 DEF Fits
      <3>2. \A e \in Wanted(c) : Lists(<<"all", s, None>>, <<e, old[e]>>)'
        BY <2>2
      <3>3. \A p \in more : Lists(<<"season", s, SeasonOf[p[1]]>>, p)'
        BY <2>3
      <3>4. Valid(c)' <=> Valid(c)
        BY <1>3, <2>1 DEF Valid
      <3> QED
        BY <1>2, <2>0, <2>1, <3>1, <3>2, <3>3, <3>4 DEF Knows
    <2>4. CASE stage[c] = "season" /\ left[c] \ {key[c][3]} # {}
      <3>1. stage'[c] = "season" /\ outcome'[c] = "busy"
        BY <1>1, <1>2, <1>6, <2>4 DEF HaveSeason, HaveDetail, Go, LocalOK
      <3> QED
        BY <2>8, <3>1
    <2>5. CASE ~(stage[c] = "season" /\ left[c] \ {key[c][3]} # {})
      <3>1. CASE stage[c] = "season"
        <4>1. Serve(c, 1, more)
          BY <1>6, <2>5, <3>1, <2>0 DEF HaveSeason, HaveDetail
        <4>2. \A m \in 1..(1 - 1) : Fits(c, m, more)
          OBVIOUS
        <4>3. /\ stage'[c] \in {"detail", "over"}
              /\ stage'[c] = "detail" => \A m \in 1..turn'[c] : Fits(c, m, more)
              /\ outcome'[c] = "ok" =>
                   Valid(c) /\ \A e \in Wanted(c) : <<e, entry[c][e]>> \in more
          BY <1>1, <1>2, <4>1, <4>2, ServeFits
        <4> QED
          BY <2>8, <4>3
      <3>2. CASE stage[c] = "detail"
        <4>1. Serve(c, turn[c] + 1, rows[c]) /\ more = rows[c]
          BY <1>6, <2>0, <3>2 DEF HaveSeason, HaveDetail
        <4>2. turn[c] \in Nat /\ turn[c] + 1 \in Nat /\ turn[c] + 1 >= 1 /\ turn[c] + 1 - 1 = turn[c]
          BY <1>1 DEF LocalOK
        <4>3. \A m \in 1..(turn[c] + 1 - 1) : Fits(c, m, rows[c])
          BY <3>2, <4>2 DEF Knows
        <4>4. /\ stage'[c] \in {"detail", "over"}
              /\ stage'[c] = "detail" => \A m \in 1..turn'[c] : Fits(c, m, rows[c])
              /\ outcome'[c] = "ok" =>
                   Valid(c) /\ \A e \in Wanted(c) : <<e, entry[c][e]>> \in rows[c]
          BY <1>1, <1>2, <4>1, <4>2, <4>3, ServeFits
        <4> QED
          BY <2>8, <4>1, <4>4
      <3> QED
        BY <2>1, <3>1, <3>2
    <2> QED
      BY <2>4, <2>5
  <1> QED
    BY <1>4, <1>5, <1>6 DEF Have

\* Every step of every call keeps what the calls know.
LEMMA KnowStep == ASSUME IInv, KnowInv, NEW c \in Calls, Step(c) PROVE KnowInv'
  <1>1. LocalOK /\ request \in Loads /\ Ready(c) /\ TypeOK /\ LoadInv /\ Knows(c)
    BY DEF IInv, TypeOK, LocalOK, LoadInv, KnowInv
  <1>2. request' = request
    BY DEF Step, TurnBack, Lead, Follow, Publish, FetchFails, Receive, ReceiveError, StopWaiting,
           FileAliases
  <1>3. ASSUME NEW d \in Calls, d # c
        PROVE  Knows(d)'
    <2>1. CASE Publish(c) \/ Receive(c)
      <3>1. PICK f : Have(c, f)
        BY <2>1 DEF Publish, Receive
      <3>2. /\ stage'[d] = stage[d] /\ outcome'[d] = outcome[d] /\ show'[d] = show[d]
        <4>1. mode[c] # "enter" /\ key' = key
          BY <2>1 DEF Publish, Receive
        <4> QED
          BY <1>1, <1>3, <3>1 DEF Have, HaveShow, HaveAll, HaveSeason, HaveDetail, Serve, Go, End, LocalOK
      <3>3. entry'[d] = entry[d] /\ rows'[d] = rows[d] /\ turn'[d] = turn[d]
        BY <1>1, <1>3, <3>1, HaveAlone
      <3> QED
        BY <1>2, <3>2, <3>3, KnowsStays DEF KnowInv
    <2>2. CASE ~(Publish(c) \/ Receive(c))
      <3>1. UNCHANGED local /\ stage'[d] = stage[d] /\ outcome'[d] = outcome[d]
        BY <1>1, <1>3, <2>2 DEF Step, TurnBack, Lead, Follow, FetchFails, ReceiveError, StopWaiting,
                                FileAliases, Go, End, LocalOK
      <3> QED
        BY <1>2, <3>1, KnowsStays DEF KnowInv, local
    <2> QED
      BY <2>1, <2>2
  <1>4. Knows(c)'
    <2>1. CASE TurnBack(c) \/ FetchFails(c) \/ ReceiveError(c) \/ StopWaiting(c)
      <3>1. PICK how \in {"error", "cancelled"} : End(c, how)
        BY <2>1 DEF TurnBack, FetchFails, ErrorsOf, ReceiveError, StopWaiting
      <3>2. stage'[c] = "over" /\ outcome'[c] \in {"error", "cancelled"}
        BY <1>1, <3>1 DEF End, LocalOK
      <3> QED
        BY <3>2 DEF Knows
    <2>2. CASE Lead(c) \/ Follow(c)
      BY <1>1, <1>2, <2>2, KnowsStays DEF Lead, Follow, local
    <2>3. CASE FileAliases(c)
      <3>1. /\ stage[c] = "alias" /\ stage'[c] = "all" /\ outcome'[c] = outcome[c]
            /\ rows'[c] = rows[c]
        BY <1>1, <2>3 DEF FileAliases, Go, LocalOK, local
      <3>2. outcome[c] = "busy"
        BY <1>1, <3>1 DEF Ready
      <3> QED
        BY <1>1, <3>1, <3>2 DEF Knows
    <2>4. CASE Publish(c)
      <3>1. PICK f \in Readable(key[c]) :
              made' = [made EXCEPT ![c][key[c]] = [state |-> "ok", facts |-> f]] /\ Have(c, f)
        BY <2>4 DEF Publish
      <3>2. mode[c] = "fetch" /\ stored' = stored /\ key' = key
        BY <2>4 DEF Publish
      <3>3. key[c] \in Keys /\ key[c][1] = stage[c] /\ stored[key[c]] = <<c, key[c]>>
        BY <3>2, Fetching
      <3>4. made'[c][key[c]].state = "ok" /\ made'[c][key[c]].facts = f
        BY <1>1, <3>1, <3>3 DEF TypeOK
      <3>5. \A p \in f : Lists(key[c], p)'
        <4>1. stored'[key'[c]] # None /\ stored'[key'[c]] = <<c, key[c]>>
          BY <3>2, <3>3, NamesAssumption DEF Pages
        <4> QED
          BY <3>4, <4>1 DEF Lists
      <3>6. Suits(key[c], f) /\ (stage[c] = "season" => f \in ListingsOf(key[c][3]))
        BY <3>3, ReadableSuits DEF Readable
      <3> QED
        BY <1>1, <1>2, <3>1, <3>2, <3>5, <3>6, HaveKnows
    <2>5. CASE Receive(c)
      <3>1. PICK f : f = Awaited(c).facts
        OBVIOUS
      <3>2. mode[c] = "wait" /\ Awaited(c).state = "ok" /\ Have(c, f)
            /\ UNCHANGED <<made, stored, key>>
        BY <2>5, <3>1 DEF Receive
      <3>3. key[c] \in NextKeys(c) /\ key[c] \in Keys /\ key[c][1] = stage[c]
        BY <1>1, <3>2, NextKeysTyped DEF Ready
      <3>4. /\ on[c] \in Pages /\ on[c] # None /\ on[c][1] \in Calls /\ on[c][2] \in Keys
            /\ stored[key[c]] = on[c]
        BY <3>2, NamesAssumption DEF IInv, WaitInv, Pages
      <3>5. f \in Readable(on[c][2])
        BY <3>1, <3>2, <3>4 DEF IInv, PageInv, Awaited
      <3>6. on[c][2] # key[c] => key[c][1] = "show" /\ on[c][2][1] = "show"
        BY <3>3, <3>4 DEF IInv, FiledInv
      <3>7. Suits(key[c], f) /\ (stage[c] = "season" => f \in ListingsOf(key[c][3]))
        <4>1. Suits(on[c][2], f)
          BY <3>4, <3>5, ReadableSuits
        <4> QED
          BY <3>3, <3>5, <3>6, <4>1 DEF Suits, Readable
      <3>8. \A p \in f : Lists(key[c], p)'
        BY <3>1, <3>2, <3>4 DEF Lists, Awaited
      <3> QED
        BY <1>1, <1>2, <3>2, <3>7, <3>8, HaveKnows
    <2> QED
      BY <2>1, <2>2, <2>3, <2>4, <2>5 DEF Step
  <1> QED
    BY <1>3, <1>4 DEF KnowInv

LEMMA Known == Spec => []KnowInv
  <1>1. Init => KnowInv
    BY DEF Init, KnowInv, Knows
  <1>2. IInv /\ KnowInv /\ [Next]_vars => KnowInv'
    <2> SUFFICES ASSUME IInv, KnowInv, [Next]_vars PROVE KnowInv'
      OBVIOUS
    <2>1. CASE UNCHANGED vars
      BY <2>1 DEF KnowInv, Knows, Lists, Fits, Wanted, Valid, vars, local
    <2>2. ASSUME NEW c \in Calls, Step(c)
          PROVE  KnowInv'
      BY <2>2, KnowStep
    <2>3. ASSUME NEW c \in Calls, EndContext(c)
          PROVE  KnowInv'
      BY <2>3 DEF EndContext, KnowInv, Knows, Lists, Fits, Wanted, Valid, local
    <2> QED
      BY <2>1, <2>2, <2>3 DEF Next
  <1> QED
    BY <1>1, <1>2, Inductive, PTL DEF Spec

\* What a call that succeeded tells stands on the list of the show and on that
\* of the season, and both stay where later calls find them (FetchSeries).
THEOREM ToldConfirmed == Spec => []Confirmed
  <1>1. IInv /\ KnowInv => Confirmed
    <2> SUFFICES ASSUME IInv, KnowInv, NEW c \in Calls, outcome[c] = "ok", NEW e \in Wanted(c),
                        NEW k \in {<<"all", show[c], None>>, <<"season", show[c], SeasonOf[e]>>}
                 PROVE  /\ stored[k] # None
                        /\ <<e, entry[c][e]>> \in made[stored[k][1]][stored[k][2]].facts
      BY DEF Confirmed
    <2>1. Knows(c)
      BY DEF KnowInv
    <2>2. <<e, entry[c][e]>> \in rows[c] /\ <<e, entry[c][e]>>[1] = e
      BY <2>1 DEF Knows
    <2>3. Lists(k, <<e, entry[c][e]>>)
      BY <2>1, <2>2 DEF Knows
    <2> QED
      BY <2>3 DEF Lists
  <1> QED
    BY <1>1, Known, Inductive, PTL

----------------------------------------------------------------------------

\* What is filed under the key of a list is that list: rows of episodes with
\* numbers, in the list of a season one for each coordinate.
LEMMA RowsTyped ==
    ASSUME IInv, NEW k \in Keys, k[1] \in {"all", "season"}, NEW p, Lists(k, p)
    PROVE  /\ p \in Episodes \X Ids
           /\ k[1] = "season" => \A q : Lists(k, q) /\ q[1] = p[1] => q = p
  <1>1. PICK c \in Calls, j \in Keys : stored[k] = <<c, j>>
    BY DEF IInv, TypeOK, Lists, Pages
  <1>2. made[c][j].state = "ok" /\ p \in made[c][j].facts /\ j = k
    <2>1. stored[k] # None /\ stored[k][1] = c /\ stored[k][2] = j
      BY <1>1 DEF Lists
    <2>2. stored[k][2] = k
      BY <2>1 DEF IInv, FiledInv
    <2> QED
      BY <2>1, <2>2 DEF Lists
  <1>3. made[c][k].facts \in Readable(k)
    BY <1>2 DEF IInv, PageInv
  <1>4. made[c][k].facts \subseteq Episodes \X Ids
    BY <1>3, ReadableSuits, SiteAssumption DEF Suits
  <1>5. k[1] = "season" =>
          \A q \in made[c][k].facts : \A r \in made[c][k].facts : r[1] = q[1] => r = q
    BY <1>3 DEF Readable, ListingsOf
  <1>6. \A q : Lists(k, q) => q \in made[c][k].facts
    BY <1>1, <1>2 DEF Lists
  <1> QED
    BY <1>2, <1>4, <1>5, <1>6

\* The keys of the two lists an answer stands on.
LEMMA TwoLists ==
    \A s \in Shows, e \in Episodes :
        /\ <<"all", s, None>> \in Keys /\ <<"season", s, SeasonOf[e]>> \in Keys
        /\ <<"all", s, None>>[1] = "all" /\ <<"season", s, SeasonOf[e]>>[1] = "season"
  BY KeyKinds DEF Seasons

\* What a call told stands in the book, of the show it was asked for.
TellsBook ==
    \A c \in Calls : outcome[c] = "ok" =>
        /\ show[c] \in Shows /\ Wants[c].of \in {show[c], None}
        /\ Told[c].ids \in [DOMAIN Wants[c].keys -> Ids]
        /\ \A n \in DOMAIN Wants[c].keys : <<show[c], Wants[c].keys[n], Told[c].ids[n]>> \in Book

LEMMA ReadFromBook == IInv /\ KnowInv => TellsBook
  <1> SUFFICES ASSUME IInv, KnowInv, NEW c \in Calls, outcome[c] = "ok"
               PROVE  /\ show[c] \in Shows /\ Wants[c].of \in {show[c], None}
                      /\ Told[c].ids \in [DOMAIN Wants[c].keys -> Ids]
                      /\ \A n \in DOMAIN Wants[c].keys :
                           <<show[c], Wants[c].keys[n], Told[c].ids[n]>> \in Book
    BY DEF TellsBook
  <1> DEFINE keys == request[c].keys
  <1>1. Knows(c) /\ show[c] \in Shows /\ Valid(c) /\ request \in Loads
    BY DEF KnowInv, Knows, IInv, TypeOK
  <1>2. /\ Wants[c].keys = keys /\ Wants[c].of = Named(request[c].at)
        /\ Told[c].ids = [n \in DOMAIN keys |-> entry[c][keys[n]]]
    BY DEF Wants, Told
  <1>3. Wants[c].of \in {show[c], None}
    BY <1>1, <1>2 DEF Named, Valid
  <1>4. ASSUME NEW n \in DOMAIN keys
        PROVE  entry[c][keys[n]] \in Ids /\ <<show[c], keys[n], entry[c][keys[n]]>> \in Book
    <2> DEFINE e == keys[n]
    <2>1. e \in Wanted(c) /\ e \in Episodes
      BY <1>1, RequestTypes DEF Wanted, Range
    <2> HIDE DEF keys, e
    <2>2. <<e, entry[c][e]>> \in rows[c] /\ <<e, entry[c][e]>>[1] = e
      BY <1>1, <2>1 DEF Knows
    <2>3. /\ Lists(<<"all", show[c], None>>, <<e, entry[c][e]>>)
          /\ Lists(<<"season", show[c], SeasonOf[e]>>, <<e, entry[c][e]>>)
      BY <1>1, <2>1, <2>2 DEF Knows
    <2>4. entry[c][e] \in Ids
      <3>1. <<e, entry[c][e]>> \in Episodes \X Ids
        BY <1>1, <2>1, <2>3, TwoLists, RowsTyped
      <3> QED
        BY <3>1
    <2> QED
      BY <1>1, <2>1, <2>3, <2>4 DEF Book, e
  <1> QED
    BY <1>1, <1>2, <1>3, <1>4

\* A season has one number for a coordinate.
OneNumber == Seen!Single(Book)

LEMMA BookSingle == IInv => OneNumber
  <1> SUFFICES ASSUME IInv, NEW s \in Shows, NEW e \in Episodes, NEW i \in Ids, NEW j \in Ids,
                      Lists(<<"season", s, SeasonOf[e]>>, <<e, i>>),
                      Lists(<<"season", s, SeasonOf[e]>>, <<e, j>>)
               PROVE  i = j
    BY DEF OneNumber, Seen!Single, Book
  <1>1. <<e, i>>[1] = e /\ <<e, j>>[1] = e
    OBVIOUS
  <1>2. <<e, i>> = <<e, j>>
    BY <1>1, TwoLists, RowsTyped
  <1> QED
    BY <1>2

\* What stands in the book stays there.
LEMMA BookStays == ASSUME IInv, NEW c \in Calls, Step(c) PROVE Book \subseteq Book'
  <1> SUFFICES ASSUME NEW s \in Shows, NEW e \in Episodes, NEW i \in Ids,
                      NEW k \in {<<"all", s, None>>, <<"season", s, SeasonOf[e]>>},
                      Lists(k, <<e, i>>)
               PROVE  Lists(k, <<e, i>>)'
    BY DEF Book
  <1> QED
    BY TwoLists, PagesStay

\* A step ends one call at most, and leaves what the others told.
LEMMA OneEnds ==
    ASSUME IInv, NEW c \in Calls, Step(c)
    PROVE  /\ UNCHANGED request /\ outcome[c] = "busy"
           /\ UNCHANGED outcome \/ \E how \in {"ok", "error", "cancelled"} :
                                     outcome' = [outcome EXCEPT ![c] = how]
           /\ \A d \in Calls \ {c} : show'[d] = show[d] /\ entry'[d] = entry[d]
  <1>1. LocalOK /\ request \in Loads /\ Ready(c)
    BY DEF IInv, TypeOK, LocalOK, LoadInv
  <1>2. UNCHANGED request
    BY DEF Step, TurnBack, Lead, Follow, Publish, FetchFails, Receive, ReceiveError, StopWaiting,
           FileAliases
  <1>3. outcome[c] = "busy"
    <2>1. stage[c] # "over"
      <3>1. CASE mode[c] # "enter"
        BY <1>1, <3>1, NextKeysTyped DEF Ready
      <3>2. CASE mode[c] = "enter"
        <4>1. NextKeys(c) # {} \/ stage[c] = "alias"
          BY <3>2 DEF Step, TurnBack, Lead, Follow, Publish, FetchFails, Receive, ReceiveError,
                      StopWaiting, FileAliases
        <4> QED
          BY <1>1, <4>1, NextKeysTyped
      <3> QED
        BY <3>1, <3>2
    <2> QED
      BY <1>1, <2>1 DEF Ready
  <1>4. CASE Publish(c) \/ Receive(c)
    <2>1. PICK f : Have(c, f)
      BY <1>4 DEF Publish, Receive
    <2>2. \A d \in Calls \ {c} : show'[d] = show[d] /\ entry'[d] = entry[d]
      BY <1>1, <2>1, HaveAlone DEF Have, HaveShow, HaveAll, HaveSeason, HaveDetail, LocalOK
    <2>3. UNCHANGED outcome \/ \E how \in {"ok", "error"} : End(c, how)
      BY <2>1 DEF Have, HaveShow, HaveAll, HaveSeason, HaveDetail, Serve, Go
    <2> QED
      BY <1>2, <1>3, <2>2, <2>3 DEF End
  <1>5. CASE Lead(c) \/ Follow(c) \/ FileAliases(c)
    BY <1>2, <1>3, <1>5 DEF Lead, Follow, FileAliases, Go, local
  <1>6. CASE TurnBack(c) \/ FetchFails(c) \/ ReceiveError(c) \/ StopWaiting(c)
    <2>1. UNCHANGED local /\ \E how \in {"error", "cancelled"} : End(c, how)
      BY <1>6 DEF TurnBack, FetchFails, ErrorsOf, ReceiveError, StopWaiting
    <2> QED
      BY <1>2, <1>3, <2>1 DEF End, local
  <1> QED
    BY <1>4, <1>5, <1>6 DEF Step

\* Every step of a call reads, adds to, or leaves alone the book the callers see.
LEMMA SeenStep ==
    ASSUME IInv, OneNumber', TellsBook', NEW c \in Calls, Step(c)
    PROVE  Seen!AnswersNext
  <1>1. Seen!Learn
    BY BookStays DEF Seen!Learn, OneNumber
  <1>2. /\ UNCHANGED request /\ outcome[c] = "busy"
        /\ outcome \in [Calls -> {"busy", "ok", "error", "cancelled"}]
        /\ \A d \in Calls \ {c} : show'[d] = show[d] /\ entry'[d] = entry[d]
    BY OneEnds DEF IInv, TypeOK
  <1>3. UNCHANGED Wants
    BY <1>2 DEF Wants
  <1>4. \A d \in Calls \ {c} : outcome'[d] = outcome[d] => Told'[d] = Told[d]
    BY <1>2 DEF Told
  <1>5. Told[c] = None /\ (outcome'[c] # "ok" => Told'[c] = None)
    BY <1>2 DEF Told
  <1>6. CASE UNCHANGED outcome
    <2>1. UNCHANGED Told
      BY <1>2, <1>4, <1>5, <1>6 DEF Told
    <2> QED
      BY <1>1, <1>3, <1>6, <2>1 DEF Seen!AnswersNext, Seen!Wait
  <1>7. ASSUME NEW how \in {"ok", "error", "cancelled"}, outcome' = [outcome EXCEPT ![c] = how]
        PROVE  Seen!Answer(c) \/ Seen!Refuse(c)
    <2>1. outcome'[c] = how /\ \A d \in Calls \ {c} : Told'[d] = Told[d]
      BY <1>2, <1>4, <1>7
    <2>2. CASE how = "ok"
      <3> DEFINE ids == Told'[c].ids
                 tale == [show |-> show'[c], ids |-> ids]
      <3>1. /\ show'[c] \in Shows /\ Wants[c].of \in {show'[c], None}
            /\ ids \in [DOMAIN Wants[c].keys -> Ids]
            /\ \A n \in DOMAIN ids : <<show'[c], Wants[c].keys[n], ids[n]>> \in Book'
        BY <1>3, <2>1, <2>2 DEF TellsBook
      <3>2. Told'[c] = tale
        BY <2>1, <2>2 DEF Told
      <3> HIDE DEF ids
      <3>3. Told' = [Told EXCEPT ![c] = tale]
        BY <2>1, <3>2 DEF Told
      <3> QED
        BY <1>2, <1>7, <2>2, <3>1, <3>3 DEF Seen!Answer
    <2>3. CASE how # "ok"
      <3>1. Told'[c] = Told[c]
        BY <1>5, <2>1, <2>3
      <3>2. UNCHANGED Told
        BY <2>1, <3>1 DEF Told
      <3> QED
        BY <1>2, <1>7, <2>3, <3>2 DEF Seen!Refuse
    <2> QED
      BY <2>2, <2>3
  <1> QED
    BY <1>1, <1>3, <1>6, <1>7, OneEnds DEF Seen!AnswersNext

\* The calls of this provider too are to their callers what SeriesAnswers says,
\* although nothing keeps them apart: the book is what two lists confirm, on
\* pages read by any of them, of which those that fail are withdrawn.
THEOREM Refinement == Spec => ImplementsAnswers
  <1>1. Init => Seen!Fresh
    <2> SUFFICES ASSUME Init PROVE Seen!Fresh
      OBVIOUS
    <2>1. \A s \in Shows : <<"all", s, None>> \in Keys
      BY KeyKinds
    <2>2. \A s \in Shows : stored[<<"all", s, None>>] = None
      BY <2>1 DEF Init
    <2>3. Book = {}
      BY <2>2 DEF Book, Lists
    <2>4. outcome = [c \in Calls |-> "busy"] /\ Told = [c \in Calls |-> None]
      BY DEF Init, Told
    <2> QED
      BY <2>3, <2>4 DEF Seen!Fresh
  <1>2. IInv /\ OneNumber' /\ TellsBook' /\ [Next]_vars => [Seen!AnswersNext]_(Seen!answersVars)
    <2>1. ASSUME UNCHANGED <<request, made, stored, local, outcome>>
          PROVE  UNCHANGED <<Wants, Book, Told, outcome>>
      BY <2>1 DEF Wants, Book, Told, Lists, local
    <2>2. ASSUME NEW c \in Calls, EndContext(c)
          PROVE  UNCHANGED <<Wants, Book, Told, outcome>>
      BY <2>1, <2>2 DEF EndContext
    <2>3. CASE UNCHANGED vars
      BY <2>1, <2>3 DEF vars, Seen!answersVars
    <2> QED
      BY <2>2, <2>3, SeenStep DEF Next, Seen!answersVars
  <1> QED
    BY <1>1, <1>2, BookSingle, ReadFromBook, Inductive, Known, PTL
       DEF Spec, ImplementsAnswers, Seen!AnswersSpec

\* No two calls tell different numbers for one episode of one show, although
\* they may have come by its number and by its slug, and read it at other times.
THEOREM NeverContradicts == Spec => []Seen!NoContradiction
  <1>1. IInv /\ KnowInv => Seen!NoContradiction
    <2> SUFFICES ASSUME IInv, KnowInv, NEW c \in Calls, NEW d \in Calls,
                        Told[c] # None, Told[d] # None, Told[c].show = Told[d].show,
                        NEW m \in DOMAIN Wants[c].keys, NEW n \in DOMAIN Wants[d].keys,
                        Wants[c].keys[m] = Wants[d].keys[n]
                 PROVE  Told[c].ids[m] = Told[d].ids[n]
      BY DEF Seen!NoContradiction
    <2>1. outcome[c] = "ok" /\ outcome[d] = "ok"
      BY DEF Told
    <2>2. Told[c].show = show[c] /\ Told[d].show = show[d]
      BY <2>1 DEF Told
    <2>3. /\ <<show[c], Wants[c].keys[m], Told[c].ids[m]>> \in Book
          /\ <<show[d], Wants[d].keys[n], Told[d].ids[n]>> \in Book
      BY <2>1, ReadFromBook DEF TellsBook
    <2> QED
      BY <2>2, <2>3, BookSingle DEF OneNumber, Seen!Single
  <1> QED
    BY <1>1, Inductive, Known, PTL

----------------------------------------------------------------------------

\* How far a call is from its end: the stages before it, and in a stage the
\* seasons still to load or the episodes still to come; a page is first asked
\* for, then received.
StageRank(at) ==
    CASE at = "show" -> 5 [] at = "alias" -> 4 [] at = "all" -> 3 [] at = "season" -> 2
      [] at = "detail" -> 1 [] OTHER -> 0
Ahead(c) ==
    CASE stage[c] = "season" -> Cardinality(left[c])
      [] stage[c] = "detail" -> Len(request[c].keys) - turn[c]
      [] OTHER -> 0
Work(c) == 2 * Ahead(c) + (IF mode[c] = "enter" THEN 1 ELSE 0)
Nearer(c) ==
    \/ StageRank(stage'[c]) < StageRank(stage[c])
    \/ stage'[c] = stage[c] /\ Work(c)' < Work(c)
Untouched(c) == stage'[c] = stage[c] /\ Work(c)' = Work(c)
Advance ==
    \/ \E c \in Calls : Nearer(c) /\ UNCHANGED ended /\ \A d \in Calls \ {c} : Untouched(d)
    \/ \E c \in Calls : /\ ~ended[c] /\ ended' = [ended EXCEPT ![c] = TRUE]
                        /\ \A d \in Calls : Untouched(d)
WorkCounts == \A c \in Calls : Work(c) \in Nat

\* A call at the seasons has some left, all of them wanted.
SeasonsOf(c) == {SeasonOf[e] : e \in Wanted(c)}
LeftInv ==
    \A c \in Calls : /\ left[c] \subseteq SeasonsOf(c)
                     /\ stage[c] = "season" => left[c] # {}

\* A busy call has a page to ask for, one it has asked for, one that has come or
\* failed, or waits for a page another call has asked for.
Moves(c) ==
    \/ stage[c] = "alias" \/ mode[c] = "fetch"
    \/ mode[c] = "enter" /\ NextKeys(c) # {}
    \/ mode[c] = "wait" /\ Awaited(c).state \in {"ok", "error", "cancelled"}
NobodyStuck ==
    \A c \in Calls : outcome[c] = "busy" =>
        Moves(c) \/ (mode[c] = "wait" /\ mode[on[c][1]] = "fetch")

LEMMA SeasonsOfFinite ==
    ASSUME request \in Loads, NEW c \in Calls, NEW S \in SUBSET SeasonsOf(c)
    PROVE  IsFiniteSet(S) /\ Cardinality(S) \in Nat
  <1> DEFINE N == 1..Len(request[c].keys)
             at == [n \in N |-> SeasonOf[request[c].keys[n]]]
  <1>1. request[c].keys \in Seq(Episodes) /\ Len(request[c].keys) \in Nat
    BY RequestTypes
  <1>2. Wanted(c) = {request[c].keys[n] : n \in N}
    BY <1>1 DEF Wanted, Range
  <1>3. at \in Surjection(N, SeasonsOf(c))
    <2>1. \A n \in N : at[n] \in SeasonsOf(c)
      BY <1>2 DEF SeasonsOf
    <2>2. \A s \in SeasonsOf(c) : \E n \in N : at[n] = s
      BY <1>2 DEF SeasonsOf
    <2> QED
      BY <2>1, <2>2 DEF Surjection
  <1>4. IsFiniteSet(N)
    BY <1>1, FS_Interval
  <1>5. IsFiniteSet(SeasonsOf(c))
    BY <1>3, <1>4, FS_Surjection
  <1>6. IsFiniteSet(S)
    BY <1>5, FS_Subset
  <1> QED
    BY <1>6, FS_CardinalityType

\* The part of the invariant the seasons need, for one call.
LeftOK(c) == left[c] \subseteq SeasonsOf(c) /\ (stage[c] = "season" => left[c] # {})

LEMMA WorkTyped ==
    ASSUME IInv, NEW c \in Calls, LeftOK(c)
    PROVE  Ahead(c) \in Nat /\ Work(c) \in Nat
  <1>1. request \in Loads /\ Ready(c)
    BY DEF IInv, TypeOK, LoadInv
  <1>2. Cardinality(left[c]) \in Nat
    BY <1>1, SeasonsOfFinite DEF LeftOK
  <1>3. stage[c] = "detail" => Len(request[c].keys) - turn[c] \in Nat
    BY <1>1, RequestTypes DEF Ready
  <1>4. Ahead(c) \in Nat
    BY <1>2, <1>3 DEF Ahead
  <1> QED
    BY <1>4 DEF Work

\* A call with a page goes on: to a later stage, to one season less, or to the
\* next episode.
LEMMA HaveNearer ==
    ASSUME IInv, LeftInv, NEW c \in Calls, NEW f, Have(c, f), mode[c] # "enter",
           request' = request, LocalOK'
    PROVE  Nearer(c) /\ LeftOK(c)' /\ \A d \in Calls \ {c} : stage'[d] = stage[d] /\ left'[d] = left[d]
  <1>1. LocalOK /\ request \in Loads /\ Ready(c) /\ LeftOK(c)
    BY DEF IInv, TypeOK, LocalOK, LoadInv, LeftInv, LeftOK
  <1>2. /\ SeasonsOf(c)' = SeasonsOf(c) /\ Len(request[c].keys) \in Nat /\ Len(request[c].keys) # 0
        /\ key[c] \in NextKeys(c)
    BY <1>1, RequestTypes DEF SeasonsOf, Wanted, Ready
  <1>3. Work(c) = 2 * Ahead(c) + 0
    BY DEF Work
  <1>4. CASE HaveShow(c, f)
    <2>1. stage[c] = "show" /\ stage'[c] = "alias" /\ left' = left
      BY <1>1, <1>4 DEF HaveShow, Go, LocalOK
    <2>2. \A d \in Calls \ {c} : stage'[d] = stage[d]
      BY <1>1, <1>4 DEF HaveShow, Go, LocalOK
    <2> QED
      BY <1>1, <1>2, <2>1, <2>2 DEF Nearer, StageRank, LeftOK
  <1>5. CASE HaveAll(c, f)
    <2>1. stage[c] = "all" /\ \A d \in Calls \ {c} : stage'[d] = stage[d] /\ left'[d] = left[d]
      BY <1>1, <1>5 DEF HaveAll, Go, End, LocalOK
    <2>2. \/ stage'[c] = "over" /\ left'[c] = left[c]
          \/ stage'[c] = "season" /\ left'[c] = SeasonsOf(c)
      BY <1>1, <1>5 DEF HaveAll, Go, End, LocalOK, SeasonsOf
    <2>3. SeasonsOf(c) # {}
      <3>1. request[c].keys[1] \in Wanted(c)
        BY <1>1, <1>2, RequestTypes
      <3> QED
        BY <3>1 DEF SeasonsOf
    <2> QED
      BY <1>1, <1>2, <2>1, <2>2, <2>3 DEF Nearer, StageRank, LeftOK
  <1>6. CASE HaveSeason(c, f)
    <2> DEFINE others == left[c] \ {key[c][3]}
               known == f \cup {p \in rows[c] : \A q \in f : p[2] # q[2]}
    <2>1. stage[c] = "season" /\ left'[c] = others /\ \A d \in Calls \ {c} : left'[d] = left[d]
      BY <1>1, <1>6 DEF HaveSeason, LocalOK
    <2>2. key[c][3] \in left[c]
      BY <1>2, <2>1 DEF NextKeys
    <2>3. CASE others # {}
      <3>1. /\ stage'[c] = "season" /\ mode'[c] = "enter"
            /\ \A d \in Calls \ {c} : stage'[d] = stage[d]
        BY <1>1, <1>6, <2>3 DEF HaveSeason, Go, LocalOK
      <3>2. Cardinality(left[c]) \in Nat /\ Cardinality(others) = Cardinality(left[c]) - 1
        BY <1>1, <2>2, SeasonsOfFinite, FS_RemoveElement DEF LeftOK
      <3>3. Ahead(c) = Cardinality(left[c]) /\ Ahead(c)' = Cardinality(others)
        BY <2>1, <3>1 DEF Ahead
      <3>4. Work(c)' = 2 * Ahead(c)' + 1
        BY <3>1 DEF Work
      <3>5. Work(c)' < Work(c)
        BY <1>3, <3>2, <3>3, <3>4
      <3> QED
        BY <1>1, <1>2, <2>1, <2>3, <3>1, <3>5 DEF Nearer, LeftOK
    <2>4. CASE others = {}
      <3>1. Serve(c, 1, known)
        BY <1>6, <2>4 DEF HaveSeason
      <3>2. stage'[c] \in {"detail", "over"} /\ \A d \in Calls \ {c} : stage'[d] = stage[d]
        BY <1>1, <3>1 DEF Serve, Go, End, LocalOK
      <3> QED
        BY <1>1, <1>2, <2>1, <3>2 DEF Nearer, StageRank, LeftOK
    <2> QED
      BY <2>3, <2>4
  <1>7. CASE HaveDetail(c)
    <2>1. stage[c] = "detail" /\ left' = left /\ Serve(c, turn[c] + 1, rows[c])
          /\ turn[c] \in 1..Len(request[c].keys)
      BY <1>1, <1>7 DEF HaveDetail, Ready
    <2>2. \A d \in Calls \ {c} : stage'[d] = stage[d]
      BY <1>1, <2>1 DEF Serve, Go, End, LocalOK
    <2>3. CASE stage'[c] = "over"
      BY <1>1, <1>2, <2>1, <2>2, <2>3 DEF Nearer, StageRank, LeftOK
    <2>4. CASE stage'[c] # "over"
      <3>1. stage'[c] = "detail" /\ mode'[c] = "enter" /\ turn'[c] = turn[c] + 1
        BY <1>1, <2>1, <2>4 DEF Serve, Go, End, LocalOK
      <3>2. /\ Ahead(c) = Len(request[c].keys) - turn[c]
            /\ Ahead(c)' = Len(request[c].keys) - (turn[c] + 1)
        BY <2>1, <3>1 DEF Ahead
      <3>3. Work(c)' = 2 * Ahead(c)' + 1
        BY <3>1 DEF Work
      <3>4. Ahead(c) \in Int /\ Ahead(c)' = Ahead(c) - 1
        BY <1>2, <2>1, <3>2
      <3>5. Work(c)' < Work(c)
        BY <1>3, <3>3, <3>4
      <3> QED
        BY <1>1, <1>2, <2>1, <2>2, <3>1, <3>5 DEF Nearer, LeftOK
    <2> QED
      BY <2>3, <2>4
  <1> QED
    BY <1>4, <1>5, <1>6, <1>7 DEF Have

\* Every step of a call brings it nearer its end, and no other call is set back.
LEMMA CallAdvances ==
    ASSUME IInv, IInv', LeftInv, NEW c \in Calls, Step(c)
    PROVE  /\ LeftInv' /\ Nearer(c) /\ UNCHANGED ended
           /\ \A d \in Calls \ {c} : Untouched(d)
  <1>1. LocalOK /\ LocalOK' /\ request \in Loads /\ Ready(c) /\ LeftOK(c)
    BY DEF IInv, TypeOK, LocalOK, LoadInv, LeftInv, LeftOK
  <1>2. UNCHANGED <<request, ended>> /\ stage[c] # "over"
    <2>1. outcome[c] = "busy"
      BY OneEnds
    <2> QED
      BY <1>1, <2>1, OneEnds DEF Step, TurnBack, Lead, Follow, Publish, FetchFails, Receive,
           ReceiveError, StopWaiting, FileAliases, Ready
  <1>3. \A d \in Calls : SeasonsOf(d)' = SeasonsOf(d)
    BY <1>2 DEF SeasonsOf, Wanted
  <1>4. /\ Nearer(c) /\ LeftOK(c)'
        /\ \A d \in Calls \ {c} : stage'[d] = stage[d] /\ left'[d] = left[d]
        /\ \A d \in Calls \ {c} : mode'[d] = mode[d] /\ turn'[d] = turn[d]
    <2>1. CASE TurnBack(c) \/ FetchFails(c) \/ ReceiveError(c) \/ StopWaiting(c)
      <3>1. UNCHANGED local /\ \E how \in {"error", "cancelled"} : End(c, how)
        BY <2>1 DEF TurnBack, FetchFails, ErrorsOf, ReceiveError, StopWaiting
      <3>2. /\ stage'[c] = "over" /\ UNCHANGED <<left, turn>>
            /\ \A d \in Calls \ {c} : stage'[d] = stage[d] /\ mode'[d] = mode[d]
        BY <1>1, <3>1 DEF End, LocalOK, local
      <3>3. Nearer(c)
        BY <1>1, <1>2, <3>2 DEF Nearer, StageRank, LocalOK
      <3> QED
        BY <1>1, <1>3, <3>2, <3>3 DEF LeftOK
    <2>2. CASE Lead(c) \/ Follow(c)
      <3>1. /\ UNCHANGED <<stage, left, turn>> /\ mode[c] = "enter" /\ mode'[c] \in {"fetch", "wait"}
            /\ \A d \in Calls \ {c} : mode'[d] = mode[d]
        BY <1>1, <2>2 DEF Lead, Follow, LocalOK, local
      <3>2. Ahead(c)' = Ahead(c)
        BY <1>2, <3>1 DEF Ahead
      <3>3. Work(c) = 2 * Ahead(c) + 1 /\ Work(c)' = 2 * Ahead(c) + 0
        BY <3>1, <3>2 DEF Work
      <3>4. Ahead(c) \in Nat
        BY <1>1, WorkTyped
      <3>5. Work(c)' < Work(c)
        BY <3>3, <3>4
      <3> QED
        BY <1>1, <1>3, <3>1, <3>5 DEF Nearer, LeftOK
    <2>3. CASE FileAliases(c)
      <3>1. /\ stage[c] = "alias" /\ stage'[c] = "all" /\ UNCHANGED <<left, turn>>
            /\ \A d \in Calls \ {c} : stage'[d] = stage[d] /\ mode'[d] = mode[d]
        BY <1>1, <2>3 DEF FileAliases, Go, LocalOK, local
      <3> QED
        BY <1>1, <1>3, <3>1 DEF Nearer, StageRank, LeftOK
    <2>4. CASE Publish(c) \/ Receive(c)
      <3>1. mode[c] # "enter" /\ \E f : Have(c, f)
        BY <2>4 DEF Publish, Receive
      <3>2. PICK f : Have(c, f)
        BY <3>1
      <3>3. \A d \in Calls \ {c} : mode'[d] = mode[d] /\ turn'[d] = turn[d]
        <4>1. \A d \in Calls \ {c} : turn'[d] = turn[d]
          BY <1>1, <3>2, HaveAlone
        <4>2. \A d \in Calls \ {c} : mode'[d] = mode[d]
          BY <1>1, <3>2 DEF Have, HaveShow, HaveAll, HaveSeason, HaveDetail, Serve, Go, End, LocalOK
        <4> QED
          BY <4>1, <4>2
      <3> QED
        BY <1>1, <1>2, <3>1, <3>2, <3>3, HaveNearer
    <2> QED
      BY <2>1, <2>2, <2>3, <2>4 DEF Step
  <1>5. ASSUME NEW d \in Calls \ {c}
        PROVE  Untouched(d) /\ LeftOK(d)'
    <2>1. Ahead(d)' = Ahead(d)
      BY <1>2, <1>4, <1>5 DEF Ahead
    <2>2. Work(d)' = Work(d)
      BY <1>4, <1>5, <2>1 DEF Work
    <2> QED
      BY <1>3, <1>4, <1>5, <2>2 DEF Untouched, LeftInv, LeftOK
  <1>6. LeftInv'
    BY <1>4, <1>5 DEF LeftInv, LeftOK
  <1> QED
    BY <1>2, <1>4, <1>5, <1>6

LEMMA ContextAdvances ==
    ASSUME LeftInv, NEW c \in Calls, EndContext(c)
    PROVE  LeftInv' /\ Advance
  <1>1. UNCHANGED <<request, stage, mode, left, turn>>
    BY DEF EndContext, local
  <1>2. \A d \in Calls : Ahead(d)' = Ahead(d)
    BY <1>1 DEF Ahead
  <1>3. \A d \in Calls : Untouched(d)
    BY <1>1, <1>2 DEF Untouched, Work
  <1> QED
    BY <1>1, <1>3 DEF EndContext, Advance, LeftInv, SeasonsOf, Wanted

LEMMA LeftAlways == Spec => []LeftInv
  <1>1. Init => LeftInv
    BY DEF Init, LeftInv
  <1>2. IInv /\ IInv' /\ LeftInv /\ [Next]_vars => LeftInv'
    <2> SUFFICES ASSUME IInv, IInv', LeftInv, [Next]_vars PROVE LeftInv'
      OBVIOUS
    <2>1. CASE UNCHANGED vars
      BY <2>1 DEF vars, local, LeftInv, SeasonsOf, Wanted
    <2> QED
      BY <2>1, CallAdvances, ContextAdvances DEF Next
  <1> QED
    BY <1>1, <1>2, Inductive, PTL DEF Spec

\* The calls cannot go round in circles: every step brings one of them nearer its
\* end and sets none back, or ends a context, once for each call; and what is
\* left to do is a natural number. This is what CallsEnd needs besides fairness.
THEOREM NoCircles == Spec => []WorkCounts /\ [][Advance]_vars
  <1>1. IInv /\ LeftInv => WorkCounts
    BY WorkTyped DEF WorkCounts, LeftInv, LeftOK
  <1>2. IInv /\ IInv' /\ LeftInv /\ [Next]_vars => [Advance]_vars
    <2> SUFFICES ASSUME IInv, IInv', LeftInv, Next PROVE Advance
      OBVIOUS
    <2>1. ASSUME NEW c \in Calls, Step(c) PROVE Advance
      BY <2>1, CallAdvances DEF Advance
    <2> QED
      BY <2>1, ContextAdvances DEF Next
  <1> QED
    BY <1>1, <1>2, Inductive, LeftAlways, PTL DEF Spec

\* Nobody waits for nobody: a busy call can go on, or the call whose page it
\* waits for is fetching it, and that one waits for no other.
THEOREM NeverStuck == Spec => []NobodyStuck
  <1>1. IInv /\ LeftInv => NobodyStuck
    <2> SUFFICES ASSUME IInv, LeftInv, NEW c \in Calls, outcome[c] = "busy"
                 PROVE  Moves(c) \/ (mode[c] = "wait" /\ mode[on[c][1]] = "fetch")
      BY DEF NobodyStuck
    <2>1. LocalOK /\ request \in Loads /\ Ready(c)
      BY DEF IInv, TypeOK, LocalOK, LoadInv
    <2>2. CASE mode[c] = "enter"
      <3>1. stage[c] \in {"show", "alias", "all", "season", "detail"}
        BY <2>1 DEF Ready, LocalOK
      <3>2. stage[c] # "alias" => NextKeys(c) # {}
        BY <2>1, <3>1 DEF NextKeys, LeftInv
      <3> QED
        BY <2>2, <3>2 DEF Moves
    <2>3. CASE mode[c] = "wait"
      <3>1. on[c] \in Pages /\ Awaited(c).state # "absent"
        BY <2>3 DEF IInv, WaitInv
      <3>2. PICK d \in Calls, k \in Keys : on[c] = <<d, k>>
        BY <3>1 DEF Pages
      <3>3. Awaited(c) = made[d][k] /\ made[d][k] \in Page
        BY <3>2 DEF Awaited, IInv, TypeOK
      <3>4. made[d][k].state = "fetching" => mode[d] = "fetch"
        BY DEF IInv, PageInv
      <3> QED
        BY <2>3, <3>1, <3>2, <3>3, <3>4 DEF Moves, Page
    <2> QED
      BY <2>1, <2>2, <2>3 DEF Moves, LocalOK
  <1> QED
    BY <1>1, Inductive, LeftAlways, PTL

----------------------------------------------------------------------------

\* A request is sent after its slot; slots are an interval apart, and the next
\* one will be an interval after them all.
SlotInv ==
    /\ \A r \in Requests :
         /\ phase[r] \in {"new", "waiting", "ready"} => hits[r] = <<>>
         /\ phase[r] \in {"waiting", "ready", "sent"} => slot[r] \in Nat
         /\ phase[r] \in {"ready", "sent"} \/ hits[r] # <<>> => slot[r] \in Nat /\ slot[r] <= now
         /\ slot[r] # NoSlot => slot[r] + Interval <= nextRequest
    /\ \A r, s \in Requests : r # s /\ slot[r] # NoSlot /\ slot[s] # NoSlot =>
         slot[r] + Interval <= slot[s] \/ slot[s] + Interval <= slot[r]

PaceInv == PaceTypeOK /\ SlotInv

----------------------------------------------------------------------------

\* One more use of the website on behalf of a request that has not had them all.
LEMMA HitTyped ==
    ASSUME PaceTypeOK, NEW r \in Requests, Len(hits[r]) < MaxVia, Hit(r)
    PROVE  /\ hits' \in [Requests -> Seq(0..MaxTime)]
           /\ \A q \in Requests : Len(hits'[q]) <= MaxVia
           /\ \A q \in Requests : q # r => hits'[q] = hits[q]
  <1>1. hits[r] \in Seq(0..MaxTime) /\ now \in 0..MaxTime
    BY DEF PaceTypeOK
  <1>2. Append(hits[r], now) \in Seq(0..MaxTime) /\ Len(Append(hits[r], now)) = Len(hits[r]) + 1
    BY <1>1
  <1>3. hits' = [hits EXCEPT ![r] = Append(hits[r], now)]
    BY DEF Hit
  <1>4. Len(hits[r]) + 1 <= MaxVia
    <2>1. Len(hits[r]) \in Nat
      BY <1>1
    <2> QED
      BY <2>1, PaceAssumption
  <1> QED
    BY <1>1, <1>2, <1>3, <1>4 DEF PaceTypeOK

\* The invariant holds at first.
LEMMA PaceBegins == PaceInit => PaceInv
  <1> SUFFICES ASSUME PaceInit PROVE PaceInv
    OBVIOUS
  <1>1. <<>> \in Seq(0..MaxTime) /\ Len(<<>>) = 0
    OBVIOUS
  <1>2. PaceTypeOK
    BY <1>1, PaceAssumption DEF PaceInit, PaceTypeOK
  <1>3. SlotInv
    BY DEF PaceInit, SlotInv
  <1> QED
    BY <1>2, <1>3 DEF PaceInv

\* The slot taken lies an interval after every other one.
LEMMA TakeSlotStep == ASSUME PaceInv, NEW r \in Requests, TakeSlot(r) PROVE PaceInv'
  <1> DEFINE due == IF nextRequest > now THEN nextRequest ELSE now
  <1>1. now \in Nat /\ nextRequest \in Nat /\ Interval \in Nat /\ NoSlot \notin Nat
    BY PaceAssumption DEF PaceInv, PaceTypeOK
  <1>2. due \in Nat /\ nextRequest <= due /\ now <= due
    BY <1>1
  <1>3. /\ slot' = [slot EXCEPT ![r] = due] /\ nextRequest' = due + Interval
        /\ phase' = [phase EXCEPT ![r] = IF due = now THEN "ready" ELSE "waiting"]
        /\ phase[r] = "new" /\ UNCHANGED <<now, dropped, hits>>
    BY DEF TakeSlot, SlotAfter, Becomes
  <1> HIDE DEF due
  <1>4. PaceTypeOK'
    BY <1>1, <1>2, <1>3 DEF PaceInv, PaceTypeOK
  <1>5. /\ slot'[r] = due /\ phase'[r] = (IF due = now THEN "ready" ELSE "waiting")
        /\ \A q \in Requests : q # r => slot'[q] = slot[q] /\ phase'[q] = phase[q]
    BY <1>3 DEF PaceInv, PaceTypeOK
  <1>6. \A q \in Requests : slot[q] # NoSlot => slot[q] \in Nat /\ slot[q] + Interval <= due
    BY <1>1, <1>2 DEF PaceInv, PaceTypeOK, SlotInv
  <1>7. \A q \in Requests : slot'[q] # NoSlot => slot'[q] + Interval <= nextRequest'
    <2>1. nextRequest <= nextRequest'
      BY <1>1, <1>2, <1>3
    <2> QED
      BY <1>1, <1>2, <1>3, <1>5, <1>6, <2>1
  <1>8. \A p, q \in Requests : p # q /\ slot'[p] # NoSlot /\ slot'[q] # NoSlot =>
          slot'[p] + Interval <= slot'[q] \/ slot'[q] + Interval <= slot'[p]
    BY <1>5, <1>6 DEF PaceInv, SlotInv
  <1>9. ASSUME NEW q \in Requests
        PROVE  /\ phase'[q] \in {"new", "waiting", "ready"} => hits'[q] = <<>>
               /\ phase'[q] \in {"waiting", "ready", "sent"} => slot'[q] \in Nat
               /\ phase'[q] \in {"ready", "sent"} \/ hits'[q] # <<>> =>
                    slot'[q] \in Nat /\ slot'[q] <= now'
    BY <1>1, <1>2, <1>3, <1>5 DEF PaceInv, SlotInv
  <1> QED
    BY <1>4, <1>7, <1>8, <1>9 DEF PaceInv, SlotInv

\* Every other step leaves the slots alone, and lets a request be sent only when
\* its slot has come.
LEMMA PaceKept == PaceInv /\ [PaceNext]_paceVars => PaceInv'
  <1> SUFFICES ASSUME PaceInv, [PaceNext]_paceVars PROVE PaceInv'
    OBVIOUS
  <1>1. now \in Nat /\ nextRequest \in Nat /\ Interval \in Nat /\ MaxVia \in Nat \ {0} /\ NoSlot \notin Nat
    BY PaceAssumption DEF PaceInv, PaceTypeOK
  <1>2. CASE UNCHANGED paceVars
    BY <1>2 DEF PaceInv, PaceTypeOK, SlotInv, paceVars
  <1>3. CASE Tick
    <2>1. now' \in 0..MaxTime /\ now <= now' /\ UNCHANGED <<nextRequest, slot, phase, dropped, hits>>
      BY <1>3, PaceAssumption DEF Tick, PaceInv, PaceTypeOK
    <2>2. PaceTypeOK'
      BY <2>1 DEF PaceInv, PaceTypeOK
    <2>3. SlotInv'
      BY <1>1, <2>1 DEF PaceInv, SlotInv
    <2> QED
      BY <2>2, <2>3 DEF PaceInv
  <1>4. ASSUME NEW r \in Requests, Refuse(r) \/ GiveUp(r) \/ Done(r)
        PROVE  PaceInv'
    <2>1. phase' = [phase EXCEPT ![r] = "over"] /\ UNCHANGED <<now, nextRequest, slot, dropped, hits>>
      BY <1>4 DEF Refuse, GiveUp, Done, Becomes
    <2>2. PaceTypeOK'
      BY <2>1 DEF PaceInv, PaceTypeOK
    <2>3. SlotInv'
      BY <2>1 DEF PaceInv, PaceTypeOK, SlotInv
    <2> QED
      BY <2>2, <2>3 DEF PaceInv
  <1>5. ASSUME NEW r \in Requests, TakeSlot(r)
        PROVE  PaceInv'
    BY <1>5, TakeSlotStep
  <1>6. ASSUME NEW r \in Requests, Wake(r)
        PROVE  PaceInv'
    <2>1. /\ phase[r] = "waiting" /\ slot[r] <= now /\ phase' = [phase EXCEPT ![r] = "ready"]
          /\ UNCHANGED <<now, nextRequest, slot, dropped, hits>>
      BY <1>6 DEF Wake, Becomes
    <2>2. PaceTypeOK'
      BY <2>1 DEF PaceInv, PaceTypeOK
    <2>3. SlotInv'
      BY <2>1 DEF PaceInv, PaceTypeOK, SlotInv
    <2> QED
      BY <2>2, <2>3 DEF PaceInv
  <1>7. ASSUME NEW r \in Requests, Send(r) \/ Redirect(r)
        PROVE  PaceInv'
    <2>1. /\ phase[r] \in {"ready", "sent"} /\ Hit(r) /\ UNCHANGED <<now, nextRequest, slot, dropped>>
          /\ phase' = [phase EXCEPT ![r] = "sent"]
      BY <1>7 DEF Send, Redirect, Becomes, PaceInv, PaceTypeOK
    <2>2. Len(hits[r]) < MaxVia
      <3>1. CASE Send(r)
        <4>1. hits[r] = <<>> /\ Len(<<>>) = 0
          BY <3>1 DEF Send, PaceInv, SlotInv
        <4> QED
          BY <1>1, <4>1
      <3>2. CASE Redirect(r)
        BY <3>2 DEF Redirect, MayFollow
      <3> QED
        BY <1>7, <3>1, <3>2
    <2>3. /\ hits' \in [Requests -> Seq(0..MaxTime)]
          /\ \A q \in Requests : Len(hits'[q]) <= MaxVia
          /\ \A q \in Requests : q # r => hits'[q] = hits[q]
      BY <2>1, <2>2, HitTyped DEF PaceInv
    <2>4. PaceTypeOK'
      BY <2>1, <2>3 DEF PaceInv, PaceTypeOK
    <2>5. SlotInv'
      BY <2>1, <2>3 DEF PaceInv, PaceTypeOK, SlotInv
    <2> QED
      BY <2>4, <2>5 DEF PaceInv
  <1>8. ASSUME NEW r \in Requests, Drop(r)
        PROVE  PaceInv'
    BY <1>8 DEF Drop, PaceInv, PaceTypeOK, SlotInv
  <1> QED
    BY <1>2, <1>3, <1>4, <1>5, <1>6, <1>7, <1>8 DEF PaceNext

----------------------------------------------------------------------------

\* Slots an interval apart fall into different intervals of the clock, and a
\* request that has been sent has its slot behind it.
LEMMA SlotsCount == PaceInv => AttemptsPaced
  <1> SUFFICES ASSUME PaceInv PROVE AttemptsPaced
    OBVIOUS
  <1> DEFINE sent == {r \in Requests : hits[r] # <<>>}
             nth == [r \in sent |-> slot[r] \div Interval]
             last == now \div Interval
  <1>1. now \in Nat /\ Interval \in Nat \ {0} /\ NoSlot \notin Nat
    BY PaceAssumption DEF PaceInv, PaceTypeOK
  <1>2. \A m, n \in Nat : m <= n => m \div Interval <= n \div Interval
    BY <1>1
  <1>3. \A m, n \in Nat : m + Interval <= n => m \div Interval < n \div Interval
    BY <1>1
  <1>4. \A n \in Nat : n \div Interval \in Nat
    BY <1>1
  <1>5. \A r \in sent : slot[r] \in Nat /\ slot[r] <= now
    BY DEF PaceInv, SlotInv
  <1>6. nth \in [sent -> 0..last]
    BY <1>1, <1>2, <1>4, <1>5
  <1>7. \A r, s \in sent : nth[r] = nth[s] => r = s
    <2> SUFFICES ASSUME NEW r \in sent, NEW s \in sent, r # s
                 PROVE  nth[r] # nth[s]
      OBVIOUS
    <2>1. slot[r] + Interval <= slot[s] \/ slot[s] + Interval <= slot[r]
      BY <1>1, <1>5 DEF PaceInv, SlotInv
    <2>2. nth[r] < nth[s] \/ nth[s] < nth[r]
      BY <1>3, <1>5, <2>1
    <2>3. nth[r] \in Nat /\ nth[s] \in Nat
      BY <1>4, <1>5
    <2> QED
      BY <2>2, <2>3
  <1> HIDE DEF nth
  <1>8. nth \in Injection(sent, 0..last)
    BY <1>6, <1>7 DEF Injection, IsInjective
  <1>9. last \in Nat /\ 0 \in Int
    BY <1>1, <1>4
  <1> HIDE DEF last, sent
  <1>10. IsFiniteSet(0..last) /\ Cardinality(0..last) = last + 1
    <2>1. IsFiniteSet(0..last) /\ Cardinality(0..last) = IF 0 > last THEN 0 ELSE last - 0 + 1
      BY <1>9, FS_Interval
    <2> QED
      BY <1>9, <2>1
  <1>11. Cardinality(sent) <= last + 1
    BY <1>8, <1>10, FS_Injection
  <1> QED
    BY <1>11 DEF AttemptsPaced, sent, last

\* The inductive invariant of the pace: the slots of all requests are an interval apart.
THEOREM PaceInductive == PaceSpec => []PaceInv
  BY PaceBegins, PaceKept, PTL DEF PaceSpec

\* Every variable keeps its type, and no request is made of the website more
\* often than the client may follow redirects.
THEOREM PaceTypeCorrect == PaceSpec => []PaceTypeOK
  <1>1. PaceInv => PaceTypeOK
    BY DEF PaceInv
  <1> QED
    BY <1>1, PaceInductive, PTL

\* However many requests wait, give up or are held up, by any time no more have
\* been sent than slots have passed (waitRequest).
THEOREM Paced == PaceSpec => []AttemptsPaced
  BY PaceInductive, SlotsCount, PTL
=============================================================================
