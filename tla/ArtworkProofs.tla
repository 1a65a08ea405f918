---------------------------- MODULE ArtworkProofs ----------------------------
(***************************************************************************)
(* Artwork's invariants for every number of paths, addresses, item lists   *)
(* and calls, and however often the process dies between two writes.       *)
(***************************************************************************)
EXTENDS Artwork, TLAPS

\* Where the download in hand stands.
HandInv ==
    /\ pc = "over" <=> outcome # "busy"
    /\ pc \in {"item", "fetch"} => stage = 1
    /\ pc \in {"fetch", "write"} => at \in DOMAIN items /\ Url \in Urls
    /\ pc = "write" => body = Url

Vouches(p) == picture[p] # Nothing /\ p \notin torn => marker[p] = picture[p]

\* While a download is between its files its picture is the new one already,
\* and before it starts writing the old marker is still true.
FilesInv ==
    /\ MarkersVouch
    /\ pc = "write" /\ stage = 1 => Vouches(Path)
    /\ pc = "write" /\ stage > 1 => picture[Path] = body

\* Offer(n): item n counts for its path, no earlier one has an address for it.
HasUrl(n) == n \in DOMAIN items /\ items[n].url # NoUrl
Offer(n) ==
    /\ HasUrl(n)
    /\ \A m \in DOMAIN items : HasUrl(m) /\ items[m].path = items[n].path => n <= m

\* The paths of the items behind are selected, each by the item that counts,
\* and have that item's picture.
LoopInv ==
    outcome \in {"busy", "ok"} =>
        /\ \A n \in DOMAIN items : n < at /\ HasUrl(n) => items[n].path \in selected
        /\ \A p \in selected : \E n \in DOMAIN items :
             Offer(n) /\ items[n].path = p /\ (n < at \/ (n = at /\ pc \in {"fetch", "write"}))
        /\ \A n \in DOMAIN items :
             n < at /\ Offer(n) /\ items[n].path \notin torn
                 => picture[items[n].path] = items[n].url
        /\ pc \in {"fetch", "write"} => Offer(at) /\ Path \in selected
        /\ outcome = "ok" => at > Len(items)

IInv == TypeOK /\ HandInv /\ FilesInv /\ LoopInv

----------------------------------------------------------------------------

LEMMA ItemsTyped ==
    ASSUME TypeOK
    PROVE  /\ items \in Seq(Item) /\ DOMAIN items = 1..Len(items) /\ Len(items) \in Nat
           /\ \A n \in DOMAIN items :
                items[n].path \in Paths /\ items[n].url \in Urls \cup {NoUrl}
  <1>1. items \in Seq(Item)
    BY ItemsAssumption DEF TypeOK
  <1>2. DOMAIN items = 1..Len(items) /\ Len(items) \in Nat
        /\ \A n \in DOMAIN items : items[n] \in Item
    BY <1>1
  <1> QED
    BY <1>1, <1>2 DEF Item

\* The list and its offers change only with a new call.
LEMMA OffersStay ==
    ASSUME UNCHANGED items
    PROVE  \A n : (HasUrl(n)' <=> HasUrl(n)) /\ (Offer(n)' <=> Offer(n))
  BY DEF HasUrl, Offer

\* An item with an address for a path nobody has selected is the first one.
LEMMA FreshOffer ==
    ASSUME IInv, pc = "item", at \in DOMAIN items, ~PassOver
    PROVE  Offer(at) /\ Url \in Urls
  BY ItemsTyped DEF IInv, HandInv, LoopInv, PassOver, Offer, HasUrl, Url, Path, TypeOK

LEMMA Initially == Init => IInv
  <1> SUFFICES ASSUME Init PROVE IInv
    OBVIOUS
  <1>1. TypeOK
    BY ItemsAssumption DEF Init, TypeOK
  <1>2. HandInv /\ FilesInv
    BY <1>1 DEF Init, HandInv, FilesInv, MarkersVouch, TypeOK
  <1>3. LoopInv
    BY <1>1, ItemsTyped DEF Init, LoopInv
  <1> QED
    BY <1>1, <1>2, <1>3 DEF IInv

\* An end that is not a success: nothing on disk changes, and a picture in
\* hand that has no marker yet is now one that was cut off.
LEMMA Ending ==
    ASSUME IInv, outcome = "busy", End("error") \/ End("killed"), torn' = torn \cup CutOff,
           UNCHANGED <<files, items, at, selected, body, stage, misled, calls>>
    PROVE  IInv'
  <1> USE DEF IInv
  <1>1. TypeOK'
    <2>1. CutOff \subseteq Paths
      BY ItemsTyped DEF CutOff, HandInv, Path
    <2> QED
      BY <2>1 DEF TypeOK, End, files
  <1>2. HandInv'
    BY DEF HandInv, End
  <1>3. FilesInv'
    <2>1. pc = "write" /\ stage > 1 => Path \in torn'
      <3>1. pc = "write" /\ stage > 1 => 1 \in 1..(stage - 1) /\ Writes[1] = "picture"
        BY DEF TypeOK, Writes
      <3> QED
        BY <3>1 DEF CutOff
    <2>2. \A p \in Paths : picture[p] # Nothing /\ p \notin torn' => marker[p] = picture[p]
      BY <2>1 DEF FilesInv, MarkersVouch, Vouches, TypeOK
    <2> QED
      BY <2>2 DEF FilesInv, MarkersVouch, files, End
  <1>4. LoopInv'
    BY DEF LoopInv, End
  <1> QED
    BY <1>1, <1>2, <1>3, <1>4

LEMMA EndSteps ==
    IInv /\ (Refuse \/ FailWrite \/ Kill) => IInv'
  <1> SUFFICES ASSUME IInv, Refuse \/ FailWrite \/ Kill PROVE IInv'
    OBVIOUS
  <1>1. CASE Refuse
    <2>1. CutOff = {} /\ outcome = "busy"
      BY <1>1 DEF Refuse, CutOff, IInv, HandInv, TypeOK
    <2> QED
      BY <1>1, <2>1, Ending DEF Refuse
  <1>2. CASE FailWrite
    BY <1>2, Ending DEF FailWrite, IInv, HandInv, TypeOK
  <1>3. CASE Kill
    BY <1>3, Ending DEF Kill
  <1> QED
    BY <1>1, <1>2, <1>3

\* The item in hand is done, and its path has what was offered first.
LEMMA ItemDone ==
    ASSUME IInv, at \in DOMAIN items, outcome = "busy", UNCHANGED <<items, outcome>>,
           at' = at + 1, pc' = "item", Offer(at), selected' = selected \cup {Path},
           torn \subseteq torn' \cup {Path},
           \A p \in Paths \ {Path} : picture'[p] = picture[p],
           Path \notin torn' => picture'[Path] = Url
    PROVE  LoopInv'
  <1> USE DEF IInv
  <1>1. \A n \in DOMAIN items : n < at' => n < at \/ n = at
    BY ItemsTyped
  <1>2. \A n \in DOMAIN items : n < at' /\ HasUrl(n) => items[n].path \in selected'
    BY <1>1 DEF LoopInv, Path
  <1>3. \A p \in selected' : \E n \in DOMAIN items :
            Offer(n) /\ items[n].path = p /\ n < at'
    BY ItemsTyped DEF LoopInv, Path
  <1>4. \A n \in DOMAIN items : n < at /\ Offer(n) => items[n].path \in Paths \ {Path}
    BY ItemsTyped DEF Offer, HasUrl, Path
  <1>5. \A n \in DOMAIN items :
            n < at' /\ Offer(n) /\ items[n].path \notin torn'
                => picture'[items[n].path] = items[n].url
    <2> SUFFICES ASSUME NEW n \in DOMAIN items, n < at', Offer(n), items[n].path \notin torn'
                 PROVE  picture'[items[n].path] = items[n].url
      OBVIOUS
    <2>1. CASE n < at
      BY <1>4, <2>1 DEF LoopInv
    <2>2. CASE n = at
      BY <2>2 DEF Path, Url
    <2> QED
      BY <1>1, <2>1, <2>2
  <1>6. \A n : (HasUrl(n)' <=> HasUrl(n)) /\ (Offer(n)' <=> Offer(n))
    BY OffersStay
  <1>7. \A n \in DOMAIN items' : n < at' /\ HasUrl(n)' => items'[n].path \in selected'
    BY <1>2, <1>6
  <1>8. \A p \in selected' : \E n \in DOMAIN items' :
            Offer(n)' /\ items'[n].path = p /\ n < at'
    BY <1>3, <1>6
  <1>9. \A n \in DOMAIN items' :
            n < at' /\ Offer(n)' /\ items'[n].path \notin torn'
                => picture'[items'[n].path] = items'[n].url
    BY <1>5, <1>6
  <1> HIDE DEF IInv
  <1> QED
    BY <1>7, <1>8, <1>9 DEF LoopInv

LEMMA PassStep == IInv /\ PassItem => IInv'
  <1> SUFFICES ASSUME IInv, PassItem PROVE IInv'
    OBVIOUS
  <1> USE DEF IInv
  <1>1. /\ at \in DOMAIN items /\ at' = at + 1 /\ pc = "item" /\ pc' = "item"
        /\ stage' = 1 /\ outcome = "busy" /\ PassOver
        /\ UNCHANGED <<picture, marker, items, selected, body, outcome, torn, misled, calls>>
    BY ItemsTyped DEF PassItem, NextItem, files, TypeOK, HandInv
  <1>2. TypeOK'
    BY <1>1, ItemsTyped DEF TypeOK
  <1>3. HandInv' /\ FilesInv'
    BY <1>1 DEF HandInv, FilesInv, MarkersVouch
  <1>4. LoopInv'
    <2>1. HasUrl(at) => Path \in selected /\ ~Offer(at)
      <3>1. HasUrl(at) => Path \in selected
        BY <1>1 DEF PassOver, HasUrl, Url
      <3>2. Path \in selected => \E n \in DOMAIN items : Offer(n) /\ items[n].path = Path /\ n < at
        BY <1>1 DEF LoopInv
      <3> QED
        BY <1>1, <3>1, <3>2, ItemsTyped DEF Offer, Path
    <2> QED
      BY <1>1, <2>1, OffersStay, ItemsTyped DEF LoopInv, Offer, Path
  <1> QED
    BY <1>2, <1>3, <1>4

LEMMA SkipStep == IInv /\ SkipItem => IInv'
  <1> SUFFICES ASSUME IInv, SkipItem PROVE IInv'
    OBVIOUS
  <1> USE DEF IInv
  <1>1. /\ at \in DOMAIN items /\ at' = at + 1 /\ pc = "item" /\ pc' = "item"
        /\ stage' = 1 /\ outcome = "busy" /\ ~PassOver /\ SameSource
        /\ selected' = selected \cup {Path} /\ misled' \subseteq Paths
        /\ UNCHANGED <<picture, marker, items, body, outcome, torn, calls>>
    BY ItemsTyped DEF SkipItem, NextItem, files, TypeOK, HandInv, Path
  <1>2. TypeOK'
    BY <1>1, ItemsTyped DEF TypeOK, Path
  <1>3. HandInv' /\ FilesInv'
    BY <1>1 DEF HandInv, FilesInv, MarkersVouch
  <1>4. LoopInv'
    <2>1. Offer(at)
      BY <1>1, FreshOffer
    <2>2. Path \notin torn => picture[Path] = Url
      BY <1>1, ItemsTyped DEF SameSource, FilesInv, MarkersVouch, Path
    <2> QED
      BY <1>1, <2>1, <2>2, ItemDone
  <1> QED
    BY <1>2, <1>3, <1>4

LEMMA TakeStep == IInv /\ TakeItem => IInv'
  <1> SUFFICES ASSUME IInv, TakeItem PROVE IInv'
    OBVIOUS
  <1> USE DEF IInv
  <1>1. /\ at \in DOMAIN items /\ pc = "item" /\ pc' = "fetch" /\ outcome = "busy"
        /\ ~PassOver /\ selected' = selected \cup {Path}
        /\ UNCHANGED <<picture, marker, items, at, body, stage, outcome, torn, misled, calls>>
    BY ItemsTyped DEF TakeItem, files, TypeOK, HandInv
  <1>2. TypeOK'
    BY <1>1, ItemsTyped DEF TypeOK, Path
  <1>3. Offer(at) /\ Url \in Urls
    BY <1>1, FreshOffer
  <1>4. HandInv' /\ FilesInv'
    BY <1>1, <1>3 DEF HandInv, FilesInv, MarkersVouch, Url
  <1>5. LoopInv'
    BY <1>1, <1>3, OffersStay, ItemsTyped DEF LoopInv, Path
  <1> QED
    BY <1>2, <1>4, <1>5

LEMMA FetchStep == IInv /\ Fetch => IInv'
  <1> SUFFICES ASSUME IInv, Fetch PROVE IInv'
    OBVIOUS
  <1> USE DEF IInv
  <1>1. /\ pc = "fetch" /\ outcome = "busy" /\ stage = 1 /\ body' \in {Nothing, Url, Empty}
        /\ at \in DOMAIN items /\ Url \in Urls
        /\ UNCHANGED <<picture, marker, items, at, selected, stage, torn, misled, calls>>
        /\ \/ pc' = "write" /\ outcome' = outcome /\ body' = Url
           \/ pc' = "over" /\ outcome' = "error"
    BY DEF Fetch, files, HandInv, TypeOK, Acceptable, End
  <1>2. TypeOK'
    BY <1>1 DEF TypeOK
  <1>3. HandInv' /\ FilesInv'
    BY <1>1, ItemsTyped DEF HandInv, FilesInv, MarkersVouch, Vouches, Url, Path
  <1>4. LoopInv'
    BY <1>1, OffersStay DEF LoopInv, Path
  <1> QED
    BY <1>2, <1>3, <1>4

\* A write that succeeds, seen through the files after it.
LEMMA WriteSteps ==
    IInv /\ (WritePicture \/ MakeDirectory \/ WriteMarker) => IInv'
  <1> SUFFICES ASSUME IInv, WritePicture \/ MakeDirectory \/ WriteMarker PROVE IInv'
    OBVIOUS
  <1> USE DEF IInv
  <1>1. /\ pc = "write" /\ outcome = "busy" /\ at \in DOMAIN items /\ Url \in Urls /\ body = Url
        /\ Path \in Paths /\ Offer(at)
    BY ItemsTyped DEF WritePicture, MakeDirectory, WriteMarker, HandInv, LoopInv, TypeOK, Path
  <1>2. /\ UNCHANGED <<items, selected, body, outcome, misled, calls>>
        /\ \A p \in Paths \ {Path} : picture'[p] = picture[p] /\ marker'[p] = marker[p]
        /\ picture' \in [Paths -> Urls \cup {Nothing}]
        /\ marker' \in [Paths -> Urls \cup {Nothing}]
    BY <1>1 DEF WritePicture, MakeDirectory, WriteMarker, TypeOK, files
  <1>3. CASE stage < 3
    <2>1. /\ stage' = stage + 1 /\ UNCHANGED <<pc, at, torn>>
          /\ picture'[Path] = body
      BY <1>1, <1>3
         DEF WritePicture, MakeDirectory, WriteMarker, Advance, Writes, TypeOK, FilesInv, files
    <2>2. TypeOK'
      BY <1>2, <1>3, <2>1 DEF TypeOK
    <2>3. HandInv' /\ FilesInv'
      BY <1>1, <1>2, <1>3, <2>1 DEF HandInv, FilesInv, MarkersVouch, Url, Path, TypeOK
    <2>4. LoopInv'
      <3>1. \A n \in DOMAIN items : n < at /\ Offer(n) => items[n].path \in Paths \ {Path}
        BY <1>1, ItemsTyped DEF Offer, HasUrl, Path
      <3> QED
        BY <1>1, <1>2, <2>1, <3>1, OffersStay DEF LoopInv, Path
    <2> QED
      BY <2>2, <2>3, <2>4
  <1>4. CASE stage = 3
    <2>1. /\ pc' = "item" /\ at' = at + 1 /\ stage' = 1 /\ torn' = torn \ {Path}
          /\ picture'[Path] = Url /\ marker'[Path] = Url
      BY <1>1, <1>4
         DEF WritePicture, MakeDirectory, WriteMarker, Advance, NextItem, Writes, TypeOK,
             FilesInv, files
    <2>2. TypeOK'
      BY <1>1, <1>2, <2>1, ItemsTyped DEF TypeOK
    <2>3. HandInv' /\ FilesInv'
      BY <1>1, <1>2, <2>1 DEF HandInv, FilesInv, MarkersVouch
    <2>4. LoopInv'
      <3>1. selected' = selected \cup {Path}
        BY <1>1, <1>2 DEF LoopInv, TypeOK
      <3> QED
        BY <1>1, <1>2, <2>1, <3>1, ItemDone
    <2> QED
      BY <2>2, <2>3, <2>4
  <1> QED
    BY <1>3, <1>4 DEF TypeOK

LEMMA DoneStep == IInv /\ SaveDone => IInv'
  <1> SUFFICES ASSUME IInv, SaveDone PROVE IInv'
    OBVIOUS
  <1> USE DEF IInv
  <1>1. /\ pc = "item" /\ at > Len(items) /\ outcome = "busy" /\ pc' = "over" /\ outcome' = "ok"
        /\ UNCHANGED <<picture, marker, items, at, selected, body, stage, torn, misled, calls>>
    BY DEF SaveDone, End, files, HandInv, TypeOK
  <1>2. TypeOK'
    BY <1>1 DEF TypeOK
  <1>3. HandInv' /\ FilesInv'
    BY <1>1 DEF HandInv, FilesInv, MarkersVouch
  <1>4. LoopInv'
    BY <1>1, OffersStay DEF LoopInv
  <1> QED
    BY <1>2, <1>3, <1>4

LEMMA AgainStep == IInv /\ SaveAgain => IInv'
  <1> SUFFICES ASSUME IInv, SaveAgain PROVE IInv'
    OBVIOUS
  <1> USE DEF IInv
  <1>1. /\ items' \in ItemLists /\ at' = 1 /\ selected' = {} /\ pc' = "item" /\ stage' = 1
        /\ outcome' = "busy" /\ body' = Nothing /\ misled' = {} /\ calls' = calls + 1
        /\ UNCHANGED <<marker, torn>>
    BY DEF SaveAgain
  <1>2. /\ picture' \in [Paths -> Urls \cup {Nothing}]
        /\ \A p \in Paths : picture'[p] # Nothing => picture'[p] = picture[p]
    BY DEF SaveAgain, TypeOK
  <1>3. Len(items') \in Nat /\ DOMAIN items' = 1..Len(items')
    BY <1>1, ItemsAssumption
  <1>4. TypeOK'
    BY <1>1, <1>2, <1>3 DEF TypeOK
  <1>5. MarkersVouch'
    <2>1. CASE pc = "write"
      <3>1. \A p \in Paths : picture[p] # Nothing /\ p \notin torn /\ p # Path
                => marker[p] = picture[p]
        BY <2>1 DEF FilesInv, MarkersVouch
      <3> QED
        BY <2>1 DEF SaveAgain, HandInv
    <2>2. CASE pc # "write"
      BY <1>1, <1>2, <2>2 DEF FilesInv, MarkersVouch
    <2> QED
      BY <2>1, <2>2
  <1>6. HandInv' /\ FilesInv'
    BY <1>1, <1>5 DEF HandInv, FilesInv
  <1>7. LoopInv'
    BY <1>1, <1>3 DEF LoopInv
  <1> QED
    BY <1>4, <1>6, <1>7

LEMMA Stutter == IInv /\ UNCHANGED vars => IInv'
  <1> SUFFICES ASSUME IInv, UNCHANGED vars PROVE IInv'
    OBVIOUS
  <1>1. UNCHANGED <<picture, marker, items, at, selected, pc, body, stage, outcome, torn,
                    misled, calls>>
    BY DEF vars, files
  <1>2. TypeOK' /\ HandInv'
    BY <1>1 DEF IInv, TypeOK, HandInv, Url
  <1>3. FilesInv'
    BY <1>1 DEF IInv, FilesInv, MarkersVouch, Vouches, Path
  <1>4. LoopInv'
    BY <1>1, OffersStay DEF IInv, LoopInv, Path
  <1> QED
    BY <1>2, <1>3, <1>4 DEF IInv

\* The inductive invariant holds whatever fails and however often Save runs.
THEOREM Inductive == Spec => []IInv
  <1>1. IInv /\ [Next]_vars => IInv'
    BY EndSteps, PassStep, SkipStep, TakeStep, FetchStep, WriteSteps, DoneStep, AgainStep,
       Stutter DEF Next, Step
  <1> QED
    BY <1>1, Initially, PTL DEF Spec

\* Nothing but a body that passed its checks ever stands where a picture is
\* kept (download.go 43-50).
THEOREM OnlyPictures == Spec => []TypeOK
  <1>1. IInv => TypeOK
    BY DEF IInv
  <1> QED
    BY <1>1, Inductive, PTL

\* Marker and picture disagree only where a download was cut off between them
\* (download.go 51-57).
THEOREM MarkersTell == Spec => []MarkersVouch
  <1>1. IInv => MarkersVouch
    BY DEF IInv, FilesInv
  <1> QED
    BY <1>1, Inductive, PTL

\* A Save that succeeds has left the first picture offered for every path,
\* cut-off downloads of earlier calls apart (download.go 63-85).
THEOREM FirstOfferSaved == Spec => []SavedAsSelected
  <1>1. IInv => SavedAsSelected
    <2> SUFFICES ASSUME IInv, outcome = "ok", NEW p \in Paths, Offered(p) # {}, p \notin torn
                 PROVE  picture[p] = Wanted(p)
      BY DEF SavedAsSelected
    <2> USE DEF IInv
    <2>1. at \in Nat /\ at > Len(items) /\ pc = "over" /\ DOMAIN items = 1..Len(items)
          /\ Len(items) \in Nat
      BY ItemsTyped DEF LoopInv, HandInv, TypeOK
    <2>2. p \in selected
      BY <2>1 DEF LoopInv, Offered, HasUrl
    <2>3. PICK n \in DOMAIN items : Offer(n) /\ items[n].path = p
      BY <2>2 DEF LoopInv
    <2>4. picture[p] = items[n].url
      BY <2>1, <2>3 DEF LoopInv
    <2>5. n \in Offered(p) /\ \A m \in Offered(p) : n <= m
      BY <2>3 DEF Offer, HasUrl, Offered
    <2>6. \A l \in Offered(p) : (\A m \in Offered(p) : l <= m) => l = n
      BY <2>1, <2>5 DEF Offered
    <2>7. (CHOOSE l \in Offered(p) : \A m \in Offered(p) : l <= m) = n
      BY <2>5, <2>6
    <2> QED
      BY <2>4, <2>7 DEF Wanted
  <1> QED
    BY <1>1, Inductive, PTL
=============================================================================
