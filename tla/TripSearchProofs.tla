--------------------------- MODULE TripSearchProofs ---------------------------
(***************************************************************************)
(* The pages of TripSearch, for any rides, limits and page sizes: a list is*)
(* laid out by places (the number of rides before one), a page holds the   *)
(* places after those of the pages before it, and what comes into a list or*)
(* goes out of it moves the places of the rides behind it only.            *)
(***************************************************************************)
EXTENDS TripSearch, FiniteSetTheorems, TLAPS

------------------------------------------------------------------------------
\* A page has at least one place, and begins where the one before it ends.
LEMMA PagesFollow ==
    ASSUME Assumptions, NEW limit \in Limits, NEW page \in Nat \ {0}
    PROVE  /\ Take(limit) \in Nat \ {0}
           /\ Skip(page, limit) \in Nat
           /\ Skip(page + 1, limit) = Skip(page, limit) + Take(limit)
           /\ Skip(1, limit) = 0
<1>1. Take(limit) \in Nat \ {0}
  BY DEF Assumptions, Take
<1> DEFINE t == Take(limit)
<1>2. t \in Nat \ {0}
  BY <1>1
<1> HIDE DEF t
<1>3. /\ (page - 1) * t \in Nat
      /\ (page + 1 - 1) * t = (page - 1) * t + t
      /\ (1 - 1) * t = 0
  BY <1>2
<1> QED
  BY <1>1, <1>3 DEF Skip, t

\* The pages counted by buildPaginationMeta hold the whole list.
LEMMA PagesHold ==
    ASSUME NEW total \in Nat, NEW size \in Nat \ {0}, NEW page \in Nat \ {0},
           ~ page < TotalPages(total, size)
    PROVE  total <= page * size
<1> DEFINE n == total + size - 1
           q == n \div size
<1>1. n \in Nat
  OBVIOUS
<1>2. q \in Int /\ n < size * (q + 1)
  BY <1>1
<1>3. q <= page
  BY <1>2 DEF TotalPages
<1> HIDE DEF q
<1>4. size * (q + 1) <= size * (page + 1)
  BY <1>2, <1>3
<1> QED
  BY <1>2, <1>4

\* In the order of creation no two rides tie, so the place of a ride is one
\* and the same for every query: its spot.
Untied == [r \in Rows |-> r]
Spot(kind, sort, r) == Place(kind, sort, Untied, r)
LEMMA SpotIsPlace ==
    ASSUME Assumptions, SortsAreFixed, NEW kind, NEW sort \in Sorts, NEW tie \in Ties(sort),
           NEW r \in Rows
    PROVE  Place(kind, sort, tie, r) = Spot(kind, sort, r)
<1>1. tie = Untied
  BY DEF Ties, Untied, SortsAreFixed
<1> QED
  BY <1>1 DEF Spot

\* So a page holds the rides whose spots it covers, whatever the database chose.
LEMMA PageIsSpots ==
    ASSUME Assumptions, SortsAreFixed, NEW kind, NEW sort \in Sorts, NEW tie \in Ties(sort),
           NEW page, NEW limit
    PROVE  \A r : r \in Page(kind, sort, tie, page, limit) <=>
                     /\ r \in Listed(kind)
                     /\ Skip(page, limit) <= Spot(kind, sort, r)
                     /\ Spot(kind, sort, r) < Skip(page, limit) + Take(limit)
<1>1. \A r \in Listed(kind) : Place(kind, sort, tie, r) = Spot(kind, sort, r)
  BY SpotIsPlace DEF Listed
<1> QED
  BY <1>1 DEF Page

\* The spot of a ride is below the length of its list.
LEMMA SpotsInList ==
    ASSUME Assumptions, SortsAreFixed, NEW kind, NEW sort \in Sorts
    PROVE  /\ IsFiniteSet(Listed(kind)) /\ Cardinality(Listed(kind)) \in Nat
           /\ \A r : Spot(kind, sort, r) \in Nat
           /\ \A r \in Listed(kind) :
                  Spot(kind, sort, r) < Cardinality(Listed(kind))
<1> DEFINE L == Listed(kind)
           F(r) == {s \in L : Before(kind, sort, Untied, s, r)}
<1>1. L \subseteq Rows /\ IsFiniteSet(Rows) /\ Rows \subseteq Nat
  <2>1. L \subseteq Rows
    BY DEF Listed
  <2> QED
    BY <2>1 DEF Assumptions
<1>2. IsFiniteSet(L)
  BY <1>1, FS_Subset
<1>3. ASSUME NEW r PROVE F(r) \subseteq L /\ IsFiniteSet(F(r))
  BY <1>2, FS_Subset
<1>4. ASSUME NEW r \in L PROVE Cardinality(F(r)) < Cardinality(L)
  <2>1. r \notin F(r)
    <3>1. ~ Before(kind, sort, Untied, r, r)
      <4>1. r \in Nat /\ Untied[r] = r /\ sort \in {"newest", "oldest"}
        BY <1>1, <1>4 DEF Untied, SortsAreFixed
      <4> QED
        BY <4>1 DEF Before, Key
    <3> QED
      BY <3>1
  <2>2. F(r) # L
    BY <2>1
  <2> HIDE DEF L, F
  <2> QED
    BY <1>2, <1>3, <2>2, FS_Subset, FS_CardinalityType
<1>5. \A r : Cardinality(F(r)) \in Nat
  BY <1>3, FS_CardinalityType
<1>6. Cardinality(L) \in Nat
  BY <1>2, FS_CardinalityType
<1> QED
  BY <1>2, <1>4, <1>5, <1>6 DEF Place, Spot

------------------------------------------------------------------------------
\* A step is one of the rides, or the first page or the next one.
RideStep == UNCHANGED <<client, shown>> /\ StillListed
PageStep(kind, sort, page, limit) ==
    /\ Asked(kind, sort, page, limit)
    /\ \/ client = None /\ page = 1 /\ steady' = Listed(kind)
       \/ /\ client # None /\ UNCHANGED steady
          /\ kind = client.kind /\ sort = client.sort
          /\ page = client.page /\ limit = client.limit
SomePage ==
    \E kind \in Kinds, sort \in Sorts, page \in Nat \ {0}, limit \in Limits :
        PageStep(kind, sort, page, limit)

\* A ride that is published stays where it is; without arrivals it comes into
\* no list, and without departures it goes out of none.
RideKept(r) ==
    /\ ride[r] # None => /\ ride'[r] # None
                         /\ ride'[r].distance = ride[r].distance
                         /\ ride'[r].picked = ride[r].picked
    /\ ride[r] # None /\ ~Departures =>
           /\ ride'[r].status = ride[r].status
           /\ ride[r].isOpen => ride'[r].isOpen
    /\ ride'[r] # None /\ ~Arrivals =>
           /\ ride[r] # None
           /\ ride'[r].isOpen => ride[r].isOpen
           /\ ride'[r].status = "SCHEDULED" => ride[r].status = "SCHEDULED"
           /\ ride'[r].status = "ONGOING" => ride[r].status \in {"SCHEDULED", "ONGOING"}

\* A step changes one ride as its action does and no page, or shows a page of unchanged rides.
LEMMA StepKinds ==
    ASSUME Assumptions, TypeOK, Next
    PROVE  /\ ride' \in [Rows -> Ride \cup {None}]
           /\ \A r \in Rows : RideKept(r)
           /\ RideStep \/ SomePage
<1> USE DEF RideStep
<1>1. None \notin Ride
  BY DEF Assumptions
<1>2. ASSUME NEW r \in Rows, NEW row \in Ride, Becomes(r, row), UNCHANGED <<client, shown>>,
             StillListed,
             ride[r] # None =>
                 /\ row.distance = ride[r].distance /\ row.picked = ride[r].picked
                 /\ ~Departures => /\ row.status = ride[r].status
                                   /\ ride[r].isOpen => row.isOpen,
             ~Arrivals =>
                 /\ ride[r] # None
                 /\ row.isOpen => ride[r].isOpen
                 /\ row.status = "SCHEDULED" => ride[r].status = "SCHEDULED"
                 /\ row.status = "ONGOING" => ride[r].status \in {"SCHEDULED", "ONGOING"}
      PROVE  /\ ride' \in [Rows -> Ride \cup {None}]
             /\ \A s \in Rows : RideKept(s)
             /\ RideStep
  <2>1. ride' \in [Rows -> Ride \cup {None}]
    BY <1>2 DEF Becomes, TypeOK
  <2>2. ASSUME NEW s \in Rows PROVE RideKept(s)
    <3>1. CASE s = r
      <4>1. ride'[s] = row /\ row # None
        BY <1>1, <1>2, <3>1 DEF Becomes, TypeOK
      <4> QED
        BY <1>2, <3>1, <4>1 DEF RideKept
    <3>2. CASE s # r
      <4>1. ride'[s] = ride[s]
        BY <1>2, <3>2 DEF Becomes, TypeOK
      <4>2. ride[s] # None => ride[s] \in Ride
        BY DEF TypeOK
      <4> QED
        BY <4>1, <4>2 DEF RideKept, Ride
    <3> QED
      BY <3>1, <3>2
  <2> QED
    BY <1>2, <2>1, <2>2
<1>3. \A r \in Rows : ride[r] # None => ride[r] \in Ride
  BY DEF TypeOK
<1>4. ASSUME NEW r \in Rows, Empties(r)
      PROVE  /\ ride' \in [Rows -> Ride \cup {None}]
             /\ \A s \in Rows : RideKept(s)
             /\ RideStep
  <2> DEFINE row == [ride[r] EXCEPT !.isOpen = TRUE]
  <2>1. /\ row \in Ride /\ row.distance = ride[r].distance /\ row.picked = ride[r].picked
        /\ row.status = ride[r].status /\ row.isOpen
    BY <1>3, <1>4 DEF Empties, Ride
  <2>2. Arrivals /\ Becomes(r, row) /\ UNCHANGED <<client, shown>> /\ StillListed
    BY <1>4 DEF Empties
  <2> HIDE DEF row
  <2> QED
    BY <1>2, <2>1, <2>2
<1>5. ASSUME NEW r \in Rows, Fills(r)
      PROVE  /\ ride' \in [Rows -> Ride \cup {None}]
             /\ \A s \in Rows : RideKept(s)
             /\ RideStep
  <2> DEFINE row == [ride[r] EXCEPT !.isOpen = FALSE]
  <2>1. /\ row \in Ride /\ row.distance = ride[r].distance /\ row.picked = ride[r].picked
        /\ row.status = ride[r].status /\ ~row.isOpen
        /\ ride[r].status \in {"SCHEDULED", "ONGOING", "COMPLETED"}
    BY <1>3, <1>5 DEF Fills, Ride
  <2>2. /\ Departures /\ Becomes(r, row) /\ UNCHANGED <<client, shown>> /\ StillListed
        /\ ride[r] # None
    BY <1>5 DEF Fills
  <2> HIDE DEF row
  <2> QED
    BY <1>2, <2>1, <2>2
<1>6. ASSUME NEW r \in Rows, Leaves(r)
      PROVE  /\ ride' \in [Rows -> Ride \cup {None}]
             /\ \A s \in Rows : RideKept(s)
             /\ RideStep
  <2> DEFINE row == [ride[r] EXCEPT !.status = Left(@)]
  <2>1. /\ row \in Ride /\ row.distance = ride[r].distance /\ row.picked = ride[r].picked
        /\ row.status = Left(ride[r].status) /\ row.isOpen = ride[r].isOpen
    BY <1>3, <1>6 DEF Leaves, Ride, Left
  <2>2. /\ Departures /\ Becomes(r, row) /\ UNCHANGED <<client, shown>> /\ StillListed
        /\ ride[r] # None
    BY <1>6 DEF Leaves
  <2>3. /\ row.status # "SCHEDULED"
        /\ row.status = "ONGOING" => ride[r].status = "SCHEDULED"
    BY <2>1 DEF Left
  <2> HIDE DEF row
  <2> QED
    BY <1>2, <2>1, <2>2, <2>3
<1>7. ASSUME NEW r \in Rows, NEW d \in 0..MaxDistance, NEW p \in BOOLEAN, Publish(r, d, p)
      PROVE  /\ ride' \in [Rows -> Ride \cup {None}]
             /\ \A s \in Rows : RideKept(s)
             /\ RideStep
  <2> DEFINE row == [status |-> "SCHEDULED", isOpen |-> TRUE, distance |-> d, picked |-> p]
  <2>1. row \in Ride
    BY DEF Ride
  <2>2. /\ Arrivals /\ Becomes(r, row) /\ UNCHANGED <<client, shown>> /\ StillListed
        /\ ride[r] = None
    BY <1>7 DEF Publish
  <2> HIDE DEF row
  <2> QED
    BY <1>2, <2>1, <2>2
<1>8. ASSUME SomePage
      PROVE  /\ ride' \in [Rows -> Ride \cup {None}]
             /\ \A s \in Rows : RideKept(s)
  <2>1. UNCHANGED ride
    BY <1>8 DEF SomePage, PageStep, Asked
  <2> QED
    BY <1>3, <2>1 DEF TypeOK, RideKept, Ride
<1>9. ASSUME NEW kind \in Kinds, NEW sort \in Sorts, NEW limit \in Limits,
             FirstPage(kind, sort, limit)
      PROVE  SomePage
  <2>1. PageStep(kind, sort, 1, limit)
    BY <1>9 DEF FirstPage, PageStep, Listed
  <2> QED
    BY <2>1 DEF SomePage
<1>10. ASSUME NextPage PROVE SomePage
  <2>1. client \in ClientState
    BY <1>10 DEF NextPage, TypeOK
  <2>2. /\ client.kind \in Kinds /\ client.sort \in Sorts
        /\ client.page \in Nat \ {0} /\ client.limit \in Limits
    BY <2>1 DEF ClientState
  <2>3. PageStep(client.kind, client.sort, client.page, client.limit)
    BY <1>10 DEF NextPage, PageStep
  <2> QED
    BY <2>2, <2>3 DEF SomePage
<1> QED
  BY <1>4, <1>5, <1>6, <1>7, <1>8, <1>9, <1>10 DEF Next

\* So lists only grow without departures, and only shrink without arrivals,
LEMMA ListsKept ==
    ASSUME Assumptions, TypeOK, ride' \in [Rows -> Ride \cup {None}],
           NEW r \in Rows, RideKept(r), NEW kind
    PROVE  /\ ~Departures /\ Matches(kind, r) => Matches(kind, r)'
           /\ ~Arrivals /\ Matches(kind, r)' => Matches(kind, r)
<1>1. /\ ride[r] # None => ride[r] \in Ride
      /\ ride'[r] # None => ride'[r] \in Ride
  BY DEF TypeOK
<1>2. CASE kind = "feed"
  BY <1>1, <1>2 DEF Matches, RideKept, InFeed, Ride
<1>3. CASE kind = "search"
  BY <1>1, <1>3 DEF Matches, RideKept, InSearch, Ride
<1>4. CASE kind \notin {"feed", "search"}
  BY <1>1, <1>4 DEF Matches, RideKept, Ride
<1> QED
  BY <1>2, <1>3, <1>4

\* and a ride moves back in a list that grows, and forward in one that shrinks.
LEMMA SpotsKept ==
    ASSUME Assumptions, SortsAreFixed, TypeOK, ride' \in [Rows -> Ride \cup {None}],
           \A r \in Rows : RideKept(r), NEW kind, NEW sort \in Sorts,
           NEW r \in Rows, ride[r] # None
    PROVE  /\ Spot(kind, sort, r) \in Nat /\ Spot(kind, sort, r)' \in Nat
           /\ ~Departures => Spot(kind, sort, r) <= Spot(kind, sort, r)'
           /\ ~Arrivals => Spot(kind, sort, r)' <= Spot(kind, sort, r)
<1> DEFINE F == {s \in Listed(kind) : Before(kind, sort, Untied, s, r)}
           G == {s \in Listed(kind)' : Before(kind, sort, Untied, s, r)'}
<1>1. ASSUME NEW s \in Rows, ride[s] # None
      PROVE  Before(kind, sort, Untied, s, r)' <=> Before(kind, sort, Untied, s, r)
  <2>1. sort \in {"newest", "oldest"}
    BY DEF SortsAreFixed
  <2>2. Key(sort, s)' = Key(sort, s) /\ Key(sort, r)' = Key(sort, r)
    BY <2>1 DEF Key
  <2>3. ride'[s].distance = ride[s].distance /\ ride'[r].distance = ride[r].distance
    BY <1>1 DEF RideKept
  <2> QED
    BY <2>2, <2>3 DEF Before, Untied
<1>2. \A s \in Rows : /\ Matches(kind, s) => ride[s] # None
                      /\ ~Arrivals /\ Matches(kind, s)' => ride[s] # None
  BY DEF Matches, RideKept
<1>3. /\ ~Departures => F \subseteq G
      /\ ~Arrivals => G \subseteq F
  BY <1>1, <1>2, ListsKept DEF Listed
<1>4. F \in SUBSET Rows /\ G \in SUBSET Rows /\ IsFiniteSet(Rows)
  BY DEF Listed, Assumptions
<1>5. Spot(kind, sort, r) = Cardinality(F) /\ Spot(kind, sort, r)' = Cardinality(G)
  BY DEF Place, Spot, Untied
<1> HIDE DEF F, G
<1>6. IsFiniteSet(F) /\ IsFiniteSet(G)
  BY <1>4, FS_Subset
<1>7. Cardinality(F) \in Nat /\ Cardinality(G) \in Nat
  BY <1>6, FS_CardinalityType
<1>8. /\ F \subseteq G => Cardinality(F) <= Cardinality(G)
      /\ G \subseteq F => Cardinality(G) <= Cardinality(F)
  BY <1>6, FS_Subset
<1> QED
  BY <1>3, <1>5, <1>7, <1>8

------------------------------------------------------------------------------
\* A page that was asked for counts its rides and moves the client on.
LEMMA AskedIsClient ==
    ASSUME Assumptions, TypeOK, NEW kind \in Kinds, NEW sort \in Sorts,
           NEW page \in Nat \ {0}, NEW limit \in Limits, Asked(kind, sort, page, limit)
    PROVE  /\ client' \in ClientState /\ client' # None
           /\ client'.kind = kind /\ client'.sort = sort
           /\ client'.limit = limit /\ client'.page = page + 1
           /\ client'.more = HasNext(kind, page, limit)
           /\ shown' \in [Rows -> Nat]
<1>1. HasNext(kind, page, limit) \in BOOLEAN
  BY DEF HasNext
<1>2. client' \in ClientState
  BY <1>1 DEF Asked, ClientState
<1> QED
  BY <1>1, <1>2 DEF Asked, TypeOK, Assumptions
LEMMA AskedIsShown ==
    ASSUME TypeOK, NEW kind, NEW sort, NEW page, NEW limit, Asked(kind, sort, page, limit)
    PROVE  \E tie \in Ties(sort) : \A r \in Rows :
               shown'[r] = shown[r] + IF r \in Page(kind, sort, tie, page, limit) THEN 1 ELSE 0
BY DEF Asked, TypeOK

\* Every step keeps the types.
LEMMA StepTypeOK ==
    ASSUME Assumptions, TypeOK, [Next]_vars
    PROVE  TypeOK'
<1>1. CASE UNCHANGED vars
  BY <1>1 DEF vars, TypeOK
<1>2. CASE Next /\ RideStep
  BY <1>2, StepKinds DEF RideStep, StillListed, TypeOK
<1>3. CASE Next /\ SomePage
  <2>1. PICK kind \in Kinds, sort \in Sorts, page \in Nat \ {0}, limit \in Limits :
            PageStep(kind, sort, page, limit)
    BY <1>3 DEF SomePage
  <2>2. steady' \subseteq Rows
    BY <2>1 DEF PageStep, TypeOK, Listed
  <2> QED
    BY <1>3, <2>1, <2>2, AskedIsClient, StepKinds DEF TypeOK, PageStep
<1> QED
  BY <1>1, <1>2, <1>3, StepKinds

------------------------------------------------------------------------------
\* Rides that have been in the client's list all the time are still ahead of
\* the client, or were shown to it.
SteadyAhead ==
    client # None => \A r \in steady :
        /\ Matches(client.kind, r)
        /\ shown[r] = 0 => /\ client.more
                           /\ Skip(client.page, client.limit)
                                  <= Spot(client.kind, client.sort, r)

\* A page without a next one ends the list.
LEMMA MetaCounts ==
    ASSUME Assumptions, TypeOK, CountsKept, LimitsKept,
           NEW kind \in Kinds, NEW limit \in Limits
    PROVE  /\ Total(kind) \in Nat /\ Cardinality(Listed(kind)) <= Total(kind)
           /\ PageSize(kind, limit) = Take(limit)
<1>1. PageSize(kind, limit) = Take(limit)
  BY DEF PageSize, Take, LimitsKept, Assumptions
<1>2. IsFiniteSet(Rows)
  BY DEF Assumptions
<1> DEFINE L == Listed(kind)
           A == {r \in Rows : Counted(kind, r)}
<1>3. L \in SUBSET A /\ A \in SUBSET Rows
  BY DEF Listed, Matches, Counted, CountsKept
<1>4. Total(kind) = Cardinality(A)
  BY DEF Total
<1> HIDE DEF L, A
<1>5. IsFiniteSet(A) /\ IsFiniteSet(L)
  BY <1>2, <1>3, FS_Subset
<1>6. Cardinality(L) <= Cardinality(A) /\ Cardinality(L) \in Nat /\ Cardinality(A) \in Nat
  BY <1>3, <1>5, FS_Subset, FS_CardinalityType
<1> QED
  BY <1>1, <1>4, <1>6 DEF L

\* While no ride leaves, the steady ones that were not shown stay ahead of the pages.
LEMMA StepSteadyAhead ==
    ASSUME Assumptions, SortsAreFixed, CountsKept, LimitsKept, ~Departures,
           TypeOK, SteadyAhead, [Next]_vars
    PROVE  SteadyAhead'
<1>1. CASE UNCHANGED vars
  <2>1. UNCHANGED <<ride, client, shown, steady>>
    BY <1>1 DEF vars
  <2> QED
    BY <2>1 DEF SteadyAhead, Matches, InFeed, InSearch, Spot, Place, Listed, Before, Key
<1>2. CASE Next /\ RideStep
  <2> SUFFICES ASSUME client # None, NEW r \in steady', NEW kind, kind = client.kind,
                      NEW sort, sort = client.sort
               PROVE  /\ Matches(kind, r)'
                      /\ shown[r] = 0 => /\ client.more
                                         /\ Skip(client.page, client.limit) <= Spot(kind, sort, r)'
    <3>1. UNCHANGED <<client, shown>>
      BY <1>2 DEF RideStep
    <3> QED
      BY <3>1 DEF SteadyAhead, Skip, Take
  <2>1. r \in steady /\ r \in Rows /\ Matches(kind, r)'
    BY <1>2 DEF RideStep, StillListed, TypeOK
  <2>2. Matches(kind, r) /\ ride[r] # None
    BY <2>1 DEF SteadyAhead, Matches
  <2>3. client \in ClientState /\ sort \in Sorts
    BY DEF TypeOK, ClientState
  <2>4. /\ Spot(kind, sort, r) \in Nat /\ Spot(kind, sort, r)' \in Nat
        /\ Spot(kind, sort, r) <= Spot(kind, sort, r)'
    BY <1>2, <2>1, <2>2, <2>3, StepKinds, SpotsKept
  <2>5. Skip(client.page, client.limit) \in Nat
    BY <2>3, PagesFollow DEF ClientState
  <2> QED
    BY <2>1, <2>4, <2>5 DEF SteadyAhead
<1>3. CASE Next /\ SomePage
  <2>1. PICK kind \in Kinds, sort \in Sorts, page \in Nat \ {0}, limit \in Limits :
            PageStep(kind, sort, page, limit)
    BY <1>3 DEF SomePage
  <2>2. Asked(kind, sort, page, limit) /\ UNCHANGED ride
    BY <2>1 DEF PageStep, Asked
  <2>3. ASSUME NEW r \in steady'
        PROVE  /\ r \in Rows /\ Matches(kind, r)
               /\ shown[r] = 0 \/ client = None => Skip(page, limit) <= Spot(kind, sort, r)
    <3>1. CASE client = None
      <4>1. Matches(kind, r) /\ r \in Rows /\ page = 1
        BY <2>1, <2>3, <3>1 DEF PageStep, Listed
      <4>2. Skip(page, limit) = 0
        BY <4>1, PagesFollow
      <4>3. Spot(kind, sort, r) \in Nat
        BY SpotsInList
      <4> QED
        BY <4>1, <4>2, <4>3
    <3>2. CASE client # None
      BY <2>1, <3>2 DEF PageStep, SteadyAhead, TypeOK
    <3> QED
      BY <3>1, <3>2
  <2> SUFFICES ASSUME NEW r \in steady'
               PROVE  /\ Matches(kind, r)
                      /\ shown'[r] = 0 => /\ HasNext(kind, page, limit)
                                          /\ Skip(page + 1, limit) <= Spot(kind, sort, r)
    <3>1. \A r : Matches(kind, r)' <=> Matches(kind, r)
      BY <2>2 DEF Matches, InFeed, InSearch
    <3>2. \A r : Spot(kind, sort, r)' = Spot(kind, sort, r)
      BY <2>2 DEF Spot, Place, Listed, Before, Key, Matches, InFeed, InSearch
    <3>3. /\ client'.kind = kind /\ client'.sort = sort
          /\ client'.limit = limit /\ client'.page = page + 1
          /\ client'.more = HasNext(kind, page, limit)
      BY <2>2, AskedIsClient
    <3>4. \A r : Spot(client.kind, client.sort, r)' = Spot(kind, sort, r)
      BY <3>2, <3>3 DEF Spot, Place, Listed, Before, Key, Matches, InFeed, InSearch
    <3>5. \A r : Matches(client.kind, r)' <=> Matches(kind, r)
      BY <3>1, <3>3 DEF Matches, InFeed, InSearch
    <3> QED
      BY <3>3, <3>4, <3>5 DEF SteadyAhead, Skip, Take
  <2> SUFFICES ASSUME shown'[r] = 0
               PROVE  HasNext(kind, page, limit) /\ Skip(page + 1, limit) <= Spot(kind, sort, r)
    BY <2>3
  <2>4. /\ shown[r] = 0
        /\ ~ (/\ Skip(page, limit) <= Spot(kind, sort, r)
              /\ Spot(kind, sort, r) < Skip(page, limit) + Take(limit))
    <3>1. PICK tie \in Ties(sort) :
              shown'[r] = shown[r] + IF r \in Page(kind, sort, tie, page, limit) THEN 1 ELSE 0
      BY <2>2, <2>3, AskedIsShown
    <3>2. shown[r] = 0 /\ r \notin Page(kind, sort, tie, page, limit)
      BY <2>3, <3>1 DEF TypeOK
    <3> QED
      BY <2>3, <3>2, PageIsSpots DEF Listed
  <2>5. /\ Spot(kind, sort, r) \in Nat /\ Cardinality(Listed(kind)) \in Nat
        /\ Spot(kind, sort, r) < Cardinality(Listed(kind))
    BY <2>3, SpotsInList DEF Listed
  <2>6. Skip(page + 1, limit) <= Spot(kind, sort, r)
    BY <2>3, <2>4, <2>5, PagesFollow
  <2>7. HasNext(kind, page, limit)
    <3> SUFFICES ASSUME ~HasNext(kind, page, limit) PROVE FALSE
      OBVIOUS
    <3>1. Total(kind) <= page * Take(limit)
      BY PagesHold, MetaCounts, PagesFollow DEF HasNext
    <3>2. page * Take(limit) = Skip(page + 1, limit)
      BY PagesFollow DEF Skip
    <3> QED
      BY <2>5, <2>6, <3>1, <3>2, MetaCounts, PagesFollow
  <2> QED
    BY <2>6, <2>7
<1> QED
  BY <1>1, <1>2, <1>3, StepKinds

------------------------------------------------------------------------------
\* What the client was shown is behind it, while it is in the list.
ShownBehind ==
    /\ client = None => \A r \in Rows : shown[r] = 0
    /\ client # None => \A r \in Rows :
           Matches(client.kind, r) /\ shown[r] > 0 =>
               Spot(client.kind, client.sort, r) < Skip(client.page, client.limit)

\* While no ride arrives, the ones that were shown stay behind the pages.
LEMMA StepShownBehind ==
    ASSUME Assumptions, SortsAreFixed, ~Arrivals, TypeOK, ShownBehind, NoRideTwice,
           [Next]_vars
    PROVE  ShownBehind' /\ NoRideTwice'
<1>1. CASE UNCHANGED vars
  <2>1. UNCHANGED <<ride, client, shown>>
    BY <1>1 DEF vars
  <2> QED
    BY <2>1
     DEF ShownBehind, NoRideTwice, Matches, InFeed, InSearch, Spot, Place, Listed, Before, Key
<1>2. CASE Next /\ RideStep
  <2>1. UNCHANGED <<client, shown>>
    BY <1>2 DEF RideStep
  <2> SUFFICES ASSUME client # None, NEW r \in Rows, NEW kind, kind = client.kind,
                      NEW sort, sort = client.sort, Matches(kind, r)', shown[r] > 0
               PROVE  Spot(kind, sort, r)' < Skip(client.page, client.limit)
    BY <2>1 DEF ShownBehind, NoRideTwice, Skip, Take
  <2>2. Matches(kind, r) /\ ride[r] # None
    <3>1. Matches(kind, r)
      BY <1>2, StepKinds, ListsKept
    <3> QED
      BY <3>1 DEF Matches
  <2>3. client \in ClientState /\ sort \in Sorts
    BY DEF TypeOK, ClientState
  <2>4. /\ Spot(kind, sort, r) \in Nat /\ Spot(kind, sort, r)' \in Nat
        /\ Spot(kind, sort, r)' <= Spot(kind, sort, r)
    BY <1>2, <2>2, <2>3, StepKinds, SpotsKept
  <2>5. Skip(client.page, client.limit) \in Nat
    BY <2>3, PagesFollow DEF ClientState
  <2> QED
    BY <2>2, <2>4, <2>5 DEF ShownBehind
<1>3. CASE Next /\ SomePage
  <2>1. PICK kind \in Kinds, sort \in Sorts, page \in Nat \ {0}, limit \in Limits :
            PageStep(kind, sort, page, limit)
    BY <1>3 DEF SomePage
  <2>2. Asked(kind, sort, page, limit) /\ UNCHANGED ride
    BY <2>1 DEF PageStep, Asked
  <2>3. /\ client' # None
        /\ client'.kind = kind /\ client'.sort = sort
        /\ client'.limit = limit /\ client'.page = page + 1
    BY <2>2, AskedIsClient
  <2>4. PICK tie \in Ties(sort) : \A r \in Rows :
            shown'[r] = shown[r] + IF r \in Page(kind, sort, tie, page, limit) THEN 1 ELSE 0
    BY <2>2, AskedIsShown
  <2>5. ASSUME NEW r \in Rows
        PROVE  /\ shown'[r] <= 1
               /\ Matches(kind, r) /\ shown'[r] > 0 => Spot(kind, sort, r) < Skip(page + 1, limit)
    <3>1. Matches(kind, r) /\ shown[r] > 0 => Spot(kind, sort, r) < Skip(page, limit)
      BY <2>1 DEF PageStep, ShownBehind
    <3>2. /\ Spot(kind, sort, r) \in Nat /\ Skip(page, limit) \in Nat /\ Take(limit) \in Nat
          /\ Skip(page + 1, limit) = Skip(page, limit) + Take(limit)
      BY SpotsInList, PagesFollow
    <3>3. /\ shown[r] \in Nat /\ shown[r] <= 1
          /\ shown'[r] = shown[r] + IF r \in Page(kind, sort, tie, page, limit) THEN 1 ELSE 0
      BY <2>4 DEF TypeOK, NoRideTwice
    <3>4. CASE r \in Page(kind, sort, tie, page, limit)
      <4>1. /\ Matches(kind, r) /\ Skip(page, limit) <= Spot(kind, sort, r)
            /\ Spot(kind, sort, r) < Skip(page, limit) + Take(limit)
        BY <3>4, PageIsSpots DEF Listed
      <4> QED
        BY <3>1, <3>2, <3>3, <3>4, <4>1
    <3>5. CASE r \notin Page(kind, sort, tie, page, limit)
      BY <3>1, <3>2, <3>3, <3>5
    <3> QED
      BY <3>4, <3>5
  <2>6. \A r : /\ Matches(kind, r)' <=> Matches(kind, r)
              /\ Spot(kind, sort, r)' = Spot(kind, sort, r)
    BY <2>2 DEF Spot, Place, Listed, Before, Key, Matches, InFeed, InSearch
  <2> QED
    BY <2>3, <2>5, <2>6 DEF ShownBehind, NoRideTwice, Skip, Take
<1> QED
  BY <1>1, <1>2, <1>3, StepKinds

------------------------------------------------------------------------------
\* All of it holds before the first page.
LEMMA InitTypeOK ==
    ASSUME Assumptions, Init
    PROVE  TypeOK /\ SteadyAhead /\ ShownBehind /\ NoRideTwice
BY DEF Assumptions, Init, TypeOK, Ride, SteadyAhead, ShownBehind, NoRideTwice

(* The lists and what the client holds of them keep their types.           *)
THEOREM TypeCorrect ==
    ASSUME Assumptions
    PROVE  Spec => []TypeOK
<1>1. Init => TypeOK
  BY InitTypeOK
<1>2. TypeOK /\ [Next]_vars => TypeOK'
  BY StepTypeOK
<1> QED
  BY <1>1, <1>2, PTL DEF Spec

(* getTripFeed, searchTrips and the lists of buildFilterQuery: a client    *)
(* that pages to the end has seen every ride that stayed in its list, while*)
(* any number of others came in before it - if it sorts by the time of     *)
(* creation, does not ask for users of a type (they are counted by the     *)
(* filters alone), and asks the administrators' lists for limits that      *)
(* buildFilterQuery keeps (they divide by the one asked for).              *)
THEOREM SteadyRidesAreShown ==
    ASSUME Assumptions, SortsAreFixed, CountsKept, LimitsKept, ~Departures
    PROVE  Spec => []EveryRideShown
<1>1. Init => TypeOK /\ SteadyAhead
  BY InitTypeOK
<1>2. TypeOK /\ SteadyAhead /\ [Next]_vars => TypeOK' /\ SteadyAhead'
  BY StepTypeOK, StepSteadyAhead
<1>3. TypeOK /\ SteadyAhead => EveryRideShown
  BY DEF TypeOK, SteadyAhead, EveryRideShown
<1> QED
  BY <1>1, <1>2, <1>3, PTL DEF Spec

(* Any of the lists, users of a type included and with any limit, shows a  *)
(* client that sorts by the time of creation no ride twice, while any      *)
(* number of others go out before it.                                      *)
THEOREM RidesAreShownOnce ==
    ASSUME Assumptions, SortsAreFixed, ~Arrivals
    PROVE  Spec => []NoRideTwice
<1>1. Init => TypeOK /\ ShownBehind /\ NoRideTwice
  BY InitTypeOK
<1>2. TypeOK /\ ShownBehind /\ NoRideTwice /\ [Next]_vars
        => TypeOK' /\ ShownBehind' /\ NoRideTwice'
  BY StepTypeOK, StepShownBehind
<1> QED
  BY <1>1, <1>2, PTL DEF Spec
==============================================================================
