------------------------------ MODULE TripSearch ------------------------------
(***************************************************************************)
(* The lists a client pages through: the feed and the search of a passenger*)
(* (modules/passenger/trip), and the lists of the administrators and of the*)
(* chats, all over utils/buildquery.utils.  A page is an offset into what  *)
(* matches when it is asked for; between two pages rides are published,    *)
(* fill up, empty and leave.  The client asks for page after page as long  *)
(* as the answer's meta says hasNext.                                      *)
(***************************************************************************)
EXTENDS Integers, FiniteSets

CONSTANTS
    Rows,          \* bound: rides, numbered in the order of their creation
    MaxDistance,   \* bound: distances of a ride from the place asked for
    Radius,        \* radiusKm of the feed, SEARCH_THRESHOLD_KM of the search
    Kinds,         \* the lists: "feed", "search", "table", "ofType", "chats", "admin"
    Sorts,         \* the sorts a client asks for: "newest" (and none), "oldest", "status"
    Limits,        \* the limits a client asks for; 0 is none
    DefaultLimit, MaxLimit,   \* 10 and 100 in the code
    Arrivals,      \* TRUE: rides may come into a list while it is paged
    Departures,    \* TRUE: rides may go out of it
    None

\* isOpen stands for what a list asks of a row itself: the seats and the
\* departure of a ride, the type of a user, a chat's two sides; picked for the
\* filters of the client, on fields that stay.  "status" stands for a sort on
\* any field that changes or that rows have in common.
Ride == [status: {"SCHEDULED", "ONGOING", "COMPLETED"}, isOpen: BOOLEAN,
         distance: 0..MaxDistance, picked: BOOLEAN]
ClientState == [kind: Kinds, sort: Sorts, limit: Limits, page: Nat \ {0}, more: BOOLEAN]

Assumptions ==
    /\ Rows \subseteq Nat \ {0} /\ IsFiniteSet(Rows)
    /\ {MaxDistance, Radius} \subseteq Nat
    /\ MaxLimit \in Nat /\ DefaultLimit \in 1..MaxLimit /\ Limits \subseteq Nat
    /\ Kinds \subseteq {"feed", "search", "table", "ofType", "chats", "admin"}
    /\ Sorts \subseteq {"newest", "oldest", "status"}
    /\ {Arrivals, Departures} \subseteq BOOLEAN
    /\ None \notin Ride /\ None \notin ClientState

VARIABLES
    ride,    \* the rides, or None
    client,  \* what the client asked for and the number of its next page, or None
    shown,   \* per ride how often a page held it
    steady   \* history: rides in the client's list since its first page

vars == <<ride, client, shown, steady>>

\* One type invariant: rides and the client have their shapes.
TypeOK ==
    /\ ride \in [Rows -> Ride \cup {None}]
    /\ client \in ClientState \cup {None}
    /\ shown \in [Rows -> Nat]
    /\ steady \subseteq Rows

Init ==
    /\ ride \in [Rows -> [status: {"SCHEDULED"}, isOpen: BOOLEAN,
                          distance: 0..MaxDistance, picked: BOOLEAN] \cup {None}]
    /\ \A r, s \in Rows : r < s /\ ride[r] = None => ride[s] = None
    /\ client = None
    /\ shown = [r \in Rows |-> 0]
    /\ steady = {}

------------------------------------------------------------------------------
(* Who is in a list.  The search replaces the client's filters by its own  *)
(* conditions, the feed and the chats add theirs to them, and of users of a*)
(* type only the type counts.                                              *)
InFeed(r) ==
    /\ ride[r].status = "SCHEDULED" /\ ride[r].isOpen /\ ride[r].picked
    /\ ride[r].distance <= Radius
InSearch(r) ==
    /\ ride[r].status \in {"SCHEDULED", "ONGOING"} /\ ride[r].isOpen
    /\ ride[r].distance <= Radius
Matches(kind, r) ==
    /\ ride[r] # None
    /\ CASE kind = "feed" -> InFeed(r)
         [] kind = "search" -> InSearch(r)
         [] kind = "ofType" -> ride[r].isOpen
         [] kind = "chats" -> ride[r].isOpen /\ ride[r].picked
         [] OTHER -> ride[r].picked

(* orderBy is the client's sort, newest first if it has none, and the feed *)
(* puts the nearest before that.  Rows the sort does not tell apart come in*)
(* an order the database chooses anew for every query, but no two rows were*)
(* created at one instant.  The place of a ride in a list counts the rides *)
(* before it.                                                              *)
Key(sort, r) ==
    CASE sort = "newest" -> -r
      [] sort = "oldest" -> r
      [] OTHER -> CASE ride[r].status = "SCHEDULED" -> 1
                    [] ride[r].status = "ONGOING" -> 2
                    [] OTHER -> 3
Ties(sort) ==
    IF sort \in {"newest", "oldest"} THEN {[r \in Rows |-> r]}
    ELSE {tie \in [Rows -> Rows] : \A r, s \in Rows : tie[r] = tie[s] => r = s}
Before(kind, sort, tie, r, s) ==
    IF kind = "feed" /\ ride[r].distance # ride[s].distance
    THEN ride[r].distance < ride[s].distance
    ELSE \/ Key(sort, r) < Key(sort, s)
         \/ Key(sort, r) = Key(sort, s) /\ tie[r] < tie[s]
Listed(kind) == {r \in Rows : Matches(kind, r)}
Place(kind, sort, tie, r) ==
    Cardinality({s \in Listed(kind) : Before(kind, sort, tie, s, r)})

(* buildFilterQuery: limit and skip of a page.                             *)
Take(limit) == IF limit = 0 THEN DefaultLimit
               ELSE IF limit > MaxLimit THEN MaxLimit ELSE limit
Skip_NextPage(page, limit) == page * Take(limit)
Skip(page, limit) == (page - 1) * Take(limit)
Page(kind, sort, tie, page, limit) ==
    {r \in Listed(kind) : /\ Skip(page, limit) <= Place(kind, sort, tie, r)
                          /\ Place(kind, sort, tie, r) < Skip(page, limit) + Take(limit)}

(* buildPaginationMeta: users of a type are counted by the client's filters*)
(* and not by their type, chats by their sides and not by the filters, and *)
(* the administrators' lists divide by the limit as it was asked for.      *)
Counted(kind, r) ==
    /\ ride[r] # None
    /\ CASE kind = "ofType" -> ride[r].picked
         [] kind = "chats" -> ride[r].isOpen
         [] OTHER -> Matches(kind, r)
Total(kind) == Cardinality({r \in Rows : Counted(kind, r)})
PageSize(kind, limit) ==
    IF kind = "admin" THEN (IF limit = 0 THEN DefaultLimit ELSE limit) ELSE Take(limit)
TotalPages(total, limit) == (total + limit - 1) \div limit
HasNext(kind, page, limit) == page < TotalPages(Total(kind), PageSize(kind, limit))

------------------------------------------------------------------------------
\* Rides in the client's list before a step and after it.
StillListed == steady' = IF client = None THEN {}
                         ELSE {r \in steady : Matches(client.kind, r)'}
Becomes(r, row) == ride' = [ride EXCEPT ![r] = row]

Publish(r, distance, picked) ==
    /\ Arrivals
    /\ ride[r] = None /\ \A n \in Rows : n < r => ride[n] # None
    /\ Becomes(r, [status |-> "SCHEDULED", isOpen |-> TRUE, distance |-> distance,
                   picked |-> picked])
    /\ UNCHANGED <<client, shown>>
    /\ StillListed
Empties(r) ==
    /\ Arrivals
    /\ ride[r] # None /\ ~ride[r].isOpen
    /\ Becomes(r, [ride[r] EXCEPT !.isOpen = TRUE])
    /\ UNCHANGED <<client, shown>>
    /\ StillListed
Fills(r) ==
    /\ Departures
    /\ ride[r] # None /\ ride[r].isOpen
    /\ Becomes(r, [ride[r] EXCEPT !.isOpen = FALSE])
    /\ UNCHANGED <<client, shown>>
    /\ StillListed
Left(status) == IF status = "SCHEDULED" THEN "ONGOING" ELSE "COMPLETED"
Leaves(r) ==
    /\ Departures
    /\ ride[r] # None /\ ride[r].status # "COMPLETED"
    /\ Becomes(r, [ride[r] EXCEPT !.status = Left(@)])
    /\ UNCHANGED <<client, shown>>
    /\ StillListed

\* The answer to a page, and what the client does with it.
Asked(kind, sort, page, limit) ==
    /\ \E tie \in Ties(sort) :
           shown' = [r \in Rows |->
               shown[r] + IF r \in Page(kind, sort, tie, page, limit) THEN 1 ELSE 0]
    /\ client' = [kind |-> kind, sort |-> sort, limit |-> limit, page |-> page + 1,
                  more |-> HasNext(kind, page, limit)]
    /\ UNCHANGED ride

FirstPage(kind, sort, limit) ==
    /\ client = None
    /\ Asked(kind, sort, 1, limit)
    /\ steady' = {r \in Rows : Matches(kind, r)}
NextPage ==
    /\ client # None /\ client.more
    /\ Asked(client.kind, client.sort, client.page, client.limit)
    /\ UNCHANGED steady

Next ==
    \/ \E r \in Rows : \/ Empties(r) \/ Fills(r) \/ Leaves(r)
                       \/ \E d \in 0..MaxDistance, p \in BOOLEAN : Publish(r, d, p)
    \/ \E kind \in Kinds, sort \in Sorts, limit \in Limits : FirstPage(kind, sort, limit)
    \/ NextPage

Spec == Init /\ [][Next]_vars

------------------------------------------------------------------------------
(* What the lists need to be paged through: the client sorts by the time of*)
(* creation; and for all to be shown, the count is not smaller than the    *)
(* list (getAllUsers with a type counts by the filters alone), and the page*)
(* asked for is as large as the one given (the administrators' lists).     *)
SortsAreFixed == Sorts \subseteq {"newest", "oldest"}
CountsKept == "ofType" \notin Kinds
LimitsKept == "admin" \in Kinds => \A limit \in Limits : limit <= MaxLimit

(* A client that pages to the end has seen every ride that was in its list *)
(* all the time, although others came into the list in front of it.        *)
EveryRideShown ==
    client # None /\ ~client.more => \A r \in steady : shown[r] > 0

(* A client sees no ride twice, although others go out of the list.        *)
NoRideTwice == \A r \in Rows : shown[r] <= 1
==============================================================================
