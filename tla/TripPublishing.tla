---------------------------- MODULE TripPublishing ----------------------------
(***************************************************************************)
(* What a driver needs before a ride can be booked: a car and documents    *)
(* (modules/driver/car), their review by an administrator (modules/admin/  *)
(* documents), and the publication of the ride itself (createTrip of       *)
(* modules/driver/trip).  Every handler reads, awaits and writes; what it  *)
(* read is in `request`.  Of a document row the urls are left out, and of  *)
(* an administrator's restriction of a driver the Redis set (Account).     *)
(***************************************************************************)
EXTENDS Integers, FiniteSets

CONSTANTS
    Drivers,
    Rides,      \* bound: rides published, numbered
    MaxTime,    \* bound: the last instant a ride may be published for
    Requests,   \* bound: requests open at the same time
    Serial,     \* TRUE: a handler starts only when none is open
    Restrictable,   \* bound: drivers an administrator may restrict meanwhile
    None

DocumentStatus == {"PENDING", "APPROVED", "REJECTED"}
DocumentType == {"rcStatus", "licenceStatus"}
DocumentRow == [rcStatus: DocumentStatus, licenceStatus: DocumentStatus, status: DocumentStatus]
NewDocument == [rcStatus |-> "PENDING", licenceStatus |-> "PENDING", status |-> "PENDING"]

Assumptions ==
    /\ Rides \subseteq Nat /\ MaxTime \in Nat /\ Serial \in BOOLEAN
    /\ None \notin DocumentRow /\ Restrictable \subseteq Drivers

VARIABLES
    car,        \* drivers with a car: driverId is a unique key
    document,   \* per driver the row of documents, or None
    agreed,     \* history: drivers both of whose documents were approved at once
    verified,   \* drivers whose user row says verified
    barred,     \* history: drivers restricted and not let in again since
    ride,       \* the rides: driver, departure, end and status, or None
    request     \* what each open request remembers at its current await

flags == <<verified, barred>>
vars == <<car, document, agreed, flags, ride, request>>

\* createTripShema takes any two dates, in either order.
Window == [departureTime: 0..MaxTime, endTime: 0..MaxTime]
RideRow == [driver: Drivers, departureTime: 0..MaxTime, endTime: 0..MaxTime,
            status: {"SCHEDULED", "ONGOING", "COMPLETED"}]

Idle == [at |-> "idle"]
RequestState ==
    {Idle}
    \cup [at: {"carFree", "unfinished", "finished", "verified"}, driver: Drivers]
    \cup [at: {"filed"}, driver: Drivers, existing: BOOLEAN]
    \cup [at: {"carSeen"}, driver: Drivers, car: BOOLEAN, window: Window]
    \cup [at: {"documentsSeen", "clear"}, driver: Drivers, window: Window]

\* One type invariant: rows and handlers have their shapes.
TypeOK ==
    /\ {car, agreed, verified, barred} \subseteq SUBSET Drivers
    /\ document \in [Drivers -> DocumentRow \cup {None}]
    /\ ride \in [Rides -> RideRow \cup {None}]
    /\ request \in [Requests -> RequestState]

Init ==
    /\ car = {} /\ agreed = {}
    /\ verified = Drivers /\ barred = {}
    /\ document = [d \in Drivers |-> None]
    /\ ride = [r \in Rides |-> None]
    /\ request = [q \in Requests |-> Idle]

------------------------------------------------------------------------------
At(q, stage) == request[q].at = stage
Of(q) == request[q].driver
Goes(q, state) == request' = [request EXCEPT ![q] = state]
Closes(q) == Goes(q, Idle)
Stage(stage, d) == [at |-> stage, driver |-> d]
Opens(q, state) ==
    /\ request[q] = Idle
    /\ Serial => \A other \in Requests : request[other] = Idle
    /\ Goes(q, state)

(* createCar: no car yet, then one is inserted; the unique keys on driver, *)
(* registration and plate may refuse it.                                   *)
CarRead(q, d) ==
    /\ d \notin car
    /\ Opens(q, Stage("carFree", d))
    /\ UNCHANGED <<car, document, agreed, ride, flags>>
CarCreate(q) ==
    /\ At(q, "carFree")
    /\ car' = car \cup {Of(q)}
    /\ Closes(q)
    /\ UNCHANGED <<document, agreed, ride, flags>>

(* uploadDocument, once both files are stored: a first row is inserted with*)
(* everything pending; over a row there is, only its urls change.          *)
DocumentRead(q, d) ==
    /\ Opens(q, [at |-> "filed", driver |-> d, existing |-> document[d] # None])
    /\ UNCHANGED <<car, document, agreed, ride, flags>>
DocumentWrite(q) ==
    /\ At(q, "filed")
    /\ document' = IF request[q].existing \/ document[Of(q)] # None
                   THEN document ELSE [document EXCEPT ![Of(q)] = NewDocument]
    /\ Closes(q)
    /\ UNCHANGED <<car, agreed, ride, flags>>

(* updateDocumentStatus writes one of the two statuses ...                 *)
Reviewed_Unset(row, type, status) == [row EXCEPT ![type] = status, !.status = None]
Reviewed(row, type, status) == [row EXCEPT ![type] = status]
ReviewWrite(q, d, type, status) ==
    /\ document[d] # None
    /\ document' = [document EXCEPT ![d] = Reviewed(@, type, status)]
    /\ agreed' = IF \A t \in DocumentType : document[d]'[t] = "APPROVED"
                 THEN agreed \cup {d} ELSE agreed
    /\ Opens(q, Stage("unfinished", d))
    /\ UNCHANGED <<car, ride, flags>>

\* ... counts the row if either is still open or refused ...
Unfinished_Both(row) == \A t \in DocumentType : row[t] \in {"PENDING", "REJECTED"}
Unfinished(row) == \E t \in DocumentType : row[t] \in {"PENDING", "REJECTED"}
ReviewCount(q) ==
    /\ At(q, "unfinished")
    /\ IF Unfinished(document[Of(q)]) THEN Closes(q) ELSE Goes(q, Stage("finished", Of(q)))
    /\ UNCHANGED <<car, document, agreed, ride, flags>>

\* ... and if it is not, sets the user's flag and then the row's own status.
ReviewVerify(q) ==
    /\ At(q, "finished")
    /\ verified' = verified \cup {Of(q)}
    /\ Goes(q, Stage("verified", Of(q)))
    /\ UNCHANGED <<car, document, agreed, barred, ride>>
ReviewApprove(q) ==
    /\ At(q, "verified")
    /\ document' = [document EXCEPT ![Of(q)].status = "APPROVED"]
    /\ Closes(q)
    /\ UNCHANGED <<car, agreed, ride, flags>>

(* restrictUser and unrestrictUser write the same flag of the user's row.  *)
Restrict(d) ==
    /\ verified' = verified \ {d}
    /\ barred' = barred \cup {d}
    /\ UNCHANGED <<car, document, agreed, ride, request>>
Unrestrict(d) ==
    /\ verified' = verified \cup {d}
    /\ barred' = barred \ {d}
    /\ UNCHANGED <<car, document, agreed, ride, request>>

(* createTrip reads the car ...                                            *)
PublishRead(q, d, w) ==
    /\ Opens(q, [at |-> "carSeen", driver |-> d, car |-> d \in car, window |-> w])
    /\ UNCHANGED <<car, document, agreed, ride, flags>>

\* ... looks for documents of the driver that are not both approved; a
\* driver with no row has none ...
HasUnapproved(d) ==
    /\ document[d] # None
    /\ \E t \in DocumentType : document[d][t] # "APPROVED"
PublishCheck(q) ==
    /\ At(q, "carSeen")
    /\ IF HasUnapproved(Of(q)) \/ ~request[q].car
       THEN Closes(q)
       ELSE Goes(q, [at |-> "documentsSeen", driver |-> Of(q), window |-> request[q].window])
    /\ UNCHANGED <<car, document, agreed, ride, flags>>

\* ... for a ride of the driver, not over, that overlaps the new one ...
Overlaps_EndsInside(r, w) ==
    w.departureTime <= r.endTime /\ r.endTime <= w.endTime
Overlaps(r, w) ==
    r.departureTime <= w.endTime /\ w.departureTime <= r.endTime
Ongoing(r) == ride[r] # None /\ ride[r].status # "COMPLETED"
PublishOverlap(q) ==
    /\ At(q, "documentsSeen")
    /\ IF \E r \in Rides : /\ Ongoing(r) /\ ride[r].driver = Of(q)
                           /\ Overlaps(ride[r], request[q].window)
       THEN Closes(q)
       ELSE Goes(q, [request[q] EXCEPT !.at = "clear"])
    /\ UNCHANGED <<car, document, agreed, ride, flags>>

\* ... and inserts it.
PublishCreate(q, r) ==
    /\ At(q, "clear")
    /\ ride[r] = None /\ \A n \in Rides : n < r => ride[n] # None
    /\ ride' = [ride EXCEPT ![r] =
                   [driver |-> Of(q), departureTime |-> request[q].window.departureTime,
                    endTime |-> request[q].window.endTime, status |-> "SCHEDULED"]]
    /\ Closes(q)
    /\ UNCHANGED <<car, document, agreed, flags>>

(* The start of a ride and its end by the cron are RideBooking's.          *)
RideMoves(r) ==
    /\ Ongoing(r)
    /\ ride' = [ride EXCEPT ![r].status =
                   IF @ = "SCHEDULED" THEN "ONGOING" ELSE "COMPLETED"]
    /\ UNCHANGED <<car, document, agreed, request, flags>>

\* A statement throws, or the process stops.
Fail(q) ==
    /\ request[q] # Idle
    /\ Closes(q)
    /\ UNCHANGED <<car, document, agreed, ride, flags>>

Continue(q) ==
    \/ CarCreate(q) \/ DocumentWrite(q)
    \/ ReviewCount(q) \/ ReviewVerify(q) \/ ReviewApprove(q)
    \/ PublishCheck(q) \/ PublishOverlap(q) \/ Fail(q)
    \/ \E r \in Rides : PublishCreate(q, r)

Next ==
    \/ \E q \in Requests, d \in Drivers :
           \/ CarRead(q, d) \/ DocumentRead(q, d)
           \/ \E type \in DocumentType, status \in DocumentStatus :
                  ReviewWrite(q, d, type, status)
           \/ \E w \in Window : PublishRead(q, d, w)
    \/ \E q \in Requests : Continue(q)
    \/ \E r \in Rides : RideMoves(r)
    \/ \E d \in Restrictable : Restrict(d) \/ Unrestrict(d)

Spec == Init /\ [][Next]_vars

------------------------------------------------------------------------------
(* "Overlapping trips found" (OVERLAP_TRIP) refuses a ride, so a driver     *)
(* has no two rides that are not over and share an instant.  A ride whose  *)
(* end comes before its departure covers no instant and is not looked at.  *)
NoOverlap ==
    \A r, s \in Rides :
        /\ r # s /\ Ongoing(r) /\ Ongoing(s) /\ ride[r].driver = ride[s].driver
        =>  ~ \E t \in 0..MaxTime : \A x \in {r, s} :
                  ride[x].departureTime <= t /\ t <= ride[x].endTime

(* A row of documents says APPROVED, and a driver an administrator has     *)
(* restricted is verified again without having been let in, only if there  *)
(* was an instant at which both documents were approved, whatever two      *)
(* administrators and the driver do at the same time.                      *)
ApprovedTogether ==
    \A d \in Drivers :
        \/ document[d] # None /\ document[d].status = "APPROVED"
        \/ d \in barred /\ d \in verified
        => d \in agreed

(* "Your documents not approved" (DOCUMENTS_NOT_APPROVED) stops a driver   *)
(* from publishing: every ride is published by a driver whose documents    *)
(* were both approved before.                                              *)
PublishedByApproved == \A r \in Rides : ride[r] # None => ride[r].driver \in agreed
==============================================================================
