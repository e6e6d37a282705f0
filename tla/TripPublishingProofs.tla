------------------------- MODULE TripPublishingProofs -------------------------
(***************************************************************************)
(* That the review of documents approves a driver's row only if both       *)
(* documents were approved at one instant, for any drivers and any number  *)
(* of administrators and uploads at the same time.  The row is counted an  *)
(* await after it is written and approved two awaits after it is counted:  *)
(* what carries the proof is that whoever got past the count found both    *)
(* documents approved then (CountHolds).                                   *)
(* And that a driver gets no two rides at one instant, when handlers do not*)
(* overlap: what was looked up is still true at the insert (RidesInv).     *)
(***************************************************************************)
EXTENDS TripPublishing, TLAPS

Documents == document \in [Drivers -> DocumentRow \cup {None}]
Requested == request \in [Requests -> RequestState]
BothApproved(row) == row.rcStatus = "APPROVED" /\ row.licenceStatus = "APPROVED"
Agreed == \A d \in Drivers : document[d] # None /\ BothApproved(document[d]) => d \in agreed
ReviewStages == {"unfinished", "finished", "verified"}
CountHolds == \A q \in Requests :
    /\ request[q].at \in ReviewStages => document[request[q].driver] # None
    /\ request[q].at \in {"finished", "verified"} => request[q].driver \in agreed

IInv == Documents /\ Requested /\ Agreed /\ CountHolds /\ ApprovedTogether

\* A handler that goes on outside the review disturbs nothing of it.
LEMMA GoesElsewhere ==
    ASSUME Assumptions, IInv, UNCHANGED <<document, agreed, flags>>,
           NEW q \in Requests, NEW state \in RequestState, Goes(q, state),
           state.at \notin ReviewStages
    PROVE  IInv'
<1>1. Requested'
  BY DEF IInv, Requested, Goes
<1>2. CountHolds'
  BY DEF IInv, Requested, CountHolds, Goes, ReviewStages
<1> QED
  BY <1>1, <1>2 DEF IInv, Documents, Agreed, ApprovedTogether, flags

\* The stages of the handlers outside the review.
LEMMA OtherStates ==
    /\ Idle \in RequestState /\ Idle.at = "idle"
    /\ \A d \in Drivers, b \in BOOLEAN, w \in Window, s \in {"documentsSeen", "clear"} :
           /\ [at |-> "carFree", driver |-> d] \in RequestState
           /\ [at |-> "filed", driver |-> d, existing |-> b] \in RequestState
           /\ [at |-> "carSeen", driver |-> d, car |-> b, window |-> w] \in RequestState
           /\ [at |-> s, driver |-> d, window |-> w] \in RequestState
BY DEF RequestState, Idle

\* The status an administrator sets is one of the two of the row.
LEMMA ReviewedRow ==
    ASSUME NEW row \in DocumentRow, NEW type \in DocumentType, NEW status \in DocumentStatus
    PROVE  /\ Reviewed(row, type, status) \in DocumentRow
           /\ Reviewed(row, type, status).status = row.status
<1>1. CASE type = "rcStatus"
  BY <1>1 DEF Reviewed, DocumentRow
<1>2. CASE type = "licenceStatus"
  BY <1>2 DEF Reviewed, DocumentRow
<1> QED
  BY <1>1, <1>2 DEF DocumentType

\* The first step of updateDocumentStatus writes one status.
LEMMA ReviewWriteIInv ==
    ASSUME Assumptions, IInv, NEW q \in Requests, NEW d \in Drivers, NEW type \in DocumentType,
           NEW status \in DocumentStatus, ReviewWrite(q, d, type, status)
    PROVE  IInv'
<1> DEFINE row == Reviewed(document[d], type, status)
<1>1. document[d] \in DocumentRow
  BY DEF IInv, Documents, ReviewWrite
<1>2. row \in DocumentRow /\ row.status = document[d].status
  BY <1>1, ReviewedRow
<1>3. \A e \in Drivers : document'[e] = IF e = d THEN row ELSE document[e]
  BY DEF IInv, Documents, ReviewWrite
<1>4. Documents'
  BY <1>2 DEF IInv, Documents, ReviewWrite
<1>5. /\ agreed \subseteq agreed' /\ (BothApproved(row) => d \in agreed')
      /\ UNCHANGED <<verified, barred>>
  BY <1>3 DEF ReviewWrite, BothApproved, DocumentType, flags
<1> HIDE DEF row
<1>6. Agreed' /\ ApprovedTogether'
  BY <1>1, <1>2, <1>3, <1>5 DEF IInv, Agreed, ApprovedTogether, Assumptions
<1>7. request'[q] = Stage("unfinished", d) /\ \A r \in Requests : r # q => request'[r] = request[r]
  BY DEF IInv, Requested, ReviewWrite, Opens, Goes
<1>8. Requested'
  <2>1. Stage("unfinished", d) \in RequestState
    BY DEF Stage, RequestState
  <2> QED
    BY <2>1 DEF IInv, Requested, ReviewWrite, Opens, Goes
<1>9. CountHolds'
  <2>1. \A r \in Requests : request[r].at \in ReviewStages => request[r].driver \in Drivers
    BY DEF IInv, Requested, RequestState, Idle, ReviewStages
  <2> QED
    BY <1>2, <1>3, <1>5, <1>7, <2>1
       DEF IInv, CountHolds, ReviewStages, Stage, Assumptions
<1> QED
  BY <1>4, <1>6, <1>8, <1>9 DEF IInv

\* Counting the row, and setting the flag of the user.
LEMMA ReviewGoesOnIInv ==
    ASSUME Assumptions, IInv, NEW q \in Requests, ReviewCount(q) \/ ReviewVerify(q)
    PROVE  IInv'
<1>1. request[q] \in [at: {"unfinished", "finished"}, driver: Drivers]
  BY DEF IInv, Requested, RequestState, Idle, ReviewCount, ReviewVerify, At
<1> PICK d \in Drivers : d = request[q].driver
  BY <1>1
<1>2. document[d] \in DocumentRow
  BY <1>1 DEF IInv, Documents, CountHolds, ReviewStages
<1>3. UNCHANGED <<document, agreed>>
  BY DEF ReviewCount, ReviewVerify
<1>4. CASE Goes(q, Idle) /\ UNCHANGED flags
  BY <1>3, <1>4, OtherStates, GoesElsewhere DEF ReviewStages
<1>5. ASSUME NEW s \in {"finished", "verified"}, Goes(q, Stage(s, d)), d \in agreed,
             UNCHANGED barred, verified' \subseteq verified \cup {d}
      PROVE  IInv'
  <2>1. Stage(s, d) \in RequestState
    BY DEF Stage, RequestState
  <2>2. Requested'
    BY <1>5, <2>1 DEF IInv, Requested, Goes
  <2>3. /\ request'[q].at = s /\ request'[q].driver = d
        /\ \A r \in Requests : r # q => request'[r] = request[r]
    BY <1>5 DEF IInv, Requested, Goes, Stage
  <2>4. CountHolds'
    BY <1>2, <1>3, <1>5, <2>3 DEF IInv, CountHolds, ReviewStages, Assumptions
  <2>5. ApprovedTogether'
    BY <1>3, <1>5 DEF IInv, ApprovedTogether
  <2> QED
    BY <1>3, <2>2, <2>4, <2>5 DEF IInv, Documents, Agreed
<1>6. CASE ReviewCount(q)
  <2>1. ~ Unfinished(document[d]) => d \in agreed
    BY <1>2
       DEF IInv, Agreed, Assumptions, Unfinished, BothApproved, DocumentType, DocumentRow,
           DocumentStatus
  <2> QED
    BY <1>4, <1>5, <1>6, <2>1 DEF ReviewCount, Closes, Of, flags
<1>7. CASE ReviewVerify(q)
  <2>1. d \in agreed
    BY <1>7 DEF IInv, CountHolds, ReviewVerify, At
  <2> QED
    BY <1>5, <1>7, <2>1 DEF ReviewVerify, Of
<1> QED
  BY <1>6, <1>7

\* Approving the row.
LEMMA ReviewApproveIInv ==
    ASSUME Assumptions, IInv, NEW q \in Requests, ReviewApprove(q)
    PROVE  IInv'
<1>1. request[q] \in [at: {"verified"}, driver: Drivers]
  BY DEF IInv, Requested, RequestState, Idle, ReviewApprove, At
<1> PICK d \in Drivers : d = request[q].driver
  BY <1>1
<1>2. document[d] \in DocumentRow /\ d \in agreed
  BY <1>1 DEF IInv, Documents, CountHolds, ReviewStages
<1> DEFINE row == [document[d] EXCEPT !.status = "APPROVED"]
<1>3. row \in DocumentRow
  BY <1>2 DEF DocumentRow, DocumentStatus
<1>4. \A e \in Drivers : document'[e] = IF e = d THEN row ELSE document[e]
  BY DEF IInv, Documents, ReviewApprove, Of
<1>5. UNCHANGED <<agreed, verified, barred>> /\ request' = [request EXCEPT ![q] = Idle]
  BY DEF ReviewApprove, Closes, Goes, flags
<1> HIDE DEF row
<1>6. Documents'
  BY <1>3, <1>4 DEF IInv, Documents, ReviewApprove, Of, row
<1>7. Requested'
  BY <1>5, OtherStates DEF IInv, Requested
<1>8. Agreed' /\ ApprovedTogether'
  BY <1>2, <1>4, <1>5 DEF IInv, Agreed, ApprovedTogether
<1>9. \A r \in Requests : request'[r].at \in ReviewStages => request'[r] = request[r]
  BY <1>5, OtherStates DEF IInv, Requested, ReviewStages
<1>10. \A r \in Requests : request[r].at \in ReviewStages => request[r].driver \in Drivers
  BY DEF IInv, Requested, RequestState, Idle, ReviewStages
<1>11. CountHolds'
  BY <1>3, <1>4, <1>5, <1>9, <1>10 DEF IInv, CountHolds, ReviewStages, Assumptions
<1> QED
  BY <1>6, <1>7, <1>8, <1>11 DEF IInv

\* A first upload files a row with both documents pending.
LEMMA DocumentWriteIInv ==
    ASSUME Assumptions, IInv, NEW q \in Requests, DocumentWrite(q)
    PROVE  IInv'
<1>1. request[q] \in [at: {"filed"}, driver: Drivers, existing: BOOLEAN]
  BY DEF IInv, Requested, RequestState, Idle, DocumentWrite, At
<1> PICK d \in Drivers : d = request[q].driver
  BY <1>1
<1>2. UNCHANGED <<agreed, verified, barred>> /\ Goes(q, Idle)
  BY DEF DocumentWrite, Closes, flags
<1>3. CASE UNCHANGED document
  BY <1>2, <1>3, OtherStates, GoesElsewhere DEF ReviewStages, flags
<1>4. CASE document[d] = None /\ document' = [document EXCEPT ![d] = NewDocument]
  <2>1. NewDocument \in DocumentRow /\ ~ BothApproved(NewDocument)
        /\ NewDocument.status = "PENDING"
    BY DEF NewDocument, DocumentRow, DocumentStatus, BothApproved
  <2>2. \A e \in Drivers : document'[e] = IF e = d THEN NewDocument ELSE document[e]
    BY <1>4 DEF IInv, Documents
  <2>3. Documents' /\ Agreed' /\ ApprovedTogether'
    BY <1>2, <1>4, <2>1, <2>2 DEF IInv, Documents, Agreed, ApprovedTogether
  <2>4. \A r \in Requests : request'[r].at \in ReviewStages => request'[r] = request[r]
    BY <1>2, OtherStates DEF IInv, Requested, ReviewStages, Goes
  <2>5. \A r \in Requests : request[r].at \in ReviewStages => request[r].driver \in Drivers
    BY DEF IInv, Requested, RequestState, Idle, ReviewStages
  <2>6. CountHolds'
    BY <1>2, <1>4, <2>1, <2>2, <2>4, <2>5 DEF IInv, CountHolds, ReviewStages, Assumptions
  <2>7. Requested'
    BY <1>2, OtherStates DEF IInv, Requested, Goes
  <2> QED
    BY <2>3, <2>6, <2>7 DEF IInv
<1> QED
  BY <1>3, <1>4 DEF DocumentWrite, Of

\* Cars, uploads and publications have handlers of their own.
LEMMA OthersIInv ==
    ASSUME Assumptions, IInv, NEW q \in Requests, NEW d \in Drivers,
           \/ CarRead(q, d) \/ DocumentRead(q, d) \/ \E w \in Window : PublishRead(q, d, w)
           \/ CarCreate(q) \/ PublishCheck(q) \/ PublishOverlap(q) \/ Fail(q)
           \/ \E r \in Rides : PublishCreate(q, r)
    PROVE  IInv'
<1>1. UNCHANGED <<document, agreed, flags>>
  BY DEF CarRead, DocumentRead, PublishRead, CarCreate, PublishCheck, PublishOverlap, Fail,
         PublishCreate
<1>2. CASE CarRead(q, d) \/ DocumentRead(q, d) \/ \E w \in Window : PublishRead(q, d, w)
  <2>1. CASE CarRead(q, d)
    <3> DEFINE state == [at |-> "carFree", driver |-> d]
    <3>1. state \in RequestState /\ state.at = "carFree"
      BY DEF RequestState
    <3>2. Goes(q, state)
      BY <2>1 DEF CarRead, Opens, Stage
    <3> HIDE DEF state
    <3> QED
      BY <1>1, <3>1, <3>2, GoesElsewhere DEF ReviewStages
  <2>2. CASE DocumentRead(q, d)
    <3> DEFINE state == [at |-> "filed", driver |-> d, existing |-> document[d] # None]
    <3>1. state \in RequestState /\ state.at = "filed"
      BY DEF RequestState
    <3>2. Goes(q, state)
      BY <2>2 DEF DocumentRead, Opens
    <3> HIDE DEF state
    <3> QED
      BY <1>1, <3>1, <3>2, GoesElsewhere DEF ReviewStages
  <2>3. ASSUME NEW w \in Window, PublishRead(q, d, w) PROVE IInv'
    <3> DEFINE has == d \in car
    <3>1. has \in BOOLEAN
      OBVIOUS
    <3> QED
      BY <1>1, <2>3, <3>1, OtherStates, GoesElsewhere DEF PublishRead, Opens, ReviewStages
  <2> QED
    BY <1>2, <2>1, <2>2, <2>3
<1>3. CASE Goes(q, Idle)
  BY <1>1, <1>3, OtherStates, GoesElsewhere DEF ReviewStages
<1>4. CASE PublishCheck(q)
  <2>1. request[q] \in [at: {"carSeen"}, driver: Drivers, car: BOOLEAN, window: Window]
    BY <1>4 DEF IInv, Requested, RequestState, Idle, PublishCheck, At
  <2> QED
    BY <1>1, <1>3, <1>4, <2>1, OtherStates, GoesElsewhere
       DEF PublishCheck, Closes, Of, ReviewStages
<1>5. CASE PublishOverlap(q)
  <2>1. request[q] \in [at: {"documentsSeen"}, driver: Drivers, window: Window]
    BY <1>5 DEF IInv, Requested, RequestState, Idle, PublishOverlap, At
  <2>2. /\ [request[q] EXCEPT !.at = "clear"] \in RequestState
        /\ [request[q] EXCEPT !.at = "clear"].at = "clear"
    BY <2>1 DEF RequestState
  <2> QED
    BY <1>1, <1>3, <1>5, <2>2, GoesElsewhere DEF PublishOverlap, Closes, ReviewStages
<1> QED
  BY <1>2, <1>3, <1>4, <1>5 DEF CarCreate, Fail, PublishCreate, Closes

\* The review's invariant, for every step of every handler.
LEMMA InitIInv ==
    ASSUME Assumptions, Init
    PROVE  IInv
BY OtherStates
   DEF Init, IInv, Documents, Requested, Agreed, CountHolds, ApprovedTogether, ReviewStages

LEMMA StepIInv ==
    ASSUME Assumptions, IInv, [Next]_vars
    PROVE  IInv'
<1>1. CASE UNCHANGED <<document, agreed, flags, request>>
  BY <1>1 DEF IInv, Documents, Requested, Agreed, CountHolds, ApprovedTogether, flags
<1>2. ASSUME NEW d \in Restrictable, Restrict(d) \/ Unrestrict(d) PROVE IInv'
  <2>1. ApprovedTogether'
    BY <1>2 DEF IInv, ApprovedTogether, Restrict, Unrestrict
  <2> QED
    BY <1>2, <2>1 DEF IInv, Documents, Requested, Agreed, CountHolds, Restrict, Unrestrict
<1>3. CASE UNCHANGED vars \/ \E r \in Rides : RideMoves(r)
  BY <1>1, <1>3 DEF vars, RideMoves
<1>4. ASSUME NEW q \in Requests, NEW d \in Drivers,
             CarRead(q, d) \/ DocumentRead(q, d) \/ \E w \in Window : PublishRead(q, d, w)
      PROVE  IInv'
  BY <1>4, OthersIInv
<1>5. ASSUME NEW q \in Requests, NEW d \in Drivers, NEW t \in DocumentType,
             NEW s \in DocumentStatus, ReviewWrite(q, d, t, s)
      PROVE  IInv'
  BY <1>5, ReviewWriteIInv
<1>6. ASSUME NEW q \in Requests, Continue(q) PROVE IInv'
  <2>1. request[q] # Idle => \E d \in Drivers : TRUE
    BY DEF IInv, Requested, RequestState
  <2>2. CASE ReviewCount(q) \/ ReviewVerify(q)
    BY <2>2, ReviewGoesOnIInv
  <2>3. CASE ReviewApprove(q)
    BY <2>3, ReviewApproveIInv
  <2>4. CASE DocumentWrite(q)
    BY <2>4, DocumentWriteIInv
  <2>5. CASE CarCreate(q) \/ PublishCheck(q) \/ PublishOverlap(q) \/ Fail(q)
             \/ \E r \in Rides : PublishCreate(q, r)
    <3>1. request[q] # Idle
      BY <2>5, OtherStates
         DEF CarCreate, PublishCheck, PublishOverlap, Fail, PublishCreate, At
    <3> QED
      BY <2>1, <2>5, <3>1, OthersIInv
  <2> QED
    BY <1>6, <2>2, <2>3, <2>4, <2>5 DEF Continue
<1> QED
  BY <1>2, <1>3, <1>4, <1>5, <1>6 DEF Next

(* A row of documents is approved, and a restricted driver is verified     *)
(* without having been let in, only if both documents were approved at one *)
(* instant, whoever reviews, files and restricts at the same time, and     *)
(* whichever of them stops half-way.                                       *)
THEOREM ApprovedAtOnce ==
    ASSUME Assumptions
    PROVE  Spec => []ApprovedTogether
<1>1. Init => IInv
  BY InitIInv
<1>2. IInv /\ [Next]_vars => IInv'
  BY StepIInv
<1>3. IInv => ApprovedTogether
  BY DEF IInv
<1> QED
  BY <1>1, <1>2, <1>3, PTL DEF Spec

------------------------------------------------------------------------------
(* Publication.  A ride is looked up two awaits before the new one is      *)
(* inserted: with one handler at a time it is still clear by then.         *)
OneAtATime ==
    \A q, r \in Requests : request[q] # Idle /\ request[r] # Idle => q = r
StaysClear ==
    \A q \in Requests : At(q, "clear") =>
        \A r \in Rides : Ongoing(r) /\ ride[r].driver = Of(q) =>
            ~ Overlaps(ride[r], request[q].window)
RidesInv == OneAtATime /\ StaysClear /\ NoOverlap

\* What a step does to the rides and, if it is a handler's, to its request.
LEMMA StepsOfHandlers ==
    ASSUME Assumptions, IInv, [Next]_vars
    PROVE  \/ UNCHANGED <<ride, request>>
           \/ \E r \in Rides : RideMoves(r)
           \/ \E q \in Requests, state \in RequestState :
                  /\ Goes(q, state)
                  /\ \/ request[q] # Idle
                     \/ Serial => \A other \in Requests : request[other] = Idle
                  /\ \/ UNCHANGED ride /\ (state.at = "clear" => PublishOverlap(q))
                     \/ state = Idle /\ \E r \in Rides : PublishCreate(q, r)
<1> DEFINE Handled(q) ==
        \E state \in RequestState :
            /\ Goes(q, state)
            /\ \/ request[q] # Idle
               \/ Serial => \A other \in Requests : request[other] = Idle
            /\ \/ UNCHANGED ride /\ (state.at = "clear" => PublishOverlap(q))
               \/ state = Idle /\ \E r \in Rides : PublishCreate(q, r)
<1>1. ASSUME NEW q \in Requests, NEW d \in Drivers,
             \/ CarRead(q, d) \/ DocumentRead(q, d)
             \/ \E type \in DocumentType, status \in DocumentStatus :
                    ReviewWrite(q, d, type, status)
             \/ \E w \in Window : PublishRead(q, d, w)
      PROVE  Handled(q)
  <2>1. UNCHANGED ride
    BY <1>1 DEF CarRead, DocumentRead, ReviewWrite, PublishRead
  <2> DEFINE Opened == \E state \in RequestState : state.at # "clear" /\ Opens(q, state)
  <2>2. Opened
    <3>1. CASE CarRead(q, d)
      <4>1. Stage("carFree", d) \in RequestState /\ Stage("carFree", d).at = "carFree"
        BY DEF Stage, RequestState
      <4> QED
        BY <3>1, <4>1 DEF CarRead
    <3>2. CASE DocumentRead(q, d)
      <4> DEFINE state == [at |-> "filed", driver |-> d, existing |-> document[d] # None]
      <4>1. state \in RequestState /\ state.at = "filed"
        BY DEF RequestState
      <4> QED
        BY <3>2, <4>1 DEF DocumentRead
    <3>3. ASSUME NEW type \in DocumentType, NEW status \in DocumentStatus,
                 ReviewWrite(q, d, type, status)
          PROVE  Opened
      BY <3>3 DEF ReviewWrite, Stage, RequestState
    <3>4. ASSUME NEW w \in Window, PublishRead(q, d, w)
          PROVE  Opened
      <4> DEFINE state == [at |-> "carSeen", driver |-> d, car |-> d \in car, window |-> w]
      <4>1. state \in RequestState /\ state.at = "carSeen"
        BY DEF RequestState
      <4> QED
        BY <3>4, <4>1 DEF PublishRead
    <3> QED
      BY <1>1, <3>1, <3>2, <3>3, <3>4
  <2> QED
    BY <2>1, <2>2 DEF Opens
<1>2. ASSUME NEW q \in Requests, Continue(q)
      PROVE  Handled(q)
  <2>1. request[q] \in RequestState
    BY DEF IInv, Requested
  <2>2. request[q] # Idle
    BY <1>2, OtherStates
       DEF Continue, CarCreate, DocumentWrite, ReviewCount, ReviewVerify, ReviewApprove,
           PublishCheck, PublishOverlap, PublishCreate, Fail, At
  <2>3. CASE Closes(q) /\ UNCHANGED ride
    BY <2>2, <2>3, OtherStates DEF Closes
  <2>4. CASE ReviewCount(q) \/ ReviewVerify(q)
    <3>1. request[q] \in [at: {"unfinished", "finished"}, driver: Drivers]
      BY <2>1, <2>4 DEF RequestState, Idle, ReviewCount, ReviewVerify, At
    <3>2. \A s \in {"finished", "verified"} :
              Stage(s, Of(q)) \in RequestState /\ Stage(s, Of(q)).at = s
      BY <3>1 DEF Stage, Of, RequestState
    <3> QED
      BY <2>2, <2>3, <2>4, <3>2 DEF ReviewCount, ReviewVerify
  <2>5. CASE PublishCheck(q)
    <3>1. request[q] \in [at: {"carSeen"}, driver: Drivers, car: BOOLEAN, window: Window]
      BY <2>1, <2>5 DEF RequestState, Idle, PublishCheck, At
    <3> QED
      BY <2>2, <2>3, <2>5, <3>1, OtherStates DEF PublishCheck, Of
  <2>6. CASE PublishOverlap(q)
    <3>1. request[q] \in [at: {"documentsSeen"}, driver: Drivers, window: Window]
      BY <2>1, <2>6 DEF RequestState, Idle, PublishOverlap, At
    <3>2. [request[q] EXCEPT !.at = "clear"] \in RequestState
      BY <3>1 DEF RequestState
    <3> QED
      BY <2>2, <2>3, <2>6, <3>2 DEF PublishOverlap
  <2>7. ASSUME NEW r \in Rides, PublishCreate(q, r) PROVE Handled(q)
    BY <2>2, <2>7, OtherStates DEF PublishCreate, Closes
  <2> QED
    BY <1>2, <2>3, <2>4, <2>5, <2>6, <2>7
       DEF Continue, CarCreate, DocumentWrite, ReviewApprove, Fail
<1>3. ASSUME NEW d \in Restrictable, Restrict(d) \/ Unrestrict(d)
      PROVE  UNCHANGED <<ride, request>>
  BY <1>3 DEF Restrict, Unrestrict
<1> QED
  BY <1>1, <1>2, <1>3 DEF Next, vars

\* The row of a ride that is inserted, and of one that moves on.
LEMMA CreatedRow ==
    ASSUME IInv, TypeOK, NEW q \in Requests, NEW r \in Rides, PublishCreate(q, r)
    PROVE  \E d \in Drivers, w \in Window :
               /\ request[q] = [at |-> "clear", driver |-> d, window |-> w]
               /\ ride'[r] \in RideRow /\ ride'[r].driver = d
               /\ ride'[r].departureTime = w.departureTime /\ ride'[r].endTime = w.endTime
               /\ \A s \in Rides : s # r => ride'[s] = ride[s]
<1>1. request[q] \in [at: {"clear"}, driver: Drivers, window: Window]
  BY DEF TypeOK, RequestState, Idle, PublishCreate, At
<1>2. PICK d \in Drivers, w \in Window :
          request[q] = [at |-> "clear", driver |-> d, window |-> w]
  BY <1>1
<1>3. ride' = [ride EXCEPT ![r] = [driver |-> d, departureTime |-> w.departureTime,
                                   endTime |-> w.endTime, status |-> "SCHEDULED"]]
  BY <1>2 DEF PublishCreate, Of
<1>4. w.departureTime \in 0..MaxTime /\ w.endTime \in 0..MaxTime
  BY DEF Window
<1> QED
  BY <1>2, <1>3, <1>4 DEF TypeOK, RideRow

LEMMA MovedRow ==
    ASSUME TypeOK, NEW r \in Rides, RideMoves(r)
    PROVE  /\ Ongoing(r) /\ ride'[r] \in RideRow
           /\ ride'[r].driver = ride[r].driver
           /\ ride'[r].departureTime = ride[r].departureTime
           /\ ride'[r].endTime = ride[r].endTime
           /\ \A s \in Rides : s # r => ride'[s] = ride[s]
           /\ UNCHANGED request
<1>1. ride[r] \in RideRow
  BY DEF TypeOK, RideMoves, Ongoing
<1>2. PICK status \in {"ONGOING", "COMPLETED"} :
          ride' = [ride EXCEPT ![r] = [ride[r] EXCEPT !.status = status]]
  BY DEF RideMoves, TypeOK
<1> QED
  BY <1>1, <1>2 DEF RideMoves, RideRow, TypeOK

LEMMA StepTypeOK ==
    ASSUME Assumptions, IInv, TypeOK, [Next]_vars
    PROVE  TypeOK'
<1>1. document' \in [Drivers -> DocumentRow \cup {None}] /\ request' \in [Requests -> RequestState]
  BY StepIInv DEF IInv, Documents, Requested
<1>2. ride' \in [Rides -> RideRow \cup {None}]
  <2>1. ASSUME NEW r \in Rides, ride'[r] \in RideRow,
               \A s \in Rides : s # r => ride'[s] = ride[s],
               RideMoves(r) \/ \E q \in Requests : PublishCreate(q, r)
        PROVE  ride' \in [Rides -> RideRow \cup {None}]
    BY <2>1 DEF TypeOK, RideMoves, PublishCreate
  <2> QED
    BY <2>1, StepsOfHandlers, CreatedRow, MovedRow DEF TypeOK
<1>3. car' \subseteq Drivers
  <2>1. ASSUME NEW q \in Requests, CarCreate(q) PROVE car' \subseteq Drivers
    <3>1. request[q] \in [at: {"carFree"}, driver: Drivers]
      BY <2>1 DEF TypeOK, RequestState, Idle, CarCreate, At
    <3> QED
      BY <2>1, <3>1 DEF TypeOK, CarCreate, Of
  <2> QED
    BY <2>1
       DEF TypeOK, Next, Continue, vars, CarRead, DocumentRead, ReviewWrite, PublishRead,
           DocumentWrite, ReviewCount, ReviewVerify, ReviewApprove, PublishCheck,
           PublishOverlap, PublishCreate, Fail, RideMoves, Restrict, Unrestrict
<1>4. agreed' \subseteq Drivers
  BY DEF TypeOK, Next, Continue, vars, CarRead, DocumentRead, ReviewWrite, PublishRead,
         CarCreate, DocumentWrite, ReviewCount, ReviewVerify, ReviewApprove, PublishCheck,
         PublishOverlap, PublishCreate, Fail, RideMoves, Restrict, Unrestrict
<1>5. verified' \subseteq Drivers /\ barred' \subseteq Drivers
  <2>1. ASSUME NEW q \in Requests, ReviewVerify(q)
        PROVE  verified' \subseteq Drivers /\ barred' \subseteq Drivers
    <3>1. request[q] \in [at: {"finished"}, driver: Drivers]
      BY <2>1 DEF TypeOK, RequestState, Idle, ReviewVerify, At
    <3> QED
      BY <2>1, <3>1 DEF TypeOK, ReviewVerify, Of
  <2>2. ASSUME NEW d \in Restrictable, Restrict(d) \/ Unrestrict(d)
        PROVE  verified' \subseteq Drivers /\ barred' \subseteq Drivers
    BY <2>2 DEF TypeOK, Restrict, Unrestrict, Assumptions
  <2> QED
    BY <2>1, <2>2
       DEF TypeOK, Next, Continue, vars, flags, CarRead, DocumentRead, ReviewWrite, PublishRead,
           CarCreate, DocumentWrite, ReviewCount, ReviewApprove, PublishCheck,
           PublishOverlap, PublishCreate, Fail, RideMoves
<1> QED
  BY <1>1, <1>2, <1>3, <1>4, <1>5 DEF TypeOK

\* A ride that is still under way has the row it had, but for its status.
LEMMA StepRides ==
    ASSUME Assumptions, Serial, IInv, TypeOK, RidesInv, [Next]_vars
    PROVE  RidesInv'
<1>1. TypeOK'
  BY StepTypeOK
<1>2. CASE UNCHANGED <<ride, request>>
  BY <1>2 DEF RidesInv, OneAtATime, StaysClear, NoOverlap, Ongoing, At, Of
<1>3. ASSUME NEW r \in Rides, RideMoves(r) PROVE RidesInv'
  <2>1. /\ \A s \in Rides : Ongoing(s)' => Ongoing(s)
        /\ \A s \in Rides : /\ ride'[s].driver = ride[s].driver
                            /\ ride'[s].departureTime = ride[s].departureTime
                            /\ ride'[s].endTime = ride[s].endTime
        /\ UNCHANGED request
    BY <1>3, MovedRow DEF Ongoing
  <2>2. StaysClear'
    BY <2>1 DEF RidesInv, StaysClear, At, Of, Overlaps
  <2>3. NoOverlap'
    BY <2>1 DEF RidesInv, NoOverlap
  <2> QED
    BY <2>1, <2>2, <2>3 DEF RidesInv, OneAtATime
<1>4. ASSUME NEW q \in Requests, NEW state \in RequestState, Goes(q, state),
             request[q] # Idle \/ \A other \in Requests : request[other] = Idle
      PROVE  /\ request'[q] = state
             /\ \A o \in Requests : o # q => request'[o] = Idle /\ request'[o].at = "idle"
             /\ OneAtATime'
  BY <1>4 DEF RidesInv, OneAtATime, TypeOK, Goes, Idle
<1>5. ASSUME NEW q \in Requests, NEW state \in RequestState, Goes(q, state),
             request[q] # Idle \/ \A other \in Requests : request[other] = Idle,
             UNCHANGED ride, state.at = "clear" => PublishOverlap(q)
      PROVE  RidesInv'
  <2>1. /\ request'[q] = state /\ OneAtATime'
        /\ \A o \in Requests : o # q => request'[o].at = "idle"
    BY <1>4, <1>5
  <2>2. StaysClear'
    <3>1. CASE state.at # "clear"
      BY <2>1, <3>1 DEF StaysClear, At
    <3>2. CASE state.at = "clear"
      <4>1. PublishOverlap(q) /\ request'[q].at = "clear"
        BY <1>5, <2>1, <3>2
      <4>2. request[q] \in [at: {"documentsSeen"}, driver: Drivers, window: Window]
        BY <4>1 DEF TypeOK, RequestState, Idle, PublishOverlap, At
      <4>3. /\ request' = [request EXCEPT ![q] = [request[q] EXCEPT !.at = "clear"]]
            /\ \A r \in Rides : Ongoing(r) /\ ride[r].driver = Of(q) =>
                   ~ Overlaps(ride[r], request[q].window)
        BY <2>1, <4>1 DEF PublishOverlap, Closes, Goes, TypeOK, Idle
      <4>4. request'[q].driver = request[q].driver /\ request'[q].window = request[q].window
        BY <4>2, <4>3 DEF TypeOK
      <4> QED
        BY <1>5, <2>1, <4>3, <4>4 DEF StaysClear, At, Of, Ongoing
    <3> QED
      BY <3>1, <3>2
  <2>3. NoOverlap'
    BY <1>5 DEF RidesInv, NoOverlap, Ongoing
  <2> QED
    BY <2>1, <2>2, <2>3 DEF RidesInv
<1>6. ASSUME NEW q \in Requests, Goes(q, Idle),
             request[q] # Idle \/ \A other \in Requests : request[other] = Idle,
             NEW r \in Rides, PublishCreate(q, r)
      PROVE  RidesInv'
  <2>1. \A o \in Requests : request'[o].at = "idle"
    BY <1>4, <1>6, OtherStates
  <2>2. StaysClear' /\ OneAtATime'
    BY <1>4, <1>6, <2>1, OtherStates DEF StaysClear, At
  <2>3. PICK d \in Drivers, w \in Window :
            /\ request[q] = [at |-> "clear", driver |-> d, window |-> w]
            /\ ride'[r] \in RideRow /\ ride'[r].driver = d
            /\ ride'[r].departureTime = w.departureTime /\ ride'[r].endTime = w.endTime
            /\ \A s \in Rides : s # r => ride'[s] = ride[s]
    BY <1>6, CreatedRow
  <2>4. \A s \in Rides : Ongoing(s) /\ ride[s].driver = d => ~ Overlaps(ride[s], w)
    BY <2>3 DEF RidesInv, StaysClear, At, Of
  <2>5. ASSUME NEW s \in Rides, s # r, Ongoing(s), ride[s].driver = d, NEW t \in 0..MaxTime
        PROVE  ~ \A x \in {r, s} : ride'[x].departureTime <= t /\ t <= ride'[x].endTime
    <3>1. ride[s] \in RideRow /\ ride'[s] = ride[s]
      BY <2>3, <2>5 DEF TypeOK, Ongoing
    <3>2. /\ {ride[s].departureTime, ride[s].endTime, w.departureTime, w.endTime, t} \subseteq Int
      BY <3>1 DEF RideRow, Window, Assumptions
    <3>3. ~ (ride[s].departureTime <= w.endTime /\ w.departureTime <= ride[s].endTime)
      BY <2>4, <2>5 DEF Overlaps
    <3> QED
      BY <2>3, <3>1, <3>2, <3>3
  <2>6. NoOverlap'
    <3> SUFFICES ASSUME NEW a \in Rides, NEW b \in Rides, a # b, Ongoing(a)', Ongoing(b)',
                        ride'[a].driver = ride'[b].driver, NEW t \in 0..MaxTime
                 PROVE  ~ \A x \in {a, b} :
                              ride'[x].departureTime <= t /\ t <= ride'[x].endTime
      BY DEF NoOverlap
    <3>1. CASE a # r /\ b # r
      BY <2>3, <3>1 DEF RidesInv, NoOverlap, Ongoing
    <3>2. CASE a = r
      BY <2>3, <2>5, <3>2 DEF Ongoing
    <3>3. CASE b = r
      BY <2>3, <2>5, <3>3 DEF Ongoing
    <3> QED
      BY <3>1, <3>2, <3>3
  <2> QED
    BY <2>2, <2>6 DEF RidesInv
<1> QED
  BY <1>2, <1>3, <1>5, <1>6, StepsOfHandlers

(* Rows, rides and handlers have their types, for any drivers, rides and   *)
(* handlers at the same time.                                              *)
THEOREM TypeCorrect ==
    ASSUME Assumptions
    PROVE  Spec => []TypeOK
<1>1. Init => IInv /\ TypeOK
  BY InitIInv DEF Init, TypeOK, RequestState
<1>2. IInv /\ TypeOK /\ [Next]_vars => IInv' /\ TypeOK'
  BY StepIInv, StepTypeOK
<1> QED
  BY <1>1, <1>2, PTL DEF Spec

(* createTrip, one handler at a time, gives a driver no two rides that are *)
(* under way and share an instant, however often handlers fail: what was   *)
(* clear when the rides were looked up is clear when the new one is        *)
(* inserted.                                                               *)
THEOREM SerialNoOverlap ==
    ASSUME Assumptions, Serial
    PROVE  Spec => []NoOverlap
<1> DEFINE Inv == IInv /\ TypeOK /\ RidesInv
<1>1. Init => Inv
  BY InitIInv
     DEF Init, TypeOK, RequestState, RidesInv, OneAtATime, StaysClear, NoOverlap, Ongoing, At, Idle
<1>2. Inv /\ [Next]_vars => Inv'
  BY StepIInv, StepTypeOK, StepRides
<1>3. Inv => NoOverlap
  BY DEF RidesInv
<1> QED
  BY <1>1, <1>2, <1>3, PTL DEF Spec
==============================================================================
