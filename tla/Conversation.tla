----------------------------- MODULE Conversation -----------------------------
(***************************************************************************)
(* The chat of a driver and a passenger about a ride: its row, made from a *)
(* booking by either of them (modules/chat), and its room on the sockets   *)
(* (socket/chat.handler): joining it, sending to it, reading it.  A socket *)
(* has one user here; a rejected promise in one of its handlers is caught  *)
(* by nobody and ends the process.                                         *)
(***************************************************************************)
EXTENDS Naturals, Sequences, FiniteSets, FiniteSetsExt

CONSTANTS
    Rides,
    Driver,       \* of all of them
    Passengers,   \* each has a booking on every ride
    Chats,        \* bound: rows of chats, numbered
    MaxMessages,  \* bound: messages of a chat
    Recent,       \* messages a joining socket is given: 50 in the code
    Requests,     \* bound: requests and socket events handled at the same time
    Serial,       \* TRUE: a handler starts only when none is open
    None

Assumptions ==
    /\ Chats \subseteq Nat
    /\ MaxMessages \in Nat /\ Recent \in Nat \ {0}
    /\ Driver \notin Passengers /\ Serial \in BOOLEAN

Users == Passengers \cup {Driver}

VARIABLES
    chat,      \* rows of chats: ride, sender and receiver; or None
    message,   \* per chat the messages in the order of their creation
    room,      \* per chat the users whose socket joined its room
    seen,      \* per user and chat the messages its socket has been sent
    owed,      \* history: per user and chat the messages before it are not owed it
    request    \* what each open handler remembers at its current await

vars == <<chat, message, room, seen, owed, request>>
sockets == <<room, seen, owed>>

Message == [sender: Users, isRead: BOOLEAN]
ChatRow == [ride: Rides, sender: Users, receiver: Users]
Idle == [at |-> "idle"]
RequestState ==
    {Idle}
    \cup [at: {"noChat"}, ride: Rides, passenger: Passengers]
    \cup [at: {"joining"}, user: Users, chat: Chats]
    \cup [at: {"read"}, user: Users, chat: Chats, previous: SUBSET (1..MaxMessages)]
    \cup [at: {"created"}, user: Users, chat: Chats, message: 1..MaxMessages]

\* One type invariant: rows, rooms and handlers have their shapes.
TypeOK ==
    /\ chat \in [Chats -> ChatRow \cup {None}]
    /\ \A c \in Chats : /\ message[c] \in Seq(Message)
                        /\ Len(message[c]) <= MaxMessages
    /\ room \in [Chats -> SUBSET Users]
    /\ seen \in [Users -> [Chats -> SUBSET (1..MaxMessages)]]
    /\ owed \in [Users -> [Chats -> 0..MaxMessages]]
    /\ request \in [Requests -> RequestState]

Nothing(value) == [u \in Users |-> [c \in Chats |-> value]]
Init ==
    /\ chat = [c \in Chats |-> None]
    /\ message = [c \in Chats |-> <<>>]
    /\ room = [c \in Chats |-> {}]
    /\ seen = Nothing({})
    /\ owed = Nothing(0)
    /\ request = [q \in Requests |-> Idle]

------------------------------------------------------------------------------
At(q, stage) == request[q].at = stage
Goes(q, state) == request' = [request EXCEPT ![q] = state]
Closes(q) == Goes(q, Idle)
Opens(q, state) ==
    /\ request[q] = Idle
    /\ Serial => \A other \in Requests : request[other] = Idle
    /\ Goes(q, state)

(* makeChat finds the booking, whose ride and passenger make the chat, and *)
(* createChat looks for a chat of them: if there is one, it is the answer; *)
IsChatOf(c, ride, passenger) ==
    /\ chat[c] # None
    /\ chat[c].ride = ride
    /\ passenger \in {chat[c].sender, chat[c].receiver}
MakeChat(q, ride, passenger) ==
    /\ ~ \E c \in Chats : IsChatOf(c, ride, passenger)
    /\ Opens(q, [at |-> "noChat", ride |-> ride, passenger |-> passenger])
    /\ UNCHANGED <<chat, message, sockets>>

\* otherwise a row is inserted.
CreateChat(q, c) ==
    /\ At(q, "noChat")
    /\ chat[c] = None /\ \A n \in Chats : n < c => chat[n] # None
    /\ chat' = [chat EXCEPT ![c] = [ride |-> request[q].ride, sender |-> Driver,
                                    receiver |-> request[q].passenger]]
    /\ Closes(q)
    /\ UNCHANGED <<message, sockets>>

(* joinRoom: the socket is in the room before the messages are read ...    *)
JoinRoom(q, u, c) ==
    /\ chat[c] # None
    /\ Opens(q, [at |-> "joining", user |-> u, chat |-> c])
    /\ room' = [room EXCEPT ![c] = @ \cup {u}]
    /\ owed' = [owed EXCEPT ![u][c] = IF u \in room[c] THEN @ ELSE Len(message[c])]
    /\ UNCHANGED <<chat, message, seen>>

\* ... the newest of them are read ...
Newest(s) == {n \in 1..Len(s) : n + Recent > Len(s)}
JoinRead(q) ==
    /\ At(q, "joining")
    /\ Goes(q, [at |-> "read", user |-> request[q].user, chat |-> request[q].chat,
                previous |-> Newest(message[request[q].chat])])
    /\ UNCHANGED <<chat, message, sockets>>

\* ... and sent to the socket (previousMessages); from now on it is owed
\* what would have been among them as well.
JoinAnswer(q) ==
    LET u == request[q].user
        c == request[q].chat
        previous == request[q].previous
    IN /\ At(q, "read")
       /\ seen' = [seen EXCEPT ![u][c] = @ \cup previous]
       /\ owed' = [owed EXCEPT ![u][c] = Min({@} \cup {n - 1 : n \in previous})]
       /\ Closes(q)
       /\ UNCHANGED <<chat, message, room>>

(* sendMessage: a message is created ...                                   *)
SendMessage(q, u, c) ==
    /\ chat[c] # None
    /\ Len(message[c]) < MaxMessages
    /\ message' = [message EXCEPT ![c] = Append(@, [sender |-> u, isRead |-> FALSE])]
    /\ Opens(q, [at |-> "created", user |-> u, chat |-> c, message |-> Len(message'[c])])
    /\ UNCHANGED <<chat, sockets>>

\* ... and sent to the sockets of the room (newMessage), its sender's too.
Receivers_ButSender(c, sender) == room[c] \ {sender}
Receivers(c, sender) == room[c]
NewMessage(q) ==
    LET c == request[q].chat
        to == Receivers(c, request[q].user)
    IN /\ At(q, "created")
       /\ seen' = [u \in Users |-> [seen[u] EXCEPT ![c] =
                      IF u \in to THEN @ \cup {request[q].message} ELSE @]]
       /\ Closes(q)
       /\ UNCHANGED <<chat, message, room, owed>>

(* markAsRead: every message of the chat but the user's own is read.       *)
MarkedRead(s, u) ==
    [n \in DOMAIN s |-> IF s[n].sender # u THEN [s[n] EXCEPT !.isRead = TRUE] ELSE s[n]]
MarkAsRead(u, c) ==
    /\ chat[c] # None
    /\ message' = [message EXCEPT ![c] = MarkedRead(@, u)]
    /\ UNCHANGED <<chat, sockets, request>>

\* A socket disconnects, and is in no room; what its handlers would still
\* send it goes nowhere.
Disconnect(u) ==
    /\ room' = [c \in Chats |-> room[c] \ {u}]
    /\ seen' = [seen EXCEPT ![u] = [c \in Chats |-> {}]]
    /\ owed' = [owed EXCEPT ![u] = [c \in Chats |-> 0]]
    /\ request' = [q \in Requests |->
           IF request[q].at \in {"joining", "read"} /\ request[q].user = u
           THEN Idle ELSE request[q]]
    /\ UNCHANGED <<chat, message>>

\* makeChat fails, which its controller answers.
Fail(q) ==
    /\ At(q, "noChat")
    /\ Closes(q)
    /\ UNCHANGED <<chat, message, sockets>>

\* The process ends, by itself or by a rejection in a socket's handler.
Restart ==
    /\ room' = [c \in Chats |-> {}]
    /\ seen' = Nothing({})
    /\ owed' = Nothing(0)
    /\ request' = [q \in Requests |-> Idle]
    /\ UNCHANGED <<chat, message>>

Next ==
    \/ \E q \in Requests, ride \in Rides, p \in Passengers : MakeChat(q, ride, p)
    \/ \E q \in Requests, u \in Users, c \in Chats : JoinRoom(q, u, c) \/ SendMessage(q, u, c)
    \/ \E q \in Requests :
           \/ JoinRead(q) \/ JoinAnswer(q) \/ NewMessage(q) \/ Fail(q)
           \/ \E c \in Chats : CreateChat(q, c)
    \/ \E u \in Users : Disconnect(u) \/ \E c \in Chats : MarkAsRead(u, c)
    \/ Restart

Spec == Init /\ [][Next]_vars

------------------------------------------------------------------------------
(* A passenger and a ride have one chat, whichever of the two asks for it  *)
(* and however often, as long as the requests do not overlap.              *)
OneChat ==
    \A c, d \in Chats : chat[c] # None /\ chat[c] = chat[d] => c = d

(* A socket in a room misses no message: not the ones created while it was *)
(* being given the previous ones, and not its own.  A message may still be *)
(* on its way: created, and its handler about to send it.                  *)
OnItsWay(c, n) == \E q \in Requests :
    At(q, "created") /\ request[q].chat = c /\ request[q].message = n
NothingMissed ==
    \A c \in Chats : \A u \in room[c] : \A n \in owed[u][c] + 1 .. Len(message[c]) :
        n \in seen[u][c] \/ OnItsWay(c, n)
==============================================================================
