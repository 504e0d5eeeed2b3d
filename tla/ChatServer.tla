----------------------------- MODULE ChatServer -----------------------------
(***************************************************************************)
(* The tasks of chatserver: the main task (accept, serve one event,        *)
(* Ctrl-C, then wait for every connection task), one handle_connection     *)
(* task per connection, and one task per joined room that forwards the     *)
(* room's broadcast channel into the session's channel.                    *)
(*                                                                         *)
(* The peers are chatclients: on every connection the first request is     *)
(* Register and no later one is. Between a request and its answer a peer   *)
(* may send further requests, which stay in the socket: a connection task  *)
(* reads the next one after it has answered the last.                      *)
(***************************************************************************)
EXTENDS ServerEvents

CONSTANTS
  RequestTypes, \* the kinds of request the peers of this instance send
  CountedTypes, \* those of them that the next bound limits
  MaxCounted    \* bound: requests of these kinds read in one behaviour

ASSUME ChatServerAssumption ==
  /\ RequestTypes \subseteq RequestType
  /\ CountedTypes \subseteq RequestTypes
  /\ MaxCounted \in Nat

VARIABLES
  next_client_id,   \* Server.next_client_id
  asked,            \* connections on which Register has been read
  gone,             \* connections whose socket holds nothing more than its end
  budget,           \* requests of CountedTypes the peers may still send
  view,             \* history: what each peer was told of its name and rooms
  heard             \* history: room messages written to each peer's socket

loopVars == <<next_client_id, asked, gone, budget>>
history == <<view, heard>>
vars == <<server, sessions, nameVars, roomVars, rx, reply, inbox, conn, loopVars,
          history>>

Init ==
  /\ server = "running"
  /\ sessions = {}
  /\ username = [id \in Ids |-> NoName]
  /\ username_to_id = [n \in Names |-> NoId]
  /\ id_to_username = [id \in Ids |-> NoName]
  /\ room_manager = {MainRoom}
  /\ rooms = [id \in Ids |-> {}]
  /\ tail = [r \in Rooms |-> 0]
  /\ task = [id \in Ids |-> [r \in Rooms |-> NoTask]]
  /\ aborting = {}
  /\ rx = <<>>
  /\ reply = [id \in Ids |-> NoReply]
  /\ inbox = [id \in Ids |-> <<>>]
  /\ conn = [id \in Ids |-> "none"]
  /\ next_client_id = 1
  /\ asked = {}
  /\ gone = {}
  /\ budget = MaxCounted
  /\ view = [id \in Ids |-> [name |-> NoName, rooms |-> {}, left |-> {}, back |-> {}]]
  /\ heard = [id \in Ids |-> [r \in Rooms |-> <<>>]]

(* The process is there: its tasks run.                                    *)
Alive == server \in {"running", "closing"}

----------------------------------------------------------------------------
(* The main task.                                                          *)

(* The session is in the map before its connection task starts.            *)
Accept ==
  /\ server = "running"
  /\ next_client_id \in Ids
  /\ next_client_id' = next_client_id + 1
  /\ sessions' = sessions \cup {next_client_id}
  /\ conn' = [conn EXCEPT ![next_client_id] = "handshake"]
  /\ UNCHANGED <<server, nameVars, roomVars, rx, reply, inbox, asked, gone,
                 budget, history>>

Serving(type) ==
  /\ server = "running"
  /\ rx # <<>>
  /\ Head(rx).request.type = type
  /\ rx' = Tail(rx)
  /\ UNCHANGED <<conn, loopVars, history>>

ServeRegister    == Serving("Register") /\ Register(Head(rx).id, Head(rx).request.arg)
ServeChangeName  == Serving("ChangeName") /\ ChangeName(Head(rx).id, Head(rx).request.arg)
ServePrivMsg     == Serving("PrivMsg") /\ PrivMsg(Head(rx).id, Head(rx).request.arg)
ServeList        == Serving("List") /\ List(Head(rx).id, Head(rx).request.arg)
ServeCreateRoom  == Serving("Create") /\ CreateRoom(Head(rx).id, Head(rx).request.arg)
ServeJoinRoom    == Serving("Join") /\ JoinRoom(Head(rx).id, Head(rx).request.arg)
ServeLeaveRoom   == Serving("Leave") /\ LeaveRoom(Head(rx).id, Head(rx).request.arg)
ServeSendTo      == Serving("SendTo") /\ SendTo(Head(rx).id, Head(rx).request.arg)
ServeDropSession == Serving("DropSession") /\ DropSession(Head(rx).id)

Serve ==
  \/ ServeRegister \/ ServeChangeName \/ ServePrivMsg \/ ServeList
  \/ ServeCreateRoom \/ ServeJoinRoom \/ ServeLeaveRoom \/ ServeSendTo
  \/ ServeDropSession

(* Ctrl-C ends the loop. rx stays open while close_server awaits the       *)
(* connection tasks, but nobody receives from it any more.                 *)
CtrlC ==
  /\ server = "running"
  /\ server' = "closing"
  /\ UNCHANGED <<sessions, nameVars, roomVars, rx, reply, inbox, conn, loopVars,
                 history>>

(* join_all returns once every task has ended and resumes the panic of one *)
(* that panicked.                                                          *)
JoinAll ==
  /\ server = "closing"
  /\ \/ /\ \A id \in Ids : conn[id] \in {"none", "done"}
        /\ server' = "stopped"
     \/ /\ \E id \in Ids : conn[id] = "panicked"
        /\ server' = "panicked"
  /\ UNCHANGED <<sessions, nameVars, roomVars, rx, reply, inbox, conn, loopVars,
                 history>>

----------------------------------------------------------------------------
(* A connection task.                                                      *)

taskFrame == <<server, sessions, nameVars, roomVars, next_client_id>>

(* accept_async(..).expect(..): a failed handshake panics the task, which  *)
(* never gets to report that its session is over.                          *)
Handshake(id) ==
  /\ Alive
  /\ conn[id] = "handshake"
  /\ \/ conn' = [conn EXCEPT ![id] = "select"]
     \/ conn' = [conn EXCEPT ![id] = "panicked"]
  /\ UNCHANGED <<taskFrame, rx, reply, inbox, asked, gone, budget, history>>

(* handle_message: one event for the server, then wait for the answer.     *)
Read(id, request) ==
  /\ Alive
  /\ conn[id] = "select"
  /\ id \notin gone
  /\ request.type \in CountedTypes => budget > 0
  /\ budget' = IF request.type \in CountedTypes THEN budget - 1 ELSE budget
  /\ asked' = asked \cup {id}
  /\ rx' = Append(rx, [id |-> id, request |-> request])
  /\ conn' = [conn EXCEPT ![id] = "waiting"]
  /\ UNCHANGED <<taskFrame, reply, inbox, gone, history>>

(* The request comes from a peer that registers first, and once.           *)
Receive(id, request) ==
  /\ (request.type = "Register") <=> (id \notin asked)
  /\ Read(id, request)

(* What an answer tells the peer about itself: its name, the rooms it is   *)
(* in, those it ever left, and those it came back to.                      *)
Told(v, m) ==
  CASE m.type \in {"Registered", "ChangedName"} -> [v EXCEPT !.name = m.arg]
    [] m.type = "Joined" ->
         [v EXCEPT !.rooms = @ \cup {m.arg}, !.back = @ \cup ({m.arg} \cap v.left)]
    [] m.type = "LeftRoom" -> [v EXCEPT !.rooms = @ \ {m.arg}, !.left = @ \cup {m.arg}]
    [] OTHER -> v

(* Mistake: the answer is awaited only as long as the peer is there.       *)
TakeReplyIfPresent(id) ==
  /\ Alive
  /\ conn[id] = "waiting" /\ reply[id] # NoReply /\ id \notin gone
  /\ view' = [view EXCEPT ![id] = Told(@, reply[id])]
  /\ reply' = [reply EXCEPT ![id] = NoReply]
  /\ conn' = [conn EXCEPT ![id] = "select"]
  /\ UNCHANGED <<taskFrame, rx, inbox, asked, gone, budget, heard>>

(* The answer arrives and is written to the socket, and the task goes back *)
(* to its select.                                                          *)
TakeReply(id) ==
  /\ Alive
  /\ conn[id] = "waiting"
  /\ reply[id] # NoReply
  /\ view' = [view EXCEPT ![id] = Told(@, reply[id])]
  /\ reply' = [reply EXCEPT ![id] = NoReply]
  /\ conn' = [conn EXCEPT ![id] = "select"]
  /\ UNCHANGED <<taskFrame, rx, inbox, asked, gone, budget, heard>>

(* Mistake: the session's channel is read while the answer is awaited.     *)
DeliverWhileWaiting(id) ==
  /\ Alive
  /\ conn[id] \in {"select", "waiting"} /\ inbox[id] # <<>>
  /\ LET m == Head(inbox[id]) IN
       heard' = IF m.type = "RoomMessage"
                THEN [heard EXCEPT ![id][m.room] = Append(@, m.num)]
                ELSE heard
  /\ inbox' = [inbox EXCEPT ![id] = Tail(@)]
  /\ UNCHANGED <<taskFrame, rx, reply, conn, asked, gone, budget, view>>

(* A message from the session's channel is written to the socket.          *)
Deliver(id) ==
  /\ Alive
  /\ conn[id] = "select"
  /\ inbox[id] # <<>>
  /\ LET m == Head(inbox[id]) IN
       heard' = IF m.type = "RoomMessage"
                THEN [heard EXCEPT ![id][m.room] = Append(@, m.num)]
                ELSE heard
  /\ inbox' = [inbox EXCEPT ![id] = Tail(@)]
  /\ UNCHANGED <<taskFrame, rx, reply, conn, asked, gone, budget, view>>

(* The peer closed, or the network did: nothing more will be read.         *)
PeerCloses(id) ==
  /\ Alive
  /\ conn[id] \in {"select", "waiting"}
  /\ id \notin gone
  /\ gone' = gone \cup {id}
  /\ UNCHANGED <<taskFrame, rx, reply, inbox, conn, asked, budget, history>>

(* The end of handle_connection drops its end of the session's channel.    *)
Finish(id) ==
  /\ conn' = [conn EXCEPT ![id] = "done"]
  /\ inbox' = [inbox EXCEPT ![id] = <<>>]

(* Mistakes: the end of the stream is looked at while the answer is        *)
(* awaited, or it is not reported to the server.                           *)
EndOfStreamWhileWaiting(id) ==
  /\ Alive
  /\ conn[id] \in {"select", "waiting"} /\ id \in gone
  /\ rx' = Append(rx, [id |-> id, request |-> DropSessionEvent])
  /\ Finish(id)
  /\ UNCHANGED <<taskFrame, reply, asked, gone, budget, history>>

EndOfStreamUnreported(id) ==
  /\ Alive
  /\ conn[id] = "select" /\ id \in gone
  /\ Finish(id)
  /\ UNCHANGED <<taskFrame, rx, reply, asked, gone, budget, history>>

(* ws_stream.next() yields None: the session has to be dropped as well.    *)
EndOfStream(id) ==
  /\ Alive
  /\ conn[id] = "select"
  /\ id \in gone
  /\ rx' = Append(rx, [id |-> id, request |-> DropSessionEvent])
  /\ Finish(id)
  /\ UNCHANGED <<taskFrame, reply, asked, gone, budget, history>>

(* Mistake: only a connection that asked nothing yet watches for shutdown. *)
ShutdownSignalEarly(id) ==
  /\ server = "closing"
  /\ conn[id] = "select" /\ id \notin asked
  /\ Finish(id)
  /\ UNCHANGED <<taskFrame, rx, reply, asked, gone, budget, history>>

(* The shutdown broadcast is looked at in the select only.                 *)
ShutdownSignal(id) ==
  /\ server = "closing"
  /\ conn[id] = "select"
  /\ Finish(id)
  /\ UNCHANGED <<taskFrame, rx, reply, asked, gone, budget, history>>

----------------------------------------------------------------------------
(* Room tasks: while let Ok(message) = broadcast_rx.recv().await           *)

forwardFrame == <<server, sessions, nameVars, room_manager, rooms, tail, rx, reply,
                  conn, loopVars, history>>

(* The channel holds the last Capacity messages, the next one may be gone. *)
Lags(room, next) == next + Capacity <= tail[room]

Forward(id, room) ==
  /\ Alive
  /\ task[id][room] # NoTask
  /\ task[id][room] <= tail[room]
  /\ ~Lags(room, task[id][room])
  /\ Push(id, RoomMessage(room, task[id][room]))
  /\ task' = [task EXCEPT ![id][room] = @ + 1]
  /\ UNCHANGED <<forwardFrame, aborting>>

(* Mistake: the task goes on with the oldest message that is left.         *)
ForwardSkipping(id, room) ==
  /\ Alive
  /\ task[id][room] # NoTask
  /\ Lags(room, task[id][room])
  /\ task' = [task EXCEPT ![id][room] = tail[room] - Capacity + 1]
  /\ UNCHANGED <<forwardFrame, inbox, aborting>>

(* recv() returns Err(Lagged): the while let ends, and so does the task.   *)
ForwardLagged(id, room) ==
  /\ Alive
  /\ task[id][room] # NoTask
  /\ Lags(room, task[id][room])
  /\ task' = [task EXCEPT ![id][room] = NoTask]
  /\ UNCHANGED <<forwardFrame, inbox, aborting>>

ForwardAborted(a) ==
  /\ Alive
  /\ a.next <= tail[a.room]
  /\ ~Lags(a.room, a.next)
  /\ Push(a.id, RoomMessage(a.room, a.next))
  /\ aborting' = (aborting \ {a}) \cup {[a EXCEPT !.next = @ + 1]}
  /\ UNCHANGED <<forwardFrame, task>>

EndAborted(a) ==
  /\ Alive
  /\ aborting' = aborting \ {a}
  /\ UNCHANGED <<forwardFrame, inbox, task>>

----------------------------------------------------------------------------
Next ==
  \/ Accept \/ CtrlC \/ JoinAll
  \/ Serve
  \/ \E id \in Ids :
       \/ Handshake(id) \/ TakeReply(id) \/ Deliver(id)
       \/ PeerCloses(id) \/ EndOfStream(id) \/ ShutdownSignal(id)
       \/ \E request \in Request :
            request.type \in RequestTypes /\ Receive(id, request)
       \/ \E room \in Rooms : Forward(id, room) \/ ForwardLagged(id, room)
  \/ \E a \in aborting : ForwardAborted(a) \/ EndAborted(a)

(* Tokio polls every task that is ready. select! starts at a random branch *)
(* each time, so a branch that is ready again and again is taken: a peer   *)
(* that keeps sending requests does not silence its session's channel.     *)
(* What a task writes to its socket the peer reads; beyond that the peers, *)
(* the network and the operator owe nothing: accepting, the handshake,     *)
(* requests, ends of stream and Ctrl-C are not fair.                       *)
Fairness ==
  /\ WF_vars(Serve)
  /\ WF_vars(JoinAll)
  /\ \A id \in Ids :
       /\ WF_vars(TakeReply(id))
       /\ SF_vars(Deliver(id))
       /\ WF_vars(EndOfStream(id))
       /\ WF_vars(ShutdownSignal(id))
       /\ \A room \in Rooms : WF_vars(Forward(id, room) \/ ForwardLagged(id, room))

Spec == Init /\ [][Next]_vars
FairSpec == Spec /\ Fairness
----------------------------------------------------------------------------
(* Type correctness of the server's maps and channels, part by part. A     *)
(* room task is never ahead of the channel it receives from.               *)
NameTypeOK ==
  /\ username \in [Ids -> Names \cup {NoName}]
  /\ username_to_id \in [Names -> Ids \cup {NoId}]
  /\ id_to_username \in [Ids -> Names \cup {NoName}]

RoomTypeOK ==
  /\ room_manager \subseteq Rooms
  /\ rooms \in [Ids -> SUBSET Rooms]
  /\ tail \in [Rooms -> Nat]
  /\ task \in [Ids -> [Rooms -> Nat]]
  /\ \A id \in Ids, room \in Rooms : task[id][room] <= tail[room] + 1
  /\ aborting \subseteq [id : Ids, room : Rooms, next : Nat]

ChannelTypeOK ==
  /\ rx \in Seq(Event)
  /\ reply \in [Ids -> Reply]
  /\ inbox \in [Ids -> Seq(Message)]

TaskTypeOK ==
  /\ server \in ServerState
  /\ sessions \subseteq Ids
  /\ conn \in [Ids -> ConnState]
  /\ next_client_id \in 1 .. MaxClients + 1
  /\ asked \subseteq Ids
  /\ gone \subseteq Ids
  /\ budget \in 0 .. MaxCounted

HistoryTypeOK ==
  /\ view \in [Ids -> [name : Names \cup {NoName}, rooms : SUBSET Rooms,
                       left : SUBSET Rooms, back : SUBSET Rooms]]
  /\ heard \in [Ids -> [Rooms -> Seq(Nat)]]

TypeOK == NameTypeOK /\ RoomTypeOK /\ ChannelTypeOK /\ TaskTypeOK /\ HistoryTypeOK

(* The two maps of names are each other's inverse, every session's own     *)
(* copy of its name agrees with them, and only a session the server still  *)
(* has holds a name: through registrations, renames and ends of session in *)
(* any order, no name leaks and no name has two holders.                   *)
NamesAgree ==
  /\ \A id \in Ids, n \in Names :
       (username_to_id[n] = id) <=> (id_to_username[id] = n)
  /\ username = id_to_username
  /\ \A id \in Ids : id_to_username[id] # NoName => id \in sessions

Queued(id) == \E k \in DOMAIN rx : rx[k].id = id
IsDrop(event) == event.request = DropSessionEvent

OneEventEach == \A j, k \in DOMAIN rx : rx[j].id = rx[k].id => j = k

EventsOfWaiting ==
  \A k \in DOMAIN rx : conn[rx[k].id] = IF IsDrop(rx[k]) THEN "done" ELSE "waiting"

AnswerDue ==
  \A id \in Ids :
    IF conn[id] = "waiting" THEN Queued(id) <=> reply[id] = NoReply
                            ELSE reply[id] = NoReply

AnswerGiven == \A id \in Ids : reply[id] # Dropped

SessionBehind == \A id \in Ids : conn[id] \in Open => id \in sessions

(* Every request is accounted for until it is answered. A connection that  *)
(* waits has its one event in the server's channel or its answer in the    *)
(* oneshot, never both and never neither, and the answer is never a        *)
(* dropped sender; a connection that does not wait left nothing behind but *)
(* the event that drops its session, which is its last.                    *)
RequestAccounted ==
  server # "crashed" =>
    /\ OneEventEach
    /\ EventsOfWaiting
    /\ AnswerDue
    /\ AnswerGiven
    /\ SessionBehind

(* Whenever a connection has nothing outstanding, the name and the rooms   *)
(* its peer was told of, answer by answer, are those the server has.       *)
ViewInSync ==
  \A id \in Ids : conn[id] = "select" =>
    /\ view[id].name = id_to_username[id]
    /\ view[id].rooms = rooms[id]

(* A peer hears from a room only after it was told that it joined it: the  *)
(* room task runs before the answer is written, but its messages wait in   *)
(* the session's channel for the select after the answer.                  *)
JoinedBeforeHeard ==
  \A id \in Ids, room \in Rooms :
    heard[id][room] # <<>> => room \in view[id].rooms \cup view[id].left

(* What a peer knows once it has read the answer that is on its way.       *)
After(id) == Told(view[id], reply[id])

(* A number that comes next after those of a set, if there are any.        *)
Follows(n, earlier) ==
  earlier = {} \/ (n - 1 \in earlier /\ \A e \in earlier : e < n)

Heard(id, room, i) == {heard[id][room][j] : j \in 1 .. i - 1}

IsRoomMessage(id, room, k) ==
  inbox[id][k].type = "RoomMessage" /\ inbox[id][k].room = room

(* The numbers of the room's messages that reach the peer before what is   *)
(* at place k of its session's channel.                                    *)
Ahead(id, room, k) ==
  {heard[id][room][i] : i \in DOMAIN heard[id][room]}
    \cup {inbox[id][j].num : j \in {j \in 1 .. k - 1 : IsRoomMessage(id, room, j)}}

InOrder(id, room) ==
  /\ \A i \in DOMAIN heard[id][room] : Follows(heard[id][room][i], Heard(id, room, i))
  /\ \A k \in DOMAIN inbox[id] :
       IsRoomMessage(id, room, k) => Follows(inbox[id][k].num, Ahead(id, room, k))

ResumesAfterLast(id, room) ==
  (conn[id] \in Open /\ task[id][room] # NoTask) =>
    Follows(task[id][room], Ahead(id, room, Len(inbox[id]) + 1))

(* Until a peer comes back to a room that it left, it hears the room's     *)
(* messages in the order they were sent, each once and with no gap, and    *)
(* the room task resumes just after the last one: a task that lagged stops *)
(* and never skips, one that was aborted and forwards more goes on where   *)
(* it was (session.rs:58 and 103).                                         *)
RoomInOrder ==
  \A id \in Ids, room \in Rooms :
    room \notin After(id).back => InOrder(id, room) /\ ResumesAfterLast(id, room)

(* The server keeps the promise of NameDirectory: username_to_id is the    *)
(* directory, the sessions are the clients that are there.                 *)
Directory ==
  INSTANCE NameDirectory
    WITH Clients <- Ids, NoClient <- NoId, holder <- username_to_id,
         live <- sessions, past <- (1 .. next_client_id - 1) \ sessions

DirectorySpec == Directory!Spec

(* A request is answered, or the server is no longer running: a sender     *)
(* that a handler dropped is no answer. Whoever waits goes back to its     *)
(* select, also when the loop has ended meanwhile.                         *)
RequestAnswered ==
  \A id \in Ids :
    /\ (conn[id] = "waiting") ~> (reply[id] \notin {NoReply, Dropped} \/ server # "running")
    /\ (reply[id] # NoReply) ~> (conn[id] # "waiting" \/ ~Alive)

(* Once a peer's socket has ended, its session is dropped and its name is  *)
(* free again, or the server is no longer running.                         *)
NameReleased ==
  \A id \in Ids :
    (id \in gone) ~> \/ /\ id \notin sessions
                         /\ \A n \in Names : username_to_id[n] # id
                      \/ server # "running"

(* A room message that a room task has still to receive reaches the peer's *)
(* socket, unless the task lagged or was aborted, the connection ended or  *)
(* the server is no longer running.                                        *)
RoomMessageHeard ==
  \A id \in Ids, room \in Rooms, n \in 1 .. MaxCounted :
    (task[id][room] = n /\ n <= tail[room]) ~>
      \/ \E i \in DOMAIN heard[id][room] : heard[id][room][i] = n
      \/ task[id][room] = NoTask
      \/ conn[id] \notin Open
      \/ server # "running"

(* After Ctrl-C, every connection that is not in its handshake and waits   *)
(* for no answer ends, or the process does.                                *)
ShutdownReachesIdle ==
  (server = "closing") ~>
    \/ server \in {"stopped", "panicked"}
    \/ \A id \in Ids : conn[id] # "select"

----------------------------------------------------------------------------
(* Statements of the source that the code does not keep.                   *)

(* server_events.rs:113 and 115 index and unwrap a session's entry in      *)
(* id_to_username, 250 indexes the sender's: whoever asks for another name *)
(* or sends a private message has a name, and the event loop never panics. *)
NoCrash == server # "crashed"

(* session.rs:16: the tasks in room_task_set receive the room's messages;  *)
(* as long as the session is in a room it has one.                         *)
JoinedRoomHasReceiver ==
  \A id \in Ids : \A room \in rooms[id] : task[id][room] # NoTask

(* main.rs:51, "Server shut down", follows close_server: after Ctrl-C the  *)
(* server ends, at least when every peer has completed its handshake.      *)
ShutdownTerminates ==
  (server = "closing" /\ \A id \in Ids : conn[id] \in {"none", "select", "waiting", "done"})
    ~> (server = "stopped")

(* mod.rs:162, "Connection to the client has been closed/dropped, session  *)
(* has to be dropped as well": a connection task that ended, however it    *)
(* ended, leaves no session in a running server.                           *)
EndedSessionDropped ==
  \A id \in Ids :
    (conn[id] \in {"done", "panicked"}) ~> (id \notin sessions \/ server # "running")
=============================================================================
