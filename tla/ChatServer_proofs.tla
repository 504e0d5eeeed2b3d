-------------------------- MODULE ChatServer_proofs --------------------------
(***************************************************************************)
(* Theorems about ChatServer and their proofs.                             *)
(***************************************************************************)
EXTENDS ChatServer, TLAPS

----------------------------------------------------------------------------
(* What requests and answers are made of.                                  *)

(* The argument of a request is of the kind its type says.                 *)
LEMMA RequestArg ==
  ASSUME NEW r \in Request \cup {DropSessionEvent}
  PROVE  /\ r.type \in {"Register", "ChangeName", "PrivMsg"} => r.arg \in Names
         /\ r.type \in {"Join", "Leave", "Create", "SendTo"} => r.arg \in Rooms
         /\ r.type = "DropSession" <=> r = DropSessionEvent
  BY DEF Request, NameRequest, RoomRequest, ListRequest, DropSessionEvent

(* Every answer of a handler can be sent on the oneshot channel.           *)
LEMMA ReplyTypes ==
  /\ NoReply \in Reply /\ Dropped \in Reply
  /\ \A t \in RequestType : Failed(t) \in Reply
  /\ \A n \in Names : /\ Answered("Registered", n) \in Reply
                      /\ Answered("ChangedName", n) \in Reply
                      /\ Answered("OutgoingMsg", n) \in Reply
  /\ \A r \in Rooms : /\ Answered("Joined", r) \in Reply
                      /\ Answered("LeftRoom", r) \in Reply
                      /\ Answered("CreatedRoom", r) \in Reply
                      /\ Answered("MessagedRoom", r) \in Reply
  /\ \A o \in {"users", "rooms", "allrooms"} : Answered("Listing", o) \in Reply
  BY DEF Reply, Failed, Answered, NoReply, Dropped

(* No answer but Dropped is a dropped sender, and none is the absence of   *)
(* an answer.                                                              *)
LEMMA ReplyDistinct ==
  /\ Dropped # NoReply
  /\ \A t : Failed(t) # NoReply /\ Failed(t) # Dropped
  /\ \A t \in {"Registered", "ChangedName", "OutgoingMsg", "Joined", "LeftRoom",
               "CreatedRoom", "MessagedRoom", "Listing"} :
       \A a : Answered(t, a) # NoReply /\ Answered(t, a) # Dropped
  BY DEF Failed, Answered, NoReply, Dropped

(* Messages pushed to a session are messages of its channel.               *)
LEMMA MessageTypes ==
  /\ \A r \in Rooms, n \in Nat : RoomMessage(r, n) \in Message
  /\ \A n \in Names : IncomingMsg(n) \in Message
  /\ \A m \in Message : m.type = "RoomMessage" => m.room \in Rooms /\ m.num \in Nat
  BY DEF RoomMessage, IncomingMsg, Message

(* The first event of the server's channel and the rest of the channel.    *)
LEMMA HeadEvent ==
  ASSUME TypeOK, rx # <<>>
  PROVE  /\ Head(rx).id \in Ids
         /\ Head(rx).request \in Request \cup {DropSessionEvent}
         /\ Tail(rx) \in Seq(Event)
<1>1. rx \in Seq(Event)  BY DEF TypeOK, ChannelTypeOK
<1>2. Head(rx) \in Event /\ Tail(rx) \in Seq(Event)  BY <1>1
<1> QED  BY <1>2 DEF Event
----------------------------------------------------------------------------
(* Type correctness. Each part of TypeOK is disturbed by a few actions     *)
(* only; every other action leaves its variables as they are.              *)

(* The types hold at first.                                                *)
LEMMA TypeInit == Init => TypeOK
<1> SUFFICES ASSUME Init PROVE TypeOK  OBVIOUS
<1>1. NameTypeOK  BY DEF Init, NameTypeOK
<1>2. RoomTypeOK  BY ServerAssumption DEF Init, RoomTypeOK, NoTask
<1>3. ChannelTypeOK  BY ReplyTypes DEF Init, ChannelTypeOK
<1>4. TaskTypeOK
  BY ServerAssumption, ChatServerAssumption DEF Init, TaskTypeOK, ServerState, ConnState, Ids
<1>5. HistoryTypeOK  BY DEF Init, HistoryTypeOK
<1> QED  BY <1>1, <1>2, <1>3, <1>4, <1>5 DEF TypeOK

(* An action of the server, spelled out with the event it serves.          *)
LEMMA ServeCases ==
  ASSUME Serve
  PROVE  /\ server = "running" /\ rx # <<>> /\ rx' = Tail(rx)
         /\ UNCHANGED <<conn, loopVars, history>>
         /\ LET id == Head(rx).id
                r == Head(rx).request
            IN \/ r.type = "Register" /\ Register(id, r.arg)
               \/ r.type = "ChangeName" /\ ChangeName(id, r.arg)
               \/ r.type = "PrivMsg" /\ PrivMsg(id, r.arg)
               \/ r.type = "List" /\ List(id, r.arg)
               \/ r.type = "Create" /\ CreateRoom(id, r.arg)
               \/ r.type = "Join" /\ JoinRoom(id, r.arg)
               \/ r.type = "Leave" /\ LeaveRoom(id, r.arg)
               \/ r.type = "SendTo" /\ SendTo(id, r.arg)
               \/ r.type = "DropSession" /\ DropSession(id)
  BY DEF Serve, Serving, ServeRegister, ServeChangeName, ServePrivMsg, ServeList,
         ServeCreateRoom, ServeJoinRoom, ServeLeaveRoom, ServeSendTo, ServeDropSession

(* NameTypeOK is preserved.                                                *)
LEMMA NameTypeStep ==
  ASSUME TypeOK, Next
  PROVE  NameTypeOK'
<1>1. CASE UNCHANGED nameVars
  BY <1>1 DEF TypeOK, NameTypeOK, nameVars
<1>2. CASE Serve /\ ~UNCHANGED nameVars
  <2> DEFINE id == Head(rx).id
             r == Head(rx).request
  <2> USE <1>2
  <2>1. \/ r.type = "Register" /\ Register(id, r.arg)
        \/ r.type = "ChangeName" /\ ChangeName(id, r.arg)
        \/ r.type = "DropSession" /\ DropSession(id)
    BY ServeCases DEF PrivMsg, List, CreateRoom, JoinRoom, LeaveRoom, SendTo, Broadcast
  <2>2. /\ id \in Ids
        /\ r.type \in {"Register", "ChangeName"} => r.arg \in Names
    BY ServeCases, HeadEvent, RequestArg
  <2>3. CASE r.type = "Register" /\ Register(id, r.arg)
    BY <2>2, <2>3 DEF Register, BindName, TypeOK, NameTypeOK, nameVars
  <2>4. CASE r.type = "ChangeName" /\ ChangeName(id, r.arg)
    BY <2>2, <2>4 DEF ChangeName, RebindName, TypeOK, NameTypeOK, nameVars
  <2>5. CASE r.type = "DropSession" /\ DropSession(id)
    BY <2>2, <2>5 DEF DropSession, TypeOK, NameTypeOK
  <2> QED  BY <2>1, <2>3, <2>4, <2>5
<1>3. Next => UNCHANGED nameVars \/ Serve
  BY DEF Next, Accept, CtrlC, JoinAll, Handshake, Receive, Read, TakeReply, Deliver, PeerCloses,
         EndOfStream, ShutdownSignal, Forward, ForwardLagged, ForwardAborted,
         EndAborted, taskFrame, forwardFrame
<1> QED  BY <1>1, <1>2, <1>3

(* Entering and leaving a room keep the receivers well typed.              *)
LEMMA SubscribeType ==
  ASSUME RoomTypeOK, NEW id \in Ids, NEW room \in Rooms, Subscribe(id, room)
  PROVE  /\ rooms' \in [Ids -> SUBSET Rooms]
         /\ task' \in [Ids -> [Rooms -> Nat]]
         /\ \A i \in Ids, q \in Rooms : task'[i][q] <= tail[q] + 1
<1>1. rooms' \in [Ids -> SUBSET Rooms]  BY DEF Subscribe, RoomTypeOK
<1>2. task' = [task EXCEPT ![id][room] = tail[room] + 1]  BY DEF Subscribe
<1>3. tail[room] + 1 \in Nat  BY DEF RoomTypeOK
<1>4. task' \in [Ids -> [Rooms -> Nat]]  BY <1>2, <1>3 DEF RoomTypeOK
<1>5. \A i \in Ids, q \in Rooms :
        task'[i][q] = IF i = id /\ q = room THEN tail[room] + 1 ELSE task[i][q]
  BY <1>2 DEF RoomTypeOK
<1> QED  BY <1>1, <1>3, <1>4, <1>5 DEF RoomTypeOK

(* Leaving a room keeps the types of the room tasks.                       *)
LEMMA UnsubscribeType ==
  ASSUME RoomTypeOK, NEW id \in Ids, NEW room \in Rooms, Unsubscribe(id, room)
  PROVE  /\ rooms' \in [Ids -> SUBSET Rooms]
         /\ task' \in [Ids -> [Rooms -> Nat]]
         /\ \A i \in Ids, q \in Rooms : task'[i][q] <= tail[q] + 1
         /\ aborting' \subseteq [id : Ids, room : Rooms, next : Nat]
<1>1. rooms' \in [Ids -> SUBSET Rooms]  BY DEF Unsubscribe, RoomTypeOK
<1>2. task' = [task EXCEPT ![id][room] = 0]  BY DEF Unsubscribe, NoTask
<1>3. task' \in [Ids -> [Rooms -> Nat]]  BY <1>2 DEF RoomTypeOK
<1>4. \A i \in Ids, q \in Rooms :
        task'[i][q] = IF i = id /\ q = room THEN 0 ELSE task[i][q]
  BY <1>2 DEF RoomTypeOK
<1>5. task[id][room] \in Nat  BY DEF RoomTypeOK
<1>6. aborting' \subseteq [id : Ids, room : Rooms, next : Nat]
  BY <1>5 DEF Unsubscribe, RoomTypeOK
<1> QED  BY <1>1, <1>3, <1>4, <1>6 DEF RoomTypeOK

(* RoomTypeOK is preserved.                                                *)
LEMMA RoomTypeStep ==
  ASSUME TypeOK, Next
  PROVE  RoomTypeOK'
<1>1. CASE UNCHANGED roomVars
  BY <1>1 DEF TypeOK, RoomTypeOK, roomVars
<1>2. CASE Serve /\ ~UNCHANGED roomVars
  <2> DEFINE id == Head(rx).id
             r == Head(rx).request
  <2> USE <1>2
  <2>1. \/ r.type = "Create" /\ CreateRoom(id, r.arg)
        \/ r.type = "Join" /\ JoinRoom(id, r.arg)
        \/ r.type = "Leave" /\ LeaveRoom(id, r.arg)
        \/ r.type = "SendTo" /\ SendTo(id, r.arg)
        \/ r.type = "DropSession" /\ DropSession(id)
    BY ServeCases DEF Register, ChangeName, PrivMsg, List
  <2>2. /\ id \in Ids
        /\ r.type \in {"Create", "Join", "Leave", "SendTo"} => r.arg \in Rooms
    BY ServeCases, HeadEvent, RequestArg
  <2>3. CASE r.type = "Create" /\ CreateRoom(id, r.arg)
    BY <2>2, <2>3 DEF CreateRoom, TypeOK, RoomTypeOK
  <2>4. CASE r.type = "Join" /\ JoinRoom(id, r.arg)
    <3>1. UNCHANGED <<room_manager, tail, aborting>>  BY <2>4 DEF JoinRoom
    <3>2. CASE UNCHANGED <<rooms, task>>  BY <3>1, <3>2 DEF TypeOK, RoomTypeOK
    <3>3. CASE Subscribe(id, r.arg)
      BY <2>2, <2>4, <3>1, <3>3, SubscribeType DEF TypeOK, RoomTypeOK
    <3> QED  BY <2>4, <3>2, <3>3 DEF JoinRoom
  <2>5. CASE r.type = "Leave" /\ LeaveRoom(id, r.arg)
    <3>1. UNCHANGED <<room_manager, tail>>  BY <2>5 DEF LeaveRoom
    <3>2. CASE UNCHANGED <<rooms, task, aborting>>
      BY <3>1, <3>2 DEF TypeOK, RoomTypeOK
    <3>3. CASE Unsubscribe(id, r.arg)
      BY <2>2, <2>5, <3>1, <3>3, UnsubscribeType DEF TypeOK, RoomTypeOK
    <3> QED  BY <2>5, <3>2, <3>3 DEF LeaveRoom
  <2>6. CASE r.type = "SendTo" /\ SendTo(id, r.arg)
    <3>1. UNCHANGED <<room_manager, rooms, task, aborting>>  BY <2>6 DEF SendTo, Broadcast
    <3>2. \/ tail' = tail
          \/ tail' = [tail EXCEPT ![r.arg] = @ + 1]
      BY <2>2, <2>6 DEF SendTo, Broadcast, TypeOK, RoomTypeOK
    <3>3. /\ tail' \in [Rooms -> Nat]
          /\ \A q \in Rooms : tail[q] \in Nat /\ tail[q] <= tail'[q]
      BY <2>2, <2>6, <3>2 DEF TypeOK, RoomTypeOK
    <3>4. \A i \in Ids, q \in Rooms : task'[i][q] <= tail'[q] + 1
      <4> SUFFICES ASSUME NEW i \in Ids, NEW q \in Rooms
                   PROVE  task[i][q] <= tail'[q] + 1
        BY <3>1
      <4>1. task[i][q] \in Nat /\ task[i][q] <= tail[q] + 1  BY DEF TypeOK, RoomTypeOK
      <4> QED  BY <3>3, <4>1
    <3> QED  BY <3>1, <3>3, <3>4 DEF TypeOK, RoomTypeOK
  <2>7. CASE r.type = "DropSession" /\ DropSession(id)
    BY <2>2, <2>7 DEF DropSession, TypeOK, RoomTypeOK, NoTask
  <2> QED  BY <2>1, <2>3, <2>4, <2>5, <2>6, <2>7
<1>3. ASSUME NEW id \in Ids, NEW room \in Rooms, Forward(id, room)
      PROVE  RoomTypeOK'
  BY <1>3 DEF Forward, forwardFrame, TypeOK, RoomTypeOK
<1>4. ASSUME NEW id \in Ids, NEW room \in Rooms, ForwardLagged(id, room)
      PROVE  RoomTypeOK'
  BY <1>4 DEF ForwardLagged, forwardFrame, TypeOK, RoomTypeOK, NoTask
<1>5. ASSUME NEW a \in aborting, ForwardAborted(a) \/ EndAborted(a)
      PROVE  RoomTypeOK'
  BY <1>5 DEF ForwardAborted, EndAborted, forwardFrame, TypeOK, RoomTypeOK
<1>6. \/ UNCHANGED roomVars \/ Serve
      \/ \E id \in Ids, room \in Rooms : Forward(id, room) \/ ForwardLagged(id, room)
      \/ \E a \in aborting : ForwardAborted(a) \/ EndAborted(a)
  BY DEF Next, Accept, CtrlC, JoinAll, Handshake, Receive, Read, TakeReply, Deliver, PeerCloses,
         EndOfStream, ShutdownSignal, taskFrame
<1> QED  BY <1>1, <1>2, <1>3, <1>4, <1>5, <1>6

(* Serving an event answers it at most.                                    *)
LEMMA ServeReplyType ==
  ASSUME TypeOK, Serve
  PROVE  reply' \in [Ids -> Reply]
<1> DEFINE id == Head(rx).id
           r == Head(rx).request
<1>1. /\ id \in Ids /\ r \in Request \cup {DropSessionEvent}
      /\ r.type \in {"Register", "ChangeName", "PrivMsg"} => r.arg \in Names
      /\ r.type \in {"Join", "Leave", "Create", "SendTo"} => r.arg \in Rooms
  BY ServeCases, HeadEvent, RequestArg
<1>2. UNCHANGED reply \/ \E m \in Reply : Answer(id, m)
  <2>1. CASE r.type = "Register" /\ Register(id, r.arg)
    BY <1>1, <2>1, ReplyTypes DEF Register, RequestType
  <2>2. CASE r.type = "ChangeName" /\ ChangeName(id, r.arg)
    BY <1>1, <2>2, ReplyTypes DEF ChangeName, RequestType, Panic
  <2>3. CASE r.type = "PrivMsg" /\ PrivMsg(id, r.arg)
    BY <1>1, <2>3, ReplyTypes DEF PrivMsg, RequestType, Panic
  <2>4. CASE r.type = "List" /\ List(id, r.arg)
    <3>1. r.arg \in {"users", "rooms", "allrooms", "other"}
      BY <1>1, <2>4 DEF Request, NameRequest, RoomRequest, ListRequest, DropSessionEvent
    <3> QED  BY <3>1, <2>4, ReplyTypes DEF List, RequestType
  <2>5. CASE r.type = "Create" /\ CreateRoom(id, r.arg)
    BY <1>1, <2>5, ReplyTypes DEF CreateRoom, RequestType
  <2>6. CASE r.type = "Join" /\ JoinRoom(id, r.arg)
    BY <1>1, <2>6, ReplyTypes DEF JoinRoom, RequestType
  <2>7. CASE r.type = "Leave" /\ LeaveRoom(id, r.arg)
    BY <1>1, <2>7, ReplyTypes DEF LeaveRoom, RequestType
  <2>8. CASE r.type = "SendTo" /\ SendTo(id, r.arg)
    BY <1>1, <2>8, ReplyTypes DEF SendTo, Broadcast, RequestType
  <2>9. CASE r.type = "DropSession" /\ DropSession(id)
    BY <2>9 DEF DropSession
  <2> QED  BY ServeCases, <2>1, <2>2, <2>3, <2>4, <2>5, <2>6, <2>7, <2>8, <2>9
<1> QED  BY <1>1, <1>2 DEF Answer, TypeOK, ChannelTypeOK

(* A push leaves sequences of messages in the sessions' channels.          *)
LEMMA PushType ==
  ASSUME TypeOK, NEW id \in Ids, NEW m \in Message, Push(id, m)
  PROVE  inbox' \in [Ids -> Seq(Message)]
  BY DEF Push, TypeOK, ChannelTypeOK

(* Serving an event leaves sequences of messages there.                    *)
LEMMA ServeInboxType ==
  ASSUME TypeOK, Serve
  PROVE  inbox' \in [Ids -> Seq(Message)]
<1> DEFINE id == Head(rx).id
           r == Head(rx).request
<1>1. CASE inbox' = inbox  BY <1>1 DEF TypeOK, ChannelTypeOK
<1>2. CASE inbox' # inbox
  <2>1. r.type = "PrivMsg" /\ PrivMsg(id, r.arg)
    BY <1>2, ServeCases DEF Register, ChangeName, List, CreateRoom, JoinRoom, LeaveRoom,
       SendTo, Broadcast, DropSession
  <2>2. id \in Ids /\ r.arg \in Names
    BY <2>1, ServeCases, HeadEvent, RequestArg
  <2>3. /\ username_to_id[r.arg] # NoId /\ id_to_username[id] # NoName
        /\ Push(username_to_id[r.arg], IncomingMsg(id_to_username[id]))
    BY <1>2, <2>1 DEF PrivMsg
  <2>4. username_to_id[r.arg] \in Ids /\ id_to_username[id] \in Names
    BY <2>2, <2>3 DEF TypeOK, NameTypeOK
  <2> QED  BY <2>3, <2>4, PushType, MessageTypes
<1> QED  BY <1>1, <1>2

(* ChannelTypeOK is preserved.                                             *)
LEMMA ChannelTypeStep ==
  ASSUME TypeOK, Next
  PROVE  ChannelTypeOK'
<1> USE DEF ChannelTypeOK
<1>0. /\ rx \in Seq(Event)
      /\ reply \in [Ids -> Reply]
      /\ inbox \in [Ids -> Seq(Message)]
  BY DEF TypeOK
<1>1. CASE Serve
  BY <1>1, ServeCases, HeadEvent, ServeReplyType, ServeInboxType
<1>2. ASSUME NEW id \in Ids, NEW request \in Request, Receive(id, request)
      PROVE  ChannelTypeOK'
  <2>1. [id |-> id, request |-> request] \in Event  BY DEF Event
  <2> QED  BY <1>0, <1>2, <2>1 DEF Receive, Read, taskFrame
<1>3. ASSUME NEW id \in Ids, EndOfStream(id)
      PROVE  ChannelTypeOK'
  <2>1. [id |-> id, request |-> DropSessionEvent] \in Event  BY DEF Event
  <2> QED  BY <1>0, <1>3, <2>1 DEF EndOfStream, Finish, taskFrame
<1>4. ASSUME NEW id \in Ids, TakeReply(id)
      PROVE  ChannelTypeOK'
  BY <1>0, <1>4, ReplyTypes DEF TakeReply, taskFrame
<1>5. ASSUME NEW id \in Ids, Deliver(id)
      PROVE  ChannelTypeOK'
  BY <1>0, <1>5 DEF Deliver, taskFrame
<1>6. ASSUME NEW id \in Ids, ShutdownSignal(id)
      PROVE  ChannelTypeOK'
  BY <1>0, <1>6 DEF ShutdownSignal, Finish, taskFrame
<1>7. ASSUME NEW id \in Ids, NEW room \in Rooms, Forward(id, room)
      PROVE  ChannelTypeOK'
  <2>1. task[id][room] \in Nat  BY DEF TypeOK, RoomTypeOK
  <2> QED  BY <1>0, <1>7, <2>1, PushType, MessageTypes DEF Forward, forwardFrame
<1>8. ASSUME NEW a \in aborting, ForwardAborted(a)
      PROVE  ChannelTypeOK'
  <2>1. a \in [id : Ids, room : Rooms, next : Nat]  BY DEF TypeOK, RoomTypeOK
  <2>2. a.id \in Ids /\ RoomMessage(a.room, a.next) \in Message  BY <2>1, MessageTypes
  <2>3. inbox' \in [Ids -> Seq(Message)]  BY <1>8, <2>2, PushType DEF ForwardAborted
  <2> QED  BY <1>0, <1>8, <2>3 DEF ForwardAborted, forwardFrame
<1>9. CASE UNCHANGED <<rx, reply, inbox>>
  BY <1>0, <1>9
<1> QED
  BY <1>1, <1>2, <1>3, <1>4, <1>5, <1>6, <1>7, <1>8, <1>9
  DEF Next, Accept, CtrlC, JoinAll, Handshake, PeerCloses, ForwardLagged, EndAborted,
      taskFrame, forwardFrame

(* TaskTypeOK is preserved.                                                *)
LEMMA TaskTypeStep ==
  ASSUME TypeOK, Next
  PROVE  TaskTypeOK'
<1>0. TaskTypeOK  BY DEF TypeOK
<1>1. CASE Serve
  <2>1. UNCHANGED <<conn, next_client_id, asked, gone, budget>>
    BY <1>1, ServeCases DEF loopVars
  <2>2. server' \in ServerState /\ sessions' \subseteq sessions
    BY <1>1, ServeCases
    DEF Register, ChangeName, PrivMsg, List, CreateRoom, JoinRoom, LeaveRoom, SendTo, Broadcast,
        DropSession, Panic, ServerState
  <2> QED  BY <1>0, <2>1, <2>2 DEF TaskTypeOK
<1>2. CASE Accept
  BY <1>0, <1>2, ServerAssumption DEF Accept, TaskTypeOK, ConnState, Ids
<1>3. CASE CtrlC \/ JoinAll
  BY <1>0, <1>3 DEF CtrlC, JoinAll, TaskTypeOK, ServerState, loopVars
<1>4. ASSUME NEW id \in Ids,
             \/ Handshake(id) \/ TakeReply(id) \/ Deliver(id)
             \/ PeerCloses(id) \/ EndOfStream(id) \/ ShutdownSignal(id)
      PROVE  TaskTypeOK'
  BY <1>0, <1>4
  DEF Handshake, TakeReply, Deliver, PeerCloses, EndOfStream, ShutdownSignal, Finish,
      taskFrame, TaskTypeOK, ConnState
<1>5. ASSUME NEW id \in Ids, NEW request \in Request, Receive(id, request)
      PROVE  TaskTypeOK'
  BY <1>0, <1>5, ChatServerAssumption DEF Receive, Read, taskFrame, TaskTypeOK, ConnState
<1>6. CASE UNCHANGED <<server, sessions, conn, loopVars>>
  BY <1>0, <1>6 DEF TaskTypeOK, loopVars
<1> QED
  BY <1>1, <1>2, <1>3, <1>4, <1>5, <1>6
  DEF Next, Forward, ForwardLagged, ForwardAborted, EndAborted, forwardFrame

(* HistoryTypeOK is preserved.                                             *)
LEMMA HistoryTypeStep ==
  ASSUME TypeOK, Next
  PROVE  HistoryTypeOK'
<1>0. HistoryTypeOK  BY DEF TypeOK
<1>1. ASSUME NEW id \in Ids, TakeReply(id)
      PROVE  HistoryTypeOK'
  <2>1. view[id] \in [name : Names \cup {NoName}, rooms : SUBSET Rooms,
                     left : SUBSET Rooms, back : SUBSET Rooms]
    BY <1>0 DEF HistoryTypeOK
  <2>2. reply[id] \in Reply  BY DEF TypeOK, ChannelTypeOK
  <2>3. /\ reply[id].type \in {"Registered", "ChangedName"} => reply[id].arg \in Names
        /\ reply[id].type \in {"Joined", "LeftRoom"} => reply[id].arg \in Rooms
    BY <2>2 DEF Reply, NoReply, Dropped
  <2>4. Told(view[id], reply[id])
          \in [name : Names \cup {NoName}, rooms : SUBSET Rooms,
               left : SUBSET Rooms, back : SUBSET Rooms]
    BY <2>1, <2>3 DEF Told
  <2> QED  BY <1>0, <1>1, <2>4 DEF TakeReply, HistoryTypeOK
<1>2. ASSUME NEW id \in Ids, Deliver(id)
      PROVE  HistoryTypeOK'
  <2>1. Head(inbox[id]) \in Message  BY <1>2 DEF Deliver, TypeOK, ChannelTypeOK
  <2> DEFINE m == Head(inbox[id])
  <2>2. CASE m.type = "RoomMessage"
    <3>1. m.room \in Rooms /\ m.num \in Nat  BY <2>1, <2>2, MessageTypes
    <3>2. heard' = [heard EXCEPT ![id][m.room] = Append(@, m.num)] /\ view' = view
      BY <1>2, <2>2 DEF Deliver
    <3>3. Append(heard[id][m.room], m.num) \in Seq(Nat)
      BY <1>0, <3>1 DEF HistoryTypeOK
    <3> HIDE DEF m
    <3> QED  BY <1>0, <3>1, <3>2, <3>3 DEF HistoryTypeOK
  <2>3. CASE m.type # "RoomMessage"
    BY <1>0, <1>2, <2>3 DEF Deliver, HistoryTypeOK
  <2> QED  BY <2>2, <2>3
<1>3. CASE UNCHANGED history
  BY <1>0, <1>3 DEF HistoryTypeOK, history
<1>4. \/ UNCHANGED history
      \/ \E id \in Ids : TakeReply(id) \/ Deliver(id)
  BY ServeCases
  DEF Next, Accept, CtrlC, JoinAll, Handshake, Receive, Read, PeerCloses, EndOfStream,
      ShutdownSignal, Forward, ForwardLagged, ForwardAborted, EndAborted, taskFrame,
      forwardFrame, history
<1> QED  BY <1>1, <1>2, <1>3, <1>4

(* The types are preserved.                                                *)
LEMMA TypeStep == TypeOK /\ [Next]_vars => TypeOK'
<1>1. ASSUME TypeOK, Next PROVE TypeOK'
  BY <1>1, NameTypeStep, RoomTypeStep, ChannelTypeStep, TaskTypeStep, HistoryTypeStep
  DEF TypeOK
<1>2. ASSUME TypeOK, UNCHANGED vars PROVE TypeOK'
  BY <1>2 DEF TypeOK, NameTypeOK, RoomTypeOK, ChannelTypeOK, TaskTypeOK, HistoryTypeOK, vars,
     nameVars, roomVars, loopVars, history
<1> QED  BY <1>1, <1>2

(* The server's maps and channels are well typed, and no room task is      *)
(* ahead of its room's channel, for any number of clients, names, rooms.   *)
THEOREM TypeCorrect == Spec => []TypeOK
  BY TypeInit, TypeStep, PTL DEF Spec

----------------------------------------------------------------------------
(* The inductive invariant behind NamesAgree and RequestAccounted.         *)

(* Connections are numbered in the order they are accepted.                *)
Numbered ==
  /\ sessions \subseteq 1 .. next_client_id - 1
  /\ \A id \in Ids : id >= next_client_id => conn[id] = "none"

(* Whoever is about to be registered has no name yet: a peer registers     *)
(* once, before anything else.                                             *)
RegistersOnce ==
  /\ \A id \in Ids : id \notin asked => id_to_username[id] = NoName
  /\ \A k \in DOMAIN rx :
       rx[k].request.type = "Register" => id_to_username[rx[k].id] = NoName

(* A session lives until the event that drops it is served.                *)
SessionLives == \A k \in DOMAIN rx : rx[k].id \in sessions

(* Who has a request in the channel has asked before.                      *)
AskedBefore == \A k \in DOMAIN rx : ~IsDrop(rx[k]) => rx[k].id \in asked

IInv ==
  /\ TypeOK
  /\ NamesAgree
  /\ RequestAccounted
  /\ Numbered
  /\ RegistersOnce
  /\ SessionLives
  /\ AskedBefore

(* The invariant holds at first.                                           *)
LEMMA IInvInit == Init => IInv
<1> SUFFICES ASSUME Init PROVE IInv  OBVIOUS
<1>1. TypeOK  BY TypeInit
<1>2. NamesAgree  BY ServerAssumption DEF Init, NamesAgree, NoId, Ids
<1>3. RequestAccounted
  BY ReplyDistinct
  DEF Init, RequestAccounted, OneEventEach, EventsOfWaiting, AnswerDue, AnswerGiven,
      SessionBehind, Open
<1>4. Numbered /\ RegistersOnce /\ SessionLives /\ AskedBefore
  BY DEF Init, Numbered, RegistersOnce, SessionLives, AskedBefore
<1> QED  BY <1>1, <1>2, <1>3, <1>4 DEF IInv

(* The three ways the directory of names changes.                          *)
LEMMA BindAgrees ==
  ASSUME NameTypeOK, NamesAgree, NEW id \in Ids, NEW name \in Names,
         id \in sessions, username_to_id[name] = NoId, id_to_username[id] = NoName,
         BindName(id, name), sessions' = sessions
  PROVE  NamesAgree'
<1>1. /\ username_to_id' = [username_to_id EXCEPT ![name] = id]
      /\ id_to_username' = [id_to_username EXCEPT ![id] = name]
      /\ username' = id_to_username'
  BY DEF BindName, NamesAgree
<1>2. \A i \in Ids, n \in Names : (username_to_id'[n] = i) <=> (id_to_username'[i] = n)
  BY <1>1, ServerAssumption DEF NamesAgree, NameTypeOK, NoId, Ids
<1>3. \A i \in Ids : id_to_username'[i] # NoName => i \in sessions'
  BY <1>1 DEF NamesAgree, NameTypeOK
<1> QED  BY <1>1, <1>2, <1>3 DEF NamesAgree

(* A rename keeps the maps of names each other's inverse.                  *)
LEMMA RebindAgrees ==
  ASSUME NameTypeOK, NamesAgree, NEW id \in Ids, NEW name \in Names,
         id \in sessions, username_to_id[name] = NoId, id_to_username[id] # NoName,
         RebindName(id, name), sessions' = sessions
  PROVE  NamesAgree'
<1> DEFINE old == id_to_username[id]
<1>1. old \in Names /\ old # name
  BY DEF NamesAgree, NameTypeOK, NoId, Ids
<1>2. /\ username_to_id' = [username_to_id EXCEPT ![old] = NoId, ![name] = id]
      /\ id_to_username' = [id_to_username EXCEPT ![id] = name]
      /\ username' = id_to_username'
  BY DEF RebindName, NamesAgree
<1>3. \A i \in Ids, n \in Names : (username_to_id'[n] = i) <=> (id_to_username'[i] = n)
  BY <1>1, <1>2 DEF NamesAgree, NameTypeOK, NoId, Ids
<1>4. \A i \in Ids : id_to_username'[i] # NoName => i \in sessions'
  BY <1>2 DEF NamesAgree, NameTypeOK
<1> QED  BY <1>2, <1>3, <1>4 DEF NamesAgree

(* Dropping a session keeps the maps of names each other's inverse.        *)
LEMMA DropAgrees ==
  ASSUME NameTypeOK, NamesAgree, NEW id \in Ids, DropSession(id)
  PROVE  NamesAgree'
<1>1. /\ username_to_id' = IF id_to_username[id] = NoName THEN username_to_id
                           ELSE [username_to_id EXCEPT ![id_to_username[id]] = NoId]
      /\ id_to_username' = [id_to_username EXCEPT ![id] = NoName]
      /\ username' = id_to_username'
      /\ sessions' = sessions \ {id}
  BY DEF DropSession, NamesAgree
<1>2. \A i \in Ids, n \in Names : (username_to_id'[n] = i) <=> (id_to_username'[i] = n)
  BY <1>1, ServerAssumption DEF NamesAgree, NameTypeOK, NoId, Ids
<1>3. \A i \in Ids : id_to_username'[i] # NoName => i \in sessions'
  BY <1>1 DEF NamesAgree, NameTypeOK
<1> QED  BY <1>1, <1>2, <1>3 DEF NamesAgree

(* What IInv says of the event at the head of the server's channel.        *)
LEMMA HeadServed ==
  ASSUME IInv, Serve
  PROVE  /\ Head(rx).id \in sessions
         /\ Head(rx).request.type = "Register" => id_to_username[Head(rx).id] = NoName
<1>1. rx \in Seq(Event) /\ rx # <<>>
  BY ServeCases DEF IInv, TypeOK, ChannelTypeOK
<1>2. Head(rx) = rx[1] /\ 1 \in DOMAIN rx  BY <1>1
<1> QED  BY <1>2 DEF IInv, SessionLives, RegistersOnce

(* The server's only steps that touch names are those of the lemmas above. *)
LEMMA NamesAgreeStep ==
  ASSUME IInv, Next
  PROVE  NamesAgree'
<1>0. NameTypeOK /\ NamesAgree  BY DEF IInv, TypeOK
<1>1. CASE Serve
  <2> DEFINE id == Head(rx).id
             r == Head(rx).request
  <2>1. /\ id \in Ids
        /\ r.type \in {"Register", "ChangeName"} => r.arg \in Names
    BY <1>1, ServeCases, HeadEvent, RequestArg DEF IInv
  <2>2. id \in sessions /\ (r.type = "Register" => id_to_username[id] = NoName)
    BY <1>1, HeadServed
  <2>3. CASE UNCHANGED <<sessions, nameVars>>
    BY <1>0, <2>3 DEF NamesAgree, nameVars
  <2>4. CASE r.type = "Register" /\ Register(id, r.arg) /\ ~UNCHANGED <<sessions, nameVars>>
    <3>1. username_to_id[r.arg] = NoId /\ BindName(id, r.arg) /\ sessions' = sessions
      BY <2>4 DEF Register
    <3> QED  BY <1>0, <2>1, <2>2, <2>4, <3>1, BindAgrees
  <2>5. CASE r.type = "ChangeName" /\ ChangeName(id, r.arg) /\ ~UNCHANGED <<sessions, nameVars>>
    <3>1. /\ username_to_id[r.arg] = NoId /\ id_to_username[id] # NoName
          /\ RebindName(id, r.arg) /\ sessions' = sessions
      BY <2>5 DEF ChangeName
    <3> QED  BY <1>0, <2>1, <2>2, <2>5, <3>1, RebindAgrees
  <2>6. CASE r.type = "DropSession" /\ DropSession(id)
    BY <1>0, <2>1, <2>6, DropAgrees
  <2> QED
    BY <1>1, ServeCases, <2>3, <2>4, <2>5, <2>6
    DEF PrivMsg, List, CreateRoom, JoinRoom, LeaveRoom, SendTo, Broadcast
<1>2. CASE Accept
  BY <1>0, <1>2 DEF Accept, NamesAgree, nameVars
<1>3. CASE UNCHANGED <<sessions, nameVars>>
  BY <1>0, <1>3 DEF NamesAgree, nameVars
<1>4. Serve \/ Accept \/ UNCHANGED <<sessions, nameVars>>
  BY DEF Next, CtrlC, JoinAll, Handshake, Receive, Read, TakeReply, Deliver, PeerCloses,
         EndOfStream, ShutdownSignal, Forward, ForwardLagged, ForwardAborted,
         EndAborted, taskFrame, forwardFrame
<1> QED  BY <1>1, <1>2, <1>3, <1>4

(* Taking the first event of the server's channel, and adding a last one.  *)
LEMMA TailFacts ==
  ASSUME NEW S, NEW s \in Seq(S), s # <<>>
  PROVE  /\ Len(s) \in Nat \ {0} /\ DOMAIN s = 1 .. Len(s)
         /\ Head(s) = s[1] /\ 1 \in DOMAIN s
         /\ DOMAIN Tail(s) = 1 .. Len(s) - 1
         /\ \A k \in 1 .. Len(s) - 1 : Tail(s)[k] = s[k + 1] /\ k + 1 \in DOMAIN s
  OBVIOUS

(* What a sequence holds after one more element.                           *)
LEMMA AppendFacts ==
  ASSUME NEW S, NEW s \in Seq(S), NEW e \in S
  PROVE  /\ Len(s) \in Nat /\ DOMAIN s = 1 .. Len(s)
         /\ DOMAIN Append(s, e) = 1 .. Len(s) + 1
         /\ \A k \in 1 .. Len(s) : Append(s, e)[k] = s[k]
         /\ Append(s, e)[Len(s) + 1] = e
  OBVIOUS

(* The process is alive whenever one of its tasks takes a step.            *)
LEMMA NextAlive == Next => server \in {"running", "closing"}
  BY ServeCases
  DEF Next, Alive, Accept, CtrlC, JoinAll, Handshake, Receive, Read, TakeReply, Deliver,
      PeerCloses, EndOfStream, ShutdownSignal, Forward, ForwardLagged, ForwardAborted,
      EndAborted

(* A request that is served is answered, unless serving it crashes.        *)
LEMMA ServedIsAnswered ==
  ASSUME IInv, Serve, Head(rx).request # DropSessionEvent, server' # "crashed"
  PROVE  /\ sessions' = sessions
         /\ \E m : m # NoReply /\ m # Dropped /\ Answer(Head(rx).id, m)
<1> DEFINE id == Head(rx).id
           r == Head(rx).request
<1>1. id \in sessions  BY HeadServed
<1>2. r.type # "DropSession"
  BY ServeCases, HeadEvent, RequestArg DEF IInv
<1>3. sessions' = sessions
  BY <1>2, ServeCases
  DEF Register, ChangeName, PrivMsg, List, CreateRoom, JoinRoom, LeaveRoom, SendTo, Broadcast
<1>4. CASE r.type = "Register" /\ Register(id, r.arg)
  BY <1>1, <1>4, ReplyDistinct DEF Register
<1>5. CASE r.type = "ChangeName" /\ ChangeName(id, r.arg)
  BY <1>1, <1>5, ReplyDistinct DEF ChangeName, Panic
<1>6. CASE r.type = "PrivMsg" /\ PrivMsg(id, r.arg)
  BY <1>1, <1>6, ReplyDistinct DEF PrivMsg, Panic
<1>7. CASE r.type = "List" /\ List(id, r.arg)
  BY <1>1, <1>7, ReplyDistinct DEF List
<1>8. CASE r.type = "Create" /\ CreateRoom(id, r.arg)
  BY <1>1, <1>8, ReplyDistinct DEF CreateRoom
<1>9. CASE r.type = "Join" /\ JoinRoom(id, r.arg)
  BY <1>1, <1>9, ReplyDistinct DEF JoinRoom
<1>10. CASE r.type = "Leave" /\ LeaveRoom(id, r.arg)
  BY <1>1, <1>10, ReplyDistinct DEF LeaveRoom
<1>11. CASE r.type = "SendTo" /\ SendTo(id, r.arg)
  BY <1>1, <1>11, ReplyDistinct DEF SendTo, Broadcast
<1> QED
  BY <1>2, <1>3, <1>4, <1>5, <1>6, <1>7, <1>8, <1>9, <1>10, <1>11, ServeCases

(* Serving an event keeps RequestAccounted.                                *)
LEMMA AccountedServe ==
  ASSUME IInv, Serve
  PROVE  RequestAccounted'
<1> SUFFICES ASSUME server' # "crashed"
             PROVE  (OneEventEach /\ EventsOfWaiting /\ AnswerDue /\ AnswerGiven /\ SessionBehind)'
  BY DEF RequestAccounted
<1> DEFINE id == Head(rx).id
           r == Head(rx).request
<1>1. /\ OneEventEach /\ EventsOfWaiting /\ AnswerDue /\ AnswerGiven /\ SessionBehind
      /\ reply \in [Ids -> Reply]
  BY ServeCases DEF IInv, RequestAccounted, TypeOK, ChannelTypeOK
<1>2. rx' = Tail(rx) /\ rx # <<>> /\ conn' = conn /\ rx \in Seq(Event)
  BY ServeCases DEF IInv, TypeOK, ChannelTypeOK
<1>3. /\ Len(rx) \in Nat \ {0} /\ DOMAIN rx = 1 .. Len(rx) /\ DOMAIN rx' = 1 .. Len(rx) - 1
      /\ rx[1] = Head(rx) /\ 1 \in DOMAIN rx
      /\ \A k \in 1 .. Len(rx) - 1 : rx'[k] = rx[k + 1] /\ k + 1 \in DOMAIN rx
  BY <1>2, TailFacts
<1>4. \A k \in DOMAIN rx' : rx'[k].id # id
  BY <1>1, <1>3 DEF OneEventEach
<1>5. \A i \in Ids : i # id => (Queued(i)' <=> Queued(i))
  <2> SUFFICES ASSUME NEW i \in Ids, i # id PROVE Queued(i)' <=> Queued(i)  OBVIOUS
  <2>1. Queued(i)' => Queued(i)  BY <1>3 DEF Queued
  <2>2. ASSUME NEW k \in DOMAIN rx, rx[k].id = i PROVE Queued(i)'
    <3>1. k # 1  BY <1>3, <2>2
    <3>2. k - 1 \in 1 .. Len(rx) - 1 /\ rx'[k - 1] = rx[k]  BY <1>3, <3>1
    <3> QED  BY <1>3, <2>2, <3>2 DEF Queued
  <2> QED  BY <2>1, <2>2 DEF Queued
<1>6. OneEventEach' /\ EventsOfWaiting'
  BY <1>1, <1>2, <1>3 DEF OneEventEach, EventsOfWaiting, IsDrop
<1>7. id \in Ids  BY <1>2, HeadEvent DEF IInv
<1>8. CASE r # DropSessionEvent
  <2>1. /\ sessions' = sessions
        /\ \E m : m # NoReply /\ m # Dropped /\ reply' = [reply EXCEPT ![id] = m]
    BY <1>8, ServedIsAnswered DEF Answer
  <2>2. conn[id] = "waiting"  BY <1>1, <1>3, <1>8 DEF EventsOfWaiting, IsDrop
  <2>3. AnswerDue' /\ AnswerGiven'
    BY <1>1, <1>2, <1>4, <1>5, <1>7, <2>1, <2>2 DEF AnswerDue, AnswerGiven, Queued
  <2> QED  BY <1>1, <1>2, <1>6, <2>1, <2>3 DEF SessionBehind
<1>9. CASE r = DropSessionEvent
  <2>1. DropSession(id)
    BY <1>2, <1>9, ServeCases, HeadEvent, RequestArg DEF IInv, DropSessionEvent
  <2>2. reply' = reply /\ sessions' = sessions \ {id}  BY <2>1 DEF DropSession
  <2>3. conn[id] = "done"  BY <1>1, <1>3, <1>9 DEF EventsOfWaiting, IsDrop
  <2>4. AnswerDue' /\ AnswerGiven'
    BY <1>1, <1>2, <1>5, <2>2, <2>3 DEF AnswerDue, AnswerGiven
  <2>5. SessionBehind'  BY <1>1, <1>2, <2>2, <2>3 DEF SessionBehind, Open
  <2> QED  BY <1>6, <2>4, <2>5
<1> QED  BY <1>8, <1>9

(* A connection task that hands the server an event becomes, for as long   *)
(* as the event is queued, waiting or done.                                *)
LEMMA AccountedAppend ==
  ASSUME IInv, server # "crashed", NEW id \in Ids,
         NEW request \in Request \cup {DropSessionEvent},
         conn[id] = "select",
         rx' = Append(rx, [id |-> id, request |-> request]),
         conn' = [conn EXCEPT ![id] = IF request = DropSessionEvent THEN "done" ELSE "waiting"],
         UNCHANGED <<reply, sessions>>
  PROVE  RequestAccounted' /\ SessionLives'
<1> DEFINE e == [id |-> id, request |-> request]
<1>1. /\ OneEventEach /\ EventsOfWaiting /\ AnswerDue /\ AnswerGiven /\ SessionBehind
      /\ SessionLives /\ rx \in Seq(Event) /\ conn \in [Ids -> ConnState]
  BY DEF IInv, RequestAccounted, TypeOK, ChannelTypeOK, TaskTypeOK
<1>2. e \in Event  BY DEF Event
<1>3. /\ Len(rx) \in Nat /\ DOMAIN rx = 1 .. Len(rx) /\ DOMAIN rx' = 1 .. Len(rx) + 1
      /\ \A k \in 1 .. Len(rx) : rx'[k] = rx[k]
      /\ rx'[Len(rx) + 1] = e
  BY <1>1, <1>2, AppendFacts
<1>4. \A k \in DOMAIN rx : rx[k].id # id
  BY <1>1 DEF EventsOfWaiting
<1>5. OneEventEach'
  BY <1>1, <1>3, <1>4 DEF OneEventEach
<1>6. EventsOfWaiting'
  <2> SUFFICES ASSUME NEW k \in DOMAIN rx'
               PROVE  conn'[rx'[k].id] = IF IsDrop(rx'[k]) THEN "done" ELSE "waiting"
    BY DEF EventsOfWaiting, IsDrop
  <2>1. CASE k = Len(rx) + 1
    BY <1>1, <1>3, <2>1 DEF IsDrop
  <2>2. CASE k # Len(rx) + 1
    <3>1. k \in DOMAIN rx /\ rx'[k] = rx[k]  BY <1>3, <2>2
    <3>2. conn'[rx[k].id] = conn[rx[k].id]  BY <1>1, <1>4, <3>1
    <3> QED  BY <1>1, <3>1, <3>2 DEF EventsOfWaiting
  <2> QED  BY <2>1, <2>2
<1>7. Queued(id)' /\ \A i \in Ids : i # id => (Queued(i)' <=> Queued(i))
  BY <1>3 DEF Queued
<1>8. AnswerDue' /\ AnswerGiven'
  BY <1>1, <1>7 DEF AnswerDue, AnswerGiven
<1>9. SessionBehind'  BY <1>1 DEF SessionBehind, Open
<1>10. id \in sessions  BY <1>1 DEF SessionBehind, Open
<1>11. SessionLives'  BY <1>1, <1>3, <1>10 DEF SessionLives
<1> QED  BY <1>5, <1>6, <1>8, <1>9, <1>11 DEF RequestAccounted

(* The other steps of a connection task: it has no event in the channel.   *)
LEMMA AccountedConn ==
  ASSUME IInv, server # "crashed", NEW id \in Ids, NEW c \in ConnState \ {"waiting"},
         ~Queued(id), conn' = [conn EXCEPT ![id] = c], c \in Open => id \in sessions',
         reply' = [reply EXCEPT ![id] = NoReply], sessions \subseteq sessions', rx' = rx
  PROVE  RequestAccounted' /\ SessionLives'
<1>1. /\ OneEventEach /\ EventsOfWaiting /\ AnswerDue /\ AnswerGiven /\ SessionBehind
      /\ SessionLives /\ conn \in [Ids -> ConnState] /\ reply \in [Ids -> Reply]
  BY DEF IInv, RequestAccounted, TypeOK, ChannelTypeOK, TaskTypeOK
<1>2. OneEventEach' /\ SessionLives'  BY <1>1 DEF OneEventEach, SessionLives
<1>3. EventsOfWaiting'  BY <1>1 DEF EventsOfWaiting, Queued, IsDrop
<1>4. \A i \in Ids : Queued(i)' <=> Queued(i)  BY DEF Queued
<1>5. AnswerDue' /\ AnswerGiven'  BY <1>1, <1>4, ReplyDistinct DEF AnswerDue, AnswerGiven
<1>6. SessionBehind'  BY <1>1 DEF SessionBehind
<1> QED  BY <1>2, <1>3, <1>5, <1>6 DEF RequestAccounted

(* RequestAccounted is preserved, action by action.                        *)
LEMMA AccountedStep ==
  ASSUME IInv, Next
  PROVE  RequestAccounted' /\ SessionLives'
<1>0. /\ server # "crashed"
      /\ OneEventEach /\ EventsOfWaiting /\ AnswerDue /\ AnswerGiven /\ SessionBehind
      /\ SessionLives /\ Numbered /\ reply \in [Ids -> Reply] /\ conn \in [Ids -> ConnState]
  BY NextAlive DEF IInv, RequestAccounted, TypeOK, ChannelTypeOK, TaskTypeOK
<1>1. CASE Serve
  <2>1. RequestAccounted'  BY <1>1, AccountedServe
  <2>2. /\ rx' = Tail(rx) /\ rx # <<>> /\ rx \in Seq(Event)
        /\ sessions' = sessions \/ sessions' = sessions \ {Head(rx).id}
    BY <1>1, ServeCases
    DEF IInv, TypeOK, ChannelTypeOK, Register, ChangeName, PrivMsg, List, CreateRoom,
        JoinRoom, LeaveRoom, SendTo, Broadcast, DropSession
  <2>3. /\ Len(rx) \in Nat \ {0} /\ DOMAIN rx = 1 .. Len(rx) /\ DOMAIN rx' = 1 .. Len(rx) - 1
        /\ rx[1] = Head(rx) /\ 1 \in DOMAIN rx
        /\ \A k \in 1 .. Len(rx) - 1 : rx'[k] = rx[k + 1] /\ k + 1 \in DOMAIN rx
    BY <2>2, TailFacts
  <2>4. \A k \in DOMAIN rx' : rx'[k].id # Head(rx).id
    BY <1>0, <2>3 DEF OneEventEach
  <2>5. SessionLives'  BY <1>0, <2>2, <2>3, <2>4 DEF SessionLives
  <2> QED  BY <2>1, <2>5
<1>2. ASSUME NEW id \in Ids, NEW request \in Request, Receive(id, request)
      PROVE  RequestAccounted' /\ SessionLives'
  <2>1. request # DropSessionEvent
    BY DEF Request, NameRequest, RoomRequest, ListRequest, DropSessionEvent
  <2> QED  BY <1>0, <1>2, <2>1, AccountedAppend DEF Receive, Read, taskFrame
<1>3. ASSUME NEW id \in Ids, EndOfStream(id)
      PROVE  RequestAccounted' /\ SessionLives'
  BY <1>0, <1>3, AccountedAppend DEF EndOfStream, Finish, taskFrame
<1>4. CASE Accept
  <2> DEFINE id == next_client_id
  <2>1. id \in Ids /\ conn[id] = "none"
    BY <1>0, <1>4 DEF Accept, Numbered, Ids
  <2>2. ~Queued(id)  BY <1>0, <2>1 DEF Queued, EventsOfWaiting
  <2>3. reply' = [reply EXCEPT ![id] = NoReply]
    BY <1>0, <1>4, <2>1 DEF Accept, AnswerDue
  <2> QED  BY <1>0, <1>4, <2>1, <2>2, <2>3, AccountedConn DEF Accept, ConnState
<1>5. ASSUME NEW id \in Ids, Handshake(id) \/ TakeReply(id) \/ ShutdownSignal(id)
      PROVE  RequestAccounted' /\ SessionLives'
  <2>1. ~Queued(id)
    BY <1>0, <1>5
    DEF Handshake, TakeReply, ShutdownSignal, Queued, EventsOfWaiting, AnswerDue
  <2>2. reply' = [reply EXCEPT ![id] = NoReply]
    BY <1>0, <1>5 DEF Handshake, TakeReply, ShutdownSignal, AnswerDue
  <2>3. id \in sessions
    BY <1>0, <1>5 DEF Handshake, TakeReply, ShutdownSignal, SessionBehind, Open
  <2>4. \E c \in ConnState \ {"waiting"} : conn' = [conn EXCEPT ![id] = c]
    BY <1>5 DEF Handshake, TakeReply, ShutdownSignal, Finish, ConnState
  <2>5. rx' = rx /\ sessions' = sessions
    BY <1>5 DEF Handshake, TakeReply, ShutdownSignal, taskFrame
  <2> QED  BY <1>0, <2>1, <2>2, <2>3, <2>4, <2>5, AccountedConn
<1>6. CASE UNCHANGED <<rx, conn, reply, sessions>>
  BY <1>0, <1>6
  DEF RequestAccounted, OneEventEach, EventsOfWaiting, AnswerDue, AnswerGiven,
      SessionBehind, SessionLives, Queued, IsDrop
<1>7. \/ Serve \/ Accept \/ UNCHANGED <<rx, conn, reply, sessions>>
      \/ \E id \in Ids :
           \/ \E request \in Request : Receive(id, request)
           \/ EndOfStream(id) \/ Handshake(id) \/ TakeReply(id) \/ ShutdownSignal(id)
  BY DEF Next, CtrlC, JoinAll, Deliver, PeerCloses, Forward, ForwardLagged,
         ForwardAborted, EndAborted, taskFrame, forwardFrame
<1> QED  BY <1>1, <1>2, <1>3, <1>4, <1>5, <1>6, <1>7

(* Numbered is preserved.                                                  *)
LEMMA NumberedStep ==
  ASSUME IInv, Next
  PROVE  Numbered'
<1>0. /\ Numbered /\ sessions \subseteq Ids /\ conn \in [Ids -> ConnState]
      /\ next_client_id \in 1 .. MaxClients + 1
  BY DEF IInv, TypeOK, TaskTypeOK
<1>1. CASE Accept
  BY <1>0, <1>1, ServerAssumption DEF Accept, Numbered, Ids
<1>2. CASE sessions' \subseteq sessions /\ UNCHANGED <<conn, next_client_id>>
  BY <1>0, <1>2 DEF Numbered
<1>3. ASSUME NEW id \in Ids, NEW c, conn[id] # "none", conn' = [conn EXCEPT ![id] = c],
             UNCHANGED <<sessions, next_client_id>>
      PROVE  Numbered'
  BY <1>0, <1>3 DEF Numbered
<1>4. CASE Serve
  BY <1>2, <1>4, ServeCases
  DEF Register, ChangeName, PrivMsg, List, CreateRoom, JoinRoom, LeaveRoom, SendTo, Broadcast,
      DropSession, loopVars
<1>5. ASSUME NEW id \in Ids,
             \/ Handshake(id) \/ TakeReply(id) \/ EndOfStream(id) \/ ShutdownSignal(id)
             \/ \E request \in Request : Receive(id, request)
      PROVE  Numbered'
  BY <1>3, <1>5
  DEF Handshake, TakeReply, EndOfStream, ShutdownSignal, Receive, Read, Finish, taskFrame
<1> QED
  BY <1>1, <1>2, <1>4, <1>5
  DEF Next, CtrlC, JoinAll, Deliver, PeerCloses, Forward, ForwardLagged,
      ForwardAborted, EndAborted, taskFrame, forwardFrame, loopVars

(* RegistersOnce is preserved.                                             *)
LEMMA RegistersOnceStep ==
  ASSUME IInv, Next
  PROVE  RegistersOnce'
<1>0. /\ RegistersOnce /\ OneEventEach /\ NameTypeOK /\ asked \subseteq Ids
      /\ rx \in Seq(Event)
  BY NextAlive DEF IInv, RequestAccounted, TypeOK, ChannelTypeOK, TaskTypeOK
<1>1. CASE Serve
  <2> DEFINE id == Head(rx).id
  <2>1. /\ id \in Ids /\ rx' = Tail(rx) /\ rx # <<>> /\ asked' = asked
    BY <1>1, ServeCases, HeadEvent DEF IInv, loopVars
  <2>2. \A i \in Ids : i # id => id_to_username'[i] = id_to_username[i]
    BY <1>0, <1>1, <2>1, ServeCases
    DEF NameTypeOK, Register, BindName, ChangeName, RebindName, PrivMsg, List, CreateRoom,
        JoinRoom, LeaveRoom, SendTo, Broadcast, DropSession, nameVars
  <2>3. /\ Len(rx) \in Nat \ {0} /\ DOMAIN rx = 1 .. Len(rx) /\ DOMAIN rx' = 1 .. Len(rx) - 1
        /\ rx[1] = Head(rx) /\ 1 \in DOMAIN rx
        /\ \A k \in 1 .. Len(rx) - 1 : rx'[k] = rx[k + 1] /\ k + 1 \in DOMAIN rx
    BY <1>0, <2>1, TailFacts
  <2>4. \A k \in DOMAIN rx' : rx'[k].id # id /\ rx'[k].id \in Ids
    <3>0. \A k \in DOMAIN rx : rx[k] \in Event  BY <1>0
    <3>1. \A k \in DOMAIN rx : rx[k].id \in Ids  BY <3>0 DEF Event
    <3>2. \A k \in DOMAIN rx' : rx[k + 1].id # rx[1].id  BY <1>0, <2>3 DEF OneEventEach
    <3> QED  BY <2>3, <3>1, <3>2
  <2>5. \A k \in DOMAIN rx' :
          rx'[k].request.type = "Register" => id_to_username'[rx'[k].id] = NoName
    BY <1>0, <2>2, <2>3, <2>4 DEF RegistersOnce
  <2>6. id \in asked \/ id_to_username'[id] = NoName
    <3>1. CASE Head(rx).request = DropSessionEvent
      <4>1. DropSession(id)
        BY <1>1, <2>1, <3>1, ServeCases, HeadEvent, RequestArg DEF IInv, DropSessionEvent
      <4> QED  BY <1>0, <2>1, <4>1 DEF DropSession, NameTypeOK
    <3>2. CASE Head(rx).request # DropSessionEvent
      BY <1>0, <2>1, <2>3, <3>2 DEF IInv, AskedBefore, IsDrop
    <3> QED  BY <3>1, <3>2
  <2> QED  BY <1>0, <2>1, <2>2, <2>5, <2>6 DEF RegistersOnce
<1>2. ASSUME NEW id \in Ids, NEW request \in Request, Receive(id, request)
      PROVE  RegistersOnce'
  <2> DEFINE e == [id |-> id, request |-> request]
  <2>1. e \in Event  BY DEF Event
  <2>2. /\ Len(rx) \in Nat /\ DOMAIN rx = 1 .. Len(rx) /\ DOMAIN rx' = 1 .. Len(rx) + 1
        /\ \A k \in 1 .. Len(rx) : rx'[k] = rx[k]
        /\ rx'[Len(rx) + 1] = e
    BY <1>0, <1>2, <2>1, AppendFacts DEF Receive, Read
  <2>3. /\ asked' = asked \cup {id} /\ id_to_username' = id_to_username
        /\ request.type = "Register" => id \notin asked
    BY <1>2 DEF Receive, Read, taskFrame, nameVars
  <2> QED  BY <1>0, <2>2, <2>3 DEF RegistersOnce
<1>3. ASSUME NEW id \in Ids, EndOfStream(id)
      PROVE  RegistersOnce'
  <2> DEFINE e == [id |-> id, request |-> DropSessionEvent]
  <2>1. e \in Event  BY DEF Event
  <2>2. /\ Len(rx) \in Nat /\ DOMAIN rx = 1 .. Len(rx) /\ DOMAIN rx' = 1 .. Len(rx) + 1
        /\ \A k \in 1 .. Len(rx) : rx'[k] = rx[k]
        /\ rx'[Len(rx) + 1] = e
    BY <1>0, <1>3, <2>1, AppendFacts DEF EndOfStream
  <2>3. asked' = asked /\ id_to_username' = id_to_username
    BY <1>3 DEF EndOfStream, taskFrame, nameVars
  <2> QED  BY <1>0, <2>2, <2>3 DEF RegistersOnce, DropSessionEvent
<1>4. CASE UNCHANGED <<rx, asked, id_to_username>>
  BY <1>0, <1>4 DEF RegistersOnce
<1>5. \/ Serve \/ UNCHANGED <<rx, asked, id_to_username>>
      \/ \E id \in Ids :
           EndOfStream(id) \/ \E request \in Request : Receive(id, request)
  BY DEF Next, Accept, CtrlC, JoinAll, Handshake, TakeReply, Deliver, PeerCloses,
         ShutdownSignal, Forward, ForwardLagged, ForwardAborted, EndAborted, taskFrame,
         forwardFrame, loopVars, nameVars
<1> QED  BY <1>1, <1>2, <1>3, <1>4, <1>5

(* A peer whose request is queued has asked.                               *)
LEMMA AskedBeforeStep ==
  ASSUME IInv, Next
  PROVE  AskedBefore'
<1>0. AskedBefore /\ rx \in Seq(Event)  BY DEF IInv, TypeOK, ChannelTypeOK
<1>1. CASE Serve
  <2>1. /\ rx' = Tail(rx) /\ rx # <<>> /\ asked' = asked
    BY <1>1, ServeCases DEF loopVars
  <2>2. \A k \in DOMAIN rx' : rx'[k] = rx[k + 1] /\ k + 1 \in DOMAIN rx
    BY <1>0, <2>1, TailFacts
  <2> QED  BY <1>0, <2>1, <2>2 DEF AskedBefore, IsDrop
<1>2. ASSUME NEW id \in Ids, NEW request \in Request \cup {DropSessionEvent},
             rx' = Append(rx, [id |-> id, request |-> request]),
             asked \subseteq asked', request # DropSessionEvent => id \in asked'
      PROVE  AskedBefore'
  <2>1. [id |-> id, request |-> request] \in Event  BY DEF Event
  <2>2. \A k \in DOMAIN rx' :
          \/ k \in DOMAIN rx /\ rx'[k] = rx[k]
          \/ rx'[k] = [id |-> id, request |-> request]
    BY <1>0, <1>2, <2>1, AppendFacts
  <2> QED  BY <1>0, <1>2, <2>2 DEF AskedBefore, IsDrop
<1>3. ASSUME NEW id \in Ids, EndOfStream(id) \/ \E request \in Request : Receive(id, request)
      PROVE  AskedBefore'
  BY <1>2, <1>3 DEF EndOfStream, Receive, Read
<1>4. CASE UNCHANGED <<rx, asked>>
  BY <1>0, <1>4 DEF AskedBefore, IsDrop
<1>5. \/ Serve \/ UNCHANGED <<rx, asked>>
      \/ \E id \in Ids :
           EndOfStream(id) \/ \E request \in Request : Receive(id, request)
  BY DEF Next, Accept, CtrlC, JoinAll, Handshake, TakeReply, Deliver, PeerCloses,
         ShutdownSignal, Forward, ForwardLagged, ForwardAborted, EndAborted, taskFrame,
         forwardFrame, loopVars
<1> QED  BY <1>1, <1>3, <1>4, <1>5

(* The invariant is preserved.                                             *)
LEMMA IInvStep == IInv /\ [Next]_vars => IInv'
<1>1. ASSUME IInv, Next PROVE IInv'
  <2>1. TypeOK'  BY <1>1, TypeStep DEF IInv
  <2>2. NamesAgree'  BY <1>1, NamesAgreeStep
  <2>3. RequestAccounted' /\ SessionLives'  BY <1>1, AccountedStep
  <2>4. Numbered'  BY <1>1, NumberedStep
  <2>5. RegistersOnce'  BY <1>1, RegistersOnceStep
  <2>6. AskedBefore'  BY <1>1, AskedBeforeStep
  <2> QED  BY <2>1, <2>2, <2>3, <2>4, <2>5, <2>6 DEF IInv
<1>2. ASSUME IInv, UNCHANGED vars PROVE IInv'
  <2>1. TypeOK'  BY <1>2, TypeStep DEF IInv
  <2> QED
    BY <1>2, <2>1
    DEF IInv, NamesAgree, RequestAccounted, OneEventEach, EventsOfWaiting, AnswerDue,
        AnswerGiven, SessionBehind, Numbered, RegistersOnce, SessionLives, AskedBefore,
        Queued, IsDrop, vars, nameVars, loopVars
<1> QED  BY <1>1, <1>2

(* The invariant holds throughout.                                         *)
LEMMA Invariant == Spec => []IInv
  BY IInvInit, IInvStep, PTL DEF Spec

(* For any number of clients and names, the two maps of names stay each    *)
(* other's inverse, agree with the sessions' own copies, and hold no name  *)
(* of a session that is gone.                                              *)
THEOREM NamesAlwaysAgree == Spec => []NamesAgree
<1>1. IInv => NamesAgree  BY DEF IInv
<1> QED  BY <1>1, Invariant, PTL

(* Every request that a connection task has read and not yet answered is   *)
(* in the server's channel or its answer is in the oneshot, exactly once,  *)
(* as long as no handler has crashed.                                      *)
THEOREM RequestsAccounted == Spec => []RequestAccounted
<1>1. IInv => RequestAccounted  BY DEF IInv
<1> QED  BY <1>1, Invariant, PTL

----------------------------------------------------------------------------
(* The server implements NameDirectory.                                    *)

past == (1 .. next_client_id - 1) \ sessions

(* The initial states are initial states of the directory.                 *)
LEMMA DirectoryInit == Init => Directory!Init
  BY DEF Init, Directory!Init

(* Every step is a step of the directory or leaves it alone.               *)
LEMMA DirectoryStep ==
  ASSUME IInv, Next
  PROVE  Directory!Next \/ UNCHANGED <<username_to_id, sessions, past>>
<1>0. /\ NameTypeOK /\ NamesAgree /\ Numbered /\ sessions \subseteq Ids
      /\ next_client_id \in 1 .. MaxClients + 1
  BY DEF IInv, TypeOK, TaskTypeOK
<1>1. CASE Serve
  <2> DEFINE id == Head(rx).id
             r == Head(rx).request
  <2>1. /\ id \in Ids /\ next_client_id' = next_client_id
        /\ r.type \in {"Register", "ChangeName"} => r.arg \in Names
    BY <1>1, ServeCases, HeadEvent, RequestArg DEF IInv, loopVars
  <2>2. id \in sessions /\ (r.type = "Register" => id_to_username[id] = NoName)
    BY <1>1, HeadServed
  <2>3. CASE UNCHANGED <<sessions, username_to_id>>
    BY <2>1, <2>3 DEF past
  <2>4. CASE r.type = "Register" /\ Register(id, r.arg) /\ ~UNCHANGED <<sessions, username_to_id>>
    <3>1. /\ username_to_id[r.arg] = NoId /\ sessions' = sessions
          /\ username_to_id' = [username_to_id EXCEPT ![r.arg] = id]
      BY <2>4 DEF Register, BindName, nameVars
    <3>2. Directory!Holds(id) = {}
      BY <1>0, <2>1, <2>2, <2>4, ServerAssumption DEF NamesAgree, Directory!Holds
    <3>3. Directory!Claim(id, r.arg)
      BY <2>1, <2>2, <3>1, <3>2 DEF Directory!Claim
    <3> QED  BY <2>1, <2>4, <3>3 DEF Directory!Next
  <2>5. CASE r.type = "ChangeName" /\ ChangeName(id, r.arg) /\ ~UNCHANGED <<sessions, username_to_id>>
    <3>1. /\ username_to_id[r.arg] = NoId /\ id_to_username[id] # NoName /\ sessions' = sessions
          /\ username_to_id' = [username_to_id EXCEPT ![id_to_username[id]] = NoId, ![r.arg] = id]
      BY <2>5 DEF ChangeName, RebindName, nameVars
    <3>2. id_to_username[id] \in Names /\ username_to_id[id_to_username[id]] = id
      BY <1>0, <2>1, <3>1 DEF NamesAgree, NameTypeOK
    <3>3. Directory!Rename(id, id_to_username[id], r.arg)
      BY <2>1, <3>1, <3>2 DEF Directory!Rename
    <3> QED  BY <2>1, <2>5, <3>2, <3>3 DEF Directory!Next
  <2>6. CASE r.type = "DropSession" /\ DropSession(id)
    <3>1. /\ sessions' = sessions \ {id}
          /\ username_to_id' = IF id_to_username[id] = NoName THEN username_to_id
                               ELSE [username_to_id EXCEPT ![id_to_username[id]] = NoId]
      BY <2>6 DEF DropSession
    <3>2. username_to_id' = [n \in Names |-> IF username_to_id[n] = id THEN NoId
                                             ELSE username_to_id[n]]
      <4>1. CASE id_to_username[id] = NoName
        <5>1. \A n \in Names : username_to_id[n] # id
          BY <1>0, <2>1, <4>1, ServerAssumption DEF NamesAgree
        <5> QED  BY <1>0, <3>1, <4>1, <5>1 DEF NameTypeOK
      <4>2. CASE id_to_username[id] # NoName
        <5> DEFINE name == id_to_username[id]
        <5>1. name \in Names  BY <1>0, <2>1, <4>2 DEF NameTypeOK
        <5>2. \A n \in Names : (username_to_id[n] = id) <=> (n = name)
          BY <1>0, <2>1 DEF NamesAgree
        <5>3. username_to_id' = [username_to_id EXCEPT ![name] = NoId]
          BY <3>1, <4>2
        <5> HIDE DEF name
        <5> QED  BY <1>0, <5>1, <5>2, <5>3 DEF NameTypeOK
      <4> QED  BY <4>1, <4>2
    <3>3. (1 .. next_client_id' - 1) \ sessions' = ((1 .. next_client_id - 1) \ sessions) \cup {id}
      BY <1>0, <2>1, <2>2, <3>1 DEF Numbered
    <3>4. Directory!Depart(id)
      BY <2>2, <3>1, <3>2, <3>3 DEF Directory!Depart
    <3> QED  BY <2>1, <3>4 DEF Directory!Next
  <2> QED
    BY <1>1, ServeCases, <2>3, <2>4, <2>5, <2>6
    DEF PrivMsg, List, CreateRoom, JoinRoom, LeaveRoom, SendTo, Broadcast, nameVars
<1>2. CASE Accept
  <2> DEFINE id == next_client_id
  <2>1. /\ id \in Ids /\ id' = id + 1 /\ sessions' = sessions \cup {id}
        /\ username_to_id' = username_to_id
    BY <1>2 DEF Accept, nameVars
  <2>2. id \notin sessions \cup ((1 .. id - 1) \ sessions)
    BY <1>0, <2>1 DEF Numbered, Ids
  <2>3. (1 .. id' - 1) \ sessions' = (1 .. id - 1) \ sessions
    BY <1>0, <2>1
  <2>4. Directory!Arrive(id)  BY <2>1, <2>2, <2>3 DEF Directory!Arrive
  <2> QED  BY <2>1, <2>4 DEF Directory!Next
<1>3. CASE UNCHANGED <<sessions, username_to_id, next_client_id>>
  BY <1>3 DEF past
<1>4. Serve \/ Accept \/ UNCHANGED <<sessions, username_to_id, next_client_id>>
  BY DEF Next, CtrlC, JoinAll, Handshake, Receive, Read, TakeReply, Deliver, PeerCloses,
         EndOfStream, ShutdownSignal, Forward, ForwardLagged, ForwardAborted,
         EndAborted, taskFrame, forwardFrame, loopVars, nameVars
<1> QED  BY <1>1, <1>2, <1>3, <1>4

(* Whatever clients, names and interleavings, the server's maps behave as  *)
(* the directory: one holder a name, one name a client, renames without a  *)
(* gap, a name that changes hands is free in between, and a client that    *)
(* leaves frees its name.                                                  *)
THEOREM ImplementsDirectory == Spec => DirectorySpec
<1>1. IInv /\ [Next]_vars => [Directory!Next]_Directory!vars
  <2>1. ASSUME IInv, Next PROVE [Directory!Next]_Directory!vars
    BY <2>1, DirectoryStep DEF Directory!vars, past
  <2>2. ASSUME UNCHANGED vars PROVE UNCHANGED Directory!vars
    BY <2>2 DEF vars, nameVars, loopVars, Directory!vars
  <2> QED  BY <2>1, <2>2
<1> QED  BY <1>1, DirectoryInit, Invariant, PTL DEF Spec, DirectorySpec, Directory!Spec
=============================================================================
