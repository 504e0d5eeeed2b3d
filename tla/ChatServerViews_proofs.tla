----------------------- MODULE ChatServerViews_proofs -----------------------
(***************************************************************************)
(* What the peers of ChatServer know: theorems about the answers they are  *)
(* given and the room messages they hear.                                  *)
(***************************************************************************)
EXTENDS ChatServer_proofs

View ==
  [name : Names \cup {NoName}, rooms : SUBSET Rooms, left : SUBSET Rooms, back : SUBSET Rooms]

(* What an answer tells.                                                   *)
LEMMA ToldFacts ==
  ASSUME NEW v \in View, NEW m
  PROVE  /\ m.type \in {"Registered", "ChangedName"} =>
              /\ Told(v, m).name = m.arg
              /\ Told(v, m).rooms = v.rooms
              /\ Told(v, m).left = v.left
              /\ Told(v, m).back = v.back
         /\ m.type = "Joined" =>
              /\ Told(v, m).name = v.name
              /\ Told(v, m).rooms = v.rooms \cup {m.arg}
              /\ Told(v, m).left = v.left
              /\ Told(v, m).back = v.back \cup ({m.arg} \cap v.left)
         /\ m.type = "LeftRoom" =>
              /\ Told(v, m).name = v.name
              /\ Told(v, m).rooms = v.rooms \ {m.arg}
              /\ Told(v, m).left = v.left \cup {m.arg}
              /\ Told(v, m).back = v.back
         /\ m.type \notin {"Registered", "ChangedName", "Joined", "LeftRoom"} =>
              Told(v, m) = v
<1>1. CASE m.type \in {"Registered", "ChangedName"}
  <2>1. Told(v, m) = [v EXCEPT !.name = m.arg]  BY <1>1 DEF Told
  <2> QED  BY <1>1, <2>1 DEF View
<1>2. CASE m.type = "Joined"
  <2>1. Told(v, m) = [v EXCEPT !.rooms = @ \cup {m.arg},
                               !.back = @ \cup ({m.arg} \cap v.left)]
    BY <1>2 DEF Told
  <2> QED  BY <1>2, <2>1 DEF View
<1>3. CASE m.type = "LeftRoom"
  <2>1. Told(v, m) = [v EXCEPT !.rooms = @ \ {m.arg}, !.left = @ \cup {m.arg}]
    BY <1>3 DEF Told
  <2> QED  BY <1>3, <2>1 DEF View
<1>4. CASE m.type \notin {"Registered", "ChangedName", "Joined", "LeftRoom"}
  <2>1. Told(v, m) = v  BY <1>4 DEF Told
  <2> QED  BY <1>4, <2>1
<1> QED  BY <1>1, <1>2, <1>3, <1>4

(* No answer, a dropped sender and a failure tell nothing.                 *)
LEMMA ToldNothing ==
  ASSUME NEW v \in View
  PROVE  /\ Told(v, NoReply) = v /\ Told(v, Dropped) = v
         /\ \A t : Told(v, Failed(t)) = v
         /\ \A t, a : t \notin {"Registered", "ChangedName", "Joined", "LeftRoom"} =>
              Told(v, Answered(t, a)) = v
<1>1. /\ NoReply.type = "none" /\ Dropped.type = "dropped"
      /\ \A t : Failed(t).type = "Failed"
      /\ \A t, a : Answered(t, a).type = t
  BY DEF NoReply, Dropped, Failed, Answered
<1> QED  BY <1>1, ToldFacts

----------------------------------------------------------------------------
(* The strengthening of ViewInSync: what the peer knows once it has read   *)
(* the answer that is on its way is what the server has.                   *)

Known(id) ==
  /\ After(id).name = id_to_username[id]
  /\ After(id).rooms = rooms[id]

(* An answer is there only while somebody waits for it.                    *)
AnswerAwaited == \A id \in Ids : conn[id] # "waiting" => reply[id] = NoReply

ViewInv ==
  /\ AnswerAwaited
  /\ \A id \in Ids : conn[id] \notin {"done", "panicked"} => Known(id)

(* The connection whose event is served waits for it, without an answer,   *)
(* or has ended; nobody else is answered.                                  *)
LEMMA ServedWaits ==
  ASSUME IInv, Serve
  PROVE  /\ Head(rx).id \in Ids
         /\ reply[Head(rx).id] = NoReply
         /\ conn[Head(rx).id] = IF IsDrop(Head(rx)) THEN "done" ELSE "waiting"
         /\ Head(rx).request.type = "DropSession" <=> IsDrop(Head(rx))
         /\ \A i \in Ids \ {Head(rx).id} : reply'[i] = reply[i]
<1> DEFINE id == Head(rx).id
           r == Head(rx).request
<1>1. /\ rx \in Seq(Event) /\ rx # <<>> /\ server = "running"
      /\ reply \in [Ids -> Reply]
  BY ServeCases DEF IInv, TypeOK, ChannelTypeOK
<1>2. Head(rx) = rx[1] /\ 1 \in DOMAIN rx  BY <1>1
<1>3. id \in Ids /\ r \in Request \cup {DropSessionEvent}
  BY <1>1, HeadEvent DEF IInv
<1>4. conn[id] = IF IsDrop(Head(rx)) THEN "done" ELSE "waiting"
  BY <1>1, <1>2 DEF IInv, RequestAccounted, EventsOfWaiting
<1>5. reply[id] = NoReply
  BY <1>1, <1>2, <1>3, <1>4 DEF IInv, RequestAccounted, AnswerDue, Queued
<1>6. r.type = "DropSession" <=> IsDrop(Head(rx))
  BY <1>3, RequestArg DEF IsDrop
<1>7. UNCHANGED reply \/ \E m : Answer(id, m)
  BY ServeCases
  DEF Register, ChangeName, PrivMsg, List, CreateRoom, JoinRoom, LeaveRoom, SendTo,
      DropSession, Panic
<1>8. \A i \in Ids \ {id} : reply'[i] = reply[i]
  BY <1>1, <1>7 DEF Answer
<1> QED  BY <1>3, <1>4, <1>5, <1>6, <1>8

(* A handler tells its peer what it did to the peer's name and rooms.      *)
LEMMA ServeTells ==
  ASSUME IInv, ViewInv, Serve, ~IsDrop(Head(rx)), NEW peer \in Ids, peer = Head(rx).id
  PROVE  Known(peer)'
<1> DEFINE id == Head(rx).id
           r == Head(rx).request
<1>1. /\ id \in Ids /\ reply[id] = NoReply /\ conn[id] = "waiting"
      /\ r.type # "DropSession"
  BY ServedWaits
<1>2. /\ view' = view /\ view[id] \in View
      /\ reply \in [Ids -> Reply] /\ rooms \in [Ids -> SUBSET Rooms]
      /\ id_to_username \in [Ids -> Names \cup {NoName}]
  BY <1>1, ServeCases
  DEF history, IInv, TypeOK, HistoryTypeOK, ChannelTypeOK, RoomTypeOK, NameTypeOK, View
<1>3. view[id].name = id_to_username[id] /\ view[id].rooms = rooms[id]
  BY <1>1, <1>2, ToldNothing DEF ViewInv, Known, After
<1>4. /\ r.type \in {"Register", "ChangeName"} => r.arg \in Names
      /\ r.type \in {"Join", "Leave"} => r.arg \in Rooms
  BY ServeCases, HeadEvent, RequestArg DEF IInv
<1>5. SUFFICES /\ Told(view[id], reply'[id]).name = id_to_username'[id]
               /\ Told(view[id], reply'[id]).rooms = rooms'[id]
  BY <1>2 DEF Known, After
<1>6. ASSUME UNCHANGED <<id_to_username, rooms>>,
             Told(view[id], reply'[id]) = view[id]
      PROVE  /\ Told(view[id], reply'[id]).name = id_to_username'[id]
             /\ Told(view[id], reply'[id]).rooms = rooms'[id]
  BY <1>3, <1>6
<1>7. ASSUME NEW m, Answer(id, m)
      PROVE  reply'[id] = m
  BY <1>1, <1>2, <1>7 DEF Answer
<1>8. CASE r.type = "Register" /\ Register(id, r.arg)
  <2>1. rooms' = rooms  BY <1>8 DEF Register, roomVars
  <2>2. CASE UNCHANGED nameVars
    <3>1. Answer(id, Failed("Register")) \/ Answer(id, Dropped)
      BY <1>8, <2>2, HeadServed, <1>1, ServedIsAnswered, <1>2, <1>4, ServerAssumption
      DEF Register, BindName, nameVars
    <3> QED  BY <1>2, <1>6, <1>7, <2>1, <2>2, <3>1, ToldNothing DEF nameVars
  <2>3. CASE ~UNCHANGED nameVars
    <3>1. BindName(id, r.arg) /\ Answer(id, Answered("Registered", r.arg))
      BY <1>8, <2>3 DEF Register
    <3>2. reply'[id].type = "Registered" /\ reply'[id].arg = r.arg
      BY <1>7, <3>1 DEF Answered
    <3>3. id_to_username'[id] = r.arg
      BY <1>1, <1>2, <3>1 DEF BindName
    <3> QED  BY <1>2, <1>3, <2>1, <3>2, <3>3, ToldFacts
  <2> QED  BY <2>2, <2>3
<1>9. CASE r.type = "ChangeName" /\ ChangeName(id, r.arg)
  <2>1. rooms' = rooms  BY <1>9 DEF ChangeName, roomVars
  <2>2. CASE RebindName(id, r.arg) /\ Answer(id, Answered("ChangedName", r.arg))
    <3>1. reply'[id].type = "ChangedName" /\ reply'[id].arg = r.arg
      BY <1>7, <2>2 DEF Answered
    <3>2. id_to_username'[id] = r.arg
      BY <1>1, <1>2, <2>2 DEF RebindName
    <3> QED  BY <1>2, <1>3, <2>1, <3>1, <3>2, ToldFacts
  <2>3. CASE /\ UNCHANGED nameVars
             /\ \/ Answer(id, Failed("ChangeName")) \/ Answer(id, Dropped)
                \/ UNCHANGED reply
    BY <1>1, <1>2, <1>6, <1>7, <2>1, <2>3, ToldNothing DEF nameVars
  <2> QED  BY <1>9, <2>2, <2>3 DEF ChangeName, Panic
<1>10. CASE r.type = "Join" /\ JoinRoom(id, r.arg)
  <2>1. id_to_username' = id_to_username  BY <1>10 DEF JoinRoom, nameVars
  <2>2. CASE Subscribe(id, r.arg) /\ Answer(id, Answered("Joined", r.arg))
    <3>1. reply'[id].type = "Joined" /\ reply'[id].arg = r.arg
      BY <1>7, <2>2 DEF Answered
    <3>2. rooms'[id] = rooms[id] \cup {r.arg}
      BY <1>1, <1>2, <2>2 DEF Subscribe
    <3> QED  BY <1>2, <1>3, <2>1, <3>1, <3>2, ToldFacts
  <2>3. CASE UNCHANGED rooms /\ (Answer(id, Failed("Join")) \/ Answer(id, Dropped))
    BY <1>2, <1>6, <1>7, <2>1, <2>3, ToldNothing
  <2> QED  BY <1>10, <2>2, <2>3 DEF JoinRoom
<1>11. CASE r.type = "Leave" /\ LeaveRoom(id, r.arg)
  <2>1. id_to_username' = id_to_username  BY <1>11 DEF LeaveRoom, nameVars
  <2>2. CASE Unsubscribe(id, r.arg) /\ Answer(id, Answered("LeftRoom", r.arg))
    <3>1. reply'[id].type = "LeftRoom" /\ reply'[id].arg = r.arg
      BY <1>7, <2>2 DEF Answered
    <3>2. rooms'[id] = rooms[id] \ {r.arg}
      BY <1>1, <1>2, <2>2 DEF Unsubscribe
    <3> QED  BY <1>2, <1>3, <2>1, <3>1, <3>2, ToldFacts
  <2>3. CASE UNCHANGED rooms /\ (Answer(id, Failed("Leave")) \/ Answer(id, Dropped))
    BY <1>2, <1>6, <1>7, <2>1, <2>3, ToldNothing
  <2> QED  BY <1>11, <2>2, <2>3 DEF LeaveRoom
<1>12. CASE /\ UNCHANGED <<id_to_username, rooms>>
            /\ UNCHANGED reply \/ \E t, a : \/ Answer(id, Failed(t)) \/ Answer(id, Dropped)
                                           \/ /\ t \notin {"Registered", "ChangedName",
                                                           "Joined", "LeftRoom"}
                                              /\ Answer(id, Answered(t, a))
  BY <1>1, <1>2, <1>6, <1>7, <1>12, ToldNothing
<1>13. CASE r.type = "PrivMsg" /\ PrivMsg(id, r.arg)
  <2>1. UNCHANGED <<id_to_username, rooms>>  BY <1>13 DEF PrivMsg, nameVars, roomVars
  <2>2. \/ UNCHANGED reply \/ Answer(id, Failed("PrivMsg"))
        \/ Answer(id, Answered("OutgoingMsg", r.arg))
    BY <1>13 DEF PrivMsg, Panic
  <2> QED  BY <1>12, <2>1, <2>2
<1>14. CASE r.type = "List" /\ List(id, r.arg)
  <2>1. UNCHANGED <<id_to_username, rooms>>  BY <1>14 DEF List, nameVars, roomVars
  <2>2. \/ Answer(id, Failed("List")) \/ Answer(id, Dropped)
        \/ Answer(id, Answered("Listing", r.arg))
    BY <1>14 DEF List
  <2> QED  BY <1>12, <2>1, <2>2
<1>15. CASE r.type = "Create" /\ CreateRoom(id, r.arg)
  <2>1. UNCHANGED <<id_to_username, rooms>>  BY <1>15 DEF CreateRoom, nameVars
  <2>2. Answer(id, Failed("Create")) \/ Answer(id, Answered("CreatedRoom", r.arg))
    BY <1>15 DEF CreateRoom
  <2> QED  BY <1>12, <2>1, <2>2
<1>16. CASE r.type = "SendTo" /\ SendTo(id, r.arg)
  <2>1. UNCHANGED <<id_to_username, rooms>>  BY <1>16 DEF SendTo, nameVars
  <2>2. \/ Answer(id, Failed("SendTo")) \/ Answer(id, Dropped)
        \/ Answer(id, Answered("MessagedRoom", r.arg))
    BY <1>16 DEF SendTo
  <2> QED  BY <1>12, <2>1, <2>2
<1> QED
  BY <1>1, ServeCases, <1>8, <1>9, <1>10, <1>11, <1>13, <1>14, <1>15, <1>16

(* ViewInv holds at first and is preserved.                                *)
LEMMA ViewInvInit == Init => ViewInv
<1> SUFFICES ASSUME Init PROVE ViewInv  OBVIOUS
<1>1. ASSUME NEW id \in Ids
      PROVE  reply[id] = NoReply /\ Known(id)
  <2>1. view[id] \in View /\ view[id].name = NoName /\ view[id].rooms = {}
    BY DEF Init, View
  <2>2. reply[id] = NoReply /\ id_to_username[id] = NoName /\ rooms[id] = {}
    BY DEF Init
  <2> QED  BY <2>1, <2>2, ToldNothing DEF Known, After
<1> QED  BY <1>1 DEF ViewInv, AnswerAwaited

(* ViewInv is preserved, action by action.                                 *)
LEMMA ViewInvStep ==
  ASSUME IInv, ViewInv, Next
  PROVE  ViewInv'
<1>0. /\ reply \in [Ids -> Reply] /\ conn \in [Ids -> ConnState]
      /\ view \in [Ids -> View]
      /\ rooms \in [Ids -> SUBSET Rooms]
      /\ id_to_username \in [Ids -> Names \cup {NoName}]
      /\ server # "crashed"
  BY NextAlive
  DEF IInv, TypeOK, ChannelTypeOK, TaskTypeOK, HistoryTypeOK, NameTypeOK, RoomTypeOK, View
<1>1. CASE Serve
  <2> DEFINE id == Head(rx).id
  <2>1. conn' = conn /\ view' = view  BY <1>1, ServeCases DEF history
  <2>2. AnswerAwaited'
    <3>1. IsDrop(Head(rx)) => reply' = reply
      BY <1>1, ServedWaits, ServeCases DEF DropSession
    <3> QED  BY <1>1, <2>1, <3>1, ServedWaits DEF ViewInv, AnswerAwaited
  <2>3. ASSUME NEW i \in Ids, i # id
        PROVE  rooms'[i] = rooms[i] /\ id_to_username'[i] = id_to_username[i]
    BY <1>0, <1>1, <2>3, ServedWaits, ServeCases
    DEF Register, BindName, ChangeName, RebindName, PrivMsg, List, CreateRoom, JoinRoom,
        Subscribe, LeaveRoom, Unsubscribe, SendTo, DropSession, nameVars, roomVars
  <2>4. ASSUME NEW i \in Ids, conn'[i] \notin {"done", "panicked"}
        PROVE  Known(i)'
    <3>1. CASE i = id
      <4>1. ~IsDrop(Head(rx))  BY <1>1, <2>1, <2>4, <3>1, ServedWaits
      <4> QED  BY <1>1, <3>1, <4>1, ServeTells
    <3>2. CASE i # id
      <4>1. reply'[i] = reply[i]  BY <1>1, <3>2, ServedWaits
      <4> QED  BY <2>1, <2>3, <2>4, <3>2, <4>1 DEF ViewInv, Known, After
    <3> QED  BY <3>1, <3>2
  <2> QED  BY <2>2, <2>4 DEF ViewInv
<1>2. ASSUME NEW id \in Ids, TakeReply(id)
      PROVE  ViewInv'
  <2>1. /\ view' = [view EXCEPT ![id] = After(id)]
        /\ reply' = [reply EXCEPT ![id] = NoReply]
        /\ conn' = [conn EXCEPT ![id] = "select"]
        /\ conn[id] = "waiting"
        /\ UNCHANGED <<rooms, id_to_username>>
    BY <1>2 DEF TakeReply, After, taskFrame, nameVars, roomVars
  <2>2. AnswerAwaited'  BY <1>0, <2>1 DEF ViewInv, AnswerAwaited
  <2>3. Known(id)  BY <2>1 DEF ViewInv
  <2>4. view'[id] = After(id) /\ view'[id] \in View /\ reply'[id] = NoReply
    <3>1. view' \in [Ids -> View]
      BY <1>2, HistoryTypeStep DEF IInv, HistoryTypeOK, View, Next
    <3> QED  BY <1>0, <2>1, <3>1
  <2>5. Told(view'[id], reply'[id]) = After(id)
    BY <2>4, ToldNothing
  <2>6. Known(id)'  BY <2>1, <2>3, <2>5 DEF Known, After
  <2>7. ASSUME NEW i \in Ids, i # id, conn'[i] \notin {"done", "panicked"}
        PROVE  Known(i)'
    <3>1. view'[i] = view[i] /\ reply'[i] = reply[i] /\ conn'[i] = conn[i]
      BY <1>0, <2>1, <2>7
    <3> QED  BY <2>1, <2>7, <3>1 DEF ViewInv, Known, After
  <2> QED  BY <2>2, <2>6, <2>7 DEF ViewInv
<1>3. ASSUME UNCHANGED <<view, reply, rooms, id_to_username>>,
             NEW id \in Ids, NEW s \in ConnState,
             conn' = [conn EXCEPT ![id] = s],
             conn[id] \notin {"waiting", "done", "panicked"}
      PROVE  ViewInv'
  BY <1>0, <1>3 DEF ViewInv, AnswerAwaited, Known, After
<1>4. ASSUME NEW id \in Ids, Handshake(id) \/ EndOfStream(id) \/ ShutdownSignal(id)
      PROVE  ViewInv'
  BY <1>3, <1>4
  DEF Handshake, EndOfStream, ShutdownSignal, Finish, taskFrame, nameVars, roomVars, history,
      ConnState
<1>5. ASSUME NEW id \in Ids, NEW request \in Request, Receive(id, request)
      PROVE  ViewInv'
  BY <1>3, <1>5 DEF Receive, Read, taskFrame, nameVars, roomVars, history, ConnState
<1>6. CASE Accept
  <2>1. next_client_id \in Ids /\ conn[next_client_id] = "none"
    BY <1>6 DEF Accept, IInv, Numbered, Ids
  <2> QED  BY <1>3, <1>6, <2>1 DEF Accept, nameVars, roomVars, history, ConnState
<1>7. CASE UNCHANGED <<view, reply, rooms, id_to_username, conn>>
  BY <1>7 DEF ViewInv, AnswerAwaited, Known, After
<1>8. \/ Serve \/ Accept \/ UNCHANGED <<view, reply, rooms, id_to_username, conn>>
      \/ \E id \in Ids :
           \/ TakeReply(id) \/ Handshake(id) \/ EndOfStream(id) \/ ShutdownSignal(id)
           \/ \E request \in Request : Receive(id, request)
  BY DEF Next, CtrlC, JoinAll, Deliver, PeerCloses, Forward, ForwardLagged, ForwardAborted,
         EndAborted, taskFrame, forwardFrame, nameVars, roomVars, history, loopVars
<1> QED  BY <1>1, <1>2, <1>4, <1>5, <1>6, <1>7, <1>8

(* ViewInv holds throughout.                                               *)
LEMMA ViewInvariant == Spec => []ViewInv
<1>1. IInv /\ ViewInv /\ [Next]_vars => ViewInv'
  <2>1. ASSUME ViewInv, UNCHANGED vars PROVE ViewInv'
    BY <2>1 DEF vars, nameVars, roomVars, history, ViewInv, AnswerAwaited, Known, After
  <2> QED  BY <2>1, ViewInvStep
<1> QED  BY <1>1, ViewInvInit, Invariant, PTL DEF Spec

(* A peer that waits for no answer knows its name and its rooms as the     *)
(* server has them: for any number of clients, names and rooms, and in     *)
(* spite of refusals, renames and rooms left and joined again.             *)
THEOREM ViewAlwaysInSync == Spec => []ViewInSync
<1>1. IInv /\ ViewInv => ViewInSync
  <2> SUFFICES ASSUME IInv, ViewInv, NEW id \in Ids, conn[id] = "select"
               PROVE  view[id].name = id_to_username[id] /\ view[id].rooms = rooms[id]
    BY DEF ViewInSync
  <2>1. reply[id] = NoReply /\ Known(id)  BY DEF ViewInv, AnswerAwaited
  <2>2. view[id] \in View  BY DEF IInv, TypeOK, HistoryTypeOK, View
  <2> QED  BY <2>1, <2>2, ToldNothing DEF Known, After
<1> QED  BY <1>1, Invariant, ViewInvariant, PTL

----------------------------------------------------------------------------
(* The strengthening of JoinedBeforeHeard: whatever a room message comes   *)
(* through on its way to the peer, the peer has been told that it joined   *)
(* the room, or will be by the answer that is on its way.                  *)

ToldRooms(id) == After(id).rooms \cup After(id).left

TasksTold ==
  \A id \in Ids, room \in Rooms : task[id][room] # NoTask => room \in ToldRooms(id)

AbortingTold == \A a \in aborting : a.room \in ToldRooms(a.id)

InboxTold ==
  \A id \in Ids : \A k \in DOMAIN inbox[id] :
    inbox[id][k].type = "RoomMessage" => inbox[id][k].room \in ToldRooms(id)

HearInv == TasksTold /\ AbortingTold /\ InboxTold /\ JoinedBeforeHeard

(* No answer makes a peer forget a room.                                   *)
LEMMA ToldGrows ==
  ASSUME NEW v \in View, NEW m
  PROVE  v.rooms \cup v.left \subseteq Told(v, m).rooms \cup Told(v, m).left
  BY ToldFacts

(* The types the proofs below need.                                        *)
LEMMA HearTypes ==
  ASSUME IInv
  PROVE  /\ reply \in [Ids -> Reply]
         /\ view \in [Ids -> View]
         /\ task \in [Ids -> [Rooms -> Nat]]
         /\ aborting \subseteq [id : Ids, room : Rooms, next : Nat]
         /\ inbox \in [Ids -> Seq(Message)]
         /\ heard \in [Ids -> [Rooms -> Seq(Nat)]]
  BY DEF IInv, TypeOK, ChannelTypeOK, RoomTypeOK, HistoryTypeOK, View

(* A step makes no peer forget a room.                                     *)
LEMMA ToldRoomsGrow ==
  ASSUME IInv, ViewInv, Next, NEW i \in Ids
  PROVE  ToldRooms(i) \subseteq ToldRooms(i)'
<1>1. view[i] \in View  BY HearTypes
<1>2. CASE view' = view /\ reply' = reply
  BY <1>2 DEF ToldRooms, After
<1>3. CASE Serve
  <2>1. view' = view  BY <1>3, ServeCases DEF history
  <2>2. CASE i # Head(rx).id
    <3>1. reply'[i] = reply[i]  BY <1>3, <2>2, ServedWaits
    <3> QED  BY <2>1, <3>1 DEF ToldRooms, After
  <2>3. CASE i = Head(rx).id
    <3>1. After(i) = view[i]
      BY <1>1, <1>3, <2>3, ServedWaits, ToldNothing DEF After
    <3>2. After(i)' = Told(view[i], reply'[i])  BY <2>1 DEF After
    <3> QED  BY <1>1, <3>1, <3>2, ToldGrows DEF ToldRooms
  <2> QED  BY <2>2, <2>3
<1>4. ASSUME NEW id \in Ids, TakeReply(id)
      PROVE  ToldRooms(i) \subseteq ToldRooms(i)'
  <2>1. /\ view' = [view EXCEPT ![id] = After(id)]
        /\ reply' = [reply EXCEPT ![id] = NoReply]
    BY <1>4 DEF TakeReply, After
  <2>2. CASE i # id
    <3>1. view'[i] = view[i] /\ reply'[i] = reply[i]  BY <2>1, <2>2, HearTypes
    <3> QED  BY <3>1 DEF ToldRooms, After
  <2>3. CASE i = id
    <3>1. view'[i] = After(i) /\ reply'[i] = NoReply  BY <2>1, <2>3, HearTypes
    <3>2. view' \in [Ids -> View]
      BY <1>4, HistoryTypeStep DEF IInv, HistoryTypeOK, View
    <3>3. Told(view'[i], reply'[i]) = After(i)  BY <3>1, <3>2, ToldNothing
    <3> QED  BY <3>3 DEF ToldRooms, After
  <2> QED  BY <2>2, <2>3
<1> QED
  BY <1>2, <1>3, <1>4
  DEF Next, Accept, CtrlC, JoinAll, Handshake, Receive, Read, Deliver, PeerCloses,
      EndOfStream, ShutdownSignal, Forward, ForwardLagged, ForwardAborted, EndAborted,
      taskFrame, forwardFrame, history

(* Changing the task of one session and room changes no other.             *)
LEMMA TaskUpdate ==
  ASSUME task \in [Ids -> [Rooms -> Nat]], NEW id, NEW rm, NEW t,
         task' = [task EXCEPT ![id][rm] = t],
         NEW i \in Ids, NEW room \in Rooms
  PROVE  task'[i][room] = IF i = id /\ room = rm THEN t ELSE task[i][room]
<1>1. CASE i # id
  <2>1. task'[i] = task[i]  BY <1>1
  <2> QED  BY <1>1, <2>1
<1>2. CASE i = id
  <2>1. task'[i] = [task[i] EXCEPT ![rm] = t]  BY <1>2
  <2>2. task[i] \in [Rooms -> Nat]  OBVIOUS
  <2> QED  BY <1>2, <2>1, <2>2
<1> QED  BY <1>1, <1>2

(* A room task starts with the answer that tells of it.                    *)
LEMMA TasksToldStep ==
  ASSUME IInv, ViewInv, HearInv, Next
  PROVE  TasksTold'
<1> SUFFICES ASSUME NEW i \in Ids, NEW room \in Rooms, task'[i][room] # NoTask
             PROVE  room \in ToldRooms(i)'
  BY DEF TasksTold
<1>1. CASE task[i][room] # NoTask
  BY <1>1, ToldRoomsGrow DEF HearInv, TasksTold
<1>2. CASE task[i][room] = NoTask
  <2>1. ASSUME NEW id \in Ids, NEW rm \in Rooms, Forward(id, rm) \/ ForwardLagged(id, rm)
        PROVE  FALSE
    <3>1. /\ task[id][rm] # NoTask
          /\ \E t : task' = [task EXCEPT ![id][rm] = t]
      BY <2>1 DEF Forward, ForwardLagged
    <3> QED  BY <1>2, <3>1, HearTypes, TaskUpdate
  <2>2. Serve
    BY <1>2, <2>1
    DEF Next, Accept, CtrlC, JoinAll, Handshake, Receive, Read, TakeReply, Deliver,
        PeerCloses, EndOfStream, ShutdownSignal, ForwardAborted, EndAborted,
        taskFrame, forwardFrame, roomVars
  <2>3. JoinRoom(Head(rx).id, Head(rx).request.arg)
    <3>1. CASE LeaveRoom(Head(rx).id, Head(rx).request.arg)
      <4> DEFINE id == Head(rx).id
                 rm == Head(rx).request.arg
      <4>1. task' = task \/ task' = [task EXCEPT ![id][rm] = NoTask]
        BY <3>1 DEF LeaveRoom, Unsubscribe
      <4>2. CASE task' = [task EXCEPT ![id][rm] = NoTask]
        <5> HIDE DEF id, rm
        <5>1. task'[i][room] = IF i = id /\ room = rm THEN NoTask ELSE task[i][room]
          BY <4>2, HearTypes, TaskUpdate
        <5> QED  BY <1>2, <5>1
      <4> QED  BY <1>2, <4>1, <4>2
    <3>2. CASE DropSession(Head(rx).id)
      BY <1>2, <3>2, HearTypes DEF DropSession
    <3> QED
      BY <1>2, <2>2, <3>1, <3>2, ServeCases
      DEF Register, ChangeName, PrivMsg, List, CreateRoom, SendTo, roomVars
  <2>4. /\ i = Head(rx).id /\ room = Head(rx).request.arg
        /\ Answer(i, Answered("Joined", room))
    <3>1. Subscribe(Head(rx).id, Head(rx).request.arg)
      BY <1>2, <2>3 DEF JoinRoom
    <3>2. i = Head(rx).id /\ room = Head(rx).request.arg
      BY <1>2, <3>1, HearTypes, TaskUpdate DEF Subscribe
    <3> QED  BY <1>2, <2>3, <3>2 DEF JoinRoom
  <2>5. reply'[i] = Answered("Joined", room) /\ view' = view
    BY <2>2, <2>4, HearTypes, ServeCases DEF Answer, history
  <2>6. Answered("Joined", room).type = "Joined" /\ Answered("Joined", room).arg = room
    BY DEF Answered
  <2>7. room \in Told(view[i], Answered("Joined", room)).rooms
    BY <2>6, HearTypes, ToldFacts
  <2> QED  BY <2>5, <2>7 DEF ToldRooms, After
<1> QED  BY <1>1, <1>2

(* A task that is being aborted was a task of its room.                    *)
LEMMA AbortingToldStep ==
  ASSUME IInv, ViewInv, HearInv, Next
  PROVE  AbortingTold'
<1> SUFFICES ASSUME NEW a \in aborting'
             PROVE  a.room \in ToldRooms(a.id)'
  BY DEF AbortingTold
<1>1. ASSUME NEW b \in aborting, a.id = b.id, a.room = b.room
      PROVE  a.room \in ToldRooms(a.id)'
  <2>1. b.id \in Ids  BY HearTypes
  <2> QED  BY <1>1, <2>1, ToldRoomsGrow DEF HearInv, AbortingTold
<1>2. ASSUME NEW b \in aborting, ForwardAborted(b)
      PROVE  a.room \in ToldRooms(a.id)'
  <2>1. a \in aborting \/ a = [b EXCEPT !.next = @ + 1]  BY <1>2 DEF ForwardAborted
  <2>2. b \in [id : Ids, room : Rooms, next : Nat]  BY HearTypes
  <2>3. a = [b EXCEPT !.next = @ + 1] => a.id = b.id /\ a.room = b.room  BY <2>2
  <2> QED  BY <1>1, <2>1, <2>3
<1>3. CASE Serve
  <2>1. CASE a \in aborting  BY <1>1, <2>1
  <2>2. CASE a \notin aborting
    <3> DEFINE id == Head(rx).id
               room == Head(rx).request.arg
    <3>1. LeaveRoom(id, room) /\ Unsubscribe(id, room)
      BY <1>3, <2>2, ServeCases
      DEF Register, ChangeName, PrivMsg, List, CreateRoom, JoinRoom, LeaveRoom, SendTo,
          DropSession, roomVars
    <3>2. /\ task[id][room] # NoTask
          /\ a = [id |-> id, room |-> room, next |-> task[id][room]]
      BY <2>2, <3>1 DEF Unsubscribe
    <3>3. id \in Ids /\ room \in Rooms
      <4>1. Head(rx).request.type = "Leave"
        BY <1>3, <2>2, ServeCases
        DEF Register, ChangeName, PrivMsg, List, CreateRoom, JoinRoom, SendTo,
            DropSession, roomVars
      <4> QED  BY <1>3, <4>1, ServeCases, HeadEvent, RequestArg DEF IInv
    <3>4. room \in ToldRooms(id)  BY <3>2, <3>3 DEF HearInv, TasksTold
    <3> QED  BY <3>2, <3>3, <3>4, ToldRoomsGrow
  <2> QED  BY <2>1, <2>2
<1>4. CASE aborting' \subseteq aborting  BY <1>1, <1>4
<1> QED
  BY <1>2, <1>3, <1>4
  DEF Next, Accept, CtrlC, JoinAll, Handshake, Receive, Read, TakeReply, Deliver, PeerCloses,
      EndOfStream, ShutdownSignal, Forward, ForwardLagged, EndAborted,
      taskFrame, forwardFrame, roomVars

(* What a push leaves in the channels.                                     *)
LEMMA PushTold ==
  ASSUME IInv, HearInv, NEW id \in Ids, NEW m \in Message, Push(id, m),
         \A i \in Ids : ToldRooms(i) \subseteq ToldRooms(i)',
         m.type = "RoomMessage" => m.room \in ToldRooms(id)
  PROVE  InboxTold'
<1> SUFFICES ASSUME NEW i \in Ids, NEW k \in DOMAIN inbox'[i],
                    inbox'[i][k].type = "RoomMessage"
             PROVE  inbox'[i][k].room \in ToldRooms(i)
  BY DEF InboxTold
<1>1. CASE inbox'[i] = inbox[i]  BY <1>1 DEF HearInv, InboxTold
<1>2. CASE i = id /\ inbox'[i] = Append(inbox[i], m)
  <2>1. inbox[i] \in Seq(Message)  BY HearTypes
  <2>2. \/ k \in DOMAIN inbox[i] /\ inbox'[i][k] = inbox[i][k]
        \/ inbox'[i][k] = m
    BY <1>2, <2>1
  <2> QED  BY <1>2, <2>2 DEF HearInv, InboxTold
<1> QED  BY <1>1, <1>2, HearTypes DEF Push

(* InboxTold is preserved: what is pushed comes from a task of the room.   *)
LEMMA InboxToldStep ==
  ASSUME IInv, ViewInv, HearInv, Next
  PROVE  InboxTold'
<1>0. \A i \in Ids : ToldRooms(i) \subseteq ToldRooms(i)'  BY ToldRoomsGrow
<1>1. CASE inbox' = inbox  BY <1>0, <1>1 DEF HearInv, InboxTold
<1>2. ASSUME NEW id \in Ids, inbox' = [inbox EXCEPT ![id] = <<>>]
      PROVE  InboxTold'
  <2>1. \A i \in Ids : inbox'[i] = inbox[i] \/ inbox'[i] = <<>>  BY <1>2, HearTypes
  <2> QED  BY <1>0, <2>1 DEF HearInv, InboxTold
<1>3. ASSUME NEW id \in Ids, Deliver(id)
      PROVE  InboxTold'
  <2>1. inbox[id] \in Seq(Message) /\ inbox[id] # <<>>  BY <1>3, HearTypes DEF Deliver
  <2>2. inbox'[id] = Tail(inbox[id]) /\ \A i \in Ids \ {id} : inbox'[i] = inbox[i]
    BY <1>3, HearTypes DEF Deliver
  <2>3. \A k \in DOMAIN Tail(inbox[id]) :
          k + 1 \in DOMAIN inbox[id] /\ Tail(inbox[id])[k] = inbox[id][k + 1]
    BY <2>1
  <2>4. ASSUME NEW i \in Ids, NEW k \in DOMAIN inbox'[i],
               inbox'[i][k].type = "RoomMessage"
        PROVE  inbox'[i][k].room \in ToldRooms(i)
    <3>1. \E j \in DOMAIN inbox[i] : inbox'[i][k] = inbox[i][j]
      BY <2>2, <2>3, <2>4
    <3> QED  BY <2>4, <3>1 DEF HearInv, InboxTold
  <2> QED  BY <1>0, <2>4 DEF InboxTold
<1>4. ASSUME NEW id \in Ids, NEW room \in Rooms, Forward(id, room)
      PROVE  InboxTold'
  <2>1. /\ Push(id, RoomMessage(room, task[id][room]))
        /\ room \in ToldRooms(id)
    BY <1>4 DEF Forward, HearInv, TasksTold
  <2>2. RoomMessage(room, task[id][room]) \in Message
    BY HearTypes, MessageTypes
  <2>3. RoomMessage(room, task[id][room]).room = room  BY DEF RoomMessage
  <2> QED  BY <1>0, <2>1, <2>2, <2>3, PushTold
<1>5. ASSUME NEW a \in aborting, ForwardAborted(a)
      PROVE  InboxTold'
  <2>1. a.id \in Ids /\ a.room \in Rooms /\ a.next \in Nat  BY HearTypes
  <2>2. /\ Push(a.id, RoomMessage(a.room, a.next))
        /\ a.room \in ToldRooms(a.id)
    BY <1>5 DEF ForwardAborted, HearInv, AbortingTold
  <2>3. RoomMessage(a.room, a.next) \in Message  BY <2>1, MessageTypes
  <2>4. RoomMessage(a.room, a.next).room = a.room  BY DEF RoomMessage
  <2> QED  BY <1>0, <2>1, <2>2, <2>3, <2>4, PushTold
<1>6. CASE Serve
  <2>1. CASE inbox' # inbox
    <3> DEFINE id == Head(rx).id
               name == Head(rx).request.arg
    <3>1. Head(rx).request.type = "PrivMsg" /\ PrivMsg(id, name)
      BY <1>6, <2>1, ServeCases
      DEF Register, ChangeName, List, CreateRoom, JoinRoom, LeaveRoom, SendTo, DropSession
    <3>2. /\ username_to_id[name] # NoId /\ id_to_username[id] # NoName
          /\ Push(username_to_id[name], IncomingMsg(id_to_username[id]))
      BY <2>1, <3>1 DEF PrivMsg
    <3>3. id \in Ids /\ name \in Names
      BY <1>6, <3>1, ServeCases, HeadEvent, RequestArg DEF IInv
    <3>4. username_to_id[name] \in Ids /\ id_to_username[id] \in Names
      BY <3>2, <3>3 DEF IInv, TypeOK, NameTypeOK
    <3>5. IncomingMsg(id_to_username[id]) \in Message  BY <3>4, MessageTypes
    <3>6. IncomingMsg(id_to_username[id]).type # "RoomMessage"  BY DEF IncomingMsg
    <3> QED  BY <1>0, <3>2, <3>4, <3>5, <3>6, PushTold
  <2> QED  BY <1>1, <2>1
<1> QED
  BY <1>1, <1>2, <1>3, <1>4, <1>5, <1>6
  DEF Next, Accept, CtrlC, JoinAll, Handshake, Receive, Read, TakeReply, PeerCloses,
      EndOfStream, ShutdownSignal, Finish, ForwardLagged, EndAborted

(* A message is written when no answer is outstanding.                     *)
LEMMA HeardStep ==
  ASSUME IInv, ViewInv, HearInv, Next
  PROVE  JoinedBeforeHeard'
<1> SUFFICES ASSUME NEW i \in Ids, NEW room \in Rooms, heard'[i][room] # <<>>
             PROVE  room \in view'[i].rooms \cup view'[i].left
  BY DEF JoinedBeforeHeard
<1>1. view[i] \in View  BY HearTypes
<1>2. view[i].rooms \cup view[i].left \subseteq view'[i].rooms \cup view'[i].left
  <2>1. ASSUME NEW id \in Ids, TakeReply(id)
        PROVE  view'[i] = Told(view[i], reply[i]) \/ view'[i] = view[i]
    BY <2>1, HearTypes DEF TakeReply
  <2>2. view' = view \/ \E id \in Ids : TakeReply(id)
    BY ServeCases
    DEF Next, Accept, CtrlC, JoinAll, Handshake, Receive, Read, Deliver, PeerCloses,
        EndOfStream, ShutdownSignal, Forward, ForwardLagged, ForwardAborted, EndAborted,
        forwardFrame, history
  <2> QED  BY <1>1, <2>1, <2>2, ToldGrows
<1>3. CASE heard[i][room] # <<>>
  BY <1>2, <1>3 DEF HearInv, JoinedBeforeHeard
<1>4. ASSUME NEW id \in Ids, Deliver(id), heard[i][room] = <<>>
      PROVE  room \in view'[i].rooms \cup view'[i].left
  <2> DEFINE msg == Head(inbox[id])
  <2>1. inbox[id] \in Seq(Message) /\ inbox[id] # <<>>  BY <1>4, HearTypes DEF Deliver
  <2>2. msg = inbox[id][1] /\ 1 \in DOMAIN inbox[id]  BY <2>1
  <2>3. i = id /\ msg.type = "RoomMessage" /\ msg.room = room
    BY <1>4, HearTypes DEF Deliver
  <2>4. room \in ToldRooms(id)  BY <2>2, <2>3 DEF HearInv, InboxTold
  <2>5. After(id) = view[id]
    <3>1. reply[id] = NoReply  BY <1>4 DEF Deliver, ViewInv, AnswerAwaited
    <3> QED  BY <1>1, <2>3, <3>1, ToldNothing DEF After
  <2> QED  BY <1>2, <2>3, <2>4, <2>5 DEF ToldRooms
<1>5. heard' = heard \/ \E id \in Ids : Deliver(id)
  BY ServeCases
  DEF Next, Accept, CtrlC, JoinAll, Handshake, Receive, Read, TakeReply, PeerCloses,
      EndOfStream, ShutdownSignal, Forward, ForwardLagged, ForwardAborted, EndAborted,
      forwardFrame, history
<1> QED  BY <1>3, <1>4, <1>5

(* HearInv holds at first.                                                 *)
LEMMA HearInvInit == Init => HearInv
<1> SUFFICES ASSUME Init PROVE HearInv  OBVIOUS
<1>1. TasksTold /\ AbortingTold  BY DEF Init, TasksTold, AbortingTold
<1>2. InboxTold  BY DEF Init, InboxTold
<1>3. JoinedBeforeHeard  BY DEF Init, JoinedBeforeHeard
<1> QED  BY <1>1, <1>2, <1>3 DEF HearInv

(* HearInv holds throughout.                                               *)
LEMMA HearInvariant == Spec => []HearInv
<1>1. IInv /\ ViewInv /\ HearInv /\ [Next]_vars => HearInv'
  <2>1. ASSUME HearInv, UNCHANGED vars PROVE HearInv'
    BY <2>1
    DEF vars, roomVars, history, HearInv, TasksTold, AbortingTold, InboxTold,
        JoinedBeforeHeard, ToldRooms, After
  <2>2. ASSUME IInv, ViewInv, HearInv, Next PROVE HearInv'
    BY <2>2, TasksToldStep, AbortingToldStep, InboxToldStep, HeardStep DEF HearInv
  <2> QED  BY <2>1, <2>2
<1> QED  BY <1>1, HearInvInit, Invariant, ViewInvariant, PTL DEF Spec

(* No peer hears from a room before it was told that it joined it: for any *)
(* number of clients and rooms, however the room task, the server's loop   *)
(* and the connection task take turns.                                     *)
THEOREM JoinedAlwaysBeforeHeard == Spec => []JoinedBeforeHeard
<1>1. HearInv => JoinedBeforeHeard  BY DEF HearInv
<1> QED  BY <1>1, HearInvariant, PTL
=============================================================================
