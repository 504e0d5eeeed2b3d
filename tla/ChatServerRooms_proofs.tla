----------------------- MODULE ChatServerRooms_proofs -----------------------
(***************************************************************************)
(* In which order the peers of ChatServer hear a room: RoomInOrder, from   *)
(* what ChatServerViews_proofs proves of what they are told.               *)
(***************************************************************************)
EXTENDS ChatServerViews_proofs

----------------------------------------------------------------------------
(* The numbers on their way to a peer.                                     *)

(* All of the room's numbers that were heard or are in the channel.        *)
Reached(id, room) == Ahead(id, room, Len(inbox[id]) + 1)

(* The places of a session's channel.                                      *)
LEMMA InboxLength ==
  ASSUME IInv, NEW id \in Ids
  PROVE  \E N \in Nat : N = Len(inbox[id]) /\ DOMAIN inbox[id] = 1 .. N
<1>1. inbox[id] \in Seq(Message)  BY HearTypes
<1>2. Len(inbox[id]) \in Nat /\ DOMAIN inbox[id] = 1 .. Len(inbox[id])  BY <1>1
<1> QED  BY <1>2

(* After a number that follows comes its successor.                        *)
LEMMA FollowsNext ==
  ASSUME NEW n \in Nat, NEW S \in SUBSET Nat, Follows(n, S)
  PROVE  Follows(n + 1, S \cup {n})
<1>1. \A e \in S : e < n  BY DEF Follows
<1>2. ASSUME NEW e \in S \cup {n} PROVE e < n + 1
  <2>1. CASE e \in S  BY <1>1, <2>1
  <2> QED  BY <2>1
<1> QED  BY <1>2 DEF Follows

(* Places with the same messages before them have the same numbers ahead.  *)
LEMMA AheadEqual ==
  ASSUME NEW id, NEW room, NEW k, NEW l, heard'[id][room] = heard[id][room],
         \A j : (j \in 1 .. k - 1 /\ IsRoomMessage(id, room, j)')
                  <=> (j \in 1 .. l - 1 /\ IsRoomMessage(id, room, j)),
         \A j \in 1 .. l - 1 : inbox'[id][j] = inbox[id][j]
  PROVE  Ahead(id, room, k)' = Ahead(id, room, l)
<1> DEFINE before == {j \in 1 .. k - 1 : IsRoomMessage(id, room, j)'}
           now == {j \in 1 .. l - 1 : IsRoomMessage(id, room, j)}
<1>1. before = now  OBVIOUS
<1>2. {inbox'[id][j].num : j \in before} = {inbox[id][j].num : j \in now}  BY <1>1
<1>3. {heard'[id][room][i] : i \in DOMAIN heard'[id][room]}
        = {heard[id][room][i] : i \in DOMAIN heard[id][room]}
  OBVIOUS
<1> QED  BY <1>2, <1>3 DEF Ahead

(* What neither the room task nor the connection task touches stays.       *)
LEMMA AheadSame ==
  ASSUME NEW id, NEW room, inbox'[id] = inbox[id], heard'[id][room] = heard[id][room]
  PROVE  /\ InOrder(id, room)' <=> InOrder(id, room)
         /\ Reached(id, room)' = Reached(id, room)
  BY DEF InOrder, Reached, Ahead, Heard, IsRoomMessage

(* A message of no interest at the end of the channel.                     *)
LEMMA AheadOther ==
  ASSUME IInv, NEW id \in Ids, NEW room \in Rooms, NEW m \in Message,
         inbox'[id] = Append(inbox[id], m), heard'[id][room] = heard[id][room],
         ~(m.type = "RoomMessage" /\ m.room = room)
  PROVE  /\ InOrder(id, room) => InOrder(id, room)'
         /\ Reached(id, room)' = Reached(id, room)
<1>0. PICK N \in Nat : N = Len(inbox[id])  BY InboxLength
<1>1. inbox[id] \in Seq(Message)  BY HearTypes
<1>2. /\ Len(inbox'[id]) = N + 1 /\ DOMAIN inbox'[id] = 1 .. N + 1
      /\ \A j \in 1 .. N : inbox'[id][j] = inbox[id][j]
      /\ inbox'[id][N + 1] = m
      /\ DOMAIN inbox[id] = 1 .. N
  BY <1>0, <1>1
<1>3. /\ \A j \in 1 .. N : IsRoomMessage(id, room, j)' <=> IsRoomMessage(id, room, j)
      /\ ~IsRoomMessage(id, room, N + 1)'
  BY <1>2 DEF IsRoomMessage
<1>4. ASSUME NEW k \in 1 .. N + 2
      PROVE  Ahead(id, room, k)' = Ahead(id, room, IF k = N + 2 THEN N + 1 ELSE k)
  <2> DEFINE l == IF k = N + 2 THEN N + 1 ELSE k
  <2>1. ASSUME NEW j
        PROVE  (j \in 1 .. k - 1 /\ IsRoomMessage(id, room, j)')
                 <=> (j \in 1 .. l - 1 /\ IsRoomMessage(id, room, j))
    BY <1>1, <1>3
  <2>2. \A j \in 1 .. l - 1 : inbox'[id][j] = inbox[id][j]  BY <1>1, <1>2
  <2> HIDE DEF l
  <2>3. Ahead(id, room, k)' = Ahead(id, room, l)  BY <2>1, <2>2, AheadEqual
  <2> QED  BY <2>3 DEF l
<1>5. Reached(id, room)' = Reached(id, room)
  <2>1. Len(inbox'[id]) + 1 = N + 2  BY <1>2
  <2> QED  BY <1>0, <1>4, <2>1 DEF Reached
<1>6. ASSUME InOrder(id, room) PROVE InOrder(id, room)'
  <2>1. ASSUME NEW k \in DOMAIN inbox'[id], IsRoomMessage(id, room, k)'
        PROVE  Follows(inbox'[id][k].num, Ahead(id, room, k)')
    <3>1. k \in 1 .. N  BY <1>1, <1>2, <1>3, <2>1
    <3>2. Ahead(id, room, k)' = Ahead(id, room, k)  BY <1>1, <1>4, <3>1
    <3> QED  BY <1>2, <1>3, <1>6, <2>1, <3>1, <3>2 DEF InOrder
  <2> QED  BY <1>6, <2>1 DEF InOrder, Heard, Follows
<1> QED  BY <1>5, <1>6

(* The next message of the room at the end of the channel.                 *)
LEMMA AheadNext ==
  ASSUME IInv, NEW id \in Ids, NEW room \in Rooms, NEW n \in Nat,
         inbox'[id] = Append(inbox[id], RoomMessage(room, n)),
         heard'[id][room] = heard[id][room],
         InOrder(id, room), Follows(n, Reached(id, room))
  PROVE  /\ InOrder(id, room)'
         /\ Reached(id, room)' = Reached(id, room) \cup {n}
<1> DEFINE m == RoomMessage(room, n)
<1>0. PICK N \in Nat : N = Len(inbox[id])  BY InboxLength
<1>1. inbox[id] \in Seq(Message) /\ m \in Message
  BY HearTypes, MessageTypes
<1>2. /\ Len(inbox'[id]) = N + 1 /\ DOMAIN inbox'[id] = 1 .. N + 1
      /\ \A j \in 1 .. N : inbox'[id][j] = inbox[id][j]
      /\ inbox'[id][N + 1] = m
      /\ DOMAIN inbox[id] = 1 .. N
  BY <1>0, <1>1
<1>3. m.type = "RoomMessage" /\ m.room = room /\ m.num = n  BY DEF RoomMessage
<1>4. /\ \A j \in 1 .. N : IsRoomMessage(id, room, j)' <=> IsRoomMessage(id, room, j)
      /\ IsRoomMessage(id, room, N + 1)'
  BY <1>2, <1>3 DEF IsRoomMessage
<1> HIDE DEF m
<1>5. ASSUME NEW k \in 1 .. N + 1
      PROVE  Ahead(id, room, k)' = Ahead(id, room, k)
  <2>1. \A j \in 1 .. k - 1 : j \in 1 .. N  OBVIOUS
  <2>2. \A j : (j \in 1 .. k - 1 /\ IsRoomMessage(id, room, j)')
                 <=> (j \in 1 .. k - 1 /\ IsRoomMessage(id, room, j))
    BY <1>4, <2>1
  <2>3. \A j \in 1 .. k - 1 : inbox'[id][j] = inbox[id][j]  BY <1>2, <2>1
  <2> QED  BY <2>2, <2>3, AheadEqual
<1>6. Reached(id, room)' = Reached(id, room) \cup {n}
  <2>1. Reached(id, room) = Ahead(id, room, N + 1)  BY <1>0 DEF Reached
  <2>2. PICK k, p : k = N + 2 /\ p = N + 1  OBVIOUS
  <2>3. Reached(id, room)' = Ahead(id, room, k)'
    <3>1. Len(inbox'[id]) + 1 = k  BY <1>1, <1>2, <2>2
    <3> QED  BY <3>1 DEF Reached, Ahead, IsRoomMessage
  <2>4. \A j : (j \in 1 .. k - 1 /\ IsRoomMessage(id, room, j)')
                 <=> (j = p \/ (j \in 1 .. p - 1 /\ IsRoomMessage(id, room, j)))
    <3>1. \A j : j \in 1 .. k - 1 <=> (j \in 1 .. N \/ j = p)  BY <2>2
    <3>2. p - 1 = N  BY <2>2
    <3> QED  BY <1>4, <2>2, <3>1, <3>2
  <2>5. \A j \in 1 .. p - 1 : inbox'[id][j] = inbox[id][j]
    <3>1. p - 1 = N  BY <2>2
    <3> QED  BY <1>2, <3>1
  <2>6. Ahead(id, room, k)' = Ahead(id, room, p) \cup {inbox'[id][p].num}
    <3> DEFINE before == {j \in 1 .. k - 1 : IsRoomMessage(id, room, j)'}
               now == {j \in 1 .. p - 1 : IsRoomMessage(id, room, j)}
    <3>1. before = now \cup {p}  BY <2>4
    <3>2. {inbox'[id][j].num : j \in before}
            = {inbox[id][j].num : j \in now} \cup {inbox'[id][p].num}
      <4>1. \A j \in now : inbox'[id][j] = inbox[id][j]  BY <2>5
      <4> QED  BY <3>1, <4>1
    <3>3. {heard'[id][room][i] : i \in DOMAIN heard'[id][room]}
            = {heard[id][room][i] : i \in DOMAIN heard[id][room]}
      OBVIOUS
    <3> QED  BY <3>2, <3>3 DEF Ahead
  <2> QED  BY <1>2, <1>3, <2>1, <2>2, <2>3, <2>6
<1>7. InOrder(id, room)'
  <2>1. ASSUME NEW k \in DOMAIN inbox'[id], IsRoomMessage(id, room, k)'
        PROVE  Follows(inbox'[id][k].num, Ahead(id, room, k)')
    <3>1. Ahead(id, room, k)' = Ahead(id, room, k)  BY <1>2, <1>5, <2>1
    <3>2. CASE k \in 1 .. N
      BY <1>2, <1>4, <2>1, <3>1, <3>2 DEF InOrder
    <3>3. CASE k = N + 1
      BY <1>0, <1>2, <1>3, <3>1, <3>3 DEF Reached
    <3> QED  BY <1>1, <1>2, <2>1, <3>2, <3>3
  <2> QED  BY <2>1 DEF InOrder, Heard, Follows
<1> QED  BY <1>6, <1>7

(* Writing the first message of the channel to the socket.                 *)
LEMMA AheadDeliver ==
  ASSUME IInv, NEW id \in Ids, NEW room \in Rooms,
         inbox[id] # <<>>, inbox'[id] = Tail(inbox[id]),
         heard'[id][room] = IF IsRoomMessage(id, room, 1)
                            THEN Append(heard[id][room], inbox[id][1].num)
                            ELSE heard[id][room],
         InOrder(id, room)
  PROVE  /\ InOrder(id, room)'
         /\ Reached(id, room)' = Reached(id, room)
<1>0. PICK N \in Nat : N = Len(inbox[id])  BY InboxLength
<1>1. inbox[id] \in Seq(Message) /\ heard[id][room] \in Seq(Nat)  BY HearTypes
<1>2. /\ N >= 1 /\ DOMAIN inbox[id] = 1 .. N
      /\ Len(inbox'[id]) = N - 1 /\ DOMAIN inbox'[id] = 1 .. N - 1
      /\ \A j \in 1 .. N - 1 : inbox'[id][j] = inbox[id][j + 1]
  BY <1>0, <1>1
<1>3. \A j \in 1 .. N - 1 : IsRoomMessage(id, room, j)' <=> IsRoomMessage(id, room, j + 1)
  BY <1>2 DEF IsRoomMessage
<1>4. PICK L \in Nat : DOMAIN heard[id][room] = 1 .. L /\ L = Len(heard[id][room])
  BY <1>1
<1>5. IsRoomMessage(id, room, 1) =>
        /\ inbox[id][1].num \in Nat
        /\ DOMAIN heard'[id][room] = 1 .. L + 1
        /\ \A i \in 1 .. L : heard'[id][room][i] = heard[id][room][i]
        /\ heard'[id][room][L + 1] = inbox[id][1].num
  <2>1. SUFFICES ASSUME IsRoomMessage(id, room, 1)
                 PROVE  inbox[id][1].num \in Nat
    BY <1>1, <1>4
  <2>2. inbox[id][1] \in Message  BY <1>1, <1>2
  <2> QED  BY <2>1, <2>2, MessageTypes DEF IsRoomMessage
<1> DEFINE already == {heard[id][room][i] : i \in DOMAIN heard[id][room]}
           then == {heard'[id][room][i] : i \in DOMAIN heard'[id][room]}
<1>6. then = already \cup (IF IsRoomMessage(id, room, 1) THEN {inbox[id][1].num} ELSE {})
  BY <1>4, <1>5
<1>7. ASSUME NEW k \in 1 .. N
      PROVE  Ahead(id, room, k)' = Ahead(id, room, k + 1)
  <2> DEFINE before == {inbox'[id][j].num :
                          j \in {j \in 1 .. k - 1 : IsRoomMessage(id, room, j)'}}
             now == {inbox[id][j].num :
                       j \in {j \in 1 .. (k + 1) - 1 : IsRoomMessage(id, room, j)}}
             first == IF IsRoomMessage(id, room, 1) THEN {inbox[id][1].num} ELSE {}
  <2>1. first \subseteq now  BY <1>2
  <2>2. before \subseteq now
    <3>1. \A j \in 1 .. k - 1 : j \in 1 .. N - 1 /\ j + 1 \in 1 .. (k + 1) - 1  BY <1>2
    <3> QED  BY <1>2, <1>3, <3>1
  <2>3. now \subseteq before \cup first
    <3>1. ASSUME NEW j \in 1 .. (k + 1) - 1, IsRoomMessage(id, room, j)
          PROVE  inbox[id][j].num \in before \cup first
      <4>1. CASE j = 1  BY <3>1, <4>1
      <4>2. CASE j # 1
        <5>1. PICK p \in 1 .. k - 1 : j = p + 1 /\ p \in 1 .. N - 1
          <6>1. j - 1 \in 1 .. k - 1 /\ j - 1 \in 1 .. N - 1 /\ j = (j - 1) + 1
            BY <1>2, <4>2
          <6> QED  BY <6>1
        <5>2. IsRoomMessage(id, room, p)' /\ inbox'[id][p] = inbox[id][j]
          BY <1>2, <1>3, <3>1, <5>1
        <5> QED  BY <5>1, <5>2
      <4> QED  BY <4>1, <4>2
    <3> QED  BY <3>1
  <2>4. then \cup before = already \cup now
    <3> HIDE DEF then, before, already, now
    <3>1. then = already \cup first  BY <1>6
    <3> HIDE DEF first
    <3> QED  BY <2>1, <2>2, <2>3, <3>1
  <2> QED  BY <2>4 DEF Ahead
<1> HIDE DEF then, already
<1>8. Reached(id, room)' = Reached(id, room)
  <2>1. Ahead(id, room, N)' = Ahead(id, room, N + 1)  BY <1>2, <1>7
  <2>2. Reached(id, room)' = Ahead(id, room, N)'
    <3>1. Len(inbox'[id]) + 1 = N  BY <1>2
    <3> QED  BY <3>1 DEF Reached, Ahead, IsRoomMessage
  <2> QED  BY <1>0, <2>1, <2>2 DEF Reached
<1>9. ASSUME NEW k \in DOMAIN inbox'[id], IsRoomMessage(id, room, k)'
      PROVE  Follows(inbox'[id][k].num, Ahead(id, room, k)')
  <2>1. k \in 1 .. N - 1 /\ k \in 1 .. N /\ k + 1 \in DOMAIN inbox[id]  BY <1>2, <1>9
  <2>2. Ahead(id, room, k)' = Ahead(id, room, k + 1)  BY <1>7, <2>1
  <2>3. IsRoomMessage(id, room, k + 1) /\ inbox'[id][k] = inbox[id][k + 1]
    BY <1>2, <1>3, <1>9, <2>1
  <2> QED  BY <2>1, <2>2, <2>3 DEF InOrder
<1>10. ASSUME NEW i \in DOMAIN heard'[id][room]
       PROVE  Follows(heard'[id][room][i], Heard(id, room, i)')
  <2>1. CASE i \in 1 .. L
    <3>1. \A j \in 1 .. i : j \in 1 .. L  BY <2>1
    <3>2. \A j \in 1 .. i : heard'[id][room][j] = heard[id][room][j]
      BY <1>5, <3>1
    <3>3. i \in 1 .. i /\ \A j \in 1 .. i - 1 : j \in 1 .. i  BY <2>1
    <3>4. Heard(id, room, i)' = Heard(id, room, i)  BY <3>2, <3>3 DEF Heard
    <3> QED  BY <1>4, <2>1, <3>2, <3>3, <3>4 DEF InOrder
  <2>2. CASE i \notin 1 .. L
    <3>1. IsRoomMessage(id, room, 1) /\ i = L + 1  BY <1>4, <1>5, <1>10, <2>2
    <3>2. Follows(inbox[id][1].num, Ahead(id, room, 1))
      <4>1. 1 \in DOMAIN inbox[id]  BY <1>2
      <4> QED  BY <3>1, <4>1 DEF InOrder
    <3>3. Ahead(id, room, 1) = {heard[id][room][j] : j \in 1 .. L}
      <4>1. {inbox[id][j].num : j \in {j \in 1 .. 1 - 1 : IsRoomMessage(id, room, j)}} = {}
        OBVIOUS
      <4> QED  BY <1>4, <4>1 DEF Ahead
    <3>4. Heard(id, room, i)' = {heard[id][room][j] : j \in 1 .. L}
      <4>1. i - 1 = L  BY <3>1
      <4> QED  BY <1>5, <3>1, <4>1 DEF Heard
    <3> QED  BY <1>5, <3>1, <3>2, <3>3, <3>4
  <2> QED  BY <2>1, <2>2
<1> QED  BY <1>8, <1>9, <1>10 DEF InOrder

----------------------------------------------------------------------------
(* The strengthening of RoomInOrder: whoever receives from a room for a    *)
(* peer, the session's task or one that is being aborted, has the peer's   *)
(* next number, and there is only one such.                                *)

(* The tasks of a session and a room that are being aborted.               *)
Ending(id, room) == {a \in aborting : a.id = id /\ a.room = room}

OneReceiver(id, room) ==
  /\ Ending(id, room) # {} => task[id][room] = NoTask
  /\ \A a, b \in Ending(id, room) : a = b

ResumesInOrder(id, room) ==
  conn[id] \in Open =>
    /\ task[id][room] # NoTask => Follows(task[id][room], Reached(id, room))
    /\ \A a \in Ending(id, room) : Follows(a.next, Reached(id, room))

Fed(id, room) ==
  InOrder(id, room) /\ OneReceiver(id, room) /\ ResumesInOrder(id, room)

(* A task is aborted with the answer that tells of it.                     *)
EndingLeft == \A a \in aborting : a.room \in After(a.id).left

NotYetTold == \A id \in Ids : conn[id] = "none" => ToldRooms(id) = {}

(* Whoever is in a room that it once left has come back to it.             *)
ReturnsKept == \A id \in Ids : After(id).rooms \cap After(id).left \subseteq After(id).back

AllFed ==
  \A id \in Ids, room \in Rooms : room \notin After(id).back => Fed(id, room)

FeedInv == EndingLeft /\ NotYetTold /\ ReturnsKept /\ AllFed

(* What a step makes a peer know is what one more answer tells it.         *)
LEMMA AfterStep ==
  ASSUME IInv, ViewInv, Next, NEW i \in Ids
  PROVE  \/ After(i)' = After(i)
         \/ /\ After(i) \in View
            /\ \E m : After(i)' = Told(After(i), m)
<1>1. view[i] \in View  BY HearTypes
<1>2. CASE view' = view /\ reply' = reply
  BY <1>2 DEF After
<1>3. CASE Serve
  <2>1. view' = view  BY <1>3, ServeCases DEF history
  <2>2. CASE i # Head(rx).id
    <3>1. reply'[i] = reply[i]  BY <1>3, <2>2, ServedWaits
    <3> QED  BY <2>1, <3>1 DEF After
  <2>3. CASE i = Head(rx).id
    <3>1. After(i) = view[i]
      BY <1>1, <1>3, <2>3, ServedWaits, ToldNothing DEF After
    <3>2. After(i)' = Told(view[i], reply'[i])  BY <2>1 DEF After
    <3> QED  BY <1>1, <3>1, <3>2
  <2> QED  BY <2>2, <2>3
<1>4. ASSUME NEW id \in Ids, TakeReply(id)
      PROVE  After(i)' = After(i)
  <2>1. /\ view' = [view EXCEPT ![id] = After(id)]
        /\ reply' = [reply EXCEPT ![id] = NoReply]
    BY <1>4 DEF TakeReply, After
  <2>2. CASE i # id
    <3>1. view'[i] = view[i] /\ reply'[i] = reply[i]  BY <2>1, <2>2, HearTypes
    <3> QED  BY <3>1 DEF After
  <2>3. CASE i = id
    <3>1. view'[i] = After(i) /\ reply'[i] = NoReply  BY <2>1, <2>3, HearTypes
    <3>2. view' \in [Ids -> View]
      BY <1>4, HistoryTypeStep DEF IInv, HistoryTypeOK, View
    <3> QED  BY <3>1, <3>2, ToldNothing DEF After
  <2> QED  BY <2>2, <2>3
<1> QED
  BY <1>2, <1>3, <1>4
  DEF Next, Accept, CtrlC, JoinAll, Handshake, Receive, Read, Deliver, PeerCloses,
      EndOfStream, ShutdownSignal, Forward, ForwardLagged, ForwardAborted, EndAborted,
      taskFrame, forwardFrame, history

(* No answer takes back that a room was left, or come back to.             *)
LEMMA LeftGrows ==
  ASSUME IInv, ViewInv, Next, NEW i \in Ids
  PROVE  /\ After(i).left \subseteq After(i).left'
         /\ After(i).back \subseteq After(i).back'
<1>1. ASSUME NEW v \in View, NEW m
      PROVE  v.left \subseteq Told(v, m).left /\ v.back \subseteq Told(v, m).back
  BY ToldFacts
<1> QED  BY <1>1, AfterStep

(* ReturnsKept is preserved: what joins a room again says so.              *)
LEMMA ReturnsKeptStep ==
  ASSUME IInv, ViewInv, FeedInv, Next
  PROVE  ReturnsKept'
<1> SUFFICES ASSUME NEW i \in Ids
             PROVE  (After(i).rooms \cap After(i).left)' \subseteq After(i).back'
  BY DEF ReturnsKept
<1>1. After(i).rooms \cap After(i).left \subseteq After(i).back
  BY DEF FeedInv, ReturnsKept
<1>2. ASSUME NEW v \in View, NEW m, v.rooms \cap v.left \subseteq v.back
      PROVE  Told(v, m).rooms \cap Told(v, m).left \subseteq Told(v, m).back
  BY <1>2, ToldFacts
<1>3. CASE After(i)' = After(i)  BY <1>1, <1>3
<1>4. CASE After(i) \in View /\ \E m : After(i)' = Told(After(i), m)
  BY <1>1, <1>2, <1>4
<1> QED  BY <1>3, <1>4, AfterStep

(* Fed stays where nothing is added and no task appears.                   *)
LEMMA FedSame ==
  ASSUME NEW id, NEW room, Fed(id, room),
         inbox'[id] = inbox[id], heard'[id][room] = heard[id][room],
         task'[id][room] \in {task[id][room], NoTask},
         Ending(id, room)' \subseteq Ending(id, room),
         conn'[id] \in Open => conn[id] \in Open
  PROVE  Fed(id, room)'
<1>1. InOrder(id, room)' /\ Reached(id, room)' = Reached(id, room)
  BY AheadSame DEF Fed
<1>2. OneReceiver(id, room)'  BY DEF Fed, OneReceiver
<1>3. ResumesInOrder(id, room)'  BY <1>1 DEF Fed, ResumesInOrder
<1> QED  BY <1>1, <1>2, <1>3 DEF Fed

(* Nothing was told of the room: nothing of it is on its way.              *)
LEMMA NothingReached ==
  ASSUME IInv, HearInv, NEW id \in Ids, NEW room \in Rooms, room \notin ToldRooms(id)
  PROVE  /\ task[id][room] = NoTask
         /\ Ending(id, room) = {}
         /\ Reached(id, room) = {}
<1>1. \A k \in DOMAIN inbox[id] : ~IsRoomMessage(id, room, k)
  BY DEF HearInv, InboxTold, IsRoomMessage
<1>2. heard[id][room] = <<>>
  <2>1. view[id].rooms \cup view[id].left \subseteq ToldRooms(id)
    BY HearTypes, ToldGrows DEF ToldRooms, After
  <2> QED  BY <2>1 DEF HearInv, JoinedBeforeHeard
<1>3. Reached(id, room) = {}
  <2>1. PICK N \in Nat : N = Len(inbox[id]) /\ DOMAIN inbox[id] = 1 .. N  BY InboxLength
  <2>2. {j \in 1 .. (N + 1) - 1 : IsRoomMessage(id, room, j)} = {}
    <3>1. (N + 1) - 1 = N  OBVIOUS
    <3> QED  BY <1>1, <2>1, <3>1
  <2>3. {heard[id][room][i] : i \in DOMAIN heard[id][room]} = {}  BY <1>2
  <2> QED  BY <2>1, <2>2, <2>3 DEF Reached, Ahead
<1> QED  BY <1>3 DEF HearInv, TasksTold, AbortingTold, Ending

(* A message that is not the room's, or goes to somebody else.             *)
LEMMA FedPushed ==
  ASSUME IInv, NEW to \in Ids, NEW m \in Message, Push(to, m),
         NEW id \in Ids, NEW room \in Rooms, Fed(id, room),
         ~(to = id /\ m.type = "RoomMessage" /\ m.room = room),
         heard'[id][room] = heard[id][room],
         task'[id][room] = task[id][room],
         Ending(id, room)' = Ending(id, room),
         conn' = conn
  PROVE  Fed(id, room)'
<1>1. CASE inbox'[id] = inbox[id]  BY <1>1, FedSame
<1>2. CASE to = id /\ inbox'[id] = Append(inbox[id], m)
  <2>1. InOrder(id, room)' /\ Reached(id, room)' = Reached(id, room)
    BY <1>2, AheadOther DEF Fed
  <2>2. OneReceiver(id, room)'  BY DEF Fed, OneReceiver
  <2>3. ResumesInOrder(id, room)'  BY <2>1 DEF Fed, ResumesInOrder
  <2> QED  BY <2>1, <2>2, <2>3 DEF Fed
<1> QED  BY <1>1, <1>2, HearTypes DEF Push

(* The numbers that reached a peer are numbers.                            *)
LEMMA ReachedTypes ==
  ASSUME IInv, NEW id \in Ids, NEW room \in Rooms
  PROVE  Reached(id, room) \in SUBSET Nat
<1>1. PICK N \in Nat : N = Len(inbox[id]) /\ DOMAIN inbox[id] = 1 .. N  BY InboxLength
<1>2. \A i \in DOMAIN heard[id][room] : heard[id][room][i] \in Nat
  <2>1. heard[id][room] \in Seq(Nat)  BY HearTypes
  <2> QED  BY <2>1
<1>3. ASSUME NEW j \in 1 .. (N + 1) - 1, IsRoomMessage(id, room, j)
      PROVE  inbox[id][j].num \in Nat
  <2>1. j \in DOMAIN inbox[id] /\ inbox[id] \in Seq(Message)  BY <1>1, HearTypes
  <2>2. inbox[id][j] \in Message  BY <2>1
  <2> QED  BY <1>3, <2>2, MessageTypes DEF IsRoomMessage
<1> QED  BY <1>1, <1>2, <1>3 DEF Reached, Ahead

(* The room's next number is sent to the session's channel.                *)
LEMMA NextPushed ==
  ASSUME IInv, NEW id \in Ids, NEW room \in Rooms, NEW n \in Nat,
         Push(id, RoomMessage(room, n)), heard'[id][room] = heard[id][room],
         InOrder(id, room),
         conn[id] \in Open => Follows(n, Reached(id, room))
  PROVE  /\ InOrder(id, room)'
         /\ conn[id] \in Open => Follows(n + 1, Reached(id, room)')
<1>1. CASE conn[id] \in Open
  <2>1. inbox'[id] = Append(inbox[id], RoomMessage(room, n))
    BY <1>1, HearTypes DEF Push
  <2>2. InOrder(id, room)' /\ Reached(id, room)' = Reached(id, room) \cup {n}
    BY <1>1, <2>1, AheadNext
  <2> QED  BY <1>1, <2>2, ReachedTypes, FollowsNext
<1>2. CASE conn[id] \notin Open
  <2>1. inbox'[id] = inbox[id]  BY <1>2 DEF Push
  <2> QED  BY <1>2, <2>1, AheadSame
<1> QED  BY <1>1, <1>2

----------------------------------------------------------------------------
(* Fed, action by action.                                                  *)

(* The session's own task forwards: to this channel, or to another one.    *)
LEMMA FedForward ==
  ASSUME IInv, NEW to \in Ids, NEW rm \in Rooms, Forward(to, rm),
         NEW id \in Ids, NEW room \in Rooms, Fed(id, room)
  PROVE  Fed(id, room)'
<1> DEFINE n == task[to][rm]
<1>1. /\ Push(to, RoomMessage(rm, n)) /\ n # NoTask /\ n \in Nat
      /\ task' = [task EXCEPT ![to][rm] = n + 1]
      /\ UNCHANGED <<heard, conn, aborting>>
  BY HearTypes DEF Forward, forwardFrame, history
<1>2. Ending(id, room)' = Ending(id, room)  BY <1>1 DEF Ending
<1>3. CASE id = to /\ room = rm
  <2>1. Ending(id, room) = {}  BY <1>1, <1>3 DEF Fed, OneReceiver
  <2>2. InOrder(id, room)' /\ (conn[id] \in Open => Follows(n + 1, Reached(id, room)'))
    <3>1. conn[id] \in Open => Follows(n, Reached(id, room))
      BY <1>1, <1>3 DEF Fed, ResumesInOrder
    <3> QED  BY <1>1, <1>3, <3>1, NextPushed DEF Fed
  <2>3. task'[id][room] = n + 1  BY <1>1, <1>3, HearTypes, TaskUpdate
  <2> QED  BY <1>1, <1>2, <2>1, <2>2, <2>3 DEF Fed, OneReceiver, ResumesInOrder
<1>4. CASE ~(id = to /\ room = rm)
  <2>1. task'[id][room] = task[id][room]  BY <1>1, <1>4, HearTypes, TaskUpdate
  <2>2. RoomMessage(rm, n) \in Message /\ RoomMessage(rm, n).room = rm
    BY <1>1, MessageTypes DEF RoomMessage
  <2> QED  BY <1>1, <1>2, <1>4, <2>1, <2>2, FedPushed
<1> QED  BY <1>3, <1>4

(* A task that is being aborted forwards once more.                        *)
LEMMA FedAborted ==
  ASSUME IInv, NEW a \in aborting, ForwardAborted(a),
         NEW id \in Ids, NEW room \in Rooms, Fed(id, room)
  PROVE  Fed(id, room)'
<1> DEFINE b == [a EXCEPT !.next = @ + 1]
<1>1. a \in [id : Ids, room : Rooms, next : Nat]  BY HearTypes
<1>2. b.id = a.id /\ b.room = a.room /\ b.next = a.next + 1  BY <1>1
<1>3. /\ Push(a.id, RoomMessage(a.room, a.next))
      /\ aborting' = (aborting \ {a}) \cup {b}
      /\ UNCHANGED <<heard, conn, task>>
  BY DEF ForwardAborted, forwardFrame, history
<1> HIDE DEF b
<1>4. CASE id = a.id /\ room = a.room
  <2>1. Ending(id, room) = {a} /\ task[id][room] = NoTask
    BY <1>4 DEF Fed, OneReceiver, Ending
  <2>2. Ending(id, room)' = {b}  BY <1>2, <1>3, <1>4, <2>1 DEF Ending
  <2>3. InOrder(id, room)'
          /\ (conn[id] \in Open => Follows(a.next + 1, Reached(id, room)'))
    <3>1. conn[id] \in Open => Follows(a.next, Reached(id, room))
      BY <2>1 DEF Fed, ResumesInOrder
    <3> QED  BY <1>1, <1>3, <1>4, <3>1, NextPushed DEF Fed
  <2> QED  BY <1>2, <1>3, <2>1, <2>2, <2>3 DEF Fed, OneReceiver, ResumesInOrder
<1>5. CASE ~(id = a.id /\ room = a.room)
  <2>1. Ending(id, room)' = Ending(id, room)  BY <1>2, <1>3, <1>5 DEF Ending
  <2>2. RoomMessage(a.room, a.next) \in Message
          /\ RoomMessage(a.room, a.next).room = a.room
    BY <1>1, MessageTypes DEF RoomMessage
  <2> QED  BY <1>1, <1>3, <1>5, <2>1, <2>2, FedPushed
<1> QED  BY <1>4, <1>5

(* A message is written to a socket.                                       *)
LEMMA FedDelivered ==
  ASSUME IInv, NEW to \in Ids, Deliver(to),
         NEW id \in Ids, NEW room \in Rooms, Fed(id, room)
  PROVE  Fed(id, room)'
<1> DEFINE m == inbox[to][1]
<1>1. /\ inbox[to] # <<>> /\ inbox[to] \in Seq(Message)
      /\ inbox' = [inbox EXCEPT ![to] = Tail(@)]
      /\ UNCHANGED <<task, aborting, conn>>
      /\ heard' = IF m.type = "RoomMessage"
                  THEN [heard EXCEPT ![to][m.room] = Append(@, m.num)]
                  ELSE heard
  BY HearTypes DEF Deliver, taskFrame, roomVars
<1>2. Ending(id, room)' = Ending(id, room)  BY <1>1 DEF Ending
<1>3. CASE id = to
  <2>1. inbox'[id] = Tail(inbox[id])  BY <1>1, <1>3, HearTypes
  <2>2. heard'[id][room] = IF IsRoomMessage(id, room, 1)
                           THEN Append(heard[id][room], inbox[id][1].num)
                           ELSE heard[id][room]
    <3>1. m \in Message  BY <1>1
    <3>2. m.type = "RoomMessage" => m.room \in Rooms  BY <3>1, MessageTypes
    <3> HIDE DEF m
    <3>3. CASE m.type = "RoomMessage" /\ m.room = room
      BY <1>1, <1>3, <3>2, <3>3, HearTypes DEF IsRoomMessage, m
    <3>4. CASE ~(m.type = "RoomMessage" /\ m.room = room)
      BY <1>1, <1>3, <3>2, <3>4, HearTypes DEF IsRoomMessage, m
    <3> QED  BY <3>3, <3>4
  <2>3. InOrder(id, room)' /\ Reached(id, room)' = Reached(id, room)
    BY <1>1, <1>3, <2>1, <2>2, AheadDeliver DEF Fed
  <2> QED  BY <1>1, <1>2, <2>3 DEF Fed, OneReceiver, ResumesInOrder
<1>4. CASE id # to
  <2>1. inbox'[id] = inbox[id] /\ heard'[id] = heard[id]  BY <1>1, <1>4, HearTypes
  <2> QED  BY <1>1, <1>2, <2>1, FedSame
<1> QED  BY <1>3, <1>4

(* The first join of a room finds no task of the room that is being        *)
(* aborted: the peer would have been told that it left the room.           *)
LEMMA FedJoin ==
  ASSUME IInv, ViewInv, HearInv, Serve, NEW id \in Ids, NEW room \in Rooms,
         id = Head(rx).id, ~IsDrop(Head(rx)),
         room \notin view[id].left, room \notin rooms[id],
         inbox' = inbox, heard' = heard, conn' = conn, aborting' = aborting
  PROVE  Fed(id, room)'
<1>1. conn[id] = "waiting" /\ reply[id] = NoReply  BY ServedWaits
<1>2. After(id) = view[id] /\ After(id).rooms = rooms[id]
  BY <1>1, HearTypes, ToldNothing DEF After, ViewInv, Known
<1>3. Reached(id, room) = {} /\ Ending(id, room) = {}
        /\ heard[id][room] = <<>>
        /\ \A k \in DOMAIN inbox[id] : ~IsRoomMessage(id, room, k)
  <2>1. room \notin ToldRooms(id)  BY <1>2 DEF ToldRooms
  <2>2. heard[id][room] = <<>>
    BY <1>2, <2>1 DEF HearInv, JoinedBeforeHeard, ToldRooms
  <2>3. \A k \in DOMAIN inbox[id] : ~IsRoomMessage(id, room, k)
    BY <2>1 DEF HearInv, InboxTold, IsRoomMessage
  <2> QED  BY <2>1, <2>2, <2>3, NothingReached
<1>4. InOrder(id, room)  BY <1>3 DEF InOrder
<1>5. InOrder(id, room)' /\ Reached(id, room)' = {}  BY <1>3, <1>4, AheadSame
<1>6. Ending(id, room)' = {}  BY <1>3 DEF Ending
<1>7. OneReceiver(id, room)'  BY <1>6 DEF OneReceiver
<1>8. ResumesInOrder(id, room)'  BY <1>5, <1>6 DEF ResumesInOrder, Follows
<1> QED  BY <1>5, <1>7, <1>8 DEF Fed

(* The task of a room that is left is the only one being aborted.          *)
LEMMA FedLeave ==
  ASSUME IInv, ViewInv, Serve, EndingLeft, NEW id \in Ids, NEW room \in Rooms,
         id = Head(rx).id, room \notin view[id].left, Unsubscribe(id, room),
         inbox' = inbox, heard' = heard, conn' = conn, Fed(id, room)
  PROVE  Fed(id, room)'
<1> DEFINE new == [id |-> id, room |-> room, next |-> task[id][room]]
<1>1. Ending(id, room) = {}
  <2>1. After(id) = view[id]
    BY ServedWaits, HearTypes, ToldNothing DEF After
  <2> QED  BY <2>1 DEF EndingLeft, Ending
<1>2. /\ task'[id][room] = NoTask
      /\ aborting' = IF task[id][room] = NoTask THEN aborting ELSE aborting \cup {new}
  BY HearTypes, TaskUpdate DEF Unsubscribe
<1>3. new.id = id /\ new.room = room /\ new.next = task[id][room]  OBVIOUS
<1> HIDE DEF new
<1>4. Ending(id, room)' = IF task[id][room] = NoTask THEN {} ELSE {new}
  BY <1>1, <1>2, <1>3 DEF Ending
<1>5. InOrder(id, room)' /\ Reached(id, room)' = Reached(id, room)
  BY AheadSame DEF Fed
<1>6. OneReceiver(id, room)'  BY <1>2, <1>4 DEF OneReceiver
<1>7. ResumesInOrder(id, room)'
  BY <1>2, <1>3, <1>4, <1>5 DEF Fed, ResumesInOrder
<1> QED  BY <1>5, <1>6, <1>7 DEF Fed

(* The server's handlers, one by one.                                      *)
LEMMA FedServe ==
  ASSUME IInv, ViewInv, HearInv, EndingLeft, ReturnsKept, Serve, NEW id \in Ids, NEW room \in Rooms,
         room \notin After(id).back, room \notin After(id).back', Fed(id, room)
  PROVE  Fed(id, room)'
<1> DEFINE to == Head(rx).id
           r == Head(rx).request
<1>1. heard' = heard /\ conn' = conn  BY ServeCases DEF history
<1>2. CASE inbox' = inbox /\ task' = task /\ aborting' = aborting
  BY <1>1, <1>2, FedSame DEF Ending
<1>3. CASE r.type = "PrivMsg" /\ PrivMsg(to, r.arg)
  <2>1. task' = task /\ aborting' = aborting  BY <1>3 DEF PrivMsg, roomVars
  <2>2. CASE inbox' # inbox
    <3>1. /\ username_to_id[r.arg] # NoId /\ id_to_username[to] # NoName
          /\ Push(username_to_id[r.arg], IncomingMsg(id_to_username[to]))
      BY <1>3, <2>2 DEF PrivMsg
    <3>2. to \in Ids /\ r.arg \in Names
      BY <1>3, ServeCases, HeadEvent, RequestArg DEF IInv
    <3>3. username_to_id[r.arg] \in Ids /\ id_to_username[to] \in Names
      BY <3>1, <3>2 DEF IInv, TypeOK, NameTypeOK
    <3>4. /\ IncomingMsg(id_to_username[to]) \in Message
          /\ IncomingMsg(id_to_username[to]).type # "RoomMessage"
      BY <3>3, MessageTypes DEF IncomingMsg
    <3>5. Ending(id, room)' = Ending(id, room)  BY <2>1 DEF Ending
    <3> QED  BY <1>1, <2>1, <3>1, <3>3, <3>4, <3>5, FedPushed
  <2> QED  BY <1>2, <2>1, <2>2
<1>4. CASE r.type = "Join" /\ JoinRoom(to, r.arg)
  <2>1. CASE /\ Subscribe(to, r.arg) /\ r.arg \notin rooms[to]
             /\ Answer(to, Answered("Joined", r.arg))
    <3>1. inbox' = inbox /\ aborting' = aborting  BY <1>4 DEF JoinRoom
    <3>2. CASE id = to /\ room = r.arg
      <4>1. ~IsDrop(Head(rx))  BY <1>4, ServedWaits
      <4>2. room \notin view[id].left
        <5>1. reply'[id] = Answered("Joined", room) /\ view'[id] = view[id]
          BY <2>1, <3>2, HearTypes, ServeCases DEF Answer, history
        <5>2. /\ Answered("Joined", room).type = "Joined"
              /\ Answered("Joined", room).arg = room
          BY DEF Answered
        <5>3. After(id).back' = view[id].back \cup ({room} \cap view[id].left)
          BY <5>1, <5>2, HearTypes, ToldFacts DEF After
        <5> QED  BY <5>3
      <4> QED  BY <1>1, <2>1, <3>1, <3>2, <4>1, <4>2, FedJoin
    <3>3. CASE ~(id = to /\ room = r.arg)
      <4>1. task'[id][room] = task[id][room]
        BY <2>1, <3>3, HearTypes, TaskUpdate DEF Subscribe
      <4> QED  BY <1>1, <3>1, <4>1, FedSame DEF Ending
    <3> QED  BY <3>2, <3>3
  <2> QED  BY <1>2, <1>4, <2>1 DEF JoinRoom
<1>5. CASE r.type = "Leave" /\ LeaveRoom(to, r.arg)
  <2>1. CASE Unsubscribe(to, r.arg) /\ r.arg \in rooms[to]
    <3>1. inbox' = inbox  BY <1>5 DEF LeaveRoom
    <3>2. CASE id = to /\ room = r.arg
      <4>1. After(id) = view[id] /\ After(id).rooms = rooms[id]
        <5>1. ~IsDrop(Head(rx))  BY <1>5, ServedWaits
        <5> QED
          BY <3>2, <5>1, ServedWaits, HearTypes, ToldNothing DEF After, ViewInv, Known
      <4>2. room \notin view[id].left  BY <2>1, <3>2, <4>1 DEF ReturnsKept
      <4> QED  BY <1>1, <2>1, <3>1, <3>2, <4>2, FedLeave
    <3>3. CASE ~(id = to /\ room = r.arg)
      <4>1. task'[id][room] = task[id][room]
        BY <2>1, <3>3, HearTypes, TaskUpdate DEF Unsubscribe
      <4>2. Ending(id, room)' \subseteq Ending(id, room)
        BY <2>1, <3>3 DEF Unsubscribe, Ending
      <4> QED  BY <1>1, <3>1, <4>1, <4>2, FedSame
    <3> QED  BY <3>2, <3>3
  <2> QED  BY <1>2, <1>5, <2>1 DEF LeaveRoom
<1>6. CASE r.type = "DropSession" /\ DropSession(to)
  <2>1. task'[id][room] \in {task[id][room], NoTask}
    BY <1>6, HearTypes DEF DropSession
  <2>2. Ending(id, room)' \subseteq Ending(id, room)  BY <1>6 DEF DropSession, Ending
  <2> QED  BY <1>1, <1>6, <2>1, <2>2, FedSame DEF DropSession
<1> QED
  BY <1>2, <1>3, <1>4, <1>5, <1>6, ServeCases
  DEF Register, ChangeName, List, CreateRoom, SendTo, roomVars

(* AllFed is preserved, action by action.                                  *)
LEMMA AllFedStep ==
  ASSUME IInv, ViewInv, HearInv, FeedInv, Next
  PROVE  AllFed'
<1> SUFFICES ASSUME NEW id \in Ids, NEW room \in Rooms, room \notin After(id).back'
             PROVE  Fed(id, room)'
  BY DEF AllFed
<1>1. room \notin After(id).back  BY LeftGrows
<1>2. Fed(id, room)  BY <1>1 DEF FeedInv, AllFed
<1>3. CASE Serve  BY <1>1, <1>2, <1>3, FedServe DEF FeedInv
<1>4. CASE Accept
  <2>1. UNCHANGED <<inbox, heard, task, aborting>>  BY <1>4 DEF Accept, roomVars, history
  <2>2. Ending(id, room)' = Ending(id, room)  BY <2>1 DEF Ending
  <2>3. CASE conn[id] = "none"
    <3>1. room \notin ToldRooms(id)  BY <2>3 DEF FeedInv, NotYetTold
    <3>2. task[id][room] = NoTask /\ Ending(id, room) = {}  BY <3>1, NothingReached
    <3>3. InOrder(id, room)'  BY <1>2, <2>1, AheadSame DEF Fed
    <3> QED  BY <2>1, <2>2, <3>2, <3>3 DEF Fed, OneReceiver, ResumesInOrder
  <2>4. CASE conn[id] # "none"
    <3>1. next_client_id \in Ids /\ conn[next_client_id] = "none"
      BY <1>4 DEF Accept, IInv, Numbered, Ids
    <3>2. conn'[id] = conn[id]  BY <1>4, <2>4, <3>1 DEF Accept, IInv, TypeOK, TaskTypeOK
    <3> QED  BY <1>2, <2>1, <2>2, <3>2, FedSame
  <2> QED  BY <2>3, <2>4
<1>5. ASSUME NEW to \in Ids, EndOfStream(to) \/ ShutdownSignal(to)
      PROVE  Fed(id, room)'
  <2>1. /\ UNCHANGED <<heard, task, aborting>>
        /\ conn' = [conn EXCEPT ![to] = "done"]
        /\ inbox' = [inbox EXCEPT ![to] = <<>>]
    BY <1>5 DEF EndOfStream, ShutdownSignal, Finish, taskFrame, roomVars, history
  <2>2. Ending(id, room)' = Ending(id, room)  BY <2>1 DEF Ending
  <2>3. conn \in [Ids -> ConnState]  BY DEF IInv, TypeOK, TaskTypeOK
  <2>4. CASE id = to
    <3>1. inbox'[id] = <<>> /\ conn'[id] \notin Open
      BY <2>1, <2>3, <2>4, HearTypes DEF Open
    <3>2. InOrder(id, room)'
      <4>1. DOMAIN inbox'[id] = {}  BY <3>1
      <4>2. heard'[id][room] = heard[id][room]  BY <2>1
      <4>3. \A i : Heard(id, room, i)' = Heard(id, room, i)  BY <4>2 DEF Heard
      <4> QED  BY <1>2, <4>1, <4>2, <4>3 DEF Fed, InOrder
    <3> QED  BY <1>2, <2>1, <2>2, <3>1, <3>2 DEF Fed, OneReceiver, ResumesInOrder
  <2>5. CASE id # to
    <3>1. inbox'[id] = inbox[id] /\ conn'[id] = conn[id]
      BY <2>1, <2>3, <2>5, HearTypes
    <3> QED  BY <1>2, <2>1, <2>2, <3>1, FedSame
  <2> QED  BY <2>4, <2>5
<1>6. ASSUME NEW to \in Ids, Deliver(to) PROVE Fed(id, room)'
  BY <1>2, <1>6, FedDelivered
<1>7. ASSUME NEW to \in Ids, NEW rm \in Rooms, Forward(to, rm) PROVE Fed(id, room)'
  BY <1>2, <1>7, FedForward
<1>8. ASSUME NEW a \in aborting, ForwardAborted(a) PROVE Fed(id, room)'
  BY <1>2, <1>8, FedAborted
<1>9. ASSUME NEW to \in Ids, NEW rm \in Rooms, ForwardLagged(to, rm)
      PROVE  Fed(id, room)'
  <2>1. /\ UNCHANGED <<inbox, heard, aborting, conn>>
        /\ task' = [task EXCEPT ![to][rm] = NoTask]
    BY <1>9 DEF ForwardLagged, forwardFrame, history
  <2>2. task'[id][room] \in {task[id][room], NoTask}  BY <2>1, HearTypes, TaskUpdate
  <2> QED  BY <1>2, <2>1, <2>2, FedSame DEF Ending
<1>10. ASSUME NEW a \in aborting, EndAborted(a) PROVE Fed(id, room)'
  <2>1. /\ UNCHANGED <<inbox, heard, task, conn>>
        /\ aborting' \subseteq aborting
    BY <1>10 DEF EndAborted, forwardFrame, history
  <2> QED  BY <1>2, <2>1, FedSame DEF Ending
<1>11. ASSUME UNCHANGED <<inbox, heard, task, aborting>>,
              NEW to \in Ids, NEW s, conn' = [conn EXCEPT ![to] = s], conn[to] \in Open
       PROVE  Fed(id, room)'
  <2>1. conn'[id] \in Open => conn[id] \in Open
    BY <1>11 DEF IInv, TypeOK, TaskTypeOK
  <2> QED  BY <1>2, <1>11, <2>1, FedSame DEF Ending
<1>12. ASSUME NEW to \in Ids,
              \/ Handshake(to) \/ TakeReply(to)
              \/ \E request \in Request : Receive(to, request)
       PROVE  Fed(id, room)'
  BY <1>11, <1>12
  DEF Handshake, TakeReply, Receive, Read, taskFrame, roomVars, history, Open
<1>13. CASE UNCHANGED <<inbox, heard, task, aborting, conn>>
  BY <1>2, <1>13, FedSame DEF Ending
<1>14. CtrlC \/ JoinAll \/ (\E to \in Ids : PeerCloses(to)) =>
         UNCHANGED <<inbox, heard, task, aborting, conn>>
  BY DEF CtrlC, JoinAll, PeerCloses, taskFrame, roomVars, history
<1> QED
  BY <1>3, <1>4, <1>5, <1>6, <1>7, <1>8, <1>9, <1>10, <1>12, <1>13, <1>14 DEF Next

(* EndingLeft is preserved: a leave aborts and answers in one step.        *)
LEMMA EndingLeftStep ==
  ASSUME IInv, ViewInv, FeedInv, Next
  PROVE  EndingLeft'
<1> SUFFICES ASSUME NEW a \in aborting'
             PROVE  a.room \in After(a.id).left'
  BY DEF EndingLeft
<1>1. ASSUME NEW b \in aborting, a.id = b.id, a.room = b.room
      PROVE  a.room \in After(a.id).left'
  <2>1. b.id \in Ids  BY HearTypes
  <2> QED  BY <1>1, <2>1, LeftGrows DEF FeedInv, EndingLeft
<1>2. ASSUME NEW b \in aborting, ForwardAborted(b)
      PROVE  a.room \in After(a.id).left'
  <2>1. a \in aborting \/ a = [b EXCEPT !.next = @ + 1]  BY <1>2 DEF ForwardAborted
  <2>2. b \in [id : Ids, room : Rooms, next : Nat]  BY HearTypes
  <2>3. a = [b EXCEPT !.next = @ + 1] => a.id = b.id /\ a.room = b.room  BY <2>2
  <2> QED  BY <1>1, <2>1, <2>3
<1>3. CASE Serve /\ a \notin aborting
  <2> DEFINE id == Head(rx).id
             room == Head(rx).request.arg
  <2>1. Unsubscribe(id, room) /\ Answer(id, Answered("LeftRoom", room))
    BY <1>3, ServeCases
    DEF Register, ChangeName, PrivMsg, List, CreateRoom, JoinRoom, LeaveRoom, SendTo,
        DropSession, roomVars
  <2>2. a.id = id /\ a.room = room  BY <1>3, <2>1 DEF Unsubscribe
  <2>3. id \in Ids /\ view' = view  BY <1>3, ServedWaits, ServeCases DEF history
  <2>4. reply'[id] = Answered("LeftRoom", room)
    BY <2>1, <2>3, HearTypes DEF Answer
  <2>5. /\ Answered("LeftRoom", room).type = "LeftRoom"
        /\ Answered("LeftRoom", room).arg = room
    BY DEF Answered
  <2>6. room \in Told(view[id], Answered("LeftRoom", room)).left
    BY <2>3, <2>5, HearTypes, ToldFacts
  <2> QED  BY <2>2, <2>3, <2>4, <2>6 DEF After
<1>4. CASE aborting' \subseteq aborting  BY <1>1, <1>4
<1>5. CASE a \in aborting  BY <1>1, <1>5
<1> QED
  BY <1>2, <1>3, <1>4, <1>5
  DEF Next, Accept, CtrlC, JoinAll, Handshake, Receive, Read, TakeReply, Deliver, PeerCloses,
      EndOfStream, ShutdownSignal, Forward, ForwardLagged, EndAborted,
      taskFrame, forwardFrame, roomVars

(* Only a connection that waits for an answer is told anything.            *)
LEMMA NotYetToldStep ==
  ASSUME IInv, ViewInv, FeedInv, Next
  PROVE  NotYetTold'
<1> SUFFICES ASSUME NEW id \in Ids, conn'[id] = "none"
             PROVE  ToldRooms(id)' = {}
  BY DEF NotYetTold
<1>1. conn \in [Ids -> ConnState]  BY DEF IInv, TypeOK, TaskTypeOK
<1>2. ASSUME conn[id] = "none", view'[id] = view[id], reply'[id] = reply[id]
      PROVE  ToldRooms(id)' = {}
  BY <1>2 DEF FeedInv, NotYetTold, ToldRooms, After
<1>3. CASE Serve
  <2>1. conn' = conn /\ view' = view  BY <1>3, ServeCases DEF history
  <2>2. id # Head(rx).id  BY <1>3, <2>1, ServedWaits
  <2>3. reply'[id] = reply[id]  BY <1>3, <2>2, ServedWaits
  <2> QED  BY <1>2, <2>1, <2>3
<1>4. CASE UNCHANGED <<view, reply>>
  <2>1. conn[id] = "none"
    <3>1. CASE conn' = conn  BY <3>1
    <3>2. ASSUME NEW to \in Ids, NEW s \in ConnState \ {"none"},
                 conn' = [conn EXCEPT ![to] = s]
          PROVE  conn[id] = "none"
      BY <1>1, <3>2
    <3>3. Accept => next_client_id \in Ids  BY DEF Accept
    <3> QED
      BY <3>1, <3>2, <3>3, ServeCases
      DEF Next, Accept, CtrlC, JoinAll, Handshake, Receive, Read, TakeReply, Deliver,
          PeerCloses, EndOfStream, ShutdownSignal, Finish, Forward, ForwardLagged,
          ForwardAborted, EndAborted, taskFrame, forwardFrame, ConnState
  <2> QED  BY <1>2, <1>4, <2>1
<1>5. ASSUME NEW to \in Ids, TakeReply(to)
      PROVE  ToldRooms(id)' = {}
  <2>1. /\ view' = [view EXCEPT ![to] = Told(@, reply[to])]
        /\ reply' = [reply EXCEPT ![to] = NoReply]
        /\ conn' = [conn EXCEPT ![to] = "select"]
    BY <1>5 DEF TakeReply
  <2>2. id # to  BY <1>1, <2>1
  <2> QED  BY <1>1, <1>2, <2>1, <2>2, HearTypes
<1> QED
  BY <1>3, <1>4, <1>5
  DEF Next, Accept, CtrlC, JoinAll, Handshake, Receive, Read, Deliver, PeerCloses,
      EndOfStream, ShutdownSignal, Forward, ForwardLagged, ForwardAborted, EndAborted,
      taskFrame, forwardFrame, history

(* FeedInv holds at first.                                                 *)
LEMMA FeedInvInit == Init => FeedInv
<1> SUFFICES ASSUME Init PROVE FeedInv  OBVIOUS
<1>1. EndingLeft  BY DEF Init, EndingLeft
<1>2. NotYetTold /\ ReturnsKept
  <2> SUFFICES ASSUME NEW id \in Ids PROVE ToldRooms(id) = {}
    BY DEF NotYetTold, ReturnsKept, ToldRooms
  <2>1. view[id] \in View /\ view[id].rooms = {} /\ view[id].left = {}
          /\ reply[id] = NoReply
    BY DEF Init, View
  <2> QED  BY <2>1, ToldNothing DEF ToldRooms, After
<1>3. ASSUME NEW id \in Ids, NEW room \in Rooms
      PROVE  Fed(id, room)
  <2>1. /\ heard[id][room] = <<>> /\ inbox[id] = <<>> /\ task[id][room] = NoTask
        /\ Ending(id, room) = {}
    BY <1>3 DEF Init, Ending
  <2> QED  BY <2>1 DEF Fed, InOrder, OneReceiver, ResumesInOrder
<1> QED  BY <1>1, <1>2, <1>3 DEF FeedInv, AllFed

(* FeedInv holds throughout.                                               *)
LEMMA FeedInvariant == Spec => []FeedInv
<1>1. IInv /\ ViewInv /\ HearInv /\ FeedInv /\ [Next]_vars => FeedInv'
  <2>1. ASSUME FeedInv, UNCHANGED vars PROVE FeedInv'
    <3>1. UNCHANGED <<inbox, heard, task, aborting, conn, view, reply>>
      BY <2>1 DEF vars, roomVars, history
    <3>2. EndingLeft' /\ NotYetTold' /\ ReturnsKept'
      BY <2>1, <3>1 DEF FeedInv, EndingLeft, NotYetTold, ReturnsKept, ToldRooms, After
    <3>3. AllFed'
      BY <2>1, <3>1, FedSame DEF FeedInv, AllFed, Ending, After
    <3> QED  BY <3>2, <3>3 DEF FeedInv
  <2>2. ASSUME IInv, ViewInv, HearInv, FeedInv, Next PROVE FeedInv'
    BY <2>2, AllFedStep, EndingLeftStep, NotYetToldStep, ReturnsKeptStep DEF FeedInv
  <2> QED  BY <2>1, <2>2
<1> QED  BY <1>1, FeedInvInit, Invariant, ViewInvariant, HearInvariant, PTL DEF Spec

(* Until it comes back to a room that it left, a peer hears the room's     *)
(* messages in the order they were sent, each once and with no gap, those  *)
(* included that the aborted task still forwards: for any number of        *)
(* clients, rooms and messages, any capacity of the rooms' channels, and   *)
(* however the room tasks, the server's loop and the connection tasks take *)
(* turns.                                                                  *)
THEOREM RoomAlwaysInOrder == Spec => []RoomInOrder
<1>1. FeedInv => RoomInOrder
  BY DEF FeedInv, AllFed, Fed, ResumesInOrder, Reached, RoomInOrder, ResumesAfterLast
<1> QED  BY <1>1, FeedInvariant, PTL
=============================================================================
