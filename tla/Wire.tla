-------------------------------- MODULE Wire --------------------------------
(***************************************************************************)
(* The messages of the two programs (common/src/message.rs): which of them *)
(* are built and accepted, and which fields their readers unwrap. Bytes    *)
(* are left out: postcard reads what it wrote.                             *)
(***************************************************************************)

EXTENDS Options

CONSTANT Number     \* the texts that str::parse::<u64> takes

----------------------------------------------------------------------------
(* check_message.                                                          *)

ArgumentOnly ==
  {"Join", "ChangeName", "Leave", "List", "Create", "Register", "Joined", "LeftRoom",
   "CreatedRoom"}
ArgumentAndContent ==
  {"SendTo", "PrivMsg", "RoomMessage", "Registered", "Failed", "ChangedName",
   "MessagedRoom", "OutgoingMsg"}
ContentOnly == {"IncomingMsg", "AllRooms", "UserRooms", "Users"}
MessageType == ArgumentOnly \cup ArgumentAndContent \cup ContentOnly

(* Mistake: an acknowledged private message must not repeat its text.      *)
CheckMessageUnechoed(m) ==
  /\ m.arg = None <=> m.type \in ContentOnly
  /\ m.content = None <=> m.type \in ArgumentOnly \cup {"OutgoingMsg"}

CheckMessage(m) ==
  /\ m.arg = None <=> m.type \in ContentOnly
  /\ m.content = None <=> m.type \in ArgumentOnly

Err == [type |-> "Err"]

Checked(m) == IF CheckMessage(m) THEN m ELSE Err

(* build checks what it builds and from_bytes what it read.                *)
Build(type, arg, content) == Checked([type |-> type, arg |-> arg, content |-> content])
FromBytes(m) == Checked(m)

----------------------------------------------------------------------------
(* The server's handle_message.                                            *)

RequestType ==
  {"Register", "ChangeName", "Join", "Leave", "Create", "SendTo", "List", "PrivMsg"}

(* Are the fields there that the handler of this request unwraps?          *)
ServerUnwraps(m) ==
  /\ m.arg # None
  /\ m.type \in {"SendTo", "PrivMsg"} => m.content # None

(* Mistake: id and name are swapped.                                       *)
RegisteredSwapped(id, m) == Build("Registered", m.arg, Some(id))

Registered(id, m) == Build("Registered", Some(id), m.arg)

(* Names, lists and errors that the server puts in are some text.          *)
Succeeded(m, id, text) ==
  CASE m.type = "Register" -> {Registered(id, m)}
    [] m.type = "ChangeName" -> {Build("ChangedName", m.arg, Some(text))}
    [] m.type = "Join" -> {Build("Joined", m.arg, None)}
    [] m.type = "Leave" -> {Build("LeftRoom", m.arg, None)}
    [] m.type = "Create" -> {Build("CreatedRoom", m.arg, None)}
    [] m.type = "SendTo" -> {Build("MessagedRoom", m.arg, m.content)}
    [] m.type = "List" -> {Build(t, None, Some(text)) : t \in {"Users", "UserRooms", "AllRooms"}}
    [] m.type = "PrivMsg" -> {Build("OutgoingMsg", m.arg, m.content)}

Answers(m, id, cmd, text) ==
  Succeeded(m, id, text) \cup {Build("Failed", Some(cmd), Some(text))}

(* What other clients are sent on account of a request: send_room_message  *)
(* and the event PrivMsg.                                                  *)
Pushes(m, text) ==
  CASE m.type = "SendTo" -> {Build("RoomMessage", m.arg, Some(text))}
    [] m.type = "PrivMsg" -> {Build("IncomingMsg", None, Some(text))}
    [] OTHER -> {}

----------------------------------------------------------------------------
(* The client's handle_message.                                            *)
ClientUnwraps(m) ==
  /\ m.type \in {"Failed", "Registered", "ChangedName", "Joined", "LeftRoom", "CreatedRoom",
                 "RoomMessage", "OutgoingMsg"} => m.arg # None
  /\ m.type \in {"Failed", "Registered", "ChangedName", "UserRooms", "AllRooms", "Users",
                 "RoomMessage", "IncomingMsg", "OutgoingMsg"} => m.content # None
  /\ m.type = "Registered" => Unwrap(m.arg) \in Number
=============================================================================
