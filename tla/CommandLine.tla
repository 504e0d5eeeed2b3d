---------------------------- MODULE CommandLine -----------------------------
(***************************************************************************)
(* What becomes of the user's keys: the input box, the line it yields, the *)
(* action that the line is parsed into, the request that the state task    *)
(* builds from it, and the messages that the server builds on account of   *)
(* the request, read by a client. One line is followed at a time: the      *)
(* channels in between keep their order.                                   *)
(***************************************************************************)
EXTENDS InputBox, Commands, Wire

CONSTANTS
  NoName,       \* the empty name
  Usernames,    \* names the client may have
  SessionIds,   \* the server's ids, as texts
  ServerTexts   \* texts the server puts into its messages

ASSUME IdAssumption == SessionIds \subseteq Number

VARIABLES
  at,       \* where the line got to, see Place
  line,     \* the line that was submitted
  action,   \* what it was parsed into
  socket    \* the message in flight

lineVars == <<boxVars, at, line, action, socket>>

Place ==
  {"box",        \* being typed
   "channel",    \* in the channel of actions
   "to_server",  \* in the socket, as a request
   "to_client",  \* in the socket, as an answer or as a message to others
   "lost",       \* a message that was refused where nobody is told
   "panicked"}   \* a field was unwrapped that is not there

NoLine == <<>>
NoMessage == [type |-> "None", arg |-> None, content |-> None]

Init ==
  /\ BoxInit
  /\ at = "box"
  /\ line = NoLine
  /\ action = Invalid
  /\ socket = NoMessage

----------------------------------------------------------------------------
(* The TUI task.                                                           *)

Key ==
  /\ at = "box"
  /\ CursorLeft \/ CursorRight \/ DeleteChar \/ \E c \in Char : EnterChar(c)
  /\ UNCHANGED <<at, line, action, socket>>

Submit ==
  /\ at = "box"
  /\ Clear
  /\ line' = input
  /\ action' = ParseCommand(input)
  /\ at' = "channel"
  /\ UNCHANGED socket

----------------------------------------------------------------------------
(* The state task.                                                         *)

Through ==
  /\ at' = "box"
  /\ line' = NoLine
  /\ action' = Invalid
  /\ socket' = NoMessage

(* Mistake: the request to leave was copied from the one to join.          *)
RequestCopied(name) ==
  CASE action.type = "Connect" -> Build("Register", Some(name), None)
    [] action.type = "SetName" -> Build("ChangeName", action.arg, None)
    [] action.type = "Leave" -> Build("Join", action.arg, None)
    [] OTHER -> Build(action.type, action.arg, action.content)

RequestOf(name) ==
  CASE action.type = "Connect" -> Build("Register", Some(name), None)
    [] action.type = "SetName" -> Build("ChangeName", action.arg, None)
    [] OTHER -> Build(action.type, action.arg, action.content)

(* A message that is not built is not sent.                                *)
SendRequest(name) ==
  /\ at = "channel"
  /\ action.type \in WithArgument \cup WithMessage
  /\ action.type = "Connect" => name # NoName
  /\ action.type = "PrivMsg" => action.arg # Some(name)
  /\ socket' = RequestOf(name)
  /\ at' = IF socket' = Err THEN "lost" ELSE "to_server"
  /\ UNCHANGED <<boxVars, line, action>>

(* What the state task does alone: the other commands, and any command     *)
(* while the connection, or the name, is not what it needs.                *)
NotSent ==
  /\ at = "channel"
  /\ Through
  /\ UNCHANGED boxVars

----------------------------------------------------------------------------
(* The server, and the client that reads what it sends.                    *)

(* A request that is not accepted is passed over.                          *)
ServerReads ==
  /\ at = "to_server"
  /\ LET m == FromBytes(socket) IN
     \E id \in SessionIds, cmd, text \in ServerTexts :
     \E sent \in Answers(m, id, cmd, text) \cup Pushes(m, text) :
       /\ socket' = sent
       /\ at' = IF m = Err THEN "lost"
                ELSE IF ~ServerUnwraps(m) THEN "panicked"
                ELSE IF sent = Err THEN "lost"
                ELSE "to_client"
  /\ UNCHANGED <<boxVars, line, action>>

(* The client unwraps the result of from_bytes as well.                    *)
ClientReads ==
  /\ at = "to_client"
  /\ LET m == FromBytes(socket) IN
     IF m # Err /\ ClientUnwraps(m) THEN Through
     ELSE at' = "panicked" /\ UNCHANGED <<line, action, socket>>
  /\ UNCHANGED boxVars

----------------------------------------------------------------------------
LineNext ==
  \/ Key \/ Submit \/ \E name \in Usernames : SendRequest(name)
  \/ NotSent \/ ServerReads \/ ClientReads

LineSpec == Init /\ [][LineNext]_lineVars
----------------------------------------------------------------------------
(* The input box is a line editor: whatever is typed, erased and moved,    *)
(* characters of several bytes included, the submitted line is the text    *)
(* around the cursor (input_box.rs).                                       *)
EditedLine ==
  INSTANCE Editor WITH before <- SubSeq(input, 1, char_index),
                       after <- SubSeq(input, char_index + 1, Len(input))

EditorSpec == EditedLine!Spec

(* The command by which the user asks for a request.                       *)
CommandOf(type) ==
  CASE type = "Register" -> "Connect"
    [] type = "ChangeName" -> "SetName"
    [] OTHER -> type

(* The request that reaches the server says what the line says, word for   *)
(* word: the command, its argument, and for a message all of the rest      *)
(* (action.rs:52 takes a message apart and puts it together again, and     *)
(* main.rs:193 builds each of the requests by hand). The argument of       *)
(* /connect is the server's address, which no request carries.             *)
ArrivesAsTyped ==
  at = "to_server" =>
    LET command == <<Slash>> \o Keyword[CommandOf(socket.type)]
        said == IF socket.type = "Register" THEN <<command>>
                ELSE <<command, Unwrap(socket.arg)>>
    IN
    IF socket.content = None THEN IsPrefix(said, Words(line))
    ELSE Words(line) = said \o Words(Unwrap(socket.content))

(* No message is refused by its own sender or its reader, who would tell   *)
(* nobody (chatserver's mod.rs:149, chatclient's main.rs:193).             *)
NeverLost == at # "lost"

(* No handler unwraps a field that the message it reads does not have: in  *)
(* the client the panic ends the state task and poisons the state, in the  *)
(* server it ends the connection task (state.rs:63, server/mod.rs:193).    *)
NeverPanics == at # "panicked"
=============================================================================
