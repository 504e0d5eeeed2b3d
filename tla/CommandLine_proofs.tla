------------------------- MODULE CommandLine_proofs -------------------------
(***************************************************************************)
(* No message is lost for want of a field, none makes its reader panic,    *)
(* and the cursor stays in the text: for all characters, spellings, lines  *)
(* and texts.                                                              *)
(***************************************************************************)
EXTENDS CommandLine, TLAPS

----------------------------------------------------------------------------
(* Options and messages.                                                   *)

(* Something is not nothing, and unwraps to itself.                        *)
LEMMA SomeIsThere ==
  ASSUME NEW x
  PROVE  Some(x) # None /\ Unwrap(Some(x)) = x
BY DEF Some, None, Unwrap

(* What check_message passes: for each type, whether its fields are there. *)
Formed(m) ==
  /\ m.type \in MessageType
  /\ m.arg = None <=> m.type \in ContentOnly
  /\ m.content = None <=> m.type \in ArgumentOnly
  /\ m.type = "Registered" => Unwrap(m.arg) \in Number

(* A message of a known type is not mistaken for an error.                 *)
LEMMA TypedIsNotErr ==
  ASSUME NEW m, m.type \in MessageType
  PROVE  m # Err
<1>1. "Err" \notin MessageType
  BY DEF MessageType, ArgumentOnly, ArgumentAndContent, ContentOnly
<1>2. Err.type = "Err"
  BY DEF Err
<1> QED BY <1>1, <1>2

(* A well-formed message is read as it was built, and is not an error.     *)
LEMMA FormedIsRead ==
  ASSUME NEW m, Formed(m)
  PROVE  m # Err /\ FromBytes(m) = m
<1>1. m # Err
  BY TypedIsNotErr DEF Formed
<1>2. CheckMessage(m)
  BY DEF Formed, CheckMessage
<1> QED BY <1>1, <1>2 DEF FromBytes, Checked

(* build succeeds when the fields are those of the type.                   *)
LEMMA BuildForms ==
  ASSUME NEW type \in MessageType, NEW arg, NEW content,
         arg = None <=> type \in ContentOnly,
         content = None <=> type \in ArgumentOnly,
         type = "Registered" => Unwrap(arg) \in Number
  PROVE  /\ Build(type, arg, content) = [type |-> type, arg |-> arg, content |-> content]
         /\ Formed(Build(type, arg, content))
<1> DEFINE m == [type |-> type, arg |-> arg, content |-> content]
<1>1. m.type = type /\ m.arg = arg /\ m.content = content
  OBVIOUS
<1>2. CheckMessage(m)
  BY <1>1 DEF CheckMessage
<1>3. Build(type, arg, content) = m
  BY <1>2 DEF Build, Checked
<1>4. Formed(m)
  BY <1>1 DEF Formed
<1> QED BY <1>3, <1>4

----------------------------------------------------------------------------
(* Every handler finds the fields that it unwraps.                         *)

(* The server's handlers of requests.                                      *)
LEMMA ServerFindsFields ==
  ASSUME NEW m, Formed(m), m.type \in RequestType
  PROVE  ServerUnwraps(m)
BY DEF Formed, RequestType, ServerUnwraps, ContentOnly, ArgumentOnly

(* The client's handlers of answers and messages.                          *)
LEMMA ClientFindsFields ==
  ASSUME NEW m, Formed(m)
  PROVE  ClientUnwraps(m)
BY DEF Formed, ClientUnwraps, ContentOnly, ArgumentOnly

(* Every answer to a request is built, whatever texts go into it.          *)
LEMMA AnswersForm ==
  ASSUME NEW m, Formed(m), m.type \in RequestType,
         NEW id \in Number, NEW cmd, NEW text, NEW r \in Answers(m, id, cmd, text)
  PROVE  Formed(r)
<1> USE SomeIsThere DEF MessageType, ContentOnly, ArgumentOnly, ArgumentAndContent
<1>1. m.arg # None /\ (m.type \in {"SendTo", "PrivMsg"} => m.content # None)
  BY DEF Formed, RequestType
<1>2. CASE r = Build("Failed", Some(cmd), Some(text))
  <2>1. Some(cmd) # None /\ Some(text) # None
    BY SomeIsThere
  <2> QED BY <1>2, <2>1, BuildForms
<1>3. CASE r \in Succeeded(m, id, text)
  <2>0. Some(id) # None /\ Some(text) # None /\ Unwrap(Some(id)) \in Number
    BY SomeIsThere
  <2>1. CASE m.type = "Register"
    <3>1. r = Build("Registered", Some(id), m.arg)
      BY <1>3, <2>1 DEF Succeeded, Registered
    <3> QED BY <1>1, <2>0, <3>1, BuildForms
  <2>2. CASE m.type = "ChangeName"
    <3>1. r = Build("ChangedName", m.arg, Some(text))
      BY <1>3, <2>2 DEF Succeeded
    <3> QED BY <1>1, <2>0, <3>1, BuildForms
  <2>3. CASE m.type \in {"Join", "Leave", "Create"}
    <3>1. \E t \in {"Joined", "LeftRoom", "CreatedRoom"} : r = Build(t, m.arg, None)
      BY <1>3, <2>3 DEF Succeeded
    <3> QED BY <1>1, <3>1, BuildForms
  <2>4. CASE m.type \in {"SendTo", "PrivMsg"}
    <3>1. \E t \in {"MessagedRoom", "OutgoingMsg"} : r = Build(t, m.arg, m.content)
      BY <1>3, <2>4 DEF Succeeded
    <3> QED BY <1>1, <2>4, <3>1, BuildForms
  <2>5. CASE m.type = "List"
    <3>1. \E t \in {"Users", "UserRooms", "AllRooms"} : r = Build(t, None, Some(text))
      BY <1>3, <2>5 DEF Succeeded
    <3> QED BY <2>0, <3>1, BuildForms
  <2> QED BY <2>1, <2>2, <2>3, <2>4, <2>5 DEF RequestType
<1> QED BY <1>2, <1>3 DEF Answers

(* So is every message to other clients.                                   *)
LEMMA PushesForm ==
  ASSUME NEW m, Formed(m), NEW text, NEW r \in Pushes(m, text)
  PROVE  Formed(r)
<1> USE DEF MessageType, ContentOnly, ArgumentOnly, ArgumentAndContent
<1>1. Some(text) # None
  BY SomeIsThere
<1>2. CASE m.type = "SendTo"
  <2>1. r = Build("RoomMessage", m.arg, Some(text)) /\ m.arg # None
    BY <1>2 DEF Pushes, Formed
  <2> QED BY <1>1, <2>1, BuildForms
<1>3. CASE m.type = "PrivMsg"
  <2>1. r = Build("IncomingMsg", None, Some(text))
    BY <1>3 DEF Pushes
  <2> QED BY <1>1, <2>1, BuildForms
<1> QED BY <1>2, <1>3 DEF Pushes

----------------------------------------------------------------------------
(* The parser.                                                             *)

(* An action has the fields that its request needs.                        *)
ActionFormed(a) ==
  \/ a.type \in Bare \cup {"Invalid"}
  \/ a.type \in WithArgument /\ a.arg # None /\ a.content = None
  \/ a.type \in WithMessage /\ a.arg # None /\ a.content # None

(* What the parser makes of a line has the arguments of its command.       *)
LEMMA ParsedIsFormed ==
  ASSUME NEW text
  PROVE  ActionFormed(ParseCommand(text))
<1> DEFINE words == Words(text)
           Says(c) == words # <<>> /\ words[1] = <<Slash>> \o Keyword[c]
           Parsed(c, arg, content) == [type |-> c, arg |-> arg, content |-> content]
           message == Joined(SubSeq(words, 3, Len(words)))
<1> HIDE DEF words, message
<1>1. Some(words[2]) # None /\ Some(message) # None
  BY SomeIsThere
<1>2. CASE \E c \in Bare : Says(c)
  <2> DEFINE c == CHOOSE c \in Bare : Says(c)
  <2>1. c \in Bare
    BY <1>2
  <2>2. ParseCommand(text) = Parsed(c, None, None)
    BY <1>2 DEF ParseCommand, words
  <2> QED BY <2>1, <2>2 DEF ActionFormed
<1>3. CASE ~(\E c \in Bare : Says(c)) /\ \E c \in WithArgument : Says(c) /\ Len(words) > 1
  <2> DEFINE c == CHOOSE c \in WithArgument : Says(c)
  <2>1. c \in WithArgument
    BY <1>3
  <2>2. ParseCommand(text) = Parsed(c, Some(words[2]), None)
    BY <1>3 DEF ParseCommand, words
  <2> QED BY <1>1, <2>1, <2>2 DEF ActionFormed
<1>4. CASE /\ ~(\E c \in Bare : Says(c))
           /\ ~(\E c \in WithArgument : Says(c) /\ Len(words) > 1)
           /\ \E c \in WithMessage : Says(c) /\ Len(words) > 2
  <2> DEFINE c == CHOOSE c \in WithMessage : Says(c)
  <2>1. c \in WithMessage
    BY <1>4
  <2>2. ParseCommand(text) = Parsed(c, Some(words[2]), Some(message))
    BY <1>4 DEF ParseCommand, words, message
  <2> QED BY <1>1, <2>1, <2>2 DEF ActionFormed
<1>5. CASE /\ ~(\E c \in Bare : Says(c))
           /\ ~(\E c \in WithArgument : Says(c) /\ Len(words) > 1)
           /\ ~(\E c \in WithMessage : Says(c) /\ Len(words) > 2)
  <2>1. ParseCommand(text) = Invalid
    BY <1>5 DEF ParseCommand, words
  <2> QED BY <2>1 DEF ActionFormed, Invalid
<1> QED BY <1>2, <1>3, <1>4, <1>5

(* Every request of such an action is built.                               *)
LEMMA RequestForms ==
  ASSUME NEW name, ActionFormed(action), action.type \in WithArgument \cup WithMessage
  PROVE  Formed(RequestOf(name)) /\ RequestOf(name).type \in RequestType
<1> USE DEF MessageType, ContentOnly, ArgumentOnly, ArgumentAndContent, RequestType
<1>1. Some(name) # None
  BY SomeIsThere
<1>2. CASE action.type = "Connect"
  <2>1. RequestOf(name) = Build("Register", Some(name), None)
    BY <1>2 DEF RequestOf
  <2> QED BY <1>1, <2>1, BuildForms
<1>3. CASE action.type = "SetName"
  <2>1. /\ RequestOf(name) = Build("ChangeName", action.arg, None)
        /\ action.arg # None
    BY <1>3 DEF RequestOf, ActionFormed, Bare, WithMessage
  <2> QED BY <2>1, BuildForms
<1>4. CASE action.type \in {"List", "Join", "Leave", "Create"}
  <2>1. /\ RequestOf(name) = Build(action.type, action.arg, action.content)
        /\ action.arg # None /\ action.content = None
    BY <1>4 DEF RequestOf, ActionFormed, Bare, WithMessage
  <2> QED BY <1>4, <2>1, BuildForms
<1>5. CASE action.type \in WithMessage
  <2>1. /\ RequestOf(name) = Build(action.type, action.arg, action.content)
        /\ action.arg # None /\ action.content # None
        /\ action.type \in {"SendTo", "PrivMsg"}
    BY <1>5 DEF RequestOf, ActionFormed, Bare, WithArgument, WithMessage
  <2> QED BY <2>1, BuildForms
<1> QED BY <1>2, <1>3, <1>4, <1>5 DEF WithArgument

----------------------------------------------------------------------------
(* The inductive invariant: wherever the line got to, what is there has    *)
(* its fields.                                                             *)
LineInv ==
  /\ at \in {"box", "channel", "to_server", "to_client"}
  /\ at = "channel" => ActionFormed(action)
  /\ at = "to_server" => Formed(socket) /\ socket.type \in RequestType
  /\ at = "to_client" => Formed(socket)

(* LineInv holds at first.                                                 *)
LEMMA LineInvInit == Init => LineInv
BY DEF Init, LineInv

(* LineInv is preserved by every step.                                     *)
LEMMA LineInvNext == LineInv /\ [LineNext]_lineVars => LineInv'
<1> SUFFICES ASSUME LineInv, [LineNext]_lineVars
             PROVE  LineInv'
  OBVIOUS
<1>1. CASE Key
  BY <1>1 DEF Key, LineInv
<1>2. CASE Submit
  <2>1. at' = "channel" /\ action' = ParseCommand(input)
    BY <1>2 DEF Submit
  <2> QED BY <2>1, ParsedIsFormed DEF LineInv
<1>3. ASSUME NEW name \in Usernames, SendRequest(name)
      PROVE  LineInv'
  <2>1. /\ ActionFormed(action)
        /\ action.type \in WithArgument \cup WithMessage
        /\ socket' = RequestOf(name)
        /\ at' = IF socket' = Err THEN "lost" ELSE "to_server"
    BY <1>3 DEF SendRequest, LineInv
  <2>2. Formed(socket') /\ socket'.type \in RequestType
    BY <2>1, RequestForms
  <2>3. socket' # Err
    BY <2>2, FormedIsRead
  <2> QED BY <2>1, <2>2, <2>3 DEF LineInv
<1>4. CASE NotSent
  BY <1>4 DEF NotSent, Through, LineInv
<1>5. CASE ServerReads
  <2>1. Formed(socket) /\ socket.type \in RequestType
    BY <1>5 DEF ServerReads, LineInv
  <2>2. FromBytes(socket) = socket /\ socket # Err
    BY <2>1, FormedIsRead
  <2>3. PICK id \in SessionIds, cmd \in ServerTexts, text \in ServerTexts :
          \E sent \in Answers(socket, id, cmd, text) \cup Pushes(socket, text) :
            /\ socket' = sent
            /\ at' = IF socket = Err THEN "lost"
                     ELSE IF ~ServerUnwraps(socket) THEN "panicked"
                     ELSE IF sent = Err THEN "lost"
                     ELSE "to_client"
    BY <1>5, <2>2 DEF ServerReads
  <2>4. PICK sent \in Answers(socket, id, cmd, text) \cup Pushes(socket, text) :
            /\ socket' = sent
            /\ at' = IF socket = Err THEN "lost"
                     ELSE IF ~ServerUnwraps(socket) THEN "panicked"
                     ELSE IF sent = Err THEN "lost"
                     ELSE "to_client"
    BY <2>3
  <2>5. id \in Number
    BY IdAssumption
  <2>6. Formed(sent)
    BY <2>1, <2>4, <2>5, AnswersForm, PushesForm
  <2>7. sent # Err
    BY <2>6, FormedIsRead
  <2>8. ServerUnwraps(socket)
    BY <2>1, ServerFindsFields
  <2> QED BY <2>2, <2>4, <2>6, <2>7, <2>8 DEF LineInv
<1>6. CASE ClientReads
  <2>1. Formed(socket)
    BY <1>6 DEF ClientReads, LineInv
  <2>2. FromBytes(socket) # Err /\ ClientUnwraps(FromBytes(socket))
    BY <2>1, FormedIsRead, ClientFindsFields
  <2>3. Through
    BY <1>6, <2>2 DEF ClientReads
  <2> QED BY <2>3 DEF Through, LineInv
<1>7. CASE UNCHANGED lineVars
  BY <1>7 DEF lineVars, LineInv, Formed, ActionFormed
<1> QED BY <1>1, <1>2, <1>3, <1>4, <1>5, <1>6, <1>7 DEF LineNext

(* LineInv is invariant.                                                   *)
LEMMA LineInvariant == LineSpec => []LineInv
BY LineInvInit, LineInvNext, PTL DEF LineSpec

(* No message is refused by its own sender or its reader: for all lines,   *)
(* names and texts.                                                        *)
THEOREM NothingLost == LineSpec => []NeverLost
<1>1. LineInv => NeverLost
  BY DEF LineInv, NeverLost
<1> QED BY <1>1, LineInvariant, PTL

(* No handler unwraps a field that is not there, on either side.           *)
THEOREM NothingPanics == LineSpec => []NeverPanics
<1>1. LineInv => NeverPanics
  BY DEF LineInv, NeverPanics
<1> QED BY <1>1, LineInvariant, PTL

----------------------------------------------------------------------------
(* The input box.                                                          *)

BoxInv ==
  /\ input \in Seq(Char)
  /\ char_index \in 0 .. Len(input)

(* The cursor is never moved out of the text.                              *)
LEMMA Clamped ==
  ASSUME input' \in Seq(Char), NEW i \in Nat
  PROVE  ClampCursor(i) \in 0 .. Len(input')
  BY DEF ClampCursor

(* BoxInv is preserved.                                                    *)
LEMMA BoxInvNext == BoxInv /\ [LineNext]_lineVars => BoxInv'
<1> SUFFICES ASSUME BoxInv, [LineNext]_lineVars PROVE BoxInv'
  OBVIOUS
<1>1. input \in Seq(Char) /\ char_index \in 0 .. Len(input)
  BY DEF BoxInv
<1>2. SaturatingPred(char_index) \in Nat /\ char_index + 1 \in Nat
  BY <1>1 DEF SaturatingPred
<1>3. CASE CursorLeft \/ CursorRight
  BY <1>1, <1>2, <1>3, Clamped DEF CursorLeft, CursorRight, BoxInv
<1>4. ASSUME NEW c \in Char, EnterChar(c)
      PROVE  BoxInv'
  <2>1. PICK n \in 0 .. Len(input) : input' = InsertAt(input, n + 1, c)
    BY <1>4 DEF EnterChar
  <2>2. /\ SubSeq(input, 1, n) \in Seq(Char)
        /\ SubSeq(input, n + 1, Len(input)) \in Seq(Char)
    BY <1>1
  <2>3. input' = SubSeq(input, 1, n) \o <<c>> \o SubSeq(input, n + 1, Len(input))
    <3>1. (n + 1) - 1 = n
      OBVIOUS
    <3>2. input' = SubSeq(input, 1, (n + 1) - 1) \o <<c>> \o SubSeq(input, n + 1, Len(input))
      BY <2>1 DEF InsertAt
    <3> QED BY <3>1, <3>2
  <2>4. input' \in Seq(Char)
    <3>1. <<c>> \in Seq(Char)
      OBVIOUS
    <3>2. SubSeq(input, 1, n) \o <<c>> \in Seq(Char)
      BY <2>2, <3>1
    <3> QED BY <2>2, <2>3, <3>2
  <2> QED BY <1>2, <1>4, <2>4, Clamped DEF EnterChar, BoxInv
<1>5. CASE DeleteChar
  <2>1. /\ SubSeq(input, 1, char_index - 1) \in Seq(Char)
        /\ SubSeq(input, char_index + 1, Len(input)) \in Seq(Char)
    BY <1>1, <1>5 DEF DeleteChar
  <2>2. input' \in Seq(Char)
    BY <1>5, <2>1 DEF DeleteChar, Prefix
  <2> QED BY <1>2, <1>5, <2>2, Clamped DEF DeleteChar, BoxInv
<1>6. CASE Clear
  BY <1>6 DEF Clear, BoxInv
<1>7. CASE UNCHANGED boxVars
  BY <1>7 DEF boxVars, BoxInv
<1> QED
  BY <1>3, <1>4, <1>5, <1>6, <1>7
  DEF LineNext, Key, Submit, SendRequest, NotSent, ServerReads, ClientReads, lineVars

(* With the cursor in the text, the offset is that of the character under  *)
(* it, or of the end.                                                      *)
LEMMA AtBoundary == BoxInv => OnBoundary
<1> SUFFICES ASSUME BoxInv PROVE OnBoundary
  OBVIOUS
<1>1. input \in Seq(Char) /\ char_index \in 0 .. Len(input)
  BY DEF BoxInv
<1>2. CASE char_index < Len(input)
  BY <1>1, <1>2 DEF OnBoundary, ByteIndex
<1>3. CASE char_index = Len(input)
  <2>1. Prefix(input, char_index) = input
    BY <1>1, <1>3 DEF Prefix
  <2> QED BY <1>1, <1>3, <2>1 DEF OnBoundary, ByteIndex
<1> QED BY <1>1, <1>2, <1>3

(* The cursor stays in the text and String::insert is given the offset of  *)
(* the character under it: for lines of any length, and characters of any  *)
(* widths.                                                                 *)
THEOREM CursorOnBoundary == LineSpec => []OnBoundary
<1>1. Init => BoxInv
  BY DEF Init, BoxInit, BoxInv
<1> QED BY <1>1, AtBoundary, BoxInvNext, PTL DEF LineSpec
=============================================================================
