------------------------------ MODULE Commands ------------------------------
(***************************************************************************)
(* The command parser (state_handler/action.rs): a line becomes an action. *)
(* Lines are sequences of characters, because where words begin and end    *)
(* and what becomes of the blanks between them is what the parser is       *)
(* about; how a command is spelled is a parameter.                         *)
(***************************************************************************)
EXTENDS Options, Naturals, Sequences, SequencesExt, FiniteSetsExt

CONSTANTS
  Space,    \* the blank
  Blank,    \* all white space among the characters
  Slash,    \* the character that a command begins with
  Keyword   \* the spelling of each command

Bare == {"Help", "Disconnect", "Quit"}
WithArgument == {"SetName", "Connect", "List", "Join", "Leave", "Create"}
WithMessage == {"SendTo", "PrivMsg"}
Command == Bare \cup WithArgument \cup WithMessage

ASSUME CommandAssumption ==
  /\ DOMAIN Keyword = Command
  /\ \A c, d \in Command : Keyword[c] = Keyword[d] => c = d
  /\ Space \in Blank

----------------------------------------------------------------------------
(* str::split_whitespace.                                                  *)
Starts(line) ==
  {i \in DOMAIN line : line[i] \notin Blank /\ (i > 1 => line[i - 1] \in Blank)}

WordAt(line, i) ==
  SubSeq(line, i,
         Max({j \in i .. Len(line) : \A k \in i .. j : line[k] \notin Blank}))

(* The n-th of some positions, from left to right.                         *)
Nth(positions, n) ==
  CHOOSE i \in positions : Cardinality({j \in positions : j <= i}) = n

Words(line) ==
  [n \in 1 .. Cardinality(Starts(line)) |-> WordAt(line, Nth(Starts(line), n))]

(* Mistake: a message ends with its first word.                            *)
JoinedFirst(words) == Head(words)

(* Each word and a blank, trimmed.                                         *)
Joined(words) ==
  FoldLeft(LAMBDA text, word : text \o <<Space>> \o word, Head(words), Tail(words))

Invalid == [type |-> "Invalid", arg |-> None, content |-> None]

(* What follows is ignored by commands that do not want it.                *)
ParseCommand(line) ==
  LET words == Words(line)
      Says(c) == words # <<>> /\ words[1] = <<Slash>> \o Keyword[c]
      Parsed(c, arg, content) == [type |-> c, arg |-> arg, content |-> content]
  IN
  IF \E c \in Bare : Says(c)
  THEN Parsed(CHOOSE c \in Bare : Says(c), None, None)
  ELSE IF \E c \in WithArgument : Says(c) /\ Len(words) > 1
  THEN Parsed(CHOOSE c \in WithArgument : Says(c), Some(words[2]), None)
  ELSE IF \E c \in WithMessage : Says(c) /\ Len(words) > 2
  THEN Parsed(CHOOSE c \in WithMessage : Says(c), Some(words[2]),
              Some(Joined(SubSeq(words, 3, Len(words)))))
  ELSE Invalid
=============================================================================
