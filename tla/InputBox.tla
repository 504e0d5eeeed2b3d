------------------------------ MODULE InputBox ------------------------------
(***************************************************************************)
(* The input box of the TUI (tui/components/input_box.rs). The cursor      *)
(* counts characters; String::insert wants the offset of a byte, and       *)
(* panics unless a character begins there. A character takes one to four   *)
(* bytes.                                                                  *)
(***************************************************************************)
EXTENDS Naturals, Sequences, SequencesExt

CONSTANTS
  Char,        \* what can be typed into a line
  Width,       \* the number of bytes of each character in UTF-8
  MaxLength    \* bound: characters in the box

ASSUME InputAssumption ==
  /\ Width \in [Char -> 1 .. 4]
  /\ MaxLength \in Nat

VARIABLES
  char_index,  \* the cursor
  input        \* the text in the box

boxVars == <<char_index, input>>

BoxInit ==
  /\ char_index = 0
  /\ input = <<>>

----------------------------------------------------------------------------
(* The length of a text in bytes, and the offsets at which String::insert  *)
(* takes a character.                                                      *)
Bytes(text) == FoldLeft(LAMBDA n, c : n + Width[c], 0, text)

Prefix(text, n) == SubSeq(text, 1, n)

(* Mistake: the offset is counted in characters.                           *)
ByteIndexInChars == IF char_index < Len(input) THEN char_index ELSE Len(input)

(* byte_index: of the character under the cursor, or of the end.           *)
ByteIndex ==
  IF char_index < Len(input) THEN Bytes(Prefix(input, char_index)) ELSE Bytes(input)

(* Mistake: the cursor is moved before the character is inserted.          *)
ClampCursorBefore(i) == IF i > Len(input) THEN Len(input) ELSE i

ClampCursor(i) == IF i > Len(input') THEN Len(input') ELSE i

SaturatingPred(i) == IF i = 0 THEN 0 ELSE i - 1

CursorLeft ==
  /\ input' = input
  /\ char_index' = ClampCursor(SaturatingPred(char_index))

CursorRight ==
  /\ input' = input
  /\ char_index' = ClampCursor(char_index + 1)

EnterChar(c) ==
  /\ Len(input) < MaxLength
  /\ \E n \in 0 .. Len(input) :
       /\ Bytes(Prefix(input, n)) = ByteIndex
       /\ input' = InsertAt(input, n + 1, c)
  /\ char_index' = ClampCursor(char_index + 1)

DeleteChar ==
  /\ char_index # 0
  /\ input' = Prefix(input, char_index - 1) \o SubSeq(input, char_index + 1, Len(input))
  /\ char_index' = ClampCursor(SaturatingPred(char_index))

(* submit clears the box.                                                  *)
Clear ==
  /\ input' = <<>>
  /\ char_index' = 0
----------------------------------------------------------------------------
(* After any keys and submitted lines the cursor is in the text, and the   *)
(* offset given to String::insert (input_box.rs:33) is that of the         *)
(* character under it, or of the end: at any other the TUI task panics or  *)
(* the character goes elsewhere.                                           *)
OnBoundary ==
  /\ char_index <= Len(input)
  /\ ByteIndex = Bytes(Prefix(input, char_index))
=============================================================================
