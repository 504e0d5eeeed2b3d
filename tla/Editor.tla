------------------------------- MODULE Editor -------------------------------
(***************************************************************************)
(* What a line editor promises: the text before the cursor, the text       *)
(* after it, and the line that was entered last, until somebody took it.   *)
(***************************************************************************)
EXTENDS Sequences, SequencesExt

CONSTANT Char

VARIABLES before, after, line

vars == <<before, after, line>>

NoLine == <<>>

Init ==
  /\ before = <<>>
  /\ after = <<>>
  /\ line = NoLine

Insert(c) ==
  /\ before' = Append(before, c)
  /\ UNCHANGED <<after, line>>

Erase ==
  /\ before # <<>>
  /\ before' = Front(before)
  /\ UNCHANGED <<after, line>>

Left ==
  /\ before # <<>>
  /\ before' = Front(before)
  /\ after' = <<Last(before)>> \o after
  /\ UNCHANGED line

Right ==
  /\ after # <<>>
  /\ before' = Append(before, Head(after))
  /\ after' = Tail(after)
  /\ UNCHANGED line

Enter ==
  /\ line = NoLine
  /\ line' = before \o after
  /\ before' = <<>>
  /\ after' = <<>>

Taken ==
  /\ line' = NoLine
  /\ UNCHANGED <<before, after>>

Next == Erase \/ Left \/ Right \/ Enter \/ Taken \/ \E c \in Char : Insert(c)

Spec == Init /\ [][Next]_vars
=============================================================================
