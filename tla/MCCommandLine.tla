--------------------------- MODULE MCCommandLine ----------------------------
(* Instances of CommandLine for TLC: a blank, the slash, a letter of one   *)
(* byte and a letter of two. The spellings are the shortest that leave     *)
(* room for a message of two words in a line of eight characters. A name   *)
(* is a word; the digit stands for all ids.                                *)
EXTENDS CommandLine

CONSTANTS space, slash, a, e, digit

Chars == {space, slash, a, e}
Widths == [c \in Chars |-> IF c = e THEN 2 ELSE 1]
Blanks == {space}
Spelling ==
  [SendTo |-> <<a>>, PrivMsg |-> <<e>>,
   SetName |-> <<a, a>>, Connect |-> <<a, e>>, Join |-> <<e, a>>, List |-> <<e, e>>,
   Leave |-> <<a, a, a>>, Create |-> <<a, a, e>>, Help |-> <<a, e, a>>,
   Disconnect |-> <<a, e, e>>, Quit |-> <<e, a, a>>]
Empty == <<>>
Names == {<<>>, <<a>>}
Numbers == {<<digit>>}
Texts == {<<>>, <<a, space, e>>}
=============================================================================
