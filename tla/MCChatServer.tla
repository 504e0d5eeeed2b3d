---------------------------- MODULE MCChatServer ----------------------------
(* Instances of ChatServer for TLC.                                        *)
EXTENDS ChatServer, TLC

Connecting == {"Register"}

(* Requests about user names, and those of them that a bound limits.       *)
NameRequests == Connecting \cup {"ChangeName", "PrivMsg", "List"}
NameCounted == NameRequests \ Connecting

(* Requests about rooms.                                                   *)
RoomRequests == Connecting \cup {"Join", "Leave", "Create", "SendTo"}
RoomCounted == RoomRequests \ Connecting

(* For liveness: peers that may go on asking for ever, to join rooms they  *)
(* are already in too; only the messages they send are counted.            *)
TalkRequests == Connecting \cup {"Join", "SendTo"}
TalkCounted == {"SendTo"}

(* Names play the same part, and connections do not: they are numbered in  *)
(* the order they are accepted.                                            *)
Symmetry == Permutations(Names)
=============================================================================
