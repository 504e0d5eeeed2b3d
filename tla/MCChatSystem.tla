---------------------------- MODULE MCChatSystem ----------------------------
(* Instances of ChatSystem for TLC.                                        *)
EXTENDS ChatSystem, TLC

SystemRequests == {"Register", "ChangeName", "PrivMsg", "List"}
SystemCounted == {}
AsksUsers == {[type |-> "List", arg |-> "users"]}
PeersRegister == {"Register"}

AllNames == [type : {"SetName", "PrivMsg"}, name : Names]
UserCommands == [type : {"Connect", "Disconnect", "Quit"}] \cup AllNames

Symmetry == Permutations(Names)
=============================================================================
