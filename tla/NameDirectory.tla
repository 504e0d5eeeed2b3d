---------------------------- MODULE NameDirectory ----------------------------
(***************************************************************************)
(* What the server promises about user names, with neither messages nor    *)
(* tasks: a name has at most one holder, a client holds at most one name,  *)
(* a client that has a name never lacks one until it leaves, a name passes *)
(* from one client to another only by being free in between, and a client  *)
(* that leaves takes its name with it and does not come back.              *)
(***************************************************************************)
CONSTANTS
  Names,
  Clients,
  NoClient      \* not a client: the holder of a name that is free

VARIABLES
  holder,       \* who holds each name
  live,         \* the clients that are there
  past          \* the clients that have left

vars == <<holder, live, past>>

Holds(c) == {n \in Names : holder[n] = c}

Init ==
  /\ holder = [n \in Names |-> NoClient]
  /\ live = {}
  /\ past = {}

Arrive(c) ==
  /\ c \notin live \cup past
  /\ live' = live \cup {c}
  /\ UNCHANGED <<holder, past>>

Claim(c, n) ==
  /\ c \in live
  /\ Holds(c) = {}
  /\ holder[n] = NoClient
  /\ holder' = [holder EXCEPT ![n] = c]
  /\ UNCHANGED <<live, past>>

Rename(c, old, new) ==
  /\ holder[old] = c
  /\ holder[new] = NoClient
  /\ holder' = [holder EXCEPT ![old] = NoClient, ![new] = c]
  /\ UNCHANGED <<live, past>>

Depart(c) ==
  /\ c \in live
  /\ holder' = [n \in Names |-> IF holder[n] = c THEN NoClient ELSE holder[n]]
  /\ live' = live \ {c}
  /\ past' = past \cup {c}

Next ==
  \E c \in Clients :
    \/ Arrive(c) \/ Depart(c)
    \/ \E n \in Names : Claim(c, n)
    \/ \E old, new \in Names : Rename(c, old, new)

Spec == Init /\ [][Next]_vars
=============================================================================
