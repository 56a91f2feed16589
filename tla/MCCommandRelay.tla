--------------------------- MODULE MCCommandRelay ---------------------------
(* CommandRelay with clients that keep away from the ids the device uses, and  *)
(* with clients that do not.                                                   *)
EXTENDS CommandRelay

\* one client sends an id of its own, one leaves it to the device
FarId  == [c \in {"own"} |-> <<"low", 99>>]
\* an id a client may choose, and the supervisor uses
NearId == [c \in {"own"} |-> <<"low", 2>>]
NoIds  == [c \in {} |-> <<"low", 1>>]
=============================================================================
