--------------------------- MODULE MCAddressClaim ---------------------------
(***************************************************************************)
(* Small buses for TLC: the nodes are numbers, a node's NAME is its number.*)
(***************************************************************************)
EXTENDS AddressClaim

NumberAsName  == [n \in Node |-> n]
AllWantZero   == [n \in Node |-> 0]
LastWantsOne  == [n \in Node |-> IF \A m \in Node : m <= n THEN 1 ELSE 0]
AllArbitrary  == [n \in Node |-> TRUE]
FirstIsFixed  == [n \in Node |-> \E m \in Node : m < n]
=============================================================================
