-------------------------- MODULE AddressOwnership --------------------------
(***************************************************************************)
(* What address claiming promises to the rest of a gateway: an address is  *)
(* owned by at most one node, a node owns at most one address, and an      *)
(* address changes hands only through a moment at which nobody owns it.    *)
(* This is what `is_claimed` and `address` (address_claim.rs:101-116) let  *)
(* a caller rely on when it stamps a source address on its own frames.     *)
(***************************************************************************)
CONSTANTS Node,       \* the nodes of the bus
          Addr,       \* the assignable source addresses
          NullAddr    \* what a node without an address reports, not in Addr

VARIABLE owned    \* owned[n]: the address n owns, or NullAddr

Free(a) == \A n \in Node : owned[n] # a

Init == owned = [n \in Node |-> NullAddr]

\* A claim that nobody contested becomes an ownership.
Acquire(n, a) ==
    /\ owned[n] = NullAddr
    /\ Free(a)
    /\ owned' = [owned EXCEPT ![n] = a]

\* An owner that must defend or yield its address owns nothing meanwhile.
Release(n) ==
    /\ owned[n] \in Addr
    /\ owned' = [owned EXCEPT ![n] = NullAddr]

Next == \E n \in Node : Release(n) \/ \E a \in Addr : Acquire(n, a)

Spec == Init /\ [][Next]_owned
=============================================================================
