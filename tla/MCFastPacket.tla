---------------------------- MODULE MCFastPacket ----------------------------
(***************************************************************************)
(* Bus conditions for TLC.  Sizes 6, 7, 13 and 14 take 1, 2, 2 and 3       *)
(* frames: they are the edges of the number of frames.                     *)
(***************************************************************************)
EXTENDS FastPacket

\* Every loss and every order.
Wild == {[loses |-> "any", order |-> "any", sizes |-> {6, 13}]}

\* One condition of each kind that push recovers from.
Cut       == [loses |-> "tail", order |-> "sent", sizes |-> {6, 7, 13, 14}]
Headless  == [loses |-> "head", order |-> "sent", sizes |-> {14}]
Reordered == [loses |-> "none", order |-> "zero_not_last", sizes |-> {7, 14, 20}]
Tame      == {Cut, Headless, Reordered}

ASSUME TameIsRecoverable == \A b \in Tame : Recoverable(b)

\* Bursts of one size, in order, that lose any of their frames.
Lossy == {[loses |-> "any", order |-> "sent", sizes |-> {14}]}
=============================================================================
