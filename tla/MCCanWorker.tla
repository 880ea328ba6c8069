---------------------------- MODULE MCCanWorker ----------------------------
(***************************************************************************)
(* A worker with a small ring for TLC.                                     *)
(***************************************************************************)
EXTENDS CanWorker

TwoChunks == [p \in Pgn |-> IF p \in {"product", "userfast"} THEN 2 ELSE 1]
EveryKind == {[pgn |-> "userfast", src |-> Own],
                [pgn |-> "user", src |-> 0], [pgn |-> "synthetic", src |-> Own]}
=============================================================================
