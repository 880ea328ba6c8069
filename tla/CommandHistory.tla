--------------------------- MODULE CommandHistory ---------------------------
(***************************************************************************)
(* The supervisor with a history of when each command was sent, to compare *)
(* with what its documentation says of commands and sessions.              *)
(***************************************************************************)
EXTENDS Supervisor

VARIABLE sentIn   \* for each command sent: the session then connected, or 0

HistoryInit == Init /\ sentIn = <<>>

HistoryNext ==
    /\ Next
    /\ sentIn' = IF sent' = sent THEN sentIn
                 ELSE Append(sentIn, IF HasHandle THEN session ELSE 0)

HistorySpec == HistoryInit /\ [][HistoryNext]_<<vars, sentIn>>

\* The module's comment: commands "that don't drain within one session are
\* discarded when that session ends", and frame_sender's: a command "routes
\* through the active session, or drops on the floor while the device is
\* disconnected".
OnlyFromThisSession == \A s \in Session : \A i \in 1 .. Len(written[s]) :
    sentIn[written[s][i]] = s
=============================================================================
