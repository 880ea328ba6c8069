-------------------------------- MODULE IsoTp --------------------------------
(***************************************************************************)
(* ISO 11783 transport protocol as a monitor hears it: handle_tp_cm and    *)
(* handle_tp_dt of canboat-core/src/reassembly.rs.                         *)
(*                                                                         *)
(* A connect frame (BAM or RTS) declares a payload, numbered data frames   *)
(* carry it in chunks of 7 bytes, an abort ends it early.  The reassembler *)
(* keeps one session per source and emits the payload when every declared  *)
(* number was seen.  It answers nothing: whatever it misses is gone.       *)
(*                                                                         *)
(* A chunk is represented by the transfer that wrote it, the header of a   *)
(* session (pgn, destination, priority, timestamp) by the transfer whose   *)
(* connect opened it.                                                      *)
(***************************************************************************)
EXTENDS Integers

CONSTANTS
    Src,           \* the sources that send transfers
    TpSlots,       \* ISO_TP_SLOTS
    MaxPackets,    \* the most packets a transfer has (255)
    MaxTransfers,  \* bound on the transfers
    MaxLost,       \* bound on frames lost
    MaxAgain       \* bound on data frames sent again

Slot     == 1 .. TpSlots
Packet   == 1 .. MaxPackets
Transfer == 0 .. MaxTransfers

VARIABLES
    tp_slots,     \* the sessions
    tp_next_age,  \* how many sessions were ever claimed
    out,          \* the payload the last frame completed, or NoPayload
    sending,      \* sending[s]: the transfer s is in the middle of
    started,      \* how many transfers were started, which numbers them
    unheard,      \* unheard[s]: the last connect of s was lost or refused
    lost, again   \* frames lost, frames sent again

vars == <<tp_slots, tp_next_age, out, sending, started, unheard, lost, again>>

NoPayload == [src |-> "none"]

SessionType == [used : BOOLEAN, src : Src, opened : Transfer, packets : 0 .. MaxPackets,
                received : SUBSET Packet, data : [Packet -> Transfer], age : Nat]

-----------------------------------------------------------------------------
(* The reassembler.                                                        *)

\* find_tp_slot: the session of a source, if it has one.
Session(s) == {i \in Slot : tp_slots[i].used /\ tp_slots[i].src = s}

Lowest(S) == CHOOSE i \in S : \A j \in S : i <= j
OldestSession == CHOOSE i \in Slot : \A j \in Slot : tp_slots[i].age <= tp_slots[j].age
FreeSlots == {i \in Slot : ~tp_slots[i].used}

\* Mutant: an existing session of the source is not looked for.
ClaimedAlwaysNew(s) == IF FreeSlots # {} THEN Lowest(FreeSlots) ELSE OldestSession

\* claim_tp_slot: the source's own session, else a free one, else the oldest.
Claimed(s) ==
    CASE Session(s) # {} -> Lowest(Session(s))
      [] Session(s) = {} /\ FreeSlots # {} -> Lowest(FreeSlots)
      [] OTHER -> OldestSession

\* The session a connect of s is to open belongs to another source, r.
Evicts(s, r) == tp_slots[Claimed(s)].used /\ tp_slots[Claimed(s)].src = r

\* Mutant: the numbers received for the session's last transfer stay.
OpenedKeeps(s, t, n) ==
    [used |-> TRUE, src |-> s, opened |-> t, packets |-> n,
     received |-> IF Session(s) = {} THEN {} ELSE tp_slots[Claimed(s)].received,
     data |-> [p \in Packet |-> 0], age |-> tp_next_age + 1]

\* What a connect leaves in the claimed slot: nothing received, padding (0).
Opened(s, t, n) ==
    [used |-> TRUE, src |-> s, opened |-> t, packets |-> n, received |-> {},
     data |-> [p \in Packet |-> 0], age |-> tp_next_age + 1]

\* BAM or RTS of n packets.
Connect(s, t, n) ==
    /\ tp_slots' = [tp_slots EXCEPT ![Claimed(s)] = Opened(s, t, n)]
    /\ tp_next_age' = tp_next_age + 1
    /\ out' = NoPayload

\* Abort drops the session of the source.
Abort(s) ==
    /\ tp_slots' = [i \in Slot |-> IF i \in Session(s) THEN [tp_slots[i] EXCEPT !.used = FALSE]
                                                     ELSE tp_slots[i]]
    /\ out' = NoPayload
    /\ UNCHANGED tp_next_age

\* A frame that is plumbing of others: CTS, end of message, a connect that is
\* short or declares no packets, data without a session or out of its range.
Swallow == out' = NoPayload /\ UNCHANGED <<tp_slots, tp_next_age>>

\* Mutants: one number too many is waited for; complete when the last is seen.
CompletesLate(session, received) == 1 .. session.packets + 1 \subseteq received
CompletesOnLast(session, received) == session.packets \in received

\* Every declared number has arrived.
Completes(session, received) == 1 .. session.packets \subseteq received

\* Data frame p of s; t is what its chunk holds then.
Data(s, p, t) ==
    LET i        == Lowest(Session(s))
        received == tp_slots[i].received \cup {p}
        data     == [tp_slots[i].data EXCEPT ![p] = t]
        done     == Completes(tp_slots[i], received)
    IN
    IF Session(s) = {} \/ p > tp_slots[i].packets THEN Swallow ELSE
    /\ tp_slots' = [tp_slots EXCEPT ![i].received = received, ![i].data = data, ![i].used = ~done]
    /\ out' = IF ~done THEN NoPayload
              ELSE [src |-> s, opened |-> tp_slots[i].opened,
                    parts |-> [q \in 1 .. tp_slots[i].packets |-> data[q]]]
    /\ UNCHANGED tp_next_age

-----------------------------------------------------------------------------
(* The senders and the bus.                                                *)

Init ==
    /\ tp_slots = [i \in Slot |-> [used |-> FALSE, src |-> CHOOSE s \in Src : TRUE, opened |-> 0,
                                   packets |-> 0, received |-> {}, data |-> [p \in Packet |-> 0], age |-> 0]]
    /\ tp_next_age = 0
    /\ out = NoPayload
    /\ sending = [s \in Src |-> [transfer |-> 0, packets |-> 0, next |-> 1, whole |-> FALSE]]
    /\ started = 0
    /\ unheard = [s \in Src |-> FALSE]
    /\ lost = 0
    /\ again = 0

\* s opens its next transfer, whether or not it has finished the last one.
SendConnect(s, heard) ==
    \E n \in Packet :
        /\ started < MaxTransfers
        /\ started' = started + 1
        /\ IF heard THEN Connect(s, started', n) ELSE Swallow
        /\ lost' = IF heard THEN lost ELSE lost + 1
        /\ lost' <= MaxLost
        /\ sending' = [r \in Src |->
              IF r = s THEN [transfer |-> started', packets |-> n,
                             next |-> 1, whole |-> heard]
              ELSE [sending[r] EXCEPT !.whole = @ /\ ~(heard /\ Evicts(s, r))]]
        /\ unheard' = [unheard EXCEPT ![s] = ~heard]
        /\ UNCHANGED again

\* s sends its next packet.
SendData(s) ==
    /\ sending[s].next <= sending[s].packets
    /\ Data(s, sending[s].next, sending[s].transfer)
    /\ sending' = [sending EXCEPT ![s].next = @ + 1]
    /\ UNCHANGED <<started, unheard, lost, again>>

\* A peer asked s for an earlier packet once more.
SendAgain(s) ==
    /\ again < MaxAgain
    /\ again' = again + 1
    /\ \E p \in 1 .. sending[s].next - 1 : Data(s, p, sending[s].transfer)
    /\ UNCHANGED <<sending, started, unheard, lost>>

\* The next packet of s is lost.
LoseData(s) ==
    /\ lost < MaxLost
    /\ lost' = lost + 1
    /\ sending[s].next <= sending[s].packets
    /\ sending' = [sending EXCEPT ![s].next = @ + 1, ![s].whole = FALSE]
    /\ out' = NoPayload
    /\ UNCHANGED <<tp_slots, tp_next_age, started, unheard, again>>

\* s gives up its transfer.
SendAbort(s) ==
    /\ sending[s].next \in 2 .. sending[s].packets
    /\ Abort(s)
    /\ sending' = [sending EXCEPT ![s].packets = 0, ![s].whole = FALSE]
    /\ unheard' = [unheard EXCEPT ![s] = FALSE]
    /\ UNCHANGED <<started, lost, again>>

Next == \E s \in Src :
    \/ SendConnect(s, TRUE)
    \/ SendConnect(s, FALSE)
    \/ SendData(s)
    \/ SendAgain(s)
    \/ LoseData(s)
    \/ SendAbort(s)

Spec == Init /\ [][Next]_vars

-----------------------------------------------------------------------------
(* Properties.                                                             *)

\* Types, and: an open session still waits for a packet.
TypeOK ==
    /\ tp_slots \in [Slot -> SessionType]
    /\ tp_next_age \in Nat
    /\ started \in Transfer
    /\ unheard \in [Src -> BOOLEAN]
    /\ lost \in 0 .. MaxLost /\ again \in 0 .. MaxAgain
    /\ sending \in [Src -> [transfer : Transfer, packets : 0 .. MaxPackets,
                            next : 1 .. MaxPackets + 1, whole : BOOLEAN]]
    /\ \A i \in Slot : tp_slots[i].used =>
          ~(1 .. tp_slots[i].packets \subseteq tp_slots[i].received)

\* "Keyed on source address - the spec allows one transfer per source at a
\* time" (reassembly.rs:205): however sessions are opened, completed, aborted
\* and evicted, no source ever has two.
OneSessionPerSource == \A s \in Src : \A i, j \in Session(s) : i = j

\* A payload is of the transfer whose header it carries, chunk for chunk, in
\* spite of lost and repeated packets, aborts and evictions: unless the connect
\* of the running transfer was missed, which the receiver cannot know.
PayloadOfOneTransfer ==
    out # NoPayload /\ ~unheard[out.src] =>
        /\ out.opened = sending[out.src].transfer
        /\ \A p \in DOMAIN out.parts : out.parts[p] = out.opened

\* Even then it never holds padding in place of a chunk: a payload whose
\* packets were not all heard is not handed on.
NoGaps == out # NoPayload => \A p \in DOMAIN out.parts : out.parts[p] # 0

\* A transfer heard from its connect to its last packet comes out with that
\* packet, unless its session was given to another source.
WholeTransferEmitted ==
    \A s \in Src :
        SendData(s) /\ sending[s].whole /\ sending[s].next = sending[s].packets
        => out' # NoPayload /\ out'.src = s
WholeTransfersEmitted == [][WholeTransferEmitted]_vars
=============================================================================
