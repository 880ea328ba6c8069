----------------------------- MODULE Ngt1Framer -----------------------------
(***************************************************************************)
(* The Actisense byte framing: Ngt1Decoder of canboat-core/src/format/     *)
(* ngt1.rs, in NGT-1 and in EBL mode, fed by the encoders of ngt1.rs and   *)
(* ebl.rs over a line that may damage bytes.                               *)
(*                                                                         *)
(*   message   DLE STX command length payload checksum DLE ETX             *)
(*   header    ESC SOH kind payload ESC LF                     (EBL only)  *)
(*                                                                         *)
(* Inside a message DLE is doubled, and in EBL mode ESC as well; inside a  *)
(* header ESC only.  Bytes are the real ones.                              *)
(***************************************************************************)
EXTENDS Integers, Sequences

CONSTANTS
    Plain,      \* what the NGT-1 behaviours send, a sequence of messages
    Logged,     \* what the EBL behaviours send: headers and messages
    Noise,      \* the bytes that may be inserted
    MaxDamage   \* bound on the bytes lost, doubled or inserted

STX == 2
ETX == 3
DLE == 16
ESC == 27
SOH == 1
LF  == 10
Byte == 0 .. 255
Timestamp == 3   \* EBL_TIMESTAMP

VARIABLES
    ebl,      \* the decoder's mode
    todo,     \* the items not sent yet
    wire,     \* the bytes of the item that is being sent
    state,    \* "Idle", "InFrame", "InHeader" or "Escape"
    prev,     \* the state before Escape
    buf,      \* the bytes collected
    got,      \* the items decoded
    damage    \* damages so far

vars == <<ebl, todo, wire, state, prev, buf, got, damage>>

Items == IF ebl THEN Logged ELSE Plain

-----------------------------------------------------------------------------
(* The encoders.                                                           *)

\* The sums of the first bytes, modulo 256.
Sums(bytes) ==
    LET sum[n \in 0 .. Len(bytes)] == IF n = 0 THEN 0 ELSE (sum[n - 1] + bytes[n]) % 256
    IN sum
Sum(bytes) == Sums(bytes)[Len(bytes)]

\* write_stuffed, push_message_byte, push_header_byte: the escapes doubled, of the
\* bytes from the k-th on.
Pushed(byte, escapes) == IF byte \in escapes THEN <<byte, byte>> ELSE <<byte>>
StuffedFrom(bytes, escapes) ==
    LET from[k \in 1 .. Len(bytes) + 1] ==
            IF k > Len(bytes) THEN <<>> ELSE Pushed(bytes[k], escapes) \o from[k + 1]
    IN from
Stuffed(bytes, escapes) == StuffedFrom(bytes, escapes)[1]

\* Mutant: EBL messages are stuffed like NGT-1 messages.
MessageEscapesPlain == {DLE}
MessageEscapes == IF ebl THEN {DLE, ESC} ELSE {DLE}

\* encode_ngt_message, ebl::encode_message: the byte that makes the sum 0 behind the rest.
Body(m) == <<m.command, Len(m.payload)>> \o m.payload
Summed(m) == Append(Body(m), (256 - Sum(Body(m))) % 256)
MessageBytes(m) == <<DLE, STX>> \o Stuffed(Summed(m), MessageEscapes) \o <<DLE, ETX>>

\* ebl::encode_frame, its header record.
HeaderBytes(h) == <<ESC, SOH>> \o Stuffed(<<h.command>> \o h.payload, {ESC}) \o <<ESC, LF>>

Encoded(item) == IF item.kind = "header" THEN HeaderBytes(item) ELSE MessageBytes(item)

-----------------------------------------------------------------------------
(* The decoder.                                                            *)

Message(command, payload) == [kind |-> "message", command |-> command, payload |-> payload]
Header(command, payload)  == [kind |-> "header", command |-> command, payload |-> payload]

\* Mutant: the checksum is not looked at.
AcceptedUnsummed(raw) == Len(raw) >= 3 /\ raw[2] = Len(raw) - 3

\* finish_frame accepts what is long enough, sums to 0 and has its length.
Accepted(raw) == Len(raw) >= 3 /\ Sum(raw) = 0 /\ raw[2] = Len(raw) - 3

\* finish_frame: what it emits, nothing standing for an error.
FinishFrame == IF Accepted(buf) THEN <<Message(buf[1], SubSeq(buf, 3, Len(buf) - 1))>> ELSE <<>>

\* finish_header: a timestamp has 8 bytes, whatever follows them.
FinishHeader ==
    IF buf = <<>> THEN <<>>
    ELSE IF buf[1] = Timestamp /\ Len(buf) >= 9 THEN <<Header(Timestamp, SubSeq(buf, 2, 9))>>
    ELSE <<Header(buf[1], Tail(buf))>>

\* is_escape, and in a header ESC only.
Escapes == CASE state = "InHeader" -> {ESC}
             [] OTHER -> IF ebl THEN {DLE, ESC} ELSE {DLE}

Goto(s, b, items) == state' = s /\ buf' = b /\ got' = got \o items /\ UNCHANGED prev

\* Mutant: the buffer is not emptied.
NotCleared == buf
\* What a start, an end or a broken escape leaves in the buffer.
Cleared == <<>>

\* The byte after an escape.
Escaped(b) ==
    CASE b = STX         -> Goto("InFrame", Cleared, <<>>)
      [] b = ETX         -> Goto("Idle", Cleared, FinishFrame)
      [] ebl /\ b = SOH  -> Goto("InHeader", Cleared, <<>>)
      [] ebl /\ b = LF   -> Goto("Idle", Cleared, FinishHeader)
      [] b = DLE \/ (ebl /\ b = ESC) -> Goto(prev, IF prev = "Idle" THEN buf ELSE Append(buf, b), <<>>)
      [] OTHER           -> Goto("Idle", Cleared, <<>>)

\* push_byte.
PushByte(b) ==
    IF state = "Escape" THEN Escaped(b)
    ELSE IF b \in Escapes THEN state' = "Escape" /\ prev' = state /\ UNCHANGED <<buf, got>>
    ELSE Goto(state, IF state = "Idle" THEN buf ELSE Append(buf, b), <<>>)

-----------------------------------------------------------------------------
(* The line.                                                               *)

Init ==
    /\ ebl \in BOOLEAN
    /\ todo = Items
    /\ wire = <<>>
    /\ state = "Idle" /\ prev = "Idle" /\ buf = <<>>
    /\ got = <<>>
    /\ damage = 0

Send ==
    /\ wire = <<>> /\ todo # <<>>
    /\ wire' = Encoded(Head(todo))
    /\ todo' = Tail(todo)
    /\ UNCHANGED <<ebl, state, prev, buf, got, damage>>

Arrive == wire # <<>> /\ PushByte(Head(wire)) /\ wire' = Tail(wire) /\ UNCHANGED <<ebl, todo, damage>>

Damage == damage < MaxDamage /\ damage' = damage + 1 /\ UNCHANGED <<ebl, todo>>

Lost     == wire # <<>> /\ Damage /\ wire' = Tail(wire) /\ UNCHANGED <<state, prev, buf, got>>
Doubled  == wire # <<>> /\ Damage /\ PushByte(Head(wire)) /\ UNCHANGED wire
Inserted == Damage /\ (\E b \in Noise : PushByte(b)) /\ UNCHANGED wire

Next == Send \/ Arrive \/ Lost \/ Doubled \/ Inserted

Spec == Init /\ [][Next]_vars

-----------------------------------------------------------------------------
(* Properties.                                                             *)

TypeOK ==
    /\ ebl \in BOOLEAN
    /\ wire \in Seq(Byte) /\ buf \in Seq(Byte)
    /\ state \in {"Idle", "InFrame", "InHeader", "Escape"}
    /\ prev \in {"Idle", "InFrame", "InHeader"}
    /\ damage \in 0 .. MaxDamage
    /\ state = "Idle" => buf = <<>>

SentItems == SubSeq(Items, 1, Len(Items) - Len(todo))

\* Round trip: on a line that damages nothing, exactly the items sent come out,
\* whatever bytes they are made of.
Transparent == damage = 0 /\ wire = <<>> => got = SentItems

Messages(items) == SelectSeq(items, LAMBDA x : x.kind = "message")

\* s is t with some elements left out.
SomeOf(s, t) == \E at \in [DOMAIN s -> DOMAIN t] :
    /\ \A i, j \in DOMAIN s : i < j => at[i] < at[j]
    /\ \A i \in DOMAIN s : s[i] = t[at[i]]

\* A damaged byte never makes a message that was not sent: what comes out is
\* what went in, in order, with some messages missing.  (Two damages can undo
\* one another in the sum and the length.)
NothingInvented == SomeOf(Messages(got), Messages(SentItems))

\* A damaged byte costs at most two messages: its own, and the next one when
\* the end of the first is not seen.
ResyncsSoon ==
    wire = <<>> => Len(Messages(got)) >= Len(Messages(SentItems)) - 2 * damage
=============================================================================
