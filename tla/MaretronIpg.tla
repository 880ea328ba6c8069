---------------------------- MODULE MaretronIpg ----------------------------
(***************************************************************************)
(* A session with a Maretron IPG: parse of canboat-core/src/format/        *)
(* maretron_ipg.rs under the Decoder of canboat-io/src/device/maretron.rs. *)
(*                                                                         *)
(* The session opens in text mode.  The device's CONNECTED makes the host  *)
(* ask for binary mode, in which frames with a length are interleaved with *)
(* NUL terminated texts.  TCP delivers the bytes in chunks of any size.    *)
(***************************************************************************)
EXTENDS Integers, Sequences

CONSTANTS
    Scripts,    \* what the device says, sequences of items
    MaxChunk    \* the most bytes one read returns

SYNC  == 165    \* FRAME_SYNC
VIDEO == 51     \* VIDEO_PREFIX
ASCII == 50     \* ASCII_PREFIX
Byte  == 0 .. 255
FASTPACKET_MAX_SIZE == 223

\* The first words of the texts, a byte each.
CONNECTED == <<67>>
NO        == <<78>>

VARIABLES
    unsent,      \* the items the device has not sent
    stream,      \* the bytes on their way
    acc,       \* the bytes not consumed yet
    session,   \* "AwaitHandshake" or "Streaming"
    set_mode,  \* how many times the host asked for binary mode
    events,    \* the frames and errors handed on
    script     \* what the device says in this behaviour

vars == <<unsent, stream, acc, session, set_mode, events, script>>

-----------------------------------------------------------------------------
(* Frames on the wire, the device's side of build_frame.                   *)

\* A PGN is a data page, a format and, from format 240 on, a last byte, in whose
\* place there is else the destination.
Page(pgn)     == pgn \div 65536
Pf(pgn)       == (pgn \div 256) % 256
Ps(pgn, dst)  == IF Pf(pgn) < 240 THEN dst ELSE pgn % 256

\* prio: 3 bits, type: 2 bits, page: 1 bit.
F1(f) == 128 + f.prio * 16 + f.type * 2 + Page(f.pgn)

FrameBytes(f) ==
    <<SYNC, F1(f), Pf(f.pgn), Ps(f.pgn, f.dst), f.src>>
    \o (IF f.type = 3 THEN <<Len(f.payload) % 256, Len(f.payload) \div 256>> ELSE <<Len(f.payload)>>)
    \o f.payload

Encoded(item) == IF item.kind = "frame" THEN FrameBytes(item) ELSE item.word \o <<0>>

-----------------------------------------------------------------------------
(* The parser: one event out of the front of a buffer.                     *)

NeedMore == [kind |-> "more"]
Drop(n)  == [kind |-> "drop", consumed |-> n]

Nul(b) == {i \in DOMAIN b : b[i] = 0 /\ \A j \in 1 .. i - 1 : b[j] # 0}

\* parse_nul_terminated_text.
Text(b) ==
    IF Nul(b) = {} THEN NeedMore
    ELSE LET i == CHOOSE i \in Nul(b) : TRUE
         IN [kind |-> "text", word |-> SubSeq(b, 1, i - 1), consumed |-> i]

\* Mutant: the header of an extended frame is as short as that of the others.
HeaderLenFlat(b) == 6
HeaderLen(b) == IF (b[2] \div 2) % 4 = 3 THEN 7 ELSE 6

PayloadLen(b) == IF HeaderLen(b) = 7 THEN b[6] + 256 * b[7] ELSE b[6]

\* The PGN and the destination of a header.
PgnOf(b) == (b[2] % 2) * 65536 + b[3] * 256 + (IF b[3] < 240 THEN 0 ELSE b[4])
DstOf(b) == IF b[3] < 240 THEN b[4] ELSE 255

\* parse_binary_frame.
Frame(b) ==
    IF Len(b) < 6 THEN NeedMore
    ELSE IF b[2] < 128 THEN Drop(1)
    ELSE IF Len(b) < HeaderLen(b) \/ Len(b) < HeaderLen(b) + PayloadLen(b) THEN NeedMore
    ELSE LET start == HeaderLen(b)
             total == start + PayloadLen(b)
         IN [kind |-> "frame", consumed |-> total,
             frame |-> [kind |-> "frame", prio |-> (b[2] \div 16) % 8, type |-> (b[2] \div 2) % 4,
                        pgn |-> PgnOf(b), dst |-> DstOf(b), src |-> b[5],
                        payload |-> SubSeq(b, start + 1, total)]]

\* parse.
Parse(b, s) ==
    CASE b = <<>>                -> NeedMore
      [] b # <<>> /\ s = "AwaitHandshake" -> Text(b)
      [] OTHER ->
         CASE b[1] = SYNC           -> Frame(b)
           [] b[1] \in {VIDEO, ASCII} -> IF Nul(b) = {} THEN NeedMore ELSE Drop(CHOOSE i \in Nul(b) : TRUE)
           [] b[1] < 128 /\ b[1] \notin {VIDEO, ASCII} -> Text(b)
           [] OTHER                 -> Drop(1)

-----------------------------------------------------------------------------
(* The decoder.                                                            *)

\* Mutant: the mode is asked for at the first text of any kind.
AcceptsAny(word) == TRUE
Accepts(word) == word = CONNECTED

\* Mutant: the session stays in text mode.
AcceptedOnly(st) == [st EXCEPT !.set_mode = @ + 1]
\* What CONNECTED does: the host asks for binary mode.
Accepted(st) == [st EXCEPT !.session = "Streaming", !.set_mode = @ + 1]

\* Mutant: an extended frame is handed on whole.
RawUncut(f) == [kind |-> "frame", prio |-> f.prio, pgn |-> f.pgn, src |-> f.src, dst |-> f.dst, payload |-> f.payload]
\* to_raw: no more of the payload is kept than a fast packet can hold.
Raw(f) == [kind |-> "frame", prio |-> f.prio, pgn |-> f.pgn, src |-> f.src, dst |-> f.dst,
           payload |-> SubSeq(f.payload, 1, IF Len(f.payload) < FASTPACKET_MAX_SIZE
                                            THEN Len(f.payload) ELSE FASTPACKET_MAX_SIZE)]

\* handle_text, and the frames: the decoder's state after an event.
AfterEvent(st, e) ==
    LET rest == [st EXCEPT !.acc = SubSeq(@, e.consumed + 1, Len(@))] IN
    CASE e.kind = "drop"  -> rest
      [] e.kind = "frame" -> [rest EXCEPT !.events = Append(@, Raw(e.frame))]
      [] e.kind = "text" /\ Accepts(e.word) ->
            Accepted(rest)
      [] e.kind = "text" /\ e.word = NO /\ ~Accepts(e.word) ->
            [rest EXCEPT !.events = Append(@, [kind |-> "error"])]
      [] OTHER -> rest

\* One turn of the loop.
Stepped(st) ==
    LET e == Parse(st.acc, st.session) IN IF e.kind = "more" THEN st ELSE AfterEvent(st, e)

\* Mutant: one event for every read.
DrainedOnce(st) == Stepped(st)

\* decode: everything that can be taken out of the buffer, where each event takes a
\* byte or more.
Turns(st) ==
    LET after[n \in 0 .. Len(st.acc)] == IF n = 0 THEN st ELSE Stepped(after[n - 1])
    IN after
Drained(st) == Turns(st)[Len(st.acc)]

-----------------------------------------------------------------------------

Init ==
    /\ script \in Scripts
    /\ unsent = script
    /\ stream = <<>> /\ acc = <<>>
    /\ session = "AwaitHandshake"
    /\ set_mode = 0
    /\ events = <<>>

\* The device sends its next item, frames only in binary mode.
Send ==
    /\ unsent # <<>>
    /\ Head(unsent).kind = "frame" => set_mode > 0
    /\ stream' = stream \o Encoded(Head(unsent))
    /\ unsent' = Tail(unsent)
    /\ UNCHANGED <<acc, session, set_mode, events, script>>

\* A read returns the next bytes.
Read ==
    \E n \in 1 .. MaxChunk :
        /\ n <= Len(stream)
        /\ LET st == Drained([acc |-> acc \o SubSeq(stream, 1, n), session |-> session,
                              set_mode |-> set_mode, events |-> events])
           IN acc' = st.acc /\ session' = st.session /\ set_mode' = st.set_mode /\ events' = st.events
        /\ stream' = SubSeq(stream, n + 1, Len(stream))
        /\ UNCHANGED <<unsent, script>>

Next == Send \/ Read

Spec == Init /\ [][Next]_vars

-----------------------------------------------------------------------------
(* Properties.                                                             *)

TypeOK ==
    /\ stream \in Seq(Byte) /\ acc \in Seq(Byte)
    /\ session \in {"AwaitHandshake", "Streaming"}
    /\ set_mode \in Nat
    /\ (session = "Streaming") = (set_mode > 0)

Sent == SubSeq(script, 1, Len(script) - Len(unsent))

\* The frames among the first items, and how many of these are CONNECTED.
FramesTo(items) ==
    LET first[n \in 0 .. Len(items)] ==
            IF n = 0 THEN <<>>
            ELSE IF items[n].kind = "frame" THEN Append(first[n - 1], items[n]) ELSE first[n - 1]
    IN first
FramesAmong(items) == FramesTo(items)[Len(items)]
IsConnected(item) == item.kind = "text" /\ item.word = CONNECTED
ConnectedTo(items) ==
    LET first[n \in 0 .. Len(items)] ==
            IF n = 0 THEN 0 ELSE IF IsConnected(items[n]) THEN first[n - 1] + 1 ELSE first[n - 1]
    IN first
ConnectedAmong(items) == ConnectedTo(items)[Len(items)]

\* What is due of a frame that was sent: all but its type, and of a payload that
\* no fast packet could hold the first 223 bytes.
Due(f) == [kind |-> "frame", prio |-> f.prio, pgn |-> f.pgn, src |-> f.src, dst |-> f.dst,
           payload |-> IF Len(f.payload) <= 223 THEN f.payload ELSE SubSeq(f.payload, 1, 223)]
AsDue(frames) == [i \in 1 .. Len(frames) |-> Due(frames[i])]

\* The frames handed on are the first of those sent, however the bytes were cut
\* into reads and whatever texts stand between them, and all of them when the
\* last byte was read: each with its PGN, its destination and its payload, whole
\* up to 223 bytes.  Beyond these an extended frame loses its tail, which to_raw
\* (maretron_ipg.rs:91) says to nobody.
FramesInFull ==
    /\ \E n \in 0 .. Len(Sent) : FramesAmong(events) = AsDue(FramesTo(Sent)[n])
    /\ stream = <<>> => FramesAmong(events) = AsDue(FramesAmong(Sent))

\* Binary mode is asked for once for every CONNECTED, and never after a NO.
ModeAfterConnected ==
    /\ set_mode <= ConnectedAmong(Sent)
    /\ stream = <<>> => set_mode = ConnectedAmong(Sent)
=============================================================================
