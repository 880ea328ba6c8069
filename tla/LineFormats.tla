----------------------------- MODULE LineFormats -----------------------------
(* Frames as the formats of others: a capture of one of ten kinds is read    *)
(* line by line, each frame is written in one of eight forms, and what was   *)
(* written is read once more (canboat convert, the ports and the devices).   *)
(* A line is a record of the values in its text; numbers keep their bits.    *)
EXTENDS Integers, Sequences, SequencesExt, Bitwise

CONSTANTS
    None,
    Sources,     \* kinds of captures
    Sinks,       \* the forms frames are written in
    Talks,       \* what a device says: sequences of [at, prio, pgn, src, dst, data]
    Today,       \* the date of the host
    MaxNoise,    \* bound: lines of a capture that are no frames
    MaxTorn      \* bound: pieces of the output that are lost

VARIABLES
    dialect,     \* the kind of the capture
    sink,        \* the form of the output
    talk,        \* what the device has still to say
    noise,       \* lines so far that were no frames
    scanner,     \* LineFrameReader: its active format and header_coalesced
    usable,      \* container: the libpcap buffer it reads still has records
    said,        \* the frames of the lines that were read, with the stamps of the lines
    copied,      \* the frames that the reader made of them
    rescanner,   \* the reader of the output; of an .ebl file, the header that waits
    returned,    \* for each of them: the frame read of the output, or None
    torn,        \* pieces of the output that were lost
    misled       \* the first line of content passes for another format

vars == <<dialect, sink, talk, noise, scanner, usable, said, copied, rescanner, returned, torn, misled>>

FASTPACKET_MAX_SIZE == 223
RAWFRAME_MAX_SIZE == 1785
CANBOAT_SYNTHETIC_PGN == 262144
Lesser(m, n) == IF m < n THEN m ELSE n

-----------------------------------------------------------------------------
(* Timestamps: the shape of the text, the date (or None) and the time of day. *)

Stamp(shape, date, time) == [shape |-> shape, date |-> date, time |-> time]
Odd(text) == Stamp("odd", None, text)   \* a text, or a count from a start that is not said

\* The calendar, by arithmetic (Hinnant): days since 1970 and back.
DaysSinceEpoch(y0, m, d) ==
    LET y == IF m <= 2 THEN y0 - 1 ELSE y0
        era == y \div 400
        yoe == y - era * 400
        mp == IF m > 2 THEN m - 3 ELSE m + 9
        doe == yoe * 365 + yoe \div 4 - yoe \div 100 + (153 * mp + 2) \div 5 + d - 1
    IN era * 146097 + doe - 719468
DaysToYmdJulian(days) ==
    LET doe == (days + 719468) % 146097
        yoe == doe \div 365
        doy == doe - (365 * yoe + yoe \div 4)
        mp == (5 * doy + 2) \div 153
        m == IF mp < 10 THEN mp + 3 ELSE mp - 9
    IN <<yoe + 400 * ((days + 719468) \div 146097), m, doy - (153 * mp + 2) \div 5 + 1>>
DaysToYmd(days) ==
    LET z == days + 719468
        era == z \div 146097
        doe == z - era * 146097
        yoe == (doe - doe \div 1460 + doe \div 36524 - doe \div 146096) \div 365
        doy == doe - (365 * yoe + yoe \div 4 - yoe \div 100)
        mp == (5 * doy + 2) \div 153
        m == IF mp < 10 THEN mp + 3 ELSE mp - 9
        y == yoe + era * 400
    IN <<IF m <= 2 THEN y + 1 ELSE y, m, doy - (153 * mp + 2) \div 5 + 1>>

\* What is not of a known shape stays as it is.
Normalized(ts) ==
    IF ts = None \/ ts.shape = "odd" THEN ts
    ELSE Stamp(IF ts.date = None THEN "dot" ELSE "iso", ts.date, ts.time)
TimeOfDay(ts) == IF ts = None \/ ts.shape = "odd" THEN 0 ELSE ts.time
\* A date is needed; a frame without one lands on the epoch.
UnixMs(ts) ==
    IF ts = None \/ ts.date = None THEN [day |-> 0, ms |-> 0]
    ELSE [day |-> DaysSinceEpoch(ts.date[1], ts.date[2], ts.date[3]), ms |-> ts.time]
OfUnixMs(shape, at) == Stamp(shape, DaysToYmd(at.day), at.ms)

-----------------------------------------------------------------------------
(* Bits: the CAN identifier of ISO 11783, the SDP of Actisense and Base64.    *)

Read(ts, prio, pgn, src, dst, data) ==
    [timestamp |-> ts, prio |-> prio, pgn |-> pgn, src |-> src, dst |-> dst, data |-> data]

ComposeNoDst(prio, pgn, src, dst) == (src | (pgn * 256)) | (prio * (2^26))
Compose(prio, pgn, src, dst) ==
    LET pf == (pgn \div 256) % 256
    IN ((src | (IF pf < 240 THEN dst * 256 ELSE 0)) | (pgn * 256)) | (prio * (2^26))
Decompose(id) ==
    LET pf == (id \div 2^16) % 256
        ps == (id \div 256) % 256
        page == ((id \div 2^24) % 4) * 2^16 + pf * 256
    IN [prio |-> (id \div 2^26) % 8, src |-> id % 256,
        pgn |-> IF pf < 240 THEN page ELSE page + ps, dst |-> IF pf < 240 THEN ps ELSE 255]
OfCanId(ts, id, data) ==
    LET to == Decompose(id) IN Read(ts, to.prio, to.pgn, to.src, to.dst, data)

Sdp(f) == ((f.src * 4096) | (f.dst * 16)) | f.prio

\* Groups of three bytes as four sextets; 64 stands for the padding "=".
Pad == 64
B64Encode(bytes) ==
    LET Byte(i) == IF i <= Len(bytes) THEN bytes[i] ELSE 0
        Sextet(k) ==
            LET g == 3 * ((k - 1) \div 4)
                j == (k - 1) % 4
            IN IF g + j > Len(bytes) THEN Pad
               ELSE ((Byte(g + 1) * 65536 + Byte(g + 2) * 256 + Byte(g + 3)) \div 64^(3 - j)) % 64
    IN [k \in 1..4 * ((Len(bytes) + 2) \div 3) |-> Sextet(k)]
B64Decode(text) ==
    LET Bits(k) == IF text[k] = Pad THEN 0 ELSE text[k]
        Octet(i) ==
            LET k == 4 * ((i - 1) \div 3) + 1
                all == Bits(k) * 2^18 + Bits(k + 1) * 2^12 + Bits(k + 2) * 64 + Bits(k + 3)
            IN (all \div 256^(2 - ((i - 1) % 3))) % 256
        pad == Len(SelectSeq(text, LAMBDA s : s = Pad))
    IN IF text = None \/ Len(text) % 4 # 0 THEN None
       ELSE [i \in 1..(3 * (Len(text) \div 4) - pad) |-> Octet(i)]

-----------------------------------------------------------------------------
(* The lines.  Data of None is hex that does not read.                        *)

WritePlain(f) ==
    [form |-> "plain", ts |-> Normalized(f.timestamp), prio |-> f.prio, pgn |-> f.pgn,
     src |-> f.src, dst |-> f.dst, len |-> Len(f.data), data |-> f.data]
WriteActisense(f) ==
    [form |-> "actisense", time |-> TimeOfDay(f.timestamp), sdp |-> Sdp(f), pgn |-> f.pgn, data |-> f.data]
WriteYdwg02(f) ==
    [form |-> "ydwg02", time |-> TimeOfDay(f.timestamp), dir |-> "R",
     id |-> Compose(f.prio, f.pgn, f.src, f.dst), data |-> f.data]

\* Each parser: the frame, or None where it gives an error or nothing.
ParsePlain(l) ==
    IF l.len > RAWFRAME_MAX_SIZE \/ Len(l.data) < l.len THEN None
    ELSE Read(l.ts, l.prio, l.pgn, l.src, l.dst, SubSeq(l.data, 1, l.len))
ParseActisense(l) ==
    IF l.data = None THEN None
    ELSE Read(Stamp("comma", None, l.time), l.sdp % 16, l.pgn, (l.sdp \div 4096) % 256, (l.sdp \div 16) % 256, l.data)
ParseYdwg02(l) == IF l.data = None THEN None ELSE OfCanId(Stamp("bare", Today, l.time), l.id, l.data)
Short(data, size) == SubSeq(data, 1, Lesser(Len(data), Lesser(size, FASTPACKET_MAX_SIZE)))
ParseAirmar(l) == IF l.data = None THEN None ELSE OfCanId(l.ts, l.id, Short(l.data, FASTPACKET_MAX_SIZE))
ParseChetco(l) ==
    IF l.data = None THEN None
    ELSE Read(OfUnixMs("isocomma", l.instant), 0, l.pgn, l.src, 255, Short(l.data, FASTPACKET_MAX_SIZE))
ParseGarmin(l) ==
    IF l.data = None THEN None
    ELSE Read(IF l.form = "garmin1" THEN OfUnixMs("isocomma", l.instant) ELSE Stamp("isocomma", l.date, l.time),
              l.prio, l.pgn, l.src, l.dst, Short(l.data, l.size))
ParseIkonvert(l) ==
    IF B64Decode(l.text) = None THEN None
    ELSE Read(Odd(l.ticks), l.prio, l.pgn, l.src, l.dst, B64Decode(l.text))

\* A parser of one format makes nothing of the lines of another.
ParseWith(format, l) ==
    CASE format \in {"plain", "plain_mix"} /\ l.form = "plain" -> ParsePlain(l)
      [] format = "actisense" /\ l.form = "actisense" -> ParseActisense(l)
      [] format = "ydwg02" /\ l.form = "ydwg02" -> ParseYdwg02(l)
      [] format = "ikonvert" /\ l.form = "ikonvert" -> ParseIkonvert(l)
      [] format = "airmar" /\ l.form = "airmar" -> ParseAirmar(l)
      [] format = "chetco" /\ l.form = "chetco" -> ParseChetco(l)
      [] format \in {"garmin1", "garmin2"} /\ l.form = format -> ParseGarmin(l)
      [] OTHER -> None

-----------------------------------------------------------------------------
(* LineFrameReader: the format is settled by a header or the first content.   *)

\* What the headers name: the format, and whether its frames are whole.
Named ==
    [PLAIN |-> "plain", PLAIN_OR_FAST |-> "plain", PLAIN_MIX_FAST |-> "plain_mix", FAST |-> "plain",
     ACTISENSE |-> "actisense", ACTISENSE_ASCII |-> "actisense", YDWG02 |-> "ydwg02", IKONVERT |-> "ikonvert",
     AIRMAR |-> "airmar", CHETCO |-> "chetco", GARMIN_CSV1 |-> "garmin1", GARMIN |-> "garmin1", GARMIN_CSV2 |-> "garmin2"]
HeaderImpliesCoalesced(name) == name \notin {"PLAIN", "PLAIN_OR_FAST", "PLAIN_MIX_FAST", "YDWG02"}

\* The tests, in the order they are made.  A line that starts with a bare time
\* of day passes for YDWG02, whatever follows.
Order == <<"ikonvert", "chetco", "garmin1", "garmin2", "actisense", "ydwg02", "airmar">>
StartsWithTime(l) ==
    \/ l.form = "ydwg02"
    \/ (l.form \in {"plain", "airmar"} /\ l.ts # None /\ l.ts.shape = "dot")
LooksLike(format, l) ==
    CASE format = "ikonvert" -> l.form \in {"ikonvert", "control"}
      [] format = "garmin1" -> l.form = "titles1"
      [] format = "garmin2" -> l.form = "titles2"
      [] format = "ydwg02" -> StartsWithTime(l)
      [] OTHER -> l.form = format
Detect(l) ==
    LET looks == SelectSeq(Order, LAMBDA format : LooksLike(format, l))
    IN IF looks = <<>> THEN "plain" ELSE looks[1]

NewReader(format) == [active |-> format, coalesced |-> FALSE]
\* One turn of the loop in read_frame: the reader, and the frame or None.
Scan(r, l) ==
    CASE l.form \in {"blank", "comment"} -> [reader |-> r, frame |-> None]
      [] l.form = "header" ->
           [reader |-> IF l.name \notin DOMAIN Named THEN r
                       ELSE [active |-> IF r.active = None THEN Named[l.name] ELSE r.active,
                             coalesced |-> r.coalesced \/ HeaderImpliesCoalesced(l.name)],
            frame |-> None]
      [] OTHER ->
           LET format == IF r.active = None THEN Detect(l) ELSE r.active
           IN [reader |-> [r EXCEPT !.active = format], frame |-> ParseWith(format, l)]

-----------------------------------------------------------------------------
(* The binary forms: an .ebl file, and what is sent to the gateways.          *)

LE3(pgn) == <<pgn % 256, (pgn \div 256) % 256, (pgn \div 65536) % 256>>
OfLE3(b, i) == b[i] + b[i + 1] * 256 + b[i + 2] * 65536

\* EblWriter: a header with the instant, and a message with a zero of its own.
EncodeEbl(f) ==
    [form |-> "ebl", header |-> UnixMs(f.timestamp),
     payload |-> <<f.prio>> \o LE3(f.pgn) \o <<f.dst, f.src, 0, 0, 0, 0, Len(f.data) % 256>> \o f.data]
EncodeSend(f) ==
    [form |-> "ngt1", payload |-> <<f.prio>> \o LE3(f.pgn) \o <<f.dst, Len(f.data) % 256>> \o f.data]

\* The payload after a header of so many bytes, the last of them its length.  The
\* frame around it counts in one byte: what is longer does not get through.
After(header, b) ==
    IF Len(b) > 255 \/ Len(b) < header \/ header + b[header] > Len(b) THEN None
    ELSE SubSeq(b, header + 1, header + b[header])
ToRawFrame(b) ==
    IF After(11, b) = None THEN None ELSE Read(Odd(0), b[1], OfLE3(b, 2), b[6], b[5], After(11, b))
ToRawFrameOfSend(b) ==
    IF After(6, b) = None THEN None ELSE Read(None, b[1], OfLE3(b, 2), 0, b[5], After(6, b))

\* EblReader: a header waits for the next message that is a frame.
ScanEblKeeps(pending, rec) ==
    LET at == IF rec.header = None THEN pending ELSE rec.header
        f == IF rec.payload = None THEN None ELSE ToRawFrame(rec.payload)
    IN [reader |-> at, frame |-> IF f = None \/ at = None THEN f ELSE [f EXCEPT !.timestamp = OfUnixMs("iso", at)]]
ScanEbl(pending, rec) ==
    LET at == IF rec.header = None THEN pending ELSE rec.header
        f == IF rec.payload = None THEN None ELSE ToRawFrame(rec.payload)
    IN [reader |-> IF f = None THEN at ELSE None,
        frame |-> IF f = None \/ at = None THEN f ELSE [f EXCEPT !.timestamp = OfUnixMs("iso", at)]]

\* A Maretron is told one bit of the page, an iKonvert neither priority nor source.
BuildFrame(f) ==
    LET pf == (f.pgn \div 256) % 256
    IN IF Len(f.data) > FASTPACKET_MAX_SIZE THEN None
       ELSE [form |-> "maretron",
             f1 |-> 128 + (f.prio % 8) * 16 + (IF Len(f.data) <= 8 THEN 1 ELSE 2) * 2 + ((f.pgn \div 65536) % 2),
             pf |-> pf, ps |-> IF pf < 240 THEN f.dst ELSE f.pgn % 256, data |-> f.data]
ToRaw(b) ==
    LET page == (b.f1 % 2) * 65536 + b.pf * 256
    IN Read(None, (b.f1 \div 16) % 8, IF b.pf < 240 THEN page ELSE page + b.ps, 255,
            IF b.pf < 240 THEN b.ps ELSE 255, Short(b.data, FASTPACKET_MAX_SIZE))
EncodeTx(f) == [form |-> "ikonvert_tx", pgn |-> f.pgn, dst |-> f.dst, text |-> B64Encode(f.data)]
IkonvertTakes(l) == Read(None, 0, l.pgn, 255, l.dst, B64Decode(l.text))

\* The CSV port of another pipeline: PLAIN, without what is not of the bus.
EncodeCsv(f) == IF f.pgn >= CANBOAT_SYNTHETIC_PGN THEN None ELSE WritePlain(f)
DecodeCsv(l) == IF l.form = "plain" THEN ParsePlain(l) ELSE None

Written(f) ==
    CASE sink = "plain" -> WritePlain(f)
      [] sink = "ydwg02" -> WriteYdwg02(f)
      [] sink = "actisense" -> WriteActisense(f)
      [] sink = "ebl" -> EncodeEbl(f)
      [] sink = "ngt1" -> EncodeSend(f)
      [] sink = "maretron" -> BuildFrame(f)
      [] sink = "ikonvert" -> EncodeTx(f)
      [] sink = "csv" -> EncodeCsv(f)
ReadAgain(r, l) ==
    CASE l = None -> [reader |-> r, frame |-> None]
      [] sink = "ebl" -> ScanEbl(r, l)
      [] sink = "ngt1" -> [reader |-> r, frame |-> ToRawFrameOfSend(l.payload)]
      [] sink = "maretron" -> [reader |-> r, frame |-> ToRaw(l)]
      [] sink = "ikonvert" -> [reader |-> r, frame |-> IkonvertTakes(l)]
      [] sink = "csv" -> [reader |-> r, frame |-> DecodeCsv(l)]
      [] OTHER -> Scan(r, l)

-----------------------------------------------------------------------------
(* The captures.                                                              *)

Stamped(shape, at) ==
    CASE shape = "none" -> None
      [] shape = "odd" -> Odd(17)
      [] shape = "dot" -> Stamp("dot", None, at.time)
      [] OTHER -> Stamp(shape, at.date, at.time)
Shapes == CASE dialect \in {"plain", "csv"} -> {"dash", "iso", "dot", "none"}
            [] dialect = "airmar" -> {"dash", "dot", "odd"}
            [] OTHER -> {"own"}
Instant(at) == [day |-> at.day, ms |-> at.time]

\* How a device or a tool says a frame; a container holds what was on the bus.
LineOf(f, shape) ==
    LET raw == Read(Stamped(shape, f.at), f.prio, f.pgn, f.src, f.dst, f.data)
        id == Compose(f.prio, f.pgn, f.src, f.dst)
    IN CASE dialect \in {"plain", "csv"} -> [WritePlain(raw) EXCEPT !.ts = raw.timestamp]
         [] dialect = "actisense" -> WriteActisense(raw)
         [] dialect = "ydwg02" -> WriteYdwg02(raw)
         [] dialect = "airmar" -> [form |-> "airmar", ts |-> raw.timestamp, id |-> id, data |-> f.data]
         [] dialect = "chetco" -> [form |-> "chetco", pgn |-> f.pgn, instant |-> Instant(f.at), src |-> f.src, data |-> f.data]
         [] dialect = "garmin1" -> [form |-> "garmin1", instant |-> Instant(f.at), pgn |-> f.pgn, src |-> f.src,
                                    dst |-> f.dst, prio |-> f.prio, size |-> Len(f.data), data |-> f.data]
         [] dialect = "garmin2" -> [form |-> "garmin2", date |-> f.at.date, time |-> f.at.time, pgn |-> f.pgn, src |-> f.src,
                                    dst |-> f.dst, prio |-> f.prio, size |-> Len(f.data), data |-> f.data]
         [] dialect = "ikonvert" -> [form |-> "ikonvert", pgn |-> f.pgn, prio |-> f.prio, src |-> f.src, dst |-> f.dst,
                                     ticks |-> 17, text |-> B64Encode(f.data)]
         [] dialect = "pcap" -> [form |-> "pcap", instant |-> Instant(f.at), id |-> id, data |-> f.data]
Damaged(l) ==
    CASE l.form = "plain" -> [l EXCEPT !.len = @ + 1]
      [] l.form = "ikonvert" -> [l EXCEPT !.text = None]
      [] l.form = "pcap" -> [form |-> "end", fit |-> FALSE]
      [] OTHER -> [l EXCEPT !.data = None]
Plainly(form) == [form |-> form]
Header(name) == [form |-> "header", name |-> name]
NoiseLines ==
    IF dialect = "pcap" THEN {[form |-> "end", fit |-> TRUE], [form |-> "end", fit |-> FALSE]}
    ELSE {Plainly("comment"), Plainly("cut"), Header("NAVLINK2")}
         \cup (CASE dialect = "ikonvert" -> {Plainly("control"), Header("IKONVERT")}
                [] dialect = "garmin1" -> {Plainly("titles1")}
                [] dialect = "garmin2" -> {Plainly("titles2")}
                [] dialect = "csv" -> {Plainly("control"), Header("FAST")}
                [] dialect = "plain" -> {Header("FAST"), Header("PLAIN_MIX_FAST")}
                [] dialect = "ydwg02" -> {Header("YDWG02")}
                [] dialect = "actisense" -> {Header("ACTISENSE_ASCII")}
                [] OTHER -> {Plainly("blank")})

-----------------------------------------------------------------------------

Init ==
    /\ dialect \in Sources
    /\ sink \in Sinks
    /\ talk \in {t \in Talks : \A i \in DOMAIN t :
                   /\ dialect = "pcap" => Len(t[i].data) <= 8
                   /\ dialect \in {"pcap", "ydwg02", "airmar"} => t[i].pgn < CANBOAT_SYNTHETIC_PGN}
    /\ noise = 0
    \* --from: what is forced for a container is forced upon its PLAIN lines
    /\ scanner \in {NewReader(None)} \cup (CASE dialect = "csv" -> {}
                                          [] dialect = "pcap" -> {NewReader("plain"), NewReader("ydwg02")}
                                          [] OTHER -> {NewReader(dialect)})
    /\ usable = TRUE
    /\ said = <<>> /\ copied = <<>> /\ returned = <<>>
    /\ rescanner = IF sink = "ebl" THEN None ELSE NewReader(None)
    /\ torn = 0
    /\ misled = (dialect = "pcap" /\ scanner.active = "ydwg02")

\* container: the next record as a PLAIN line; a buffer is left at a record that
\* is cut short, and one without the magic is not begun.
Refill(l) ==
    IF l.form # "pcap" THEN l
    ELSE [WritePlain(OfCanId(OfUnixMs("dash", l.instant), l.id, l.data)) EXCEPT !.form = "plain"]

\* The reader of a capture: of the CSV port it is the decoder of the device.
Take(l) == IF dialect = "csv" THEN [reader |-> scanner, frame |-> DecodeCsv(l)] ELSE Scan(scanner, l)

\* The output may lose the header of a record of an .ebl file, or its message.
Tear(l) ==
    {[line |-> l, lost |-> 0]} \cup
    (IF sink # "ebl" \/ torn >= MaxTorn THEN {}
     ELSE {[line |-> [l EXCEPT !.header = None], lost |-> 1], [line |-> [l EXCEPT !.payload = None], lost |-> 1]})

\* copy: a frame that was read is written, and what was written is read again.
Copy(f, again, lost) ==
    /\ copied' = Append(copied, f)
    /\ rescanner' = again.reader /\ returned' = Append(returned, again.frame)
    /\ torn' = torn + lost

\* One line: LineFrameReader::read_frame, and copy of the frame it gives.
Turn(step) ==
    /\ scanner' = step.reader
    /\ IF step.frame = None THEN UNCHANGED <<copied, rescanner, returned, torn>>
       ELSE \E w \in Tear(Written(step.frame)) : Copy(step.frame, ReadAgain(rescanner, w.line), w.lost)
OneLine(l) == Turn(Take(l))

\* The line that settles the format is not one of the capture's own kind.
Misleads(l) ==
    /\ scanner.active = None
    /\ \/ l.form = "cut" /\ dialect # "plain"
       \/ l.form \in {"garmin1", "garmin2"}
       \/ (l.form \in {"plain", "airmar"} /\ l.ts # None /\ l.ts.shape = "dot")
Misled(l) == misled' = (misled \/ (dialect \notin {"csv", "pcap"} /\ Misleads(l)))

Frame ==
    /\ talk # <<>>
    /\ talk' = Tail(talk)
    /\ \E shape \in Shapes :
         LET l == LineOf(Head(talk), shape)
         IN IF usable
            THEN OneLine(Refill(l)) /\ Misled(l)
                 /\ said' = Append(said, [frame |-> Head(talk), shape |-> shape])
            ELSE UNCHANGED <<scanner, copied, rescanner, returned, torn, misled, said>>
    /\ UNCHANGED <<dialect, sink, noise, usable>>

Noise ==
    /\ noise < MaxNoise
    /\ noise' = noise + 1
    /\ \E l \in NoiseLines \cup (IF talk = <<>> THEN {} ELSE {Damaged(LineOf(Head(talk), shape)) : shape \in Shapes}) :
         IF l.form = "end" THEN usable' = l.fit /\ UNCHANGED <<scanner, copied, rescanner, returned, torn, misled>>
         ELSE OneLine(l) /\ Misled(l) /\ UNCHANGED usable
    /\ UNCHANGED <<dialect, sink, talk, said>>

Next == Frame \/ Noise

Spec == Init /\ [][Next]_vars

-----------------------------------------------------------------------------

TypeOK ==
    /\ scanner.active \in {None} \cup {Named[n] : n \in DOMAIN Named}
    /\ scanner.coalesced \in BOOLEAN /\ usable \in BOOLEAN /\ misled \in BOOLEAN
    /\ Len(returned) = Len(copied) /\ Len(copied) <= Len(said)
    /\ noise \in 0..MaxNoise /\ torn \in 0..MaxTorn

\* Whatever stands between the lines, a reader takes every frame of a capture or,
\* where the first line of content passed for another format, none of them.
AllOrNone == Len(copied) = IF misled THEN 0 ELSE Len(said)

\* What the lines of a capture keep of the frame, and of the moment it was said.
Long == {"airmar", "chetco", "garmin1", "garmin2"}
SaidAs(f, shape, c) ==
    /\ c.pgn = f.pgn /\ c.src = f.src
    /\ c.prio = IF dialect = "chetco" THEN 0 ELSE f.prio
    /\ c.dst = IF dialect = "chetco" THEN 255 ELSE f.dst
    /\ c.data = IF dialect \in Long THEN SubSeq(f.data, 1, Lesser(Len(f.data), FASTPACKET_MAX_SIZE)) ELSE f.data
    /\ CASE shape = "none" -> c.timestamp = None
         [] shape = "odd" \/ dialect = "ikonvert" -> c.timestamp = Odd(17)
         [] OTHER ->
              /\ c.timestamp.time = f.at.time
              /\ c.timestamp.date = IF shape = "dot" \/ dialect = "actisense" THEN None
                                    ELSE IF dialect = "ydwg02" THEN Today ELSE f.at.date
LinesRead == misled \/ \A i \in DOMAIN copied : SaidAs(said[i].frame, said[i].shape, copied[i])

\* What the form of the output keeps of a frame.  A PLAIN file whose first stamp
\* is a bare time of day is taken for YDWG02 and gives nothing.
Keeps(r, c, names) == r # None /\ \A n \in names : r[n] = c[n]
All == {"prio", "pgn", "src", "dst", "data"}
BareTime(c) == c.timestamp # None /\ c.timestamp.shape # "odd" /\ c.timestamp.date = None
TimeKept(r, c) == r.timestamp.time = IF c.timestamp = None \/ c.timestamp.shape = "odd" THEN 0 ELSE c.timestamp.time
Dated(c) == c.timestamp # None /\ c.timestamp.date # None
Instantly(c) == IF Dated(c) THEN Stamp("iso", c.timestamp.date, c.timestamp.time) ELSE Stamp("iso", <<1970, 1, 1>>, 0)
\* Without its header a message has no time of its own, or that of the record
\* before it whose message did not get through.
Headless(i) ==
    \/ returned[i].timestamp = Odd(0)
    \/ i > 1 /\ returned[i - 1] = None /\ returned[i].timestamp = Instantly(copied[i - 1])
WrittenAs(i, c, r) ==
    CASE sink = "plain" ->
           IF BareTime(copied[1]) THEN r = None
           ELSE Keeps(r, c, All) /\ (IF Dated(c) THEN r.timestamp = Instantly(c) ELSE BareTime(c) \/ r.timestamp = c.timestamp)
      [] sink = "csv" -> IF c.pgn >= CANBOAT_SYNTHETIC_PGN THEN r = None ELSE Keeps(r, c, All)
      [] sink = "actisense" -> Keeps(r, c, All) /\ TimeKept(r, c) /\ r.timestamp.date = None
      [] sink = "ydwg02" -> c.pgn < CANBOAT_SYNTHETIC_PGN => Keeps(r, c, All) /\ TimeKept(r, c) /\ r.timestamp.date = Today
      [] sink = "ebl" ->
           IF Len(c.data) > 244 THEN r = None
           ELSE \/ r = None /\ torn > 0
                \/ Keeps(r, c, All) /\ (r.timestamp = Instantly(c) \/ (torn > 0 /\ Headless(i)))
      [] sink = "ngt1" -> IF Len(c.data) > 249 THEN r = None ELSE Keeps(r, c, {"prio", "pgn", "dst", "data"})
      [] sink = "maretron" -> IF Len(c.data) > FASTPACKET_MAX_SIZE THEN r = None
                              ELSE c.pgn < 131072 => Keeps(r, c, {"prio", "pgn", "dst", "data"})
      [] sink = "ikonvert" -> Keeps(r, c, {"pgn", "dst", "data"})
LinesWritten == \A i \in DOMAIN copied : WrittenAs(i, copied[i], returned[i])

\* A capture is read whole or not at all; its frames are what its lines said, and
\* come back from whatever they are written as, each at its own time.
LinesComeBack == AllOrNone /\ LinesRead /\ LinesWritten
=============================================================================
