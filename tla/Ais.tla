---------------------------------- MODULE Ais ----------------------------------
(* AIS reports of the bus as !AIVDM sentences: each report is packed into the *)
(* bits of its message, the bits go out as six-bit characters in sentences of *)
(* at most 360 bits, and a listener puts the sentences together again.        *)
EXTENDS Integers, Sequences, FiniteSets, SequencesExt, Bitwise

CONSTANTS
    None,
    Logs,        \* what is decoded: sequences of [kind, message, info, fields]
    MaxMissed    \* bound: sentences the listener does not get

VARIABLES
    reports,     \* what is still to be decoded
    converted,   \* the reports that made sentences
    seq_counter, \* RateLimiter::ais_seq, of the last message of several sentences
    air,         \* the sentences on their way
    partial,     \* the listener: the parts of a message so far
    heard,       \* the bits of the messages it has
    missed,      \* sentences it did not get
    panicked     \* the thread that converts has ended in a panic

vars == <<reports, converted, seq_counter, air, partial, heard, missed, panicked>>

-----------------------------------------------------------------------------
(* BitVector.                                                                 *)

\* The lowest n bits of v, the highest of them first.
Bits(v, n) == [i \in 1..n |-> (v \div 2^(n - i)) % 2]
Spare(n) == Bits(0, n)
\* Six bits a character; small letters are no characters of AIS.
SixBit(ch) ==
    CASE ch = 0 -> 0
      [] ch \in 32..63 -> ch
      [] ch \in 64..95 -> ch - 64
      [] OTHER -> 32
Text(s, n) ==
    LET chars == [k \in 1..(n \div 6) |-> SixBit(IF k <= Len(s) THEN s[k] ELSE 0)]
    IN FlattenSeq([k \in DOMAIN chars |-> Bits(chars[k], 6)]) \o Spare(n % 6)

-----------------------------------------------------------------------------
(* Fields: numbers count in the resolution of the field, and what is not      *)
(* available has a value of its own.                                          *)

Given(d, name, other) == IF name \in DOMAIN d.fields THEN d.fields[name] ELSE other
Has(d, name) == name \in DOMAIN d.fields
Within(v, low, high, other) == IF v \in low..high THEN v ELSE other
Clamp(v, low, high) == IF v < low THEN low ELSE IF v > high THEN high ELSE v
\* A cast of Rust, towards zero.
Trunc(v, unit) == IF v < 0 THEN -((-v) \div unit) ELSE v \div unit

Enum(d, name, n) == Bits(Given(d, name, -1), n)
UserId(d, name) == Bits(Given(d, name, 0), 30)
Str(d, name, n) == Text(Given(d, name, <<>>), n)
RepeatIndicator(d) == Bits(Clamp(Given(d, "repeat", -1), 0, 3), 2)
TimeStamp(d) == Bits(Clamp(Given(d, "time_stamp", 60), 0, 63), 6)

\* 4.733 times the root of the degrees per minute; a field counts 0.1074 of them.
RateOfTurn(d) ==
    LET raw == Given(d, "rate_of_turn", 0)
        r == Cardinality({k \in 1..127 : (2 * k - 1) * (2 * k - 1) * 1000 <= 9626 * (IF raw < 0 THEN -raw ELSE raw)})
    IN IF ~Has(d, "rate_of_turn") THEN -128 ELSE IF raw < 0 THEN -r ELSE r
\* From cm/s to tenths of a knot.
Sog(d) == IF Has(d, "sog") THEN Within((d.fields["sog"] * 19438 + 50000) \div 100000, 0, 1022, 1023) ELSE 1023
\* From 0.0001 rad to tenths of a degree, and to degrees.
Cog(d) == IF Has(d, "cog") THEN Within((d.fields["cog"] * 28648 + 250000) \div 500000, 0, 3599, 3600) ELSE 3600
Heading(d) == IF Has(d, "heading") THEN Within((d.fields["heading"] * 28648 + 2500000) \div 5000000, 0, 359, 511) ELSE 511
\* From 0.0000001 degree to 1/10000 of a minute: three to fifty.
Minutes(raw) == IF raw < 0 THEN -(3 * ((-raw) \div 50) + (3 * ((-raw) % 50) + 25) \div 50)
                ELSE 3 * (raw \div 50) + (3 * (raw % 50) + 25) \div 50
Longitude(d) == IF Has(d, "longitude") THEN Within(Minutes(d.fields["longitude"]), -108000000, 108000000, 108600000) ELSE 108600000
Latitude(d) == IF Has(d, "latitude") THEN Within(Minutes(d.fields["latitude"]), -54000000, 54000000, 54600000) ELSE 54600000
Altitude(d) == IF Has(d, "altitude") THEN Within(Trunc(d.fields["altitude"] + 50, 100), 0, 4094, 4095) ELSE 4095
Draft(d) == IF Has(d, "draft") THEN Clamp((d.fields["draft"] + 5) \div 10, 0, 255) ELSE 0
\* Three bytes, of which 19 bits are sent.
CommState(d) ==
    IF ~Has(d, "communication_state") THEN 393222
    ELSE LET bytes == d.fields["communication_state"]
         IN (bytes[1] + 256 * bytes[2] + 65536 * bytes[3]) % 2^19

\* Dates are <<year, month, day>>, times are seconds of the day.
AisDate(d) ==
    IF ~Has(d, "date") THEN 0
    ELSE LET day == d.fields["date"] IN day[1] * 512 + day[2] * 32 + day[3]
AisTime(d) ==
    IF ~Has(d, "time") THEN 0
    ELSE LET s == d.fields["time"] IN Clamp(s \div 3600, 0, 24) * 4096 + ((s \div 60) % 60) * 64 + (s % 60)
AisEta(d) ==
    LET day == Given(d, "eta_date", <<0, 0, 0>>)
        time == IF Has(d, "eta_time") THEN Clamp(d.fields["eta_time"] \div 3600, 0, 24) * 64 + ((d.fields["eta_time"] \div 60) % 60)
                ELSE 24 * 64 + 60
    IN day[2] * 65536 + day[3] * 2048 + time

\* In tenths of a metre.  The references are not limited to their bits: what
\* is too much of one runs into the next.
Round10(v) == (v + 5) \div 10
ShipDimensionsSwapped(d) ==
    LET to_stern == Clamp(Given(d, "length", 0) - Given(d, "ref_bow", 0), 0, 5110)
        to_port == Clamp(Given(d, "beam", 0) - Given(d, "ref_starboard", 0), 0, 630)
    IN ((((Round10(Given(d, "ref_bow", 0)) % 512) * 2^21) | (Round10(to_stern) * 2^12))
        | (Round10(Given(d, "ref_starboard", 0)) * 2^6)) | Round10(to_port)
ShipDimensions(d) ==
    LET to_stern == Clamp(Given(d, "length", 0) - Given(d, "ref_bow", 0), 0, 5110)
        to_port == Clamp(Given(d, "beam", 0) - Given(d, "ref_starboard", 0), 0, 630)
    IN ((((Round10(Given(d, "ref_bow", 0)) % 512) * 2^21) | (Round10(to_stern) * 2^12))
        | (Round10(to_port) * 2^6)) | Round10(Given(d, "ref_starboard", 0))

-----------------------------------------------------------------------------
(* The messages of ITU-R M.1371.                                              *)

Begin(d, id, who) == Bits(id, 6) \o RepeatIndicator(d) \o UserId(d, who)
Place(d) == Enum(d, "position_accuracy", 1) \o Bits(Longitude(d), 28) \o Bits(Latitude(d), 27)
Radio(d) == Bits(CommState(d), 19)

ClassAPosition(d, id) ==
    Begin(d, id, "user_id") \o Enum(d, "nav_status", 4) \o Bits(RateOfTurn(d), 8) \o Bits(Sog(d), 10)
    \o Place(d) \o Bits(Cog(d), 12) \o Bits(Heading(d), 9) \o TimeStamp(d) \o Enum(d, "special_maneuver", 2)
    \o Spare(3) \o Enum(d, "raim", 1) \o Radio(d)
UtcDate(d, id) ==
    Begin(d, id, "user_id") \o Bits(AisDate(d), 23) \o Bits(AisTime(d), 17) \o Place(d) \o Enum(d, "gnss_type", 4)
    \o Spare(10) \o Enum(d, "raim", 1) \o Radio(d)
ClassAStatic(d, id) ==
    Begin(d, id, "user_id") \o Enum(d, "ais_version", 2) \o UserId(d, "imo_number") \o Str(d, "callsign", 42)
    \o Str(d, "name", 120) \o Enum(d, "type_of_ship", 8) \o Bits(ShipDimensions(d), 30) \o Enum(d, "gnss_type", 4)
    \o Bits(AisEta(d), 20) \o Bits(Draft(d), 8) \o Str(d, "destination", 120) \o Enum(d, "dte", 1) \o Spare(1)
SarAircraft(d, id) ==
    Begin(d, id, "user_id") \o Bits(Altitude(d), 12) \o Bits((Sog(d) + 5) \div 10, 10) \o Place(d) \o Bits(Cog(d), 12)
    \o TimeStamp(d) \o Spare(8) \o Enum(d, "dte", 1) \o Spare(3) \o Bits(-1, 1) \o Enum(d, "raim", 1) \o Bits(-1, 1)
    \o Radio(d)
\* Text is cut to so many bits, and filled up to whole bytes.
SafetyText(d, most) ==
    LET n == 6 * Len(Given(d, "text", <<>>))
        bits == IF n > most THEN most ELSE n
    IN Str(d, "text", 8 * ((bits + 7) \div 8))
AddressedSafety(d, id) ==
    Begin(d, id, "user_id") \o Bits(Clamp(Given(d, "sequence_number", 0), 0, 3), 2) \o UserId(d, "destination_id")
    \o Bits(Clamp(Given(d, "retransmit", 0), 0, 1), 1) \o Spare(1) \o SafetyText(d, 156)
BroadcastSafety(d, id) == Begin(d, id, "user_id") \o Spare(2) \o SafetyText(d, 161)
ClassBPosition(d, id) ==
    Begin(d, id, "user_id") \o Spare(8) \o Bits(Sog(d), 10) \o Place(d) \o Bits(Cog(d), 12) \o Bits(Heading(d), 9)
    \o TimeStamp(d) \o Spare(2) \o Enum(d, "unit_type", 1) \o Enum(d, "display", 1) \o Enum(d, "dsc", 1) \o Enum(d, "band", 1)
    \o Enum(d, "msg22", 1) \o Enum(d, "ais_mode", 1) \o Enum(d, "raim", 1) \o Enum(d, "comm_flag", 1) \o Radio(d)
ClassBExtended(d, id) ==
    Begin(d, id, "user_id") \o Spare(8) \o Bits(Sog(d), 10) \o Place(d) \o Bits(Cog(d), 12) \o Bits(Heading(d), 9)
    \o TimeStamp(d) \o Spare(4) \o Str(d, "name", 120) \o Enum(d, "type_of_ship", 8) \o Bits(ShipDimensions(d), 30)
    \o Enum(d, "gnss_type", 4) \o Enum(d, "raim", 1) \o Enum(d, "dte", 1) \o Enum(d, "ais_mode", 1) \o Spare(4)
\* split_aton_name: the name is cut after 20 bytes of its UTF-8, and there is
\* no such place when byte 20 is inside a character: a panic.  The NULs it
\* trims at the end were trimmed when the field was decoded.
Utf8Len(ch) == IF ch < 128 THEN 1 ELSE IF ch < 2048 THEN 2 ELSE IF ch < 65536 THEN 3 ELSE 4
Bytes(s) == FoldLeft(LAMBDA sum, ch : sum + Utf8Len(ch), 0, s)
Cuts20(s) == IF Bytes(s) <= 20 THEN {Len(s)} ELSE {k \in 0..20 : Bytes(SubSeq(s, 1, k)) = 20}
First20(s) == SubSeq(s, 1, CHOOSE k \in Cuts20(s) : TRUE)
\* Mutant: the rest is counted in characters.
Beyond20Chars(s) == IF Len(s) <= 20 THEN <<>> ELSE SubSeq(s, 21, Len(s))
Beyond20(s) == SubSeq(s, Len(First20(s)) + 1, Len(s))
AtonName(d) == Given(d, "name", <<>>)
Aton(d, id) ==
    Begin(d, id, "user_id") \o Enum(d, "aton_type", 5) \o Text(First20(AtonName(d)), 120) \o Place(d) \o Bits(ShipDimensions(d), 30)
    \o Bits(-1, 4) \o TimeStamp(d) \o Enum(d, "off_position", 1) \o Spare(8) \o Enum(d, "raim", 1)
    \o Enum(d, "virtual_aton", 1) \o Enum(d, "assigned_mode", 1) \o Spare(1)
    \o Text(Beyond20(AtonName(d)), 8 * ((6 * Len(Beyond20(AtonName(d))) + 7) \div 8))
ClassBStatic(d, id) ==
    CASE d.kind = "part_a" -> Begin(d, id, "user_id") \o Bits(0, 2) \o Str(d, "name", 120) \o Spare(8)
      [] d.kind = "part_b" ->
           Begin(d, id, "user_id") \o Bits(1, 2) \o Enum(d, "type_of_ship", 8) \o Str(d, "vendor_id", 42)
           \o Str(d, "callsign", 42) \o Bits(ShipDimensions(d), 30) \o UserId(d, "mothership") \o Spare(6)
      [] OTHER -> Bits(id, 6)

\* The variants of the AIS PGNs, and the message each stands for by itself.
MsgIdOf == [class_a |-> 1, utc_date |-> 4, class_a_static |-> 5, sar |-> 9, addressed |-> 12, broadcast |-> 14,
            class_b |-> 18, class_b_extended |-> 19, aton |-> 21, part_a |-> 24, part_b |-> 24]
PgnToMsgId(d) ==
    IF d.message # None THEN d.message ELSE IF d.kind \in DOMAIN MsgIdOf THEN MsgIdOf[d.kind] ELSE None
EncodePayload(d, id) ==
    CASE id \in 1..3 -> ClassAPosition(d, id)
      [] id = 4 -> UtcDate(d, id)
      [] id = 5 -> ClassAStatic(d, id)
      [] id = 9 -> SarAircraft(d, id)
      [] id = 12 -> AddressedSafety(d, id)
      [] id = 14 -> BroadcastSafety(d, id)
      [] id = 18 -> ClassBPosition(d, id)
      [] id = 19 -> ClassBExtended(d, id)
      [] id = 21 -> Aton(d, id)
      [] id = 24 -> ClassBStatic(d, id)
      [] OTHER -> <<>>

-----------------------------------------------------------------------------
(* Sentences.                                                                 *)

AisTalker(d) == IF d.info \in 2..4 THEN "VDO" ELSE "VDM"
AisChannel(d) == IF d.info \in {1, 3} THEN "B" ELSE "A"
SixBitAscii(v) == IF v < 40 THEN v + 48 ELSE v + 56
ReadBits(bits) == FoldLeft(LAMBDA sum, bit : 2 * sum + bit, 0, bits)
Sextets(bits) ==
    [k \in 1..((Len(bits) + 5) \div 6) |->
        SixBitAscii(ReadBits([j \in 1..6 |-> IF 6 * (k - 1) + j <= Len(bits) THEN bits[6 * (k - 1) + j] ELSE 0]))]
Bumped(counter) == (counter + 1) % 10
\* Mutant: every sentence has the same sequence id.
EmitOneSeq(d, bits, counter) ==
    LET fragments == (Len(bits) + 359) \div 360
        Part(k) == SubSeq(bits, 360 * (k - 1) + 1, IF k = fragments THEN Len(bits) ELSE 360 * k)
    IN [k \in 1..fragments |->
          [talker |-> AisTalker(d), channel |-> AisChannel(d), fragments |-> fragments, frag |-> k,
           seq |-> 0,
           payload |-> Sextets(Part(k)), padding |-> (6 - (Len(Part(k)) % 6)) % 6]]
EmitSentences(d, bits, counter) ==
    LET fragments == (Len(bits) + 359) \div 360
        Part(k) == SubSeq(bits, 360 * (k - 1) + 1, IF k = fragments THEN Len(bits) ELSE 360 * k)
    IN [k \in 1..fragments |->
          [talker |-> AisTalker(d), channel |-> AisChannel(d), fragments |-> fragments, frag |-> k,
           seq |-> IF fragments > 1 THEN Bumped(counter) ELSE None,
           payload |-> Sextets(Part(k)), padding |-> (6 - (Len(Part(k)) % 6)) % 6]]

-----------------------------------------------------------------------------

Nothing == [seq |-> None, count |-> 0, bits |-> <<>>]

Init ==
    /\ reports \in Logs
    /\ converted = <<>> /\ air = <<>> /\ heard = <<>> /\ missed = 0
    /\ seq_counter \in {0, 9}
    /\ partial = Nothing
    /\ panicked = FALSE

\* The conversion of this report panics.
Panics(d) == PgnToMsgId(d) = 21 /\ Cuts20(AtonName(d)) = {}

\* convert: a message that is not known makes no sentences, and after a panic
\* nothing is converted.
Convert ==
    /\ reports # <<>> /\ ~panicked
    /\ ~Panics(Head(reports))
    /\ reports' = Tail(reports)
    /\ LET d == Head(reports)
           bits == IF PgnToMsgId(d) = None THEN <<>> ELSE EncodePayload(d, PgnToMsgId(d))
           sentences == EmitSentences(d, bits, seq_counter)
       IN /\ air' = air \o sentences
          /\ seq_counter' = IF Len(sentences) > 1 THEN Bumped(seq_counter) ELSE seq_counter
          /\ converted' = IF bits = <<>> THEN converted ELSE Append(converted, d)
    /\ UNCHANGED <<partial, heard, missed, panicked>>

Panic ==
    /\ reports # <<>> /\ ~panicked
    /\ Panics(Head(reports))
    /\ panicked' = TRUE
    /\ UNCHANGED <<reports, converted, seq_counter, air, partial, heard, missed>>

\* A chart plotter: parts of one number, one after the other.
BitsIn(sentence) ==
    LET bits == FlattenSeq([k \in DOMAIN sentence.payload |->
                    LET ch == sentence.payload[k] IN Bits(IF ch < 88 THEN ch - 48 ELSE ch - 56, 6)])
    IN SubSeq(bits, 1, Len(bits) - sentence.padding)
Hear ==
    /\ air # <<>>
    /\ air' = Tail(air)
    /\ LET sentence == Head(air)
           goes_on == sentence.frag > 1 /\ partial.seq = sentence.seq /\ partial.count = sentence.frag - 1
           before == IF sentence.frag = 1 THEN <<>> ELSE partial.bits
       IN IF sentence.frag = 1 \/ goes_on
          THEN IF sentence.frag = sentence.fragments
               THEN heard' = Append(heard, before \o BitsIn(sentence)) /\ partial' = Nothing
               ELSE partial' = [seq |-> sentence.seq, count |-> sentence.frag, bits |-> before \o BitsIn(sentence)]
                    /\ UNCHANGED heard
          ELSE UNCHANGED <<heard, partial>>
    /\ UNCHANGED <<reports, converted, seq_counter, missed, panicked>>

Miss ==
    /\ air # <<>> /\ missed < MaxMissed
    /\ air' = Tail(air)
    /\ missed' = missed + 1
    /\ UNCHANGED <<reports, converted, seq_counter, partial, heard, panicked>>

Next == Convert \/ Panic \/ Hear \/ Miss

Spec == Init /\ [][Next]_vars

-----------------------------------------------------------------------------

TypeOK ==
    /\ seq_counter \in 0..9 /\ missed \in 0..MaxMissed /\ panicked \in BOOLEAN
    /\ \A k \in DOMAIN air : /\ Len(air[k].payload) \in 1..60 /\ air[k].padding \in 0..5
                             /\ air[k].frag \in 1..air[k].fragments
                             /\ (air[k].fragments = 1) = (air[k].seq = None)

\* The layouts of the standard: where a field starts, and its width.
Slot(name, start, width) == [name |-> name, start |-> start, width |-> width]
Fix(start) == {Slot("position_accuracy", start, 1), Slot("longitude", start + 1, 28), Slot("latitude", start + 29, 27)}
Hull(start) == {Slot("bow", start, 9), Slot("stern", start + 9, 9), Slot("port", start + 18, 6), Slot("starboard", start + 24, 6)}
ClassBCommon == Fix(56) \cup {Slot("sog", 46, 10), Slot("cog", 112, 12), Slot("heading", 124, 9), Slot("time_stamp", 133, 6)}
Layout(id, kind) ==
    {Slot("repeat", 6, 2), Slot("user_id", 8, 30)} \cup
    (CASE id \in 1..3 -> Fix(60) \cup {Slot("nav_status", 38, 4), Slot("rate_of_turn", 42, 8), Slot("sog", 50, 10), Slot("cog", 116, 12),
                          Slot("heading", 128, 9), Slot("time_stamp", 137, 6), Slot("special_maneuver", 143, 2), Slot("raim", 148, 1),
                          Slot("communication_state", 149, 19)}
      [] id = 4 -> Fix(78) \cup {Slot("date", 38, 23), Slot("time", 61, 17), Slot("gnss_type", 134, 4), Slot("raim", 148, 1),
                          Slot("communication_state", 149, 19)}
      [] id = 5 -> Hull(240) \cup {Slot("ais_version", 38, 2), Slot("imo_number", 40, 30), Slot("callsign", 70, 42), Slot("name", 112, 120),
                          Slot("type_of_ship", 232, 8), Slot("gnss_type", 270, 4), Slot("eta", 274, 20), Slot("draft", 294, 8),
                          Slot("destination", 302, 120), Slot("dte", 422, 1)}
      [] id = 9 -> Fix(60) \cup {Slot("altitude", 38, 12), Slot("speed", 50, 10), Slot("cog", 116, 12), Slot("time_stamp", 128, 6),
                          Slot("dte", 142, 1), Slot("raim", 147, 1), Slot("communication_state", 149, 19)}
      [] id = 12 -> {Slot("sequence_number", 38, 2), Slot("destination_id", 40, 30), Slot("retransmit", 70, 1), Slot("text", 72, 156)}
      [] id = 14 -> {Slot("text", 40, 168)}
      [] id = 18 -> ClassBCommon \cup {Slot("unit_type", 141, 1), Slot("display", 142, 1), Slot("dsc", 143, 1), Slot("band", 144, 1), Slot("msg22", 145, 1),
                          Slot("ais_mode", 146, 1), Slot("raim", 147, 1), Slot("comm_flag", 148, 1), Slot("communication_state", 149, 19)}
      [] id = 19 -> ClassBCommon \cup Hull(271) \cup {Slot("name", 143, 120), Slot("type_of_ship", 263, 8), Slot("gnss_type", 301, 4),
                          Slot("raim", 305, 1), Slot("dte", 306, 1), Slot("ais_mode", 307, 1)}
      [] id = 21 -> Fix(163) \cup Hull(219) \cup {Slot("aton_type", 38, 5), Slot("aton_name", 43, 120), Slot("time_stamp", 253, 6), Slot("off_position", 259, 1),
                          Slot("raim", 268, 1), Slot("virtual_aton", 269, 1), Slot("assigned_mode", 270, 1)}
      [] kind = "part_a" -> {Slot("part", 38, 2), Slot("name", 40, 120)}
      [] kind = "part_b" -> Hull(132) \cup {Slot("part", 38, 2), Slot("type_of_ship", 40, 8), Slot("vendor_id", 48, 42), Slot("callsign", 90, 42)}
      [] OTHER -> {})

Unsigned(bits, f) == ReadBits(SubSeq(bits, f.start + 1, f.start + f.width))
Signed(bits, f) == Unsigned(bits, f) - (IF bits[f.start + 1] = 1 THEN 2^f.width ELSE 0)
Lesser(m, n) == IF m < n THEN m ELSE n
Near(got, want, by) == got - want \in -by..by

\* What a plotter shows is what was decoded: characters the standard has, numbers
\* within half of its unit, or "not available" of what was not, or is out of range.
\* As it is in the code: a course or a heading that would be rounded to 360 is not
\* available; a height below zero counts from -0.5 metre on as none; a SAR aircraft
\* without a speed flies at 102 knots; a flag that is absent is set; a reference
\* that is wider than its bits spoils the hull; of a safety text 26 or 28
\* characters are left; the first field of a station's name has fewer than 20
\* characters when some of them take several bytes, and the extension goes on from
\* there; and when byte 20 of the name is inside a character, the program ends.
Letters(s, n) == [k \in 1..n |-> IF k <= Len(s) THEN SixBit(s[k]) ELSE 0]
Shown(bits, f) == [k \in 1..(f.width \div 6) |-> ReadBits(SubSeq(bits, f.start + 6 * k - 5, f.start + 6 * k))]
Position(bits, f, limit, absent, d) ==
    LET raw == Given(d, f.name, 0)
    IN IF Has(d, f.name) /\ raw \in -(limit + 8)..(limit + 8)
       THEN Near(Signed(bits, f), 3 * (raw \div 50), 3) /\ Near(50 * (Signed(bits, f) - 3 * (raw \div 50)), 3 * (raw % 50), 25)
       ELSE Signed(bits, f) = absent
Angle(bits, f, unit, last, absent, d) ==
    IF Has(d, f.name) /\ d.fields[f.name] <= last
    THEN Near(174533 * Unsigned(bits, f), (10000 \div unit) * d.fields[f.name], 87266 + 400)
    ELSE Unsigned(bits, f) = absent
Hulled(d) == Given(d, "ref_bow", 0) < 5115 /\ Given(d, "ref_starboard", 0) < 635
Half(got, tenths) == Near(10 * got, tenths, 5)
Reads(d, bits, f) ==
    CASE f.name \in {"user_id", "imo_number", "destination_id", "sequence_number", "retransmit", "repeat"} ->
           Unsigned(bits, f) = Given(d, f.name, 0)
      [] f.name = "part" -> Unsigned(bits, f) = IF d.kind = "part_a" THEN 0 ELSE 1
      [] f.name = "time_stamp" -> Unsigned(bits, f) = Given(d, f.name, 60)
      [] f.name = "rate_of_turn" ->
           IF ~Has(d, f.name) THEN Signed(bits, f) = -128
           ELSE LET turn == Signed(bits, f)
                    raw == d.fields[f.name]
                    size == IF turn < 0 THEN -turn ELSE turn
                IN /\ turn * raw >= 0
                   /\ size < 127 => (2 * size + 1) * (2 * size + 1) * 1000 > 9626 * (IF raw < 0 THEN -raw ELSE raw)
                   /\ size > 0 => (2 * size - 1) * (2 * size - 1) * 1000 <= 9626 * (IF raw < 0 THEN -raw ELSE raw)
      [] f.name = "sog" ->
           IF Has(d, f.name) /\ d.fields[f.name] < 5260
           THEN Near(51444 * Unsigned(bits, f), 10000 * d.fields[f.name], 26000) ELSE Unsigned(bits, f) = 1023
      [] f.name = "speed" ->
           IF Has(d, "sog") /\ d.fields["sog"] < 5260
           THEN Near(514444 * Unsigned(bits, f), 10000 * d.fields["sog"], 257222 + 26000) ELSE Unsigned(bits, f) = 102
      [] f.name = "cog" -> Angle(bits, f, 1, 62822, 3600, d)
      [] f.name = "heading" -> Angle(bits, [f EXCEPT !.name = "heading"], 10, 62744, 511, d)
      [] f.name = "longitude" -> Position(bits, f, 1800000000, 108600000, d)
      [] f.name = "latitude" -> Position(bits, f, 900000000, 54600000, d)
      [] f.name = "altitude" ->
           IF Has(d, f.name) /\ d.fields[f.name] \in -149..409449
           THEN Near(100 * Unsigned(bits, f), d.fields[f.name], IF d.fields[f.name] < 0 THEN 149 ELSE 50)
           ELSE Unsigned(bits, f) = 4095
      [] f.name = "communication_state" ->
           IF Has(d, f.name)
           THEN LET raw == d.fields[f.name] IN
                /\ Unsigned(bits, f) % 256 = raw[1] /\ (Unsigned(bits, f) \div 256) % 256 = raw[2]
                /\ Unsigned(bits, f) \div 65536 = raw[3] % 8
           ELSE Unsigned(bits, f) = 393222
      [] f.name = "draft" -> IF Given(d, f.name, 0) > 2550 THEN Unsigned(bits, f) = 255 ELSE Half(Unsigned(bits, f), Given(d, f.name, 0))
      [] f.name = "date" ->
           LET n == Unsigned(bits, f) IN <<n \div 512, (n \div 32) % 16, n % 32>> = Given(d, f.name, <<0, 0, 0>>)
      [] f.name = "time" ->
           LET n == Unsigned(bits, f)
           IN (n \div 4096) * 3600 + ((n \div 64) % 64) * 60 + (n % 64) = Given(d, f.name, 0)
      [] f.name = "eta" ->
           LET n == Unsigned(bits, f)
           IN /\ <<n \div 65536, (n \div 2048) % 32>> = Tail(Given(d, "eta_date", <<0, 0, 0>>))
              /\ ((n \div 64) % 32) * 60 + (n % 64) = IF Has(d, "eta_time") THEN d.fields["eta_time"] \div 60 ELSE 1500
      [] f.name = "bow" -> Hulled(d) => Half(Unsigned(bits, f), Given(d, "ref_bow", 0))
      [] f.name = "starboard" -> Hulled(d) => Half(Unsigned(bits, f), Given(d, "ref_starboard", 0))
      [] f.name = "stern" -> Half(Unsigned(bits, f), Clamp(Given(d, "length", 0) - Given(d, "ref_bow", 0), 0, 5110))
      [] f.name = "port" -> Hulled(d) => Half(Unsigned(bits, f), Clamp(Given(d, "beam", 0) - Given(d, "ref_starboard", 0), 0, 630))
      [] f.name = "text" ->
           LET room == Lesser(f.width, 8 * ((6 * Len(Given(d, f.name, <<>>)) + 7) \div 8)) \div 6
           IN Len(bits) >= f.start + 6 * room
              /\ Shown(bits, [f EXCEPT !.width = 6 * room]) = Letters(Given(d, f.name, <<>>), room)
      [] f.name = "aton_name" ->
           LET name == Given(d, "name", <<>>)
               rest(k) == [start |-> 272, width |-> 6 * (Len(name) - k)]
           IN \E k \in 0..Lesser(20, Len(name)) :
                /\ Shown(bits, f) = Letters(SubSeq(name, 1, k), 20)
                /\ Len(bits) >= 272 + rest(k).width
                /\ Shown(bits, rest(k)) = Letters(SubSeq(name, k + 1, Len(name)), Len(name) - k)
                /\ (\A i \in 1..k : name[i] < 128) => k = Lesser(20, Len(name))
      [] f.name \in {"callsign", "name", "destination", "vendor_id"} ->
           Shown(bits, f) = Letters(Given(d, f.name, <<>>), f.width \div 6)
      [] OTHER -> Unsigned(bits, f) = IF Has(d, f.name) THEN d.fields[f.name] ELSE 2^f.width - 1

\* Every message that is heard is a report that was decoded, whichever sentences
\* were lost: in the order of the reports, and all of them when nothing is lost.
IsReport(d, bits) ==
    LET id == PgnToMsgId(d)
    IN /\ ReadBits(SubSeq(bits, 1, 6)) = id
       /\ \A f \in Layout(id, d.kind) : Reads(d, bits, f)
HeardAsReported ==
    /\ \E which \in [DOMAIN heard -> DOMAIN converted] :
         /\ \A i, j \in DOMAIN heard : i < j => which[i] < which[j]
         /\ \A i \in DOMAIN heard : IsReport(converted[which[i]], heard[i])
    /\ air = <<>> /\ missed = 0 => Len(heard) = Len(converted)
=============================================================================
