----------------------------- MODULE MCDialogues -----------------------------
(* The dialogues with one device and the codecs of what is said in them, for *)
(* TLC: each behaviour is of one of them.                                    *)
EXTENDS Integers, Sequences, TLC

CONSTANTS None, MaxPushes,
          MaxPosts, Parts   \* the dialogues of the run

VARIABLES
    part,   \* "fields", "json", "wire", "lines" or "ais"
    units, builder, staged, meant, frame, decoded, pushes,
    record, opts, mode, left, fields_buf, top_sep, current_set, current_iter, line,
    server, in_flight, rx, stage, peer_units, db_units, posted, read,
    dialect, sink, talk, noise, scanner, usable, said, copied, rescanner, returned, torn, misled,
    reports, converted, seq_counter, air, partial, heard, missed, panicked

fldVars == <<units, builder, staged, meant, frame, decoded, pushes>>
jsonVars == <<record, opts, mode, left, fields_buf, top_sep, current_set, current_iter, line>>
wireVars == <<server, in_flight, rx, stage, peer_units, db_units, posted, read>>
lineVars == <<dialect, sink, talk, noise, scanner, usable, said, copied, rescanner, returned, torn, misled>>
aisVars == <<reports, converted, seq_counter, air, partial, heard, missed, panicked>>
vars == <<part, fldVars, jsonVars, wireVars, lineVars, aisVars>>

\* A field, as the schema gives it when it says nothing more.
Bare(type, bits, at) == [type |-> type, bits |-> bits, at |-> at, signed |-> FALSE, offset |-> 0, resolution |-> 1,
    unit |-> None, unit_offset |-> 0, unknown |-> None, out |-> None, resv |-> None, match |-> None,
    table |-> <<>>, via |-> 0, marker |-> FALSE, gated |-> FALSE]

\* A schema with one of every type of field, selectors, a catch-all, sets that repeat.
P(k) == 61440 + k
Def(k, fallback, length, sets, fields) ==
    [pgn |-> P(k), fallback |-> fallback, length |-> length, sets |-> sets, fields |-> fields]
Set(start, size, count) == [start |-> start, size |-> size, count |-> count]
Num(bits, at, unknown) == [Bare("NUMBER", bits, at) EXCEPT !.unknown = unknown]
Sel(v) == [Bare("NUMBER", 8, 0) EXCEPT !.match = v]
Entry(type, bits, res) == [type |-> type, bits |-> bits, signed |-> FALSE, resolution |-> res, unit |-> None, table |-> {}]
Keys == 1 :> Entry("NUMBER", 8, 1) @@ 2 :> Entry("FIX", 16, 2) @@ 3 :> Entry("ISO_NAME", 16, 1)
Db == <<
  Def(1, FALSE, 3, <<>>, <<[Num(8, 0, 127) EXCEPT !.signed = TRUE, !.resolution = 2, !.unit = "rad", !.out = 126],
                     [Num(12, 8, 4095) EXCEPT !.resolution = 3, !.unit = "K", !.offset = 1],
                     [Bare("LOOKUP", 3, 20) EXCEPT !.table = (0 :> "off" @@ 1 :> "on" @@ 7 :> "all"), !.unknown = 7, !.out = 6],
                     Bare("RESERVED", 1, 23)>>),
  Def(2, TRUE, None, <<>>, <<Bare("BINARY", 24, 0)>>),
  Def(2, FALSE, 2, <<>>, <<Sel(1), Num(8, 8, None)>>),
  Def(2, FALSE, 3, <<>>, <<Sel(2), Bare("STRING_FIX", 16, 8)>>),
  Def(3, FALSE, None, <<Set(2, 2, 1)>>, <<Num(8, 0, 255), [Num(8, 8, 255) EXCEPT !.offset = 10], Bare("STRING_LAU", None, 16)>>),
  Def(4, FALSE, None, <<Set(4, 2, 3)>>, <<Sel(0), Bare("PGN", 24, 8), Num(8, 32, 255), Bare("FIELD_INDEX", 8, 40), Bare("VARIABLE", None, 48)>>),
  Def(4, FALSE, None, <<Set(5, 2, 3), Set(7, 1, 4)>>, <<Sel(3), Bare("PGN", 24, 8), Num(8, 32, 255), Num(8, 40, 255),
                     Bare("FIELD_INDEX", 8, 48), Bare("VARIABLE", None, None), Bare("FIELD_INDEX", 8, None)>>),
  Def(5, FALSE, None, <<Set(1, 3, None)>>, <<[Bare("KEY", 8, 0) EXCEPT !.table = Keys, !.unknown = 255], Bare("LENGTH", 8, 8), Bare("VALUE", None, 16)>>),
  Def(6, FALSE, 2, <<>>, <<Num(8, 0, None), [Bare("INDIRECT_LOOKUP", 4, 8) EXCEPT !.table = {<<1, 2>>}, !.via = 3, !.unknown = 15],
                     [Bare("LOOKUP", 4, 12) EXCEPT !.table = (1 :> "one"), !.unknown = 15]>>),
  Def(7, FALSE, None, <<>>, <<[Bare("BITLOOKUP", 8, 0) EXCEPT !.table = {0, 3}],
                     [Bare("DATE", 16, 8) EXCEPT !.unknown = 65535], [Bare("TIME", 16, 24) EXCEPT !.unknown = 65535, !.resolution = 2],
                     Bare("MMSI", 16, 40), Bare("SPARE", 8, 56), Bare("STRING_LZ", 24, 64)>>),
  Def(8, FALSE, None, <<>>, <<Num(8, 0, 255), Bare("BINARY", None, 8)>>),
  Def(9, FALSE, None, <<>>, <<[Bare("KEY", 8, 0) EXCEPT !.table = Keys], Bare("VALUE", None, 8)>>) >>

\* What is set, and the payloads of others with the pairs they hold.
Values == {[number |-> -7], [number |-> 20], [int |-> 3], [int |-> 126], [label |-> "on"], [label |-> "up"],
           [text |-> <<65>>], [text |-> <<65, 66, 67>>], [bytes |-> <<5, 6>>], [pgn |-> P(1)], [na |-> TRUE]}
F(k, data, pairs) == [pgn |-> P(k), data |-> data, pairs |-> pairs]
Foreign == {F(4, <<0, 1, 240, 0, 3, 1, 5, 2, 44, 1, 3, 1>>, <<[number |-> 10], [number |-> 901], [lookup |-> 1, named |-> TRUE]>>),
            F(4, <<3, 1, 240, 0, 1, 2, 3, 1, 1, 2>>, <<[lookup |-> 1, named |-> TRUE]>>),
            F(3, <<2, 1, 3, 1, 65, 2, 4, 0, 66, 0>>, None), F(10, <<1, 2, 3, 4>>, None),
            F(5, <<1, 1, 5, 9, 2, 1, 2, 2, 2, 255, 255, 1, 1, 255>>, <<[integer |-> 5], [bytes |-> <<1, 2>>], [number |-> -2], [na |-> TRUE]>>),
            F(5, <<3, 2, 7, 18>>, None), F(9, <<3, 7, 18>>, None), F(6, <<7, 18>>, None),
            F(7, <<2, 65, 66, 9, 1, 2, 3, 4, 5, 6, 7, 8, 9>>, None)}

\* What a decoder may hand to the writers of lines.
V(kind, n, s) == [kind |-> kind, n |-> n, s |-> s, bits |-> <<>>, ones |-> FALSE, subs |-> <<>>]
NA == V("na", 0, None)
Fi(name, id, type, val) == [name |-> name, id |-> id, type |-> type, value |-> val, set |-> 0, iter |-> None, at |-> None,
    width |-> 8, primary |-> FALSE, precision |-> 0, resolution |-> 100, table |-> <<>>]
Lk == [Fi("Reference", "reference", "lookup", V("lookup", 2, "Apparent")) EXCEPT !.table = 1 :> "True" @@ 2 :> "Apparent"]
Nm == [Fi("Speed", "speed", "number", V("number", 150, None)) EXCEPT !.resolution = 1]
X(type, val) == Fi("Field", "field", type, val)
Ranged(n, res) == [X("number", V("number", n, None)) EXCEPT !.resolution = res]
Timed(n, res) == [X("time", V("time", n, "00:00:01")) EXCEPT !.resolution = res]
Placed(at, width) == [X("integer", V("integer", 5, None)) EXCEPT !.at = at, !.width = width]
Cases ==
    {Ranged(-30, 10), Ranged(-1205, 5), Ranged(7, 1), [Ranged(105, 100) EXCEPT !.precision = 2],
     X("lookup", V("lookup", 3, None)), X("lookup", V("lookup", 1, "True")),
     X("lookup", V("bits", 0, None)), X("lookup", [V("bits", 3, None) EXCEPT !.bits = <<"one", "two">>]),
     X("string", V("string", 0, "ship")), Fi("Name", "name", "string", V("string", 0, "ship")),
     Fi("PGN", "pgn", "pgn", V("pgn", 7, None)), X("pgn", V("pgn", 7, "seven")),
     X("date", V("date", 9, "1970.01.10")), Timed(3, 100), Timed(250, 1), Timed(2, 6000),
     X("mmsi", V("mmsi", 12, None)), X("binary", V("binary", 0, "hex")),
     X("skip", V("reserved", 0, "hex")), X("skip", [V("reserved", 1, "hex") EXCEPT !.ones = TRUE]),
     X("skip", V("spare", 0, "hex")), X("skip", V("spare", 1, "hex")),
     X("number", V("sentinel", 0, "Out Of Range")), X("number", NA), X("string", NA), X("lookup", NA),
     X("skip", [V("iso", 77, None) EXCEPT !.subs = <<Fi("Sub", "sub", "lookup", V("lookup", 4, "four")),
         Fi("Gap", "gap", "skip", V("spare", 0, None)), Fi("No", "no", "number", NA), Fi("End", "end", "integer", V("integer", 1, None))>>]),
     Placed(0, 8), Placed(3, 5), Placed(3, 8), Placed(24, 8)}
    \cup {[X(t, V(t, 5, None)) EXCEPT !.primary = TRUE] : t \in {"integer", "lookup", "mmsi"}}
Rec(fields, has, first, options) ==
    [fields |-> fields, schema |-> fields, first |-> first, has |-> has, options |-> options, payload_bits |-> 24,
     timestamp |-> None, prio |-> 3, src |-> 7, dst |-> 255, pgn |-> 127, id |-> "windData", description |-> "Wind Data"]
Options == [nv : BOOLEAN, include_empty : BOOLEAN, debug : BOOLEAN, camel : {"off", "lower", "upper"}]
Singles == {Rec(<<Lk, x, Nm>>, <<FALSE, FALSE>>, <<Lk, x, Nm>>, Options) : x \in Cases}
Alone == {[Rec(<<x>>, <<FALSE, FALSE>>, <<Nm>>, [nv : {TRUE}, include_empty : {FALSE}, debug : {FALSE}, camel : {"off", "lower"}])
             EXCEPT !.timestamp = "now"] : x \in Cases}
\* Two lists: a field is shown, not available, or past the payload.
Rep(f, set, iter, shown) == [f EXCEPT !.set = set, !.iter = iter, !.value = IF shown THEN @ ELSE NA]
Lists == {Rec((IF top THEN <<Nm>> ELSE <<>>)
                 \o [i \in 1..4 |-> Rep(IF i % 2 = 1 THEN Lk1 ELSE Nm1, 1, (i - 1) \div 2, shown[i])]
                 \o (IF two = 0 THEN <<>> ELSE <<Rep(Nm2, 2, IF two = 1 THEN None ELSE 0, shown[5]), Rep(Nm2, 2, 1, two = 2)>>),
                 <<TRUE, two > 0>>, <<Nm>>, [nv : BOOLEAN, include_empty : BOOLEAN, debug : {FALSE}, camel : {"off"}])
            : top \in BOOLEAN, shown \in [1..5 -> BOOLEAN], two \in 0..2, Lk1 \in {Fi("Id", "id", "lookup", V("lookup", 2, "two"))},
              Nm1 \in {Fi("Value", "value", "number", V("number", 100, None))}, Nm2 \in {Fi("Para", "para", "integer", V("integer", 3, None))}}
NoFields == {Rec(<<>>, <<h, FALSE>>, <<>>, Options) : h \in BOOLEAN}
Records == Singles \cup Alone \cup Lists \cup NoFields

\* Servers of this build, programs with its library, other builds and others.
Ours == [magic |-> "CBW1", wire_version |-> 2, schema_hash |-> 5]
Peer(kind, build, u, code) == [kind |-> kind, build |-> build, units |-> u, code |-> code]
Servers ==
    {Peer("server", Ours, u, 0) : u \in {"Si", "Metric"}} \cup {Peer("library", Ours, "Si", 1), Peer("library", Ours, "Metric", 2)}
    \cup {Peer("server", [Ours EXCEPT !.schema_hash = 6], "Metric", 0), Peer("server", [Ours EXCEPT !.wire_version = 1], "Metric", 0),
          Peer("server", [Ours EXCEPT !.magic = "CBW2"], "Metric", 0), Peer("stranger", Ours, "Metric", 0), Peer("stranger", Ours, "Metric", 3)}
Post(k, data, size) == [pgn |-> P(k), data |-> data, size |-> size]
Posts == {Post(1, <<4, 9, 20>>, 5), Post(1, <<253, 39, 96>>, 1), Post(4, <<0, 1, 240, 0, 3, 1, 5, 2, 44, 1, 3, 1>>, 2),
          Post(5, <<1, 1, 5, 9, 2, 1, 2, 2, 2, 255, 255, 1, 1, 255>>, 3), Post(5, <<3, 2, 7, 18>>, 1), Post(6, <<1, 18>>, 1),
          Post(7, <<9, 1, 2, 3, 4, 5, 6, 7, 2, 65, 66>>, 2), Post(2, <<1, 5>>, 1)}

\* Three devices and what each says: of every shape of PGN and size, at the ends
\* of days, years and centuries.
At(day, date, time) == [day |-> day, date |-> date, time |-> time]
Telegram(at, prio, pgn, src, dst, n) ==
    [at |-> at, prio |-> prio, pgn |-> pgn, src |-> src, dst |-> dst, data |-> [i \in 1..n |-> (37 * i) % 256]]
Leap == At(19782, <<2024, 2, 29>>, 61521993)
Eve == At(10956, <<1999, 12, 31>>, 86399999)
Century == At(47541, <<2100, 3, 1>>, 1)
Telegrams ==
    {<<Telegram(Leap, 3, 130306, 35, 255, 8), Telegram(Eve, 6, 59904, 14, 255, 3), Telegram(Century, 2, 126208, 200, 36, 0)>>,
     <<Telegram(Eve, 7, 126720, 1, 2, 224), Telegram(Leap, 4, 129029, 77, 255, 250), Telegram(Leap, 0, 130842, 9, 255, 7)>>,
     <<Telegram(Century, 5, 126996, 254, 255, 5), Telegram(Leap, 1, 61184, 0, 17, 1), Telegram(Leap, 0, 262400, 9, 255, 7)>>}

\* AIS reports: of every kind, in full, empty, and at the ends of the ranges.
Letter(k) == <<65, 90, 48, 32, 97, 63, 95, 200>>[(k % 8) + 1]
Word(n) == [k \in 1..n |-> Letter(k + n)]
Report(kind, message, info, fields) == [kind |-> kind, message |-> message, info |-> info, fields |-> fields]
Ship == [user_id |-> 244180106, repeat |-> 1, longitude |-> 53134516, latitude |-> -529061673, position_accuracy |-> 0, raim |-> 0,
         time_stamp |-> 29, cog |-> 29967, sog |-> 180, communication_state |-> <<248, 9, 5>>]
ClassA == Ship @@ [nav_status |-> 5, rate_of_turn |-> -700, heading |-> 31416, special_maneuver |-> 1]
Voyage == [user_id |-> 999999999, imo_number |-> 9074729, callsign |-> Word(7), name |-> Word(20), type_of_ship |-> 70, length |-> 3660,
           beam |-> 594, ref_bow |-> 1236, ref_starboard |-> 297, gnss_type |-> 1, draft |-> 1234, destination |-> Word(9), dte |-> 0,
           ais_version |-> 1, eta_date |-> <<2024, 12, 31>>, eta_time |-> 86399]
ClassB == Ship @@ [heading |-> 0, unit_type |-> 0, display |-> 1, dsc |-> 0, band |-> 1, msg22 |-> 0, ais_mode |-> 1, comm_flag |-> 0]
Buoy == Ship @@ [aton_type |-> 17, name |-> Word(90), length |-> 40, beam |-> 21, ref_bow |-> 4, ref_starboard |-> 6,
                 off_position |-> 0, virtual_aton |-> 0, assigned_mode |-> 1]
Edges == {[longitude |-> -1800000000, latitude |-> 899999999], [longitude |-> 1810000000, latitude |-> -900000010],
          [cog |-> 62831, sog |-> 5263], [cog |-> 62822, sog |-> 65532], [cog |-> 17, sog |-> 0], [heading |-> 62700],
          [heading |-> 62800], [heading |-> 87], [time_stamp |-> 63, position_accuracy |-> 1]}
AisLogs == {<<Report("class_a", 3, 1, ClassA), Report("class_a_static", 5, 4, Voyage), Report("class_a_static", None, 0, [user_id |-> 1])>>,
         <<Report("aton", 21, 3, Buoy), Report("class_b_extended", 19, 0, Voyage @@ ClassB), Report("class_a_static", 5, 2, Voyage)>>,
         <<Report("utc_date", 4, 0, Ship @@ [date |-> <<2149, 6, 6>>, time |-> 86399, gnss_type |-> 3]), Report("utc_date", 11, 0, Ship),
           Report("aton", None, 1, [name |-> Word(33)])>>,
         <<Report("sar", 9, 0, Ship @@ [altitude |-> 12345, dte |-> 0]), Report("part_a", 24, 1, [user_id |-> 7, name |-> Word(5)]),
           Report("part_b", 24, 2, [vendor_id |-> Word(4), mothership |-> 8] @@ Voyage)>>,
         <<Report("addressed", 12, 0, [user_id |-> 3, sequence_number |-> 2, destination_id |-> 4, retransmit |-> 1, text |-> Word(31)]),
           Report("broadcast", 14, 0, [user_id |-> 3, text |-> Word(11)]), Report("other", None, 0, Ship)>>}
        \* The name of a station, with a character of several bytes at any of the
        \* places around byte 20, or none.
        \cup {<<Report("aton", None, 0, [name |-> [k \in 1..26 |-> IF k = at THEN wide ELSE Letter(k % 7)]]),
                Report("broadcast", 14, 0, [text |-> Word(3)])>> : at \in {0, 17, 18, 19, 20, 21}, wide \in {200, 65533}}
        \cup {<<Report("class_b", 18, 0, edge @@ ClassB)>> : edge \in Edges}
        \cup {<<Report("class_a", 1, 0, [rate_of_turn |-> turn])>> : turn \in {-32764, -5, 0, 4, 300, 32764}}
        \cup {<<Report("sar", 9, 0, [altitude |-> height, sog |-> 5144])>> : height \in {-200, -149, -60, 0, 409400, 409500, 999999}}
        \cup {<<Report("class_a_static", 5, 0, [length |-> 5200, beam |-> 700, ref_bow |-> bow, ref_starboard |-> side, draft |-> bow])>>
                : bow \in {0, 14, 5114, 5120}, side \in {0, 634, 640}}
        \cup {<<Report(kind, None, 0, [raim |-> 0]), Report("broadcast", 14, 0, [text |-> Word(n)])>> : n \in {0, 3, 27, 40},
                kind \in {"class_b", "class_b_extended", "utc_date", "sar", "addressed", "part_a", "part_b"}}

Fld == INSTANCE Fields WITH Ratio <- 3, Zero <- 2, IdPgn <- P(6), NameBits <- 16, Wide <- 16
Js == INSTANCE AnalyzerJson
Wi == INSTANCE BinaryWire WITH Ratio <- 3, Zero <- 2, IdPgn <- P(6), NameBits <- 16, Wide <- 16, Base <- 4,
    MAX_FRAME_LEN <- 8
Lin == INSTANCE LineFormats WITH Sources <- {"plain", "actisense", "ydwg02", "ikonvert", "airmar", "chetco", "garmin1",
    "garmin2", "csv", "pcap"}, Sinks <- {"plain", "ydwg02", "actisense", "ebl", "csv", "ngt1", "ikonvert", "maretron"},
    Talks <- Telegrams, Today <- <<2026, 5, 30>>, MaxNoise <- 1, MaxTorn <- 1
Ai == INSTANCE Ais WITH Logs <- AisLogs, MaxMissed <- 2

NoFld == units = 0 /\ builder = 0 /\ staged = 0 /\ meant = 0 /\ frame = 0 /\ decoded = 0 /\ pushes = 0
NoJs == record = 0 /\ opts = 0 /\ mode = 0 /\ left = 0 /\ fields_buf = 0 /\ top_sep = 0 /\ current_set = 0
        /\ current_iter = 0 /\ line = 0
NoWi == server = 0 /\ in_flight = 0 /\ rx = 0 /\ stage = 0 /\ peer_units = 0 /\ db_units = 0 /\ posted = 0 /\ read = 0
NoLin == dialect = 0 /\ sink = 0 /\ talk = 0 /\ noise = 0 /\ scanner = 0 /\ usable = 0 /\ said = 0 /\ copied = 0
         /\ rescanner = 0 /\ returned = 0 /\ torn = 0 /\ misled = 0
NoAi == reports = 0 /\ converted = 0 /\ seq_counter = 0 /\ air = 0 /\ partial = 0 /\ heard = 0 /\ missed = 0 /\ panicked = 0

Init ==
    /\ part \in Parts
    /\ \/ part = "fields"   /\ Fld!Init /\ NoJs /\ NoWi /\ NoLin /\ NoAi
       \/ part = "json"     /\ NoFld /\ Js!Init /\ NoWi /\ NoLin /\ NoAi
       \/ part = "wire"     /\ NoFld /\ NoJs /\ Wi!Init /\ NoLin /\ NoAi
       \/ part = "lines"    /\ NoFld /\ NoJs /\ NoWi /\ Lin!Init /\ NoAi
       \/ part = "ais"      /\ NoFld /\ NoJs /\ NoWi /\ NoLin /\ Ai!Init

\* One definition for each component: a step of it, the others left alone.
FldStep(A) == part = "fields"   /\ A /\ UNCHANGED <<part, jsonVars, wireVars, lineVars, aisVars>>
JsStep(A)  == part = "json"     /\ A /\ UNCHANGED <<part, fldVars, wireVars, lineVars, aisVars>>
WiStep(A)  == part = "wire"     /\ A /\ UNCHANGED <<part, fldVars, jsonVars, lineVars, aisVars>>
LinStep(A) == part = "lines"    /\ A /\ UNCHANGED <<part, fldVars, jsonVars, wireVars, aisVars>>
AiStep(A)  == part = "ais"      /\ A /\ UNCHANGED <<part, fldVars, jsonVars, wireVars, lineVars>>

Next == FldStep(Fld!Next) \/ JsStep(Js!Next) \/ WiStep(Wi!Next) \/ LinStep(Lin!Next) \/ AiStep(Ai!Next)

Spec == Init /\ [][Next]_vars

\* Every component is well typed (see TypeOK of each).
TypeOK ==
    CASE part = "fields" -> Fld!TypeOK
      [] part = "json" -> Js!TypeOK
      [] part = "wire" -> Wi!TypeOK
      [] part = "lines" -> Lin!TypeOK
      [] part = "ais" -> Ai!TypeOK

\* Module BinaryWire: records whole, and only of a peer to be trusted.
FramingHolds == part = "wire" => Wi!FramesWhole

\* Module Fields: what is composed is what is decoded, in either unit system;
\* a payload that was cut short makes nothing up; pairs keep their meaning.
\* Module AnalyzerJson: what is decoded is what its line is read back as.
\* Module BinaryWire: and what the other end of the binary port makes of it.
\* Module LineFormats: frames come back from the lines they were written as.
\* Module Ais: reports come back from the sentences that are heard.
FieldsComeBack == /\ part = "fields" => Fld!FieldsComeBack
                  /\ part = "json" => Js!LinesReadBack
                  /\ part = "wire" => Wi!RehydratedAsDecoded
                  /\ part = "lines" => Lin!LinesComeBack
                  /\ part = "ais" => Ai!HeardAsReported

\* Module BinaryWire: the units that every server declares are its own.
UnitsDeclared == part = "wire" => Wi!UnitsDeclared
=============================================================================
