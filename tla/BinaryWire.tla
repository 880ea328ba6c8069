------------------------------ MODULE BinaryWire ------------------------------
(* The binary analyzer port (canboat-wire, server/tcp.rs): a server decodes  *)
(* in one unit system and sends its records without what the schema can give *)
(* again; a consumer, of another build perhaps, checks the handshake, takes  *)
(* the bytes as they come, and makes the records whole against its own       *)
(* schema.  Decoding and schema are those of module Fields.                  *)
(*                                                                           *)
(* A frame is four bytes of length and a body; what postcard makes of a      *)
(* value are parts of it, as many as its size.                               *)
EXTENDS Integers, Sequences, SequencesExt, Functions

CONSTANTS None,
    Db, Ratio, Zero, IdPgn, NameBits, Wide,    \* of module Fields
    Ours,        \* this build: [magic, wire_version, schema_hash]
    Servers,     \* what may answer: [kind, build, units, code], see Hello
    Posts,       \* what their devices send: [pgn, data, size]
    Base,        \* the values of a byte (256)
    MAX_FRAME_LEN, MaxPosts

VARIABLES
    server,      \* what the consumer is connected to
    in_flight,   \* bytes written and not yet read
    rx,          \* the consumer's buffer
    stage,       \* of the consumer: "new", "reading" or "refused"
    peer_units,  \* the unit system that the Hello declares
    db_units,    \* the unit system of the consumer's schema
    posted,      \* the messages the server published on this connection
    read         \* the records the consumer made of them
wireVars == <<server, in_flight, rx, stage, peer_units, db_units, posted, read>>

Core == INSTANCE Fields WITH Values <- {}, Foreign <- {}, MaxPushes <- 0,
    units <- 0, builder <- 0, staged <- 0, meant <- 0, frame <- 0, decoded <- 0, pushes <- 0

----------------------------------------------------------------------------
(* Records without what the far side looks up.                               *)

Labels == {"named", "set", "described"}
Value(v) == RestrictDomain(v, LAMBDA k : k \notin Labels)
WireField(d) ==
    [order |-> d.order, iter |-> d.iter, set |-> d.set,
     value |-> IF "of" \in DOMAIN d.value
               THEN [d.value EXCEPT !.of = [i \in DOMAIN @ |-> [order |-> @[i].order, value |-> Value(@[i].value)]]]
               ELSE Value(d.value)]
WirePgn(d) == [id |-> d.id, entered |-> d.entered, fields |-> [i \in DOMAIN d.fields |-> WireField(d.fields[i])]]

\* Mutant: a value is converted the other way.
ConvertedBack(x, from, to) ==
    LET y == Core!convert_unit(x, to, from) IN IF from = None \/ to = None \/ y = None THEN x ELSE y

\* Of a producer with other units: from the unit of its field to that of ours.
Converted(x, from, to) ==
    LET y == Core!convert_unit(x, from, to) IN IF from = None \/ to = None \/ y = None THEN x ELSE y

\* A label of the field's own table, or of its table of keys; the set bits
\* that have a name; the first definition of a PGN.
Labelled(v, f) ==
    CASE "lookup" \in DOMAIN v -> [lookup |-> v.lookup, named |-> f.type \in {"LOOKUP", "KEY"} /\ v.lookup \in DOMAIN f.table]
      [] "bitfield" \in DOMAIN v ->
           [bitfield |-> v.bitfield,
            set |-> IF f.type = "BITLOOKUP" THEN {b \in f.table : (v.bitfield \div Core!Pow2(b)) % 2 = 1} ELSE {}]
      [] "pgn" \in DOMAIN v -> [pgn |-> v.pgn, described |-> Core!first_pgn(v.pgn) # None]
      [] OTHER -> v

\* An order that the definition does not have is its first field.
FieldOf(p, order) == IF order \in DOMAIN p.fields THEN p.fields[order] ELSE p.fields[1]

rehydrate_value(v, f, from) ==
    IF "number" \in DOMAIN v THEN [number |-> Converted(v.number, from, f.unit)] ELSE Labelled(v, f)

\* The fields of a NAME are looked up in the record's own definition.
rehydrate_field(w, p, peer_p) ==
    LET f == FieldOf(p, w.order)
        from == IF peer_p # None /\ w.order \in DOMAIN peer_p.fields THEN peer_p.fields[w.order].unit ELSE None
    IN [order |-> w.order, iter |-> w.iter, set |-> w.set,
        value |-> IF "of" \notin DOMAIN w.value THEN rehydrate_value(w.value, f, from)
                  ELSE [w.value EXCEPT !.of = [i \in DOMAIN @ |->
                            [order |-> @[i].order, value |-> rehydrate_value(@[i].value, FieldOf(p, @[i].order), None)]]]]

rehydrate(w, u, theirs) ==
    LET p == Core!Embedded(u)[w.id]
        peer_p == IF theirs = u THEN None ELSE Core!Embedded(theirs)[w.id]
    IN [id |-> w.id, entered |-> w.entered, fields |-> [i \in DOMAIN w.fields |-> rehydrate_field(w.fields[i], p, peer_p)]]

----------------------------------------------------------------------------
(* Frames.                                                                   *)

Octet(n) == [octet |-> n]
Encoded(v) == [i \in 1..v.size |-> [part |-> i, of |-> v]]
append_frame(out, v) == out \o [i \in 1..4 |-> Octet((v.size \div Base ^ (i - 1)) % Base)] \o Encoded(v)
\* (A byte of a body, taken for one of a length, makes it too long.)
Byte(b) == IF "octet" \in DOMAIN b THEN b.octet ELSE Base - 1
Length(buf) == MapThenSumSet(LAMBDA i : Byte(buf[i]) * Base ^ (i - 1), 1..4)

\* A frame is there when all of it is; one that says it is too long never is.
HasFrame(buf) == Len(buf) >= 4 /\ Length(buf) <= MAX_FRAME_LEN /\ Len(buf) >= 4 + Length(buf)
TooLong(buf) == Len(buf) >= 4 /\ Length(buf) > MAX_FRAME_LEN
Body(buf) == SubSeq(buf, 5, 4 + Length(buf))
\* Mutant: the length's own bytes stay in the buffer.
RestShort(buf) == SubSeq(buf, 1 + Length(buf), Len(buf))
Rest(buf) == SubSeq(buf, 5 + Length(buf), Len(buf))
Decodes(body) == body # <<>> /\ "of" \in DOMAIN body[1] /\ body = Encoded(body[1].of)

----------------------------------------------------------------------------
(* The two ends.                                                             *)

units_code(u) == IF u = "Si" THEN 1 ELSE 0
units_from_code(c) == IF c = 1 THEN "Si" ELSE "Metric"

\* The server tells its build, and metric units whatever it decodes in; a
\* program that links the library tells what it likes.
Hello(s) == [size |-> 2, hello |-> s.build, code |-> IF s.kind = "server" THEN units_code("Metric") ELSE s.code]

\* Mutant: a consumer takes any schema.
verifyAny(h) ==
    h.hello.magic = Ours.magic /\ h.hello.wire_version = Ours.wire_version /\ h.code \in {0, 1}

verify(h) ==
    /\ h.hello.magic = Ours.magic /\ h.hello.wire_version = Ours.wire_version
    /\ h.hello.schema_hash = Ours.schema_hash
    /\ h.code \in {0, 1}

\* In a build of another schema, every definition has a field more in front.
Orders(s, w) ==
    IF s.build.schema_hash = Ours.schema_hash THEN w
    ELSE [w EXCEPT !.fields = [i \in DOMAIN @ |-> [@[i] EXCEPT !.order = @ + 1]]]
Record(s, m) == [size |-> m.size, pgn |-> Orders(s, WirePgn(Core!decode(s.units, m.pgn, m.data)))]

Init ==
    /\ server \in Servers /\ db_units \in Core!UnitSystems
    /\ in_flight = IF server.kind = "stranger" THEN [i \in 1..6 |-> Octet(server.code)] ELSE append_frame(<<>>, Hello(server))
    /\ rx = <<>> /\ stage = "new" /\ peer_units = None /\ posted = <<>> /\ read = <<>>

Publish(m) ==
    /\ server.kind # "stranger" /\ Len(posted) < MaxPosts
    /\ posted' = Append(posted, m)
    /\ in_flight' = append_frame(in_flight, Record(server, m))
    /\ UNCHANGED <<server, rx, stage, peer_units, db_units, read>>

\* The socket gives as many bytes as it likes.
Receive(n) ==
    /\ n \in DOMAIN in_flight /\ stage # "refused"
    /\ rx' = rx \o SubSeq(in_flight, 1, n)
    /\ in_flight' = SubSeq(in_flight, n + 1, Len(in_flight))
    /\ UNCHANGED <<server, stage, peer_units, db_units, posted, read>>

ReadHello ==
    /\ stage = "new" /\ HasFrame(rx) /\ Decodes(Body(rx))
    /\ LET h == Body(rx)[1].of
       IN /\ verify(h)
          /\ peer_units' = units_from_code(h.code)
    /\ stage' = "reading" /\ rx' = Rest(rx)
    /\ UNCHANGED <<server, in_flight, db_units, posted, read>>

ReadRecord ==
    /\ stage = "reading" /\ HasFrame(rx) /\ Decodes(Body(rx))
    /\ read' = Append(read, rehydrate(Body(rx)[1].of.pgn, db_units, peer_units))
    /\ rx' = Rest(rx)
    /\ UNCHANGED <<server, in_flight, stage, peer_units, db_units, posted>>

\* The stream is dropped.
Refuse ==
    /\ stage # "refused"
    /\ \/ TooLong(rx)
       \/ HasFrame(rx) /\ ~Decodes(Body(rx))
       \/ stage = "new" /\ HasFrame(rx) /\ Decodes(Body(rx)) /\ ~verify(Body(rx)[1].of)
    /\ stage' = "refused"
    /\ UNCHANGED <<server, in_flight, rx, peer_units, db_units, posted, read>>

Next ==
    \/ \E m \in Posts : Publish(m)
    \/ \E n \in DOMAIN in_flight : Receive(n)
    \/ ReadHello \/ ReadRecord \/ Refuse

Spec == Init /\ [][Next]_wireVars

----------------------------------------------------------------------------
(* Correctness.                                                              *)

\* The types: what is buffered is bytes, and every record is of a definition.
TypeOK ==
    /\ server \in Servers /\ db_units \in Core!UnitSystems /\ stage \in {"new", "reading", "refused"}
    /\ peer_units \in Core!UnitSystems \union {None}
    /\ stage = "reading" <=> peer_units # None /\ stage # "refused"
    /\ \A buf \in {in_flight, rx} : \A i \in DOMAIN buf : "octet" \in DOMAIN buf[i] \/ buf[i].part \in 1..buf[i].of.size
    /\ Len(read) <= Len(posted)
    /\ \A i \in DOMAIN read : read[i].id \in DOMAIN Db

Trustworthy == server.kind # "stranger" /\ server.build = Ours /\ Hello(server).code \in {0, 1}

\* However the bytes are cut, a consumer gets every record of a peer that it
\* can read, and none of a peer whose handshake it must not accept
\* (try_read_frame, Hello::verify).
FramesWhole ==
    /\ stage = "refused" => ~Trustworthy
    /\ ~Trustworthy => read = <<>>
    /\ Trustworthy /\ in_flight = <<>> /\ ~HasFrame(rx) => Len(read) = Len(posted) /\ rx = <<>>

\* What is not resolved again: labels that take two fields, of a field that
\* another one names, a PGN's when it has variants, those in a NAME.
Unresolved(f, v) ==
    f.type \in {"INDIRECT_LOOKUP", "VARIABLE", "VALUE"} \/ "pgn" \in DOMAIN v \/ "of" \in DOMAIN v
\* The value of another field's kind stays in the producer's units.
Foreign(f, v) == f.type \in {"VARIABLE", "VALUE"} /\ "number" \in DOMAIN v /\ peer_units # db_units
SameField(f, r, d) ==
    /\ <<r.order, r.iter, r.set>> = <<d.order, d.iter, d.set>>
    /\ CASE "of" \in DOMAIN d.value -> r.value.name = d.value.name
         [] Foreign(f, d.value) -> TRUE
         [] Unresolved(f, d.value) /\ ~Foreign(f, d.value) -> Value(r.value) = Value(d.value)
         [] OTHER -> r.value = d.value
SameRecord(r, d) ==
    /\ r.id = d.id /\ r.entered = d.entered /\ Len(r.fields) = Len(d.fields)
    /\ \A i \in DOMAIN d.fields : SameField(Db[d.id].fields[d.fields[i].order], r.fields[i], d.fields[i])
ReadAsDecoded ==
    \A i \in DOMAIN read : SameRecord(read[i], Core!decode(db_units, posted[i].pgn, posted[i].data))

\* A record that comes over the wire says what the consumer's own decoder makes
\* of the message, label by label and in the consumer's units, of a producer
\* that declares its units (WirePgn::from, rehydrate).
RehydratedAsDecoded == units_from_code(Hello(server).code) = server.units => ReadAsDecoded

\* The same of every server: the units byte of the Hello is the "Unit system
\* the producer decoded values in" (Hello::units).
UnitsDeclared == server.kind = "server" => ReadAsDecoded
=============================================================================
