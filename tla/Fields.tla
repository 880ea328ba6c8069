------------------------------- MODULE Fields -------------------------------
(* Fields of a PGN and the bits of its payload (canboat-core): the schema in *)
(* its two unit systems (build.rs), the choice of the variant, the decoder   *)
(* (bits.rs, decode.rs) with its repeating sets and its fields whose type or *)
(* width another field gives, and the encoder (encode.rs).                   *)
(*                                                                           *)
(* A message is composed field by field in one unit system, packed, perhaps  *)
(* cut short on its way, and decoded in either unit system.  Group functions *)
(* and key/value lists, which the builder does not compose, come from others *)
(* on the bus, as whole payloads.                                            *)
(*                                                                           *)
(* A field is a record; None where the schema says nothing.  Numbers are in  *)
(* whole steps of a common scale, text is a sequence of bytes.               *)
EXTENDS Integers, Sequences, FiniteSets, FiniteSetsExt, SequencesExt

CONSTANTS None,
    Db,           \* the definitions, in the order of canboat.json
    Ratio, Zero,  \* the scale of the practical unit, and its freezing point
    IdPgn,        \* the PGN that is an ISO NAME (60928)
    NameBits,     \* the width of a NAME (64)
    Wide,         \* the width of MMSI and FLOAT (32)
    Values,       \* what is pushed: a set of EncodeValues for a field's type
    Foreign,      \* [pgn, data, pairs]: payloads of others, and what they mean
    MaxPushes

VARIABLES units, builder, staged, meant, frame, decoded, pushes
fieldVars == <<units, builder, staged, meant, frame, decoded, pushes>>

UnitSystems == {"Si", "Metric"}
Pow2(n) == 2 ^ n

----------------------------------------------------------------------------
(* The schema.                                                               *)

\* Mutant: the zero of every temperature is moved, its scale too.
PresentScaled(f, u) ==
    IF u = "Metric" /\ f.unit = "K" THEN [f EXCEPT !.unit = "C", !.unit_offset = -Zero, !.resolution = @ * Ratio]
    ELSE f

\* The practical units of a field: an angle (or a rate, a pressure, a charge)
\* has another scale, an unsigned temperature another zero.
Present(f, u) ==
    CASE u = "Metric" /\ f.unit = "rad" -> [f EXCEPT !.unit = "deg", !.resolution = @ * Ratio]
      [] u = "Metric" /\ f.unit = "K" /\ ~f.signed -> [f EXCEPT !.unit = "C", !.unit_offset = -Zero]
      [] OTHER -> f

Embedded(u) == [i \in DOMAIN Db |->
                  [Db[i] EXCEPT !.fields = [j \in DOMAIN @ |-> Present(@[j], u)]]]

convert_unit(v, from, to) ==
    CASE from = to -> v
      [] from = "rad" /\ to = "deg" -> v * Ratio
      [] from = "deg" /\ to = "rad" -> v \div Ratio
      [] from = "K" /\ to = "C" -> v - Zero
      [] from = "C" /\ to = "K" -> v + Zero
      [] OTHER -> None

pgn_variants(pgn) == {i \in DOMAIN Db : Db[i].pgn = pgn}
first_pgn(pgn) == IF pgn_variants(pgn) = {} THEN None ELSE Min(pgn_variants(pgn))

----------------------------------------------------------------------------
(* Bits: least significant first, byte by byte.                              *)

Bit(data, k) == (data[(k \div 8) + 1] \div Pow2(k % 8)) % 2
RawOf(data, at, n) == MapThenSumSet(LAMBDA k : Bit(data, at + k) * Pow2(k), 0..(n - 1))

Extracted(raw, n, signed, offset) ==
    [raw |-> raw,
     max |-> (IF signed THEN Pow2(n - 1) - 1 ELSE Pow2(n) - 1) + offset,
     value |-> IF signed /\ offset = 0 /\ raw >= Pow2(n - 1) THEN raw - Pow2(n) ELSE raw + offset]

\* A field that starts past the end is no field; one that runs past it is read
\* in the width that is there.
extract_bits(data, at, bits, signed, offset) ==
    IF bits = 0 \/ bits > 64 \/ at \div 8 >= Len(data) THEN None
    ELSE LET n == Min({bits, 8 * Len(data) - at})
         IN Extracted(RawOf(data, at, n), n, signed, offset)

is_unavailable(ex) ==
    \/ ex.max >= 7 /\ ex.value > ex.max - 2
    \/ ex.max \in 2..6 /\ ex.value > ex.max - 1

NotAvailable == [na |-> TRUE]
\* The sentinel of a field its bits hit, if any.
SentinelOf(f, ex) ==
    CASE f.unknown = ex.raw -> NotAvailable
      [] f.unknown # ex.raw /\ f.out = ex.raw -> [out_of_range |-> ex.raw]
      [] f.unknown # ex.raw /\ f.out # ex.raw /\ f.resv = ex.raw -> [reserved_value |-> ex.raw]
      [] OTHER -> None
Unless(sentinel, value) == IF sentinel = None THEN value ELSE sentinel

----------------------------------------------------------------------------
(* Which variant a payload is of (the dispatch that build.rs generates).     *)

Selectors(p) == {f \in Range(p.fields) : f.match # None}
Selects(p, data) ==
    /\ Selectors(p) # {}
    /\ \A f \in Selectors(p) :
        /\ f.at # None /\ f.bits # None
        /\ LET ex == extract_bits(data, f.at, f.bits, f.signed, f.offset)
           IN ex # None /\ ex.value = f.match

\* The first variant that its selectors select; then the first without any,
\* a catch-all last.
dispatch(pgn, data) ==
    LET hits == {i \in pgn_variants(pgn) : Selects(Db[i], data)}
        open == {i \in pgn_variants(pgn) : Selectors(Db[i]) = {}}
        specific == {i \in open : ~Db[i].fallback}
    IN CASE hits # {} -> Min(hits)
         [] hits = {} /\ specific # {} -> Min(specific)
         [] hits = {} /\ specific = {} /\ open # {} -> Min(open)
         [] OTHER -> None

\* The catch-all of the range the number is in.
find_catchall(pgn) ==
    LET below == {i \in DOMAIN Db : Db[i].fallback /\ Db[i].pgn <= pgn}
    IN IF below = {} THEN None ELSE Max(below)

pick_variant(pgn, data) ==
    LET own == dispatch(pgn, data) IN IF own = None THEN find_catchall(pgn) ELSE own

----------------------------------------------------------------------------
(* Text.  A byte above 127 stands for what is not UTF-8.                     *)

Padding == {0, 32, 64, 255}
Bad == 65533
Lossy(s) == [i \in DOMAIN s |-> IF s[i] < 128 THEN s[i] ELSE Bad]
Trim(s) == LET kept == {i \in DOMAIN s : s[i] \notin Padding}
           IN SubSeq(s, 1, IF kept = {} THEN 0 ELSE Max(kept))
Text(s) == IF s = <<>> THEN NotAvailable ELSE [text |-> s]
Unsupported == [unsupported |-> TRUE]
BitsAt(data, at, n) == [k \in 1..Min({n, 8 * Len(data) - at}) |-> Bit(data, at + k - 1)]
Bytes(data, from, to) == SubSeq(data, from + 1, Min({to, Len(data)}))

decode_string_fix(data, at, bits) ==
    LET raw == Bytes(data, at \div 8, (at + bits) \div 8)
        nul == {i \in DOMAIN raw : raw[i] = 0}
    IN CASE at % 8 # 0 \/ bits % 8 # 0 -> Unsupported
         [] at % 8 = 0 /\ bits % 8 = 0 /\ at + bits > 8 * Len(data) -> NotAvailable
         [] OTHER -> Text(Lossy(Trim(SubSeq(raw, 1, (IF nul = {} THEN Len(raw) ELSE Min(nul) - 1)))))

\* The first byte is the length with its header, the second the encoding.
\* The value, and the bits it takes of the payload, there or not.
decode_string_lau(data, at) ==
    LET start == at \div 8
        length == data[start + 1]
        body == Bytes(data, start + 2, start + length)
        wide == [i \in 1..(Len(body) \div 2) |-> body[2 * i - 1] + 256 * body[2 * i]]
    IN CASE at % 8 # 0 -> [value |-> Unsupported, used |-> 8]
         [] at % 8 = 0 /\ start + 2 > Len(data) -> [value |-> NotAvailable, used |-> 16]
         [] at % 8 = 0 /\ start + 2 <= Len(data) /\ length < 2 -> [value |-> NotAvailable, used |-> 16]
         [] OTHER -> [value |-> Text(Trim(IF data[start + 2] = 0 THEN wide ELSE Lossy(Trim(body)))),
                      used |-> 8 * length]

\* A length byte, then the text.
decode_string_lz(data, at, bits) ==
    LET start == at \div 8
        end == IF bits = 0 THEN Len(data) ELSE Min({start + bits \div 8, Len(data)})
        room == Max({0, end - (start + 1)})
    IN CASE at % 8 # 0 -> Unsupported
         [] at % 8 = 0 /\ start >= Len(data) -> NotAvailable
         [] OTHER -> Text(Trim(Lossy(Bytes(data, start + 1, start + 1 + Min({data[start + 1], room})))))

\* Whole bytes as they are, whatever is there of them; other bits in chunks.
decode_binary(data, at, bits) ==
    LET chunks == [i \in 1..((bits + 7) \div 8) |->
                     extract_bits(data, at + 8 * (i - 1), Min({8, bits - 8 * (i - 1)}), FALSE, 0)]
    IN CASE at % 8 = 0 /\ bits % 8 = 0 /\ at \div 8 >= Len(data) -> NotAvailable
         [] at % 8 = 0 /\ bits % 8 = 0 /\ at \div 8 < Len(data) ->
                [bytes |-> Bytes(data, at \div 8, (at + bits) \div 8)]
         [] OTHER -> IF None \in Range(chunks) THEN NotAvailable
                     ELSE [bytes |-> [i \in DOMAIN chunks |-> chunks[i].value]]

----------------------------------------------------------------------------
(* The fields whose value is a number.                                       *)

\* An offset makes a field unsigned, and is added to what is shown.
decode_number(f, data, at) ==
    LET ex == extract_bits(data, at, f.bits, f.signed /\ f.offset = 0, 0)
        plain == f.resolution = 1 /\ f.unit = None /\ f.unit_offset = 0 /\ f.offset = 0
    IN IF ex = None THEN NotAvailable
       ELSE Unless(SentinelOf(f, ex),
                   IF plain THEN [integer |-> ex.value]
                   ELSE [number |-> ex.value * f.resolution + f.offset + f.unit_offset])

\* A name that the table has wins over a sentinel.
Named(f, ex, named) ==
    IF named THEN [lookup |-> ex.raw, named |-> TRUE]
    ELSE Unless(SentinelOf(f, ex), [lookup |-> ex.raw, named |-> FALSE])
decode_lookup(f, data, at) ==
    LET ex == extract_bits(data, at, f.bits, FALSE, 0)
    IN IF ex = None THEN NotAvailable ELSE Named(f, ex, ex.raw \in DOMAIN f.table)

\* The table has pairs: the other value is read where the schema puts it.
decode_indirect_lookup(f, p, data, at) ==
    LET ex == extract_bits(data, at, f.bits, FALSE, 0)
        first == p.fields[f.via]
        other == IF first.at = None \/ first.bits = None THEN None
                 ELSE extract_bits(data, first.at, first.bits, FALSE, 0)
    IN IF ex = None THEN NotAvailable
       ELSE Named(f, ex, other # None /\ <<other.raw, ex.raw>> \in f.table)

\* The bits that are set and named.
decode_bitlookup(f, data, at) ==
    LET ex == extract_bits(data, at, f.bits, FALSE, 0)
    IN IF ex = None THEN NotAvailable
       ELSE [bitfield |-> ex.raw, set |-> {b \in f.table : (ex.raw \div Pow2(b)) % 2 = 1}]

\* Reserved bits that are all set are unused; others are kept as bytes.
decode_reserved(f, data, at, reserved) ==
    LET ex == extract_bits(data, at, f.bits, f.signed, f.offset)
        kept == [i \in 1..Max({1, (f.bits + 7) \div 8}) |-> (ex.value \div Pow2(8 * (i - 1))) % 256]
    IN IF ex = None THEN NotAvailable
       ELSE [reserved |-> reserved, value |-> ex.value,
             bytes |-> IF reserved /\ ex.value = ex.max THEN <<>> ELSE kept]

\* Identifiers have no sentinel: any bits are a value.
decode_wide(kind, f, data, at) ==
    CASE f.bits # Wide -> Unsupported
      [] f.bits = Wide /\ at \div 8 >= Len(data) -> NotAvailable
      [] OTHER -> IF kind = "FLOAT" THEN [float |-> BitsAt(data, at, f.bits)]
                  ELSE [mmsi |-> BitsAt(data, at, f.bits)]

\* The low byte of a PDU1 number is an address.
decode_pgn_field(f, data, at) ==
    LET ex == extract_bits(data, at, 24, FALSE, 0)
        pgn == IF (ex.value \div 256) % 256 < 240 THEN ex.value - (ex.value % 256) ELSE ex.value
        all == pgn_variants(pgn)
    IN CASE f.bits # 24 -> Unsupported
         [] f.bits = 24 /\ ex = None -> NotAvailable
         [] OTHER -> [pgn |-> pgn,
                      described |-> Cardinality(all) = 1 /\ \A i \in all : Selectors(Db[i]) = {}]

\* Days, and a time: signed and shifted as the schema says.
decode_scalar(f, data, at, signed, offset, kind) ==
    LET ex == extract_bits(data, at, f.bits, signed, offset)
    IN CASE kind = "DATE" /\ f.bits # 16 -> Unsupported
         [] (kind # "DATE" \/ f.bits = 16) /\ ex = None -> NotAvailable
         [] OTHER -> Unless(SentinelOf(f, ex),
                            IF kind = "DATE" THEN [date |-> ex.value]
                            ELSE [time |-> ex.value, seconds |-> ex.value * f.resolution])

----------------------------------------------------------------------------
(* The walk.  "ctx" is what one field says of a later one: the PGN and the   *)
(* parameter a VARIABLE is of, the key and the length of a key's value.      *)

NoContext == [pgn |-> None, param |-> None, key |-> None, length |-> None]
Got(value, used, ctx) == [value |-> value, used |-> used, ctx |-> ctx]

\* Mutant: a parameter is kept for the next pair only if none is known yet.
NotedOnce(f, value, ctx) ==
    CASE "pgn" \in DOMAIN value -> [ctx EXCEPT !.pgn = value.pgn]
      [] f.type = "FIELD_INDEX" /\ "integer" \in DOMAIN value /\ ctx.param = None -> [ctx EXCEPT !.param = value.integer]
      [] OTHER -> ctx

\* What a field leaves for the next ones.
Noted(f, value, ctx) ==
    LET known == DOMAIN value \cap {"integer", "number"}
        n == IF known = {} THEN None ELSE value[CHOOSE k \in known : TRUE]
    IN CASE "pgn" \in DOMAIN value -> [ctx EXCEPT !.pgn = value.pgn]
         [] f.type = "FIELD_INDEX" /\ "integer" \in DOMAIN value -> [ctx EXCEPT !.param = value.integer]
         [] f.marker /\ n # None /\ n >= 0 -> [ctx EXCEPT !.length = n]
         [] OTHER -> ctx

RECURSIVE decode_one_field_at(_, _, _, _, _, _), Walk(_, _, _), WalkFrom(_, _, _, _, _),
          Iterate(_, _, _, _, _, _, _), Again(_, _, _, _, _, _, _, _)

InBytes(sub, ctx) == IF sub = None THEN None ELSE Got(sub.value, ((sub.used + 7) \div 8) * 8, ctx)

\* A group function's value: the parameter of the PGN it is about, decoded by
\* that field's own definition; it takes whole bytes.
decode_variable(data, db, at, ctx) ==
    LET i == IF ctx.pgn = None THEN None ELSE first_pgn(ctx.pgn)
        known == i # None /\ ctx.param # None /\ ctx.param \in DOMAIN db[i].fields
    IN IF ~known THEN None
       ELSE InBytes(decode_one_field_at(db[i].fields[ctx.param], db[i], data, db, at, NoContext), ctx)

\* An ISO NAME is the payload of an address claim.
decode_iso_name(data, db, at, bits) ==
    LET name == Bytes(data, at \div 8, (at + bits) \div 8)
    IN CASE bits # NameBits \/ at % 8 # 0 -> Unsupported
         [] bits = NameBits /\ at % 8 = 0 /\ at + bits > 8 * Len(data) -> NotAvailable
         [] OTHER -> [name |-> name, of |-> Walk(db[first_pgn(IdPgn)], name, db).out]

\* The value of a key, in the width its length field or its entry gives; an
\* unknown key's is bytes.  The context is spent.
decode_dynamic_field_value(data, db, at, ctx) ==
    LET e == ctx.key
        bits == CASE ctx.length # None -> 8 * ctx.length
                  [] ctx.length = None /\ e # None /\ e.bits # None -> e.bits
                  [] OTHER -> 0
        signed == e.signed \/ e.type = "FIX"
        raw == extract_bits(data, at, bits, FALSE, 0)
        ex == extract_bits(data, at, bits, signed, 0)
        value ==
            CASE e = None \/ e.type \notin {"NUMBER", "FIX", "LOOKUP", "TIME", "DATE", "ISO_NAME"} -> decode_binary(data, at, bits)
              [] e # None /\ e.type = "ISO_NAME" -> decode_iso_name(data, db, at, bits)
              [] e # None /\ e.type \in {"NUMBER", "FIX", "LOOKUP", "TIME", "DATE"} /\ raw = None -> NotAvailable
              [] e # None /\ e.type \in {"NUMBER", "FIX"} /\ raw # None ->
                    IF is_unavailable(ex) THEN NotAvailable
                    ELSE IF e.resolution = 1 /\ e.unit = None THEN [integer |-> ex.value] ELSE [number |-> ex.value * e.resolution]
              [] e # None /\ e.type = "LOOKUP" /\ raw # None -> [lookup |-> raw.raw, named |-> raw.raw \in e.table]
              [] e # None /\ e.type \in {"TIME", "DATE"} /\ raw # None ->
                    IF is_unavailable(raw) THEN NotAvailable
                    ELSE IF e.type = "DATE" THEN [date |-> raw.value]
                    ELSE [time |-> ex.value, seconds |-> ex.value * e.resolution]
    IN Got(value, bits, [ctx EXCEPT !.key = None, !.length = None])

\* The value of a field whose width is known.
Reading(f, p, data, db, at, key) ==
    CASE f.type \in {"NUMBER", "FIELD_INDEX"} -> decode_number(f, data, at)
      [] f.type \in {"FLOAT", "MMSI"} -> decode_wide(f.type, f, data, at)
      [] f.type = "LOOKUP" -> decode_lookup(f, data, at)
      [] f.type = "INDIRECT_LOOKUP" -> decode_indirect_lookup(f, p, data, at)
      [] f.type = "BITLOOKUP" -> decode_bitlookup(f, data, at)
      [] f.type \in {"RESERVED", "SPARE"} -> decode_reserved(f, data, at, f.type = "RESERVED")
      [] f.type = "BINARY" -> decode_binary(data, at, f.bits)
      [] f.type = "PGN" -> decode_pgn_field(f, data, at)
      [] f.type = "DATE" -> decode_scalar(f, data, at, FALSE, 0, "DATE")
      [] f.type = "TIME" -> decode_scalar(f, data, at, f.signed, f.offset, "TIME")
      [] f.type = "STRING_FIX" -> decode_string_fix(data, at, f.bits)
      [] f.type = "STRING_LZ" -> decode_string_lz(data, at, f.bits)
      [] f.type = "ISO_NAME" -> decode_iso_name(data, db, at, f.bits)
      [] f.type = "KEY" -> IF key = None THEN NotAvailable ELSE Named(f, key, key.raw \in DOMAIN f.table)
      [] f.type = "LENGTH" ->
            IF key = None THEN NotAvailable ELSE Unless(SentinelOf(f, key), [integer |-> key.value])

Keyed(f, value, key, ctx) ==
    CASE f.type = "KEY" /\ key # None ->
            [ctx EXCEPT !.key = IF key.raw \in DOMAIN f.table THEN f.table[key.raw] ELSE None]
      [] f.type = "LENGTH" /\ "integer" \in DOMAIN value -> [ctx EXCEPT !.length = key.raw]
      [] OTHER -> ctx
Settled(f, value, key, ctx) == Got(value, f.bits, Noted(f, value, Keyed(f, value, key, ctx)))
Texted(lau, ctx) == Got(lau.value, lau.used, ctx)

decode_one_field_at(f, p, data, db, at, ctx) ==
    LET left == Max({0, 8 * ((8 * Len(data) - at) \div 8)})     \* whole bytes left
        key == extract_bits(data, at, f.bits, FALSE, 0)
    IN CASE f.type = "STRING_LAU" -> Texted(decode_string_lau(data, at), ctx)
         [] f.type = "VARIABLE" -> decode_variable(data, db, at, ctx)
         [] f.type = "VALUE" -> decode_dynamic_field_value(data, db, at, ctx)
         [] f.type \in {"STRING_LZ", "BINARY"} /\ f.bits = None ->
                Got(IF f.type = "BINARY" THEN decode_binary(data, at, left)
                    ELSE decode_string_lz(data, at, left), left, ctx)
         [] OTHER -> IF f.bits = None THEN None ELSE Settled(f, Reading(f, p, data, db, at, key), key, ctx)

\* What is decoded of a payload: the fields, each with where it starts, its set
\* and its iteration, and the sets that were reached.
Field(i, r, at, set, iter) == [order |-> i, value |-> r.value, at |-> at, set |-> set, iter |-> iter]
Where(f, cursor) == IF f.at # None THEN f.at ELSE cursor

\* How often a set repeats: as its count field says, once at the least; without
\* one, until the payload runs out.
Times(p, k, out) ==
    LET counts == {d \in Range(out) : d.order = p.sets[k].count}
        first == CHOOSE d \in counts : \A e \in counts : d.at <= e.at
        known == DOMAIN first.value \cap {"integer", "number"}
        n == first.value[CHOOSE x \in known : TRUE]
    IN IF counts = {} THEN None ELSE IF known = {} THEN None ELSE IF n < 0 THEN None ELSE n

\* A reading is kept, and the next field begins where it ends.
Kept(st, i, r, at, set, iter) ==
    [st EXCEPT !.out = Append(@, Field(i, r, at, set, iter)), !.ctx = r.ctx, !.cursor = at + r.used]
KeptOrPassed(st, i, f, r, at, set, iter) ==
    IF r # None THEN Kept(st, i, r, at, set, iter)
    ELSE IF f.bits # None THEN [st EXCEPT !.cursor = at + f.bits] ELSE st
KeptOrLeft(st, i, r, at) == IF r # None THEN Kept(st, i, r, at, 0, None) ELSE st

\* The fields of one iteration: the first one starts where the schema says.
RECURSIVE SetFrom(_, _, _, _, _, _, _, _)
SetFrom(p, data, db, j, k, iter, none, st) ==
    LET s == p.sets[k]
        f == p.fields[j]
        at == IF iter = 0 THEN Where(f, st.cursor) ELSE st.cursor
        label == IF none /\ Len(st.out) > st.before THEN None ELSE iter
    IN CASE j = s.start + s.size -> st
         [] j < s.start + s.size /\ f.gated -> SetFrom(p, data, db, j + 1, k, iter, none, st)
         [] j < s.start + s.size /\ ~f.gated ->
              SetFrom(p, data, db, j + 1, k, iter, none,
                KeptOrPassed(st, j, f, decode_one_field_at(f, p, data, db, at, st.ctx), at, k, label))

Iterate(p, data, db, k, iter, times, st) ==
    IF (times # None /\ iter >= Max({times, 1})) \/ st.cursor >= 8 * Len(data) THEN st
    ELSE Again(p, data, db, k, iter, times, st,
               SetFrom(p, data, db, p.sets[k].start, k, iter, times = 0,
                       [out |-> st.out, ctx |-> st.ctx, cursor |-> st.cursor, before |-> Len(st.out)]))

\* Nothing more is decodable once an iteration added nothing.
Again(p, data, db, k, iter, times, st, done) ==
    IF Len(done.out) = Len(st.out) THEN st
    ELSE Iterate(p, data, db, k, iter + 1, times,
                 [st EXCEPT !.out = done.out, !.ctx = done.ctx, !.cursor = done.cursor])

WalkStep(p, data, db, i, st) ==
    LET f == p.fields[i]
        at == Where(f, st.cursor)
        sets == {k \in DOMAIN p.sets : p.sets[k].start = i}
    IN CASE sets # {} ->
              Iterate(p, data, db, Min(sets), 0, Times(p, Min(sets), st.out),
                  [st EXCEPT !.cursor = at,
                             !.entered = IF at < 8 * Len(data) THEN @ \union {Min(sets)} ELSE @])
         [] sets = {} /\ ~f.gated -> KeptOrLeft(st, i, decode_one_field_at(f, p, data, db, at, st.ctx), at)
         [] OTHER -> st

WalkFrom(p, data, db, j, st) ==
    LET inside == \E k \in DOMAIN p.sets : j > p.sets[k].start /\ j < p.sets[k].start + p.sets[k].size
    IN IF j > Len(p.fields) THEN st
       ELSE WalkFrom(p, data, db, j + 1, IF inside THEN st ELSE WalkStep(p, data, db, j, st))
Walk(p, data, db) ==
    WalkFrom(p, data, db, 1, [out |-> <<>>, ctx |-> NoContext, cursor |-> 0, entered |-> {}])

Decoded(i, u, st) == [id |-> i, units |-> u, fields |-> st.out, entered |-> st.entered]
decode(u, pgn, data) ==
    LET i == pick_variant(pgn, data)
        db == Embedded(u)
    IN IF i = None THEN [unknown |-> pgn] ELSE Decoded(i, u, Walk(db[i], data, db))

----------------------------------------------------------------------------
(* The encoder.                                                              *)

Refuse == [refused |-> TRUE]
all_ones(n) == Pow2(n) - 1
mask_to_width(n, bits) == n % Pow2(bits)
Kind(v) == CHOOSE k \in DOMAIN v : TRUE

\* Mutants: what nobody set is zero, and a step is never rounded up.
default_rawZero(f) == IF f.match # None THEN mask_to_width(f.match, f.bits) ELSE 0
RoundDivDown(a, b) == a \div b

\* What a field is that nobody set: its selector, zero when it is spare, and
\* the bits that mean "not available".
default_raw(f) ==
    CASE f.match # None -> mask_to_width(f.match, f.bits)
      [] f.match = None /\ f.type = "SPARE" -> 0
      [] OTHER -> IF f.unknown # None THEN f.unknown ELSE all_ones(f.bits)

\* The nearest step; a half goes away from zero.
RoundDiv(a, b) == IF a >= 0 THEN (2 * a + b) \div (2 * b) ELSE -((b - 2 * a) \div (2 * b))
scaled_to_raw(f, x) == RoundDiv(x - f.unit_offset - f.offset, f.resolution)

\* A number's bits: what does not fit the width is cut off, not refused.  (The
\* bits of a FLOAT are IEEE's; none is composed here.)
value_to_raw(f, v) ==
    LET named == {n \in DOMAIN f.table : f.table[n] = v.label}
        n == CASE Kind(v) = "int" -> v.int
               [] Kind(v) = "pgn" -> v.pgn
               [] Kind(v) = "number" -> scaled_to_raw(f, v.number)
               [] Kind(v) = "label" -> Min(named)
    IN CASE f.bits = None -> Refuse
         [] f.bits # None /\ Kind(v) = "na" -> [scalar |-> default_raw(f)]
         [] f.bits # None /\ Kind(v) \in {"text", "bytes"} -> Refuse
         [] f.bits # None /\ Kind(v) = "label" ->
                IF f.type # "LOOKUP" THEN Refuse
                ELSE IF named = {} THEN Refuse ELSE [scalar |-> mask_to_width(n, f.bits)]
         [] OTHER -> [scalar |-> mask_to_width(n, f.bits)]

\* Text and bytes: padded to the field's width, refused when they are longer.
Fit(f, s) == CASE f.bits = None -> [bytes |-> s]
               [] f.bits # None /\ Len(s) > f.bits \div 8 -> Refuse
               [] OTHER -> [bytes |-> s \o [i \in 1..(f.bits \div 8 - Len(s)) |-> 0]]
stage_value(f, v) ==
    LET s == IF Kind(v) = "na" THEN <<>> ELSE v[Kind(v)]
        want == CASE f.type \in {"STRING_FIX", "STRING_LZ", "STRING_LAU"} -> "text"
                  [] f.type \in {"BINARY", "VALUE"} -> "bytes"
                  [] OTHER -> "number"
    IN CASE want = "number" -> value_to_raw(f, v)
         [] want # "number" /\ Kind(v) \notin {want, "na"} -> Refuse
         [] want # "number" /\ Kind(v) \in {want, "na"} ->
              CASE f.type = "STRING_FIX" -> IF f.bits = None THEN Refuse ELSE Fit(f, s)
                [] f.type = "STRING_LZ" -> IF Len(s) > 255 THEN Refuse ELSE Fit(f, <<Len(s)>> \o s)
                [] f.type = "STRING_LAU" -> IF Len(s) + 2 > 255 THEN Refuse ELSE [bytes |-> <<Len(s) + 2, 1>> \o s]
                [] f.type = "BINARY" -> Fit(f, s)
                [] f.type = "VALUE" -> [bytes |-> s]

\* Bits of a number, and of bytes, as they are written.
Written(n, w) == [k \in 1..w |-> (n \div Pow2(k - 1)) % 2]
WrittenBytes(s) == FlattenSeq([i \in DOMAIN s |-> Written(s[i], 8)])
write_unset(f) ==
    CASE f.type \in {"STRING_FIX", "BINARY"} /\ f.bits # None -> [k \in 1..(8 * (f.bits \div 8)) |-> 1]
      [] f.type = "BINARY" /\ f.bits = None -> <<>>
      [] f.type = "STRING_LZ" -> Written(0, 8)
      [] f.type = "STRING_LAU" -> WrittenBytes(<<2, 1>>)
      [] f.type \in {"VARIABLE", "KEY", "LENGTH", "VALUE"} -> None
      [] OTHER -> IF f.bits = None THEN None ELSE Written(default_raw(f), f.bits)

\* Field after field, each once; the last byte is filled with ones.
build(p, values) ==
    LET part == [i \in DOMAIN p.fields |->
                   CASE values[i] = None -> write_unset(p.fields[i])
                     [] values[i] # None /\ "bytes" \in DOMAIN values[i] -> WrittenBytes(values[i].bytes)
                     [] OTHER -> Written(values[i].scalar, p.fields[i].bits)]
        bits == FlattenSeq(part)
        full == bits \o [k \in 1..((8 - (Len(bits) % 8)) % 8) |-> 1]
        data == [b \in 1..(Len(full) \div 8) |-> MapThenSumSet(LAMBDA k : full[8 * (b - 1) + k + 1] * Pow2(k), 0..7)]
    IN IF None \in Range(part) THEN Refuse
       ELSE IF p.length # None /\ p.length # Len(data) THEN Refuse ELSE [data |-> data]

\* An argument of the command line: a whole number is raw, a decimal is in the
\* field's unit, a word is a label or a text.
coerce_arg(f, a) ==
    LET text == f.type \in {"STRING_FIX", "STRING_LZ", "STRING_LAU", "VARIABLE"}
    IN CASE Kind(a) = "empty" -> [na |-> TRUE]
         [] Kind(a) = "hex" -> [int |-> a.hex]
         [] Kind(a) \notin {"empty", "hex"} /\ text -> [text |-> <<>>]
         [] Kind(a) = "word" /\ ~text -> IF f.type = "LOOKUP" THEN [label |-> a.word] ELSE Refuse
         [] Kind(a) = "whole" /\ ~text -> IF f.type = "PGN" THEN [pgn |-> a.whole] ELSE [int |-> a.whole]
         [] Kind(a) = "decimal" /\ ~text ->
                IF f.type \in {"LOOKUP", "INDIRECT_LOOKUP", "PGN"} THEN Refuse ELSE [number |-> a.decimal]

----------------------------------------------------------------------------
(* Composing, sending and reading a message.                                 *)

Nothing == [pgn |-> 0, data |-> <<>>, full |-> <<>>, pairs |-> None]
Init == /\ units = "Si" /\ builder = None /\ staged = <<>> /\ meant = <<>>
        /\ frame = Nothing /\ decoded = None /\ pushes = 0

\* By id, or by a number that has one variant only.
Compose(u, i, by_id) ==
    /\ builder = None /\ frame = Nothing
    /\ by_id \/ pgn_variants(Db[i].pgn) = {i}
    /\ builder' = i /\ units' = u
    /\ staged' = [j \in DOMAIN Db[i].fields |-> None]
    /\ meant' = [j \in DOMAIN Db[i].fields |-> None]
    /\ UNCHANGED <<frame, decoded, pushes>>

Stage(j, v) ==
    LET s == stage_value(Embedded(units)[builder].fields[j], v)
    IN /\ builder # None /\ frame = Nothing /\ pushes < MaxPushes
       /\ pushes' = pushes + 1
       /\ staged' = IF s = Refuse THEN staged ELSE [staged EXCEPT ![j] = s]
       /\ meant' = IF s = Refuse THEN meant ELSE [meant EXCEPT ![j] = v]
       /\ UNCHANGED <<units, builder, frame, decoded>>

Push(j) == \E v \in Values : Stage(j, v)
Arguments == {[empty |-> TRUE], [hex |-> 5], [whole |-> 6], [decimal |-> 6], [word |-> "on"]}
PushArg(j) == \E a \in Arguments : LET v == coerce_arg(Db[builder].fields[j], a) IN v # Refuse /\ Stage(j, v)

Build == LET b == build(Embedded(units)[builder], staged)
         IN /\ builder # None /\ frame = Nothing /\ b # Refuse
            /\ frame' = [pgn |-> Db[builder].pgn, data |-> b.data, full |-> b.data, pairs |-> None]
            /\ UNCHANGED <<units, builder, staged, meant, decoded, pushes>>

Hear == /\ builder = None /\ frame = Nothing
        /\ \E m \in Foreign : frame' = [pgn |-> m.pgn, data |-> m.data, full |-> m.data, pairs |-> m.pairs]
        /\ UNCHANGED <<units, builder, staged, meant, decoded, pushes>>

\* The tail of a payload gets lost.
Cut == /\ frame.data # <<>> /\ decoded = None
       /\ frame' = [frame EXCEPT !.data = Front(@)]
       /\ UNCHANGED <<units, builder, staged, meant, decoded, pushes>>

Decode(u) == /\ frame # Nothing /\ decoded = None
             /\ decoded' = decode(u, frame.pgn, frame.data)
             /\ UNCHANGED <<units, builder, staged, meant, frame, pushes>>

Next ==
    \/ \E u \in UnitSystems, i \in DOMAIN Db, by_id \in BOOLEAN : Compose(u, i, by_id)
    \/ builder # None /\ \E j \in DOMAIN staged : Push(j) \/ PushArg(j)
    \/ Build \/ Hear \/ Cut
    \/ \E u \in UnitSystems : Decode(u)

----------------------------------------------------------------------------
(* What holds.                                                               *)

Read == decoded # None /\ "id" \in DOMAIN decoded
Whole == frame.data = frame.full

\* Type invariant (EncodeBuilder and DecodedMessage: staged values and decoded
\* fields belong to their definition's fields, a payload is bytes).
TypeOK ==
    /\ units \in UnitSystems /\ pushes \in 0..MaxPushes
    /\ builder # None => builder \in DOMAIN Db /\ DOMAIN staged = DOMAIN Db[builder].fields
    /\ frame.data \in Seq(0..255) /\ IsPrefix(frame.data, frame.full)
    /\ Read => /\ decoded.id \in DOMAIN Db
               /\ \A d \in Range(decoded.fields) : d.order \in DOMAIN Db[decoded.id].fields

\* Does a decoded value say what was meant?
Fits(f, n) == IF f.signed /\ f.offset = 0 THEN n >= -Pow2(f.bits - 1) /\ n < Pow2(f.bits - 1)
              ELSE n >= 0 /\ n < Pow2(f.bits)
Sentinel(f, n) == mask_to_width(n, f.bits) \in {f.unknown, f.out, f.resv}
Shown(f, n) == n * f.resolution + f.offset + f.unit_offset
Says(f, v, got) ==
    LET x == IF Kind(v) = "number" THEN v.number ELSE Shown(f, v.int)
        n == IF Kind(v) = "number" THEN scaled_to_raw(f, x) ELSE v.int
    IN CASE Kind(v) = "na" -> f.unknown # None => "lookup" \in DOMAIN got \/ got = NotAvailable
         [] f.type = "NUMBER" /\ Kind(v) \in {"number", "int"} ->
                Fits(f, n) /\ ~Sentinel(f, n) =>
                    LET y == got[Kind(got)]
                    IN Kind(got) \in {"number", "integer"} /\ 2 * (y - x) \in -f.resolution..f.resolution
         [] f.type = "LOOKUP" /\ Kind(v) = "int" ->
                Fits(f, n) /\ ~Sentinel(f, n) => Kind(got) # "na" /\ got.lookup = n
         [] Kind(v) = "label" -> "lookup" \in DOMAIN got /\ f.table[got.lookup] = v.label
         [] Kind(v) = "text" -> got = Text(Trim(v.text))
         [] Kind(v) = "bytes" /\ f.type = "BINARY" -> "bytes" \in DOMAIN got => IsPrefix(v.bytes, got.bytes)
         [] Kind(v) = "pgn" -> "pgn" \in DOMAIN got => got.pgn = v.pgn
         [] OTHER -> TRUE

\* A message that arrives whole is read as it was composed: the same variant,
\* each field as it was set, to half a step of its resolution, and the others
\* not available.  (A value that its field's width does not hold is another
\* one, see value_to_raw.)
ComesBack ==
    Read /\ Whole /\ builder # None /\ decoded.units = units =>
        LET fs == Embedded(units)[builder].fields
            same == \A j \in DOMAIN staged : fs[j].match # None => staged[j] = None
        IN same =>
            /\ decoded.id = builder
            /\ \A d \in Range(decoded.fields) :
                  IF meant[d.order] # None /\ d.iter \in {None, 0} THEN Says(fs[d.order], meant[d.order], d.value)
                  ELSE meant[d.order] = None /\ fs[d.order].match = None /\ fs[d.order].unknown # None =>
                         "lookup" \in DOMAIN d.value \/ d.value = NotAvailable

\* Both unit systems read the same: each number converts into the other's.
Other(u) == CHOOSE o \in UnitSystems : o # u
Alike(u, mine, theirs) ==
    LET my_fields == Embedded(u)[mine.id].fields
        their_fields == Embedded(Other(u))[mine.id].fields
    IN /\ Len(theirs.fields) = Len(mine.fields)
       /\ \A k \in DOMAIN mine.fields :
            LET x == mine.fields[k]  y == theirs.fields[k]
            IN IF "number" \in DOMAIN x.value /\ u = "Si" /\ my_fields[x.order].type = "NUMBER"
               THEN convert_unit(x.value.number, my_fields[x.order].unit, their_fields[y.order].unit) = y.value.number
               ELSE "number" \in DOMAIN x.value \/ x = y
UnitsAgree == Read => Alike(decoded.units, decoded, decode(Other(decoded.units), frame.pgn, frame.data))

\* What was cut off is not made up: a field that begins past the end has no
\* reading, and one that lies before it is read as in the whole payload.
Apart(f) == f.type = "INDIRECT_LOOKUP" \/ f.bits = None
PartOf(cut, whole, end) ==
    /\ \A d \in Range(cut.fields) : d.at >= end => d.value \in {NotAvailable, Unsupported}
    /\ whole.id = cut.id =>
         \A d \in Range(whole.fields) :
            LET f == Db[cut.id].fields[d.order]
            IN ~Apart(f) /\ d.at + f.bits <= end => d \in Range(cut.fields)
CutIsHarmless == Read => PartOf(decoded, decode(decoded.units, frame.pgn, frame.full), 8 * Len(frame.data))

\* A list of pairs is read pair by pair: each value as the field, or the key,
\* that goes before it says.
PairsComeBack ==
    Read /\ Whole /\ frame.pairs # None /\ decoded.units = "Si" =>
        LET values == SelectSeq(decoded.fields, LAMBDA d : d.set # 0 /\ Db[decoded.id].fields[d.order].type \in {"VARIABLE", "VALUE"})
        IN [k \in DOMAIN values |-> values[k].value] = frame.pairs

FieldsComeBack == ComesBack /\ UnitsAgree /\ CutIsHarmless /\ PairsComeBack
=============================================================================
