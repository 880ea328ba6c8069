---------------------------- MODULE AnalyzerJson ----------------------------
(* Decoded PGNs as lines and back (canboat-core): the JSON writer with its   *)
(* options (output/json.rs), the text writer (output/text.rs), the reader by *)
(* substring scan (analyzer_json.rs) and the rebuilt DecodedPgn (from_json). *)
(*                                                                           *)
(* A line is a sequence of tokens, a quoted key with its colon one of them.  *)
(* A record is what the decoder made of a payload (module Fields); the       *)
(* writer walks it field by field.  Numbers are hundredths, coordinates      *)
(* half milliseconds of arc.                                                 *)
EXTENDS Integers, Sequences, FiniteSets, FiniteSetsExt, SequencesExt, Functions

CONSTANTS None,
    Records   \* what is decoded, with its schema and the options it is written under

VARIABLES record, opts, mode, left, fields_buf, top_sep, current_set, current_iter, line
jsonVars == <<record, opts, mode, left, fields_buf, top_sep, current_set, current_iter, line>>

----------------------------------------------------------------------------
(* Tokens.                                                                   *)
P(c) == [punct |-> c]
Key(k) == [key |-> k, upper |-> FALSE]
Str(s) == [str |-> s]
Digits(n) == [digits |-> n]              \* a quoted string of digits
Word(w) == [word |-> w]                  \* null, true
Opening == {P("{"), P("[")}

\* Mutant: the fraction is not padded with zeros.
FixedBare(v, precision) ==
    LET size == IF v < 0 THEN -v ELSE v
        unit == 10 ^ (2 - precision)
        rounded == (2 * size + unit) \div (2 * unit)
        f == rounded % 10 ^ precision
    IN [neg |-> v < 0 /\ (precision > 0 \/ rounded # 0), whole |-> rounded \div 10 ^ precision,
        frac |-> IF precision = 2 /\ f >= 10 THEN <<f \div 10, f % 10>> ELSE IF precision = 0 THEN <<>> ELSE <<f % 10>>]

\* A number with a fixed count of decimals, half away from zero; the sign of
\* what rounds to zero stays when there are decimals.
write_fixed_float(v, precision) ==
    LET size == IF v < 0 THEN -v ELSE v
        unit == 10 ^ (2 - precision)
        rounded == (2 * size + unit) \div (2 * unit)
    IN [neg |-> v < 0 /\ (precision > 0 \/ rounded # 0), whole |-> rounded \div 10 ^ precision,
        frac |-> [i \in 1..precision |-> (rounded \div 10 ^ (precision - i)) % 10]]
Num(n) == write_fixed_float(100 * n, 0)

precision_for(resolution) == IF resolution >= 100 THEN 0 ELSE Min({p \in 1..2 : resolution * 10 ^ p >= 100})
effective_precision(f) == IF f.precision > 0 THEN f.precision ELSE precision_for(f.resolution)

----------------------------------------------------------------------------
(* The value of a field.                                                     *)

field_display_name(f, o) ==
    CASE o.camel = "off"   -> Key(f.name)
      [] o.camel = "lower" -> Key(f.id)
      [] o.camel = "upper" -> [key |-> f.id, upper |-> TRUE]

Joined(parts) == FlattenSeq([i \in DOMAIN parts |-> IF i = 1 THEN parts[i] ELSE <<P(",")>> \o parts[i]])
Braced(ts) == <<P("{")>> \o ts \o <<P("}")>>
Pair(v, name) == <<Key("value"), v, P(","), Key("name"), name>>
IsKey(f, o) == o.nv /\ f.primary
KeyMark(f, o) == IF IsKey(f, o) THEN <<P(","), Key("key"), Word("true")>> ELSE <<>>

\* The bare form of a value, the same under every option.
Scalar(f) ==
    LET v == f.value IN
    CASE v.kind = "number" -> write_fixed_float(v.n, effective_precision(f))
      [] v.kind \in {"integer", "pgn", "iso"} -> Num(v.n)
      [] v.kind = "lookup" -> IF v.s = None THEN Num(v.n) ELSE Str(v.s)
      [] v.kind = "mmsi" -> Digits(v.n)
      [] v.kind = "na" -> Word("null")
      [] OTHER -> Str(v.s)     \* string, date, time, binary, reserved, spare, sentinel

Bits(f, o) ==
    IF f.value.bits = <<>> THEN <<Word("null")>>
    ELSE <<P("[")>> \o Joined([i \in DOMAIN f.value.bits |->
              IF o.nv THEN Braced(Pair(Num(i), Str(f.value.bits[i]))) ELSE <<Str(f.value.bits[i])>>])
         \o <<P("]")>>

\* A time of whole seconds is given in seconds, a finer one as it was sent.
TimeValue(f) == IF f.resolution >= 100 THEN (f.value.n * f.resolution) \div 100 ELSE f.value.n

\* Under -debug the bytes (and, of an odd width, the bits) that a field had.
write_debug_suffix(f, payload_bits) ==
    IF f.at = None \/ f.width = 0 THEN <<>>
    ELSE LET whole_bytes == f.at % 8 = 0 /\ f.width % 8 = 0
         IN IF f.at >= payload_bits \/ (~whole_bytes /\ f.width > 64) THEN <<>>
            ELSE <<P(","), Key("bytes"), Str("hex")>>
                 \o (IF f.width % 8 # 0 THEN <<P(","), Key("bits"), Str("01")>> ELSE <<>>)

\* What is between the braces under -debug, before the bytes.
DebugBody(f, o) ==
    LET v == f.value IN
    CASE v.kind = "lookup" /\ o.nv -> Pair(Num(v.n), IF v.s = None THEN Word("null") ELSE Str(v.s))
      [] v.kind = "pgn" /\ o.nv -> Pair(Num(v.n), IF v.s = None THEN Word("null") ELSE Str(v.s))
      [] v.kind = "date" /\ o.nv -> Pair(Num(v.n), Str(v.s))
      [] v.kind = "time" /\ o.nv -> Pair(Num(TimeValue(f)), Str(v.s))
      [] v.kind = "bits" -> <<Key("value")>> \o Bits(f, o)
      [] v.kind = "spare" -> <<Key("value"), Word("null")>>
      [] OTHER -> <<Key("value"), Scalar(f)>>

PlainValue(f, o) ==
    LET v == f.value IN
    CASE v.kind = "bits" -> Bits(f, o)
      [] v.kind = "lookup" /\ o.nv ->
           Braced((CASE v.s # None -> Pair(Num(v.n), Str(v.s))
                     [] v.s = None /\ o.include_empty -> Pair(Num(v.n), Word("null"))
                     [] OTHER -> <<Key("value"), Num(v.n)>>) \o KeyMark(f, o))
      [] v.kind = "pgn" /\ o.nv ->
           Braced(IF v.s = None THEN <<Key("value"), Num(v.n)>> ELSE Pair(Num(v.n), Str(v.s)))
      [] v.kind = "date" /\ o.nv -> Braced(Pair(Num(v.n), Str(v.s)))
      [] v.kind = "time" /\ o.nv -> Braced(Pair(Num(TimeValue(f)), Str(v.s)))
      [] v.kind \in {"integer", "mmsi"} /\ IsKey(f, o) -> Braced(<<Key("value"), Scalar(f)>> \o KeyMark(f, o))
      [] OTHER -> <<Scalar(f)>>

write_field_value_debug(f, o, payload_bits) ==
    Braced(DebugBody(f, o) \o write_debug_suffix(f, payload_bits) \o KeyMark(f, o))
WriteSimple(f, o, payload_bits) ==
    IF o.debug THEN write_field_value_debug(f, o, payload_bits) ELSE PlainValue(f, o)

\* The NAME of an address claim holds the fields of one; its own payload is
\* what their places count in.
Subfields(f, o) ==
    SelectSeq(f.value.subs, LAMBDA s : ~(s.value.kind = "na" /\ ~o.include_empty) /\ s.value.kind # "spare")
IsoNamed(f, o) ==
    Pair(Num(f.value.n), P("{"))
    \o Joined([i \in DOMAIN Subfields(f, o) |->
                 <<field_display_name(Subfields(f, o)[i], o)>> \o WriteSimple(Subfields(f, o)[i], o, 64)])
    \o <<P("}")>>

write_field_value(f, o, payload_bits) ==
    IF f.value.kind = "iso" /\ o.nv
    THEN Braced(IsoNamed(f, o) \o (IF o.debug THEN write_debug_suffix(f, payload_bits) \o KeyMark(f, o) ELSE <<>>))
    ELSE WriteSimple(f, o, payload_bits)

Member(f) == <<field_display_name(f, opts)>> \o write_field_value(f, opts, record.payload_bits)

----------------------------------------------------------------------------
(* The walk over the fields.                                                 *)

PastPayload(f) == f.at # None /\ f.at >= record.payload_bits
Empty(f) == f.value.kind = "na" \/ (f.value.kind = "bits" /\ f.value.bits = <<>>)
Unused(f) == (f.value.kind = "spare" /\ f.value.n = 0) \/ (f.value.kind = "reserved" /\ f.value.ones)
Skipped(f, o) == PastPayload(f) \/ Unused(f) \/ (Empty(f) /\ ~o.include_empty /\ ~o.debug)

Sep == IF top_sep THEN <<P(",")>> ELSE <<>>
ClosedList == IF current_set # 0 THEN <<P("}"), P("]")>> ELSE <<>>
ListKey(s) == IF s = 1 THEN Key("list") ELSE Key("list2")
IterOf(f) == IF f.iter = None THEN 0 ELSE f.iter

Init ==
    /\ record \in Records
    /\ opts \in record.options
    /\ mode \in {"json", "text"}
    /\ left = record.fields
    /\ fields_buf = <<>> /\ top_sep = FALSE /\ current_set = 0 /\ current_iter = None
    /\ line = None

Walking(m) == mode = m /\ line = None /\ left # <<>>
Rest == left' = Tail(left) /\ UNCHANGED <<record, opts, mode, line>>

Skip ==
    /\ Walking("json") /\ Skipped(Head(left), opts)
    /\ Rest /\ UNCHANGED <<fields_buf, top_sep, current_set, current_iter>>

WriteTop ==
    /\ Walking("json") /\ ~Skipped(Head(left), opts) /\ Head(left).set = 0
    /\ fields_buf' = fields_buf \o ClosedList \o Sep \o Member(Head(left))
    /\ top_sep' = TRUE /\ current_set' = 0
    /\ current_iter' = IF current_set = 0 THEN current_iter ELSE None
    /\ Rest

OpenList ==
    /\ Walking("json") /\ ~Skipped(Head(left), opts) /\ Head(left).set \notin {0, current_set}
    /\ fields_buf' = fields_buf \o ClosedList \o Sep \o <<ListKey(Head(left).set), P("["), P("{")>> \o Member(Head(left))
    /\ top_sep' = TRUE /\ current_set' = Head(left).set /\ current_iter' = IterOf(Head(left))
    /\ Rest

\* Mutant: an element goes on when the iteration changes.
WriteInListJoined ==
    /\ Walking("json") /\ ~Skipped(Head(left), opts) /\ Head(left).set # 0 /\ Head(left).set = current_set
    /\ fields_buf' = fields_buf \o <<P(",")>> \o Member(Head(left))
    /\ current_iter' = IterOf(Head(left))
    /\ Rest /\ UNCHANGED <<top_sep, current_set>>

WriteInList ==
    /\ Walking("json") /\ ~Skipped(Head(left), opts) /\ Head(left).set # 0 /\ Head(left).set = current_set
    /\ fields_buf' = fields_buf \o (IF IterOf(Head(left)) = current_iter THEN <<P(",")>> ELSE <<P("}"), P(","), P("{")>>)
                     \o Member(Head(left))
    /\ current_iter' = IterOf(Head(left))
    /\ Rest /\ UNCHANGED <<top_sep, current_set>>

\* A set whose start was reached, and of which nothing renders, is an empty list.
renderable(f) == ~(f.value.kind = "spare" /\ f.value.n = 0)
                 /\ ~(f.value.kind = "na" /\ ~opts.include_empty /\ ~opts.debug)
Unseen(s) == record.has[s] /\ ~\E i \in DOMAIN record.fields : record.fields[i].set = s /\ renderable(record.fields[i])
EmptyList(s) == <<ListKey(s), P("["), P("{"), P("}"), P("]")>>

Placeholder1(buf) ==
    IF ~Unseen(1) THEN buf
    ELSE buf \o (IF buf # <<>> /\ current_set = 0 THEN Sep ELSE <<>>) \o EmptyList(1)
\* Mutant: the second placeholder takes its separator from what came before.
Placeholder2Sep(buf) ==
    IF ~Unseen(2) THEN buf
    ELSE buf \o (IF buf # <<>> /\ current_set = 0 THEN Sep ELSE <<>>) \o EmptyList(2)
Placeholder2(buf) ==
    IF ~Unseen(2) THEN buf
    ELSE buf \o (IF buf # <<>> THEN <<P(",")>> ELSE <<>>) \o EmptyList(2)

Header ==
    (IF record.timestamp = None THEN <<>> ELSE <<Key("timestamp"), Str(record.timestamp), P(",")>>)
    \o Joined(<<<<Key("prio"), Num(record.prio)>>, <<Key("src"), Num(record.src)>>, <<Key("dst"), Num(record.dst)>>,
                <<Key("pgn"), Num(record.pgn)>>,
                <<Key("description"), Str(IF opts.camel = "off" THEN record.description ELSE record.id)>>>>)
Wrapped(body) ==
    IF opts.camel = "off" THEN body
    ELSE Braced(<<[key |-> record.id, upper |-> opts.camel = "upper"]>> \o body)
Whole(buf) ==
    Wrapped(Braced(Header \o (IF buf = <<>> THEN <<>> ELSE <<P(","), Key("fields")>> \o Braced(buf))))

Finish ==
    /\ mode = "json" /\ line = None /\ left = <<>>
    /\ line' = Whole(Placeholder2(Placeholder1(fields_buf \o ClosedList)))
    /\ UNCHANGED <<record, opts, mode, left, fields_buf, top_sep, current_set, current_iter>>

----------------------------------------------------------------------------
(* The text writer: labels with the number of the iteration, "Unknown" for   *)
(* what is not available.                                                    *)

TextOf(f) ==
    CASE f.value.kind = "na" -> Word("Unknown")
      [] f.value.kind = "bits" -> IF f.value.bits = <<>> THEN Word("None") ELSE Str(f.value.bits)
      [] OTHER -> Scalar(f)
Labelled(f) == [name |-> f.name, iter |-> IF f.set # 0 /\ f.iter # None THEN f.iter + 1 ELSE 0, shown |-> TextOf(f)]

WriteText ==
    /\ Walking("text")
    /\ LET f == Head(left)
       IN fields_buf' = IF f.value.kind \in {"reserved", "spare"} \/ PastPayload(f) THEN fields_buf
                        ELSE Append(fields_buf, Labelled(f))
    /\ Rest /\ UNCHANGED <<top_sep, current_set, current_iter>>

FinishText ==
    /\ mode = "text" /\ line = None /\ left = <<>>
    /\ line' = fields_buf
    /\ UNCHANGED <<record, opts, mode, left, fields_buf, top_sep, current_set, current_iter>>

Next == Skip \/ WriteTop \/ OpenList \/ WriteInList \/ Finish \/ WriteText \/ FinishText

Spec == Init /\ [][Next]_jsonVars

----------------------------------------------------------------------------
(* The reader: the first key of that name, wherever it stands in the text.   *)

Depth(ts, i, j, open, close) ==
    Cardinality({k \in i..j : ts[k] = P(open)}) - Cardinality({k \in i..j : ts[k] = P(close)})
CloseOf(ts, i, open, close) ==
    LET ends == {j \in i..Len(ts) : Depth(ts, i, j, open, close) = 0} IN IF ends = {} THEN None ELSE Min(ends)
Balanced(ts, i, open, close) ==
    IF CloseOf(ts, i, open, close) = None THEN None ELSE SubSeq(ts, i, CloseOf(ts, i, open, close))

Found(ts, k) == {i \in 1..Len(ts) - 1 : ts[i] = Key(k)}
ValueAt(ts, i) ==
    CASE ts[i] = P("{") -> Balanced(ts, i, "{", "}")
      [] ts[i] = P("[") -> Balanced(ts, i, "[", "]")
      [] OTHER -> <<ts[i]>>
value(ts, k) == IF Found(ts, k) = {} THEN None ELSE ValueAt(ts, Min(Found(ts, k)) + 1)

IsObject(v) == v # None /\ v[1] = P("{")
Inner(ts, k) == IF IsObject(value(ts, k)) THEN value(value(ts, k), "value") ELSE value(ts, k)

IsNumber(t) == "whole" \in DOMAIN t
Signed(t, n) == IF t.neg THEN -n ELSE n
Hundredths(t) == Signed(t, 100 * t.whole + (IF Len(t.frac) > 0 THEN 10 * t.frac[1] ELSE 0)
                                         + (IF Len(t.frac) > 1 THEN t.frac[2] ELSE 0))
AsNumber(v) ==
    CASE v = None -> None
      [] v # None /\ IsNumber(v[1]) -> Hundredths(v[1])
      [] v # None /\ "digits" \in DOMAIN v[1] -> 100 * v[1].digits
      [] OTHER -> None
AsInt(v) ==
    CASE v = None -> None
      [] v # None /\ IsNumber(v[1]) -> IF v[1].frac = <<>> THEN Signed(v[1], v[1].whole) ELSE None
      [] v # None /\ "digits" \in DOMAIN v[1] -> v[1].digits
      [] OTHER -> None
number(ts, k) == AsNumber(Inner(ts, k))
int(ts, k) == AsInt(Inner(ts, k))
lookup_int(ts, k) == AsInt(Inner(ts, k))
TextIn(v) ==
    CASE v = None -> None
      [] v # None /\ "str" \in DOMAIN v[1] -> v[1].str
      [] v # None /\ "word" \in DOMAIN v[1] -> v[1].word
      [] OTHER -> "other"

array_span(ts, k) ==
    IF Found(ts, k) = {} \/ ts[Min(Found(ts, k)) + 1] # P("[") THEN None ELSE value(ts, k)
\* The objects of an array, each from its brace to the one that closes it.
Outer(arr) == {i \in DOMAIN arr : arr[i] = P("{") /\ Depth(arr, 1, i, "{", "}") = 1}
split_object_array(arr) ==
    IF arr = None THEN <<>>
    ELSE LET starts == SetToSortSeq(Outer(arr), <)
         IN [i \in DOMAIN starts |-> Balanced(arr, starts[i], "{", "}")]

HeaderKeys == {"timestamp", "prio", "src", "dst", "pgn", "description", "fields"}
camel_wrapper_id(ts) == IF ts[2] \in {Key(k) : k \in HeaderKeys} THEN None ELSE ts[2]

----------------------------------------------------------------------------
(* The DecodedPgn that a line is rebuilt into.                               *)

\* The variant a wrapper names, or the first of its number.
VariantOf(ts) ==
    IF camel_wrapper_id(ts) = Key(record.id) THEN record.schema ELSE record.first

Read(k, n) == [kind |-> k, n |-> n]
ReadText(s) == [kind |-> "string", s |-> s]
Maybe(k, n) == IF n = None THEN None ELSE Read(k, n)

resolve_lookup_name(fi, s) ==
    IF \E n \in DOMAIN fi.table : fi.table[n] = s THEN Min({n \in DOMAIN fi.table : fi.table[n] = s}) ELSE None
Seconds(fi, v) == IF v = None THEN None ELSE IF fi.resolution >= 100 THEN 100 * v ELSE v * fi.resolution

field_value_from_json(ts, fi, use_camel) ==
    LET name == IF use_camel THEN fi.id ELSE fi.name IN
    CASE fi.type = "lookup" ->
           Maybe("lookup", IF lookup_int(ts, name) # None THEN lookup_int(ts, name)
                           ELSE resolve_lookup_name(fi, TextIn(value(ts, name))))
      [] fi.type = "time" -> Maybe("time", Seconds(fi, int(ts, name)))
      [] fi.type \in {"integer", "date", "mmsi", "pgn"} -> Maybe(fi.type, int(ts, name))
      [] fi.type = "string" -> IF value(ts, name) = None THEN None ELSE ReadText(TextIn(value(ts, name)))
      [] fi.type = "number" -> Maybe("number", number(ts, name))
      [] OTHER -> None     \* binary, ISO NAME, reserved, spare: no converter reads them

json_to_decoded(ts) ==
    [pgn |-> int(ts, "pgn"), src |-> int(ts, "src"), dst |-> int(ts, "dst"), prio |-> int(ts, "prio"),
     timestamp |-> TextIn(value(ts, "timestamp")),
     fields |-> [i \in DOMAIN VariantOf(ts) |-> field_value_from_json(ts, VariantOf(ts)[i], camel_wrapper_id(ts) # None)]]

----------------------------------------------------------------------------
(* Correctness.                                                              *)

Options == [nv : BOOLEAN, include_empty : BOOLEAN, debug : BOOLEAN, camel : {"off", "lower", "upper"}]

\* The types: a writer under one set of options, in one list at most.
TypeOK ==
    /\ record \in Records /\ opts \in record.options /\ record.options \subseteq Options
    /\ mode \in {"json", "text"}
    /\ \E k \in 0..Len(record.fields) : left = SubSeq(record.fields, k + 1, Len(record.fields))
    /\ top_sep \in BOOLEAN /\ current_set \in 0..2
    /\ current_iter \in Nat \cup {None}
    /\ line # None => left = <<>>

\* What may follow, as the grammar of JSON has it; the stack of open brackets.
Accept(st, t) ==
    CASE t \in Opening /\ st.want \in {"value", "value or close"} ->
           [stack |-> Append(st.stack, t), want |-> IF t = P("{") THEN "key or close" ELSE "value or close"]
      [] "key" \in DOMAIN t /\ st.want \in {"key", "key or close"} -> [st EXCEPT !.want = "value"]
      [] t = P(",") /\ st.want = "after" /\ st.stack # <<>> ->
           [st EXCEPT !.want = IF Last(st.stack) = P("{") THEN "key" ELSE "value"]
      [] t = P("}") /\ st.want \in {"after", "key or close"} /\ st.stack # <<>> /\ Last(st.stack) = P("{") ->
           [stack |-> Front(st.stack), want |-> "after"]
      [] t = P("]") /\ st.want \in {"after", "value or close"} /\ st.stack # <<>> /\ Last(st.stack) = P("[") ->
           [stack |-> Front(st.stack), want |-> "after"]
      [] "punct" \notin DOMAIN t /\ "key" \notin DOMAIN t /\ st.want \in {"value", "value or close"} ->
           [st EXCEPT !.want = "after"]
      [] OTHER -> [stack |-> <<>>, want |-> "error"]
IsJson(ts) == FoldLeft(Accept, [stack |-> <<>>, want |-> "value"], ts) = [stack |-> <<>>, want |-> "after"]

Written == mode = "json" /\ line # None
Rendered(s) == SelectSeq(record.fields, LAMBDA f : f.set = s /\ ~Skipped(f, opts))

\* The code leaves out the comma before the placeholder of the first list when
\* the second was written: such a line is not JSON.
CommaLost == Unseen(1) /\ Rendered(2) # <<>>

\* Every line is one JSON value, under every option and whatever the decoder
\* left out of its lists (write_json).
LineIsJson == Written /\ ~CommaLost => IsJson(line)

\* Each list has one object per iteration that shows anything, with the members
\* of that iteration and no other, as the reader splits it (split_object_array).
Iterations(s) == {IterOf(Rendered(s)[i]) : i \in DOMAIN Rendered(s)}
ElementOf(s, n) ==
    LET of == SelectSeq(Rendered(s), LAMBDA f : IterOf(f) = n)
    IN Braced(Joined([i \in DOMAIN of |-> Member(of[i])]))
ListsSplit ==
    Written => \A s \in {1, 2} :
        LET elements == split_object_array(array_span(line, IF s = 1 THEN "list" ELSE "list2"))
        IN IF Rendered(s) = <<>> THEN elements \in {<<>>, <<Braced(<<>>)>>}
           ELSE elements = [i \in 1..Cardinality(Iterations(s)) |-> ElementOf(s, SetToSortSeq(Iterations(s), <)[i])]

\* What a live decode gives the converters.
Live(f) ==
    CASE f.value.kind \in {"number", "integer", "lookup", "date", "mmsi", "pgn"} -> Read(f.value.kind, f.value.n)
      [] f.value.kind = "time" -> Read("time", f.value.n * f.resolution)
      [] f.value.kind = "string" -> ReadText(f.value.s)
      [] OTHER -> None
Readable == Written /\ opts.nv /\ ~opts.debug
            /\ (opts.camel = "lower" \/ (opts.camel = "off" /\ record.first = record.schema))
ReadBack(f) ==
    \A j \in DOMAIN record.schema :
        record.schema[j].id = f.id =>
            json_to_decoded(line).fields[j] = IF Skipped(f, opts) THEN None ELSE Live(f)
NullText(f) == f.type = "string" /\ f.value.kind = "na"     \* reads as the text "null" under -empty
Shadowed(f) == field_display_name(f, opts) \in {Key(k) : k \in HeaderKeys \cup {"value", "name", "key"}}

\* A line of -nv gives back the record: the header, and every field outside the
\* lists with the value it was decoded to, but for the keys that the record
\* uses for itself (json_to_decoded).
FieldsReadBack ==
    Readable =>
      /\ LET d == json_to_decoded(line)
         IN <<d.pgn, d.src, d.dst, d.prio, d.timestamp>>
            = <<record.pgn, record.src, record.dst, record.prio, record.timestamp>>
      /\ \A i \in DOMAIN record.fields :
            record.fields[i].set = 0 /\ ~NullText(record.fields[i]) /\ ~Shadowed(record.fields[i])
              => ReadBack(record.fields[i])

\* The text shows whatever JSON shows, but for what is reserved or spare, and
\* gives no two fields of a record the same label (write_text).
TextShowsAll ==
    mode = "text" /\ line # None =>
      /\ \A i \in DOMAIN record.fields :
            ~Skipped(record.fields[i], opts) /\ record.fields[i].value.kind \notin {"reserved", "spare"}
              => \E n \in DOMAIN line : line[n] = Labelled(record.fields[i])
      /\ \A m, n \in DOMAIN line :
            m # n => <<line[m].name, line[m].iter>> # <<line[n].name, line[n].iter>>

LinesReadBack == LineIsJson /\ ListsSplit /\ FieldsReadBack /\ TextShowsAll
=============================================================================
