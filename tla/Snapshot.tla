----------------------------- MODULE Snapshot -----------------------------
(***************************************************************************)
(* The cache behind the snapshot and AIS ports (canboat-core snapshot.rs): *)
(* the last record of every key, with its time to live.  The server splits *)
(* decoded records into entries (server/snapshot.rs), n2kd and the TUI     *)
(* split analyzer lines (classify_json_line).  Of a record the values of   *)
(* its primary key fields are kept: top ones, and one per iteration.       *)
(***************************************************************************)
EXTENDS Naturals, Sequences, FiniteSets

CONSTANTS
    Schema,     \* PGN -> [fields: how many make up its key, repeats: one of them lies in
                \*         a repeating set, ais: named AIS, both: sent to both ports,
                \*         class: how long it lives]
    SnapRecords,\* [pgn, src, top, iters]
    Ttl,        \* class -> ticks to live; ttl_for_pgn's "never" is Forever
    Forever, Absent,
    MaxStores, MaxTicks

VARIABLES
    by_line,    \* the store is n2kd's or the TUI's, which have lines to go by
    cache,      \* key -> [record, iter, left, count, age, interval]
    dump,       \* [port, entries] of the last client, or Absent
    heard,      \* what was last stored for each identity: [record, iter, left]
    stores, ticks

snVars == <<by_line, cache, dump, heard, stores, ticks>>

Whole == 0

---------------------------------------------------------------------------
\* Keys and splitting.

SecondaryFirst(values) == IF values = <<>> THEN <<>> ELSE <<Head(values)>>
\* The values a record has, joined; <<>> when it has none.  The i-th of them is
\* the one with i - 1 before it.
Present(values) == {n \in 1 .. Len(values) : values[n] # Absent}
Secondary(values) ==
    [i \in 1 .. Cardinality(Present(values)) |->
        values[CHOOSE n \in Present(values) : Cardinality({m \in Present(values) : m < n}) = i - 1]]

Keyed(r, values, i) == [key |-> <<r.pgn, r.src, Secondary(values)>>, iter |-> i]
WholeRecord(r) == <<Keyed(r, r.top, Whole)>>
PerIteration(r) == [i \in 1 .. Len(r.iters) |-> Keyed(r, Append(r.top, r.iters[i]), i)]

\* SnapshotStore::store of the server, which drops a record with an empty list.
SplitRecord(r) == IF Schema[r.pgn].repeats THEN PerIteration(r) ELSE WholeRecord(r)

\* classify_json_line, for which a line without a list is one entry.
SplitLine(r) == IF Schema[r.pgn].repeats /\ r.iters # <<>> THEN PerIteration(r) ELSE WholeRecord(r)

Split(r) == IF by_line THEN SplitLine(r) ELSE SplitRecord(r)

\* What tells records apart, a value that is absent included.
Identity(r, i) == <<r.pgn, r.src, IF i = Whole THEN r.top ELSE Append(r.top, r.iters[i])>>
\* Every value of its key is there, that of the iteration too.
Complete(id) == Len(id[3]) = Schema[id[1]].fields /\ \A n \in 1 .. Len(id[3]) : id[3][n] # Absent

---------------------------------------------------------------------------
TypeOK ==
    /\ \A k \in DOMAIN cache :
        /\ k[1] \in DOMAIN Schema /\ cache[k].record \in SnapRecords
        /\ cache[k].left \in 0 .. Forever /\ cache[k].count \in Nat \ {0}
        /\ cache[k].interval \in 0 .. MaxTicks /\ cache[k].age \in 0 .. MaxTicks
    /\ stores \in 0 .. MaxStores /\ ticks \in 0 .. MaxTicks

Init == by_line \in BOOLEAN /\ cache = <<>> /\ dump = Absent /\ heard = <<>> /\ stores = 0 /\ ticks = 0

TtlForPgn(pgn) == Ttl[Schema[pgn].class]

\* The count and the time between the last two records live on in the key.
Carried(c, k) == IF k \in DOMAIN c THEN [count |-> c[k].count, interval |-> c[k].age]
                 ELSE [count |-> 0, interval |-> 0]

\* The entries are stored one after the other: of those with one key the last
\* remains, and every one counts.
LastOf(numbers) == CHOOSE n \in numbers : \A m \in numbers : m <= n
StoreEntries(c, r, entries) ==
    [k \in DOMAIN c \union {entries[n].key : n \in DOMAIN entries} |->
        LET own == {n \in DOMAIN entries : entries[n].key = k}
        IN  IF own = {} THEN c[k]
            ELSE [record |-> r, iter |-> entries[LastOf(own)].iter, left |-> TtlForPgn(r.pgn), age |-> 0,
                  count |-> Carried(c, k).count + Cardinality(own),
                  interval |-> IF Cardinality(own) = 1 THEN Carried(c, k).interval ELSE 0]]

Store(r) ==
    /\ stores < MaxStores /\ stores' = stores + 1
    /\ cache' = StoreEntries(cache, r, Split(r))
    /\ LET told == {Identity(r, Split(r)[n].iter) : n \in DOMAIN Split(r)}
       IN  heard' = [id \in DOMAIN heard \union told |->
                        IF id \in told THEN [record |-> r, left |-> TtlForPgn(r.pgn)] ELSE heard[id]]
    /\ dump' = Absent /\ UNCHANGED <<by_line, ticks>>

Tick ==
    /\ ticks < MaxTicks /\ ticks' = ticks + 1
    /\ LET less(n) == IF n \in {0, Forever} THEN n ELSE n - 1 IN
        /\ cache' = [k \in DOMAIN cache |-> [cache[k] EXCEPT !.left = less(@), !.age = @ + 1]]
        /\ heard' = [id \in DOMAIN heard |-> [heard[id] EXCEPT !.left = less(@)]]
    /\ dump' = Absent /\ UNCHANGED <<by_line, stores>>

LiveEarly(k) == cache[k].left > 1
Live(k) == cache[k].left > 0

\* Which entries a port's dump shows.
Kept(port, pgn) == Schema[pgn].both \/ (port = "ais") = Schema[pgn].ais

\* A client of a port: what has expired is dropped for good, the rest shown.
Snapshot(port) ==
    /\ dump = Absent
    /\ LET live == {k \in DOMAIN cache : Live(k)} IN
        /\ cache' = [k \in live |-> cache[k]]
        /\ dump' = [port |-> port, entries |->
                      {<<k, cache[k].record, cache[k].iter>> : k \in {x \in live : Kept(port, x[1])}}]
    /\ UNCHANGED <<by_line, heard, stores, ticks>>

Next == Tick \/ (\E r \in SnapRecords : Store(r)) \/ (\E p \in {"json", "ais"} : Snapshot(p))
Spec == Init /\ [][Next]_snVars

---------------------------------------------------------------------------
\* A dump shows, of everything whose key fields were all there, exactly the
\* last record heard, as long as it has not expired, and on the port it
\* belongs to: no key is taken for another, none is dropped early or shown
\* late, whoever looked before (store_entry, filtered_snapshot).
DumpIsTheLatest ==
    dump # Absent =>
        {<<Identity(e[2], e[3]), e[2]>> : e \in {d \in dump.entries : Complete(Identity(d[2], d[3]))}}
        = {<<id, heard[id].record>> : id \in {d \in DOMAIN heard :
                Complete(d) /\ heard[d].left > 0 /\ Kept(dump.port, d[1])}}

\* Looking never costs a record that is alive, nor its count (the retain of a
\* dump, the carried count of store_entry).
LookingIsFree ==
    \A k \in DOMAIN cache : cache[k].left > 0 =>
        k \in DOMAIN cache' /\ cache'[k].count >= cache[k].count
=============================================================================
