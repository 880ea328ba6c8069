----------------------------- MODULE Overrides -----------------------------
(***************************************************************************)
(* The server's store of PGN transmission intervals (n2kd/overrides.rs),   *)
(* the pipeline and the control clients that change it, and the devices    *)
(* the requests go to.  A frame is made under the lock of the store and    *)
(* sent after the lock is released: `held` is what a thread has in hand.   *)
(***************************************************************************)
EXTENDS Naturals, Sequences, FiniteSets

CONSTANTS
    Names,      \* ISO NAMEs of the devices
    Srcs,       \* source addresses
    Pgns,
    Intervals,
    Clients,    \* control connections
    Pipe,       \* the thread of the pipeline
    Refused,    \* the intervals a device answers with a NAK
    MaxSets,    \* Set and Delete commands
    MaxMoves,   \* claims, moves and power cycles of the devices
    MaxCrashes,
    None,
    Missing, Torn   \* no file; a file that does not parse

Threads == Clients \union {Pipe}
NoRules == [n \in Names |-> [p \in Pgns |-> None]]

VARIABLES
    src_name,   \* the NAME learned at each address in this session
    rules,      \* NAME -> PGN -> interval
    replayed,   \* NAME -> the address its overrides were last sent to
    file,       \* what the file on disk holds
    engine,     \* "off", "on", or "disabled" after a file that does not parse
    held,       \* the requests each thread has made and not sent
    to_bus,     \* requests on their way to the devices
    to_pipe,    \* claims and NAKs on their way to the pipeline
    addr,       \* where each device is
    applied,    \* the interval each device uses, None for its default
    excused,    \* (NAME, PGN) whose requests crossed, went to an address the device
                \* had left, or were forgotten by it when switched off and on in place
    unsaved,    \* a save has failed
    sets, moves, crashes

store == <<src_name, rules, replayed, file, engine, unsaved>>
devs == <<addr, applied>>
air == <<held, to_bus, to_pipe>>
budget == <<sets, moves, crashes>>
vars == <<store, devs, air, excused, budget>>

Request(n, s, p, v) == [name |-> n, dst |-> s, pgn |-> p, interval |-> v]
ClaimMsg(n, s) == [kind |-> "claim", src |-> s, name |-> n]
NakMsg(s, p) == [kind |-> "nak", src |-> s, pgn |-> p]

TypeOK ==
    /\ src_name \in [Srcs -> Names \union {None}]
    /\ rules \in [Names -> [Pgns -> Intervals \union {None}]]
    /\ replayed \in [Names -> Srcs \union {None}]
    /\ engine \in {"off", "on", "disabled"}
    /\ \A t \in Clients : Cardinality(held[t]) <= 1
    /\ addr \in [Names -> Srcs]
    /\ applied \in [Names -> [Pgns -> Intervals \union {None}]]
    /\ unsaved \in BOOLEAN

Init ==
    /\ src_name = [s \in Srcs |-> None] /\ rules = NoRules
    /\ replayed = [n \in Names |-> None]
    /\ file = Missing /\ engine = "on" /\ unsaved = FALSE
    /\ held = [t \in Threads |-> {}] /\ to_bus = <<>> /\ to_pipe = <<>>
    /\ addr \in {f \in [Names -> Srcs] : \A m, n \in Names : f[m] = f[n] => m = n}
    /\ applied = NoRules /\ excused = {}
    /\ sets = 0 /\ moves = 0 /\ crashes = 0

---------------------------------------------------------------------------
\* The store.

Pending == (UNION {held[t] : t \in Threads}) \union {to_bus[i] : i \in 1 .. Len(to_bus)}
Raced(n, p) == \E f \in Pending : f.name = n /\ f.pgn = p

\* A thread makes the requests fs for the device of NAME n.  Of ps the store
\* will say they were sent to where the device is, and that is not so.
Made(t, n, fs, ps) ==
    /\ held' = [held EXCEPT ![t] = fs]
    /\ excused' = {e \in excused : \A f \in fs : e # <<n, f.pgn>>}
                  \union {e \in {<<n, f.pgn>> : f \in fs} : Raced(n, e[2])}
                  \union {<<n, p>> : p \in ps}

\* The file is written in place: that may fail, with the file as it was or torn,
\* which is only logged, or the server may die in it.
Save ==
    \/ file' = rules' /\ unsaved' = FALSE /\ UNCHANGED <<engine, crashes>>
    \/ crashes < MaxCrashes /\ crashes' = crashes + 1 /\ unsaved' = TRUE
       /\ file' \in {file, Torn} /\ UNCHANGED engine
    \/ crashes < MaxCrashes /\ crashes' = crashes + 1 /\ file' = Torn /\ engine' = "off"
       /\ UNCHANGED unsaved

ReplayNever(n, s) ==
    IF replayed[n] # None THEN {}
    ELSE {Request(n, s, p, rules[n][p]) : p \in {q \in Pgns : rules[n][q] # None}}

\* The requests for every override of n, unless they were sent to s already.
Replay(n, s) ==
    IF replayed[n] = s THEN {}
    ELSE {Request(n, s, p, rules[n][p]) : p \in {q \in Pgns : rules[n][q] # None}}

NoteClaim ==
    /\ engine = "on" /\ held[Pipe] = {}
    /\ to_pipe # <<>> /\ Head(to_pipe).kind = "claim" /\ to_pipe' = Tail(to_pipe)
    /\ LET n == Head(to_pipe).name s == Head(to_pipe).src IN
        /\ src_name' = [src_name EXCEPT ![s] = n]
        /\ replayed' = [replayed EXCEPT ![n] = s]
        /\ Made(Pipe, n, Replay(n, s), {})
    /\ UNCHANGED <<rules, file, engine, unsaved, to_bus, devs, budget>>

Remove(n, p) ==
    IF n # None /\ rules[n][p] # None
    THEN rules' = [rules EXCEPT ![n][p] = None] /\ Save
    ELSE UNCHANGED <<rules, file, engine, unsaved, crashes>>

NoteNak ==
    /\ engine = "on" /\ held[Pipe] = {}
    /\ to_pipe # <<>> /\ Head(to_pipe).kind = "nak" /\ to_pipe' = Tail(to_pipe)
    /\ Remove(src_name[Head(to_pipe).src], Head(to_pipe).pgn)
    /\ UNCHANGED <<src_name, replayed, held, to_bus, devs, excused, sets, moves>>

\* With no engine the pipeline drops what it hears.
Unheard ==
    /\ engine # "on" /\ to_pipe # <<>> /\ to_pipe' = Tail(to_pipe)
    /\ UNCHANGED <<store, devs, held, to_bus, excused, budget>>

ApplySet(c, s, p, v) ==
    /\ engine = "on" /\ held[c] = {} /\ sets < MaxSets /\ sets' = sets + 1
    /\ src_name[s] # None
    /\ rules' = [rules EXCEPT ![src_name[s]][p] = v]
    /\ replayed' = [replayed EXCEPT ![src_name[s]] = s]
    /\ Save
    /\ Made(c, src_name[s], {Request(src_name[s], s, p, v)},
            IF replayed[src_name[s]] = s /\ addr[src_name[s]] = s THEN {} ELSE Pgns)
    /\ UNCHANGED <<src_name, to_bus, to_pipe, devs, moves>>

ApplyDelete(c, s, p) ==
    /\ engine = "on" /\ held[c] = {} /\ sets < MaxSets /\ sets' = sets + 1
    /\ Remove(src_name[s], p)
    /\ UNCHANGED <<src_name, replayed, held, to_bus, to_pipe, devs, excused, moves>>

SendFrame(t) ==
    /\ engine = "on"
    /\ \E f \in held[t] : held' = [held EXCEPT ![t] = @ \ {f}] /\ to_bus' = Append(to_bus, f)
    /\ UNCHANGED <<store, to_pipe, devs, excused, budget>>

NameSrcReplayed(n) == replayed[n]

\* Each NAME is reported at the lowest address it is known at.
NameSrc(n) == CHOOSE s \in Srcs : src_name[s] = n /\ \A r \in Srcs : src_name[r] = n => s <= r
Known(n) == \E s \in Srcs : src_name[s] = n
ReportRows ==
    UNION {{[src |-> NameSrc(n), pgn |-> p, interval |-> rules[n][p]]
              : p \in {q \in Pgns : rules[n][q] # None}} : n \in {m \in Names : Known(m)}}

---------------------------------------------------------------------------
\* The server process.

Crash ==
    /\ engine = "on" /\ crashes < MaxCrashes /\ crashes' = crashes + 1 /\ engine' = "off"
    /\ UNCHANGED <<src_name, rules, replayed, file, unsaved, air, devs, excused, sets, moves>>

LoadLenient ==
    IF file \in {Missing, Torn} THEN rules' = NoRules /\ engine' = "on"
    ELSE rules' = file /\ engine' = "on"

Load ==
    CASE file = Missing -> rules' = NoRules /\ engine' = "on"
      [] file = Torn    -> rules' = rules /\ engine' = "disabled"
      [] OTHER          -> rules' = file /\ engine' = "on"

Start ==
    /\ engine = "off" /\ Load
    /\ src_name' = [s \in Srcs |-> None] /\ replayed' = [n \in Names |-> None]
    /\ held' = [t \in Threads |-> {}] /\ to_pipe' = <<>>
    /\ UNCHANGED <<file, unsaved, to_bus, devs, excused, budget>>

---------------------------------------------------------------------------
\* The devices.

Deliver ==
    /\ to_bus # <<>> /\ to_bus' = Tail(to_bus)
    /\ LET f == Head(to_bus) at == {n \in Names : addr[n] = f.dst} IN
        /\ applied' = [n \in Names |-> IF n \in at /\ f.interval \notin Refused
                                       THEN [applied[n] EXCEPT ![f.pgn] = f.interval] ELSE applied[n]]
        /\ to_pipe' = IF at # {} /\ f.interval \in Refused
                      THEN Append(to_pipe, NakMsg(f.dst, f.pgn)) ELSE to_pipe
        /\ excused' = excused \union {<<n, f.pgn>> : n \in at \ {f.name}}
    /\ UNCHANGED <<store, held, addr, budget>>

\* A device claims s: again, after a move, or after a power cycle (reset).
Claim(n, s, reset) ==
    /\ moves < MaxMoves /\ moves' = moves + 1
    /\ \A m \in Names \ {n} : addr[m] # s
    /\ addr' = [addr EXCEPT ![n] = s]
    /\ to_pipe' = Append(to_pipe, ClaimMsg(n, s))
    /\ applied' = IF reset THEN [applied EXCEPT ![n] = NoRules[n]] ELSE applied
    /\ excused' = excused \union (IF reset /\ s = addr[n] THEN {n} \X Pgns ELSE {})
    /\ UNCHANGED <<store, held, to_bus, sets, crashes>>

Next ==
    \/ NoteClaim \/ NoteNak \/ Unheard \/ Crash \/ Start \/ Deliver
    \/ \E t \in Threads : SendFrame(t)
    \/ \E c \in Clients, s \in Srcs, p \in Pgns :
        ApplyDelete(c, s, p) \/ \E v \in Intervals : ApplySet(c, s, p, v)
    \/ \E n \in Names, s \in Srcs, reset \in BOOLEAN : Claim(n, s, reset)

Spec == Init /\ [][Next]_vars

---------------------------------------------------------------------------
\* Once nothing is on its way, a device that the store knows where it is uses
\* every interval stored for it, a moved device that has forgotten them too; the
\* exceptions are the code's own (see excused) (note_address_claim, apply_set_frame).
Quiet == engine = "on" /\ Pending = {} /\ to_pipe = <<>>
StoredIsApplied ==
    Quiet => \A n \in Names, p \in Pgns :
        /\ rules[n][p] # None /\ <<n, p>> \notin excused
        /\ src_name[addr[n]] = n /\ replayed[n] = addr[n]
        => applied[n][p] = rules[n][p]

\* What a report says can be sent back: the address and PGN of a row select
\* exactly the override it shows, and each override of a known NAME has its
\* row (report_frames against apply_set_frame and apply_delete_frame).
RowsAddressOverrides ==
    engine = "on" =>
        {<<src_name[r.src], r.pgn, r.interval>> : r \in ReportRows}
        = {<<n, p, rules[n][p]>> : n \in {m \in Names : Known(m)}, p \in Pgns}
          \ {<<n, p, None>> : n \in Names, p \in Pgns}

\* A restart that goes on with overrides goes on with all of them: a torn file
\* disables the feature and does not silently drop what it held (load, save).
RestartLosesNothing ==
    engine = "off" /\ engine' = "on" /\ ~unsaved => rules' = rules
=============================================================================
