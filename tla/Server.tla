-------------------------------- MODULE Server --------------------------------
(***************************************************************************)
(* The parts of the server side by side, from what a device says to what   *)
(* leaves its ports: each behaviour is of one of them, and the others rest.*)
(* The parts share no state in the code but what is passed to them, which  *)
(* each module lets its environment choose.                                *)
(***************************************************************************)
EXTENDS Integers, Sequences

CONSTANTS Names, Srcs, Pgns, Intervals, Clients, Pipe, Refused, MaxSets, MaxMoves, MaxCrashes,
          None, Missing, Torn,                                      \* Overrides
          Last, Answering, Spacing, Interval,                       \* RequestEngine
          Records, Second, MaxSteps,                                \* Nmea0183
          StreamPorts, BinaryPorts, RawPort, PipeClients, BatchAge, BatchLines,
          MaxFrames, MaxLate,                                       \* Pipeline
          Plain, Input, MaxCalls, MaxVisits,                        \* Bridge
          Schema, SnapRecords, Ttl, Absent, Forever, MaxStores, MaxTicks,         \* Snapshot
          Keys, Rates, MuteRows, Advertised, PgnList, MaxHistory, MaxEvents, MaxKeys,  \* TuiScreens
          Talkers, TpSlots, MaxPackets, MaxTransfers, MaxLost, MaxAgain,              \* IsoTp
          Configs, MaxReboots, MaxBeats,                            \* IKonvert
          Hour, Window, Twin, Scx, Canboat, Peers, PREFERRED_ADDRESS, QuirkSets,
          MaxOwnMoves, MaxHeard, MaxNow,                            \* Quirks
          NgtPlain, Logged, Noise, MaxDamage,                       \* Ngt1Framer
          Scripts, MaxChunk                                         \* MaretronIpg

VARIABLES
    part,   \* "overrides", "requests", "nmea0183", "pipeline", "bridge", "snapshot", "tui",
            \* "isotp", "ikonvert", "quirks", "ngt1" or "maretron"
    src_name, rules, file, addr,    \* of the overrides or of the filter
    replayed, engine, held, to_bus, to_pipe, applied, excused, unsaved, sets, moves, crashes,
    since,                          \* of the requests or of the pipeline
    seen, received, requested, cursor, pc, found, asked,
    observed, filtering, last_passed, sog_cog, intent, saved, out, steps,
    frames, closed, with_device, pre_coalesced, half, pending_synth, pending, oldest, subscribers,
    chan, port, phase, got, said, on_bus, count, done,
    backend, quirk, bridge, call, consuming, serving, joins, elsewhere, serve_stop, source,
    senders, worker, visitor, calls, visits,
    by_line, cache, dump, heard, stores, ticks,
    session, history, rates, mutes, app, turn, events, pressed,
    tp_slots, tp_next_age, emitted, sending, started, unheard, lost, again,
    config, init_state, to_device, from_device, busy, device, resets, reboots, beats, spoiled, excuse,
    kinds, own, fed_back, learned, wmm, motion, now, bus, own_moves, told, spoken, begged,
    announced, earliest, retold, taken,
    ebl, to_send, serial, framing, framed_from, collected, framed, damage,
    unsent, stream, acc, ipg_session, set_mode, handed_on, script

both == <<src_name, rules, file, addr>>
ovOnly == <<replayed, engine, held, to_bus, to_pipe, applied, excused, unsaved, sets, moves, crashes>>
reOnly == <<seen, received, requested, cursor, pc, found, asked>>
nmOnly == <<observed, filtering, last_passed, sog_cog, intent, saved, out, steps>>
plOnly == <<frames, closed, with_device, pre_coalesced, half, pending_synth, pending, oldest, subscribers,
            chan, port, phase, got, said, on_bus, count, done>>
brOnly == <<backend, quirk, bridge, call, consuming, serving, joins, elsewhere, serve_stop, source,
            senders, worker, visitor, calls, visits>>
snOnly == <<by_line, cache, dump, heard, stores, ticks>>
tuOnly == <<session, history, rates, mutes, app, turn, events, pressed>>
isOnly == <<tp_slots, tp_next_age, emitted, sending, started, unheard, lost, again>>
ikOnly == <<config, init_state, to_device, from_device, busy, device, resets, reboots, beats, spoiled, excuse>>
quOnly == <<kinds, own, fed_back, learned, wmm, motion, now, bus, own_moves, told, spoken, begged,
            announced, earliest, retold, taken>>
ngOnly == <<ebl, to_send, serial, framing, framed_from, collected, framed, damage>>
maOnly == <<unsent, stream, acc, ipg_session, set_mode, handed_on, script>>
vars == <<part, both, ovOnly, since, reOnly, nmOnly, plOnly, brOnly, snOnly, tuOnly, isOnly, ikOnly,
          quOnly, ngOnly, maOnly>>

Ov == INSTANCE Overrides
Re == INSTANCE RequestEngine
Nm == INSTANCE Nmea0183
Pl == INSTANCE Pipeline
Br == INSTANCE Bridge
Sn == INSTANCE Snapshot
Tu == INSTANCE TuiScreens
Is == INSTANCE IsoTp WITH out <- emitted, Src <- Talkers
Ik == INSTANCE IKonvert
Qu == INSTANCE Quirks WITH pending_synth <- fed_back, moves <- own_moves, MaxMoves <- MaxOwnMoves
Ng == INSTANCE Ngt1Framer WITH Plain <- NgtPlain, todo <- to_send, wire <- serial, state <- framing,
                               prev <- framed_from, buf <- collected, got <- framed
Ma == INSTANCE MaretronIpg WITH session <- ipg_session, events <- handed_on

NoBoth == src_name = 0 /\ rules = 0 /\ file = 0 /\ addr = 0
NoOv == replayed = 0 /\ engine = 0 /\ held = 0 /\ to_bus = 0 /\ to_pipe = 0 /\ applied = 0 /\ excused = 0
        /\ unsaved = 0 /\ sets = 0 /\ moves = 0 /\ crashes = 0
NoRe == seen = {} /\ received = 0 /\ requested = 0 /\ cursor = 0 /\ pc = 0 /\ found = 0 /\ asked = 0
NoNm == observed = 0 /\ filtering = 0 /\ last_passed = 0 /\ sog_cog = 0 /\ intent = 0 /\ saved = 0 /\ out = 0
        /\ steps = 0
NoPl == frames = 0 /\ closed = 0 /\ with_device = 0 /\ pre_coalesced = 0 /\ half = 0 /\ pending_synth = 0
        /\ pending = 0 /\ oldest = 0 /\ subscribers = 0 /\ chan = 0 /\ port = 0 /\ phase = 0 /\ got = 0
        /\ said = 0 /\ on_bus = 0 /\ count = 0 /\ done = 0
NoBr == backend = 0 /\ quirk = 0 /\ bridge = 0 /\ call = "free" /\ consuming = 0 /\ serving = 0 /\ joins = 0
        /\ elsewhere = 0 /\ serve_stop = 0 /\ source = 0 /\ senders = 0 /\ worker = 0 /\ visitor = 0
        /\ calls = 0 /\ visits = 0
NoSn == by_line = 0 /\ cache = 0 /\ dump = 0 /\ heard = 0 /\ stores = 0 /\ ticks = 0
NoTu == session = 0 /\ history = 0 /\ rates = 0 /\ mutes = 0 /\ app = 0 /\ turn = 0 /\ events = 0 /\ pressed = 0
NoIs == tp_slots = 0 /\ tp_next_age = 0 /\ emitted = 0 /\ sending = 0 /\ started = 0 /\ unheard = 0
        /\ lost = 0 /\ again = 0
NoIk == config = 0 /\ init_state = 0 /\ to_device = <<>> /\ from_device = <<>> /\ busy = "none"
        /\ device = 0 /\ resets = 0 /\ reboots = 0 /\ beats = 0 /\ spoiled = 0 /\ excuse = 0
NoQu == kinds = 0 /\ own = 0 /\ fed_back = <<>> /\ learned = 0 /\ wmm = 0 /\ motion = 0 /\ now = 0 /\ bus = 0
        /\ own_moves = 0 /\ told = 0 /\ spoken = 0 /\ begged = 0 /\ announced = 0 /\ earliest = 0
        /\ retold = 0 /\ taken = 0
NoNg == ebl = 0 /\ to_send = 0 /\ serial = 0 /\ framing = 0 /\ framed_from = 0 /\ collected = 0 /\ framed = 0 /\ damage = 0
NoMa == unsent = 0 /\ stream = 0 /\ acc = 0 /\ ipg_session = 0 /\ set_mode = 0 /\ handed_on = 0 /\ script = 0

Init ==
    \/ part = "overrides" /\ Ov!Init /\ since = 0 /\ NoRe /\ NoNm /\ NoPl /\ NoBr /\ NoSn /\ NoTu /\ NoIs /\ NoIk /\ NoQu /\ NoNg /\ NoMa
    \/ part = "requests"  /\ Re!Init /\ NoBoth /\ NoOv /\ NoNm /\ NoPl /\ NoBr /\ NoSn /\ NoTu /\ NoIs /\ NoIk /\ NoQu /\ NoNg /\ NoMa
    \/ part = "nmea0183"  /\ Nm!Init /\ since = 0 /\ NoOv /\ NoRe /\ NoPl /\ NoBr /\ NoSn /\ NoTu /\ NoIs /\ NoIk /\ NoQu /\ NoNg /\ NoMa
    \/ part = "pipeline"  /\ Pl!Init /\ NoBoth /\ NoOv /\ NoRe /\ NoNm /\ NoBr /\ NoSn /\ NoTu /\ NoIs /\ NoIk /\ NoQu /\ NoNg /\ NoMa
    \/ part = "bridge"    /\ Br!Init /\ NoBoth /\ since = 0 /\ NoOv /\ NoRe /\ NoNm /\ NoPl /\ NoSn /\ NoTu /\ NoIs /\ NoIk /\ NoQu /\ NoNg /\ NoMa
    \/ part = "snapshot"  /\ Sn!Init /\ NoBoth /\ since = 0 /\ NoOv /\ NoRe /\ NoNm /\ NoPl /\ NoBr /\ NoTu /\ NoIs /\ NoIk /\ NoQu /\ NoNg /\ NoMa
    \/ part = "tui"       /\ Tu!Init /\ NoBoth /\ since = 0 /\ NoOv /\ NoRe /\ NoNm /\ NoPl /\ NoBr /\ NoSn /\ NoIs /\ NoIk /\ NoQu /\ NoNg /\ NoMa
    \/ part = "isotp"     /\ Is!Init /\ NoBoth /\ since = 0 /\ NoOv /\ NoRe /\ NoNm /\ NoPl /\ NoBr /\ NoSn /\ NoTu /\ NoIk /\ NoQu /\ NoNg /\ NoMa
    \/ part = "ikonvert"  /\ Ik!Init /\ NoBoth /\ since = 0 /\ NoOv /\ NoRe /\ NoNm /\ NoPl /\ NoBr /\ NoSn /\ NoTu /\ NoIs /\ NoQu /\ NoNg /\ NoMa
    \/ part = "quirks"    /\ Qu!Init /\ NoBoth /\ since = 0 /\ NoOv /\ NoRe /\ NoNm /\ NoPl /\ NoBr /\ NoSn /\ NoTu /\ NoIs /\ NoIk /\ NoNg /\ NoMa
    \/ part = "ngt1"      /\ Ng!Init /\ NoBoth /\ since = 0 /\ NoOv /\ NoRe /\ NoNm /\ NoPl /\ NoBr /\ NoSn /\ NoTu /\ NoIs /\ NoIk /\ NoQu /\ NoMa
    \/ part = "maretron"  /\ Ma!Init /\ NoBoth /\ since = 0 /\ NoOv /\ NoRe /\ NoNm /\ NoPl /\ NoBr /\ NoSn /\ NoTu /\ NoIs /\ NoIk /\ NoQu /\ NoNg

\* One definition for each part: a step of it, the others left alone.
OvStep(A) == part = "overrides" /\ A /\ UNCHANGED <<part, since, reOnly, nmOnly, plOnly, brOnly, snOnly, tuOnly, isOnly, ikOnly, quOnly, ngOnly, maOnly>>
ReStep(A) == part = "requests"  /\ A /\ UNCHANGED <<part, both, ovOnly, nmOnly, plOnly, brOnly, snOnly, tuOnly, isOnly, ikOnly, quOnly, ngOnly, maOnly>>
NmStep(A) == part = "nmea0183"  /\ A /\ UNCHANGED <<part, since, ovOnly, reOnly, plOnly, brOnly, snOnly, tuOnly, isOnly, ikOnly, quOnly, ngOnly, maOnly>>
PlStep(A) == part = "pipeline"  /\ A /\ UNCHANGED <<part, both, ovOnly, reOnly, nmOnly, brOnly, snOnly, tuOnly, isOnly, ikOnly, quOnly, ngOnly, maOnly>>
BrStep(A) == part = "bridge"    /\ A /\ UNCHANGED <<part, both, since, ovOnly, reOnly, nmOnly, plOnly, snOnly, tuOnly, isOnly, ikOnly, quOnly, ngOnly, maOnly>>
SnStep(A) == part = "snapshot"  /\ A /\ UNCHANGED <<part, both, since, ovOnly, reOnly, nmOnly, plOnly, brOnly, tuOnly, isOnly, ikOnly, quOnly, ngOnly, maOnly>>
TuStep(A) == part = "tui"       /\ A /\ UNCHANGED <<part, both, since, ovOnly, reOnly, nmOnly, plOnly, brOnly, snOnly, isOnly, ikOnly, quOnly, ngOnly, maOnly>>
IsStep(A) == part = "isotp"     /\ A /\ UNCHANGED <<part, both, since, ovOnly, reOnly, nmOnly, plOnly, brOnly, snOnly, tuOnly, ikOnly, quOnly, ngOnly, maOnly>>
IkStep(A) == part = "ikonvert"  /\ A /\ UNCHANGED <<part, both, since, ovOnly, reOnly, nmOnly, plOnly, brOnly, snOnly, tuOnly, isOnly, quOnly, ngOnly, maOnly>>
QuStep(A) == part = "quirks"    /\ A /\ UNCHANGED <<part, both, since, ovOnly, reOnly, nmOnly, plOnly, brOnly, snOnly, tuOnly, isOnly, ikOnly, ngOnly, maOnly>>
NgStep(A) == part = "ngt1"      /\ A /\ UNCHANGED <<part, both, since, ovOnly, reOnly, nmOnly, plOnly, brOnly, snOnly, tuOnly, isOnly, ikOnly, quOnly, maOnly>>
MaStep(A) == part = "maretron"  /\ A /\ UNCHANGED <<part, both, since, ovOnly, reOnly, nmOnly, plOnly, brOnly, snOnly, tuOnly, isOnly, ikOnly, quOnly, ngOnly>>

Next == \/ OvStep(Ov!Next) \/ ReStep(Re!Next) \/ NmStep(Nm!Next)
        \/ PlStep(Pl!Next) \/ BrStep(Br!Next) \/ SnStep(Sn!Next)
        \/ TuStep(Tu!Next) \/ IsStep(Is!Next) \/ IkStep(Ik!Next)
        \/ QuStep(Qu!Next) \/ NgStep(Ng!Next) \/ MaStep(Ma!Next)

\* The threads go on; a behaviour is of one part, so that each condition is about
\* that part's variables only.
Spec == Init /\ [][Next]_vars
        /\ WF_<<both, since, reOnly>>(ReStep(Re!Thread))
        /\ WF_plOnly(PlStep(Pl!Loop \/ Pl!Tick))
        /\ WF_brOnly(BrStep(Br!Caller \/ Br!Thread))
        /\ WF_ikOnly(IkStep(Ik!HostReads)) /\ WF_ikOnly(IkStep(Ik!Deliver)) /\ WF_ikOnly(IkStep(Ik!Answer))
        /\ WF_quOnly(QuStep(Qu!FedBack))

\* Every part is well typed (see TypeOK of each).
TypeOK ==
    /\ part = "overrides" => Ov!TypeOK
    /\ part = "requests"  => Re!TypeOK
    /\ part = "nmea0183"  => Nm!TypeOK
    /\ part = "pipeline"  => Pl!TypeOK
    /\ part = "bridge"    => Br!TypeOK
    /\ part = "snapshot"  => Sn!TypeOK
    /\ part = "tui"       => Tu!TypeOK
    /\ part = "isotp"     => Is!TypeOK
    /\ part = "ikonvert"  => Ik!TypeOK
    /\ part = "quirks"    => Qu!TypeOK
    /\ part = "ngt1"      => Ng!TypeOK
    /\ part = "maretron"  => Ma!TypeOK

\* Module Overrides: what is stored is what the devices do, and what is
\* reported can be sent back.
OverridesHold == part = "overrides" => Ov!StoredIsApplied /\ Ov!RowsAddressOverrides

\* Module Nmea0183: the filter mutes what the user muted and nothing else, and
\* reports what it does; after a restart, what the last save that succeeded held.
FilterIsHonest == part = "nmea0183" => Nm!MutedIsSilent /\ Nm!UnmutedIsHeard /\ Nm!ReportIsTrue

\* Module Pipeline: no client misses, repeats or reorders a line, and what the
\* server sends comes back to it once.
StreamsWhole == part = "pipeline" => Pl!StreamIntact /\ Pl!EchoedOnce

\* Module Bridge: what was shut down holds no port.
PortsReleased == part = "bridge" => Br!PortsReleased

\* Module Snapshot: a dump is the last of everything, and only of that.
DumpIsTheLatest == part = "snapshot" => Sn!DumpIsTheLatest

\* Module TuiScreens: one dialog at a time, nothing of another session, no
\* filter that hides everything.
ScreenIsTrue == part = "tui" => Tu!ScreenIsTrue

\* Module IsoTp: one transfer per source, payloads whole and unmixed.
TransfersWhole == part = "isotp" => Is!OneSessionPerSource /\ Is!PayloadOfOneTransfer /\ Is!NoGaps

\* Module IKonvert: what the handshake reaches, and when it starts over: not in
\* mid-handshake, where the code only logs a banner and the comment at
\* ikonvert.rs:229 would have it start over.
HandshakeSound == part = "ikonvert" => Ik!DoneMeansOnline /\ Ik!ReinitOnlyAfterReboot

\* Module Quirks: what the claim of a virtual device reaches, and whom it speaks for.
ClaimsSound == part = "quirks" => Qu!OwnedIsAnnounced /\ Qu!GivesUpWhenFull /\ Qu!RatesOfOneUnit

\* Module Ngt1Framer: what is framed comes out as it went in, and a damaged byte
\* costs no more than its neighbourhood.
FramesComeBack == part = "ngt1" => Ng!Transparent
DamageIsLocal == part = "ngt1" => Ng!NothingInvented /\ Ng!ResyncsSoon

\* Module MaretronIpg: frames in full as far as to_raw lets them, up to 223 bytes;
\* the mode asked for when it must be.
SessionsInFull == part = "maretron" => Ma!FramesInFull /\ Ma!ModeAfterConnected

\* What a single step of the server may never do: start with some of its
\* overrides, ask a device too often, pass a second record in a second, lose
\* what is cached by looking at it, not emit a transfer that arrived whole, or
\* speak for a device too often; or, of the user interface, select nothing.
StepsKeepTheirWord ==
    [][/\ part = "overrides" => Ov!RestartLosesNothing
       /\ part = "requests" => Re!AskedRarely
       /\ part = "nmea0183" => Nm!OncePerSecond
       /\ part = "snapshot" => Sn!LookingIsFree
       /\ part = "tui" => Tu!KeysKeepTheirWord
       /\ part = "isotp" => Is!WholeTransferEmitted
       /\ part = "quirks" => Qu!Throttled]_vars

\* What must come about: each device is asked (one silent device and one kind of
\* request stand for all, the search treats them alike), every port's batch
\* leaves, each call returns, the iKonvert comes online however it reboots (but
\* for a reboot in mid-handshake, which the code passes over, and a handshake
\* skipped), and what the quirks feed back to themselves runs out.  A behaviour
\* is of one part, so what is owed is settled by that part.
Batches == \E p \in StreamPorts \union BinaryPorts : Pl!Batched(p)
Owed == \/ part = "requests" /\ Last \in seen
        \/ part = "pipeline" /\ Batches
        \/ part = "bridge" /\ Br!Returning
        \/ part \in {"ikonvert", "quirks"}
Settled == \/ part = "requests" /\ Re!Served("product", Last)
           \/ part = "pipeline" /\ ~Batches
           \/ part = "bridge" /\ call = "free"
           \/ part = "ikonvert" /\ Ik!Online
           \/ part = "quirks" /\ Qu!Drained
=============================================================================
