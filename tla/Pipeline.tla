----------------------------- MODULE Pipeline -----------------------------
(***************************************************************************)
(* The thread that turns frames into the output streams                    *)
(* (server/pipeline.rs), the hubs (n2kd/serving/hub.rs) and the threads    *)
(* that serve a client each (serving/tcp.rs, server/tcp.rs).  A line is    *)
(* the number of the frame it was made from.  The raw port has a line for  *)
(* every message, the analyzer and the binary port for every decoded one.  *)
(***************************************************************************)
EXTENDS Naturals, Sequences

CONSTANTS
    StreamPorts,    \* ports whose client subscribes, then writes the header
    BinaryPorts,    \* ports whose client says hello, then subscribes
    RawPort,        \* the stream port that carries what does not decode too
    PipeClients,
    BatchAge,       \* BATCH_MAX_AGE, in ticks
    BatchLines,     \* BATCH_MAX_BYTES, in lines
    MaxFrames, MaxLate

Ports == StreamPorts \union BinaryPorts
HEADER == 0

VARIABLES
    frames,     \* frames_rx: what the device and the clients' ports sent
    closed,     \* the senders of frames_rx are gone
    with_device,\* there is a device, and with it quirks and an input port
    pre_coalesced,
    half,       \* the reassembler holds the first part of a message
    pending_synth,
    pending,    \* port -> lines batched
    oldest,     \* port -> age of the batch, in ticks
    subscribers,\* port -> clients
    chan,       \* client -> lines its thread has not taken yet
    port,       \* client -> the port it is connected to
    phase,      \* client -> "new", "subscribed", "greeted", "open" or "gone"
    got,        \* client -> what was written to its socket
    \* What the properties look back on.
    said,       \* port -> every line that was due on it
    since,      \* client -> how many of them before it subscribed
    on_bus,     \* frames the server itself sent to the device
    count,      \* frames so far
    done        \* the pipeline has returned

hubs == <<pending, oldest, subscribers, said>>
clients == <<port, phase, got, since>>
plVars == <<frames, closed, with_device, pre_coalesced, half, pending_synth, hubs, chan, clients, on_bus, count, done>>

Frame(i, k) == [id |-> i, kind |-> k]
\* whole: one frame; part and last: the two halves of a message; long: more
\* than 8 bytes; bad: no definition decodes it; trigger: a quirk answers it.
Kinds == {"whole", "part", "last", "long", "bad", "trigger"}

TypeOK ==
    /\ \A i \in 1 .. Len(frames) : frames[i].kind \in Kinds
    /\ with_device => pre_coalesced
    /\ pre_coalesced \in BOOLEAN /\ half \in BOOLEAN /\ closed \in BOOLEAN /\ done \in BOOLEAN
    /\ \A p \in Ports : Len(pending[p]) < BatchLines /\ oldest[p] \in 0 .. BatchAge + MaxLate
    /\ \A c \in PipeClients : phase[c] \in {"new", "subscribed", "greeted", "open", "gone"}

Init ==
    /\ frames = <<>> /\ closed = FALSE /\ half = FALSE /\ pending_synth = <<>>
    /\ with_device \in BOOLEAN /\ pre_coalesced = with_device
    /\ pending = [p \in Ports |-> <<>>] /\ oldest = [p \in Ports |-> 0]
    /\ subscribers = [p \in Ports |-> {}] /\ said = [p \in Ports |-> <<>>]
    /\ chan = [c \in PipeClients |-> <<>>] /\ got = [c \in PipeClients |-> <<>>]
    /\ port \in [PipeClients -> Ports] /\ phase = [c \in PipeClients |-> "new"]
    /\ since = [c \in PipeClients |-> 0] /\ on_bus = <<>> /\ count = 0 /\ done = FALSE

---------------------------------------------------------------------------
\* The batchers.  Flush(b) is the effect of broadcasting b[p] on each port p;
\* a client whose thread is gone drops out of its hub.
HasSubscribers(p) == subscribers[p] # {}

Broadcast(b) ==
    /\ subscribers' = [p \in Ports |-> {c \in subscribers[p] : b[p] = <<>> \/ phase[c] # "gone"}]
    /\ chan' = [c \in PipeClients |-> IF c \in subscribers[port[c]] /\ phase[c] # "gone" /\ b[port[c]] # <<>>
                                      THEN chan[c] \o b[port[c]] ELSE chan[c]]

PushedDropping(p, line) == IF Len(pending[p]) + 1 >= BatchLines THEN pending[p] ELSE Append(pending[p], line)
Pushed(p, line) == Append(pending[p], line)

\* push on the ports of ps, then flush_due on every port if `due`.
Out(ps, line, due) ==
    LET to == {p \in ps : HasSubscribers(p)}
        full == [p \in Ports |-> IF p \in to THEN Pushed(p, line) ELSE pending[p]]
        age == [p \in Ports |-> IF p \in to /\ pending[p] = <<>> THEN 0 ELSE oldest[p]]
        goes(p) == full[p] # <<>> /\ ((p \in to /\ Len(full[p]) >= BatchLines) \/ (due /\ age[p] >= BatchAge))
    IN
    /\ Broadcast([p \in Ports |-> IF goes(p) THEN full[p] ELSE <<>>])
    /\ pending' = [p \in Ports |-> IF goes(p) THEN <<>> ELSE full[p]]
    /\ oldest' = age
    /\ said' = [p \in Ports |-> IF p \in ps THEN Append(said[p], line) ELSE said[p]]

FlushDueRaw ==
    LET goes(p) == p = RawPort /\ pending[p] # <<>> /\ oldest[p] >= BatchAge IN
    /\ Broadcast([p \in Ports |-> IF goes(p) THEN pending[p] ELSE <<>>])
    /\ pending' = [p \in Ports |-> IF goes(p) THEN <<>> ELSE pending[p]]
    /\ UNCHANGED <<oldest, said>>

FlushDue ==
    LET goes(p) == pending[p] # <<>> /\ oldest[p] >= BatchAge IN
    /\ Broadcast([p \in Ports |-> IF goes(p) THEN pending[p] ELSE <<>>])
    /\ pending' = [p \in Ports |-> IF goes(p) THEN <<>> ELSE pending[p]]
    /\ UNCHANGED <<oldest, said>>

---------------------------------------------------------------------------
\* The loop of run.

\* A long frame, and with a device any, is a whole message from here on.
Locks(f) == pre_coalesced \/ f.kind = "long"

\* A frame that is not a whole message yet: nothing is written or flushed.
Incomplete(f) == ~Locks(f) /\ (f.kind = "part" \/ (f.kind = "last" /\ ~half))

SynthesisedAgain(f) == IF with_device /\ f.kind \in {"trigger", "synth"} THEN <<Frame(count + 1, "synth")>> ELSE <<>>
\* What the quirks answer; only a trigger has an answer.
Synthesised(f) == IF with_device /\ f.kind = "trigger" THEN <<Frame(count + 1, "synth")>> ELSE <<>>

Handle(f) ==
    /\ pre_coalesced' = Locks(f)
    /\ half' = IF Locks(f) THEN half ELSE IF f.kind = "part" THEN TRUE ELSE IF f.kind = "last" THEN FALSE ELSE half
    /\ IF Incomplete(f) THEN UNCHANGED <<hubs, chan>>
       ELSE IF f.kind = "bad" THEN Out({RawPort}, f.id, FALSE)
       ELSE Out(Ports, f.id, TRUE)

HandleSynth ==
    /\ ~done /\ pending_synth # <<>>
    /\ Handle(Head(pending_synth))
    /\ pending_synth' = Tail(pending_synth) \o Synthesised(Head(pending_synth))
    /\ UNCHANGED <<frames, closed, with_device, clients, on_bus, count, done>>

HandleFrame ==
    /\ ~done /\ pending_synth = <<>> /\ frames # <<>>
    /\ LET f == Head(frames) synth == IF Incomplete(f) THEN <<>> ELSE Synthesised(f) IN
        /\ Handle(f)
        /\ pending_synth' = synth
        /\ on_bus' = on_bus \o [i \in 1 .. Len(synth) |-> synth[i].id]
        /\ count' = count + Len(synth)
    /\ frames' = Tail(frames)
    /\ UNCHANGED <<closed, with_device, clients, done>>

\* recv_timeout runs out; time has passed since the oldest line.
Timeout ==
    /\ ~done /\ pending_synth = <<>> /\ frames = <<>> /\ \E p \in Ports : pending[p] # <<>>
    /\ FlushDue
    /\ UNCHANGED <<frames, closed, with_device, pre_coalesced, half, pending_synth, clients, on_bus, count, done>>

\* All the senders are gone: the batches are flushed and run returns.
Return ==
    /\ ~done /\ pending_synth = <<>> /\ frames = <<>> /\ closed
    /\ Broadcast(pending) /\ pending' = [p \in Ports |-> <<>>]
    /\ done' = TRUE
    /\ UNCHANGED <<frames, closed, with_device, pre_coalesced, half, pending_synth, oldest, said, clients, on_bus, count>>

Tick ==
    /\ ~done /\ \E p \in Ports : pending[p] # <<>> /\ oldest[p] < BatchAge + MaxLate
    /\ oldest' = [p \in Ports |-> IF pending[p] # <<>> /\ oldest[p] < BatchAge + MaxLate
                                  THEN oldest[p] + 1 ELSE oldest[p]]
    /\ UNCHANGED <<frames, closed, with_device, pre_coalesced, half, pending_synth, pending, subscribers, said,
                   chan, clients, on_bus, count, done>>

---------------------------------------------------------------------------
\* Where frames come from.

Receive(k) ==
    /\ ~closed /\ count < MaxFrames /\ count' = count + 1
    /\ frames' = Append(frames, Frame(count', k))
    /\ UNCHANGED <<closed, with_device, pre_coalesced, half, pending_synth, hubs, chan, clients, on_bus, done>>

\* A client of the input port writes a frame: to the device, and back in here.
ForwardPlainLine ==
    /\ with_device /\ ~closed /\ count < MaxFrames /\ count' = count + 1
    /\ on_bus' = Append(on_bus, count')
    /\ frames' = Append(frames, Frame(count', "whole"))
    /\ UNCHANGED <<closed, with_device, pre_coalesced, half, pending_synth, hubs, chan, clients, done>>

\* stdin says by a header that what follows comes coalesced.
Header ==
    /\ ~with_device /\ ~closed /\ ~pre_coalesced /\ pre_coalesced' = TRUE
    /\ UNCHANGED <<frames, closed, with_device, half, pending_synth, hubs, chan, clients, on_bus, count, done>>

Close ==
    /\ ~closed /\ closed' = TRUE
    /\ UNCHANGED <<frames, with_device, pre_coalesced, half, pending_synth, hubs, chan, clients, on_bus, count, done>>

---------------------------------------------------------------------------
\* The thread of a client.

InHub(c) == phase[c] = (IF port[c] \in StreamPorts THEN "new" ELSE "greeted")
Subscribe(c) ==
    /\ InHub(c)
    /\ subscribers' = [subscribers EXCEPT ![port[c]] = @ \union {c}]
    /\ since' = [since EXCEPT ![c] = Len(said[port[c]])]
    /\ phase' = [phase EXCEPT ![c] = IF port[c] \in StreamPorts THEN "subscribed" ELSE "open"]
    /\ UNCHANGED <<frames, closed, with_device, pre_coalesced, half, pending_synth, pending, oldest, said, chan,
                   port, got, on_bus, count, done>>

Greet(c) ==
    /\ phase[c] = (IF port[c] \in StreamPorts THEN "subscribed" ELSE "new")
    /\ got' = [got EXCEPT ![c] = <<HEADER>>]
    /\ phase' = [phase EXCEPT ![c] = IF port[c] \in StreamPorts THEN "open" ELSE "greeted"]
    /\ UNCHANGED <<frames, closed, with_device, pre_coalesced, half, pending_synth, hubs, chan, port, since,
                   on_bus, count, done>>

\* It takes what is there, as one write; a binary client a chunk at a time, which
\* may end at any line.
Taken(c) == IF port[c] \in StreamPorts THEN {Len(chan[c])} ELSE 1 .. Len(chan[c])
Write(c) ==
    /\ phase[c] = "open" /\ chan[c] # <<>>
    /\ \E n \in Taken(c) :
        /\ got' = [got EXCEPT ![c] = @ \o SubSeq(chan[c], 1, n)]
        /\ chan' = [chan EXCEPT ![c] = SubSeq(@, n + 1, Len(@))]
    /\ UNCHANGED <<frames, closed, with_device, pre_coalesced, half, pending_synth, hubs, port, phase, since,
                   on_bus, count, done>>

Leave(c) ==
    /\ phase[c] \in {"subscribed", "open"} /\ phase' = [phase EXCEPT ![c] = "gone"]
    /\ chan' = [chan EXCEPT ![c] = <<>>]
    /\ UNCHANGED <<frames, closed, with_device, pre_coalesced, half, pending_synth, hubs, port, got, since,
                   on_bus, count, done>>

Loop == HandleSynth \/ HandleFrame \/ Timeout \/ Return
Client(c) == Greet(c) \/ Write(c)
Next ==
    \/ Loop \/ Tick \/ Close \/ Header \/ ForwardPlainLine
    \/ \E k \in Kinds : Receive(k)
    \/ \E c \in PipeClients : Client(c) \/ Subscribe(c) \/ Leave(c)

Spec == Init /\ [][Next]_plVars /\ WF_plVars(Loop \/ Tick)

---------------------------------------------------------------------------
\* What a client gets is what was due on its port from some line on, in order
\* and once, after the header: every line after it subscribed, and at most some
\* of the lines just before (has_subscribers, push, flush, broadcast,
\* run_stream_client).
Written(c) == IF got[c] = <<>> THEN <<>> ELSE Tail(got[c])
OnItsWay(c) == Written(c) \o chan[c] \o pending[port[c]]
Due(p, k) == SubSeq(said[p], k + 1, Len(said[p]))
StreamIntact ==
    \A c \in PipeClients :
        phase[c] \in {"subscribed", "open"} =>
            /\ \E k \in 0 .. since[c] : OnItsWay(c) = Due(port[c], k)
            /\ phase[c] = "open" => got[c] # <<>> /\ Head(got[c]) = HEADER

\* Every frame the server puts on the bus comes back into its own streams, once
\* (the loopback of forward_plain_line, pending_synth).
Ids(fs) == [i \in 1 .. Len(fs) |-> fs[i].id]
ComingBack == said[RawPort] \o Ids(pending_synth) \o Ids(frames)
EchoedOnce ==
    \A i \in 1 .. Len(on_bus) :
        \E j \in 1 .. Len(ComingBack) :
            \A m \in 1 .. Len(ComingBack) : ComingBack[m] = on_bus[i] <=> m = j

\* A port has a batch.  None may stay, whatever comes or does not come after
\* it (recv_timeout, flush_due).
Batched(p) == pending[p] # <<>>
=============================================================================
