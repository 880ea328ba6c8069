------------------------------ MODULE Bridge ------------------------------
(***************************************************************************)
(* The life of a Bridge (server/bridge.rs, server/mod.rs): what new, serve,*)
(* spawn, run, wait, shutdown and drop start and stop, and which threads   *)
(* hold a sender of the channel the pipeline reads from, which ends when   *)
(* the last of them is gone.  One thread calls the methods; a call that    *)
(* blocks is where `call` says.                                            *)
(***************************************************************************)
EXTENDS Naturals, FiniteSets

CONSTANTS
    Plain, Input,   \* an output port and the input port
    MaxCalls,       \* calls of serve, spawn, wait, shutdown and run
    MaxVisits       \* connections to the input port

BridgePorts == {Plain, Input}
Backends == {"stdin", "gateway", "socketcan"}
Quirks == {"none", "scx20", "motion", "wmm"}

VARIABLES
    backend, quirk,
    bridge,     \* "none", "refused", "built" or "dropped"
    call,       \* "free", or where a call blocks: "pipeline", "worker", "accepts"
    consuming,  \* the call takes the bridge itself: run or drop
    serving,    \* ports bound by this process
    joins,      \* accept threads shutdown has yet to join
    elsewhere,  \* ports some other process has bound
    serve_stop,
    source,     \* frames_rx: "bridge", "pipeline" or "gone"
    senders,    \* the holders of a sender of that channel
    worker,     \* the supervisor's thread: "none", "runs", "stopping" or "ended"
    visitor,    \* a client of the input port is connected
    calls, visits

own == <<backend, quirk, bridge, call, consuming, calls>>
ports == <<serving, joins, serve_stop, elsewhere>>
flow == <<source, senders, worker, visitor, visits>>
brVars == <<own, ports, flow>>

TypeOK ==
    /\ bridge \in {"none", "refused", "built", "dropped"}
    /\ call \in {"free", "pipeline", "worker", "accepts"}
    /\ serving \subseteq joins /\ joins \subseteq BridgePorts /\ serving \cap elsewhere = {}
    /\ senders \subseteq {"pump", "forward", "bridge", "accept", "client"}
    /\ "accept" \in senders => Input \in serving
    /\ worker \in {"none", "runs", "stopping", "ended"}

Init ==
    /\ backend \in Backends /\ quirk \in Quirks /\ bridge = "none"
    /\ call = "free" /\ consuming = FALSE /\ serving = {} /\ joins = {} /\ elsewhere \in SUBSET BridgePorts
    /\ serve_stop = FALSE /\ source = "gone" /\ senders = {} /\ worker = "none"
    /\ visitor = FALSE /\ calls = 0 /\ visits = 0

Device == backend # "stdin"
Unfit == (quirk \in {"scx20", "motion"} /\ backend # "socketcan") \/ (quirk = "wmm" /\ ~Device)

---------------------------------------------------------------------------
\* Its methods.

Again == calls < MaxCalls /\ calls' = calls + 1
Free == bridge = "built" /\ call = "free" /\ Again

New ==
    /\ bridge = "none"
    /\ IF Unfit THEN bridge' = "refused" /\ UNCHANGED <<source, senders, worker>>
       ELSE /\ bridge' = "built" /\ source' = "bridge"
            /\ senders' = IF Device THEN {"pump", "forward", "bridge"} ELSE {"pump"}
            /\ worker' = IF Device THEN "runs" ELSE "none"
    /\ UNCHANGED <<backend, quirk, call, consuming, calls, ports, visitor, visits>>

\* The ports in their order; at one that is taken serve gives up.
Bound == LET taken == elsewhere \union serving IN
    IF ~Device THEN {Plain} \ taken
    ELSE IF Input \in taken THEN {} ELSE {Input} \union ({Plain} \ taken)
Serve ==
    /\ Free
    /\ serving' = serving \union Bound /\ joins' = joins \union Bound
    /\ senders' = IF Input \in Bound THEN senders \union {"accept"} ELSE senders
    /\ UNCHANGED <<backend, quirk, bridge, call, consuming, serve_stop, elsewhere, source, worker, visitor, visits>>

Spawn ==
    /\ Free /\ source = "bridge" /\ source' = "pipeline"
    /\ UNCHANGED <<backend, quirk, bridge, call, consuming, ports, senders, worker, visitor, visits>>

\* The supervisor is told to stop and joined.
Begun == IF worker = "runs" THEN "stopping" ELSE worker
Shutdown(last) ==
    /\ call' = "worker" /\ consuming' = last /\ worker' = Begun
    /\ UNCHANGED <<backend, quirk, bridge, ports, source, senders, visitor, visits>>
ShutdownCall == Free /\ Shutdown(FALSE)
Drop == bridge = "built" /\ call = "free" /\ UNCHANGED calls /\ Shutdown(TRUE)

\* The pipeline is waited for; run starts it, or fails and drops the bridge.
Wait ==
    /\ Free /\ call' = "pipeline"
    /\ UNCHANGED <<backend, quirk, bridge, consuming, ports, flow>>
Run ==
    /\ Free /\ consuming' = TRUE
    /\ IF source = "bridge" THEN source' = "pipeline" /\ call' = "pipeline" /\ worker' = worker
       ELSE source' = source /\ call' = "worker" /\ worker' = Begun
    /\ UNCHANGED <<backend, quirk, bridge, ports, senders, visitor, visits>>

\* The blocked call goes on, stage by stage.
PipelineJoined ==
    /\ call = "pipeline" /\ source # "pipeline" /\ call' = "worker" /\ worker' = Begun
    /\ UNCHANGED <<backend, quirk, bridge, consuming, calls, ports, source, senders, visitor, visits>>
StopsServing == serve_stop' = TRUE
WorkerJoined ==
    /\ call = "worker" /\ worker \in {"none", "ended"} /\ call' = "accepts" /\ StopsServing
    /\ UNCHANGED <<backend, quirk, bridge, consuming, calls, serving, joins, elsewhere, flow>>
JoinableAlways == TRUE
Joinable == joins \cap serving = {}
AcceptsJoined ==
    /\ call = "accepts" /\ Joinable /\ joins' = {}
    /\ call' = "free" /\ consuming' = FALSE
    /\ bridge' = IF consuming THEN "dropped" ELSE bridge
    /\ source' = IF consuming /\ source = "bridge" THEN "gone" ELSE source
    /\ senders' = IF consuming THEN senders \ {"bridge"} ELSE senders
    /\ UNCHANGED <<backend, quirk, calls, serving, serve_stop, elsewhere, worker, visitor, visits>>

---------------------------------------------------------------------------
\* The threads.

Goes(h) == senders' = senders \ {h}
PumpEnds ==
    /\ "pump" \in senders /\ Goes("pump")
    /\ UNCHANGED <<own, ports, source, worker, visitor, visits>>
WorkerEnds ==
    /\ worker = "stopping" /\ worker' = "ended"
    /\ UNCHANGED <<own, ports, source, senders, visitor, visits>>
ForwardEnds ==
    /\ "forward" \in senders /\ worker = "ended" /\ Goes("forward")
    /\ UNCHANGED <<own, ports, source, worker, visitor, visits>>
PipelineEnds == source = "pipeline" /\ senders = {}
PipelineReturns ==
    /\ PipelineEnds /\ source' = "gone"
    /\ UNCHANGED <<own, ports, senders, worker, visitor, visits>>
AcceptEnds(p) ==
    /\ p \in serving /\ serve_stop /\ serving' = serving \ {p}
    /\ IF p = Input THEN Goes("accept") ELSE UNCHANGED senders
    /\ UNCHANGED <<own, joins, serve_stop, elsewhere, source, worker, visitor, visits>>
Visit ==
    /\ Input \in serving /\ ~visitor /\ visits < MaxVisits /\ visits' = visits + 1
    /\ visitor' = TRUE /\ senders' = senders \union {"client"}
    /\ UNCHANGED <<own, ports, source, worker>>
\* A client hangs up, or its line finds no device or no pipeline any more.
Leaves ==
    /\ visitor /\ visitor' = FALSE /\ Goes("client")
    /\ UNCHANGED <<own, ports, source, worker, visits>>
Elsewhere(p) ==
    /\ p \in elsewhere /\ elsewhere' = elsewhere \ {p}
    /\ UNCHANGED <<own, serving, joins, serve_stop, flow>>

Caller == PipelineJoined \/ WorkerJoined \/ AcceptsJoined
Thread == WorkerEnds \/ ForwardEnds \/ PipelineReturns \/ \E p \in BridgePorts : AcceptEnds(p)
Next ==
    \/ New \/ Serve \/ Spawn \/ ShutdownCall \/ Drop \/ Wait \/ Run \/ Caller \/ Thread
    \/ PumpEnds \/ Visit \/ Leaves
    \/ \E p \in BridgePorts : Elsewhere(p)

Spec == Init /\ [][Next]_brVars /\ WF_brVars(Caller \/ Thread)

---------------------------------------------------------------------------
\* A bridge that was shut down, waited for or dropped, after a serve that
\* failed half way too, holds no port, so that the next one can bind it.
PortsReleased == call = "free" /\ serve_stop /\ joins = {} => serving = {}

\* A call that must come back: every shutdown and every drop (the accept loops
\* poll the flag; nothing else is waited for), and a run at the end of stdin.
Returning == call \in {"worker", "accepts"} \/ (call = "pipeline" /\ ~Device /\ senders = {})
=============================================================================
