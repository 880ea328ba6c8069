----------------------------- MODULE Supervisor -----------------------------
(***************************************************************************)
(* The reconnect supervisor of canboat-io/src/device/supervisor.rs over    *)
(* the two-thread device runner of device/mod.rs.                          *)
(*                                                                         *)
(* A manager thread opens the device again and again.  Each session has a  *)
(* reader thread and a writer thread of its own (device/mod.rs) and a      *)
(* forwarder thread that moves commands from the supervisor's stable       *)
(* channel to the session's channel.  The threads share two flags, stop    *)
(* and session_done, and mpsc channels; a channel closes when its receiver *)
(* or its last sender is dropped, which is how the threads end each other. *)
(* Frames and commands are the numbers 1, 2, ... in the order the device   *)
(* and the clients produce them; a reply the decoder sends back to the     *)
(* device (WriterCmd::Bytes) is 0.  The lengths of the back-offs, which    *)
(* only time the next attempt, are left out.                               *)
(***************************************************************************)
EXTENDS Integers, Sequences

CONSTANTS
    MaxSessions,   \* bound: sessions opened
    MaxFrames,     \* bound: frames read from the device, over all sessions
    MaxCmds,       \* bound: commands the clients send
    MaxQueue       \* bound: a reply is only sent to a shorter command queue

ASSUME BoundsAreNaturals ==
    MaxSessions \in Nat /\ MaxFrames \in Nat /\ MaxCmds \in Nat /\ MaxQueue \in Nat

VARIABLES
    stop,          \* Supervisor.stop
    consumer,      \* the receiver of the stable channel of frames still exists
    manager,       \* where the manager thread is
    session,       \* the number of sessions opened; the last is the current one
    session_done,  \* the current session's flag for its forwarder
    forwarder,     \* where the current session's forwarder is
    carried,       \* the command the forwarder has taken, not yet passed on
    reader,        \* the state of each session's reader thread
    writer,        \* the state of each session's writer thread
    frames,        \* the current session's channel of frames
    queue,         \* each session's channel of commands
    cmds,          \* the stable channel of commands
    stream,        \* every frame put into the stable channel of frames
    read,          \* frames the readers have put into a session's channel
    sent,          \* commands the clients have put into the stable channel
    written        \* for each session: the commands written to the device

flags   == <<stop, session_done, consumer>>
toDev   == <<carried, queue, cmds, sent, written>>
fromDev == <<frames, stream, read>>
vars    == <<flags, manager, session, forwarder, reader, writer, toDev, fromDev>>

Session == 1 .. MaxSessions
Reply   == 0

\* The manager is in run_session and has not dropped the DeviceHandle.
HasHandle == manager \in {"pump", "drain"}

\* The reader of the current session has ended, which closes its channel.
ReaderGone == session > 0 => reader[session] = "done"

\* The forwarder holds a clone of the session's command sender.
Forwarding == forwarder \in {"check", "recv", "send"}

\* Somebody can still send to session s's writer.
HasSenders(s) == \/ s = session /\ (HasHandle \/ Forwarding)
                 \/ reader[s] = "run"

Init == /\ stop = FALSE
        /\ manager = "check"
        /\ session = 0
        /\ session_done = FALSE
        /\ consumer = TRUE
        /\ forwarder = "none"
        /\ carried = 0
        /\ reader = [s \in Session |-> "none"]
        /\ writer = [s \in Session |-> "none"]
        /\ frames = <<>>
        /\ queue = [s \in Session |-> <<>>]
        /\ cmds = <<>>
        /\ stream = <<>>
        /\ read = 0
        /\ sent = 0
        /\ written = [s \in Session |-> <<>>]
-----------------------------------------------------------------------------
(* Plausible mistakes in the code above, which the properties must detect. *)

\* A closed channel is taken for an empty one, and its frames are lost.
PumpEndsEarly == /\ HasHandle
                 /\ ReaderGone
                 /\ manager' = "end"
                 /\ UNCHANGED <<flags, session, forwarder, reader, writer, toDev, fromDev>>

\* TryRecvError::Empty leaves 'pump as Disconnected does.
EmptyIsClosed == /\ HasHandle
                 /\ frames = <<>>
                 /\ ReaderGone \/ manager = "drain"
                 /\ manager' = "end"
                 /\ UNCHANGED <<flags, session, forwarder, reader, writer, toDev, fromDev>>

\* 'pump does not look at stop.
ReceiveIgnoresStop ==
    /\ manager = "pump"
    /\ frames # <<>>
    /\ frames' = Tail(frames)
    /\ IF consumer THEN manager' = "drain" /\ stream' = Append(stream, Head(frames))
                   ELSE manager' = "end" /\ UNCHANGED stream
    /\ UNCHANGED <<flags, session, forwarder, reader, writer, toDev, read>>

\* The forwarder has no session_done flag.
ForwarderChecksStop ==
    /\ forwarder = "check"
    /\ forwarder' = IF stop THEN "done" ELSE "recv"
    /\ UNCHANGED <<flags, manager, session, reader, writer, toDev, fromDev>>

\* A command the writer did not take is queued again, behind the others.
ForwarderSendsBack ==
    /\ forwarder = "send"
    /\ carried' = 0
    /\ IF writer[session] = "run"
       THEN /\ forwarder' = "check"
            /\ queue' = [queue EXCEPT ![session] = Append(@, carried)]
            /\ UNCHANGED cmds
       ELSE forwarder' = "done" /\ cmds' = Append(cmds, carried) /\ UNCHANGED queue
    /\ UNCHANGED <<flags, manager, session, reader, writer, sent, written, fromDev>>

-----------------------------------------------------------------------------
(* The manager thread.                                                     *)

Goto(pc) == manager' = pc

\* The condition of supervisor_loop's while.
Check == /\ manager = "check"
         /\ Goto(IF stop THEN "stopped" ELSE "open")
         /\ UNCHANGED <<flags, session, forwarder, reader, writer, toDev, fromDev>>

\* factory.open() fails: back off and try again.
OpenFails == /\ manager = "open"
             /\ Goto("sleep")
             /\ UNCHANGED <<flags, session, forwarder, reader, writer, toDev, fromDev>>

\* factory.open() starts the device's threads; run_session starts a forwarder.
OpenSucceeds ==
    /\ manager = "open"
    /\ session < MaxSessions
    /\ session' = session + 1
    /\ reader' = [reader EXCEPT ![session'] = "run"]
    /\ writer' = [writer EXCEPT ![session'] = "run"]
    /\ forwarder' = "check"
    /\ session_done' = FALSE
    /\ frames' = <<>>
    /\ Goto("pump")
    /\ UNCHANGED <<stop, consumer, toDev, stream, read>>

\* sleep_interruptible returns.
Slept == /\ manager = "sleep"
         /\ Goto("check")
         /\ UNCHANGED <<flags, session, forwarder, reader, writer, toDev, fromDev>>

\* frames_tx.send: with the consumer gone the frame is lost and 'pump left.
PassOn == IF consumer THEN Goto("drain") /\ stream' = Append(stream, Head(frames))
                      ELSE Goto("end") /\ UNCHANGED stream

\* The blocking recv of 'pump returns a frame; stop is only looked at here.
Receive ==
    /\ manager = "pump"
    /\ frames # <<>>
    /\ frames' = Tail(frames)
    /\ IF stop THEN Goto("end") /\ UNCHANGED stream ELSE PassOn
    /\ UNCHANGED <<flags, session, forwarder, reader, writer, toDev, read>>

\* The inner loop: everything queued goes on before the next blocking recv.
Drain ==
    /\ manager = "drain"
    /\ frames # <<>>
    /\ frames' = Tail(frames)
    /\ PassOn
    /\ UNCHANGED <<flags, session, forwarder, reader, writer, toDev, read>>

\* try_recv finds the channel empty, with its sender still there.
Drained == /\ manager = "drain"
           /\ frames = <<>>
           /\ ~ReaderGone
           /\ Goto("pump")
           /\ UNCHANGED <<flags, session, forwarder, reader, writer, toDev, fromDev>>

\* recv or try_recv finds the channel empty and closed: the session is over.
PumpEnds == /\ HasHandle
            /\ frames = <<>>
            /\ ReaderGone
            /\ Goto("end")
            /\ UNCHANGED <<flags, session, forwarder, reader, writer, toDev, fromDev>>

\* session_done is set and the handle dropped, with its frames and its sender.
EndSession ==
    /\ manager = "end"
    /\ session_done' = TRUE
    /\ frames' = <<>>
    /\ Goto("join")
    /\ UNCHANGED <<stop, consumer, session, forwarder, reader, writer, toDev, stream, read>>

\* cmd_join.join() returns and the manager has cmd_rx again.
Joined == /\ manager = "join"
          /\ forwarder = "done"
          /\ forwarder' = "none"
          /\ Goto(IF stop THEN "stopped" ELSE "sleep")
          /\ UNCHANGED <<flags, session, reader, writer, toDev, fromDev>>
-----------------------------------------------------------------------------
(* The forwarder thread of the current session.                            *)

ForwarderChecks ==
    /\ forwarder = "check"
    /\ forwarder' = IF stop \/ session_done THEN "done" ELSE "recv"
    /\ UNCHANGED <<flags, manager, session, reader, writer, toDev, fromDev>>

\* recv_timeout returns a command.
ForwarderTakes ==
    /\ forwarder = "recv"
    /\ cmds # <<>>
    /\ carried' = Head(cmds)
    /\ cmds' = Tail(cmds)
    /\ forwarder' = "send"
    /\ UNCHANGED <<flags, manager, session, reader, writer, queue, sent, written, fromDev>>

\* recv_timeout times out after 250 ms.
ForwarderTimesOut ==
    /\ forwarder = "recv"
    /\ cmds = <<>>
    /\ forwarder' = "check"
    /\ UNCHANGED <<flags, manager, session, reader, writer, toDev, fromDev>>

\* device_sender.send_frame: with the writer gone the command is lost.
ForwarderSends ==
    /\ forwarder = "send"
    /\ carried' = 0
    /\ IF writer[session] = "run"
       THEN /\ forwarder' = "check"
            /\ queue' = [queue EXCEPT ![session] = Append(@, carried)]
       ELSE forwarder' = "done" /\ UNCHANGED queue
    /\ UNCHANGED <<flags, manager, session, reader, writer, cmds, sent, written, fromDev>>
-----------------------------------------------------------------------------
(* The reader and writer threads of session s.                             *)

\* reader_thread decodes a frame; it returns if the handle has been dropped.
Read(s) ==
    /\ reader[s] = "run"
    /\ IF s = session /\ HasHandle
       THEN /\ read < MaxFrames
            /\ read' = read + 1
            /\ frames' = Append(frames, read')
            /\ UNCHANGED reader
       ELSE reader' = [reader EXCEPT ![s] = "done"] /\ UNCHANGED <<read, frames>>
    /\ UNCHANGED <<flags, manager, session, forwarder, writer, toDev, stream>>

\* The decoder answers the device through the writer; the reader returns if
\* the writer has gone.
Answer(s) ==
    /\ reader[s] = "run"
    /\ IF writer[s] = "run"
       THEN /\ Len(queue[s]) < MaxQueue
            /\ queue' = [queue EXCEPT ![s] = Append(@, Reply)]
            /\ UNCHANGED reader
       ELSE reader' = [reader EXCEPT ![s] = "done"] /\ UNCHANGED queue
    /\ UNCHANGED <<flags, manager, session, forwarder, writer,
                   carried, cmds, sent, written, fromDev>>

\* End of file or a read error.
ReaderEnds(s) ==
    /\ reader[s] = "run"
    /\ reader' = [reader EXCEPT ![s] = "done"]
    /\ UNCHANGED <<flags, manager, session, forwarder, writer, toDev, fromDev>>

\* writer_thread takes a command; encode_frame may answer None: not written.
Write(s) ==
    /\ writer[s] = "run"
    /\ queue[s] # <<>>
    /\ queue' = [queue EXCEPT ![s] = Tail(@)]
    /\ \/ UNCHANGED written
       \/ /\ Head(queue[s]) # Reply
          /\ written' = [written EXCEPT ![s] = Append(@, Head(queue[s]))]
    /\ UNCHANGED <<flags, manager, session, forwarder, reader, writer,
                   carried, cmds, sent, fromDev>>

WriterGone(s) ==
    /\ writer[s] = "run"
    /\ writer' = [writer EXCEPT ![s] = "done"]
    /\ queue' = [queue EXCEPT ![s] = <<>>]
    /\ UNCHANGED <<flags, manager, session, forwarder, reader,
                   carried, cmds, sent, written, fromDev>>

\* Writing the init bytes, a command or a keepalive fails; the rest is lost.
WriterFails(s) == WriterGone(s)

\* recv finds the channel empty and every sender dropped.
WriterEnds(s) == queue[s] = <<>> /\ ~HasSenders(s) /\ WriterGone(s)
-----------------------------------------------------------------------------
(* The clients of the supervisor.                                          *)

\* FrameSender::send_frame on the stable channel.
Send == /\ sent < MaxCmds
        /\ sent' = sent + 1
        /\ cmds' = Append(cmds, sent')
        /\ UNCHANGED <<flags, manager, session, forwarder, reader, writer,
                       carried, queue, written, fromDev>>

\* shutdown, or the first statement of Drop.
Shutdown == /\ ~stop
            /\ stop' = TRUE
            /\ UNCHANGED <<session_done, consumer, manager, session, forwarder, reader,
                           writer, toDev, fromDev>>

\* The owner of frames_rx drops it: Bridge gives it to the pipeline thread,
\* which may end before the supervisor.
ConsumerLeaves ==
    /\ consumer
    /\ consumer' = FALSE
    /\ UNCHANGED <<stop, session_done, manager, session, forwarder, reader, writer,
                   toDev, fromDev>>
-----------------------------------------------------------------------------
Manager == \/ Check \/ OpenFails \/ OpenSucceeds \/ Slept \/ Receive \/ Drain
           \/ Drained \/ PumpEnds \/ EndSession \/ Joined

Forwarder == \/ ForwarderChecks \/ ForwarderTakes \/ ForwarderTimesOut
             \/ ForwarderSends

Next == \/ Manager
        \/ Forwarder
        \/ \E s \in Session : \/ Read(s) \/ Answer(s) \/ ReaderEnds(s)
                              \/ Write(s) \/ WriterFails(s) \/ WriterEnds(s)
        \/ Send
        \/ Shutdown
        \/ ConsumerLeaves

Spec == Init /\ [][Next]_vars

\* The supervisor's threads and the writers run; the device need never speak,
\* close or break, but it does not refuse to open for ever.
FairSpec == /\ Spec
            /\ WF_vars(Manager)
            /\ SF_vars(OpenSucceeds)
            /\ WF_vars(Forwarder)
            /\ \A s \in Session : WF_vars(Write(s) \/ WriterEnds(s))
-----------------------------------------------------------------------------
ThreadState == {"none", "run", "done"}

\* Every variable has its type: the states of the threads, and channels of
\* frames and commands that were really read and sent.
TypeOK ==
    /\ stop \in BOOLEAN /\ session_done \in BOOLEAN /\ consumer \in BOOLEAN
    /\ manager \in {"check", "open", "pump", "drain", "end", "join", "sleep", "stopped"}
    /\ session \in 0 .. MaxSessions
    /\ HasHandle => session > 0
    /\ forwarder \in {"none", "check", "recv", "send", "done"}
    /\ reader \in [Session -> ThreadState] /\ writer \in [Session -> ThreadState]
    /\ read \in 0 .. MaxFrames
    /\ frames \in Seq(1 .. read) /\ stream \in Seq(1 .. read)
    /\ sent \in 0 .. MaxCmds
    /\ carried \in 0 .. sent /\ cmds \in Seq(1 .. sent)
    /\ queue \in [Session -> Seq(0 .. sent)]
    /\ written \in [Session -> Seq(1 .. sent)]

FirstFrames(n) == [i \in 1 .. n |-> i]

\* The stable stream of the struct's comment ("clients of the supervisor see one
\* long-lived stream"): frames leave it in the order the device sent them,
\* each once, whatever sessions end in between; and while there is a consumer
\* and no shutdown none is lost, not even those queued when the device goes away.
StreamIsWhole ==
    /\ stream = FirstFrames(Len(stream))
    /\ ~stop /\ consumer => stream \o frames = FirstFrames(read)

\* The device is never read by the reader threads of two sessions, as long as
\* somebody consumes the frames.
OneReader == consumer => \A s, t \in Session :
    reader[s] = "run" /\ reader[t] = "run" => s = t

\* The commands of seq come in the order they were sent in.
Ordered(seq) == \A i, j \in 1 .. Len(seq) :
    i < j /\ seq[i] # Reply /\ seq[j] # Reply => seq[i] < seq[j]

\* What has been, or may still be, written to the device in session s.
Handed(s) == written[s] \o queue[s]

\* A command goes to at most one session, is written at most once, and after
\* every command sent before it that the same session was given; later
\* sessions are only given later commands, so a reconnect reorders nothing
\* in the channels.
CommandsInOrder ==
    /\ \A s \in Session : Ordered(Handed(s) \o <<carried>> \o cmds)
    /\ \A s, t \in Session : s < t => Ordered(Handed(s) \o Handed(t))

\* A session whose device has gone away ends for good: another one follows,
\* unless the supervisor stops, and no writer outlives its session's reader for
\* ever, so that no thread waits for one that waits for it (run_session's
\* comments: session_done and the dropped handle "let the writer thread exit").
Reconnects == \A s \in 1 .. MaxSessions - 1 :
    (session = s /\ reader[s] = "done") ~> (session > s \/ manager = "stopped")
WritersExit == \A s \in Session : reader[s] = "done" ~> writer[s] = "done"
SessionsEnd == Reconnects /\ WritersExit

\* The manager blocks in recv, which stop does not wake.
WaitsForDevice == HasHandle /\ frames = <<>> /\ reader[session] = "run"

\* After shutdown the next frame or the end of the session stops the manager,
\* and so does everything it waits for besides the device.
StopsAtNextEvent ==
    (stop /\ manager # "open" /\ manager # "drain" /\ ~WaitsForDevice)
        ~> manager = "stopped"

\* The comment in Drop: if the manager is stuck "we accept a brief tear-down
\* delay".  It does stop.
StopIsBrief == stop ~> manager = "stopped"
=============================================================================
