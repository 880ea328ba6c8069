-------------------------- MODULE SupervisorProofs --------------------------
(***************************************************************************)
(* Proofs about the supervisor, for any number of sessions, frames and     *)
(* commands.  The invariant that carries them says in which places of the  *)
(* manager the reader of the current session may still run, and that what  *)
(* the manager has put into the stable channel is followed, without a gap, *)
(* by what the session's channel holds.                                    *)
(***************************************************************************)
EXTENDS Supervisor, TLAPS

-----------------------------------------------------------------------------
(* The parts of the invariant.                                             *)

\* The conjuncts of TypeOK about threads, frames and commands.
Threads ==
    /\ stop \in BOOLEAN /\ session_done \in BOOLEAN /\ consumer \in BOOLEAN
    /\ manager \in {"check", "open", "pump", "drain", "end", "join", "sleep", "stopped"}
    /\ session \in 0 .. MaxSessions
    /\ HasHandle => session > 0
    /\ forwarder \in {"none", "check", "recv", "send", "done"}
    /\ reader \in [Session -> ThreadState] /\ writer \in [Session -> ThreadState]

FrameTypes ==
    /\ read \in 0 .. MaxFrames
    /\ frames \in Seq(1 .. read) /\ stream \in Seq(1 .. read)

CommandTypes ==
    /\ sent \in 0 .. MaxCmds
    /\ carried \in 0 .. sent /\ cmds \in Seq(1 .. sent)
    /\ queue \in [Session -> Seq(0 .. sent)]
    /\ written \in [Session -> Seq(1 .. sent)]

\* A forwarder only exists in a session, and carries a command when it sends.
Forwarders == /\ forwarder # "none" => session > 0
              /\ forwarder = "send" => carried > 0

\* While there is a consumer, only the current session's reader runs, and the
\* manager comes back to supervisor_loop only when it has ended or at stop.
Readers ==
    /\ \A s \in Session : s > session => reader[s] = "none"
    /\ consumer =>
          /\ \A s \in Session : s < session => reader[s] = "done"
          /\ manager \in {"check", "open", "sleep"} => ReaderGone
          /\ manager \in {"end", "join"} => ReaderGone \/ stop

\* The manager may have left a session before its end.
Leaving == ~consumer \/ (stop /\ manager \in {"end", "join", "stopped"})

\* Frame i of the stream is the i-th read; the channel holds the next ones.
Frames ==
    /\ \A i \in 1 .. Len(stream) : stream[i] = i
    /\ ~Leaving =>
          /\ Len(stream) + Len(frames) = read
          /\ \A i \in 1 .. Len(frames) : frames[i] = Len(stream) + i
          /\ HasHandle \/ frames = <<>>

IInv == Threads /\ FrameTypes /\ CommandTypes /\ Forwarders /\ Readers /\ Frames

LEMMA TypeParts == TypeOK <=> Threads /\ FrameTypes /\ CommandTypes
  BY DEF TypeOK, Threads, FrameTypes, CommandTypes
-----------------------------------------------------------------------------
(* Sequences over a set that grows.                                        *)

LEMMA SeqWidens ==
    ASSUME NEW S, NEW T, S \subseteq T, NEW f \in Seq(S)
    PROVE  f \in Seq(T)
  <1>1. \A i \in 1 .. Len(f) : f[i] \in T
        OBVIOUS
  <1> QED BY <1>1

LEMMA Appended ==
    ASSUME NEW S, NEW f \in Seq(S), NEW x \in S
    PROVE  /\ Append(f, x) \in Seq(S)
           /\ Len(Append(f, x)) = Len(f) + 1
           /\ \A i \in 1 .. Len(f) : Append(f, x)[i] = f[i]
           /\ Append(f, x)[Len(f) + 1] = x
  OBVIOUS

LEMMA Tailed ==
    ASSUME NEW S, NEW f \in Seq(S), f # <<>>
    PROVE  /\ Head(f) \in S /\ Head(f) = f[1]
           /\ Tail(f) \in Seq(S)
           /\ Len(f) \in Nat \ {0}
           /\ Len(Tail(f)) = Len(f) - 1
           /\ \A i \in 1 .. Len(f) - 1 : Tail(f)[i] = f[i + 1]
  OBVIOUS
-----------------------------------------------------------------------------
LEMMA InitIInv == Init => IInv
  <1> SUFFICES ASSUME Init PROVE IInv
      OBVIOUS
  <1> USE BoundsAreNaturals DEF Init
  <1>1. Threads
    <2>1. stop \in BOOLEAN /\ session_done \in BOOLEAN /\ consumer \in BOOLEAN
          BY Zenon
    <2>2. /\ reader \in [Session -> ThreadState] /\ writer \in [Session -> ThreadState]
          /\ manager = "check" /\ forwarder = "none" /\ session \in 0 .. MaxSessions
          BY DEF ThreadState
    <2> QED BY <2>1, <2>2 DEF Threads, HasHandle
  <1>2. FrameTypes
        BY DEF FrameTypes
  <1>3. CommandTypes
    <2>1. \A S : <<>> \in Seq(S)
          OBVIOUS
    <2>2. /\ queue \in [Session -> Seq(0 .. sent)]
          /\ written \in [Session -> Seq(1 .. sent)]
          BY <2>1
    <2> QED BY <2>1, <2>2 DEF CommandTypes
  <1>4. Forwarders /\ Readers /\ Frames
        BY DEF Forwarders, Readers, Frames, Leaving, ReaderGone, HasHandle, Session
  <1> QED BY <1>1, <1>2, <1>3, <1>4 DEF IInv

\* The flags and the states of the threads.
LEMMA ThreadsStep == IInv /\ [Next]_vars => Threads' /\ Readers'
  <1> SUFFICES ASSUME IInv, [Next]_vars PROVE Threads' /\ Readers'
      OBVIOUS
  <1> USE BoundsAreNaturals DEF IInv, Threads, Readers, HasHandle, ReaderGone, Session, Goto,
                                flags, toDev, fromDev, ThreadState, PassOn
  <1>1. CASE Check \/ OpenFails \/ Slept
        BY <1>1 DEF Check, OpenFails, Slept
  <1>2. CASE OpenSucceeds
    <2> DEFINE t == session + 1
    <2>1. /\ session \in Nat /\ t \in Session /\ session' = t
          /\ manager' = "pump" /\ forwarder' = "check" /\ session_done' = FALSE
          /\ stop' = stop /\ consumer' = consumer /\ (consumer => ReaderGone)
          /\ reader' = [reader EXCEPT ![t] = "run"]
          /\ writer' = [writer EXCEPT ![t] = "run"]
          BY <1>2 DEF OpenSucceeds
    <2>2. Threads'
      <3>1. stop' \in BOOLEAN /\ session_done' \in BOOLEAN /\ consumer' \in BOOLEAN
            BY <2>1, Zenon
      <3>2. reader' \in [Session -> ThreadState] /\ writer' \in [Session -> ThreadState]
            BY <2>1
      <3>3. session' \in 0 .. MaxSessions /\ session' > 0
            BY <2>1
      <3> QED BY <2>1, <3>1, <3>2, <3>3
    <2>3. consumer => \A s \in Session : s < t => reader'[s] = "done"
          BY <2>1
    <2>4. \A s \in Session : s > t => reader'[s] = "none"
          BY <2>1
    <2> QED BY <2>1, <2>2, <2>3, <2>4
  <1>3. CASE Receive \/ Drain \/ Drained
        BY <1>3 DEF Receive, Drain, Drained
  <1>4. CASE PumpEnds \/ EndSession \/ Joined
    <2>1. CASE PumpEnds
          BY <2>1 DEF PumpEnds
    <2>2. CASE EndSession
      <3>1. session_done' \in BOOLEAN /\ UNCHANGED <<stop, consumer, session, forwarder, reader, writer>>
            BY <2>2, Zenon DEF EndSession
      <3> QED BY <2>2, <3>1 DEF EndSession
    <2>3. CASE Joined
          BY <2>3 DEF Joined
    <2> QED BY <1>4, <2>1, <2>2, <2>3
  <1>5. CASE Forwarder
        BY <1>5 DEF Forwarder, ForwarderChecks, ForwarderTakes, ForwarderTimesOut,
                    ForwarderSends
  <1>6. ASSUME NEW s \in Session, Read(s) \/ Answer(s) \/ ReaderEnds(s)
        PROVE  Threads' /\ Readers'
        BY <1>6 DEF Read, Answer, ReaderEnds
  <1>7. ASSUME NEW s \in Session, Write(s) \/ WriterFails(s) \/ WriterEnds(s)
        PROVE  Threads' /\ Readers'
        BY <1>7 DEF Write, WriterFails, WriterEnds, WriterGone
  <1>8. CASE Send
        BY <1>8 DEF Send
  <1>9. CASE Shutdown \/ ConsumerLeaves
    <2>1. stop' \in BOOLEAN /\ session_done' = session_done /\ consumer' \in BOOLEAN
          BY <1>9, Zenon DEF Shutdown, ConsumerLeaves
    <2>2. /\ UNCHANGED <<manager, session, forwarder, reader, writer>>
          /\ consumer' => consumer
          /\ stop => stop'
          BY <1>9 DEF Shutdown, ConsumerLeaves
    <2>3. Threads'
          BY <2>1, <2>2
    <2> QED BY <2>2, <2>3
  <1>10. CASE UNCHANGED vars
        BY <1>10 DEF vars
  <1> QED BY <1>1, <1>2, <1>3, <1>4, <1>5, <1>6, <1>7, <1>8, <1>9, <1>10
          DEF Next, Manager

\* What is read from the device and handed to the stable channel.
LEMMA FramesStep == IInv /\ [Next]_vars => FrameTypes' /\ Frames'
  <1> SUFFICES ASSUME IInv, [Next]_vars PROVE FrameTypes' /\ Frames'
      OBVIOUS
  <1> USE BoundsAreNaturals DEF IInv, FrameTypes
  <1>0. ASSUME UNCHANGED fromDev,
               Leaving => Leaving',
               HasHandle /\ ~HasHandle' => frames = <<>>
        PROVE  FrameTypes' /\ Frames'
        BY <1>0 DEF fromDev, Frames
  <1>1. CASE Check \/ OpenFails \/ Slept \/ Drained \/ PumpEnds \/ Joined
        BY <1>1, <1>0 DEF Check, OpenFails, Slept, Drained, PumpEnds, Joined,
                          HasHandle, Leaving, Goto, flags
  <1>2. CASE OpenSucceeds
    <2>1. /\ ~HasHandle /\ frames' = <<>> /\ stream' = stream /\ read' = read
          /\ Leaving => Leaving'
          BY <1>2 DEF OpenSucceeds, Leaving, HasHandle
    <2>2. ~Leaving => frames = <<>>
          BY <2>1 DEF Frames
    <2> QED BY <2>1, <2>2 DEF Frames
  <1>3. CASE Receive \/ Drain
    <2>1. /\ Leaving = ~consumer /\ HasHandle /\ frames # <<>>
          /\ frames' = Tail(frames) /\ read' = read /\ stop' = stop
          BY <1>3 DEF Receive, Drain, Leaving, HasHandle, flags
    <2>2. /\ Head(frames) \in 1 .. read /\ Head(frames) = frames[1]
          /\ frames' \in Seq(1 .. read) /\ Len(frames) \in Nat \ {0}
          /\ Len(frames') = Len(frames) - 1
          /\ \A i \in 1 .. Len(frames) - 1 : frames'[i] = frames[i + 1]
          BY <2>1, Tailed
    <2>3. CASE stream' = stream /\ Leaving'
          BY <2>1, <2>2, <2>3 DEF Frames
    <2>4. CASE stream' = Append(stream, Head(frames)) /\ HasHandle' /\ ~Leaving
      <3>1. /\ stream' \in Seq(1 .. read) /\ Len(stream') = Len(stream) + 1
            /\ \A i \in 1 .. Len(stream) : stream'[i] = stream[i]
            /\ stream'[Len(stream) + 1] = Head(frames)
            BY <2>2, <2>4, Appended
      <3>2. /\ Len(stream) \in Nat /\ Len(stream) + Len(frames) = read
            /\ \A i \in 1 .. Len(stream) : stream[i] = i
            /\ \A i \in 1 .. Len(frames) : frames[i] = Len(stream) + i
            BY <2>4 DEF Frames
      <3> HIDE DEF FrameTypes, IInv
      <3>3. Head(frames) = Len(stream) + 1
            BY <2>2, <3>2
      <3>4. ASSUME NEW i \in 1 .. Len(stream') PROVE stream'[i] = i
        <4>1. i \in 1 .. Len(stream) \/ i = Len(stream) + 1
              BY <3>1, <3>2
        <4> QED BY <3>1, <3>2, <3>3, <4>1
      <3>5. ASSUME NEW i \in 1 .. Len(frames') PROVE frames'[i] = Len(stream') + i
        <4>1. i \in 1 .. Len(frames) - 1 /\ i + 1 \in 1 .. Len(frames)
              BY <2>2
        <4>2. frames'[i] = frames[i + 1] /\ frames[i + 1] = Len(stream) + (i + 1)
              BY <2>2, <3>2, <4>1
        <4> QED BY <3>1, <3>2, <4>2
      <3>6. Len(stream') + Len(frames') = read'
            BY <2>1, <2>2, <3>1, <3>2
      <3>7. FrameTypes'
            BY <2>1, <2>2, <3>1 DEF FrameTypes, IInv
      <3> QED BY <2>4, <3>4, <3>5, <3>6, <3>7 DEF Frames
    <2>5. \/ stream' = stream /\ Leaving'
          \/ stream' = Append(stream, Head(frames)) /\ HasHandle' /\ ~Leaving
          BY <1>3, <2>1 DEF Receive, Drain, PassOn, Leaving, HasHandle, Goto, flags
    <2> QED BY <2>3, <2>4, <2>5
  <1>4. CASE EndSession
    <2>1. /\ UNCHANGED <<stream, read, stop>> /\ frames' = <<>>
          /\ ~HasHandle /\ Leaving' = Leaving
          BY <1>4 DEF EndSession, HasHandle, Leaving, Goto
    <2>2. ~Leaving => frames = <<>>
          BY <2>1 DEF Frames
    <2> QED BY <2>1, <2>2 DEF Frames
  <1>5. CASE Forwarder \/ Send
        BY <1>5, <1>0 DEF Forwarder, ForwarderChecks, ForwarderTakes, ForwarderTimesOut,
                          ForwarderSends, Send, HasHandle, Leaving, flags
  <1>6. ASSUME NEW s \in Session, Read(s)
        PROVE  FrameTypes' /\ Frames'
    <2>1. CASE UNCHANGED fromDev
          BY <1>6, <2>1, <1>0 DEF Read, HasHandle, Leaving, flags
    <2>2. CASE /\ HasHandle /\ read < MaxFrames /\ read' = read + 1
               /\ frames' = Append(frames, read + 1)
      <3>1. stream' = stream /\ Leaving' = Leaving /\ HasHandle'
            BY <1>6, <2>2 DEF Read, Leaving, HasHandle, flags
      <3>2. frames \in Seq(1 .. (read + 1)) /\ stream' \in Seq(1 .. read')
            BY <2>2, <3>1, SeqWidens
      <3>3. /\ frames' \in Seq(1 .. read') /\ Len(frames') = Len(frames) + 1
            /\ \A i \in 1 .. Len(frames) : frames'[i] = frames[i]
            /\ frames'[Len(frames) + 1] = read + 1
            BY <2>2, <3>2, Appended
      <3>4. Len(frames) \in Nat /\ Len(stream) \in Nat
            OBVIOUS
      <3>5. ~Leaving => /\ Len(stream) + Len(frames) = read
                        /\ \A i \in 1 .. Len(frames) : frames[i] = Len(stream) + i
            BY <3>1 DEF Frames
      <3>6. ~Leaving => Len(stream') = Len(stream) /\ Len(stream') + Len(frames') = read'
        <4>1. Len(stream') = Len(stream)
              BY <3>1
        <4>2. Len(frames') = Len(frames) + 1 /\ read' = read + 1 /\ read \in Nat
              BY <2>2, <3>3
        <4> HIDE DEF IInv, FrameTypes
        <4> QED BY <3>4, <3>5, <4>1, <4>2
      <3>7. ASSUME ~Leaving, NEW i \in 1 .. Len(frames') PROVE frames'[i] = Len(stream') + i
        <4>1. i \in 1 .. Len(frames) \/ i = Len(frames) + 1
              BY <3>3, <3>4
        <4>2. Len(stream') = Len(stream)
              BY <3>6, <3>7
        <4>3. /\ Len(stream) + Len(frames) = read
              /\ \A j \in 1 .. Len(frames) : frames[j] = Len(stream) + j
              BY <3>5, <3>7
        <4> HIDE DEF IInv, FrameTypes
        <4>4. CASE i \in 1 .. Len(frames)
              BY <3>3, <4>2, <4>3, <4>4
        <4>5. CASE i = Len(frames) + 1
              BY <3>3, <3>4, <4>2, <4>3, <4>5
        <4> QED BY <4>1, <4>4, <4>5
      <3> QED BY <2>2, <3>1, <3>2, <3>3, <3>6, <3>7 DEF Frames
    <2> QED BY <1>6, <2>1, <2>2 DEF Read, fromDev
  <1>7. ASSUME NEW s \in Session,
               Answer(s) \/ ReaderEnds(s) \/ Write(s) \/ WriterFails(s) \/ WriterEnds(s)
        PROVE  FrameTypes' /\ Frames'
        BY <1>7, <1>0 DEF Answer, ReaderEnds, Write, WriterFails, WriterEnds, WriterGone,
                          HasHandle, Leaving, flags
  <1>8. CASE Shutdown \/ ConsumerLeaves
        BY <1>8, <1>0 DEF Shutdown, ConsumerLeaves, HasHandle, Leaving
  <1>9. CASE UNCHANGED vars
        BY <1>9, <1>0 DEF vars, HasHandle, Leaving, flags
  <1> QED BY <1>1, <1>2, <1>3, <1>4, <1>5, <1>6, <1>7, <1>8, <1>9
          DEF Next, Manager

\* The commands, and what the forwarder carries.
LEMMA CommandsStep == IInv /\ [Next]_vars => CommandTypes' /\ Forwarders'
  <1> SUFFICES ASSUME IInv, [Next]_vars PROVE CommandTypes' /\ Forwarders'
      OBVIOUS
  <1> DEFINE n == sent
  <1> USE BoundsAreNaturals DEF IInv, CommandTypes, Forwarders, Threads, HasHandle, Session
  <1>0. n \in Nat
        OBVIOUS
  <1>1. CASE Check \/ OpenFails \/ Slept \/ Receive \/ Drain \/ Drained \/ PumpEnds \/ EndSession
        BY <1>1 DEF Check, OpenFails, Slept, Receive, Drain, Drained, PumpEnds, EndSession,
                    flags, toDev
  <1>2. CASE OpenSucceeds \/ Joined
    <2>1. UNCHANGED toDev /\ forwarder' # "send" /\ (forwarder' = "none" \/ session' > 0)
          BY <1>2 DEF OpenSucceeds, Joined
    <2> QED BY <2>1 DEF toDev
  <1>3. CASE ForwarderChecks \/ ForwarderTimesOut
        BY <1>3 DEF ForwarderChecks, ForwarderTimesOut, flags, toDev
  <1>4. CASE ForwarderTakes
    <2>1. Head(cmds) \in 1 .. n /\ Tail(cmds) \in Seq(1 .. n)
          BY <1>4, Tailed DEF ForwarderTakes
    <2> QED BY <1>4, <2>1 DEF ForwarderTakes
  <1>5. CASE ForwarderSends
    <2>1. session \in Session /\ carried \in 0 .. n
          BY <1>5 DEF ForwarderSends
    <2>2. queue[session] \in Seq(0 .. n)
          BY <2>1
    <2>3. Append(queue[session], carried) \in Seq(0 .. n)
          BY <2>1, <2>2, Appended
    <2>4. CASE writer[session] = "run"
      <3>1. queue' = [queue EXCEPT ![session] = Append(queue[session], carried)]
            BY <1>5, <2>4 DEF ForwarderSends
      <3>2. queue' \in [Session -> Seq(0 .. n)]
            BY <2>3, <3>1
      <3>3. carried' = 0 /\ forwarder' = "check" /\ UNCHANGED <<cmds, sent, written, session>>
            BY <1>5, <2>4 DEF ForwarderSends
      <3> QED BY <2>1, <3>2, <3>3
    <2>5. CASE writer[session] # "run"
          BY <1>5, <2>1, <2>5, <1>0 DEF ForwarderSends
    <2> QED BY <2>4, <2>5
  <1>6. ASSUME NEW s \in Session, Read(s) \/ ReaderEnds(s)
        PROVE  CommandTypes' /\ Forwarders'
        BY <1>6 DEF Read, ReaderEnds, toDev
  <1>7. ASSUME NEW s \in Session, Answer(s)
        PROVE  CommandTypes' /\ Forwarders'
    <2>0. queue[s] \in Seq(0 .. n) /\ Reply \in 0 .. n
          BY <1>0 DEF Reply
    <2>1. Append(queue[s], Reply) \in Seq(0 .. n)
          BY <2>0, Appended
    <2> QED BY <1>7, <2>1 DEF Answer
  <1>8. ASSUME NEW s \in Session, Write(s)
        PROVE  CommandTypes' /\ Forwarders'
    <2>1. Head(queue[s]) \in 0 .. n /\ Tail(queue[s]) \in Seq(0 .. n)
          BY <1>8, Tailed DEF Write
    <2>2. ASSUME Head(queue[s]) # Reply
          PROVE  Append(written[s], Head(queue[s])) \in Seq(1 .. n)
      <3>1. Head(queue[s]) \in 1 .. n
            BY <2>1, <2>2, <1>0 DEF Reply
      <3>2. written[s] \in Seq(1 .. n)
            OBVIOUS
      <3> HIDE DEF n
      <3> QED BY <3>1, <3>2, Appended
    <2> QED BY <1>8, <2>1, <2>2 DEF Write
  <1>9. ASSUME NEW s \in Session, WriterFails(s) \/ WriterEnds(s)
        PROVE  CommandTypes' /\ Forwarders'
    <2>1. <<>> \in Seq(0 .. n)
          OBVIOUS
    <2> QED BY <1>9, <2>1 DEF WriterFails, WriterEnds, WriterGone
  <1>10. CASE Send
    <2>1. /\ n < MaxCmds /\ sent' = n + 1 /\ cmds' = Append(cmds, n + 1)
          /\ UNCHANGED <<queue, written, carried, forwarder, session>>
          BY <1>10 DEF Send
    <2>2. cmds \in Seq(1 .. (n + 1))
          BY <1>0, SeqWidens
    <2>3. cmds' \in Seq(1 .. (n + 1))
          BY <1>0, <2>1, <2>2, Appended
    <2>4. \A s \in Session : /\ queue[s] \in Seq(0 .. (n + 1))
                             /\ written[s] \in Seq(1 .. (n + 1))
      <3> SUFFICES ASSUME NEW s \in Session
                   PROVE  queue[s] \in Seq(0 .. (n + 1)) /\ written[s] \in Seq(1 .. (n + 1))
          OBVIOUS
      <3>1. queue[s] \in Seq(0 .. n) /\ written[s] \in Seq(1 .. n)
            OBVIOUS
      <3>2. 0 .. n \subseteq 0 .. (n + 1) /\ 1 .. n \subseteq 1 .. (n + 1)
            BY <1>0
      <3> QED BY <3>1, <3>2, SeqWidens
    <2>5. queue' \in [Session -> Seq(0 .. sent')] /\ written' \in [Session -> Seq(1 .. sent')]
          BY <2>1, <2>4
    <2> QED BY <1>0, <2>1, <2>3, <2>5
  <1>11. CASE Shutdown \/ ConsumerLeaves
        BY <1>11 DEF Shutdown, ConsumerLeaves, toDev
  <1>12. CASE UNCHANGED vars
        BY <1>12 DEF vars, toDev
  <1> QED BY <1>1, <1>2, <1>3, <1>4, <1>5, <1>6, <1>7, <1>8, <1>9, <1>10, <1>11, <1>12
          DEF Next, Manager, Forwarder

LEMMA StepIInv == IInv /\ [Next]_vars => IInv'
  BY ThreadsStep, FramesStep, CommandsStep DEF IInv

THEOREM Invariant == Spec => []IInv
  <1>1. Init => IInv
        BY InitIInv
  <1>2. IInv /\ [Next]_vars => IInv'
        BY StepIInv
  <1> QED BY <1>1, <1>2, PTL DEF Spec
-----------------------------------------------------------------------------
\* Every variable keeps its type: what the threads of any number of sessions
\* exchange are frames that were read and commands that were sent.
THEOREM SupervisorTypes == Spec => []TypeOK
  <1>1. IInv => TypeOK
        BY TypeParts DEF IInv
  <1> QED BY <1>1, Invariant, PTL

\* run_session returns only when the session's reader has ended, or to stop:
\* factory.open never meets the reader of an earlier session.
THEOREM OneSessionReads == Spec => []OneReader
  <1>1. IInv => OneReader
    <2> SUFFICES ASSUME IInv, NEW s \in Session, NEW t \in Session, consumer,
                        reader[s] = "run", reader[t] = "run"
                 PROVE  s = t
        BY DEF OneReader
    <2>1. s = session /\ t = session
          BY BoundsAreNaturals DEF IInv, Threads, Readers, Session
    <2> QED BY <2>1
  <1> QED BY <1>1, Invariant, PTL

\* What the manager pumps is one stream over all sessions, in order and each
\* frame once, and without loss until shutdown.
THEOREM StreamAcrossSessions == Spec => []StreamIsWhole
  <1>1. IInv => StreamIsWhole
    <2> SUFFICES ASSUME IInv PROVE StreamIsWhole
        OBVIOUS
    <2> DEFINE m == Len(stream)
    <2>1. /\ read \in Nat /\ stream \in Seq(1 .. read) /\ frames \in Seq(1 .. read)
          /\ m \in Nat /\ Len(frames) \in Nat
          BY BoundsAreNaturals DEF IInv, FrameTypes
    <2>2. \A i \in 1 .. m : stream[i] = i
          BY DEF IInv, Frames
    <2>3. stream = FirstFrames(m)
          BY <2>1, <2>2 DEF FirstFrames
    <2>4. ASSUME ~stop, consumer PROVE stream \o frames = FirstFrames(read)
      <3> DEFINE all == stream \o frames
      <3>1. m + Len(frames) = read /\ \A i \in 1 .. Len(frames) : frames[i] = m + i
            BY <2>4 DEF IInv, Frames, Leaving
      <3>2. /\ all \in Seq(1 .. read) /\ Len(all) = read
            /\ \A i \in 1 .. m : all[i] = stream[i]
            /\ \A i \in m + 1 .. read : all[i] = frames[i - m]
            BY <2>1, <3>1
      <3>3. ASSUME NEW i \in 1 .. read PROVE all[i] = i
        <4>1. CASE i \in 1 .. m
              BY <2>2, <3>2, <4>1
        <4>2. CASE i \in m + 1 .. read
          <5>1. i - m \in 1 .. Len(frames) /\ m + (i - m) = i
                BY <2>1, <3>1, <4>2
          <5> QED BY <3>1, <3>2, <4>2, <5>1
        <4>3. i \in 1 .. m \/ i \in m + 1 .. read
              BY <2>1
        <4> QED BY <4>1, <4>2, <4>3
      <3> HIDE DEF all
      <3>4. all = FirstFrames(read)
            BY <2>1, <3>2, <3>3 DEF FirstFrames
      <3> QED BY <3>4 DEF all
    <2> QED BY <2>3, <2>4 DEF StreamIsWhole
  <1> QED BY <1>1, Invariant, PTL
-----------------------------------------------------------------------------
(* The order of the commands.  Which commands a channel holds is a set; the *)
(* order within each is Ordered, and that between them a relation of sets.  *)

Vals(f) == {f[i] : i \in 1 .. Len(f)} \ {Reply}
AllBefore(A, B) == \A a \in A, b \in B : a < b
InHand == {carried} \ {Reply}
Given(s) == Vals(written[s]) \union Vals(queue[s])

\* What session s was given; and the commands still to be given to a session.
GivenInOrder(s) ==
    /\ Ordered(written[s]) /\ Ordered(queue[s])
    /\ AllBefore(Vals(written[s]), Vals(queue[s]))
    /\ AllBefore(Given(s), InHand) /\ AllBefore(Given(s), Vals(cmds))
WaitingInOrder == Ordered(cmds) /\ AllBefore(InHand, Vals(cmds))

Order ==
    /\ \A s \in Session : GivenInOrder(s)
    /\ WaitingInOrder
    /\ \A s, t \in Session : s < t => AllBefore(Given(s), Given(t))
    /\ \A s \in Session : s > session => Given(s) = {} /\ writer[s] = "none"

LEMMA InRange == ASSUME NEW S, NEW f \in Seq(S), NEW i \in 1 .. Len(f)
                 PROVE  f[i] \in S
  OBVIOUS

LEMMA EmptyOrder == Vals(<<>>) = {} /\ Ordered(<<>>)
  BY DEF Vals, Ordered

LEMMA AppendOrder ==
    ASSUME NEW n \in Nat, NEW f \in Seq(0 .. n), NEW x \in 0 .. n
    PROVE  /\ Vals(Append(f, x)) = Vals(f) \union ({x} \ {Reply})
           /\ Ordered(f) /\ AllBefore(Vals(f), {x} \ {Reply}) => Ordered(Append(f, x))
  <1> DEFINE g == Append(f, x)
  <1>1. /\ Len(g) = Len(f) + 1 /\ Len(f) \in Nat
        /\ \A i \in 1 .. Len(f) : g[i] = f[i]
        /\ g[Len(f) + 1] = x
        BY Appended
  <1> HIDE DEF g
  <1>2. \A i \in 1 .. Len(g) : i \in 1 .. Len(f) \/ i = Len(f) + 1
        BY <1>1
  <1>3. Vals(g) = Vals(f) \union ({x} \ {Reply})
        BY <1>1, <1>2 DEF Vals
  <1>4. ASSUME Ordered(f), AllBefore(Vals(f), {x} \ {Reply}),
               NEW i \in 1 .. Len(g), NEW j \in 1 .. Len(g), i < j, g[i] # Reply, g[j] # Reply
        PROVE  g[i] < g[j]
    <2>1. i \in 1 .. Len(f)
          BY <1>1, <1>4
    <2>2. CASE j \in 1 .. Len(f)
          BY <1>1, <1>4, <2>1, <2>2 DEF Ordered
    <2>3. CASE j = Len(f) + 1
          BY <1>1, <1>4, <2>1, <2>3 DEF AllBefore, Vals
    <2> QED BY <1>2, <2>2, <2>3
  <1> QED BY <1>3, <1>4 DEF Ordered, g

LEMMA TailOrder ==
    ASSUME NEW n \in Nat, NEW f \in Seq(0 .. n), f # <<>>
    PROVE  /\ Vals(f) = Vals(Tail(f)) \union ({Head(f)} \ {Reply})
           /\ Ordered(f) => /\ Ordered(Tail(f))
                            /\ AllBefore({Head(f)} \ {Reply}, Vals(Tail(f)))
  <1> DEFINE g == Tail(f)
  <1>1. /\ Head(f) = f[1] /\ Len(f) \in Nat \ {0} /\ Len(g) = Len(f) - 1
        /\ \A i \in 1 .. Len(f) - 1 : g[i] = f[i + 1]
        BY Tailed
  <1> HIDE DEF g
  <1>2. \A i \in 1 .. Len(g) : i + 1 \in 1 .. Len(f) /\ g[i] = f[i + 1] /\ 1 < i + 1
        BY <1>1
  <1>3. \A i \in 1 .. Len(f) : i = 1 \/ (i - 1 \in 1 .. Len(g) /\ f[i] = g[i - 1])
        BY <1>1
  <1>4. Vals(f) = Vals(g) \union ({Head(f)} \ {Reply})
    <2>1. Vals(g) \subseteq Vals(f)
          BY <1>2 DEF Vals
    <2>2. 1 \in 1 .. Len(f)
          BY <1>1
    <2> QED BY <1>1, <1>3, <2>1, <2>2 DEF Vals
  <1>5. ASSUME Ordered(f) PROVE Ordered(g)
    <2> SUFFICES ASSUME NEW i \in 1 .. Len(g), NEW j \in 1 .. Len(g), i < j, g[i] # Reply, g[j] # Reply
                 PROVE  g[i] < g[j]
        BY DEF Ordered
    <2>1. i + 1 \in 1 .. Len(f) /\ j + 1 \in 1 .. Len(f) /\ g[i] = f[i + 1] /\ g[j] = f[j + 1]
          BY <1>2
    <2>2. i + 1 < j + 1
          OBVIOUS
    <2> QED BY <1>5, <2>1, <2>2 DEF Ordered
  <1>6. ASSUME Ordered(f) PROVE AllBefore({Head(f)} \ {Reply}, Vals(g))
    <2>1. 1 \in 1 .. Len(f)
          BY <1>1
    <2>2. ASSUME NEW j \in 1 .. Len(g), f[1] # Reply, g[j] # Reply PROVE f[1] < g[j]
          BY <1>2, <1>6, <2>1, <2>2 DEF Ordered
    <2> QED BY <1>1, <2>2 DEF AllBefore, Vals
  <1> QED BY <1>4, <1>5, <1>6 DEF g

\* Two ordered sequences, the commands of one before those of the other.
LEMMA ConcatOrder ==
    ASSUME NEW n \in Nat, NEW f \in Seq(0 .. n), NEW g \in Seq(0 .. n),
           Ordered(f), Ordered(g), AllBefore(Vals(f), Vals(g))
    PROVE  f \o g \in Seq(0 .. n) /\ Ordered(f \o g) /\ Vals(f \o g) = Vals(f) \union Vals(g)
  <1> DEFINE h == f \o g
             m == Len(f)
  <1>1. /\ m \in Nat /\ Len(g) \in Nat /\ Len(h) = m + Len(g) /\ h \in Seq(0 .. n)
        /\ \A i \in 1 .. m : h[i] = f[i]
        /\ \A i \in 1 .. Len(h) : i > m => h[i] = g[i - m] /\ i - m \in 1 .. Len(g)
        OBVIOUS
  <1> HIDE DEF h, m
  <1>2. ASSUME NEW i \in 1 .. Len(h), NEW j \in 1 .. Len(h), i < j, h[i] # Reply, h[j] # Reply
        PROVE  h[i] < h[j]
    <2>1. CASE j <= m
      <3>1. i \in 1 .. Len(f) /\ j \in 1 .. Len(f)
            BY <1>1, <1>2, <2>1 DEF m
      <3> QED BY <1>1, <1>2, <3>1 DEF Ordered, m
    <2>2. CASE i > m
      <3>0. i \in Nat /\ j \in Nat /\ m \in Nat
            BY <1>1
      <3>1. i - m < j - m /\ j > m
            BY <3>0, <1>2, <2>2
      <3> QED BY <1>1, <1>2, <2>2, <3>1 DEF Ordered
    <2>3. CASE i <= m /\ j > m
      <3>1. i \in 1 .. Len(f)
            BY <1>1, <2>3 DEF m
      <3>2. h[i] \in Vals(f) /\ h[j] \in Vals(g)
            BY <1>1, <1>2, <2>3, <3>1 DEF Vals, m
      <3> QED BY <3>2 DEF AllBefore
    <2> QED BY <1>1, <2>1, <2>2, <2>3
  <1>3. Vals(h) = Vals(f) \union Vals(g)
    <2>1. \A i \in 1 .. Len(h) : i > m \/ i \in 1 .. Len(f)
          BY <1>1 DEF m
    <2>2. Vals(h) \subseteq Vals(f) \union Vals(g)
          BY <1>1, <2>1 DEF Vals, m
    <2>3. Vals(f) \subseteq Vals(h)
      <3>1. \A i \in 1 .. Len(f) : i \in 1 .. Len(h) /\ h[i] = f[i]
            BY <1>1 DEF m
      <3> QED BY <3>1 DEF Vals
    <2>4. Vals(g) \subseteq Vals(h)
      <3>1. \A i \in 1 .. Len(g) : m + i \in 1 .. Len(h) /\ h[m + i] = g[i]
        <4>1. \A i \in 1 .. Len(g) : m + i \in 1 .. Len(h) /\ m + i > m /\ (m + i) - m = i
              BY <1>1
        <4> QED BY <1>1, <4>1
      <3> QED BY <3>1 DEF Vals
    <2> QED BY <2>2, <2>3, <2>4
  <1> QED BY <1>1, <1>2, <1>3 DEF Ordered, h

LEMMA InitOrder == Init => Order
  <1> SUFFICES ASSUME Init PROVE Order
      OBVIOUS
  <1>1. InHand = {} /\ Vals(cmds) = {} /\ Ordered(cmds)
        BY EmptyOrder DEF Init, InHand, Reply
  <1>2. \A s \in Session : /\ Vals(written[s]) = {} /\ Vals(queue[s]) = {}
                           /\ Ordered(written[s]) /\ Ordered(queue[s]) /\ writer[s] = "none"
        BY EmptyOrder DEF Init
  <1> QED BY <1>1, <1>2 DEF Order, GivenInOrder, WaitingInOrder, Given, AllBefore

\* What sessions were given is in order, and what waits comes after it: when a
\* step gives no session anything, drops some, or takes the next command.
LEMMA OrderKept ==
    ASSUME Order,
           \A s \in Session : /\ Ordered(written'[s]) /\ Ordered(queue'[s])
                              /\ AllBefore(Vals(written'[s]), Vals(queue'[s]))
                              /\ Given(s)' \subseteq Given(s),
           Ordered(cmds'), AllBefore(InHand', Vals(cmds')),
           InHand' \subseteq InHand \union Vals(cmds), Vals(cmds') \subseteq Vals(cmds),
           session' >= session, session \in Int, session' \in Int,
           \A s \in Session : s > session' => writer'[s] = "none"
    PROVE  Order'
  <1>1. \A s \in Session : GivenInOrder(s)'
        BY DEF Order, GivenInOrder, AllBefore
  <1>2. \A s, t \in Session : s < t => AllBefore(Given(s), Given(t))'
        BY DEF Order, AllBefore
  <1>3. \A s \in Session : s > session' => Given(s)' = {}
        BY DEF Order, Session
  <1> QED BY <1>1, <1>2, <1>3 DEF Order, WaitingInOrder

LEMMA OrderStep == IInv /\ Order /\ [Next]_vars => Order'
  <1> SUFFICES ASSUME IInv, Order, [Next]_vars PROVE Order'
      OBVIOUS
  <1> DEFINE n == sent
  <1>0. /\ n \in Nat /\ session \in Nat /\ carried \in 0 .. n /\ cmds \in Seq(1 .. n)
        /\ \A s \in Session : queue[s] \in Seq(0 .. n) /\ written[s] \in Seq(1 .. n)
        BY BoundsAreNaturals DEF IInv, CommandTypes, Threads
  <1>00. /\ cmds \in Seq(0 .. n)
         /\ \A s \in Session : written[s] \in Seq(0 .. n)
    <2>1. 1 .. n \subseteq 0 .. n
          BY <1>0
    <2> QED BY <1>0, <2>1, SeqWidens
  <1>a. \A s \in Session : /\ Ordered(written[s]) /\ Ordered(queue[s])
                           /\ AllBefore(Vals(written[s]), Vals(queue[s]))
        BY DEF Order, GivenInOrder
  <1>b. Ordered(cmds) /\ AllBefore(InHand, Vals(cmds))
        BY DEF Order, WaitingInOrder
  <1>c. \A s \in Session : s > session => writer[s] = "none"
        BY DEF Order
  <1>1. CASE UNCHANGED toDev /\ session' = session /\ writer' = writer
    <2>1. UNCHANGED <<carried, queue, cmds, written>>
          BY <1>1 DEF toDev
    <2>2. InHand' = InHand /\ \A s \in Session : Given(s)' = Given(s)
          BY <2>1 DEF InHand, Given
    <2> QED BY <1>1, <1>0, <1>a, <1>b, <1>c, <2>1, <2>2, OrderKept
  <1>2. CASE OpenSucceeds
    <2>1. /\ UNCHANGED <<carried, queue, cmds, written>> /\ session' = session + 1
          /\ writer' = [writer EXCEPT ![session + 1] = "run"]
          BY <1>2 DEF OpenSucceeds, toDev
    <2>2. InHand' = InHand /\ \A s \in Session : Given(s)' = Given(s)
          BY <2>1 DEF InHand, Given
    <2>3. ASSUME NEW s \in Session, s > session' PROVE writer'[s] = "none"
      <3>1. s # session + 1 /\ s > session
            BY <1>0, <2>1, <2>3 DEF Session
      <3> QED BY <1>c, <2>1, <3>1 DEF IInv, Threads
    <2> QED BY <1>0, <1>a, <1>b, <2>1, <2>2, <2>3, OrderKept
  <1>3. CASE ForwarderTakes
    <2>1. /\ UNCHANGED <<queue, written, session, writer>> /\ cmds # <<>>
          /\ carried' = Head(cmds) /\ cmds' = Tail(cmds)
          BY <1>3 DEF ForwarderTakes
    <2>2. /\ Vals(cmds) = Vals(cmds') \union InHand' /\ Ordered(cmds')
          /\ AllBefore(InHand', Vals(cmds'))
          BY <1>0, <1>00, <1>b, <2>1, TailOrder DEF InHand
    <2>3. \A s \in Session : Given(s)' = Given(s)
          BY <2>1 DEF Given
    <2> QED BY <1>0, <1>a, <1>c, <2>1, <2>2, <2>3, OrderKept
  <1>4. CASE ForwarderSends
    <2>1. /\ UNCHANGED <<written, cmds, session, writer>> /\ carried' = 0
          /\ forwarder = "send"
          BY <1>4 DEF ForwarderSends
    <2>2. InHand' = {}
          BY <2>1 DEF InHand, Reply
    <2>3. CASE queue' = queue
      <3>1. \A s \in Session : Given(s)' = Given(s)
            BY <2>1, <2>3 DEF Given
      <3> QED BY <1>0, <1>a, <1>b, <1>c, <2>1, <2>2, <2>3, <3>1, OrderKept DEF AllBefore
    <2>4. CASE queue' = [queue EXCEPT ![session] = Append(queue[session], carried)]
      \* The command in hand comes after all that the session was given, and no
      \* later session was given any.
      <3>1. session \in Session
            BY <2>1, BoundsAreNaturals DEF IInv, Forwarders, Threads, Session
      <3>2. AllBefore(Given(session), InHand)
            BY <3>1 DEF Order, GivenInOrder
      <3>3. AllBefore(Vals(queue[session]), {carried} \ {Reply})
            BY <3>2 DEF Given, InHand, AllBefore
      <3>4. /\ Vals(Append(queue[session], carried)) = Vals(queue[session]) \union InHand
            /\ Ordered(Append(queue[session], carried))
            BY <1>0, <1>a, <3>1, <3>3, AppendOrder DEF InHand
      <3>5. /\ queue'[session] = Append(queue[session], carried)
            /\ \A s \in Session : s # session => queue'[s] = queue[s]
            BY <2>4, <3>1 DEF IInv, CommandTypes
      <3>6. /\ Given(session)' = Given(session) \union InHand
            /\ \A s \in Session : s # session => Given(s)' = Given(s)
            BY <2>1, <3>4, <3>5 DEF Given
      <3>7. ASSUME NEW s \in Session PROVE GivenInOrder(s)'
        <4>1. CASE s = session
          <5>1. AllBefore(Vals(written[s]), Vals(queue[s]) \union InHand)
                BY <1>a, <3>2, <4>1 DEF AllBefore, Given
          <5>2. AllBefore(Given(s) \union InHand, Vals(cmds))
                BY <1>b DEF Order, GivenInOrder, AllBefore
          <5> QED BY <1>a, <2>1, <2>2, <3>4, <3>5, <3>6, <4>1, <5>1, <5>2
                  DEF GivenInOrder, AllBefore
        <4>2. CASE s # session
          <5>1. AllBefore(Given(s), Vals(cmds))
                BY DEF Order, GivenInOrder
          <5> QED BY <1>a, <2>1, <2>2, <3>5, <3>6, <4>2, <5>1 DEF GivenInOrder, AllBefore
        <4> QED BY <4>1, <4>2
      <3>8. ASSUME NEW s \in Session, NEW t \in Session, s < t
            PROVE  AllBefore(Given(s), Given(t))'
        <4>1. AllBefore(Given(s), Given(t)) /\ AllBefore(Given(s), InHand)
              BY <3>8 DEF Order, GivenInOrder
        <4>2. s = session => Given(t) = {}
              BY <3>8 DEF Order
        <4>3. s = session => t # session
              BY <3>8 DEF Session
        <4>4. CASE s = session
          <5>1. Given(t)' = {}
                BY <3>6, <4>2, <4>3, <4>4
          <5> QED BY <5>1 DEF AllBefore
        <4>5. CASE s # session
          <5>0. session \in Session
                BY <3>1
          <5>1. Given(s)' = Given(s) /\ Given(t)' \subseteq Given(t) \union InHand
            <6>1. CASE t = session
                  BY <2>1, <3>4, <3>5, <3>6, <4>5, <5>0, <6>1 DEF Given
            <6>2. CASE t # session
                  BY <3>6, <4>5, <5>0, <6>2
            <6> QED BY <6>1, <6>2
          <5> QED BY <4>1, <5>1 DEF AllBefore
        <4> QED BY <4>4, <4>5
      <3>9. \A s \in Session : s > session => Given(s)' = {} /\ writer[s] = "none"
            BY <3>6, <1>0 DEF Order, Session
      <3> QED BY <1>b, <2>1, <2>2, <3>7, <3>8, <3>9 DEF Order, WaitingInOrder, AllBefore
    <2> QED BY <1>4, <2>3, <2>4 DEF ForwarderSends
  <1>5. ASSUME NEW s \in Session, Answer(s) PROVE Order'
    <2>1. /\ UNCHANGED <<written, cmds, carried, session, writer>>
          /\ queue' = queue \/ queue' = [queue EXCEPT ![s] = Append(queue[s], Reply)]
          BY <1>5 DEF Answer
    <2>2. Reply \in 0 .. n /\ {Reply} \ {Reply} = {}
          BY <1>0 DEF Reply
    <2>3. Ordered(Append(queue[s], Reply)) /\ Vals(Append(queue[s], Reply)) = Vals(queue[s])
      <3>1. n \in Nat /\ queue[s] \in Seq(0 .. n) /\ Ordered(queue[s])
            BY <1>0, <1>a
      <3>2. AllBefore(Vals(queue[s]), {Reply} \ {Reply})
            BY DEF AllBefore
      <3> HIDE DEF n
      <3>3. /\ Vals(Append(queue[s], Reply)) = Vals(queue[s]) \union ({Reply} \ {Reply})
            /\ Ordered(Append(queue[s], Reply))
            BY <2>2, <3>1, <3>2, AppendOrder
      <3> QED BY <2>2, <3>3
    <2>4. \A t \in Session : Ordered(queue'[t]) /\ Vals(queue'[t]) = Vals(queue[t])
          BY <1>a, <2>1, <2>3 DEF IInv, CommandTypes
    <2>5. InHand' = InHand /\ \A t \in Session : Given(t)' = Given(t)
          BY <2>1, <2>4 DEF InHand, Given
    <2> QED BY <1>0, <1>a, <1>b, <1>c, <2>1, <2>4, <2>5, OrderKept
  <1>6. ASSUME NEW s \in Session, Write(s) PROVE Order'
    <2> DEFINE h == Head(queue[s])
    <2>1. /\ UNCHANGED <<cmds, carried, session, writer>> /\ queue[s] # <<>>
          /\ queue' = [queue EXCEPT ![s] = Tail(queue[s])]
          /\ \/ written' = written
             \/ h # Reply /\ written' = [written EXCEPT ![s] = Append(written[s], h)]
          BY <1>6 DEF Write
    <2>2. /\ Vals(queue[s]) = Vals(Tail(queue[s])) \union ({h} \ {Reply})
          /\ Ordered(Tail(queue[s])) /\ AllBefore({h} \ {Reply}, Vals(Tail(queue[s])))
          BY <1>0, <1>a, <2>1, TailOrder
    <2>3. /\ queue'[s] = Tail(queue[s])
          /\ \A t \in Session \ {s} : queue'[t] = queue[t] /\ written'[t] = written[t]
          BY <2>1 DEF IInv, CommandTypes
    <2>4. /\ Ordered(written'[s]) /\ Vals(written'[s]) \subseteq Vals(written[s]) \union ({h} \ {Reply})
      <3>1. CASE written' = written
            BY <1>a, <3>1
      <3>2. CASE h # Reply /\ written' = [written EXCEPT ![s] = Append(written[s], h)]
        <4>1. written'[s] = Append(written[s], h)
              BY <3>2 DEF IInv, CommandTypes
        <4>2. h \in 0 .. n
              BY <1>0, <2>1, Tailed
        <4>3. AllBefore(Vals(written[s]), {h} \ {Reply})
              BY <1>a, <2>2 DEF AllBefore
        <4>4. n \in Nat /\ written[s] \in Seq(0 .. n) /\ Ordered(written[s])
              BY <1>00, <1>0, <1>a
        <4> HIDE DEF n, h
        <4> QED BY <4>1, <4>2, <4>3, <4>4, AppendOrder
      <3> QED BY <2>1, <3>1, <3>2
    <2>5. AllBefore(Vals(written'[s]), Vals(queue'[s]))
          BY <1>a, <2>2, <2>3, <2>4 DEF AllBefore
    <2>6. Given(s)' \subseteq Given(s) /\ \A t \in Session \ {s} : Given(t)' = Given(t)
          BY <2>2, <2>3, <2>4 DEF Given
    <2>7. InHand' = InHand
          BY <2>1 DEF InHand
    <2> QED BY <1>0, <1>a, <1>b, <1>c, <2>1, <2>2, <2>3, <2>4, <2>5, <2>6, <2>7, OrderKept
  <1>7. ASSUME NEW s \in Session, WriterGone(s) PROVE Order'
    <2>1. /\ UNCHANGED <<written, cmds, carried, session>>
          /\ writer[s] = "run" /\ writer' = [writer EXCEPT ![s] = "done"]
          /\ queue' = [queue EXCEPT ![s] = <<>>]
          BY <1>7 DEF WriterGone
    <2>2. \A t \in Session : queue'[t] = (IF t = s THEN <<>> ELSE queue[t])
          BY <2>1 DEF IInv, CommandTypes
    <2>3. \A t \in Session : t > session => writer'[t] = "none"
          BY <1>c, <2>1 DEF IInv, Threads
    <2>4. \A t \in Session : Ordered(queue'[t]) /\ Vals(queue'[t]) \subseteq Vals(queue[t])
          BY <1>a, <2>2, EmptyOrder
    <2>5. InHand' = InHand /\ \A t \in Session : Given(t)' \subseteq Given(t)
          BY <2>1, <2>4 DEF InHand, Given
    <2>6. \A t \in Session : AllBefore(Vals(written'[t]), Vals(queue'[t]))
          BY <1>a, <2>1, <2>4 DEF AllBefore
    <2> QED BY <1>0, <1>a, <1>b, <2>1, <2>3, <2>4, <2>5, <2>6, OrderKept
  <1>8. CASE Send
    <2>1. /\ UNCHANGED <<written, queue, carried, session, writer>>
          /\ cmds' = Append(cmds, n + 1)
          BY <1>8 DEF Send
    <2>2. /\ \A x \in Vals(cmds) : x < n + 1
          /\ \A x \in InHand : x < n + 1
          /\ \A s \in Session : \A x \in Given(s) : x < n + 1
      <3>1. \A f \in Seq(0 .. n) : \A x \in Vals(f) : x < n + 1
        <4>1. \A f \in Seq(0 .. n) : \A i \in 1 .. Len(f) : f[i] \in 0 .. n
              BY InRange
        <4> QED BY <1>0, <4>1 DEF Vals
      <3> QED BY <1>0, <1>00, <3>1 DEF InHand, Given
    <2>3. cmds \in Seq(0 .. (n + 1)) /\ n + 1 \in 0 .. (n + 1) /\ n + 1 \in Nat /\ n + 1 # Reply
      <3>1. 0 .. n \subseteq 0 .. (n + 1)
            BY <1>0
      <3> QED BY <1>0, <1>00, <3>1, SeqWidens DEF Reply
    <2>4. Vals(cmds') = Vals(cmds) \union {n + 1} /\ Ordered(cmds')
      <3>1. AllBefore(Vals(cmds), {n + 1} \ {Reply})
            BY <2>2 DEF AllBefore
      <3> QED BY <1>b, <2>1, <2>3, <3>1, AppendOrder
    <2>5. InHand' = InHand /\ \A s \in Session : Given(s)' = Given(s)
          BY <2>1 DEF InHand, Given
    <2>6. \A s \in Session : GivenInOrder(s)'
          BY <2>1, <2>2, <2>4, <2>5 DEF Order, GivenInOrder, AllBefore
    <2>7. WaitingInOrder'
          BY <1>b, <2>2, <2>4, <2>5 DEF WaitingInOrder, AllBefore
    <2> QED BY <2>1, <2>5, <2>6, <2>7 DEF Order
  <1>9. CASE UNCHANGED vars
        BY <1>1, <1>9 DEF vars
  <1>10. ASSUME NEW s \in Session, Read(s) \/ ReaderEnds(s) PROVE Order'
        BY <1>1, <1>10 DEF Read, ReaderEnds
  <1>11. CASE Shutdown \/ ConsumerLeaves \/ ForwarderChecks \/ ForwarderTimesOut
        BY <1>1, <1>11 DEF Shutdown, ConsumerLeaves, ForwarderChecks, ForwarderTimesOut
  <1>12. CASE Manager
        BY <1>1, <1>2, <1>12 DEF Manager, Check, OpenFails, Slept, Receive, Drain, Drained,
                                 PumpEnds, EndSession, Joined
  <1> QED BY <1>3, <1>4, <1>5, <1>6, <1>7, <1>8, <1>9, <1>10, <1>11, <1>12
          DEF Next, Forwarder, WriterFails, WriterEnds

\* Through the stable channel, the forwarders and the channels of the sessions
\* every command keeps its place: it goes to one session at most, is written
\* once at most, and a reconnect reorders nothing (forward_commands,
\* run_session).
THEOREM CommandsKeepTheirOrder == Spec => []CommandsInOrder
  <1>1. IInv /\ Order => CommandsInOrder
    <2> SUFFICES ASSUME IInv, Order PROVE CommandsInOrder
        OBVIOUS
    <2> DEFINE n == sent
    <2>1. /\ n \in Nat /\ carried \in 0 .. n /\ cmds \in Seq(0 .. n) /\ <<carried>> \in Seq(0 .. n)
          /\ \A s \in Session : queue[s] \in Seq(0 .. n) /\ written[s] \in Seq(0 .. n)
      <3>1. n \in Nat /\ 1 .. n \subseteq 0 .. n
            BY BoundsAreNaturals DEF IInv, CommandTypes
      <3>2. /\ cmds \in Seq(1 .. n) /\ carried \in 0 .. n
            /\ \A s \in Session : written[s] \in Seq(1 .. n) /\ queue[s] \in Seq(0 .. n)
            BY DEF IInv, CommandTypes
      <3> QED BY <3>1, <3>2, SeqWidens
    <2>2. Ordered(<<carried>>) /\ Vals(<<carried>>) = InHand
          BY DEF Ordered, Vals, InHand
    <2>3. \A s \in Session : /\ Handed(s) \in Seq(0 .. n) /\ Ordered(Handed(s))
                             /\ Vals(Handed(s)) = Given(s)
      <3> SUFFICES ASSUME NEW s \in Session
                   PROVE  Handed(s) \in Seq(0 .. n) /\ Ordered(Handed(s)) /\ Vals(Handed(s)) = Given(s)
          OBVIOUS
      <3>1. /\ Ordered(written[s]) /\ Ordered(queue[s])
            /\ AllBefore(Vals(written[s]), Vals(queue[s]))
            BY DEF Order, GivenInOrder
      <3>2. n \in Nat /\ written[s] \in Seq(0 .. n) /\ queue[s] \in Seq(0 .. n)
            BY <2>1
      <3> HIDE DEF n
      <3> QED BY <3>1, <3>2, ConcatOrder DEF Handed, Given
    <2>4. ASSUME NEW s \in Session
          PROVE  Ordered(Handed(s) \o <<carried>> \o cmds)
      <3>1. AllBefore(Given(s), InHand) /\ AllBefore(Given(s), Vals(cmds))
            BY DEF Order, GivenInOrder
      <3>2. AllBefore(InHand, Vals(cmds)) /\ Ordered(cmds)
            BY DEF Order, WaitingInOrder
      <3>3. /\ Handed(s) \o <<carried>> \in Seq(0 .. n) /\ Ordered(Handed(s) \o <<carried>>)
            /\ Vals(Handed(s) \o <<carried>>) = Given(s) \union InHand
        <4>1. /\ n \in Nat /\ Handed(s) \in Seq(0 .. n) /\ <<carried>> \in Seq(0 .. n)
              /\ Ordered(Handed(s)) /\ Ordered(<<carried>>)
              /\ Vals(Handed(s)) = Given(s) /\ Vals(<<carried>>) = InHand
              BY <2>1, <2>2, <2>3
        <4>2. AllBefore(Vals(Handed(s)), Vals(<<carried>>))
              BY <3>1, <4>1
        <4> HIDE DEF n
        <4> QED BY <4>1, <4>2, ConcatOrder
      <3>4. AllBefore(Vals(Handed(s) \o <<carried>>), Vals(cmds))
            BY <3>1, <3>2, <3>3 DEF AllBefore
      <3> QED BY <2>1, <3>2, <3>3, <3>4, ConcatOrder
    <2>5. ASSUME NEW s \in Session, NEW t \in Session, s < t
          PROVE  Ordered(Handed(s) \o Handed(t))
      <3>1. AllBefore(Vals(Handed(s)), Vals(Handed(t)))
            BY <2>3, <2>5 DEF Order
      <3> QED BY <2>1, <2>3, <3>1, ConcatOrder
    <2> QED BY <2>4, <2>5 DEF CommandsInOrder
  <1>2. IInv /\ Order /\ [Next]_vars => (IInv /\ Order)'
        BY StepIInv, OrderStep
  <1>3. Init => IInv /\ Order
        BY InitIInv, InitOrder
  <1> QED BY <1>1, <1>2, <1>3, PTL DEF Spec
=============
