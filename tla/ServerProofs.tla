---------------------------- MODULE ServerProofs ----------------------------
(***************************************************************************)
(* Proofs about the parts of the server, for any devices, addresses,       *)
(* records, spacings and intervals.  A behaviour is of one part, and a     *)
(* step of the server is one of that part (Steps): so what a part's own    *)
(* steps preserve holds of the server wherever the part is the one.        *)
(***************************************************************************)
EXTENDS DecoderProofs, FiniteSetTheorems, SequenceTheorems, WellFoundedInduction, TLAPS

\* A step of the server is one of the part it is a behaviour of, or leaves that
\* part's variables alone.
LEMMA Steps ==
    ASSUME [Next]_vars
    PROVE  /\ part' = part
           /\ part = "overrides" => [Ov!Next]_Ov!vars
           /\ part = "requests" => [Re!Next]_Re!reVars
           /\ part = "nmea0183" => [Nm!Next]_Nm!nVars
           /\ part = "pipeline" => [Pl!Next]_Pl!plVars
           /\ part = "bridge" => [Br!Next]_Br!brVars
           /\ part = "isotp" => [Is!Next]_Is!vars
           /\ part = "ikonvert" => [Ik!Next]_Ik!vars
           /\ part = "snapshot" => [Sn!Next]_Sn!snVars
           /\ part = "tui" => [Tu!Next]_Tu!tuiVars
           /\ part = "quirks" => [Qu!Next]_Qu!vars
           /\ part = "ngt1" => [Ng!Next]_Ng!vars
           /\ part = "maretron" => [Ma!Next]_Ma!vars
  <1>1. CASE UNCHANGED vars
    <2>1. UNCHANGED <<part, both, ovOnly, since, reOnly, nmOnly, plOnly, brOnly, snOnly, tuOnly, isOnly, ikOnly, quOnly,
                ngOnly, maOnly>>
      BY <1>1 DEF vars
    <2>2. UNCHANGED Ov!vars
      BY <2>1 DEF both, ovOnly, Ov!vars, Ov!store, Ov!devs, Ov!air, Ov!budget
    <2>3. UNCHANGED Re!reVars
      BY <2>1 DEF reOnly, Re!reVars, Re!noted, Re!thread
    <2>4. UNCHANGED Nm!nVars
      BY <2>1 DEF both, nmOnly, Nm!nVars, Nm!filter, Nm!limiter, Nm!wish
    <2>5. UNCHANGED Pl!plVars
      BY <2>1 DEF plOnly, Pl!plVars, Pl!hubs, Pl!clients
    <2>6. UNCHANGED Br!brVars
      BY <2>1 DEF brOnly, Br!brVars, Br!own, Br!ports, Br!flow
    <2>7. UNCHANGED Is!vars
      BY <2>1 DEF isOnly, Is!vars
    <2>8. UNCHANGED Ik!vars
      BY <2>1 DEF ikOnly, Ik!vars, Ik!host, Ik!line, Ik!gadget, Ik!counters
    <2>9. UNCHANGED Tu!tuiVars
      BY <2>1 DEF tuOnly, Tu!tuiVars
    <2>10. UNCHANGED Sn!snVars
      BY <2>1 DEF snOnly, Sn!snVars
    <2>11. UNCHANGED Qu!vars
      BY <2>1 DEF quOnly, Qu!vars
    <2>12. UNCHANGED Ng!vars
      BY <2>1 DEF ngOnly, Ng!vars
    <2>13. UNCHANGED Ma!vars
      BY <2>1 DEF maOnly, Ma!vars
    <2>14. QED
      BY <2>1, <2>2, <2>3, <2>4, <2>5, <2>6, <2>7, <2>8, <2>9, <2>10, <2>11, <2>12, <2>13
  <1>2. CASE Next
    BY <1>2 DEF Next, OvStep, ReStep, NmStep, PlStep, BrStep, SnStep, TuStep, IsStep, IkStep, QuStep,
              NgStep, MaStep
  <1>3. QED
    BY <1>1, <1>2

\* A behaviour begins as one of its part.
LEMMA Begins ==
    ASSUME Init
    PROVE  /\ part = "overrides" => Ov!Init
           /\ part = "requests" => Re!Init
           /\ part = "nmea0183" => Nm!Init
           /\ part = "pipeline" => Pl!Init
           /\ part = "bridge" => Br!Init
           /\ part = "isotp" => Is!Init
           /\ part = "ikonvert" => Ik!Init
           /\ part = "snapshot" => Sn!Init
           /\ part = "tui" => Tu!Init
           /\ part = "quirks" => Qu!Init
           /\ part = "ngt1" => Ng!Init
           /\ part = "maretron" => Ma!Init
  BY DEF Init

-----------------------------------------------------------------------------
(* The bridge.  In whichever order it is served, spawned, waited for,      *)
(* shut down and dropped, and whichever ports other processes hold.        *)

\* Once the accept loops have been told to stop the supervisor has been joined;
\* while a call joins them nobody restarts it; and a bridge not yet built has
\* started nothing.
WorkerFirst ==
    /\ serve_stop \in BOOLEAN
    /\ serve_stop \/ call = "accepts" => worker \in {"none", "ended"}
    /\ call = "accepts" => serve_stop
    /\ bridge = "none" => call = "free" /\ ~serve_stop

BridgeInv == Br!TypeOK /\ WorkerFirst

\* Nothing that was started is left when a shutdown has returned.
NothingLeft ==
    call = "free" /\ serve_stop /\ joins = {} => serving = {} /\ worker \in {"none", "ended"}

LEMMA BridgeInit == Br!Init => BridgeInv
  BY DEF Br!Init, BridgeInv, Br!TypeOK, WorkerFirst

-----------------------------------------------------------------------------
(* One lemma for the methods, one for a blocked call, one for the threads.  *)

LEMMA BridgeMethods ==
    ASSUME BridgeInv, Br!New \/ Br!Serve \/ Br!Spawn \/ Br!ShutdownCall \/ Br!Drop \/ Br!Wait \/ Br!Run
    PROVE  BridgeInv'
  <1> USE DEF BridgeInv, Br!TypeOK, WorkerFirst
  <1>1. CASE Br!New
    <2>1. worker' \in {"none", "runs", "ended", "stopping"} /\ bridge' \in {"refused", "built"}
      BY <1>1 DEF Br!New
    <2>2. senders' \subseteq {"pump", "forward", "bridge"} \/ senders' = senders
      BY <1>1 DEF Br!New
    <2>3. QED
      BY <1>1, <2>1, <2>2 DEF Br!New, Br!ports
  <1>2. CASE Br!Serve
    <2>1. Br!Bound \subseteq Br!BridgePorts \ elsewhere
      BY DEF Br!Bound, Br!BridgePorts
    <2>2. QED
      BY <1>2, <2>1 DEF Br!Serve, Br!Free
  <1>3. CASE Br!Spawn
    BY <1>3 DEF Br!Spawn, Br!Free, Br!ports
  <1>4. CASE Br!ShutdownCall \/ Br!Drop
    <2>1. bridge = "built" /\ call = "free" /\ \E last \in BOOLEAN : Br!Shutdown(last)
      BY <1>4 DEF Br!ShutdownCall, Br!Drop, Br!Free
    <2>2. QED
      BY <2>1 DEF Br!Shutdown, Br!Begun, Br!ports
  <1>5. CASE Br!Wait
    BY <1>5 DEF Br!Wait, Br!Free, Br!ports, Br!flow
  <1>6. CASE Br!Run
    BY <1>6 DEF Br!Run, Br!Free, Br!Begun, Br!ports
  <1>7. QED
    BY <1>1, <1>2, <1>3, <1>4, <1>5, <1>6

LEMMA BridgeCaller ==
    ASSUME BridgeInv, Br!Caller
    PROVE  BridgeInv'
  <1> USE DEF BridgeInv, Br!TypeOK, WorkerFirst
  <1>1. CASE Br!PipelineJoined
    BY <1>1 DEF Br!PipelineJoined, Br!Begun, Br!ports
  <1>2. CASE Br!WorkerJoined
    BY <1>2 DEF Br!WorkerJoined, Br!StopsServing, Br!flow
  <1>3. CASE Br!AcceptsJoined
    \* Only a loop that has ended is joined, so that none is forgotten.
    <2>1. serving = {}
      BY <1>3 DEF Br!AcceptsJoined, Br!Joinable
    <2>2. QED
      BY <1>3, <2>1 DEF Br!AcceptsJoined
  <1>4. QED
    BY <1>1, <1>2, <1>3 DEF Br!Caller

LEMMA BridgeThreads ==
    ASSUME BridgeInv, Br!Thread \/ Br!PumpEnds \/ Br!Visit \/ Br!Leaves \/ \E p \in Br!BridgePorts : Br!Elsewhere(p)
    PROVE  BridgeInv'
  <1> USE DEF BridgeInv, Br!TypeOK, WorkerFirst, Br!Goes, Br!own
  <1>1. CASE Br!WorkerEnds
    BY <1>1 DEF Br!WorkerEnds, Br!ports
  <1>2. CASE Br!ForwardEnds \/ Br!PumpEnds \/ Br!Visit \/ Br!Leaves
    <2>1. /\ senders' \subseteq senders \union {"client"}
          /\ UNCHANGED <<bridge, call, Br!ports, worker>>
      BY <1>2 DEF Br!ForwardEnds, Br!PumpEnds, Br!Visit, Br!Leaves
    <2>2. QED
      BY <2>1 DEF Br!ports
  <1>3. CASE Br!PipelineReturns
    BY <1>3 DEF Br!PipelineReturns, Br!ports
  <1>4. ASSUME NEW p \in Br!BridgePorts, Br!AcceptEnds(p)
        PROVE  BridgeInv'
    BY <1>4 DEF Br!AcceptEnds
  <1>5. ASSUME NEW p \in Br!BridgePorts, Br!Elsewhere(p)
        PROVE  BridgeInv'
    BY <1>5 DEF Br!Elsewhere, Br!flow
  <1>6. QED
    BY <1>1, <1>2, <1>3, <1>4, <1>5 DEF Br!Thread

\* The bridge is well typed; an accept thread runs only on a port that is still
\* to be joined, and the supervisor is joined before they are told to stop.
LEMMA BridgeHolds == Spec => [](part = "bridge" => BridgeInv)
  <1>1. BridgeInv /\ [Br!Next]_Br!brVars => BridgeInv'
    <2> SUFFICES ASSUME BridgeInv, [Br!Next]_Br!brVars
                 PROVE  BridgeInv'
      OBVIOUS
    <2>1. CASE UNCHANGED Br!brVars
      BY <2>1 DEF BridgeInv, Br!TypeOK, WorkerFirst, Br!brVars, Br!own, Br!ports, Br!flow
    <2>2. CASE Br!Next
      BY <2>2, BridgeMethods, BridgeCaller, BridgeThreads DEF Br!Next
    <2>3. QED
      BY <2>1, <2>2
  <1>2. Init => (part = "bridge" => BridgeInv)
    BY Begins, BridgeInit
  <1>3. (part = "bridge" => BridgeInv) /\ [Next]_vars => (part = "bridge" => BridgeInv)'
    BY <1>1, Steps
  <1>4. QED
    BY <1>2, <1>3, PTL DEF Spec

\* A bridge that was shut down, waited for or dropped holds no port, after a
\* serve that failed half way too, and its device thread is gone
\* (Bridge::shutdown, Bridge::serve).
THEOREM ShutdownReleases == Spec => []PortsReleased /\ [](part = "bridge" => NothingLeft)
  <1>1. (part = "bridge" => BridgeInv) => PortsReleased /\ (part = "bridge" => NothingLeft)
    BY DEF BridgeInv, Br!TypeOK, WorkerFirst, PortsReleased, Br!PortsReleased, NothingLeft
  <1>2. QED
    BY <1>1, BridgeHolds, PTL

-----------------------------------------------------------------------------
(* The request engine.  However answers come between the choice of a       *)
(* device and its stamp, none is asked again too soon.                     *)

\* The assumption on the constants: DEVICE_REQUEST_SPACING and
\* DEVICE_REQUEST_INTERVAL are not zero.
Positive == Last \in Nat /\ Spacing \in Nat \ {0} /\ Interval \in Nat \ {0}

\* The stamp is the time of the request; and between the choice of a device and
\* its stamp nothing but an answer of that device can make the choice stale.
StampIsRequest == asked = requested
ChoiceHolds ==
    \A k \in Re!Kinds : pc = Re!Stamping[k] =>
        /\ found \in Re!Src /\ since[k] = Spacing
        /\ requested[k][found] = Interval
        /\ received[k][found] \in {0, Interval}

RequestsInv == Re!TypeOK /\ StampIsRequest /\ ChoiceHolds

LEMMA Places ==
    /\ \A k \in Re!Kinds : /\ Re!PcOrder[k] \in {"sleep"} \union Re!Kinds
                        /\ Re!Stamping[k] \notin {"sleep"} \union Re!Kinds
    /\ Re!PcOrder["sleep"] = "claim"
    /\ \A j, k \in Re!Kinds : Re!Stamping[j] = Re!Stamping[k] => j = k
  BY DEF Re!Kinds, Re!PcOrder, Re!Stamping

LEMMA Aging == ASSUME NEW top \in Nat \ {0}, NEW a \in 0 .. top
               PROVE  Re!Older(a, top) \in 1 .. top
  BY DEF Re!Older

LEMMA CursorStays == ASSUME Positive, NEW s \in Re!Src
                     PROVE  Re!Advanced(s) \in Re!Src
  <1>1. CASE s = Last
    <2>1. \A n \in Nat \ {0} : n % n = 0
      OBVIOUS
    <2>2. (Last + 1) % (Last + 1) = 0
      BY <2>1 DEF Positive
    <2>3. QED
      BY <1>1, <2>2 DEF Re!Advanced, Re!Src, Positive
  <1>2. CASE s < Last
    <2>1. \A m, n \in Nat : m < n => m % n = m
      OBVIOUS
    <2>2. (s + 1) % (Last + 1) = s + 1
      BY <1>2, <2>1 DEF Re!Src, Positive
    <2>3. QED
      BY <1>2, <2>2 DEF Re!Advanced, Re!Src, Positive
  <1>3. QED
    BY <1>1, <1>2 DEF Re!Src, Positive

LEMMA RequestsInit == ASSUME Positive, Re!Init
                  PROVE  RequestsInv
  <1>1. 0 \in Re!Src /\ Interval \in Re!Ages /\ Spacing \in 0 .. Spacing
    BY DEF Positive, Re!Src, Re!Ages
  <1>2. Re!TypeOK
    BY <1>1 DEF Re!Init, Re!TypeOK
  <1>3. ChoiceHolds
    BY Places DEF Re!Init, ChoiceHolds
  <1>4. QED
    BY <1>2, <1>3 DEF RequestsInv, StampIsRequest, Re!Init

-----------------------------------------------------------------------------
(* One lemma for each action.                                              *)

\* An answer sets an age to 0, which ChoiceHolds allows.
LEMMA NoteSeenStep == ASSUME Positive, RequestsInv, NEW s \in Re!Src, Re!NoteSeen(s)
                      PROVE  RequestsInv'
  <1>1. /\ received' \in [Re!Kinds -> [Re!Src -> Re!Ages]]
        /\ \A k \in Re!Kinds, d \in Re!Src : received'[k][d] \in {0, received[k][d]}
    <2>1. CASE received' = received
      BY <2>1 DEF RequestsInv, Re!TypeOK
    <2>2. ASSUME NEW k \in Re!Kinds, received' = [received EXCEPT ![k][s] = 0]
          PROVE  <1>1!1 /\ <1>1!2
      <3>1. received' = [received EXCEPT ![k] = [received[k] EXCEPT ![s] = 0]]
        BY <2>2
      <3>2. 0 \in Re!Ages
        BY DEF Re!Ages, Positive
      <3>3. [received[k] EXCEPT ![s] = 0] \in [Re!Src -> Re!Ages]
        BY <3>2 DEF RequestsInv, Re!TypeOK
      <3>4. QED
        BY <3>1, <3>3 DEF RequestsInv, Re!TypeOK
    <2>3. QED
      BY <2>1, <2>2 DEF Re!NoteSeen
  <1>2. UNCHANGED <<requested, cursor, since, pc, found, asked>> /\ seen' \subseteq Re!Src
    BY DEF Re!NoteSeen, Re!thread, RequestsInv, Re!TypeOK
  <1>3. Re!TypeOK'
    BY <1>1, <1>2 DEF RequestsInv, Re!TypeOK
  <1>4. ChoiceHolds'
    BY <1>1, <1>2 DEF RequestsInv, ChoiceHolds
  <1>5. QED
    BY <1>2, <1>3, <1>4 DEF RequestsInv, StampIsRequest

\* What is chosen is due, and the spacing is over.
LEMMA ChooseStep == ASSUME Positive, RequestsInv, NEW k \in Re!Kinds, Re!Choose(k)
                    PROVE  RequestsInv'
  <1>1. UNCHANGED <<seen, received, requested, cursor, since, asked>>
    BY DEF Re!Choose, Re!noted
  <1>2. CASE pc' = Re!PcOrder[k] /\ UNCHANGED found
    <2>1. ChoiceHolds'
      BY <1>2, Places DEF ChoiceHolds
    <2>2. Re!TypeOK'
      BY <1>1, <1>2, Places DEF RequestsInv, Re!TypeOK
    <2>3. QED
      BY <1>1, <2>1, <2>2 DEF RequestsInv, StampIsRequest
  <1>3. CASE /\ since[k] >= Spacing /\ pc' = Re!Stamping[k]
             /\ \E n \in 0 .. Last : Re!Due(k, Re!After(k, n)) /\ found' = Re!After(k, n)
    <2>1. Re!Due(k, found')
      BY <1>3
    <2>2. found' \in Re!Src
      BY <2>1 DEF Re!Due, RequestsInv, Re!TypeOK
    <2>3. since[k] = Spacing
      <3>1. since[k] \in 0 .. Spacing
        BY DEF RequestsInv, Re!TypeOK
      <3>2. QED
        BY <1>3, <3>1 DEF Positive
    <2>4. Re!TypeOK'
      <3>1. pc' \in {Re!Stamping[j] : j \in Re!Kinds}
        BY <1>3
      <3>2. QED
        BY <1>1, <2>2, <3>1 DEF RequestsInv, Re!TypeOK
    <2>5. \A j \in Re!Kinds : pc' = Re!Stamping[j] => j = k
      BY <1>3, Places
    <2>6. ChoiceHolds'
      BY <1>1, <2>1, <2>2, <2>3, <2>5 DEF ChoiceHolds, Re!Due
    <2>7. QED
      BY <1>1, <2>4, <2>6 DEF RequestsInv, StampIsRequest
  <1>4. QED
    BY <1>2, <1>3 DEF Re!Choose

LEMMA StampStep == ASSUME Positive, RequestsInv, NEW k \in Re!Kinds, Re!Stamp(k)
                   PROVE  RequestsInv'
  <1>1. found \in Re!Src /\ 0 \in Re!Ages /\ 0 \in 0 .. Spacing
    BY DEF Re!Stamp, RequestsInv, ChoiceHolds, Re!Ages, Positive
  <1>2. requested' = [requested EXCEPT ![k] = [requested[k] EXCEPT ![found] = 0]] /\ asked' = requested'
    BY DEF Re!Stamp, RequestsInv, StampIsRequest
  <1>3. requested' \in [Re!Kinds -> [Re!Src -> Re!Ages]]
    <2>1. [requested[k] EXCEPT ![found] = 0] \in [Re!Src -> Re!Ages]
      BY <1>1 DEF RequestsInv, Re!TypeOK
    <2>2. QED
      BY <1>2, <2>1 DEF RequestsInv, Re!TypeOK
  <1>4. cursor' \in [Re!Kinds -> Re!Src] /\ since' \in [Re!Kinds -> 0 .. Spacing]
    BY <1>1, CursorStays DEF Re!Stamp, RequestsInv, Re!TypeOK
  <1>5. pc' \in {"sleep"} \union Re!Kinds /\ found' = Re!NoDevice /\ UNCHANGED <<seen, received>>
    BY Places DEF Re!Stamp, Re!noted
  <1>6. Re!TypeOK'
    BY <1>2, <1>3, <1>4, <1>5 DEF RequestsInv, Re!TypeOK
  <1>7. ChoiceHolds'
    BY <1>5, Places DEF ChoiceHolds
  <1>8. QED
    BY <1>2, <1>6, <1>7 DEF RequestsInv, StampIsRequest

\* Time passes only while nothing is chosen.
LEMMA TickStep == ASSUME Positive, RequestsInv, Re!Tick
                  PROVE  RequestsInv' /\ \A k \in Re!Kinds, s \in Re!Src : asked'[k][s] # 0
  <1>1. /\ received' = [k \in Re!Kinds |-> [s \in Re!Src |-> Re!Older(received[k][s], Interval)]]
        /\ requested' = [k \in Re!Kinds |-> [s \in Re!Src |-> Re!Older(requested[k][s], Interval)]]
        /\ asked' = [k \in Re!Kinds |-> [s \in Re!Src |-> Re!Older(asked[k][s], Interval)]]
        /\ since' = [k \in Re!Kinds |-> Re!Older(since[k], Spacing)]
        /\ UNCHANGED <<seen, cursor, found>>
    BY DEF Re!Tick
  <1>2. \A a \in Re!Ages : Re!Older(a, Interval) \in Re!Ages /\ Re!Older(a, Interval) # 0
    BY Aging DEF Re!Ages, Positive
  <1>3. \A a \in 0 .. Spacing : Re!Older(a, Spacing) \in 0 .. Spacing
    BY Aging DEF Positive
  <1>4. pc' = "claim"
    BY Places DEF Re!Tick
  <1>5. Re!TypeOK'
    BY <1>1, <1>2, <1>3, <1>4 DEF RequestsInv, Re!TypeOK, Re!Kinds
  <1>6. ChoiceHolds'
    BY <1>4, Places DEF ChoiceHolds, Re!Kinds
  <1>7. QED
    BY <1>1, <1>2, <1>5, <1>6 DEF RequestsInv, StampIsRequest, Re!TypeOK

\* In every state the stamp of a device is the time it was last asked, and a
\* device that is about to be stamped was due but for an answer of this moment.
LEMMA RequestsHold == ASSUME Positive
                      PROVE  Spec => [](part = "requests" => RequestsInv)
  <1>1. RequestsInv /\ [Re!Next]_Re!reVars => RequestsInv'
    <2> SUFFICES ASSUME RequestsInv, [Re!Next]_Re!reVars
                 PROVE  RequestsInv'
      OBVIOUS
    <2>1. CASE UNCHANGED Re!reVars
      BY <2>1 DEF RequestsInv, Re!TypeOK, StampIsRequest, ChoiceHolds, Re!reVars, Re!noted, Re!thread
    <2>2. CASE Re!Next
      BY <2>2, NoteSeenStep, ChooseStep, StampStep, TickStep DEF Re!Next, Re!Thread
    <2>3. QED
      BY <2>1, <2>2
  <1>2. Init => (part = "requests" => RequestsInv)
    BY Begins, RequestsInit
  <1>3. (part = "requests" => RequestsInv) /\ [Next]_vars => (part = "requests" => RequestsInv)'
    BY <1>1, Steps
  <1>4. QED
    BY <1>2, <1>3, PTL DEF Spec

\* No device is asked for the same thing twice within the interval, nor one
\* that has answered within it, and requests keep their spacing, although the
\* lock is released between next_due's choice and its stamp.
LEMMA RequestsAreRare ==
    ASSUME Positive, RequestsInv, Re!Next
    PROVE  Re!AskedRarely
  <1> SUFFICES ASSUME NEW k \in Re!Kinds, NEW s \in Re!Src, asked'[k][s] = 0, asked[k][s] # 0
               PROVE  asked[k][s] = Interval /\ since[k] = Spacing /\ received[k][s] \in {0, Interval}
    BY DEF Re!AskedRarely
  <1>1. CASE Re!Tick
    BY <1>1, TickStep
  <1>2. ASSUME NEW d \in Re!Src, Re!NoteSeen(d)
        PROVE  FALSE
    BY <1>2 DEF Re!NoteSeen
  <1>3. ASSUME NEW j \in Re!Kinds, Re!Choose(j)
        PROVE  FALSE
    BY <1>3 DEF Re!Choose
  <1>4. ASSUME NEW j \in Re!Kinds, Re!Stamp(j)
        PROVE  asked[k][s] = Interval /\ since[k] = Spacing /\ received[k][s] \in {0, Interval}
    <2>1. asked' = [asked EXCEPT ![j] = [asked[j] EXCEPT ![found] = 0]]
      BY <1>4 DEF Re!Stamp
    <2>2. k = j /\ s = found
      BY <2>1 DEF RequestsInv, Re!TypeOK
    <2>3. QED
      BY <1>4, <2>2 DEF Re!Stamp, RequestsInv, ChoiceHolds, StampIsRequest
  <1>5. QED
    BY <1>1, <1>2, <1>3, <1>4 DEF Re!Next, Re!Thread

-----------------------------------------------------------------------------
(* The sentence filter.  However devices move, claims are missed, saves    *)
(* fail or tear and the server is restarted, it mutes what the user muted, *)
(* as far as a restart finds it saved, and nothing else, and its report    *)
(* says so.                                                                *)

Rule == [muted : BOOLEAN, muted_sentences : SUBSET Nm!Formatters]

\* The assumption on the constants: None is neither a NAME nor a rule, and a file
\* without rules is told from one with them.
NoneIsNothing ==
    /\ None \notin Names /\ None \notin Rule /\ Second \in Nat \ {0}
    /\ {Missing, Torn} \cap [Names -> Rule \union {None}] = {} /\ Missing # Torn

\* Rules, those in force or those of a file: a rule that mutes nothing is not
\* kept.  They say what is wanted.
IsRules(r) == r \in [Names -> Rule \union {None}] /\ \A n \in Names : r[n] # Nm!NoRule
Says(r, wanted) ==
    \A n \in Names : LET rule == IF r[n] = None THEN Nm!NoRule ELSE r[n] IN
        /\ rule.muted <=> <<n, Nm!ALL>> \in wanted
        /\ \A f \in Nm!Formatters : f \in rule.muted_sentences <=> <<n, f>> \in wanted

Learned == src_name \in [Srcs -> Names \union {None}]
RulesTyped == IsRules(rules)
RulesAreIntent == Says(rules, intent)
Wanted == intent \union saved \subseteq Names \X (Nm!Formatters \union {Nm!ALL})
\* The file says what was saved, which is nothing when it is not there or torn.
FileIsSaved ==
    IF file \in {Missing, Torn} THEN saved = {} ELSE IsRules(file) /\ Says(file, saved)
\* Without a filter there are no rules, and no claim is noted.
Deaf ==
    /\ filtering \in BOOLEAN
    /\ ~filtering => rules = Nm!NoRules /\ \A s \in Srcs : src_name[s] = None

\* What came out last is what the filter lets out now.
OutIsKept ==
    out # None => /\ out.name \in Names
                  /\ out.sentences \subseteq Nm!Formatters
                  /\ out.sentences \subseteq Nm!Kept(out.src, Nm!Formatters)

FilterInv ==
    Learned /\ RulesTyped /\ RulesAreIntent /\ Wanted /\ FileIsSaved /\ Deaf /\ OutIsKept

LEMMA RulesSay ==
    RulesAreIntent <=>
        \A n \in Names :
            /\ Nm!RuleOf(n).muted <=> <<n, Nm!ALL>> \in intent
            /\ \A f \in Nm!Formatters : f \in Nm!RuleOf(n).muted_sentences <=> <<n, f>> \in intent
  BY DEF RulesAreIntent, Says, Nm!RuleOf

LEMMA AllIsNoFormatter == Nm!ALL \notin Nm!Formatters
  <1>1. ASSUME NEW r
        PROVE  "ALL" \notin Nm!Converted(r)
    BY DEF Nm!Converted, Nm!Rudder, Nm!VesselHeading, Nm!WaterSpeed, Nm!WaterDepth, Nm!DistanceLog, Nm!SogCog, Nm!Position,
           Nm!GpsDop, Nm!WindData, Nm!Environmental
  <1>2. QED
    BY <1>1 DEF Nm!Formatters, Nm!ALL

LEMMA NoRuleIsRule == Nm!NoRule \in Rule
  BY DEF Nm!NoRule, Rule

LEMMA Noticed == ASSUME NoneIsNothing, FilterInv, NEW s \in Srcs
                 PROVE  src_name[s] # None => src_name[s] \in Names
  BY DEF FilterInv, Learned

-----------------------------------------------------------------------------
(* The filter against the rules.                                           *)

\* The rule for a NAME, kept or not, is a rule.
LEMMA RuleOfTyped == ASSUME NoneIsNothing, RulesTyped, NEW n \in Names
                     PROVE  Nm!RuleOf(n) \in Rule
  BY NoRuleIsRule DEF RulesTyped, IsRules, Nm!RuleOf

\* What the filter keeps for a device whose claim was heard: what its rule
\* does not mute (NmeaFilter::decide).
LEMMA KeptOfNamed ==
    ASSUME NoneIsNothing, RulesTyped, NEW s, src_name[s] \in Names, NEW fs
    PROVE  Nm!Kept(s, fs) = IF Nm!RuleOf(src_name[s]).muted THEN {}
                         ELSE fs \ Nm!RuleOf(src_name[s]).muted_sentences
  <1>1. src_name[s] # None
    BY DEF NoneIsNothing
  <1>2. CASE rules[src_name[s]] = None
    <2>1. Nm!Kept(s, fs) = fs
      BY <1>1, <1>2 DEF Nm!Kept
    <2>2. QED
      BY <1>2, <2>1 DEF Nm!RuleOf, Nm!NoRule
  <1>3. CASE rules[src_name[s]] # None
    BY <1>1, <1>3 DEF Nm!Kept, Nm!RuleOf
  <1>4. QED
    BY <1>2, <1>3

\* With nothing muted there are no rules at all.
LEMMA NoIntentNoRules == ASSUME NoneIsNothing, FilterInv, intent = {}
                         PROVE  \A n \in Names : rules[n] = None
  <1> SUFFICES ASSUME NEW n \in Names, rules[n] # None
               PROVE  FALSE
    OBVIOUS
  <1>1. Nm!RuleOf(n) = rules[n] /\ rules[n] \in Rule /\ rules[n] # Nm!NoRule
    BY DEF Nm!RuleOf, FilterInv, RulesTyped, IsRules
  <1>2. rules[n].muted = FALSE /\ rules[n].muted_sentences = {}
    BY <1>1, RulesSay DEF FilterInv, Rule
  <1>3. QED
    BY <1>1, <1>2 DEF Rule, Nm!NoRule

-----------------------------------------------------------------------------
(* The steps.                                                              *)

\* No rules say that nothing is wanted.
LEMMA NoRulesSayNothing == ASSUME NoneIsNothing
                           PROVE  IsRules(Nm!NoRules) /\ Says(Nm!NoRules, {})
  <1>1. None # Nm!NoRule
    BY NoRuleIsRule DEF NoneIsNothing
  <1>2. QED
    BY <1>1 DEF IsRules, Says, Nm!NoRules, Nm!NoRule

LEMMA FilterInit == ASSUME NoneIsNothing, Nm!Init
                  PROVE  FilterInv
  <1>1. RulesTyped /\ RulesAreIntent
    BY NoRulesSayNothing DEF Nm!Init, RulesTyped, RulesAreIntent
  <1>2. QED
    BY <1>1 DEF Nm!Init, FilterInv, Learned, Wanted, FileIsSaved, Deaf, OutIsKept

\* A record passes the filter as it is.
LEMMA RecordStep == ASSUME NoneIsNothing, FilterInv, NEW n \in Names, NEW r \in Records, Nm!Record(n, r)
                    PROVE  FilterInv'
  <1> DEFINE s == addr[n]
             fs == IF Nm!Passes(s, r.id) THEN Nm!Converted(r) ELSE {}
  <1>1. /\ UNCHANGED <<src_name, rules, file, filtering, intent, saved>>
        /\ out'.sentences = Nm!Kept(s, fs) /\ out'.src = s /\ out'.name = n
    BY DEF Nm!Record, Nm!wish
  <1>2. fs \subseteq Nm!Formatters
    BY DEF Nm!Formatters
  <1>3. Nm!Kept(s, fs) \subseteq fs /\ Nm!Kept(s, fs) \subseteq Nm!Kept(s, Nm!Formatters)
    BY <1>2 DEF Nm!Kept
  <1>4. OutIsKept'
    BY <1>1, <1>2, <1>3 DEF OutIsKept, Nm!Kept
  <1>5. QED
    BY <1>1, <1>4 DEF FilterInv, Learned, RulesTyped, RulesAreIntent, Wanted, FileIsSaved, Deaf

\* However a save ends, the file says what was saved of the rules it is made of.
LEMMA SaveStep ==
    ASSUME NoneIsNothing, FilterInv, RulesTyped', RulesAreIntent', Nm!Save
    PROVE  FileIsSaved' /\ (saved' = intent' \/ saved' = saved \/ saved' = {})
  <1>1. CASE file' = rules' /\ saved' = intent'
    <2>1. file' \notin {Missing, Torn}
      BY <1>1 DEF RulesTyped, IsRules, NoneIsNothing
    <2>2. IsRules(file)' /\ Says(file, saved)'
      BY <1>1 DEF RulesTyped, RulesAreIntent, IsRules, Says
    <2>3. QED
      BY <1>1, <2>1, <2>2 DEF FileIsSaved
  <1>2. CASE UNCHANGED <<file, saved>>
    BY <1>2 DEF FilterInv, FileIsSaved, IsRules, Says
  <1>3. CASE file' = Torn /\ saved' = {}
    BY <1>3 DEF FileIsSaved
  <1>4. QED
    BY <1>1, <1>2, <1>3 DEF Nm!Save

\* The control port: the rule follows what is asked for, and goes when it is
\* empty.
LEMMA SetStep ==
    ASSUME NoneIsNothing, FilterInv, NEW s \in Srcs, NEW f \in Nm!Formatters \union {Nm!ALL}, NEW b \in BOOLEAN,
           Nm!Set(s, f, b)
    PROVE  FilterInv'
  <1> DEFINE n == src_name[s]
             new == Nm!Edited(Nm!RuleOf(n), f, b)
  <1>1. n \in Names
    BY Noticed DEF Nm!Set
  <1>2. /\ rules' = [rules EXCEPT ![n] = Nm!Tidied(new)] /\ Nm!Save /\ out' = None
        /\ intent' = IF b THEN intent \union {<<n, f>>} ELSE intent \ {<<n, f>>}
        /\ UNCHANGED <<src_name, filtering>>
    BY DEF Nm!Set
  <1>3. Nm!RuleOf(n) \in Rule
    BY <1>1, RuleOfTyped DEF FilterInv
  <1>4. /\ new \in Rule
        /\ new.muted = IF f = Nm!ALL THEN b ELSE Nm!RuleOf(n).muted
        /\ \A g \in Nm!Formatters : g \in new.muted_sentences <=>
              IF g = f THEN b ELSE g \in Nm!RuleOf(n).muted_sentences
    <2>1. CASE f = Nm!ALL
      <3>1. new = [muted |-> b, muted_sentences |-> Nm!RuleOf(n).muted_sentences]
        BY <1>3, <2>1 DEF Nm!Edited, Rule
      <3>2. QED
        BY <1>3, <2>1, <3>1, AllIsNoFormatter DEF Rule
    <2>2. CASE f # Nm!ALL
      <3>1. new = [muted |-> Nm!RuleOf(n).muted,
                   muted_sentences |-> IF b THEN Nm!RuleOf(n).muted_sentences \union {f}
                                            ELSE Nm!RuleOf(n).muted_sentences \ {f}]
        BY <1>3, <2>2 DEF Nm!Edited, Rule
      <3>2. f \in Nm!Formatters
        BY <2>2
      <3>3. QED
        BY <1>3, <2>2, <3>1, <3>2 DEF Rule
    <2>3. QED
      BY <2>1, <2>2
  <1>5. RulesTyped'
    <2>1. Nm!Tidied(new) \in Rule \union {None} /\ Nm!Tidied(new) # Nm!NoRule
      BY <1>4, NoRuleIsRule DEF Nm!Tidied, NoneIsNothing
    <2>2. QED
      BY <1>2, <2>1 DEF FilterInv, RulesTyped, IsRules
  <1>6. ASSUME NEW m \in Names
        PROVE  Nm!RuleOf(m)' = IF m = n THEN new ELSE Nm!RuleOf(m)
    <2>1. CASE m = n
      <3>1. rules'[n] = Nm!Tidied(new)
        BY <1>1, <1>2 DEF FilterInv, RulesTyped, IsRules
      <3>2. CASE new = Nm!NoRule
        BY <2>1, <3>1, <3>2 DEF Nm!Tidied, Nm!RuleOf
      <3>3. CASE new # Nm!NoRule
        BY <1>4, <2>1, <3>1, <3>3 DEF Nm!Tidied, Nm!RuleOf, NoneIsNothing
      <3>4. QED
        BY <3>2, <3>3
    <2>2. CASE m # n
      BY <1>2, <2>2 DEF Nm!RuleOf, FilterInv, RulesTyped, IsRules
    <2>3. QED
      BY <2>1, <2>2
  <1>7. \A m \in Names, g \in Nm!Formatters \union {Nm!ALL} :
            <<m, g>> \in intent' <=> IF m = n /\ g = f THEN b ELSE <<m, g>> \in intent
    BY <1>2
  <1>8. RulesAreIntent'
    <2> SUFFICES ASSUME NEW m \in Names
                 PROVE  /\ Nm!RuleOf(m)'.muted <=> <<m, Nm!ALL>> \in intent'
                        /\ \A g \in Nm!Formatters : g \in Nm!RuleOf(m)'.muted_sentences <=> <<m, g>> \in intent'
      BY DEF RulesAreIntent, Says, Nm!RuleOf
    <2>1. /\ Nm!RuleOf(m).muted <=> <<m, Nm!ALL>> \in intent
          /\ \A g \in Nm!Formatters : g \in Nm!RuleOf(m).muted_sentences <=> <<m, g>> \in intent
      BY RulesSay DEF FilterInv
    <2>2. CASE m # n
      BY <1>6, <1>7, <2>1, <2>2
    <2>3. CASE m = n
      BY <1>4, <1>6, <1>7, <2>1, <2>3, AllIsNoFormatter
    <2>4. QED
      BY <2>2, <2>3
  <1>9. FileIsSaved' /\ (saved' = intent' \/ saved' = saved \/ saved' = {})
    BY <1>2, <1>5, <1>8, SaveStep
  <1>10. Wanted'
    BY <1>1, <1>2, <1>9 DEF FilterInv, Wanted
  <1>11. Deaf'
    BY <1>1, <1>2 DEF FilterInv, Deaf, NoneIsNothing
  <1>12. QED
    BY <1>2, <1>5, <1>8, <1>9, <1>10, <1>11 DEF FilterInv, Learned, OutIsKept

\* A restart reads the rules back from the file, if it is there and whole; what
\* was wanted is then what was saved.
LEMMA RestartStep == ASSUME NoneIsNothing, FilterInv, Nm!Restart
                     PROVE  FilterInv'
  <1>1. /\ src_name' = [s \in Srcs |-> None] /\ out' = None /\ intent' = saved /\ UNCHANGED <<file, saved>>
        /\ rules' = (IF file \in {Missing, Torn} THEN Nm!NoRules ELSE file)
        /\ filtering' = (file # Torn)
    BY DEF Nm!Restart, Nm!Load
  <1>2. RulesTyped' /\ RulesAreIntent'
    <2>1. IsRules(rules') /\ Says(rules', saved)
      <3>1. CASE file \in {Missing, Torn}
        BY <1>1, <3>1, NoRulesSayNothing DEF FilterInv, FileIsSaved
      <3>2. CASE file \notin {Missing, Torn}
        BY <1>1, <3>2 DEF FilterInv, FileIsSaved
      <3>3. QED
        BY <3>1, <3>2
    <2>2. QED
      BY <1>1, <2>1 DEF RulesTyped, RulesAreIntent, IsRules, Says
  <1>3. Deaf'
    BY <1>1 DEF Deaf, Nm!NoRules
  <1>4. QED
    BY <1>1, <1>2, <1>3 DEF FilterInv, Learned, Wanted, FileIsSaved, IsRules, Says, OutIsKept

\* Nothing else touches the rules.
LEMMA FilterOther ==
    ASSUME NoneIsNothing, FilterInv,
           Nm!Tick \/ \E n \in Names : Nm!NoteClaim(n) \/ \E s \in Srcs : Nm!Move(n, s)
    PROVE  FilterInv'
  <1>1. UNCHANGED <<rules, file, filtering, intent, saved>> /\ out' = None
    BY DEF Nm!Tick, Nm!NoteClaim, Nm!Move, Nm!filter, Nm!wish
  <1>2. Learned' /\ Deaf'
    <2>1. CASE UNCHANGED src_name
      BY <1>1, <2>1 DEF FilterInv, Learned, Deaf, Nm!NoRules
    <2>2. ASSUME NEW n \in Names, Nm!NoteClaim(n)
          PROVE  Learned' /\ Deaf'
      <3>1. Learned'
        BY <2>2 DEF Nm!NoteClaim, FilterInv, Learned
      <3>2. filtering /\ filtering' = filtering
        BY <1>1, <2>2 DEF Nm!NoteClaim
      <3>3. QED
        BY <3>1, <3>2 DEF FilterInv, Deaf
    <2>3. Nm!Tick => UNCHANGED src_name
      BY DEF Nm!Tick, Nm!filter
    <2>4. ASSUME NEW n \in Names, NEW s \in Srcs, Nm!Move(n, s)
          PROVE  UNCHANGED src_name
      BY <2>4 DEF Nm!Move, Nm!filter
    <2>5. QED
      BY <2>1, <2>2, <2>3, <2>4
  <1>3. QED
    BY <1>1, <1>2 DEF FilterInv, RulesTyped, RulesAreIntent, IsRules, Says, Wanted, FileIsSaved, OutIsKept

\* In every state the rules in memory are what the user asked for, by NAME, and
\* the file holds what of it was saved.
LEMMA FilterHolds == ASSUME NoneIsNothing
                     PROVE  Spec => [](part = "nmea0183" => FilterInv)
  <1>1. FilterInv /\ [Nm!Next]_Nm!nVars => FilterInv'
    <2> SUFFICES ASSUME FilterInv, [Nm!Next]_Nm!nVars
                 PROVE  FilterInv'
      OBVIOUS
    <2>1. CASE UNCHANGED Nm!nVars
      BY <2>1 DEF FilterInv, Learned, RulesTyped, RulesAreIntent, IsRules, Says, Wanted, FileIsSaved, Deaf, Nm!NoRules,
                  OutIsKept, Nm!Kept, Nm!nVars, Nm!filter, Nm!wish
    <2>2. CASE Nm!Next
      BY <2>2, RecordStep, SetStep, RestartStep, FilterOther DEF Nm!Next
    <2>3. QED
      BY <2>1, <2>2
  <1>2. Init => (part = "nmea0183" => FilterInv)
    BY Begins, FilterInit
  <1>3. (part = "nmea0183" => FilterInv) /\ [Next]_vars => (part = "nmea0183" => FilterInv)'
    BY <1>1, Steps
  <1>4. QED
    BY <1>2, <1>3, PTL DEF Spec

\* A sentence muted for a device does not get out, at whatever address the
\* device is (NmeaFilter::decide, apply).
LEMMA MutedStaysSilent == ASSUME NoneIsNothing, FilterInv
                          PROVE  Nm!MutedIsSilent
  <1> SUFFICES ASSUME out # None, src_name[out.src] = out.name,
                      NEW f \in out.sentences
               PROVE  <<out.name, f>> \notin intent /\ <<out.name, Nm!ALL>> \notin intent
    BY DEF Nm!MutedIsSilent
  <1>1. f \in Nm!Formatters /\ f \in Nm!Kept(out.src, Nm!Formatters) /\ out.name \in Names
    BY DEF FilterInv, OutIsKept
  <1>2. ~Nm!RuleOf(out.name).muted /\ f \notin Nm!RuleOf(out.name).muted_sentences
    BY <1>1, KeptOfNamed DEF FilterInv
  <1>3. QED
    BY <1>1, <1>2, RulesSay DEF FilterInv

\* Nothing else is muted (NmeaFilter::decide).
LEMMA UnmutedStaysHeard == ASSUME NoneIsNothing, FilterInv
                           PROVE  Nm!UnmutedIsHeard
  <1> SUFFICES ASSUME NEW s \in Srcs, NEW f \in Nm!Formatters
               PROVE  /\ intent = {} => Nm!Kept(s, {f}) = {f}
                      /\ src_name[s] # None /\ {<<src_name[s], f>>, <<src_name[s], Nm!ALL>>} \cap intent = {}
                         => Nm!Kept(s, {f}) = {f}
    BY DEF Nm!UnmutedIsHeard
  <1>1. ASSUME intent = {}
        PROVE  Nm!Kept(s, {f}) = {f}
    BY <1>1, NoIntentNoRules DEF Nm!Kept
  <1>2. ASSUME src_name[s] # None, <<src_name[s], f>> \notin intent, <<src_name[s], Nm!ALL>> \notin intent
        PROVE  Nm!Kept(s, {f}) = {f}
    <2>1. src_name[s] \in Names
      BY <1>2, Noticed
    <2>2. ~Nm!RuleOf(src_name[s]).muted /\ f \notin Nm!RuleOf(src_name[s]).muted_sentences
      BY <1>2, <2>1, RulesSay DEF FilterInv
    <2>3. QED
      BY <2>1, <2>2, KeptOfNamed DEF FilterInv
  <1>3. QED
    BY <1>1, <1>2

\* A row of the report says muted exactly when its sentence does not get out
\* (NmeaFilter::report against apply).
LEMMA ReportStaysTrue == ASSUME NoneIsNothing, FilterInv
                         PROVE  Nm!ReportIsTrue
  <1> SUFFICES ASSUME NEW row \in Nm!ReportRows,
                      row \notin Nm!AllRows
               PROVE  row.muted <=> Nm!Kept(row.src, {row.sentence}) = {}
    BY DEF Nm!ReportIsTrue
  <1>1. PICK s \in Srcs : \E f : row = [src |-> s, sentence |-> f, muted |-> Nm!RowMuted(s, f)]
    BY DEF Nm!ReportRows
  <1>2. PICK f : row = [src |-> s, sentence |-> f, muted |-> Nm!RowMuted(s, f)]
    BY <1>1
  <1>3. f # Nm!ALL
    <2>1. Nm!RowMuted(s, f) \in BOOLEAN
      BY DEF Nm!RowMuted
    <2>2. f = Nm!ALL => row \in Nm!AllRows
      BY <1>2, <2>1 DEF Nm!AllRows
    <2>3. QED
      BY <2>2
  <1>4. ASSUME Nm!Kept(s, {Nm!ALL}) = {}
        PROVE  Nm!Kept(s, {f}) = {}
    <2>1. CASE src_name[s] = None
      BY <1>4, <2>1 DEF Nm!Kept
    <2>2. CASE src_name[s] # None
      <3>1. src_name[s] \in Names
        BY <2>2, Noticed
      <3>2. Nm!RuleOf(src_name[s]).muted_sentences \subseteq Nm!Formatters
        BY <3>1, RuleOfTyped DEF FilterInv, Rule
      <3>3. Nm!RuleOf(src_name[s]).muted
        BY <1>4, <3>1, <3>2, KeptOfNamed, AllIsNoFormatter DEF FilterInv
      <3>4. QED
        BY <3>1, <3>3, KeptOfNamed DEF FilterInv
    <2>3. QED
      BY <2>1, <2>2
  <1>5. QED
    BY <1>2, <1>3, <1>4 DEF Nm!RowMuted, Nm!DropsAll

\* The filter mutes what the user muted and nothing else, and reports what it
\* does: at whatever address a device is, once its claim there has been heard.
\* Saves may fail or leave a torn file (nmea_filter.rs:308): what was asked for
\* holds until a restart, and after it what was last saved, which is nothing
\* when the file was left torn (NmeaFilter::set, save, load, decide, apply,
\* report; bridge.rs:255-262).
THEOREM FilterStaysHonest == ASSUME NoneIsNothing
                             PROVE  Spec => []FilterIsHonest
  <1>1. (part = "nmea0183" => FilterInv) => FilterIsHonest
    BY MutedStaysSilent, UnmutedStaysHeard, ReportStaysTrue DEF FilterIsHonest
  <1>2. QED
    BY <1>1, FilterHolds, PTL

-----------------------------------------------------------------------------
(* The rate limiter, where every device can have an address of its own.    *)

Roomy == \E f \in [Names -> Srcs] : \A m, n \in Names : f[m] = f[n] => m = n

Limits ==
    /\ addr \in [Names -> Srcs]
    /\ last_passed \in [Srcs -> [Nm!Classes -> 0 .. Second]]

LEMMA RecordLimits ==
    ASSUME NoneIsNothing, Limits, NEW n \in Names, NEW r \in Records, Nm!Record(n, r)
    PROVE  /\ Limits'
           /\ Nm!Passes(addr[n], r.id) => last_passed'[addr[n]][r.id] = 0
  <1>1. addr[n] \in Srcs /\ r.id \in Nm!Classes /\ 0 \in 0 .. Second
    BY DEF Limits, Nm!Classes, NoneIsNothing
  <1>2. CASE Nm!Passes(addr[n], r.id)
    <2>1. last_passed' = [last_passed EXCEPT ![addr[n]] = [last_passed[addr[n]] EXCEPT ![r.id] = 0]]
      BY <1>2 DEF Nm!Record, Nm!PassMark
    <2>2. [last_passed[addr[n]] EXCEPT ![r.id] = 0] \in [Nm!Classes -> 0 .. Second]
      BY <1>1 DEF Limits
    <2>3. addr' = addr
      BY DEF Nm!Record
    <2>4. QED
      BY <1>1, <2>1, <2>2, <2>3 DEF Limits
  <1>3. CASE ~Nm!Passes(addr[n], r.id)
    BY <1>3 DEF Nm!Record, Limits
  <1>4. QED
    BY <1>2, <1>3

LEMMA OtherLimits ==
    ASSUME NoneIsNothing, Limits, Nm!Next, \A n \in Names, r \in Records : ~Nm!Record(n, r)
    PROVE  Limits'
  <1>1. CASE Nm!Restart
    BY <1>1 DEF Nm!Restart, Limits, NoneIsNothing
  <1>2. CASE Nm!Tick
    <2>1. last_passed' = [s \in Srcs |-> [c \in Nm!Classes |->
              IF last_passed[s][c] < Second THEN last_passed[s][c] + 1 ELSE last_passed[s][c]]]
      BY <1>2 DEF Nm!Tick
    <2>2. \A a \in 0 .. Second : (IF a < Second THEN a + 1 ELSE a) \in 0 .. Second
      BY DEF NoneIsNothing
    <2>3. QED
      BY <1>2, <2>1, <2>2 DEF Nm!Tick, Limits
  <1>3. ASSUME NEW n \in Names, Nm!NoteClaim(n) \/ \E s \in Srcs : Nm!Move(n, s)
        PROVE  Limits'
    BY <1>3 DEF Nm!NoteClaim, Nm!Move, Nm!limiter, Limits
  <1>4. ASSUME NEW s \in Srcs, NEW f, NEW b, Nm!Set(s, f, b)
        PROVE  Limits'
    BY <1>4 DEF Nm!Set, Nm!limiter, Limits
  <1>5. QED
    BY <1>1, <1>2, <1>3, <1>4 DEF Nm!Next

LEMMA LimitsHold == ASSUME NoneIsNothing, Roomy
                    PROVE  Spec => [](part = "nmea0183" => Limits)
  <1>1. Nm!Init => Limits
    <2> SUFFICES ASSUME Nm!Init
                 PROVE  Limits
      OBVIOUS
    <2>1. addr \in [Names -> Srcs]
      BY DEF Nm!Init, Roomy
    <2>2. last_passed = [s \in Srcs |-> [c \in Nm!Classes |-> Second]] /\ Second \in 0 .. Second
      BY DEF Nm!Init, NoneIsNothing
    <2>3. QED
      BY <2>1, <2>2 DEF Limits
  <1>2. Limits /\ [Nm!Next]_Nm!nVars => Limits'
    <2>1. Limits /\ UNCHANGED Nm!nVars => Limits'
      BY DEF Limits, Nm!nVars, Nm!limiter
    <2>2. QED
      BY <2>1, RecordLimits, OtherLimits
  <1>3. Init => (part = "nmea0183" => Limits)
    BY <1>1, Begins
  <1>4. (part = "nmea0183" => Limits) /\ [Next]_vars => (part = "nmea0183" => Limits)'
    BY <1>2, Steps
  <1>5. QED
    BY <1>3, <1>4, PTL DEF Spec

\* A source gets one record of a class through in a second, whatever else is
\* sent, and a position never quotes a speed older than that
\* (should_drop_fast, recent_sog_cog).
LEMMA RateIsLimited ==
    ASSUME NoneIsNothing, Limits, Nm!Next
    PROVE  Nm!OncePerSecond
  <1> SUFFICES ASSUME out' # None, out'.sentences # {}
               PROVE  /\ last_passed[out'.src][out'.id] >= Second
                      /\ last_passed'[out'.src][out'.id] = 0
                      /\ out'.speed # None => out'.speed < Second
    BY DEF Nm!OncePerSecond
  <1>1. PICK n \in Names, r \in Records : Nm!Record(n, r)
    BY DEF Nm!Next, Nm!Restart, Nm!Tick, Nm!NoteClaim, Nm!Move, Nm!Set
  <1>2. out'.src = addr[n] /\ out'.id = r.id /\ Nm!Passes(addr[n], r.id)
    BY <1>1 DEF Nm!Record, Nm!Kept
  <1>3. out'.speed # None => out'.speed < Second
    BY <1>1 DEF Nm!Record, Nm!Recent
  <1>4. QED
    BY <1>1, <1>2, <1>3, RecordLimits DEF Nm!Passes

-----------------------------------------------------------------------------
(* The iKonvert handshake.                                                 *)

LEMMA HandshakesHold == ASSUME Configs \subseteq Ik!Config
                        PROVE  Spec => [](part = "ikonvert" => HandshakeInv)
  <1>1. Init => (part = "ikonvert" => HandshakeInv)
    BY Begins, HandshakeInit
  <1>2. HandshakeInv /\ UNCHANGED Ik!vars => HandshakeInv'
    BY HandshakeStutter
  <1>3. (part = "ikonvert" => HandshakeInv) /\ [Next]_vars => (part = "ikonvert" => HandshakeInv)'
    BY <1>2, Steps, HandshakeStep
  <1>4. QED
    BY <1>1, <1>3, PTL DEF Spec

\* However often the device reboots and whatever is lost, refused or said twice,
\* and whether or not the handshake is skipped at first: when the handshake is
\* over and no banner is on its way the device does what the configuration asks
\* for, and it is not reset more often than it rebooted, a banner in the middle
\* of a handshake being only logged (new, advance_after_text,
\* advance_after_ack, maybe_resend_offline).
THEOREM HandshakeStaysSound == ASSUME Configs \subseteq Ik!Config
                               PROVE  Spec => []HandshakeSound
  <1>1. (part = "ikonvert" => HandshakeInv) => HandshakeSound
    BY Sound DEF HandshakeSound
  <1>2. QED
    BY <1>1, HandshakesHold, PTL

-----------------------------------------------------------------------------
(* The user interface: members of a set in order.                          *)

Smaller(S, x) == {y \in S : y < x}

\* The members below one are fewer than the members; those below a smaller one
\* fewer still.
LEMMA RanksRise ==
    ASSUME NEW S \in SUBSET Nat, IsFiniteSet(S), NEW x \in S
    PROVE  /\ IsFiniteSet(Smaller(S, x)) /\ Cardinality(Smaller(S, x)) \in Nat
           /\ Cardinality(S) \in Nat /\ Cardinality(Smaller(S, x)) < Cardinality(S)
           /\ \A w \in S : w < x => Cardinality(Smaller(S, w)) < Cardinality(Smaller(S, x))
  <1>1. x \in Nat
    OBVIOUS
  <1>2. Smaller(S, x) \subseteq S /\ x \notin Smaller(S, x)
    BY <1>1 DEF Smaller
  <1>3. /\ IsFiniteSet(Smaller(S, x)) /\ Cardinality(Smaller(S, x)) <= Cardinality(S)
        /\ Cardinality(Smaller(S, x)) # Cardinality(S)
    BY <1>2, FS_Subset
  <1>4. Cardinality(Smaller(S, x)) \in Nat /\ Cardinality(S) \in Nat
    BY <1>3, FS_CardinalityType
  <1>5. ASSUME NEW w \in S, w < x
        PROVE  Cardinality(Smaller(S, w)) < Cardinality(Smaller(S, x))
    <2>1. \A y \in S : y \in Nat
      OBVIOUS
    <2>2. Smaller(S, w) \subseteq Smaller(S, x) /\ w \in Smaller(S, x) /\ w \notin Smaller(S, w)
      <3>1. \A y \in S : y < w => y < x
        BY <1>1, <1>5, <2>1
      <3>2. ~(w < w)
        BY <2>1
      <3>3. QED
        BY <1>5, <3>1, <3>2 DEF Smaller
    <2>3. /\ IsFiniteSet(Smaller(S, w)) /\ Cardinality(Smaller(S, w)) <= Cardinality(Smaller(S, x))
          /\ Cardinality(Smaller(S, w)) # Cardinality(Smaller(S, x))
      BY <1>3, <2>2, FS_Subset
    <2>4. Cardinality(Smaller(S, w)) \in Nat
      BY <2>3, FS_CardinalityType
    <2>5. QED
      BY <1>4, <2>3, <2>4
  <1>6. QED
    BY <1>3, <1>4, <1>5

\* The members of a set of numbers take every place in it, each its own.
LEMMA PlacesAreTaken ==
    ASSUME NEW S \in SUBSET Nat, IsFiniteSet(S)
    PROVE  /\ \A i \in 1 .. Cardinality(S) : \E x \in S : Cardinality(Smaller(S, x)) = i - 1
           /\ \A x, w \in S : Cardinality(Smaller(S, x)) = Cardinality(Smaller(S, w)) => x = w
  <1> DEFINE rank(x) == Cardinality(Smaller(S, x))
             free == {i \in 1 .. Cardinality(S) : \A x \in S : rank(x) # i - 1}
  <1>1. Cardinality(S) \in Nat
    BY FS_CardinalityType
  <1>2. ASSUME NEW x \in S
        PROVE  rank(x) \in Nat /\ rank(x) < Cardinality(S) /\ \A w \in S : w < x => rank(w) < rank(x)
    BY RanksRise
  <1>3. \A x, w \in S : rank(x) = rank(w) => x = w
    <2> SUFFICES ASSUME NEW x \in S, NEW w \in S, rank(x) = rank(w)
                 PROVE  x = w
      OBVIOUS
    <2>1. x \in Nat /\ w \in Nat /\ rank(x) \in Nat /\ rank(w) \in Nat
      BY <1>2
    <2>2. ~(w < x) /\ ~(x < w)
      <3>1. w < x => rank(w) < rank(x)
        BY <1>2
      <3>2. x < w => rank(x) < rank(w)
        BY <1>2
      <3> HIDE DEF rank
      <3>3. QED
        BY <2>1, <3>1, <3>2
    <2>3. QED
      BY <2>1, <2>2
  <1>4. free = {}
    <2> SUFFICES ASSUME free # {} PROVE FALSE
      OBVIOUS
    <2>1. PICK i \in free : \A j \in free : i <= j
      <3>1. free \subseteq Nat
        BY <1>1
      <3> HIDE DEF free
      <3>2. QED
        BY <3>1, LeastNumber
    <2>2. i \in Nat /\ 1 <= i /\ i <= Cardinality(S) /\ \A x \in S : rank(x) # i - 1
      BY <1>1, <2>1
    <2>3. CASE i = 1
      <3>1. S # {}
        BY <1>1, <2>2, <2>3, FS_EmptySet
      <3>2. PICK x \in S : \A y \in S : x <= y
        BY <3>1, LeastNumber
      <3>3. Smaller(S, x) = {}
        <4>1. \A y \in S : y \in Nat /\ x \in Nat /\ x <= y
          BY <3>2
        <4>2. \A y \in S : ~(y < x)
          BY <4>1
        <4>3. QED
          BY <4>2 DEF Smaller
      <3>4. rank(x) = 0
        BY <3>3, FS_EmptySet
      <3>5. QED
        BY <2>2, <2>3, <3>4
    <2>4. CASE i # 1
      <3>1. i - 1 \in 1 .. Cardinality(S) /\ ~(i <= i - 1)
        BY <1>1, <2>2, <2>4
      <3>2. PICK x \in S : rank(x) = (i - 1) - 1
        BY <2>1, <3>1
      <3> DEFINE above == {y \in S : x < y}
                 within == Smaller(S, x) \union {x}
      <3>3. /\ IsFiniteSet(within) /\ Cardinality(within) = i - 1
        <4>1. x \notin Smaller(S, x) /\ IsFiniteSet(Smaller(S, x))
          <5>1. x \in Nat /\ ~(x < x)
            OBVIOUS
          <5>2. IsFiniteSet(Smaller(S, x))
            BY RanksRise
          <5>3. QED
            BY <5>1, <5>2 DEF Smaller
        <4>2. IsFiniteSet(within) /\ Cardinality(within) = rank(x) + 1
          BY <4>1, FS_AddElement
        <4> HIDE DEF rank, within
        <4>3. QED
          BY <2>2, <3>2, <4>2
      <3>4. above # {}
        <4> SUFFICES ASSUME above = {} PROVE FALSE
          OBVIOUS
        <4>1. \A y \in S : y \in Nat /\ x \in Nat /\ ~(x < y)
          OBVIOUS
        <4>2. \A y \in S : y < x \/ y = x
          BY <4>1
        <4>3. within = S
          BY <4>2 DEF Smaller
        <4> HIDE DEF within, above
        <4>4. Cardinality(S) = i - 1
          BY <3>3, <4>3
        <4>5. QED
          BY <1>1, <2>2, <4>4
      <3>5. PICK t \in above : \A y \in above : t <= y
        BY <3>4, LeastNumber
      <3>6. t \in S /\ t \in Nat /\ x \in Nat /\ x < t
        BY <3>5
      <3>7. Smaller(S, t) = within
        <4>1. \A y \in S : y \in Nat
          OBVIOUS
        <4>2. ASSUME NEW y \in S, y < t
              PROVE  y < x \/ y = x
          <5>1. y \notin above
            BY <3>5, <3>6, <4>1, <4>2
          <5>2. QED
            BY <3>6, <4>1, <5>1
        <4>3. ASSUME NEW y \in S, y < x \/ y = x
              PROVE  y < t
          BY <3>6, <4>1, <4>3
        <4>4. QED
          BY <4>2, <4>3 DEF Smaller
      <3>8. rank(t) = i - 1
        BY <3>3, <3>7
      <3>9. QED
        BY <2>2, <3>6, <3>8
    <2>5. QED
      BY <2>3, <2>4
  <1>5. QED
    BY <1>3, <1>4

InOrder(S) == Tu!Sorted(S, Tu!Below)

LEMMA SameCounting == \A S : Tu!Cardinality(S) = Cardinality(S)
  BY DEF Tu!Cardinality, Cardinality, Tu!IsFiniteSet, IsFiniteSet

\* What Sorted makes of a set of numbers: its members, each at its place.
LEMMA OrderedMembers ==
    ASSUME NEW S \in SUBSET Nat, IsFiniteSet(S)
    PROVE  /\ Cardinality(S) \in Nat /\ InOrder(S) \in Seq(S) /\ Len(InOrder(S)) = Cardinality(S)
           /\ \A x \in S : \E i \in 1 .. Cardinality(S) : InOrder(S)[i] = x
  <1>1. Cardinality(S) \in Nat
    BY FS_CardinalityType
  <1> DEFINE at(x, i) == Tu!Cardinality({y \in S : y < x}) = i - 1
  <1>2. InOrder(S) = [i \in 1 .. Cardinality(S) |-> CHOOSE x \in S : at(x, i)]
    <2>1. InOrder(S) = [i \in 1 .. Tu!Cardinality(S) |-> CHOOSE x \in S : at(x, i)]
      BY DEF InOrder, Tu!Sorted, Tu!Below
    <2>2. Tu!Cardinality(S) = Cardinality(S)
      BY SameCounting
    <2>3. QED
      BY <2>1, <2>2
  <1>3. ASSUME NEW i \in 1 .. Cardinality(S)
        PROVE  InOrder(S)[i] \in S /\ Cardinality(Smaller(S, InOrder(S)[i])) = i - 1
    <2>1. \A x \in S : at(x, i) <=> Cardinality(Smaller(S, x)) = i - 1
      BY SameCounting DEF Smaller
    <2>2. \E x \in S : at(x, i)
      BY <2>1, PlacesAreTaken
    <2> HIDE DEF at
    <2>3. InOrder(S)[i] = CHOOSE x \in S : at(x, i)
      BY <1>2
    <2>4. InOrder(S)[i] \in S /\ at(InOrder(S)[i], i)
      BY <2>2, <2>3
    <2>5. QED
      BY <2>1, <2>4
  <1> HIDE DEF at
  <1>4. InOrder(S) \in [1 .. Cardinality(S) -> S]
    BY <1>2, <1>3
  <1>5. InOrder(S) \in Seq(S) /\ Len(InOrder(S)) = Cardinality(S)
    BY <1>1, <1>4
  <1>6. ASSUME NEW x \in S
        PROVE  \E i \in 1 .. Cardinality(S) : InOrder(S)[i] = x
    <2> DEFINE i == Cardinality(Smaller(S, x)) + 1
    <2>1. i \in 1 .. Cardinality(S) /\ Cardinality(Smaller(S, x)) = i - 1
      <3>1. Cardinality(Smaller(S, x)) \in Nat /\ Cardinality(Smaller(S, x)) < Cardinality(S)
        BY RanksRise
      <3>2. QED
        BY <1>1, <3>1
    <2>2. InOrder(S)[i] \in S /\ Cardinality(Smaller(S, InOrder(S)[i])) = Cardinality(Smaller(S, x))
      BY <1>3, <2>1
    <2>3. InOrder(S)[i] = x
      <3>1. \A v, w \in S : Cardinality(Smaller(S, v)) = Cardinality(Smaller(S, w)) => v = w
        BY PlacesAreTaken
      <3>2. QED
        BY ONLY <2>2, <3>1, x \in S
    <2>4. QED
      BY <2>1, <2>3
  <1>7. QED
    BY <1>1, <1>5, <1>6

-----------------------------------------------------------------------------
(* The user interface: the invariant.                                      *)

\* What the lists show are numbers, and finitely many at any time; what stands
\* for "no filter" is not an empty one.
Listable ==
    /\ Keys \subseteq [pgn : Nat, src : Nat]
    /\ IsFiniteSet(Rates) /\ IsFiniteSet(MuteRows)
    /\ \A r \in MuteRows : Tu!Header(r) \in MuteRows
    /\ \A src \in Tu!AnySrc : IsFiniteSet(Advertised[src])
    /\ None # {}

AppFields == {"screen", "devices", "time", "menu", "help", "connect", "browser", "override", "prompt", "sources",
              "query", "pgns", "srcs", "splash", "dismissed", "acked", "command", "forget", "out", "quit"}
SessionFields == {"mode", "id", "loaded", "streaming", "error", "saving", "spawned", "running"}

\* A screen with a list, and one with an entry of which there are records.
Listing(s) ==
    /\ s.at \in {"devices", "time", "device", "top", "nmea", "overrides"}
    /\ s.at \notin {"devices", "time"} => {"at", "row"} \subseteq DOMAIN s /\ s.row \in Nat
Entry(s, known) ==
    /\ s.at = "entry" /\ {"at", "src", "pgn", "pos", "back"} \subseteq DOMAIN s /\ s.pos \in Nat \ {0}
    /\ [pgn |-> s.pgn, src |-> s.src] \in known
    /\ Listing(s.back) /\ s.back.at \in {"device", "time"}

\* No dialog but d is open.
NoneBut(a, d) ==
    /\ d # "browser" => a.browser = None
    /\ d # "connect" => ~a.connect
    /\ d # "override" => a.override = None
    /\ d # "prompt" => a.prompt = None
    /\ d # "sources" => a.sources = None
    /\ d # "menu" => a.menu = None
    /\ d # "help" => ~a.help
Closed(a) == NoneBut(a, "none")
OneOpen(a) == \E d \in {"browser", "connect", "override", "prompt", "sources", "menu", "help"} : NoneBut(a, d)

Filters(a) ==
    /\ a.pgns # {} /\ a.srcs # {}
    /\ a.srcs # None => \E src \in Tu!AnySrc : src \notin a.srcs
    /\ a.sources # None => DOMAIN a.sources = {"listed", "selected"} /\ a.sources.listed \subseteq Tu!AnySrc

\* What writes to the bus goes with a live connection.
OnlyLive(a, s) ==
    /\ a.screen.at \in {"nmea", "overrides"} => s.mode = "live"
    /\ a.override # None => s.mode = "live"
    /\ a.out # None => s.mode = "live" /\ a.out.to = s.id

\* What holds of App in session s when `known` was heard.
AppSound(a, s, known) ==
    /\ DOMAIN a = AppFields /\ a.devices \in Nat /\ a.time \in Nat
    /\ a.connect \in BOOLEAN /\ a.help \in BOOLEAN /\ a.browser \in {None, "load", "save"}
    /\ a.menu \in Tu!Titles \union {None}
    /\ Listing(a.screen) \/ Entry(a.screen, known)
    /\ OnlyLive(a, s) /\ Filters(a) /\ OneOpen(a)
    /\ a.command # None => Closed(a) /\ a.out = None /\ a.command \in {"connect", "load", "save"}

DataTyped ==
    /\ history \in Seq(Keys) /\ rates \subseteq Rates /\ DOMAIN mutes \subseteq MuteRows
    /\ DOMAIN session = SessionFields /\ session.mode \in {"live", "log"} /\ session.id \in Nat

PositionIsThere ==
    app.screen.at = "entry" =>
        app.screen.pos <= Len(Tu!HistoryOf([pgn |-> app.screen.pgn, src |-> app.screen.src]))

TuiInv ==
    /\ DataTyped /\ AppSound(app, session, Tu!Seen)
    /\ turn \in {"wait", "command", "draw", "ended"}
    /\ turn = "command" => app.command # None
    /\ turn \in {"wait", "draw"} => app.command = None
    /\ turn = "wait" => PositionIsThere

-----------------------------------------------------------------------------
(* The lists.                                                              *)

RecordsOf(k) == {i \in 1 .. Len(history) : history[i] = k}

LEMMA PlacesAreFinite ==
    ASSUME DataTyped, NEW P \in SUBSET (1 .. Len(history))
    PROVE  Len(history) \in Nat /\ P \in SUBSET Nat /\ IsFiniteSet(P)
  <1>1. Len(history) \in Nat
    BY DEF DataTyped
  <1>2. IsFiniteSet(1 .. Len(history))
    BY <1>1, FS_Interval
  <1>3. IsFiniteSet(P)
    BY <1>2, FS_Subset
  <1>4. \A i \in 1 .. Len(history) : i \in Nat
    BY <1>1
  <1>5. QED
    BY <1>1, <1>3, <1>4

\* The history of a key: a place for every record of it.
LEMMA HistoryHolds ==
    ASSUME DataTyped, NEW k
    PROVE  /\ Len(Tu!HistoryOf(k)) = Cardinality(RecordsOf(k)) /\ Len(Tu!HistoryOf(k)) \in Nat
           /\ DOMAIN Tu!HistoryOf(k) = 1 .. Len(Tu!HistoryOf(k))
           /\ Len(Tu!HistoryOf(k)) > 0 <=> k \in Tu!Seen
           /\ \A i \in RecordsOf(k) : \E p \in 1 .. Len(Tu!HistoryOf(k)) : Tu!HistoryOf(k)[p] = i
  <1>1. RecordsOf(k) \in SUBSET Nat /\ IsFiniteSet(RecordsOf(k))
    BY PlacesAreFinite DEF RecordsOf
  <1>2. Tu!HistoryOf(k) = InOrder(RecordsOf(k))
    BY DEF Tu!HistoryOf, InOrder, RecordsOf
  <1>3. Cardinality(RecordsOf(k)) = 0 <=> RecordsOf(k) = {}
    BY <1>1, FS_EmptySet
  <1>4. k \in Tu!Seen <=> RecordsOf(k) # {}
    BY DEF Tu!Seen, RecordsOf
  <1>5. /\ Cardinality(RecordsOf(k)) \in Nat /\ Len(InOrder(RecordsOf(k))) = Cardinality(RecordsOf(k))
        /\ InOrder(RecordsOf(k)) \in Seq(RecordsOf(k))
        /\ \A i \in RecordsOf(k) : \E p \in 1 .. Cardinality(RecordsOf(k)) : InOrder(RecordsOf(k))[p] = i
    BY <1>1, OrderedMembers
  <1> HIDE DEF RecordsOf
  <1>6. QED
    BY <1>2, <1>3, <1>4, <1>5

\* A record the timeline shows.
LEMMA VisibleIsSeen ==
    ASSUME DataTyped, Listable, NEW v, Tu!At(Tu!Visible, v) # None
    PROVE  LET i == Tu!At(Tu!Visible, v) IN
           /\ v \in 1 .. Len(Tu!Visible) /\ i = Tu!Visible[v] /\ i \in 1 .. Len(history)
           /\ history[i] \in Tu!Seen /\ history[i] = [pgn |-> history[i].pgn, src |-> history[i].src]
           /\ \E p \in 1 .. Len(Tu!HistoryOf(history[i])) : Tu!HistoryOf(history[i])[p] = i
           /\ Len(Tu!HistoryOf(history[i])) \in Nat
  <1> DEFINE P == {i \in 1 .. Len(history) : Tu!RowVisible(i)}
             i == Tu!At(Tu!Visible, v)
  <1>1. P \in SUBSET (1 .. Len(history)) /\ P \in SUBSET Nat /\ IsFiniteSet(P)
    BY PlacesAreFinite
  <1>2. Tu!Visible = InOrder(P)
    BY DEF Tu!Visible, InOrder
  <1> HIDE DEF P
  <1>3. Tu!Visible \in Seq(P)
    BY <1>1, <1>2, OrderedMembers
  <1>4. v \in 1 .. Len(Tu!Visible) /\ i = Tu!Visible[v]
    BY DEF Tu!At
  <1>5. i \in P
    BY <1>3, <1>4
  <1>6. i \in 1 .. Len(history) /\ history[i] \in Keys
    <2>1. \A j \in 1 .. Len(history) : history[j] \in Keys
      BY DEF DataTyped
    <2>2. i \in 1 .. Len(history)
      BY <1>1, <1>5
    <2>3. QED
      BY <2>1, <2>2
  <1>7. history[i] \in Tu!Seen /\ i \in RecordsOf(history[i])
    BY <1>6 DEF Tu!Seen, RecordsOf
  <1>8. history[i] = [pgn |-> history[i].pgn, src |-> history[i].src]
    BY <1>6 DEF Listable
  <1> HIDE DEF i
  <1>9. QED
    BY <1>4, <1>6, <1>7, <1>8, HistoryHolds DEF i

-----------------------------------------------------------------------------
(* What a key does to App, with no dialog open.                            *)

Ready(a) ==
    /\ AppSound(a, session, Tu!Seen) /\ Closed(a) /\ a.out = None /\ a.command = None
    /\ a.screen = app.screen /\ a.time = app.time

\* From the timeline Enter opens the record under the cursor.
FromTimeline(b) ==
    app.screen.at = "time" /\ b.screen.at = "entry" =>
        /\ app.time \in 1 .. Len(Tu!Visible)
        /\ Tu!HistoryOf([pgn |-> b.screen.pgn, src |-> b.screen.src])[b.screen.pos] = Tu!Visible[app.time]

Done(b) == AppSound(b, session, Tu!Seen) /\ FromTimeline(b)

LEMMA ClosedIsOne ==
    ASSUME NEW a, Closed(a)
    PROVE  OneOpen(a) /\ \A d : NoneBut(a, d)
  BY DEF Closed, OneOpen, NoneBut

LEMMA ReadyIsDone ==
    ASSUME NEW a, Ready(a)
    PROVE  Done(a)
  BY DEF Ready, Done, FromTimeline, AppSound, Listing, Entry

\* Another list is shown.
LEMMA GotoList ==
    ASSUME NEW a, Ready(a), NEW s, Listing(s), s.at \in {"nmea", "overrides"} => session.mode = "live"
    PROVE  Done(Tu!Goto(a, s))
  <1> DEFINE b == Tu!Goto(a, s)
  <1>1. /\ DOMAIN b = AppFields /\ b.screen = s
        /\ \A f \in AppFields \ {"screen"} : b[f] = a[f]
    BY DEF Tu!Goto, Ready, AppSound
  <1>2. /\ b.devices = a.devices /\ b.time = a.time /\ b.connect = a.connect /\ b.help = a.help
        /\ b.browser = a.browser /\ b.override = a.override /\ b.prompt = a.prompt /\ b.sources = a.sources
        /\ b.menu = a.menu /\ b.pgns = a.pgns /\ b.srcs = a.srcs /\ b.out = a.out /\ b.command = a.command
    BY <1>1 DEF AppFields
  <1> HIDE DEF b
  <1>3. Closed(b)
    BY <1>2 DEF Ready, Closed, NoneBut
  <1>4. OnlyLive(b, session) /\ Filters(b)
    BY <1>1, <1>2 DEF Ready, AppSound, OnlyLive, Filters
  <1>5. AppSound(b, session, Tu!Seen)
    BY <1>1, <1>2, <1>3, <1>4, ClosedIsOne DEF Ready, AppSound
  <1>6. FromTimeline(b)
    BY <1>1 DEF FromTimeline, Listing
  <1>7. QED
    BY <1>5, <1>6 DEF Done, b

\* An entry is opened, from a device or from the timeline.
LEMMA EntryOpens ==
    ASSUME NEW a, Ready(a), NEW src, NEW pgn, NEW pos \in Nat \ {0}, [pgn |-> pgn, src |-> src] \in Tu!Seen,
           a.screen.at \in {"device", "time"},
           app.screen.at = "time" =>
               app.time \in 1 .. Len(Tu!Visible)
               /\ Tu!HistoryOf([pgn |-> pgn, src |-> src])[pos] = Tu!Visible[app.time]
    PROVE  Done(Tu!OpenEntry(a, src, pgn, pos))
  <1> DEFINE s == [at |-> "entry", src |-> src, pgn |-> pgn, pos |-> pos, back |-> a.screen]
             b == Tu!OpenEntry(a, src, pgn, pos)
  <1>1. /\ DOMAIN b = AppFields /\ b.screen = s
        /\ \A f \in AppFields \ {"screen"} : b[f] = a[f]
    BY DEF Tu!OpenEntry, Tu!Goto, Ready, AppSound
  <1>2. /\ b.devices = a.devices /\ b.time = a.time /\ b.connect = a.connect /\ b.help = a.help
        /\ b.browser = a.browser /\ b.override = a.override /\ b.prompt = a.prompt /\ b.sources = a.sources
        /\ b.menu = a.menu /\ b.pgns = a.pgns /\ b.srcs = a.srcs /\ b.out = a.out /\ b.command = a.command
    BY <1>1 DEF AppFields
  <1>3. Listing(a.screen)
    BY DEF Ready, AppSound, Entry
  <1>4. /\ s.at = "entry" /\ s.src = src /\ s.pgn = pgn /\ s.pos = pos /\ s.back = a.screen
        /\ {"at", "src", "pgn", "pos", "back"} \subseteq DOMAIN s
    OBVIOUS
  <1> HIDE DEF b, s
  <1>5. Entry(s, Tu!Seen)
    BY <1>3, <1>4 DEF Entry
  <1>6. Closed(b)
    BY <1>2 DEF Ready, Closed, NoneBut
  <1>7. OnlyLive(b, session) /\ Filters(b)
    BY <1>1, <1>2, <1>4 DEF Ready, AppSound, OnlyLive, Filters
  <1>8. AppSound(b, session, Tu!Seen)
    BY <1>1, <1>2, <1>5, <1>6, <1>7, ClosedIsOne DEF Ready, AppSound
  <1>9. FromTimeline(b)
    BY <1>1, <1>4 DEF FromTimeline
  <1>10. QED
    BY <1>8, <1>9 DEF Done, b

\* A line is written to the bus, or there is nobody to take it.
LEMMA LineIsSound ==
    ASSUME NEW a, Ready(a), session.mode = "live", NEW what, NEW src, NEW arg, NEW b,
           DOMAIN b = AppFields, b.out \in {Tu!Line(what, src, arg), None},
           \A f \in AppFields \ {"out", "forget"} : b[f] = a[f]
    PROVE  Done(b)
  <1>1. Tu!Line(what, src, arg).to = session.id
    BY DEF Tu!Line
  <1>2. /\ b.devices = a.devices /\ b.time = a.time /\ b.connect = a.connect /\ b.help = a.help
        /\ b.browser = a.browser /\ b.override = a.override /\ b.prompt = a.prompt /\ b.sources = a.sources
        /\ b.menu = a.menu /\ b.pgns = a.pgns /\ b.srcs = a.srcs /\ b.command = a.command /\ b.screen = a.screen
    BY DEF AppFields
  <1>3. Closed(b)
    BY <1>2 DEF Ready, Closed, NoneBut
  <1>4. OnlyLive(b, session) /\ Filters(b)
    BY <1>1, <1>2 DEF Ready, AppSound, OnlyLive, Filters
  <1>5. AppSound(b, session, Tu!Seen)
    BY <1>2, <1>3, <1>4, ClosedIsOne DEF Ready, AppSound
  <1>6. FromTimeline(b)
    <2>1. Done(a)
      BY ReadyIsDone
    <2>2. QED
      BY <1>2, <2>1 DEF FromTimeline, Done
  <1>7. QED
    BY <1>5, <1>6 DEF Done

LEMMA LineGoesOut ==
    ASSUME NEW a, Ready(a), session.mode = "live", NEW what, NEW src, NEW arg, NEW ok \in BOOLEAN, NEW key
    PROVE  LET b == Tu!Sent(a, Tu!Line(what, src, arg), ok)
           IN  Done(b) /\ Done([b EXCEPT !.forget = key])
  <1> DEFINE line == Tu!Line(what, src, arg)
             b == Tu!Sent(a, line, ok)
             c == [b EXCEPT !.forget = key]
  <1>1. /\ DOMAIN b = AppFields /\ b.out \in {line, None}
        /\ \A f \in AppFields \ {"out", "forget"} : b[f] = a[f]
    BY DEF Tu!Sent, Ready, AppSound, AppFields
  <1>2. Done(b)
    BY <1>1, LineIsSound
  <1> HIDE DEF b
  <1>3. /\ DOMAIN c = AppFields /\ c.out \in {line, None}
        /\ \A f \in AppFields \ {"out", "forget"} : c[f] = a[f]
    BY <1>1 DEF AppFields
  <1> HIDE DEF c
  <1>4. Done(c)
    BY <1>3, LineIsSound
  <1>5. QED
    BY <1>2, <1>4 DEF b, c

\* One dialog opens.
LEMMA DialogOpens ==
    ASSUME NEW a, Ready(a), NEW b, NEW d \in {"browser", "connect", "override", "prompt", "sources", "menu", "help"},
           DOMAIN b = AppFields, \A f \in AppFields \ {d} : b[f] = a[f],
           b.connect \in BOOLEAN, b.help \in BOOLEAN, b.browser \in {None, "load", "save"},
           b.menu \in Tu!Titles \union {None},
           b.override # None => session.mode = "live",
           b.sources # None => DOMAIN b.sources = {"listed", "selected"} /\ b.sources.listed \subseteq Tu!AnySrc
    PROVE  Done(b)
  <1>1. /\ b.devices = a.devices /\ b.time = a.time /\ b.pgns = a.pgns /\ b.srcs = a.srcs
        /\ b.out = a.out /\ b.command = a.command /\ b.screen = a.screen
    BY DEF AppFields
  <1>2. NoneBut(b, d)
    BY DEF Ready, Closed, NoneBut, AppFields
  <1>3. OneOpen(b)
    BY <1>2 DEF OneOpen
  <1>4. OnlyLive(b, session) /\ Filters(b)
    BY <1>1 DEF Ready, AppSound, OnlyLive, Filters
  <1>5. AppSound(b, session, Tu!Seen)
    BY <1>1, <1>3, <1>4 DEF Ready, AppSound
  <1>6. FromTimeline(b)
    BY <1>1 DEF FromTimeline, Ready, AppSound, Listing, Entry
  <1>7. QED
    BY <1>5, <1>6 DEF Done

\* The cursors, the filters, the list shown and what is none of the invariant's
\* business change.
LEMMA Adjusted ==
    ASSUME NEW a, Ready(a), NEW b, DOMAIN b = AppFields,
           \A f \in AppFields \ {"time", "devices", "query", "quit", "pgns", "srcs", "screen"} : b[f] = a[f],
           b.time \in Nat, b.devices \in Nat, b.pgns # {}, b.srcs # {},
           b.srcs # None => \E src \in Tu!AnySrc : src \notin b.srcs,
           \/ b.screen = a.screen
           \/ Listing(b.screen) /\ (b.screen.at \in {"nmea", "overrides"} => session.mode = "live")
           \/ a.screen.at # "time" /\ Entry(b.screen, Tu!Seen)
    PROVE  Done(b)
  <1>1. /\ b.connect = a.connect /\ b.help = a.help /\ b.browser = a.browser /\ b.override = a.override
        /\ b.prompt = a.prompt /\ b.sources = a.sources /\ b.menu = a.menu /\ b.out = a.out /\ b.command = a.command
    BY DEF AppFields
  <1>2. Closed(b)
    BY <1>1 DEF Ready, Closed, NoneBut
  <1>3. Filters(b)
    BY <1>1 DEF Ready, AppSound, Filters
  <1>4. OnlyLive(b, session)
    BY <1>1 DEF Ready, AppSound, OnlyLive, Entry
  <1>5. AppSound(b, session, Tu!Seen)
    BY <1>1, <1>2, <1>3, <1>4, ClosedIsOne DEF Ready, AppSound
  <1>6. FromTimeline(b)
    BY <1>1 DEF FromTimeline, Ready, AppSound, Listing, Entry
  <1>7. QED
    BY <1>5, <1>6 DEF Done

\* The dialog that was open is closed.
LEMMA DialogCloses ==
    ASSUME AppSound(app, session, Tu!Seen), app.command = None, NEW d, NoneBut(app, d), NEW b,
           DOMAIN b = AppFields, \A f \in AppFields \ {d, "out", "query"} : b[f] = app[f],
           d \in {"browser", "connect", "override", "prompt", "sources", "menu", "help", "none"},
           b.out = None, Closed(b), b.connect \in BOOLEAN, b.help \in BOOLEAN
    PROVE  Ready(b)
  <1>1. /\ b.devices = app.devices /\ b.time = app.time /\ b.pgns = app.pgns /\ b.srcs = app.srcs
        /\ b.command = app.command /\ b.screen = app.screen
    BY DEF AppFields
  <1>2. OnlyLive(b, session)
    BY <1>1 DEF AppSound, OnlyLive, Closed, NoneBut
  <1>3. Filters(b)
    BY <1>1 DEF AppSound, Filters, Closed, NoneBut
  <1>4. AppSound(b, session, Tu!Seen)
    BY <1>1, <1>2, <1>3, ClosedIsOne DEF AppSound, Closed, NoneBut
  <1>5. QED
    BY <1>1, <1>4 DEF Ready

\* The cursor goes to a row, or stays.
LEMMA JumpMoves ==
    ASSUME DataTyped, NEW a, NEW dir \in {-1, 0, 1}
    PROVE  Tu!JumpSearch(a, dir) = a \/ \E t \in Nat : Tu!JumpSearch(a, dir) = [a EXCEPT !.time = t]
  <1> DEFINE hits == {v \in 1 .. Len(Tu!Visible) : history[Tu!Visible[v]].pgn = a.query}
             cur == IF a.time = 0 THEN 1 ELSE a.time
             ahead == {v \in hits : IF dir = 0 THEN v >= cur ELSE IF dir = 1 THEN v > cur ELSE v < cur}
             S == IF ahead = {} THEN hits ELSE ahead
             least == CHOOSE v \in S : \A w \in S : v <= w
             greatest == CHOOSE v \in S : \A w \in S : v >= w
  <1> SUFFICES ASSUME a.query # None, hits # {}
               PROVE  \E t \in Nat : Tu!JumpSearch(a, dir) = [a EXCEPT !.time = t]
    BY DEF Tu!JumpSearch
  <1>1. Tu!JumpSearch(a, dir) = [a EXCEPT !.time = IF dir = -1 THEN greatest ELSE least]
    BY DEF Tu!JumpSearch
  <1>2. Len(Tu!Visible) \in Nat
    <2> DEFINE P == {i \in 1 .. Len(history) : Tu!RowVisible(i)}
    <2>1. P \in SUBSET Nat /\ IsFiniteSet(P)
      BY PlacesAreFinite
    <2>2. Tu!Visible = InOrder(P)
      BY DEF Tu!Visible, InOrder
    <2> HIDE DEF P
    <2>3. QED
      BY <2>1, <2>2, OrderedMembers
  <1>3. S # {} /\ S \subseteq 1 .. Len(Tu!Visible) /\ S \subseteq Nat
    BY <1>2
  <1> HIDE DEF S
  <1>4. \E v \in S : \A w \in S : v <= w
    BY <1>2, <1>3, LeastNumber
  <1>5. \E v \in S : \A w \in S : v >= w
    <2> DEFINE n == Len(Tu!Visible)
               M == {n - v : v \in S}
    <2>1. \A v \in S : v \in Nat /\ v <= n /\ n - v \in Nat
      BY <1>2, <1>3
    <2>2. M \subseteq Nat /\ M # {}
      BY <1>3, <2>1
    <2>3. PICK m \in M : \A k \in M : m <= k
      BY <2>2, LeastNumber
    <2>4. PICK v \in S : m = n - v
      BY <2>3
    <2>5. \A w \in S : n - v <= n - w
      BY <2>3, <2>4
    <2> HIDE DEF n
    <2>6. QED
      BY <1>2, <2>1, <2>4, <2>5 DEF n
  <1>6. least \in Nat /\ greatest \in Nat
    BY <1>3, <1>4, <1>5
  <1>7. (IF dir = -1 THEN greatest ELSE least) \in Nat
    BY <1>6
  <1>8. QED
    BY <1>1, <1>7

-----------------------------------------------------------------------------
(* The lengths of the lists.                                               *)

LEMMA FiniteImage ==
    ASSUME NEW S, IsFiniteSet(S), NEW f, DOMAIN f = S
    PROVE  IsFiniteSet({f[x] : x \in S})
  <1> DEFINE T == {f[x] : x \in S}
  <1>1. \E g : g \in Surjection(S, T)
    <2>1. \E g : g = [x \in S |-> f[x]]
      OBVIOUS
    <2>2. PICK g : g = [x \in S |-> f[x]]
      BY <2>1
    <2>3. g \in Surjection(S, T)
      BY <2>2 DEF Surjection
    <2>4. QED
      BY <2>3
  <1>2. QED
    BY <1>1, FS_Surjection

LEMMA SeenIsFinite ==
    ASSUME DataTyped, Listable
    PROVE  /\ IsFiniteSet(Tu!Seen) /\ Tu!Seen \subseteq Keys
           /\ IsFiniteSet({k.src : k \in Tu!Seen})
           /\ IsFiniteSet({k.pgn : k \in Tu!Seen})
           /\ \A src : IsFiniteSet({k.pgn : k \in {k \in Tu!Seen : k.src = src}})
  <1>1. Len(history) \in Nat /\ DOMAIN history = 1 .. Len(history) /\ \A i \in 1 .. Len(history) : history[i] \in Keys
    BY DEF DataTyped
  <1>2. IsFiniteSet(1 .. Len(history))
    BY <1>1, FS_Interval
  <1>3. IsFiniteSet(Tu!Seen) /\ Tu!Seen \subseteq Keys
    BY <1>1, <1>2, FiniteImage DEF Tu!Seen
  <1>4. ASSUME NEW S \in SUBSET Tu!Seen
        PROVE  IsFiniteSet({k.pgn : k \in S})
    <2> DEFINE f == [k \in S |-> k.pgn]
    <2>1. IsFiniteSet(S)
      BY <1>3, FS_Subset
    <2>2. IsFiniteSet({f[k] : k \in S})
      <3>1. DOMAIN f = S
        OBVIOUS
      <3> HIDE DEF f
      <3>2. QED
        BY <2>1, <3>1, FiniteImage
    <2>3. {f[k] : k \in S} = {k.pgn : k \in S}
      OBVIOUS
    <2>4. QED
      BY <2>2, <2>3
  <1>5. IsFiniteSet({k.src : k \in Tu!Seen})
    <2> DEFINE f == [k \in Tu!Seen |-> k.src]
    <2>1. IsFiniteSet({f[k] : k \in Tu!Seen})
      <3>1. DOMAIN f = Tu!Seen
        OBVIOUS
      <3> HIDE DEF f
      <3>2. QED
        BY <1>3, <3>1, FiniteImage
    <2>2. {f[k] : k \in Tu!Seen} = {k.src : k \in Tu!Seen}
      OBVIOUS
    <2>3. QED
      BY <2>1, <2>2
  <1>6. IsFiniteSet({k.pgn : k \in Tu!Seen})
    BY <1>4
  <1>7. \A src : IsFiniteSet({k.pgn : k \in {k \in Tu!Seen : k.src = src}})
    BY <1>4
  <1>8. QED
    BY <1>3, <1>5, <1>6, <1>7

\* The PGNs listed for a device; of one that is live there are records.
LEMMA DetailsAreSeen ==
    ASSUME DataTyped, Listable, NEW R \in SUBSET Rates, NEW src
    PROVE  /\ Len(Tu!DetailRows(R, src)) \in Nat
           /\ \A i : LET row == Tu!At(Tu!DetailRows(R, src), i) IN
                     row # None /\ row.live => [pgn |-> row.pgn, src |-> src] \in Tu!Seen
  <1> DEFINE live == {k.pgn : k \in {k \in Tu!Seen : k.src = src}}
             silenced == {o.pgn : o \in {o \in R : o.src = src /\ o.off}}
             offered == IF PgnList \in live THEN Advertised[src] ELSE {}
             all == live \union silenced \union offered
             pgns == Tu!Sorted(all, Tu!Below)
  <1>1. Tu!DetailRows(R, src) = [i \in DOMAIN pgns |-> [pgn |-> pgns[i], live |-> pgns[i] \in live]]
    BY DEF Tu!DetailRows
  <1>2. IsFiniteSet(all)
    <2>1. IsFiniteSet(live)
      BY SeenIsFinite
    <2>2. IsFiniteSet(silenced)
      <3> DEFINE S == {o \in R : o.src = src /\ o.off}
                 f == [o \in S |-> o.pgn]
      <3>1. IsFiniteSet(S)
        BY FS_Subset DEF Listable
      <3>2. DOMAIN f = S
        OBVIOUS
      <3> HIDE DEF f, S
      <3>3. IsFiniteSet({f[o] : o \in S})
        BY <3>1, <3>2, FiniteImage
      <3>4. {f[o] : o \in S} = silenced
        BY DEF f, S
      <3>5. QED
        BY <3>3, <3>4
    <2>3. IsFiniteSet(offered)
      <3>1. ASSUME live # {}
            PROVE  src \in Tu!AnySrc
        BY <3>1, SeenIsFinite DEF Tu!AnySrc
      <3>2. QED
        BY <3>1, FS_EmptySet DEF Listable
    <2> HIDE DEF live, silenced, offered
    <2>4. QED
      BY <2>1, <2>2, <2>3, FS_Union
  <1>3. DOMAIN pgns = 1 .. Cardinality(all) /\ Cardinality(all) \in Nat
    BY <1>2, FS_CardinalityType, SameCounting DEF Tu!Sorted
  <1> HIDE DEF pgns
  <1>4. Len(Tu!DetailRows(R, src)) = Cardinality(all) /\ Len(Tu!DetailRows(R, src)) \in Nat
    BY <1>1, <1>3
  <1>5. ASSUME NEW i, Tu!At(Tu!DetailRows(R, src), i) # None, Tu!At(Tu!DetailRows(R, src), i).live
        PROVE  [pgn |-> Tu!At(Tu!DetailRows(R, src), i).pgn, src |-> src] \in Tu!Seen
    <2>1. i \in 1 .. Cardinality(all) /\ Tu!At(Tu!DetailRows(R, src), i) = Tu!DetailRows(R, src)[i]
      BY <1>4, <1>5 DEF Tu!At
    <2>2. Tu!DetailRows(R, src)[i] = [pgn |-> pgns[i], live |-> pgns[i] \in live]
      BY <1>1, <1>3, <2>1
    <2>3. pgns[i] \in live
      <3>1. Tu!DetailRows(R, src)[i].live = (pgns[i] \in live)
        BY <2>2
      <3> HIDE DEF live
      <3>2. QED
        BY <1>5, <2>1, <3>1, Zenon
    <2>4. PICK k \in Tu!Seen : k.src = src /\ k.pgn = pgns[i]
      BY <2>3
    <2>5. k = [pgn |-> pgns[i], src |-> src]
      BY <2>4, SeenIsFinite DEF Listable
    <2>6. QED
      BY <2>1, <2>2, <2>4, <2>5
  <1>6. QED
    BY <1>4, <1>5

ListScreens == {"devices", "device", "time", "top", "nmea", "overrides"}

LEMMA LengthsAreNumbers ==
    ASSUME DataTyped, Listable, NEW R \in SUBSET Rates, NEW a, a.screen.at \in ListScreens
    PROVE  Tu!Length(R, a) \in Nat
  <1>1. Len(Tu!DeviceList) \in Nat
    BY SeenIsFinite, FS_CardinalityType, SameCounting DEF Tu!DeviceList, Tu!Sorted
  <1>2. Len(Tu!DetailRows(R, a.screen.src)) \in Nat
    BY DetailsAreSeen
  <1>3. Len(Tu!Visible) \in Nat
    <2> DEFINE P == {i \in 1 .. Len(history) : Tu!RowVisible(i)}
    <2>1. P \in SUBSET Nat /\ IsFiniteSet(P)
      BY PlacesAreFinite
    <2>2. Tu!Visible = InOrder(P)
      BY DEF Tu!Visible, InOrder
    <2> HIDE DEF P
    <2>3. QED
      BY <2>1, <2>2, OrderedMembers
  <1>4. Len(Tu!PgnLoadRows) \in Nat
    BY SeenIsFinite, FS_CardinalityType, SameCounting DEF Tu!PgnLoadRows, Tu!Sorted
  <1>5. Len(Tu!FilterRows) \in Nat
    <2>1. IsFiniteSet(DOMAIN mutes)
      BY FS_Subset DEF Listable, DataTyped
    <2>2. QED
      BY <2>1, FS_CardinalityType, SameCounting DEF Tu!FilterRows, Tu!Sorted
  <1>6. Len(Tu!OverrideRows(R)) \in Nat
    <2>1. IsFiniteSet(R)
      BY FS_Subset DEF Listable
    <2>2. QED
      BY <2>1, FS_CardinalityType, SameCounting DEF Tu!OverrideRows, Tu!Sorted
  <1>7. QED
    BY <1>1, <1>2, <1>3, <1>4, <1>5, <1>6 DEF Tu!Length, ListScreens

-----------------------------------------------------------------------------
(* The keys and the menu items, with no dialog open.                       *)

LEMMA EnterOpens ==
    ASSUME DataTyped, Listable, NEW a, Ready(a), NEW ok \in BOOLEAN
    PROVE  Done(Tu!ActivateSelection(a, ok))
  <1>1. Done(a)
    BY ReadyIsDone
  <1>2. CASE a.screen.at = "devices"
    <2> DEFINE src == Tu!At(Tu!DeviceList, a.devices)
               s == [at |-> "device", src |-> src, row |-> 1]
    <2>1. Tu!ActivateSelection(a, ok) = IF src = None THEN a ELSE Tu!Goto(a, s)
      BY <1>2 DEF Tu!ActivateSelection, Tu!OpenDevice
    <2>2. Listing(s) /\ s.at = "device"
      BY DEF Listing
    <2>3. Done(Tu!Goto(a, s))
      BY <2>2, GotoList
    <2>4. QED
      BY <1>1, <2>1, <2>3
  <1>3. CASE a.screen.at = "device"
    <2> DEFINE src == a.screen.src
               row == Tu!At(Tu!DetailRows(rates, src), a.screen.row)
               pos == Len(Tu!HistoryOf([pgn |-> row.pgn, src |-> src]))
    <2>1. Tu!ActivateSelection(a, ok) = IF row = None \/ ~row.live THEN a ELSE Tu!OpenEntry(a, src, row.pgn, pos)
      BY <1>3 DEF Tu!ActivateSelection, Tu!DrillIntoDetail
    <2>2. ASSUME row # None, row.live
          PROVE  Done(Tu!OpenEntry(a, src, row.pgn, pos))
      <3>1. [pgn |-> row.pgn, src |-> src] \in Tu!Seen
        BY <2>2, DetailsAreSeen DEF DataTyped
      <3>2. pos \in Nat \ {0}
        BY <3>1, HistoryHolds
      <3>3. app.screen.at = "device"
        BY <1>3 DEF Ready
      <3> HIDE DEF row, pos, src
      <3>4. QED
        BY <1>3, <3>1, <3>2, <3>3, EntryOpens
    <2> HIDE DEF row, pos, src
    <2>3. QED
      BY <1>1, <2>1, <2>2
  <1>4. CASE a.screen.at = "time"
    <2> DEFINE i == Tu!At(Tu!Visible, a.time)
               H == Tu!HistoryOf(history[i])
               pos == CHOOSE p \in DOMAIN H : H[p] = i
    <2>1. Tu!ActivateSelection(a, ok) = IF i = None THEN a ELSE Tu!OpenEntry(a, history[i].src, history[i].pgn, pos)
      BY <1>4 DEF Tu!ActivateSelection, Tu!DrillIntoTime
    <2>2. ASSUME i # None
          PROVE  Done(Tu!OpenEntry(a, history[i].src, history[i].pgn, pos))
      <3>1. /\ a.time \in 1 .. Len(Tu!Visible) /\ i = Tu!Visible[a.time]
            /\ history[i] \in Tu!Seen /\ history[i] = [pgn |-> history[i].pgn, src |-> history[i].src]
            /\ \E p \in 1 .. Len(H) : H[p] = i
            /\ Len(H) \in Nat
        BY <2>2, VisibleIsSeen
      <3>2. pos \in 1 .. Len(H) /\ H[pos] = i
        <4>1. DOMAIN H = 1 .. Len(H)
          BY HistoryHolds
        <4>2. QED
          BY <3>1, <4>1
      <3> HIDE DEF pos, H, i
      <3>3. pos \in Nat \ {0}
        BY <3>1, <3>2
      <3>4. app.time = a.time
        BY DEF Ready
      <3>5. H = Tu!HistoryOf([pgn |-> history[i].pgn, src |-> history[i].src])
        BY <3>1 DEF H
      <3>6. QED
        BY <1>4, <3>1, <3>2, <3>3, <3>4, <3>5, EntryOpens
    <2> HIDE DEF i, pos
    <2>3. QED
      BY <1>1, <2>1, <2>2
  <1>5. CASE a.screen.at = "nmea"
    <2> DEFINE r == Tu!At(Tu!FilterRows, a.screen.row)
    <2>1. Tu!ActivateSelection(a, ok) = IF r = None THEN a ELSE Tu!Sent(a, Tu!Line("mute", r.src, ~mutes[r]), ok)
      BY <1>5 DEF Tu!ActivateSelection, Tu!ToggleMute
    <2>2. session.mode = "live"
      BY <1>5 DEF Ready, AppSound, OnlyLive
    <2>3. Done(Tu!Sent(a, Tu!Line("mute", r.src, ~mutes[r]), ok))
      BY <2>2, LineGoesOut
    <2>4. QED
      BY <1>1, <2>1, <2>3
  <1>6. CASE a.screen.at = "overrides"
    <2> DEFINE o == Tu!At(Tu!OverrideRows(rates), a.screen.row)
               b == [a EXCEPT !.override = [src |-> o.src, pgn |-> o.pgn]]
    <2>1. Tu!ActivateSelection(a, ok) = IF o = None THEN a ELSE b
      BY <1>6 DEF Tu!ActivateSelection, Tu!EditRate
    <2>2. session.mode = "live"
      BY <1>6 DEF Ready, AppSound, OnlyLive
    <2>3. /\ DOMAIN b = AppFields /\ \A f \in AppFields \ {"override"} : b[f] = a[f]
          /\ b.connect = a.connect /\ b.help = a.help /\ b.sources = a.sources /\ b.browser = a.browser /\ b.menu = a.menu
      BY DEF Ready, AppSound, AppFields
    <2>4. a.connect \in BOOLEAN /\ a.help \in BOOLEAN /\ a.sources = None /\ a.browser = None /\ a.menu = None
      BY DEF Ready, AppSound, Closed, NoneBut
    <2> HIDE DEF b, o
    <2>5. Done(b)
      BY <2>2, <2>3, <2>4, DialogOpens
    <2>6. QED
      BY <1>1, <2>1, <2>5
  <1>7. CASE a.screen.at \notin {"devices", "device", "time", "nmea", "overrides"}
    BY <1>1, <1>7 DEF Tu!ActivateSelection
  <1>8. QED
    BY <1>2, <1>3, <1>4, <1>5, <1>6, <1>7

LEMMA BackGoes ==
    ASSUME NEW a, Ready(a)
    PROVE  Done(Tu!GoBack(a))
  <1>1. Listing(Tu!Devices) /\ Tu!Devices.at = "devices"
    BY DEF Listing, Tu!Devices
  <1>2. Done(Tu!Goto(a, Tu!Devices))
    BY <1>1, GotoList
  <1>3. CASE a.screen.at = "entry"
    <2>1. Listing(a.screen.back) /\ a.screen.back.at \in {"device", "time"}
      BY <1>3 DEF Ready, AppSound, Listing, Entry
    <2>2. Done(Tu!Goto(a, a.screen.back))
      BY <2>1, GotoList
    <2>3. QED
      BY <1>3, <2>2 DEF Tu!GoBack
  <1>4. QED
    BY <1>2, <1>3 DEF Tu!GoBack

\* A view that lists, from its first row on.
LEMMA ViewOpens ==
    ASSUME NEW a, Ready(a), NEW view \in {"devices", "time", "top", "nmea", "overrides"},
           view \in {"nmea", "overrides"} => session.mode = "live"
    PROVE  /\ view \notin {"devices", "time"} => Done(Tu!Goto(a, [at |-> view, row |-> 1]))
           /\ Done(Tu!Goto(a, Tu!Devices)) /\ Done(Tu!Goto(a, Tu!TimeView))
  <1>1. Listing(Tu!Devices) /\ Listing(Tu!TimeView) /\ Tu!Devices.at = "devices" /\ Tu!TimeView.at = "time"
    BY DEF Listing, Tu!Devices, Tu!TimeView
  <1>2. ASSUME view \notin {"devices", "time"}
        PROVE  Done(Tu!Goto(a, [at |-> view, row |-> 1]))
    <2> DEFINE s == [at |-> view, row |-> 1]
    <2>1. Listing(s) /\ s.at = view
      BY <1>2 DEF Listing
    <2> HIDE DEF s
    <2>2. Done(Tu!Goto(a, s))
      BY <2>1, GotoList
    <2>3. QED
      BY <2>2 DEF s
  <1>3. QED
    BY <1>1, <1>2, GotoList

LEMMA JumpIsDone ==
    ASSUME DataTyped, NEW a, Ready(a), NEW dir \in {-1, 0, 1}
    PROVE  Done(Tu!JumpSearch(a, dir))
  <1>1. CASE Tu!JumpSearch(a, dir) = a
    BY <1>1, ReadyIsDone
  <1>2. ASSUME NEW t \in Nat
        PROVE  Done([a EXCEPT !.time = t])
    <2> DEFINE b == [a EXCEPT !.time = t]
    <2>1. /\ DOMAIN b = AppFields /\ \A f \in AppFields \ {"time"} : b[f] = a[f]
          /\ b.time = t /\ b.devices = a.devices /\ b.pgns = a.pgns /\ b.srcs = a.srcs /\ b.screen = a.screen
      BY DEF Ready, AppSound, AppFields
    <2> HIDE DEF b
    <2>2. Done(b)
      BY <2>1, Adjusted DEF Ready, AppSound, Filters
    <2>3. QED
      BY <2>2 DEF b
  <1>3. QED
    BY <1>1, <1>2, JumpMoves

LEMMA SourcesOpen ==
    ASSUME DataTyped, Listable, NEW a, Ready(a)
    PROVE  Done(Tu!SourcesDialog(a))
  <1> DEFINE listed == {k.src : k \in Tu!Seen}
             sel == IF a.srcs = None THEN listed ELSE a.srcs
             dialog == [listed |-> listed, selected |-> sel]
             b == [a EXCEPT !.sources = dialog]
  <1>1. Tu!SourcesDialog(a) = b
    BY DEF Tu!SourcesDialog
  <1>2. listed \subseteq Tu!AnySrc
    BY SeenIsFinite DEF Tu!AnySrc
  <1>3. DOMAIN dialog = {"listed", "selected"} /\ dialog.listed \subseteq Tu!AnySrc
    BY <1>2
  <1> HIDE DEF dialog
  <1>4. /\ DOMAIN b = AppFields /\ \A f \in AppFields \ {"sources"} : b[f] = a[f]
        /\ b.connect = a.connect /\ b.help = a.help /\ b.browser = a.browser
        /\ b.override = a.override /\ b.sources = dialog /\ b.menu = a.menu
    BY DEF Ready, AppSound, AppFields
  <1>5. a.connect \in BOOLEAN /\ a.help \in BOOLEAN /\ a.override = None /\ a.browser = None /\ a.menu = None
    BY DEF Ready, AppSound, Closed, NoneBut
  <1> HIDE DEF b
  <1>6. QED
    BY <1>1, <1>3, <1>4, <1>5, DialogOpens

-----------------------------------------------------------------------------
(* Where a key goes, and what every key does first.                        *)

\* The place a key goes to tells what is open.
LEMMA FocusTells ==
    ASSUME TuiInv
    PROVE  /\ \A d \in {"browser", "connect", "override", "prompt", "sources", "menu", "help"} :
                Tu!Focus = d => NoneBut(app, d)
           /\ Tu!Focus = "screen" => Closed(app)
           /\ Tu!Focus = "browser" => app.browser \in {"load", "save"}
  <1>1. PICK d \in {"browser", "connect", "override", "prompt", "sources", "menu", "help"} : NoneBut(app, d)
    BY DEF TuiInv, AppSound, OneOpen
  <1>2. Tu!Focus = "help" => app.help
    BY DEF Tu!Focus
  <1>3. Tu!Focus = "menu" => app.menu # None
    BY DEF Tu!Focus
  <1>4. Tu!Focus = "browser" => app.browser # None
    BY DEF Tu!Focus
  <1>5. Tu!Focus = "connect" => app.connect
    BY DEF Tu!Focus
  <1>6. Tu!Focus = "override" => app.override # None
    BY DEF Tu!Focus
  <1>7. Tu!Focus = "prompt" => app.prompt # None
    BY DEF Tu!Focus
  <1>8. Tu!Focus = "sources" => app.sources # None
    BY DEF Tu!Focus
  <1>9. Tu!Focus = "screen" => /\ ~app.help /\ app.menu = None /\ app.browser = None /\ ~app.connect
                               /\ app.override = None /\ app.prompt = None /\ app.sources = None
    BY DEF Tu!Focus
  <1>10. app.browser \in {None, "load", "save"}
    BY DEF TuiInv, AppSound
  <1>11. QED
    BY <1>1, <1>2, <1>3, <1>4, <1>5, <1>6, <1>7, <1>8, <1>9, <1>10 DEF NoneBut, Closed

\* Nothing but what the last key sent and flags that open no dialog change.
LEMMA QuietIsSound ==
    ASSUME AppSound(app, session, Tu!Seen), app.command = None, NEW b, DOMAIN b = AppFields, b.out = None,
           \A f \in AppFields \ {"out", "quit", "splash", "acked", "dismissed"} : b[f] = app[f]
    PROVE  Done(b)
  <1>1. /\ b.devices = app.devices /\ b.time = app.time /\ b.connect = app.connect /\ b.help = app.help
        /\ b.browser = app.browser /\ b.override = app.override /\ b.prompt = app.prompt /\ b.sources = app.sources
        /\ b.menu = app.menu /\ b.pgns = app.pgns /\ b.srcs = app.srcs /\ b.command = app.command
        /\ b.screen = app.screen
    BY DEF AppFields
  <1>2. OnlyLive(b, session) /\ Filters(b)
    BY <1>1 DEF AppSound, OnlyLive, Filters
  <1>3. OneOpen(b)
    BY <1>1 DEF AppSound, OneOpen, NoneBut
  <1>4. AppSound(b, session, Tu!Seen)
    BY <1>1, <1>2, <1>3 DEF AppSound
  <1>5. FromTimeline(b)
    BY <1>1 DEF FromTimeline
  <1>6. QED
    BY <1>4, <1>5 DEF Done

\* The dialog that was open stays, and what it shows changes.
LEMMA DialogStays ==
    ASSUME AppSound(app, session, Tu!Seen), app.command = None, NEW d \in {"menu", "sources"}, NoneBut(app, d),
           NEW b, DOMAIN b = AppFields, b.out = None, \A f \in AppFields \ {"out", d} : b[f] = app[f],
           b.menu \in Tu!Titles \union {None},
           b.sources # None => DOMAIN b.sources = {"listed", "selected"} /\ b.sources.listed \subseteq Tu!AnySrc
    PROVE  Done(b)
  <1>1. /\ b.devices = app.devices /\ b.time = app.time /\ b.connect = app.connect /\ b.help = app.help
        /\ b.browser = app.browser /\ b.override = app.override /\ b.prompt = app.prompt
        /\ b.pgns = app.pgns /\ b.srcs = app.srcs /\ b.command = app.command /\ b.screen = app.screen
    BY DEF AppFields
  <1>2. d # "menu" => b.menu = app.menu
    BY DEF AppFields
  <1>3. d # "sources" => b.sources = app.sources
    BY DEF AppFields
  <1>4. OnlyLive(b, session) /\ Filters(b)
    BY <1>1 DEF AppSound, OnlyLive, Filters
  <1>5. OneOpen(b)
    BY <1>1, <1>2, <1>3 DEF OneOpen, NoneBut
  <1>6. AppSound(b, session, Tu!Seen)
    BY <1>1, <1>4, <1>5 DEF AppSound
  <1>7. FromTimeline(b)
    BY <1>1 DEF FromTimeline
  <1>8. QED
    BY <1>6, <1>7 DEF Done

\* A command is recorded, for the loop to carry out.
LEMMA CommandIsRecorded ==
    ASSUME NEW a, Ready(a), NEW c \in {"connect", "load", "save"}, NEW b, DOMAIN b = AppFields, b.command = c,
           \A f \in AppFields \ {"command"} : b[f] = a[f]
    PROVE  Done(b)
  <1>1. /\ b.devices = a.devices /\ b.time = a.time /\ b.connect = a.connect /\ b.help = a.help
        /\ b.browser = a.browser /\ b.override = a.override /\ b.prompt = a.prompt /\ b.sources = a.sources
        /\ b.menu = a.menu /\ b.pgns = a.pgns /\ b.srcs = a.srcs /\ b.screen = a.screen /\ b.out = a.out
    BY DEF AppFields
  <1>2. Closed(b)
    BY <1>1 DEF Ready, Closed, NoneBut
  <1>3. OnlyLive(b, session) /\ Filters(b)
    BY <1>1 DEF Ready, AppSound, OnlyLive, Filters
  <1>4. AppSound(b, session, Tu!Seen)
    BY <1>1, <1>2, <1>3, ClosedIsOne DEF Ready, AppSound
  <1>5. FromTimeline(b)
    <2>1. Done(a)
      BY ReadyIsDone
    <2>2. QED
      BY <1>1, <2>1 DEF FromTimeline, Done
  <1>6. QED
    BY <1>4, <1>5 DEF Done

\* The place of a key in the loop.
LEMMA PressKeeps ==
    ASSUME TuiInv, NEW focus, NEW a, Tu!Press(focus, a), Done(a)
    PROVE  TuiInv' /\ Tu!KeysKeepTheirWord
  <1>1. /\ turn = "wait" /\ app' = a /\ session' = session /\ history' = history /\ rates' = rates /\ mutes' = mutes
        /\ turn' = IF a.quit THEN "ended" ELSE IF a.command # None THEN "command" ELSE "draw"
    BY DEF Tu!Press, Tu!data
  <1>2. DataTyped'
    BY <1>1 DEF TuiInv, DataTyped
  <1>3. Tu!Seen' = Tu!Seen
    BY <1>1 DEF Tu!Seen
  <1>4. AppSound(app, session, Tu!Seen)'
    BY <1>1, <1>3 DEF Done
  <1>5. TuiInv'
    BY <1>1, <1>2, <1>4 DEF TuiInv
  <1>6. ~Tu!Draw
    BY <1>1 DEF Tu!Draw
  <1>7. QED
    BY <1>1, <1>5, <1>6 DEF Tu!KeysKeepTheirWord, Done, FromTimeline

-----------------------------------------------------------------------------
(* The keys, one lemma for each place a key goes to.                       *)

\* The app without what the last key sent.
LEMMA QuietFields ==
    ASSUME TuiInv
    PROVE  /\ DOMAIN Tu!Quiet = AppFields /\ Tu!Quiet.out = None
           /\ \A f \in AppFields \ {"out"} : Tu!Quiet[f] = app[f]
  BY DEF TuiInv, AppSound, Tu!Quiet, AppFields

LEMMA FirstKeys ==
    ASSUME TuiInv, Tu!CtrlC \/ Tu!SkipSplash \/ Tu!Acknowledge \/ Tu!DismissConnecting
    PROVE  TuiInv' /\ Tu!KeysKeepTheirWord
  <1> DEFINE q == Tu!Quiet
             b1 == [q EXCEPT !.quit = TRUE]
             b2 == [q EXCEPT !.splash = FALSE]
             b3 == [q EXCEPT !.acked = session.error]
             b4 == [q EXCEPT !.dismissed = TRUE]
  <1>1. \E focus, b : b \in {b1, b2, b3, b4} /\ Tu!Press(focus, b)
    <2> USE DEF Tu!CtrlC, Tu!SkipSplash, Tu!Acknowledge, Tu!DismissConnecting
    <2> DEFINE set == {b1, b2, b3, b4}
    <2>1. b1 \in set /\ b2 \in set /\ b3 \in set /\ b4 \in set
      OBVIOUS
    <2>2. CASE Tu!CtrlC
      <3>1. PICK focus : Tu!Press(focus, b1)
        BY <2>2
      <3> HIDE DEF b1, set
      <3>2. QED
        BY <2>1, <3>1
    <2>3. CASE Tu!SkipSplash
      <3>1. Tu!Press("splash", b2)
        BY <2>3
      <3> HIDE DEF b2, set
      <3>2. QED
        BY <2>1, <3>1
    <2>4. CASE Tu!Acknowledge
      <3>1. Tu!Press("error", b3)
        BY <2>4
      <3> HIDE DEF b3, set
      <3>2. QED
        BY <2>1, <3>1
    <2>5. CASE Tu!DismissConnecting
      <3>1. Tu!Press("connecting", b4)
        BY <2>5
      <3> HIDE DEF b4, set
      <3>2. QED
        BY <2>1, <3>1
    <2>6. QED
      BY <2>2, <2>3, <2>4, <2>5
  <1>2. /\ DOMAIN q = AppFields /\ q.out = None /\ \A f \in AppFields \ {"out"} : q[f] = app[f]
    BY QuietFields
  <1>3. PICK focus, b : b \in {b1, b2, b3, b4} /\ Tu!Press(focus, b)
    BY <1>1
  <1> HIDE DEF q
  <1>4. /\ DOMAIN b = AppFields /\ b.out = None
        /\ \A f \in AppFields \ {"out", "quit", "splash", "acked", "dismissed"} : b[f] = app[f]
    BY <1>2, <1>3 DEF AppFields
  <1>5. AppSound(app, session, Tu!Seen) /\ app.command = None
    BY <1>3 DEF TuiInv, Tu!Press
  <1> HIDE DEF b1, b2, b3, b4
  <1>6. Done(b)
    BY <1>4, <1>5, QuietIsSound
  <1>7. QED
    BY <1>3, <1>6, PressKeeps

\* A dialog closes, without a word.
LEMMA DialogCancelled ==
    ASSUME TuiInv, Tu!DismissHelp \/ Tu!MenuClose \/ Tu!BrowserCancel \/ Tu!ConnectCancel \/ Tu!OverrideCancel
                   \/ Tu!PromptCancel \/ Tu!SourcesCancel \/ Tu!OverrideInvalid
    PROVE  TuiInv' /\ Tu!KeysKeepTheirWord
  <1> DEFINE q == Tu!Quiet
             shut(d) == CASE d = "help" -> [q EXCEPT !.help = FALSE]
                          [] d = "menu" -> [q EXCEPT !.menu = None]
                          [] d = "browser" -> [q EXCEPT !.browser = None]
                          [] d = "connect" -> [q EXCEPT !.connect = FALSE]
                          [] d = "override" -> [q EXCEPT !.override = None]
                          [] d = "prompt" -> [q EXCEPT !.prompt = None]
                          [] d = "sources" -> [q EXCEPT !.sources = None]
             ds == {"browser", "connect", "override", "prompt", "sources", "menu", "help"}
  <1>1. Tu!OverrideInvalid \/ \E d \in ds : Tu!Press(d, shut(d))
    <2>1. Tu!DismissHelp => Tu!Press("help", shut("help"))
      BY DEF Tu!DismissHelp
    <2>2. Tu!MenuClose => Tu!Press("menu", shut("menu"))
      BY DEF Tu!MenuClose
    <2>3. Tu!BrowserCancel => Tu!Press("browser", shut("browser"))
      BY DEF Tu!BrowserCancel
    <2>4. Tu!ConnectCancel => Tu!Press("connect", shut("connect"))
      BY DEF Tu!ConnectCancel
    <2>5. Tu!OverrideCancel => Tu!Press("override", shut("override"))
      BY DEF Tu!OverrideCancel
    <2>6. Tu!PromptCancel => Tu!Press("prompt", shut("prompt"))
      BY DEF Tu!PromptCancel
    <2>7. Tu!SourcesCancel => Tu!Press("sources", shut("sources"))
      BY DEF Tu!SourcesCancel
    <2> HIDE DEF shut
    <2>8. QED
      BY <2>1, <2>2, <2>3, <2>4, <2>5, <2>6, <2>7
  <1>2. /\ DOMAIN q = AppFields /\ q.out = None /\ \A f \in AppFields \ {"out"} : q[f] = app[f]
    BY QuietFields
  <1>3. CASE Tu!OverrideInvalid
    <2>1. Tu!Press("override", q)
      BY <1>3 DEF Tu!OverrideInvalid
    <2>2. AppSound(app, session, Tu!Seen) /\ app.command = None
      BY <2>1 DEF TuiInv, Tu!Press
    <2> HIDE DEF q
    <2>3. Done(q)
      BY <1>2, <2>2, QuietIsSound
    <2>4. QED
      BY <2>1, <2>3, PressKeeps
  <1>4. ASSUME NEW d \in ds, Tu!Press(d, shut(d))
        PROVE  TuiInv' /\ Tu!KeysKeepTheirWord
    <2>1. AppSound(app, session, Tu!Seen) /\ app.command = None /\ Tu!Focus = d
      BY <1>4 DEF TuiInv, Tu!Press
    <2>2. NoneBut(app, d)
      BY <2>1, FocusTells
    <2>3. NoneBut(q, d)
      BY <1>2, <2>2 DEF NoneBut, AppFields
    <2>4. q.connect = app.connect /\ q.help = app.help
      BY <1>2 DEF AppFields
    <2> HIDE DEF q
    <2>5. DOMAIN shut(d) = AppFields /\ \A f \in AppFields \ {d} : shut(d)[f] = q[f]
      BY <1>2 DEF AppFields
    <2>6. Closed(shut(d))
      BY <1>2, <2>3 DEF NoneBut, Closed, AppFields
    <2>7. shut(d).connect \in BOOLEAN /\ shut(d).help \in BOOLEAN /\ shut(d).out = None
      BY <1>2, <2>1, <2>4 DEF AppSound, AppFields
    <2> HIDE DEF shut
    <2>8. \A f \in AppFields \ {d, "out", "query"} : shut(d)[f] = app[f]
      BY <1>2, <2>5
    <2>9. Ready(shut(d))
      BY <2>1, <2>2, <2>5, <2>6, <2>7, <2>8, DialogCloses
    <2>10. Done(shut(d))
      BY <2>9, ReadyIsDone
    <2>11. QED
      BY <1>4, <2>10, PressKeeps
  <1>5. QED
    BY <1>1, <1>3, <1>4

-----------------------------------------------------------------------------
(* The menus.                                                              *)

LEMMA OverrideOpens ==
    ASSUME NEW a, Ready(a), session.mode = "live"
    PROVE  Done(Tu!OverrideDialog(a))
  <1> DEFINE row == Tu!At(Tu!DetailRows(rates, a.screen.src), a.screen.row)
             dialog == [src |-> a.screen.src, pgn |-> row.pgn]
             b == [a EXCEPT !.override = dialog]
  <1>1. Tu!OverrideDialog(a) = IF row = None THEN a ELSE b
    BY DEF Tu!OverrideDialog
  <1>2. Done(a)
    BY ReadyIsDone
  <1> HIDE DEF row, dialog
  <1>3. /\ DOMAIN b = AppFields /\ \A f \in AppFields \ {"override"} : b[f] = a[f]
        /\ b.connect = a.connect /\ b.help = a.help /\ b.sources = a.sources /\ b.browser = a.browser /\ b.menu = a.menu
    BY DEF Ready, AppSound, AppFields
  <1>4. a.connect \in BOOLEAN /\ a.help \in BOOLEAN /\ a.sources = None /\ a.browser = None /\ a.menu = None
    BY DEF Ready, AppSound, Closed, NoneBut
  <1> HIDE DEF b
  <1>5. Done(b)
    BY <1>3, <1>4, DialogOpens
  <1>6. QED
    BY <1>1, <1>2, <1>5

\* A dialog without state of its own opens.
LEMMA PlainDialogOpens ==
    ASSUME NEW a, Ready(a), NEW title \in Tu!Titles, NEW kind \in {"load", "save"}, NEW mode
    PROVE  /\ Done([a EXCEPT !.connect = TRUE]) /\ Done([a EXCEPT !.help = TRUE])
           /\ Done([a EXCEPT !.menu = title]) /\ Done([a EXCEPT !.browser = kind])
           /\ Done([a EXCEPT !.prompt = mode]) /\ Done([a EXCEPT !.quit = TRUE])
  <1>1. /\ DOMAIN a = AppFields /\ a.connect = FALSE /\ a.help = FALSE /\ a.sources = None /\ a.browser = None
        /\ a.menu = None /\ a.override = None
    BY DEF Ready, AppSound, Closed, NoneBut
  <1>2. Done([a EXCEPT !.connect = TRUE])
    <2> DEFINE b == [a EXCEPT !.connect = TRUE]
    <2>1. /\ DOMAIN b = AppFields /\ \A f \in AppFields \ {"connect"} : b[f] = a[f]
          /\ b.connect = TRUE /\ b.help = FALSE /\ b.sources = None /\ b.browser = None /\ b.menu = None
          /\ b.override = None
      BY <1>1 DEF AppFields
    <2> HIDE DEF b
    <2>2. Done(b)
      BY <2>1, DialogOpens
    <2>3. QED
      BY <2>2 DEF b
  <1>3. Done([a EXCEPT !.help = TRUE])
    <2> DEFINE b == [a EXCEPT !.help = TRUE]
    <2>1. /\ DOMAIN b = AppFields /\ \A f \in AppFields \ {"help"} : b[f] = a[f]
          /\ b.connect = FALSE /\ b.help = TRUE /\ b.sources = None /\ b.browser = None /\ b.menu = None
          /\ b.override = None
      BY <1>1 DEF AppFields
    <2> HIDE DEF b
    <2>2. Done(b)
      BY <2>1, DialogOpens
    <2>3. QED
      BY <2>2 DEF b
  <1>4. Done([a EXCEPT !.menu = title])
    <2> DEFINE b == [a EXCEPT !.menu = title]
    <2>1. /\ DOMAIN b = AppFields /\ \A f \in AppFields \ {"menu"} : b[f] = a[f]
          /\ b.connect = FALSE /\ b.help = FALSE /\ b.sources = None /\ b.browser = None /\ b.menu = title
          /\ b.override = None
      BY <1>1 DEF AppFields
    <2> HIDE DEF b
    <2>2. Done(b)
      BY <2>1, DialogOpens
    <2>3. QED
      BY <2>2 DEF b
  <1>5. Done([a EXCEPT !.browser = kind])
    <2> DEFINE b == [a EXCEPT !.browser = kind]
    <2>1. /\ DOMAIN b = AppFields /\ \A f \in AppFields \ {"browser"} : b[f] = a[f]
          /\ b.connect = FALSE /\ b.help = FALSE /\ b.sources = None /\ b.browser = kind /\ b.menu = None
          /\ b.override = None
      BY <1>1 DEF AppFields
    <2> HIDE DEF b
    <2>2. Done(b)
      BY <2>1, DialogOpens
    <2>3. QED
      BY <2>2 DEF b
  <1>6. Done([a EXCEPT !.prompt = mode])
    <2> DEFINE b == [a EXCEPT !.prompt = mode]
    <2>1. /\ DOMAIN b = AppFields /\ \A f \in AppFields \ {"prompt"} : b[f] = a[f]
          /\ b.connect = FALSE /\ b.help = FALSE /\ b.sources = None /\ b.browser = None /\ b.menu = None
          /\ b.override = None
      BY <1>1 DEF AppFields
    <2> HIDE DEF b
    <2>2. Done(b)
      BY <2>1, DialogOpens
    <2>3. QED
      BY <2>2 DEF b
  <1>7. Done([a EXCEPT !.quit = TRUE])
    <2> DEFINE b == [a EXCEPT !.quit = TRUE]
    <2>1. /\ DOMAIN b = AppFields /\ \A f \in AppFields \ {"quit"} : b[f] = a[f]
          /\ b.time = a.time /\ b.devices = a.devices /\ b.pgns = a.pgns /\ b.srcs = a.srcs /\ b.screen = a.screen
      BY <1>1 DEF AppFields
    <2> HIDE DEF b
    <2>2. Done(b)
      BY <2>1, Adjusted DEF Ready, AppSound, Filters
    <2>3. QED
      BY <2>2 DEF b
  <1>8. QED
    BY <1>2, <1>3, <1>4, <1>5, <1>6, <1>7

\* An item that is enabled.
LEMMA MenuActs ==
    ASSUME DataTyped, Listable, NEW a, Ready(a), app.menu \in Tu!Titles,
           NEW item \in Tu!Enabled(app.menu), NEW ok \in BOOLEAN
    PROVE  Done(Tu!RunMenuAction(a, item, ok))
  <1> DEFINE r == Tu!RunMenuAction(a, item, ok)
  <1>1. /\ item \in {"quit", "connect", "load", "save", "devices", "timeline", "top", "nmea", "overrides", "back",
                     "open", "request", "interval", "find", "next", "previous", "pgns", "sources", "help"}
        /\ item \in {"nmea", "overrides", "request", "interval"} => session.mode = "live"
    BY DEF Tu!Titles, Tu!Enabled, Tu!Live
  <1>2. Done(a)
    BY ReadyIsDone
  <1>3. CASE item \in {"quit", "connect", "load", "save", "find", "pgns", "help"}
    <2>1. "help" \in Tu!Titles
      BY DEF Tu!Titles
    <2>2. /\ Done([a EXCEPT !.connect = TRUE]) /\ Done([a EXCEPT !.help = TRUE])
          /\ Done([a EXCEPT !.browser = "load"]) /\ Done([a EXCEPT !.browser = "save"])
          /\ Done([a EXCEPT !.prompt = "search"]) /\ Done([a EXCEPT !.prompt = "filter"])
          /\ Done([a EXCEPT !.quit = TRUE])
      BY <2>1, PlainDialogOpens
    <2>3. r \in {[a EXCEPT !.connect = TRUE], [a EXCEPT !.help = TRUE], [a EXCEPT !.browser = "load"],
                 [a EXCEPT !.browser = "save"], [a EXCEPT !.prompt = "search"], [a EXCEPT !.prompt = "filter"],
                 [a EXCEPT !.quit = TRUE]}
      BY <1>3 DEF Tu!RunMenuAction
    <2> HIDE DEF r
    <2>4. Done(r)
      BY <2>2, <2>3
    <2>5. QED
      BY <2>4 DEF r
  <1>4. CASE item \in {"devices", "timeline", "top", "nmea", "overrides"}
    <2> DEFINE view == IF item = "timeline" THEN "time" ELSE item
    <2>1. view \in {"devices", "time", "top", "nmea", "overrides"} /\ (view \in {"nmea", "overrides"} => session.mode = "live")
      BY <1>1, <1>4
    <2>2. r = IF item = "devices" THEN Tu!Goto(a, Tu!Devices)
              ELSE IF item = "timeline" THEN Tu!Goto(a, Tu!TimeView) ELSE Tu!Goto(a, [at |-> view, row |-> 1])
      BY <1>1, <1>4 DEF Tu!RunMenuAction, Tu!Live
    <2>3. item \notin {"devices", "timeline"} => view \notin {"devices", "time"}
      BY <1>4
    <2> HIDE DEF r, view
    <2>4. /\ view \notin {"devices", "time"} => Done(Tu!Goto(a, [at |-> view, row |-> 1]))
          /\ Done(Tu!Goto(a, Tu!Devices)) /\ Done(Tu!Goto(a, Tu!TimeView))
      BY <2>1, ViewOpens
    <2>5. Done(r)
      BY <2>2, <2>3, <2>4
    <2>6. QED
      BY <2>5 DEF r
  <1>5. CASE item = "back"
    <2>1. r = Tu!GoBack(a)
      BY <1>5 DEF Tu!RunMenuAction
    <2>2. QED
      BY <2>1, BackGoes
  <1>6. CASE item = "open"
    <2>1. r = Tu!ActivateSelection(a, ok)
      BY <1>6 DEF Tu!RunMenuAction
    <2>2. QED
      BY <2>1, EnterOpens
  <1>7. CASE item = "request"
    <2>1. r \in {a, Tu!Sent(a, Tu!Line("request", a.screen.src, PgnList), ok)}
      BY <1>7 DEF Tu!RunMenuAction, Tu!IsoRequest
    <2>2. Done(Tu!Sent(a, Tu!Line("request", a.screen.src, PgnList), ok))
      BY <1>1, <1>7, LineGoesOut
    <2> HIDE DEF r
    <2>3. Done(r)
      BY <1>2, <2>1, <2>2
    <2>4. QED
      BY <2>3 DEF r
  <1>8. CASE item = "interval"
    <2>1. r \in {a, Tu!OverrideDialog(a)}
      BY <1>8 DEF Tu!RunMenuAction
    <2>2. Done(Tu!OverrideDialog(a))
      BY <1>1, <1>8, OverrideOpens
    <2> HIDE DEF r
    <2>3. Done(r)
      BY <1>2, <2>1, <2>2
    <2>4. QED
      BY <2>3 DEF r
  <1>9. CASE item \in {"next", "previous"}
    <2>1. r \in {Tu!JumpSearch(a, 1), Tu!JumpSearch(a, -1)}
      BY <1>9 DEF Tu!RunMenuAction
    <2>2. Done(Tu!JumpSearch(a, 1)) /\ Done(Tu!JumpSearch(a, -1))
      BY JumpIsDone
    <2> HIDE DEF r
    <2>3. Done(r)
      BY <2>1, <2>2
    <2>4. QED
      BY <2>3 DEF r
  <1>10. CASE item = "sources"
    <2>1. r = Tu!SourcesDialog(a)
      BY <1>10 DEF Tu!RunMenuAction
    <2>2. QED
      BY <2>1, SourcesOpen
  <1>11. QED
    BY <1>1, <1>3, <1>4, <1>5, <1>6, <1>7, <1>8, <1>9, <1>10

\* From a menu another is opened, or an item of it fires.
LEMMA MenuKeys ==
    ASSUME TuiInv, Listable,
           \/ \E title \in Tu!Titles : Tu!MenuSwitch(title)
           \/ \E ok \in BOOLEAN : \E item \in IF app.menu = None THEN {} ELSE Tu!Enabled(app.menu) : Tu!MenuFire(item, ok)
    PROVE  TuiInv' /\ Tu!KeysKeepTheirWord
  <1> DEFINE q == Tu!Quiet
             base == [q EXCEPT !.menu = None]
  <1>1. /\ DOMAIN q = AppFields /\ q.out = None /\ \A f \in AppFields \ {"out"} : q[f] = app[f]
    BY QuietFields
  <1>2. ASSUME NEW title \in Tu!Titles, Tu!MenuSwitch(title)
        PROVE  TuiInv' /\ Tu!KeysKeepTheirWord
    <2> DEFINE b == [q EXCEPT !.menu = title]
    <2>1. Tu!Press("menu", b)
      BY <1>2 DEF Tu!MenuSwitch
    <2>2. AppSound(app, session, Tu!Seen) /\ app.command = None /\ Tu!Focus = "menu"
      BY <2>1 DEF TuiInv, Tu!Press
    <2>3. NoneBut(app, "menu")
      BY <2>2, FocusTells
    <2> HIDE DEF q
    <2>4. /\ DOMAIN b = AppFields /\ \A f \in AppFields \ {"out", "menu"} : b[f] = app[f]
          /\ b.out = None /\ b.menu = title /\ b.sources = app.sources
      BY <1>1 DEF AppFields
    <2>5. b.sources = None
      BY <2>3, <2>4 DEF NoneBut
    <2> HIDE DEF b
    <2>6. Done(b)
      BY <2>2, <2>3, <2>4, <2>5, DialogStays
    <2>7. QED
      BY <2>1, <2>6, PressKeeps
  <1>3. ASSUME NEW ok \in BOOLEAN, app.menu # None, NEW item \in Tu!Enabled(app.menu), Tu!MenuFire(item, ok)
        PROVE  TuiInv' /\ Tu!KeysKeepTheirWord
    <2>1. Tu!Press("menu", Tu!RunMenuAction(base, item, ok))
      BY <1>3 DEF Tu!MenuFire
    <2>2. AppSound(app, session, Tu!Seen) /\ app.command = None /\ Tu!Focus = "menu" /\ DataTyped
      BY <2>1 DEF TuiInv, Tu!Press
    <2>3. NoneBut(app, "menu") /\ app.menu \in Tu!Titles
      BY <1>3, <2>2, FocusTells DEF AppSound
    <2> HIDE DEF q
    <2>4. /\ DOMAIN base = AppFields /\ \A f \in AppFields \ {"menu", "out", "query"} : base[f] = app[f]
          /\ base.out = None /\ base.menu = None
          /\ base.connect = app.connect /\ base.help = app.help /\ base.browser = app.browser
          /\ base.override = app.override /\ base.prompt = app.prompt /\ base.sources = app.sources
      BY <1>1 DEF AppFields
    <2>5. Closed(base) /\ base.connect \in BOOLEAN /\ base.help \in BOOLEAN
      BY <2>2, <2>3, <2>4 DEF Closed, NoneBut, AppSound
    <2> HIDE DEF base
    <2>6. Ready(base)
      BY <2>2, <2>3, <2>4, <2>5, DialogCloses
    <2>7. Done(Tu!RunMenuAction(base, item, ok))
      BY <2>2, <2>3, <2>6, MenuActs
    <2>8. QED
      BY <2>1, <2>7, PressKeeps
  <1>4. QED
    BY <1>2, <1>3

-----------------------------------------------------------------------------
(* The dialogs.                                                            *)

\* The app with the dialog that has the keys closed, and what was sent gone.
LEMMA ShutIsReady ==
    ASSUME TuiInv, turn = "wait", NEW d \in {"browser", "connect", "override", "prompt", "sources"},
           Tu!Focus = d, NEW b, DOMAIN b = AppFields, b.out = None,
           \A f \in AppFields \ {d, "out", "query"} : b[f] = app[f],
           d = "browser" => b.browser = None, d = "connect" => b.connect = FALSE,
           d = "override" => b.override = None, d = "prompt" => b.prompt = None, d = "sources" => b.sources = None
    PROVE  Ready(b)
  <1>1. AppSound(app, session, Tu!Seen) /\ app.command = None
    BY DEF TuiInv
  <1>2. NoneBut(app, d)
    BY FocusTells
  <1>3. Closed(b)
    BY <1>2 DEF Closed, NoneBut, AppFields
  <1>4. b.connect \in BOOLEAN /\ b.help \in BOOLEAN
    BY <1>1, <1>3 DEF AppSound, AppFields, Closed, NoneBut
  <1>5. QED
    BY <1>1, <1>2, <1>3, <1>4, DialogCloses

\* With no dialog open a key goes to the screen.
LEMMA QuietIsReady ==
    ASSUME TuiInv, turn = "wait", Tu!Focus = "screen"
    PROVE  Ready(Tu!Quiet)
  <1> DEFINE q == Tu!Quiet
  <1>1. /\ DOMAIN q = AppFields /\ q.out = None /\ \A f \in AppFields \ {"out"} : q[f] = app[f]
    BY QuietFields
  <1>2. AppSound(app, session, Tu!Seen) /\ app.command = None /\ Closed(app) /\ NoneBut(app, "none")
    BY FocusTells DEF TuiInv, Closed
  <1> HIDE DEF q
  <1>3. Closed(q) /\ q.connect = app.connect /\ q.help = app.help
    BY <1>1, <1>2 DEF Closed, NoneBut, AppFields
  <1>4. q.connect \in BOOLEAN /\ q.help \in BOOLEAN
    BY <1>2, <1>3 DEF AppSound
  <1>5. \A f \in AppFields \ {"none", "out", "query"} : q[f] = app[f]
    BY <1>1
  <1>6. Ready(q)
    BY <1>1, <1>2, <1>3, <1>4, <1>5, DialogCloses
  <1>7. QED
    BY <1>6 DEF q

LEMMA CommandKeys ==
    ASSUME TuiInv, Tu!BrowserConfirm \/ Tu!ConnectConfirm
    PROVE  TuiInv' /\ Tu!KeysKeepTheirWord
  <1> DEFINE q == Tu!Quiet
  <1>1. /\ DOMAIN q = AppFields /\ q.out = None /\ \A f \in AppFields \ {"out"} : q[f] = app[f]
    BY QuietFields
  <1>2. CASE Tu!BrowserConfirm
    <2> DEFINE base == [q EXCEPT !.browser = None]
               b == [q EXCEPT !.browser = None, !.command = app.browser]
    <2>1. Tu!Press("browser", b)
      BY <1>2 DEF Tu!BrowserConfirm
    <2>2. turn = "wait" /\ Tu!Focus = "browser"
      BY <2>1 DEF Tu!Press
    <2>3. app.browser \in {"connect", "load", "save"}
      BY <2>2, FocusTells
    <2> HIDE DEF q
    <2>4. /\ DOMAIN base = AppFields /\ base.out = None /\ base.browser = None
          /\ \A f \in AppFields \ {"browser", "out", "query"} : base[f] = app[f]
      BY <1>1 DEF AppFields
    <2>5. /\ DOMAIN b = AppFields /\ b.command = app.browser
          /\ \A f \in AppFields \ {"command"} : b[f] = base[f]
      BY <1>1 DEF AppFields
    <2> HIDE DEF b, base
    <2>6. Ready(base)
      BY <2>2, <2>4, ShutIsReady
    <2>7. Done(b)
      BY <2>3, <2>5, <2>6, CommandIsRecorded
    <2>8. QED
      BY <2>1, <2>7, PressKeeps
  <1>3. CASE Tu!ConnectConfirm
    <2> DEFINE base == [q EXCEPT !.connect = FALSE]
               b == [q EXCEPT !.connect = FALSE, !.command = "connect"]
    <2>1. Tu!Press("connect", b)
      BY <1>3 DEF Tu!ConnectConfirm
    <2>2. turn = "wait" /\ Tu!Focus = "connect"
      BY <2>1 DEF Tu!Press
    <2> HIDE DEF q
    <2>3. /\ DOMAIN base = AppFields /\ base.out = None /\ base.connect = FALSE
          /\ \A f \in AppFields \ {"connect", "out", "query"} : base[f] = app[f]
      BY <1>1 DEF AppFields
    <2>4. /\ DOMAIN b = AppFields /\ b.command = "connect"
          /\ \A f \in AppFields \ {"command"} : b[f] = base[f]
      BY <1>1 DEF AppFields
    <2> HIDE DEF b, base
    <2>5. Ready(base)
      BY <2>2, <2>3, ShutIsReady
    <2>6. Done(b)
      BY <2>4, <2>5, CommandIsRecorded
    <2>7. QED
      BY <2>1, <2>6, PressKeeps
  <1>4. QED
    BY <1>2, <1>3

\* The interval that was typed is sent, or there is nobody to take it.
LEMMA OverrideKey ==
    ASSUME TuiInv, NEW ok \in BOOLEAN, Tu!OverrideConfirm(ok)
    PROVE  TuiInv' /\ Tu!KeysKeepTheirWord
  <1> DEFINE q == Tu!Quiet
             line == Tu!Line("set", app.override.src, app.override.pgn)
             base == [q EXCEPT !.override = None]
             b == [Tu!Sent(q, line, ok) EXCEPT !.override = None]
  <1>1. /\ DOMAIN q = AppFields /\ q.out = None /\ \A f \in AppFields \ {"out"} : q[f] = app[f]
    BY QuietFields
  <1>2. app.override # None /\ Tu!Press("override", b)
    BY DEF Tu!OverrideConfirm
  <1>3. turn = "wait" /\ Tu!Focus = "override" /\ session.mode = "live"
    BY <1>2 DEF Tu!Press, TuiInv, AppSound, OnlyLive
  <1> HIDE DEF q
  <1>4. /\ DOMAIN base = AppFields /\ base.out = None /\ base.override = None
        /\ \A f \in AppFields \ {"override", "out", "query"} : base[f] = app[f]
    BY <1>1 DEF AppFields
  <1>5. /\ DOMAIN b = AppFields /\ b.out \in {line, None}
        /\ \A f \in AppFields \ {"out", "forget"} : b[f] = base[f]
    <2> HIDE DEF line
    <2>1. QED
      BY <1>1 DEF AppFields, Tu!Sent
  <1> HIDE DEF b, base
  <1>6. Ready(base)
    BY <1>3, <1>4, ShutIsReady
  <1>7. Done(b)
    BY <1>3, <1>5, <1>6, LineIsSound
  <1>8. QED
    BY <1>2, <1>7, PressKeeps

\* A search is cleared or made, a filter cleared or set.
LEMMA PromptKeys ==
    ASSUME TuiInv, Listable,
           \/ Tu!PromptClear \/ \E p \in Tu!AnyPgn : Tu!PromptSearch(p)
           \/ \E list \in {{}, Tu!AnyPgn} \union {{p} : p \in Tu!AnyPgn} : Tu!PromptFilter(list)
    PROVE  TuiInv' /\ Tu!KeysKeepTheirWord
  <1> DEFINE q == Tu!Quiet
             base == [q EXCEPT !.prompt = None]
  <1>1. /\ DOMAIN q = AppFields /\ q.out = None /\ \A f \in AppFields \ {"out"} : q[f] = app[f]
    BY QuietFields
  <1>2. ASSUME Tu!Focus = "prompt", turn = "wait", NEW x
        PROVE  Ready(base) /\ Ready([base EXCEPT !.query = x])
    <2> DEFINE c == [base EXCEPT !.query = x]
    <2> HIDE DEF q
    <2>1. /\ DOMAIN base = AppFields /\ base.out = None /\ base.prompt = None
          /\ \A f \in AppFields \ {"prompt", "out", "query"} : base[f] = app[f]
      BY <1>1 DEF AppFields
    <2> HIDE DEF base
    <2>2. /\ DOMAIN c = AppFields /\ c.out = None /\ c.prompt = None
          /\ \A f \in AppFields \ {"prompt", "out", "query"} : c[f] = app[f]
      BY <2>1 DEF AppFields
    <2>3. Ready(base)
      BY <1>2, <2>1, ShutIsReady
    <2> HIDE DEF c
    <2>4. Ready(c)
      BY <1>2, <2>2, ShutIsReady
    <2>5. QED
      BY <2>3, <2>4 DEF c
  \* The filter of PGNs is another, and the cursor may be at the first row again.
  <1>3. ASSUME Ready(base), NEW f, f # {}, NEW t \in {base.time, 1}
        PROVE  Done([base EXCEPT !.pgns = f, !.time = t])
    <2> DEFINE b == [base EXCEPT !.pgns = f, !.time = t]
    <2> HIDE DEF q, base
    <2>1. /\ DOMAIN base = AppFields /\ base.time \in Nat /\ base.devices \in Nat
          /\ base.srcs # {} /\ (base.srcs # None => \E src \in Tu!AnySrc : src \notin base.srcs)
      BY <1>3 DEF Ready, AppSound, Filters
    <2>2. /\ DOMAIN b = AppFields /\ \A g \in AppFields \ {"time", "pgns"} : b[g] = base[g]
          /\ b.time = t /\ b.pgns = f /\ b.devices = base.devices /\ b.srcs = base.srcs /\ b.screen = base.screen
      BY <2>1 DEF AppFields
    <2> HIDE DEF b
    <2>3. b.time \in Nat /\ b.pgns # {}
      BY <1>3, <2>1, <2>2
    <2>4. Done(b)
      BY <1>3, <2>1, <2>2, <2>3, Adjusted
    <2>5. QED
      BY <2>4 DEF b
  <1>4. CASE Tu!PromptClear
    <2> DEFINE b == IF app.prompt = "search" THEN [q EXCEPT !.prompt = None, !.query = None]
                    ELSE [q EXCEPT !.prompt = None, !.pgns = None]
    <2>1. Tu!Press("prompt", b)
      BY <1>4 DEF Tu!PromptClear
    <2>2. Ready(base) /\ Ready([base EXCEPT !.query = None])
      BY <1>2, <2>1 DEF Tu!Press
    <2>3. Done([base EXCEPT !.query = None])
      BY <2>2, ReadyIsDone
    <2>4. None # {}
      BY DEF Listable
    <2>5. Done([base EXCEPT !.pgns = None, !.time = base.time])
      BY <1>3, <2>2, <2>4
    <2> HIDE DEF q
    <2>6. /\ [q EXCEPT !.prompt = None, !.query = None] = [base EXCEPT !.query = None]
          /\ [q EXCEPT !.prompt = None, !.pgns = None] = [base EXCEPT !.pgns = None, !.time = base.time]
      BY <1>1 DEF AppFields
    <2> HIDE DEF base
    <2>7. Done(b)
      BY <2>3, <2>5, <2>6
    <2>8. QED
      BY <2>1, <2>7, PressKeeps
  <1>5. ASSUME NEW p, Tu!PromptSearch(p)
        PROVE  TuiInv' /\ Tu!KeysKeepTheirWord
    <2> DEFINE c == [base EXCEPT !.query = p]
    <2>1. Tu!Press("prompt", Tu!JumpSearch([q EXCEPT !.prompt = None, !.query = p], 0))
      BY <1>5 DEF Tu!PromptSearch
    <2>2. Ready(c) /\ DataTyped
      BY <1>2, <2>1 DEF Tu!Press, TuiInv
    <2>3. [q EXCEPT !.prompt = None, !.query = p] = c
      <3> HIDE DEF q
      <3>1. QED
        BY <1>1 DEF AppFields
    <2> HIDE DEF c
    <2>4. Done(Tu!JumpSearch(c, 0))
      BY <2>2, JumpIsDone
    <2>5. QED
      BY <2>1, <2>3, <2>4, PressKeeps
  <1>6. ASSUME NEW list, Tu!PromptFilter(list)
        PROVE  TuiInv' /\ Tu!KeysKeepTheirWord
    <2> DEFINE f == IF list = {} THEN None ELSE list
               b == [base EXCEPT !.pgns = f, !.time = 1]
    <2>1. Tu!Press("prompt", Tu!ApplyFilter(q, list))
      BY <1>6 DEF Tu!PromptFilter
    <2>2. Ready(base)
      BY <1>2, <2>1 DEF Tu!Press
    <2>3. f # {}
      BY DEF Listable
    <2>4. Done(b)
      BY <1>3, <2>2, <2>3
    <2>5. Tu!ApplyFilter(q, list) = b
      <3> HIDE DEF q
      <3>1. QED
        BY <1>1 DEF AppFields, Tu!ApplyFilter
    <2> HIDE DEF b
    <2>6. QED
      BY <2>1, <2>4, <2>5, PressKeeps
  <1>7. QED
    BY <1>4, <1>5, <1>6

\* A source is checked or not, all of them are, and what is checked is taken.
LEMMA SourcesKeys ==
    ASSUME TuiInv, Listable,
           \/ \E src \in Tu!AnySrc : Tu!SourcesToggle(src)
           \/ Tu!SourcesAll \/ Tu!SourcesConfirm
    PROVE  TuiInv' /\ Tu!KeysKeepTheirWord
  <1> DEFINE q == Tu!Quiet
  <1>1. /\ DOMAIN q = AppFields /\ q.out = None /\ \A f \in AppFields \ {"out"} : q[f] = app[f]
    BY QuietFields
  <1>2. q.sources = app.sources
    BY <1>1 DEF AppFields
  <1>3. app.sources # None => DOMAIN app.sources = {"listed", "selected"} /\ app.sources.listed \subseteq Tu!AnySrc
    BY DEF TuiInv, AppSound, Filters
  <1>4. ASSUME app.sources # None, NEW S, Tu!Press("sources", [q EXCEPT !.sources.selected = S])
        PROVE  TuiInv' /\ Tu!KeysKeepTheirWord
    <2> DEFINE b == [q EXCEPT !.sources.selected = S]
    <2>1. AppSound(app, session, Tu!Seen) /\ app.command = None /\ Tu!Focus = "sources"
      BY <1>4 DEF Tu!Press, TuiInv
    <2>2. NoneBut(app, "sources")
      BY <2>1, FocusTells
    <2> HIDE DEF q
    <2>3. /\ DOMAIN b = AppFields /\ b.out = None /\ \A f \in AppFields \ {"out", "sources"} : b[f] = app[f]
          /\ b.menu = app.menu /\ b.sources = [app.sources EXCEPT !.selected = S]
      BY <1>1, <1>2 DEF AppFields
    <2>4. DOMAIN b.sources = {"listed", "selected"} /\ b.sources.listed = app.sources.listed
      BY <1>3, <1>4, <2>3
    <2>5. b.menu \in Tu!Titles \union {None}
      BY <2>1, <2>3 DEF AppSound
    <2> HIDE DEF b
    <2>6. Done(b)
      BY <1>3, <1>4, <2>1, <2>2, <2>3, <2>4, <2>5, DialogStays
    <2>7. QED
      BY <1>4, <2>6, PressKeeps DEF b
  <1>5. ASSUME NEW src, Tu!SourcesToggle(src)
        PROVE  TuiInv' /\ Tu!KeysKeepTheirWord
    <2> DEFINE S == IF src \in app.sources.selected THEN app.sources.selected \ {src}
                    ELSE app.sources.selected \union {src}
    <2>1. app.sources # None /\ Tu!Press("sources", [q EXCEPT !.sources.selected = S])
      BY <1>2, <1>5 DEF Tu!SourcesToggle
    <2> HIDE DEF S, q
    <2>2. QED
      BY <1>4, <2>1
  <1>6. CASE Tu!SourcesAll
    <2> DEFINE S == IF Tu!Cardinality(app.sources.selected) = Tu!Cardinality(app.sources.listed) THEN {}
                    ELSE app.sources.listed
    <2>1. app.sources # None /\ Tu!Press("sources", [q EXCEPT !.sources.selected = S])
      BY <1>2, <1>6 DEF Tu!SourcesAll
    <2> HIDE DEF S, q
    <2>2. QED
      BY <1>4, <2>1
  <1>7. CASE Tu!SourcesConfirm
    <2> DEFINE sel == app.sources.selected
               listed == app.sources.listed
               f == IF listed \subseteq sel \/ sel = {} THEN None ELSE sel
               base == [q EXCEPT !.sources = None]
               b == [base EXCEPT !.time = 1, !.srcs = f]
    <2>1. app.sources # None /\ Tu!Press("sources", Tu!ApplySources(q))
      BY <1>7 DEF Tu!SourcesConfirm
    <2>2. turn = "wait" /\ Tu!Focus = "sources"
      BY <2>1 DEF Tu!Press
    <2>3. Tu!ApplySources(q) = b
      <3>1. Tu!ApplySources(q) = [q EXCEPT !.sources = None, !.time = 1, !.srcs = f]
        BY <1>2 DEF Tu!ApplySources
      <3> HIDE DEF q, f
      <3>2. QED
        BY <1>1, <3>1 DEF AppFields
    <2>4. f # {} /\ (f # None => \E src \in Tu!AnySrc : src \notin f)
      <3>1. CASE f = None
        BY <3>1 DEF Listable
      <3>2. CASE f # None
        <4>1. f = sel /\ sel # {} /\ ~(listed \subseteq sel)
          BY <3>2
        <4>2. QED
          BY <1>3, <2>1, <4>1
      <3>3. QED
        BY <3>1, <3>2
    <2> HIDE DEF q, f
    <2>5. /\ DOMAIN base = AppFields /\ base.out = None /\ base.sources = None
          /\ \A g \in AppFields \ {"sources", "out", "query"} : base[g] = app[g]
      BY <1>1 DEF AppFields
    <2> HIDE DEF base
    <2>6. Ready(base)
      BY <2>2, <2>5, ShutIsReady
    <2>7. /\ DOMAIN b = AppFields /\ \A g \in AppFields \ {"time", "srcs"} : b[g] = base[g]
          /\ b.time = 1 /\ b.srcs = f /\ b.pgns = base.pgns /\ b.devices = base.devices /\ b.screen = base.screen
      BY <2>5 DEF AppFields
    <2>8. base.pgns # {} /\ base.devices \in Nat
      BY <2>6 DEF Ready, AppSound, Filters
    <2> HIDE DEF b
    <2>9. Done(b)
      BY <2>4, <2>6, <2>7, <2>8, Adjusted
    <2>10. QED
      BY <2>1, <2>3, <2>9, PressKeeps
  <1>8. QED
    BY <1>5, <1>6, <1>7

-----------------------------------------------------------------------------
(* The keys of the screens.                                                *)

\* A key of the screen is sound when what it makes of a quiet app is.
LEMMA ScreenKey ==
    ASSUME TuiInv, NEW b, Tu!Press("screen", b), Ready(Tu!Quiet) => Done(b)
    PROVE  TuiInv' /\ Tu!KeysKeepTheirWord
  <1>1. turn = "wait" /\ Tu!Focus = "screen"
    BY DEF Tu!Press
  <1>2. Done(b)
    BY <1>1, QuietIsReady
  <1>3. QED
    BY <1>2, PressKeeps

\* A menu, the help, another view or a dialog is opened, the program left, a
\* line sent, the next match looked for.
LEMMA PlainKeys ==
    ASSUME TuiInv, Listable,
           \/ \E title \in Tu!Titles : Tu!OpenMenu(title)
           \/ Tu!OpenHelp \/ Tu!QuitKey \/ Tu!ToTimeline \/ Tu!ToTop \/ Tu!EscKey \/ Tu!DevicesKey
           \/ Tu!LiveKey("nmea") \/ Tu!LiveKey("overrides") \/ \E ok \in BOOLEAN : Tu!RequestKey(ok)
           \/ Tu!IntervalKey \/ Tu!SourcesKey \/ Tu!PromptKey("search") \/ Tu!PromptKey("filter")
           \/ \E step \in {-1, 1} : Tu!NextKey(step)
    PROVE  TuiInv' /\ Tu!KeysKeepTheirWord
  <1> DEFINE q == Tu!Quiet
             Good == TuiInv' /\ Tu!KeysKeepTheirWord
  <1>1. DataTyped
    BY DEF TuiInv
  <1>2. ASSUME NEW title \in Tu!Titles, Tu!OpenMenu(title)
        PROVE  Good
    <2>1. Tu!Press("screen", [q EXCEPT !.menu = title])
      BY <1>2 DEF Tu!OpenMenu
    <2>2. Ready(q) => Done([q EXCEPT !.menu = title])
      BY <1>2, PlainDialogOpens
    <2>3. QED
      BY <2>1, <2>2, ScreenKey
  <1>3. Tu!OpenHelp \/ Tu!QuitKey \/ Tu!PromptKey("search") \/ Tu!PromptKey("filter") => Good
    <2>1. "help" \in Tu!Titles
      BY DEF Tu!Titles
    <2>2. Ready(q) => /\ Done([q EXCEPT !.help = TRUE]) /\ Done([q EXCEPT !.quit = TRUE])
                      /\ Done([q EXCEPT !.prompt = "search"]) /\ Done([q EXCEPT !.prompt = "filter"])
      BY <2>1, PlainDialogOpens
    <2>3. Tu!OpenHelp => Tu!Press("screen", [q EXCEPT !.help = TRUE])
      BY DEF Tu!OpenHelp
    <2>4. Tu!QuitKey => Tu!Press("screen", [q EXCEPT !.quit = TRUE])
      BY DEF Tu!QuitKey
    <2>5. Tu!PromptKey("search") => Tu!Press("screen", [q EXCEPT !.prompt = "search"])
      BY DEF Tu!PromptKey
    <2>6. Tu!PromptKey("filter") => Tu!Press("screen", [q EXCEPT !.prompt = "filter"])
      BY DEF Tu!PromptKey
    <2> HIDE DEF Good
    <2>7. \A b : Tu!Press("screen", b) /\ (Ready(q) => Done(b)) => Good
      BY ScreenKey DEF Good
    <2>8. QED
      BY <2>2, <2>3, <2>4, <2>5, <2>6, <2>7
  <1>4. Tu!ToTimeline \/ Tu!ToTop \/ Tu!DevicesKey \/ Tu!LiveKey("nmea") \/ Tu!LiveKey("overrides") => Good
    <2>1. Tu!ToTimeline => Tu!Press("screen", Tu!Goto(q, Tu!TimeView))
      BY DEF Tu!ToTimeline
    <2>2. Tu!ToTop => Tu!Press("screen", Tu!Goto(q, [at |-> "top", row |-> 1]))
      BY DEF Tu!ToTop
    <2>3. Tu!DevicesKey => Tu!Press("screen", Tu!Goto(q, Tu!Devices))
      BY DEF Tu!DevicesKey
    <2>4. Tu!LiveKey("nmea") => Tu!Press("screen", Tu!Goto(q, [at |-> "nmea", row |-> 1])) /\ session.mode = "live"
      BY DEF Tu!LiveKey, Tu!Live
    <2>5. Tu!LiveKey("overrides") => /\ Tu!Press("screen", Tu!Goto(q, [at |-> "overrides", row |-> 1]))
                                     /\ session.mode = "live"
      BY DEF Tu!LiveKey, Tu!Live
    <2>6. Ready(q) => /\ Done(Tu!Goto(q, Tu!TimeView)) /\ Done(Tu!Goto(q, Tu!Devices))
                      /\ Done(Tu!Goto(q, [at |-> "top", row |-> 1]))
      BY ViewOpens
    <2>7. Ready(q) /\ session.mode = "live" => /\ Done(Tu!Goto(q, [at |-> "nmea", row |-> 1]))
                                               /\ Done(Tu!Goto(q, [at |-> "overrides", row |-> 1]))
      BY ViewOpens
    <2> HIDE DEF Good
    <2>8. \A b : Tu!Press("screen", b) /\ (Ready(q) => Done(b)) => Good
      BY ScreenKey DEF Good
    <2>9. QED
      BY <2>1, <2>2, <2>3, <2>4, <2>5, <2>6, <2>7, <2>8
  <1>5. ASSUME Tu!EscKey
        PROVE  Good
    <2>1. Tu!Press("screen", Tu!GoBack(q))
      BY <1>5 DEF Tu!EscKey
    <2>2. QED
      BY <2>1, BackGoes, ScreenKey
  <1>6. ASSUME NEW ok \in BOOLEAN, Tu!RequestKey(ok)
        PROVE  Good
    <2>1. /\ Tu!Press("screen", Tu!Sent(q, Tu!Line("request", q.screen.src, PgnList), ok))
          /\ session.mode = "live"
      BY <1>6 DEF Tu!RequestKey, Tu!IsoRequest, Tu!Live
    <2>2. Ready(q) => Done(Tu!Sent(q, Tu!Line("request", q.screen.src, PgnList), ok))
      BY <2>1, LineGoesOut
    <2>3. QED
      BY <2>1, <2>2, ScreenKey
  <1>7. ASSUME Tu!IntervalKey
        PROVE  Good
    <2>1. Tu!Press("screen", Tu!OverrideDialog(q)) /\ session.mode = "live"
      BY <1>7 DEF Tu!IntervalKey, Tu!Live
    <2>2. QED
      BY <2>1, OverrideOpens, ScreenKey
  <1>8. ASSUME Tu!SourcesKey
        PROVE  Good
    <2>1. Tu!Press("screen", Tu!SourcesDialog(q))
      BY <1>8 DEF Tu!SourcesKey
    <2>2. QED
      BY <1>1, <2>1, SourcesOpen, ScreenKey
  <1>9. ASSUME NEW step \in {-1, 1}, Tu!NextKey(step)
        PROVE  Good
    <2>1. Tu!Press("screen", Tu!JumpSearch(q, step))
      BY <1>9 DEF Tu!NextKey
    <2>2. Ready(q) => Done(Tu!JumpSearch(q, step))
      BY <1>1, JumpIsDone
    <2>3. QED
      BY <2>1, <2>2, ScreenKey
  <1> HIDE DEF Good
  <1>10. QED
    BY <1>2, <1>3, <1>4, <1>5, <1>6, <1>7, <1>8, <1>9 DEF Good

\* Enter on a list, Delete on an override.
LEMMA EnterKeys ==
    ASSUME TuiInv, Listable, NEW ok \in BOOLEAN, Tu!EnterKey(ok) \/ Tu!DeleteKey(ok)
    PROVE  TuiInv' /\ Tu!KeysKeepTheirWord
  <1> DEFINE q == Tu!Quiet
  <1>1. DataTyped
    BY DEF TuiInv
  <1>2. CASE Tu!EnterKey(ok)
    <2> DEFINE b == IF app.screen.at = "top" THEN Tu!DrillIntoTop(q) ELSE Tu!ActivateSelection(q, ok)
    <2>1. Tu!Press("screen", b)
      BY <1>2 DEF Tu!EnterKey
    <2>2. ASSUME Ready(q)
          PROVE  Done(Tu!DrillIntoTop(q))
      <3> DEFINE p == Tu!At(Tu!PgnLoadRows, q.screen.row)
                 c == [q EXCEPT !.pgns = {p}, !.time = 1, !.screen = Tu!TimeView]
      <3>1. Tu!DrillIntoTop(q) = IF p = None THEN q ELSE c
        BY DEF Tu!DrillIntoTop
      <3> HIDE DEF p, q
      <3>2. /\ DOMAIN q = AppFields /\ q.devices \in Nat
            /\ q.srcs # {} /\ (q.srcs # None => \E src \in Tu!AnySrc : src \notin q.srcs)
        BY <2>2 DEF Ready, AppSound, Filters
      <3>3. /\ DOMAIN c = AppFields /\ \A f \in AppFields \ {"time", "pgns", "screen"} : c[f] = q[f]
            /\ c.time = 1 /\ c.pgns = {p} /\ c.devices = q.devices /\ c.srcs = q.srcs /\ c.screen = Tu!TimeView
        BY <3>2 DEF AppFields
      <3>4. Listing(Tu!TimeView) /\ Tu!TimeView.at = "time"
        BY DEF Listing, Tu!TimeView
      <3> HIDE DEF c
      <3>5. Done(c)
        BY <2>2, <3>2, <3>3, <3>4, Adjusted
      <3>6. QED
        BY <2>2, <3>1, <3>5, ReadyIsDone
    <2>3. Ready(q) => Done(Tu!ActivateSelection(q, ok))
      BY <1>1, EnterOpens
    <2>4. QED
      BY <2>1, <2>2, <2>3, ScreenKey
  <1>3. CASE Tu!DeleteKey(ok)
    <2> DEFINE o == Tu!At(Tu!OverrideRows(rates), q.screen.row)
               line == Tu!Line("delete", o.src, o.pgn)
               s == Tu!Sent(q, line, ok)
               key == IF ok THEN [src |-> o.src, pgn |-> o.pgn] ELSE s.forget
    <2>1. Tu!Press("screen", Tu!DeleteRate(q, ok)) /\ session.mode = "live"
      BY <1>3 DEF Tu!DeleteKey, TuiInv, AppSound, OnlyLive
    <2>2. Tu!DeleteRate(q, ok) = IF o = None THEN q ELSE [s EXCEPT !.forget = key]
      BY DEF Tu!DeleteRate
    <2>3. Ready(q) => Done([s EXCEPT !.forget = key])
      <3> HIDE DEF key
      <3>1. QED
        BY <2>1, LineGoesOut
    <2> HIDE DEF o, key, s
    <2>4. Ready(q) => Done(Tu!DeleteRate(q, ok))
      BY <2>2, <2>3, ReadyIsDone
    <2>5. QED
      BY <2>1, <2>4, ScreenKey
  <1>4. QED
    BY <1>2, <1>3

\* The cursor of the list that is shown, put somewhere.
LEMMA RowIsPut ==
    ASSUME NEW a, DOMAIN a = AppFields, a.devices \in Nat, a.time \in Nat, Listing(a.screen), NEW row
    PROVE  LET b == Tu!PutRow(a, row) IN
           /\ DOMAIN b = AppFields /\ \A f \in AppFields \ {"time", "devices", "screen"} : b[f] = a[f]
           /\ b.screen.at = a.screen.at /\ Tu!Row(b) = row
           /\ b.screen = a.screen \/ a.screen.at \notin {"devices", "time"}
           /\ row \in Nat => Listing(b.screen) /\ b.time \in Nat /\ b.devices \in Nat
  <1> DEFINE b == Tu!PutRow(a, row)
             s == [a.screen EXCEPT !.row = row]
  <1>1. CASE a.screen.at = "devices"
    <2>1. b = [a EXCEPT !.devices = row]
      BY <1>1 DEF Tu!PutRow
    <2>2. /\ DOMAIN b = AppFields /\ \A f \in AppFields \ {"devices"} : b[f] = a[f]
          /\ b.screen = a.screen /\ b.time = a.time /\ b.devices = row
      BY <2>1 DEF AppFields
    <2> HIDE DEF b
    <2>3. Tu!Row(b) = row
      BY <1>1, <2>2 DEF Tu!Row
    <2>4. QED
      BY <2>2, <2>3 DEF b
  <1>2. CASE a.screen.at = "time"
    <2>1. b = [a EXCEPT !.time = row]
      BY <1>2 DEF Tu!PutRow
    <2>2. /\ DOMAIN b = AppFields /\ \A f \in AppFields \ {"time"} : b[f] = a[f]
          /\ b.screen = a.screen /\ b.devices = a.devices /\ b.time = row
      BY <2>1 DEF AppFields
    <2> HIDE DEF b
    <2>3. Tu!Row(b) = row
      BY <1>2, <2>2 DEF Tu!Row
    <2>4. QED
      BY <2>2, <2>3 DEF b
  <1>3. CASE a.screen.at \notin {"devices", "time"}
    <2>1. b = [a EXCEPT !.screen = s]
      BY <1>3 DEF Tu!PutRow
    <2>2. {"at", "row"} \subseteq DOMAIN a.screen
      BY <1>3 DEF Listing
    <2>3. DOMAIN s = DOMAIN a.screen /\ s.at = a.screen.at /\ s.row = row
      BY <2>2
    <2> HIDE DEF s
    <2>4. /\ DOMAIN b = AppFields /\ \A f \in AppFields \ {"screen"} : b[f] = a[f]
          /\ b.screen = s /\ b.devices = a.devices /\ b.time = a.time
      BY <2>1 DEF AppFields
    <2> HIDE DEF b
    <2>5. Tu!Row(b) = row
      BY <1>3, <2>3, <2>4 DEF Tu!Row
    <2>6. row \in Nat => Listing(b.screen)
      BY <2>2, <2>3, <2>4 DEF Listing
    <2>7. QED
      BY <1>3, <2>3, <2>4, <2>5, <2>6 DEF b
  <1>4. QED
    BY <1>1, <1>2, <1>3

LEMMA RowIsNumber ==
    ASSUME NEW a, a.devices \in Nat, a.time \in Nat, Listing(a.screen)
    PROVE  Tu!Row(a) \in Nat
  <1>1. a.screen.at \notin {"devices", "time"} => a.screen.row \in Nat
    BY DEF Listing
  <1>2. QED
    BY <1>1 DEF Tu!Row

LEMMA NavigateStays ==
    ASSUME NEW row \in Nat, NEW n \in Nat, NEW step \in {-1, 1}
    PROVE  Tu!Navigate(row, n, step) \in Nat
  <1> DEFINE cur == IF row = 0 THEN 0 ELSE row - 1
  <1>1. Tu!Navigate(row, n, step) = IF n = 0 THEN 0 ELSE ((cur + step) % n) + 1
    BY DEF Tu!Navigate
  <1>2. cur + step \in Int
    OBVIOUS
  <1>3. \A x \in Int : n # 0 => x % n \in Nat
    OBVIOUS
  <1> HIDE DEF cur
  <1>4. QED
    BY <1>1, <1>2, <1>3

\* The arrows: the cursor in a list, the position in an entry.
LEMMA CursorKeys ==
    ASSUME TuiInv, Listable, NEW step \in {-1, 1}, Tu!Arrow(step) \/ Tu!EntryStep(step)
    PROVE  TuiInv' /\ Tu!KeysKeepTheirWord
  <1> DEFINE q == Tu!Quiet
  <1>1. DataTyped /\ AppSound(app, session, Tu!Seen)
    BY DEF TuiInv
  <1>2. /\ DOMAIN q = AppFields /\ q.out = None /\ \A f \in AppFields \ {"out"} : q[f] = app[f]
    BY QuietFields
  <1>3. /\ q.screen = app.screen /\ q.time = app.time /\ q.devices = app.devices /\ q.pgns = app.pgns /\ q.srcs = app.srcs
    BY <1>2 DEF AppFields
  <1>4. q.pgns # {} /\ q.srcs # {} /\ (q.srcs # None => \E src \in Tu!AnySrc : src \notin q.srcs)
    BY <1>1, <1>3 DEF AppSound, Filters
  <1>5. CASE Tu!Arrow(step)
    <2> DEFINE row == Tu!Navigate(Tu!Row(app), Tu!Length(rates, app), step)
               b == Tu!PutRow(q, row)
    <2>1. Tu!Press("screen", b) /\ app.screen.at # "entry"
      BY <1>5 DEF Tu!Arrow
    <2>2. Listing(app.screen) /\ app.devices \in Nat /\ app.time \in Nat /\ rates \in SUBSET Rates
      BY <1>1, <2>1 DEF AppSound, Entry, DataTyped
    <2>3. Tu!Row(app) \in Nat
      BY <2>2, RowIsNumber
    <2>4. Tu!Length(rates, app) \in Nat
      BY <1>1, <2>2, LengthsAreNumbers DEF Listing, ListScreens
    <2>5. row \in Nat
      BY <2>3, <2>4, NavigateStays
    <2> HIDE DEF row, q
    <2>6. /\ DOMAIN b = AppFields /\ \A f \in AppFields \ {"time", "devices", "screen"} : b[f] = q[f]
          /\ b.screen.at = q.screen.at /\ Listing(b.screen) /\ b.time \in Nat /\ b.devices \in Nat
      BY <1>2, <1>3, <2>2, <2>5, RowIsPut
    <2>7. b.pgns = q.pgns /\ b.srcs = q.srcs
      BY <2>6 DEF AppFields
    <2>8. b.screen.at \in {"nmea", "overrides"} => session.mode = "live"
      BY <1>1, <1>3, <2>6 DEF AppSound, OnlyLive
    <2> HIDE DEF b
    <2>9. Ready(q) => Done(b)
      BY <1>4, <2>6, <2>7, <2>8, Adjusted
    <2>10. QED
      BY <2>1, <2>9, ScreenKey DEF q
  <1>6. CASE Tu!EntryStep(step)
    <2> DEFINE old == q.screen.pos
               new == IF step < 0 /\ old = 1 THEN 1 ELSE old + step
               s == [q.screen EXCEPT !.pos = new]
               b == [q EXCEPT !.screen = s]
    <2>1. Tu!Press("screen", b) /\ app.screen.at = "entry"
      BY <1>6 DEF Tu!EntryStep
    <2>2. Entry(app.screen, Tu!Seen)
      BY <1>1, <2>1 DEF AppSound, Listing
    <2>3. old \in Nat \ {0}
      BY <1>3, <2>2 DEF Entry
    <2>4. new \in Nat \ {0}
      BY <2>3
    <2> HIDE DEF new, q
    <2>5. /\ DOMAIN s = DOMAIN app.screen /\ s.at = app.screen.at /\ s.src = app.screen.src /\ s.pgn = app.screen.pgn
          /\ s.back = app.screen.back /\ s.pos = new
      BY <1>3, <2>2 DEF Entry
    <2> HIDE DEF s
    <2>6. Entry(s, Tu!Seen)
      BY <2>2, <2>4, <2>5 DEF Entry
    <2>7. /\ DOMAIN b = AppFields /\ \A f \in AppFields \ {"screen"} : b[f] = q[f]
          /\ b.screen = s /\ b.time = q.time /\ b.devices = q.devices /\ b.pgns = q.pgns /\ b.srcs = q.srcs
      BY <1>2 DEF AppFields
    <2>8. b.time \in Nat /\ b.devices \in Nat
      BY <1>1, <1>3, <2>7 DEF AppSound
    <2>9. q.screen.at # "time"
      BY <1>3, <2>1
    <2> HIDE DEF b
    <2>10. Ready(q) => Done(b)
      BY <1>4, <2>6, <2>7, <2>8, <2>9, Adjusted
    <2>11. QED
      BY <2>1, <2>10, ScreenKey DEF q, b
  <1>7. QED
    BY <1>5, <1>6

\* Whatever key is pressed.
LEMMA KeysAreSound ==
    ASSUME TuiInv, Listable, Tu!Keypress
    PROVE  TuiInv' /\ Tu!KeysKeepTheirWord
  <1> DEFINE Good == TuiInv' /\ Tu!KeysKeepTheirWord
  <1>1. Tu!CtrlC \/ Tu!SkipSplash \/ Tu!Acknowledge \/ Tu!DismissConnecting => Good
    BY FirstKeys
  <1>2. Tu!DismissHelp \/ Tu!MenuClose \/ Tu!BrowserCancel \/ Tu!ConnectCancel \/ Tu!OverrideCancel
        \/ Tu!PromptCancel \/ Tu!SourcesCancel \/ Tu!OverrideInvalid => Good
    BY DialogCancelled
  <1>3. \/ \E title \in Tu!Titles : Tu!MenuSwitch(title)
        \/ \E ok \in BOOLEAN : \E item \in IF app.menu = None THEN {} ELSE Tu!Enabled(app.menu) : Tu!MenuFire(item, ok)
        => Good
    BY MenuKeys
  <1>4. Tu!BrowserConfirm \/ Tu!ConnectConfirm => Good
    BY CommandKeys
  <1>5. \A ok \in BOOLEAN : Tu!OverrideConfirm(ok) => Good
    BY OverrideKey
  <1>6. \/ Tu!PromptClear \/ \E p \in Tu!AnyPgn : Tu!PromptSearch(p)
        \/ \E list \in {{}, Tu!AnyPgn} \union {{p} : p \in Tu!AnyPgn} : Tu!PromptFilter(list)
        => Good
    BY PromptKeys
  <1>7. (\E src \in Tu!AnySrc : Tu!SourcesToggle(src)) \/ Tu!SourcesAll \/ Tu!SourcesConfirm => Good
    BY SourcesKeys
  <1>8. \/ \E title \in Tu!Titles : Tu!OpenMenu(title)
        \/ Tu!OpenHelp \/ Tu!QuitKey \/ Tu!ToTimeline \/ Tu!ToTop \/ Tu!EscKey \/ Tu!DevicesKey
        \/ Tu!LiveKey("nmea") \/ Tu!LiveKey("overrides") \/ \E ok \in BOOLEAN : Tu!RequestKey(ok)
        \/ Tu!IntervalKey \/ Tu!SourcesKey \/ Tu!PromptKey("search") \/ Tu!PromptKey("filter")
        \/ \E step \in {-1, 1} : Tu!NextKey(step)
        => Good
    BY PlainKeys
  <1>9. \A ok \in BOOLEAN : Tu!EnterKey(ok) \/ Tu!DeleteKey(ok) => Good
    BY EnterKeys
  <1>10. \A step \in {-1, 1} : Tu!Arrow(step) \/ Tu!EntryStep(step) => Good
    BY CursorKeys
  <1> HIDE DEF Good
  <1>11. Good
    BY <1>1, <1>2, <1>3, <1>4, <1>5, <1>6, <1>7, <1>8, <1>9, <1>10 DEF Tu!Keypress
  <1>12. QED
    BY <1>11 DEF Good

-----------------------------------------------------------------------------
(* The loop and the tasks.                                                 *)

\* More is heard, and the session is still the one that is shown.
LEMMA MoreIsHeard ==
    ASSUME NEW a, NEW s, NEW known, AppSound(a, s, known), NEW t, t.mode = s.mode, t.id = s.id,
           NEW more, known \subseteq more
    PROVE  AppSound(a, t, more)
  <1>1. Listing(a.screen) \/ Entry(a.screen, more)
    BY DEF AppSound, Entry
  <1>2. OnlyLive(a, t)
    BY DEF AppSound, OnlyLive
  <1>3. QED
    BY <1>1, <1>2 DEF AppSound

\* A task changes the bus model under the loop.
LEMMA TaskKeeps ==
    ASSUME TuiInv, DataTyped', app' = app, turn' = turn, session'.mode = session.mode, session'.id = session.id,
           history' = history \/ \E k \in Keys : history' = Append(history, k)
    PROVE  TuiInv' /\ Tu!KeysKeepTheirWord
  <1>1. /\ history \in Seq(Keys) /\ Len(history) \in Nat /\ history' \in Seq(Keys) /\ Len(history') \in Nat
        /\ Len(history) <= Len(history')
        /\ \A i \in 1 .. Len(history) : i \in 1 .. Len(history') /\ history'[i] = history[i]
    BY DEF TuiInv, DataTyped
  <1>2. Tu!Seen \subseteq Tu!Seen'
    BY <1>1 DEF Tu!Seen
  <1>3. AppSound(app, session, Tu!Seen)'
    BY <1>2, MoreIsHeard DEF TuiInv
  <1>4. ASSUME NEW k
        PROVE  /\ Len(Tu!HistoryOf(k)) \in Nat /\ Len(Tu!HistoryOf(k)') \in Nat
               /\ Len(Tu!HistoryOf(k)) <= Len(Tu!HistoryOf(k)')
    <2> DEFINE P == {i \in 1 .. Len(history) : history[i] = k}
               Q == {i \in 1 .. Len(history') : history'[i] = k}
    <2>1. P \in SUBSET Q /\ Q \in SUBSET (1 .. Len(history')) /\ Q \in SUBSET Nat /\ P \in SUBSET Nat
      BY <1>1
    <2>2. IsFiniteSet(1 .. Len(history'))
      BY <1>1, FS_Interval
    <2>3. IsFiniteSet(Q) /\ IsFiniteSet(P)
      BY <2>1, <2>2, FS_Subset
    <2>4. Cardinality(P) <= Cardinality(Q)
      BY <2>1, <2>3, FS_Subset
    <2>5. Tu!HistoryOf(k) = InOrder(P) /\ Tu!HistoryOf(k)' = InOrder(Q)
      BY DEF Tu!HistoryOf, InOrder
    <2> HIDE DEF P, Q
    <2>6. Len(InOrder(P)) = Cardinality(P) /\ Len(InOrder(Q)) = Cardinality(Q) /\ Cardinality(P) \in Nat /\ Cardinality(Q) \in Nat
      BY <2>1, <2>3, OrderedMembers
    <2>7. QED
      BY <2>4, <2>5, <2>6
  <1>5. (turn = "wait" => PositionIsThere)'
    <2>1. SUFFICES ASSUME turn = "wait", app.screen.at = "entry"
                   PROVE  app.screen.pos <= Len(Tu!HistoryOf([pgn |-> app.screen.pgn, src |-> app.screen.src])')
      BY DEF PositionIsThere
    <2> DEFINE k == [pgn |-> app.screen.pgn, src |-> app.screen.src]
    <2>2. app.screen.pos <= Len(Tu!HistoryOf(k)) /\ app.screen.pos \in Nat
      BY <2>1 DEF TuiInv, PositionIsThere, AppSound, Listing, Entry
    <2>3. /\ Len(Tu!HistoryOf(k)) \in Nat /\ Len(Tu!HistoryOf(k)') \in Nat
          /\ Len(Tu!HistoryOf(k)) <= Len(Tu!HistoryOf(k)')
      BY <1>4
    <2>4. QED
      BY <2>2, <2>3
  <1>6. TuiInv'
    BY <1>3, <1>5 DEF TuiInv
  <1>7. ~Tu!Draw
    BY DEF Tu!Draw
  <1>8. app.screen.at = "time" => app'.screen.at # "entry"
    OBVIOUS
  <1>9. QED
    BY <1>6, <1>7, <1>8 DEF Tu!KeysKeepTheirWord

LEMMA TasksAreSound ==
    ASSUME TuiInv, Listable, Tu!Tasks
    PROVE  TuiInv' /\ Tu!KeysKeepTheirWord
  <1>1. DataTyped
    BY DEF TuiInv
  <1>2. ASSUME NEW k \in Keys, Tu!Record(k)
        PROVE  TuiInv' /\ Tu!KeysKeepTheirWord
    <2>1. /\ history' = Append(history, k) /\ session' = session /\ rates' = rates /\ mutes' = mutes
          /\ app' = app /\ turn' = turn
      BY <1>2 DEF Tu!Record, Tu!Happens
    <2>2. DataTyped'
      BY <1>1, <2>1 DEF DataTyped
    <2>3. QED
      BY <2>1, <2>2, TaskKeeps
  <1>3. ASSUME NEW s, session' = s, s.mode = session.mode, s.id = session.id, DOMAIN s = SessionFields,
               history' = history, rates' = rates, mutes' = mutes, app' = app, turn' = turn
        PROVE  TuiInv' /\ Tu!KeysKeepTheirWord
    <2>1. DataTyped'
      BY <1>1, <1>3 DEF DataTyped
    <2>2. QED
      BY <1>3, <2>1, TaskKeeps
  <1>4. ASSUME NEW s, Tu!StatusChange(s), s.mode = session.mode, s.id = session.id, DOMAIN s = SessionFields
        PROVE  TuiInv' /\ Tu!KeysKeepTheirWord
    BY <1>3, <1>4 DEF Tu!StatusChange, Tu!Happens
  <1>5. CASE Tu!Loaded
    <2> DEFINE s == [session EXCEPT !.loaded = TRUE]
    <2>1. Tu!StatusChange(s)
      BY <1>5 DEF Tu!Loaded
    <2>2. s.mode = session.mode /\ s.id = session.id /\ DOMAIN s = SessionFields
      BY <1>1 DEF DataTyped, SessionFields
    <2> HIDE DEF s
    <2>3. QED
      BY <1>4, <2>1, <2>2
  <1>6. ASSUME NEW up, Tu!Stream(up)
        PROVE  TuiInv' /\ Tu!KeysKeepTheirWord
    <2> DEFINE s == [session EXCEPT !.streaming = up]
    <2>1. Tu!StatusChange(s)
      BY <1>6 DEF Tu!Stream
    <2>2. s.mode = session.mode /\ s.id = session.id /\ DOMAIN s = SessionFields
      BY <1>1 DEF DataTyped, SessionFields
    <2> HIDE DEF s
    <2>3. QED
      BY <1>4, <2>1, <2>2
  <1>7. CASE Tu!Error
    <2> DEFINE s == [session EXCEPT !.error = "broken"]
    <2>1. Tu!StatusChange(s)
      BY <1>7 DEF Tu!Error
    <2>2. s.mode = session.mode /\ s.id = session.id /\ DOMAIN s = SessionFields
      BY <1>1 DEF DataTyped, SessionFields
    <2> HIDE DEF s
    <2>3. QED
      BY <1>4, <2>1, <2>2
  <1>8. ASSUME NEW R \in SUBSET Rates, rates' = R, history' = history, session' = session, mutes' = mutes,
               app' = app, turn' = turn
        PROVE  TuiInv' /\ Tu!KeysKeepTheirWord
    <2>1. DataTyped'
      BY <1>1, <1>8 DEF DataTyped
    <2>2. QED
      BY <1>8, <2>1, TaskKeeps
  <1>9. ASSUME NEW o \in Rates, Tu!Report(o)
        PROVE  TuiInv' /\ Tu!KeysKeepTheirWord
    <2> DEFINE R == {x \in rates : x.src # o.src \/ x.pgn # o.pgn} \union {o}
    <2>1. R \in SUBSET Rates
      BY <1>1 DEF DataTyped
    <2>2. rates' = R /\ history' = history /\ session' = session /\ mutes' = mutes /\ app' = app /\ turn' = turn
      BY <1>9 DEF Tu!Report, Tu!Happens
    <2> HIDE DEF R
    <2>3. QED
      BY <1>8, <2>1, <2>2
  <1>10. ASSUME NEW o, Tu!Expire(o)
         PROVE  TuiInv' /\ Tu!KeysKeepTheirWord
    <2> DEFINE R == rates \ {o}
    <2>1. R \in SUBSET Rates
      BY <1>1 DEF DataTyped
    <2>2. rates' = R /\ history' = history /\ session' = session /\ mutes' = mutes /\ app' = app /\ turn' = turn
      BY <1>10 DEF Tu!Expire
    <2> HIDE DEF R
    <2>3. QED
      BY <1>8, <2>1, <2>2
  <1>11. ASSUME NEW r \in MuteRows, NEW muted, Tu!MuteReport(r, muted)
         PROVE  TuiInv' /\ Tu!KeysKeepTheirWord
    <2>1. /\ DOMAIN mutes' = DOMAIN mutes \union {r, Tu!Header(r)}
          /\ rates' = rates /\ history' = history /\ session' = session /\ app' = app /\ turn' = turn
      BY <1>11 DEF Tu!MuteReport, Tu!Happens
    <2>2. Tu!Header(r) \in MuteRows
      BY DEF Listable
    <2>3. DataTyped'
      BY <1>1, <2>1, <2>2 DEF DataTyped
    <2>4. QED
      BY <2>1, <2>3, TaskKeeps
  <1>12. CASE Tu!SaveStarts
    <2> DEFINE s == [session EXCEPT !.spawned = @ - 1, !.running = @ + 1, !.saving = TRUE]
    <2>1. /\ session' = s /\ history' = history /\ rates' = rates /\ mutes' = mutes /\ app' = app /\ turn' = turn
      BY <1>12 DEF Tu!SaveStarts
    <2>2. s.mode = session.mode /\ s.id = session.id /\ DOMAIN s = SessionFields
      BY <1>1 DEF DataTyped, SessionFields
    <2> HIDE DEF s
    <2>3. QED
      BY <1>3, <2>1, <2>2
  <1>13. ASSUME NEW e, Tu!SaveEnds(e)
         PROVE  TuiInv' /\ Tu!KeysKeepTheirWord
    <2> DEFINE s == [session EXCEPT !.running = @ - 1, !.saving = FALSE, !.error = e]
    <2>1. /\ session' = s /\ history' = history /\ rates' = rates /\ mutes' = mutes /\ app' = app /\ turn' = turn
      BY <1>13 DEF Tu!SaveEnds
    <2>2. s.mode = session.mode /\ s.id = session.id /\ DOMAIN s = SessionFields
      BY <1>1 DEF DataTyped, SessionFields
    <2> HIDE DEF s
    <2>3. QED
      BY <1>3, <2>1, <2>2
  <1>14. QED
    BY <1>2, <1>5, <1>6, <1>7, <1>9, <1>10, <1>11, <1>12, <1>13 DEF Tu!Tasks

\* The loop puts the cursors and the flags right, and takes the command back.
LEMMA LoopIsSound ==
    ASSUME AppSound(app, session, Tu!Seen), NEW b, DOMAIN b = AppFields, b.time \in Nat, b.devices \in Nat,
           \A f \in AppFields \ {"forget", "dismissed", "screen", "time", "devices", "splash", "command"} : b[f] = app[f],
           b.command \in {None, app.command}, b.screen.at = app.screen.at,
           Listing(b.screen) \/ Entry(b.screen, Tu!Seen)
    PROVE  AppSound(b, session, Tu!Seen)
  <1>1. /\ b.connect = app.connect /\ b.help = app.help
        /\ b.browser = app.browser /\ b.override = app.override /\ b.prompt = app.prompt /\ b.sources = app.sources
        /\ b.menu = app.menu /\ b.pgns = app.pgns /\ b.srcs = app.srcs /\ b.out = app.out
    BY DEF AppFields
  <1>2. OnlyLive(b, session) /\ Filters(b)
    BY <1>1 DEF AppSound, OnlyLive, Filters
  <1>3. OneOpen(b)
    BY <1>1 DEF AppSound, OneOpen, NoneBut
  <1>4. b.command # None => Closed(b) /\ b.out = None /\ b.command \in {"connect", "load", "save"}
    BY <1>1 DEF AppSound, Closed, NoneBut
  <1>5. QED
    BY <1>1, <1>2, <1>3, <1>4 DEF AppSound

\* Nothing of the bus model is touched by the timer, nor by the end.
LEMMA TickIsSound ==
    ASSUME TuiInv, Tu!Tick \/ Tu!TerminalEnds
    PROVE  TuiInv' /\ Tu!KeysKeepTheirWord
  <1>1. /\ session' = session /\ history' = history /\ rates' = rates /\ mutes' = mutes
        /\ turn' \in {"draw", "ended"} /\ ~Tu!Draw /\ app' \in {app, Tu!Quiet} /\ turn \in {"wait", "draw"}
        /\ app' = app \/ (turn = "wait" /\ app' = Tu!Quiet)
    BY DEF Tu!Tick, Tu!TerminalEnds, Tu!data, Tu!Draw
  <1>2. DataTyped'
    BY <1>1 DEF TuiInv, DataTyped
  <1>3. Tu!Seen' = Tu!Seen
    BY <1>1 DEF Tu!Seen
  <1>4. AppSound(app, session, Tu!Seen) /\ app.command = None
    BY <1>1 DEF TuiInv
  <1>5. Done(app') /\ app'.command = None
    <2>1. CASE app' = app
      BY <1>4, <2>1 DEF Done, FromTimeline
    <2>2. CASE app' = Tu!Quiet
      <3>1. DOMAIN app' = AppFields /\ app'.out = None /\ \A f \in AppFields \ {"out"} : app'[f] = app[f]
        BY <2>2, QuietFields
      <3>2. app'.command = None
        BY <1>4, <3>1 DEF AppFields
      <3>3. Done(app')
        BY <1>4, <3>1, QuietIsSound
      <3>4. QED
        BY <3>2, <3>3
    <2>3. QED
      BY <1>1, <2>1, <2>2
  <1>6. AppSound(app, session, Tu!Seen)'
    BY <1>1, <1>3, <1>5 DEF Done
  <1>7. TuiInv'
    BY <1>1, <1>2, <1>5, <1>6 DEF TuiInv
  <1>8. QED
    BY <1>1, <1>5, <1>7 DEF Tu!KeysKeepTheirWord, Done, FromTimeline

\* The command the last key recorded: a session takes the place of the other,
\* or is refused; the capture is saved.
LEMMA CommandIsSound ==
    ASSUME TuiInv, Listable, Tu!Command
    PROVE  TuiInv' /\ Tu!KeysKeepTheirWord
  <1>1. /\ turn = "command" /\ turn' = "draw" /\ app.command # None /\ ~Tu!Draw
        /\ AppSound(app, session, Tu!Seen) /\ DataTyped
        /\ app.command \in {"connect", "load", "save"}
    BY DEF Tu!Command, Tu!Draw, TuiInv, AppSound
  <1>2. Tu!Swap("live") \/ Tu!Swap("log") \/ Tu!RefuseSwap \/ Tu!Save
    BY <1>1 DEF Tu!Command
  <1>3. ASSUME NEW mode \in {"live", "log"}, Tu!Swap(mode)
        PROVE  TuiInv' /\ Tu!KeysKeepTheirWord
    <2> DEFINE b == [Tu!ResetViews(app) EXCEPT !.command = None, !.dismissed = (mode = "log")]
    <2>1. /\ session' = Tu!NewSession(mode, FALSE) /\ history' = <<>> /\ rates' = {} /\ mutes' = <<>> /\ app' = b
      BY <1>3 DEF Tu!Swap
    <2>2. session'.mode = mode /\ session'.id \in Nat /\ DOMAIN session' = SessionFields
      BY <1>1, <2>1 DEF Tu!NewSession, DataTyped, SessionFields
    <2>3. DataTyped'
      <3>1. << >> \in Seq(Keys) /\ Len(<< >>) = 0 /\ DOMAIN << >> = 1 .. 0 /\ 1 .. 0 = {}
        OBVIOUS
      <3>2. DOMAIN mutes' = {}
        BY <2>1, <3>1
      <3>3. QED
        BY <1>3, <2>1, <2>2, <3>1, <3>2 DEF DataTyped
    <2>4. /\ DOMAIN b = AppFields /\ b.screen = Tu!Devices /\ b.devices = 1 /\ b.time = 1 /\ b.pgns = None
          /\ b.srcs = None /\ b.menu = None /\ b.prompt = None /\ b.sources = None /\ b.command = None
          /\ b.help = app.help /\ b.connect = app.connect /\ b.browser = app.browser /\ b.override = app.override
          /\ b.out = app.out
      BY <1>1 DEF AppSound, AppFields, Tu!ResetViews
    <2> HIDE DEF b
    <2>5. Closed(b) /\ b.out = None /\ b.override = None /\ b.connect \in BOOLEAN /\ b.help \in BOOLEAN
          /\ b.browser \in {None, "load", "save"}
      BY <1>1, <2>4 DEF AppSound, Closed, NoneBut
    <2>6. Listing(b.screen) /\ b.screen.at = "devices"
      BY <2>4 DEF Listing, Tu!Devices
    <2>7. Filters(b)
      BY <2>4 DEF Filters, Listable
    <2>8. \A s : OnlyLive(b, s)
      BY <2>5, <2>6 DEF OnlyLive
    <2>9. \A s, known : AppSound(b, s, known)
      BY <2>4, <2>5, <2>6, <2>7, <2>8, ClosedIsOne DEF AppSound
    <2>10. TuiInv'
      BY <1>1, <2>1, <2>3, <2>4, <2>9 DEF TuiInv
    <2>11. QED
      BY <1>1, <2>1, <2>6, <2>10 DEF Tu!KeysKeepTheirWord
  <1>4. CASE Tu!RefuseSwap \/ Tu!Save
    <2> DEFINE b == [app EXCEPT !.command = None]
    <2>1. /\ app' = b /\ history' = history /\ rates' = rates /\ mutes' = mutes
          /\ session' \in {session, [session EXCEPT !.spawned = @ + 1]}
      BY <1>4 DEF Tu!RefuseSwap, Tu!Save, Tu!data
    <2>2. session'.mode = session.mode /\ session'.id = session.id /\ DOMAIN session' = SessionFields
      BY <1>1, <2>1 DEF DataTyped, SessionFields
    <2>3. DataTyped'
      BY <1>1, <2>1, <2>2 DEF DataTyped
    <2>4. /\ DOMAIN b = AppFields /\ \A f \in AppFields \ {"command"} : b[f] = app[f]
          /\ b.command = None /\ b.screen = app.screen /\ b.time = app.time /\ b.devices = app.devices
      BY <1>1 DEF AppSound, AppFields
    <2> HIDE DEF b
    <2>5. Listing(b.screen) \/ Entry(b.screen, Tu!Seen)
      BY <1>1, <2>4 DEF AppSound
    <2>6. b.time \in Nat /\ b.devices \in Nat
      BY <1>1, <2>4 DEF AppSound
    <2>7. AppSound(b, session, Tu!Seen)
      BY <1>1, <2>4, <2>5, <2>6, LoopIsSound
    <2>8. Tu!Seen' = Tu!Seen
      BY <2>1 DEF Tu!Seen
    <2>9. AppSound(app, session, Tu!Seen)'
      BY <2>1, <2>2, <2>7, <2>8, MoreIsHeard
    <2>10. TuiInv'
      BY <1>1, <2>1, <2>3, <2>4, <2>9 DEF TuiInv
    <2>11. QED
      BY <1>1, <2>1, <2>4, <2>10 DEF Tu!KeysKeepTheirWord
  <1>5. QED
    BY <1>2, <1>3, <1>4

\* A repaint: the position in an entry is taken back to its last record, the
\* cursor of a list into the list.
LEMMA DrawIsSound ==
    ASSUME TuiInv, Listable, Tu!Draw
    PROVE  TuiInv' /\ Tu!KeysKeepTheirWord
  <1> DEFINE R == {o \in rates : app.forget = None \/ [src |-> o.src, pgn |-> o.pgn] # app.forget}
             start == [app EXCEPT !.forget = None]
             clamped == Tu!Clamp(start)
             shown == Tu!Dismiss(clamped)
             key == [pgn |-> app.screen.pgn, src |-> app.screen.src]
  <1>1. /\ turn = "draw" /\ turn' = "wait" /\ rates' = R
        /\ app' \in (IF shown.splash THEN {shown, [shown EXCEPT !.splash = FALSE]} ELSE {Tu!Render(shown, R)})
        /\ session' = session /\ history' = history /\ mutes' = mutes
    BY DEF Tu!Draw
  <1>2. /\ DataTyped /\ AppSound(app, session, Tu!Seen) /\ app.command = None
        /\ DOMAIN app = AppFields /\ app.devices \in Nat /\ app.time \in Nat
        /\ Listing(app.screen) \/ Entry(app.screen, Tu!Seen)
    BY <1>1 DEF TuiInv, AppSound
  <1>3. R \in SUBSET Rates
    BY <1>2 DEF DataTyped
  <1>4. DataTyped'
    BY <1>1, <1>2, <1>3 DEF DataTyped
  <1>5. Tu!Seen' = Tu!Seen
    BY <1>1 DEF Tu!Seen
  <1> HIDE DEF R
  \* What the clamp and the overlay leave.
  <1>6. /\ DOMAIN start = AppFields /\ \A f \in AppFields \ {"forget"} : start[f] = app[f]
        /\ start.screen = app.screen
    BY <1>2 DEF AppFields
  <1> HIDE DEF start
  <1>7. /\ DOMAIN clamped = AppFields /\ \A f \in AppFields \ {"forget", "screen"} : clamped[f] = app[f]
        /\ app.screen.at # "entry" => clamped.screen = app.screen
        /\ app.screen.at = "entry" =>
             /\ Entry(clamped.screen, Tu!Seen) /\ clamped.screen.pgn = app.screen.pgn
             /\ clamped.screen.src = app.screen.src /\ clamped.screen.pos <= Len(Tu!HistoryOf(key))
    <2>1. CASE app.screen.at # "entry"
      BY <1>6, <2>1 DEF Tu!Clamp
    <2>2. CASE app.screen.at = "entry"
      <3> DEFINE n == Len(Tu!HistoryOf(key))
                 s == [app.screen EXCEPT !.pos = n]
                 cut == [start EXCEPT !.screen = s]
      <3>1. clamped = IF n > 0 /\ app.screen.pos > n THEN cut ELSE start
        BY <1>6, <2>2 DEF Tu!Clamp
      <3>2. Entry(app.screen, Tu!Seen)
        BY <1>2, <2>2 DEF Listing
      <3>3. n \in Nat \ {0}
        <4>1. key \in Tu!Seen
          BY <3>2 DEF Entry
        <4>2. QED
          BY <1>2, <4>1, HistoryHolds
      <3> HIDE DEF n
      <3>4. /\ DOMAIN s = DOMAIN app.screen /\ s.pos = n /\ s.at = app.screen.at /\ s.pgn = app.screen.pgn
            /\ s.src = app.screen.src /\ s.back = app.screen.back
        BY <3>2 DEF Entry
      <3> HIDE DEF s
      <3>5. Entry(s, Tu!Seen)
        BY <3>2, <3>3, <3>4 DEF Entry
      <3>6. /\ DOMAIN cut = AppFields /\ \A f \in AppFields \ {"forget", "screen"} : cut[f] = app[f]
            /\ cut.screen = s
        BY <1>6 DEF AppFields
      <3> HIDE DEF cut, clamped
      <3>7. CASE n > 0 /\ app.screen.pos > n
        <4>1. clamped = cut
          BY <3>1, <3>7
        <4>2. s.pos <= n
          BY <3>3, <3>4
        <4>3. QED
          BY <2>2, <3>4, <3>5, <3>6, <4>1, <4>2 DEF n
      <3>8. CASE ~(n > 0 /\ app.screen.pos > n)
        <4>1. clamped = start
          BY <3>1, <3>8
        <4>2. app.screen.pos <= n
          BY <3>2, <3>3, <3>8 DEF Entry
        <4>3. QED
          BY <1>6, <2>2, <3>2, <4>1, <4>2 DEF n
      <3>9. QED
        BY <3>7, <3>8
    <2>3. QED
      BY <2>1, <2>2
  <1> HIDE DEF clamped
  <1>8. /\ DOMAIN shown = AppFields /\ \A f \in AppFields \ {"forget", "screen", "dismissed"} : shown[f] = app[f]
        /\ shown.screen = clamped.screen /\ shown.time = app.time /\ shown.devices = app.devices
        /\ shown.splash = app.splash /\ shown.command = app.command
    BY <1>7 DEF Tu!Dismiss, AppFields
  <1> HIDE DEF shown
  <1>9. app.screen.at = "entry" => Entry(shown.screen, Tu!Seen)
    BY <1>7, <1>8
  <1>10. app.screen.at # "entry" => shown.screen = app.screen /\ Listing(app.screen)
    BY <1>2, <1>7, <1>8 DEF Entry
  \* The cursor that is repainted.
  <1> DEFINE n == Tu!Length(R, shown)
             row == Tu!Fix(Tu!Row(shown), n)
  <1>11. ASSUME app.screen.at # "entry"
         PROVE  /\ n \in Nat /\ n = Tu!Length(R, app) /\ Tu!Row(shown) = Tu!Row(app) /\ Tu!Row(app) \in Nat
                /\ row \in Nat /\ row <= n /\ (row = 0 <=> n = 0)
                /\ Tu!Row(app) \in 1 .. n => row = Tu!Row(app)
    <2>1. n \in Nat
      <3>1. shown.screen.at \in ListScreens
        BY <1>10, <1>11 DEF Listing, ListScreens
      <3>2. QED
        BY <1>2, <1>3, <3>1, LengthsAreNumbers
    <2>2. n = Tu!Length(R, app) /\ Tu!Row(shown) = Tu!Row(app)
      BY <1>8, <1>10, <1>11 DEF Tu!Length, Tu!Row
    <2>3. Tu!Row(app) \in Nat
      BY <1>2, <1>10, <1>11, RowIsNumber
    <2> HIDE DEF n
    <2>4. /\ row \in Nat /\ row <= n /\ (row = 0 <=> n = 0)
          /\ Tu!Row(app) \in 1 .. n => row = Tu!Row(app)
      BY <2>1, <2>2, <2>3 DEF Tu!Fix
    <2>5. QED
      BY <2>1, <2>2, <2>3, <2>4
  <1>12. Tu!Render(shown, R) = IF app.screen.at = "entry" THEN shown ELSE Tu!PutRow(shown, row)
    <2>1. shown.screen.at = "entry" <=> app.screen.at = "entry"
      BY <1>9, <1>10 DEF Entry
    <2>2. QED
      BY <2>1 DEF Tu!Render
  <1> HIDE DEF n, row
  <1>13. /\ DOMAIN app' = AppFields /\ app'.time \in Nat /\ app'.devices \in Nat /\ app'.command = None
         /\ \A f \in AppFields \ {"forget", "dismissed", "screen", "time", "devices", "splash", "command"} : app'[f] = app[f]
         /\ app'.screen.at = app.screen.at
         /\ Listing(app'.screen) \/ Entry(app'.screen, Tu!Seen)
         /\ app.screen.at = "entry" => app'.screen = shown.screen
         /\ ~app.splash /\ app.screen.at # "entry" => Tu!Row(app') = row
    <2>1. CASE app' = shown /\ (app.splash \/ app.screen.at = "entry")
      BY <1>2, <1>8, <1>9, <1>10, <2>1 DEF Entry
    <2>2. CASE app' = [shown EXCEPT !.splash = FALSE] /\ app.splash
      <3>1. /\ DOMAIN app' = AppFields /\ app'.time = shown.time /\ app'.devices = shown.devices
            /\ app'.command = shown.command /\ app'.screen = shown.screen
            /\ \A f \in AppFields \ {"splash"} : app'[f] = shown[f]
        BY <1>8, <2>2 DEF AppFields
      <3>2. QED
        BY <1>2, <1>8, <1>9, <1>10, <2>2, <3>1 DEF Entry
    <2>3. CASE app' = Tu!PutRow(shown, row) /\ app.screen.at # "entry"
      <3>1. Listing(shown.screen) /\ row \in Nat
        BY <1>10, <1>11, <2>3
      <3>2. /\ DOMAIN app' = AppFields /\ \A f \in AppFields \ {"time", "devices", "screen"} : app'[f] = shown[f]
            /\ app'.screen.at = shown.screen.at /\ Tu!Row(app') = row /\ Listing(app'.screen)
            /\ app'.time \in Nat /\ app'.devices \in Nat
        BY <1>2, <1>8, <2>3, <3>1, RowIsPut
      <3>3. app'.command = shown.command
        BY <3>2 DEF AppFields
      <3>4. QED
        BY <1>2, <1>8, <1>10, <2>3, <3>2, <3>3
    <2>4. QED
      BY <1>1, <1>8, <1>12, <2>1, <2>2, <2>3
  <1>14. AppSound(app', session, Tu!Seen)
    BY <1>2, <1>13, LoopIsSound
  <1>15. AppSound(app, session, Tu!Seen)'
    BY <1>1, <1>5, <1>14
  <1>16. PositionIsThere'
    <2>1. (Tu!HistoryOf([pgn |-> app.screen.pgn, src |-> app.screen.src]))'
            = Tu!HistoryOf([pgn |-> app'.screen.pgn, src |-> app'.screen.src])
      BY <1>1 DEF Tu!HistoryOf
    <2>2. SUFFICES ASSUME app.screen.at = "entry"
                   PROVE  app'.screen.pos <= Len(Tu!HistoryOf([pgn |-> app'.screen.pgn, src |-> app'.screen.src]))
      BY <1>13, <2>1 DEF PositionIsThere
    <2>3. [pgn |-> app'.screen.pgn, src |-> app'.screen.src] = key /\ app'.screen.pos = clamped.screen.pos
      BY <1>7, <1>8, <1>13, <2>2
    <2>4. QED
      BY <1>7, <2>2, <2>3
  <1>17. TuiInv'
    BY <1>1, <1>4, <1>13, <1>15, <1>16 DEF TuiInv
  <1>18. ~app.splash /\ app.screen.at # "entry" =>
           /\ (Tu!Row(app') = 0) <=> (Tu!Length(rates', app) = 0)
           /\ Tu!Row(app') <= Tu!Length(rates', app)
           /\ Tu!Row(app) \in 1 .. Tu!Length(rates', app) => Tu!Row(app') = Tu!Row(app)
    BY <1>1, <1>11, <1>13
  <1>19. QED
    BY <1>13, <1>17, <1>18 DEF Tu!KeysKeepTheirWord

LEMMA TuiBegins ==
    ASSUME Listable, Tu!Init
    PROVE  TuiInv
  <1>1. /\ session.mode \in {"live", "log"} /\ session.id \in {0, 1} /\ DOMAIN session = SessionFields
    BY DEF Tu!Init, SessionFields
  <1>2. history = <<>> /\ rates = {} /\ mutes = <<>> /\ turn = "wait"
    BY DEF Tu!Init
  <1>3. /\ DOMAIN app = AppFields /\ app.screen = Tu!Devices /\ app.devices = 1 /\ app.time = 1 /\ app.pgns = None
        /\ app.srcs = None /\ app.menu = None /\ app.prompt = None /\ app.sources = None /\ app.command = None
        /\ app.help = FALSE /\ app.connect = FALSE /\ app.browser \in {"load", None} /\ app.override = None
        /\ app.out = None
    BY DEF Tu!Init, AppFields
  <1>4. DataTyped
    <2>1. << >> \in Seq(Keys) /\ Len(<< >>) = 0 /\ DOMAIN << >> = 1 .. 0 /\ 1 .. 0 = {}
      OBVIOUS
    <2>2. DOMAIN mutes = {}
      BY <1>2, <2>1
    <2>3. QED
      BY <1>1, <1>2, <2>1, <2>2 DEF DataTyped
  <1>5. Listing(app.screen) /\ app.screen.at = "devices"
    BY <1>3 DEF Listing, Tu!Devices
  <1>6. OneOpen(app)
    BY <1>3 DEF OneOpen, NoneBut
  <1>7. Filters(app)
    BY <1>3 DEF Filters, Listable
  <1>8. OnlyLive(app, session)
    BY <1>3, <1>5 DEF OnlyLive
  <1>9. AppSound(app, session, Tu!Seen)
    <2>1. app.devices \in Nat /\ app.time \in Nat
      BY <1>3
    <2>2. app.connect \in BOOLEAN /\ app.help \in BOOLEAN
      BY <1>3, Zenon
    <2>3. app.browser \in {None, "load", "save"} /\ app.menu \in Tu!Titles \union {None}
      BY <1>3
    <2>4. QED
      BY <1>3, <1>5, <1>6, <1>7, <1>8, <2>1, <2>2, <2>3 DEF AppSound
  <1>10. QED
    BY <1>2, <1>3, <1>4, <1>5, <1>9 DEF TuiInv, PositionIsThere

\* Every step, and none.
LEMMA TuiSteps ==
    ASSUME Listable, TuiInv, [Tu!Next]_Tu!tuiVars
    PROVE  TuiInv' /\ (Tu!Next => Tu!KeysKeepTheirWord)
  <1>1. CASE Tu!Next
    BY <1>1, KeysAreSound, TickIsSound, CommandIsSound, DrawIsSound, TasksAreSound DEF Tu!Next
  <1>2. CASE UNCHANGED Tu!tuiVars
    <2>1. /\ session' = session /\ history' = history /\ rates' = rates /\ mutes' = mutes /\ app' = app /\ turn' = turn
      BY <1>2 DEF Tu!tuiVars
    <2>2. DataTyped'
      BY <2>1 DEF TuiInv, DataTyped
    <2>3. TuiInv' /\ Tu!KeysKeepTheirWord
      BY <2>1, <2>2, TaskKeeps
    <2>4. QED
      BY <2>3
  <1>3. QED
    BY <1>1, <1>2

\* What the invariant says of the screen.
LEMMA InvShowsTheTruth ==
    ASSUME TuiInv
    PROVE  Tu!ScreenIsTrue /\ Tu!TypeOK
  <1>1. AppSound(app, session, Tu!Seen) /\ DataTyped
    BY DEF TuiInv
  <1>2. Tu!OneDialog
    <2>1. PICK d \in {"browser", "connect", "override", "prompt", "sources", "menu", "help"} : NoneBut(app, d)
      BY <1>1 DEF AppSound, OneOpen
    <2>2. Tu!Dialogs \subseteq {d}
      BY <2>1 DEF Tu!Dialogs, NoneBut
    <2>3. Tu!Dialogs = {} \/ Tu!Dialogs = {d}
      BY <2>2
    <2>4. Cardinality({d}) = 1 /\ Cardinality({}) = 0
      BY FS_Singleton, FS_EmptySet
    <2>5. Tu!Cardinality(Tu!Dialogs) <= 1
      BY <2>3, <2>4, SameCounting
    <2>6. app.command # None => Tu!Dialogs = {}
      BY <1>1 DEF AppSound, Closed, NoneBut, Tu!Dialogs
    <2>7. QED
      BY <2>5, <2>6 DEF Tu!OneDialog
  <1>3. Tu!OnlyLive
    BY <1>1 DEF AppSound, OnlyLive, Tu!OnlyLive, Tu!Live
  <1>4. Tu!EntryIsThere
    <2> DEFINE key == [pgn |-> app.screen.pgn, src |-> app.screen.src]
               n == Len(Tu!HistoryOf(key))
    <2>1. SUFFICES ASSUME app.screen.at = "entry"
                   PROVE  /\ n > 0 /\ app.screen.back.at \in {"device", "time"}
                          /\ turn = "wait" => app.screen.pos \in 1 .. n
      BY DEF Tu!EntryIsThere
    <2>2. Entry(app.screen, Tu!Seen)
      BY <1>1, <2>1 DEF AppSound, Listing
    <2>3. n \in Nat /\ n > 0
      BY <1>1, <2>2, HistoryHolds DEF Entry
    <2>4. turn = "wait" => app.screen.pos <= n
      BY <2>1 DEF TuiInv, PositionIsThere
    <2> HIDE DEF n
    <2>5. QED
      BY <2>2, <2>3, <2>4 DEF Entry
  <1>5. Tu!FiltersMean
    BY <1>1 DEF AppSound, Filters, Tu!FiltersMean
  <1>6. Tu!TypeOK
    <2>1. app.screen.at \in {"devices", "device", "entry", "time", "top", "nmea", "overrides"}
      BY <1>1 DEF AppSound, Listing, Entry
    <2>2. app.devices \in Nat /\ app.time \in Nat /\ turn \in {"wait", "command", "draw", "ended"}
      BY <1>1 DEF AppSound, TuiInv
    <2>3. QED
      BY <1>1, <2>1, <2>2 DEF DataTyped, Tu!TypeOK
  <1>7. QED
    BY <1>2, <1>3, <1>4, <1>5, <1>6 DEF Tu!ScreenIsTrue

LEMMA TuiHolds ==
    ASSUME Listable
    PROVE  Spec => [](part = "tui" => TuiInv)
  <1>1. Init => (part = "tui" => TuiInv)
    BY Begins, TuiBegins
  <1>2. (part = "tui" => TuiInv) /\ [Next]_vars => (part = "tui" => TuiInv)'
    BY Steps, TuiSteps
  <1>3. QED
    BY <1>1, <1>2, PTL DEF Spec

\* Whatever is typed, heard, reported, saved or swapped between two repaints: one
\* dialog is open at most and none under a command, what writes to the bus is
\* shown and sent with the live connection it is for, the record on the screen is
\* one of this session, and no filter hides everything (handle_key,
\* execute_command, draw, reset_views, filter_pgns).
THEOREM ScreenStaysTrue ==
    ASSUME Listable
    PROVE  Spec => []ScreenIsTrue
  <1>1. (part = "tui" => TuiInv) => ScreenIsTrue
    BY InvShowsTheTruth DEF ScreenIsTrue
  <1>2. QED
    BY <1>1, TuiHolds, PTL

-----------------------------------------------------------------------------
(* The snapshot: keys and identities.                                      *)

\* Records follow the schema: each has a place for every field of its key, and
\* lives for some ticks or for ever.
Keyable ==
    /\ \A r \in SnapRecords :
        /\ r.pgn \in DOMAIN Schema /\ Schema[r.pgn].repeats \in BOOLEAN
        /\ r.top \in Seq({r.top[n] : n \in DOMAIN r.top})
        /\ r.iters \in Seq({r.iters[n] : n \in DOMAIN r.iters})
        /\ Schema[r.pgn].fields = Len(r.top) + (IF Schema[r.pgn].repeats THEN 1 ELSE 0)
        /\ Ttl[Schema[r.pgn].class] \in 0 .. Forever
    /\ Forever \in Nat /\ MaxTicks \in Nat /\ MaxStores \in Nat

\* The key an identity is cached under: what is absent is left out.
KeyOf(id) == <<id[1], id[2], Sn!Secondary(id[3])>>
\* What the cache has under a key is of this identity.
Of(c, k) == Sn!Identity(c[k].record, c[k].iter)

\* An identity has at most the fields of its PGN's key.
Proper(id) ==
    /\ id = <<id[1], id[2], id[3]>> /\ id[1] \in DOMAIN Schema
    /\ \E V : id[3] \in Seq(V)
    /\ Schema[id[1]].fields \in Nat /\ Len(id[3]) <= Schema[id[1]].fields

LEMMA SameCounts == \A S : Sn!Cardinality(S) = Cardinality(S)
  BY DEF Sn!Cardinality, Cardinality, Sn!IsFiniteSet, IsFiniteSet

\* The values that are present are as many as the values only if all are, and
\* then they are the values.
LEMMA SecondaryTells ==
    ASSUME NEW values, Len(values) \in Nat
    PROVE  LET P == Sn!Present(values)
               L == Len(values) IN
           /\ IsFiniteSet(P) /\ Cardinality(P) \in Nat /\ Cardinality(P) <= L
           /\ DOMAIN Sn!Secondary(values) = 1 .. Cardinality(P)
           /\ Len(Sn!Secondary(values)) = Cardinality(P)
           /\ P = 1 .. L => Cardinality(P) = L /\ \A i \in 1 .. L : Sn!Secondary(values)[i] = values[i]
           /\ Cardinality(P) = L => P = 1 .. L
  <1> DEFINE P == Sn!Present(values)
             L == Len(values)
  <1>1. P \subseteq 1 .. L
    BY DEF Sn!Present
  <1>2. IsFiniteSet(1 .. L) /\ Cardinality(1 .. L) = L
    BY FS_Interval, SMTT(30)
  <1>3. /\ IsFiniteSet(P) /\ Cardinality(P) <= L /\ (Cardinality(P) = L => P = 1 .. L)
    BY <1>1, <1>2, FS_Subset
  <1>4. Cardinality(P) \in Nat
    BY <1>3, FS_CardinalityType
  <1> DEFINE at(n, i) == Sn!Cardinality({m \in P : m < n}) = i - 1
  <1>5. Sn!Secondary(values) = [i \in 1 .. Cardinality(P) |-> values[CHOOSE n \in P : at(n, i)]]
    <2>1. Sn!Secondary(values) = [i \in 1 .. Sn!Cardinality(P) |-> values[CHOOSE n \in P : at(n, i)]]
      BY DEF Sn!Secondary
    <2>2. Sn!Cardinality(P) = Cardinality(P)
      BY SameCounts
    <2> HIDE DEF P, at
    <2>3. QED
      BY <2>1, <2>2
  <1>6. DOMAIN Sn!Secondary(values) = 1 .. Cardinality(P) /\ Len(Sn!Secondary(values)) = Cardinality(P)
    <2> HIDE DEF P, at
    <2>1. DOMAIN Sn!Secondary(values) = 1 .. Cardinality(P)
      BY <1>5
    <2> DEFINE V == {Sn!Secondary(values)[i] : i \in 1 .. Cardinality(P)}
    <2>2. Sn!Secondary(values) \in Seq(V)
      <3>1. \A i \in 1 .. Cardinality(P) : Sn!Secondary(values)[i] \in V
        OBVIOUS
      <3> HIDE DEF V
      <3>2. Sn!Secondary(values) \in [1 .. Cardinality(P) -> V]
        BY <1>5, <3>1
      <3>3. QED
        BY <1>4, <3>2
    <2>3. QED
      BY <1>4, <2>1, <2>2
  <1>7. ASSUME P = 1 .. L, NEW i \in 1 .. L
        PROVE  Sn!Secondary(values)[i] = values[i]
    <2>1. \A n \in 1 .. L : Cardinality({m \in 1 .. L : m < n}) = n - 1
      <3>1. TAKE n \in 1 .. L
      <3>2. {m \in 1 .. L : m < n} = 1 .. n - 1
        OBVIOUS
      <3>3. Cardinality(1 .. n - 1) = n - 1
        BY FS_Interval
      <3>4. QED
        BY <3>2, <3>3
    <2>2. \A n \in P : at(n, i) <=> n = i
      BY <1>7, <2>1, SameCounts
    <2>3. (CHOOSE n \in P : at(n, i)) = i
      <3> HIDE DEF P, at
      <3>1. i \in P
        BY <1>7
      <3>2. QED
        BY <2>2, <3>1
    <2> HIDE DEF P, at
    <2>4. QED
      BY <1>2, <1>5, <1>7, <2>3
  <1>8. QED
    BY <1>2, <1>3, <1>4, <1>6, <1>7

\* No identity shares its key with one of which every field is there.
LEMMA KeysTell ==
    ASSUME NEW id, NEW other, Proper(id), Proper(other), Sn!Complete(id), KeyOf(other) = KeyOf(id)
    PROVE  other = id
  <1> DEFINE v == id[3]
             w == other[3]
  <1>1. other[1] = id[1] /\ other[2] = id[2] /\ Sn!Secondary(w) = Sn!Secondary(v)
    BY DEF KeyOf
  <1>2. Sn!Present(v) = 1 .. Len(v) /\ Len(v) = Schema[id[1]].fields
    BY DEF Sn!Complete, Sn!Present
  <1>3. Len(v) \in Nat /\ Len(w) \in Nat /\ Len(w) <= Len(v)
    BY <1>1, <1>2 DEF Proper
  <1> HIDE DEF v, w
  <1>4. Len(Sn!Secondary(v)) = Len(v) /\ \A i \in 1 .. Len(v) : Sn!Secondary(v)[i] = v[i]
    BY <1>2, <1>3, SecondaryTells
  <1>5. Cardinality(Sn!Present(w)) = Len(v) /\ Cardinality(Sn!Present(w)) <= Len(w)
    BY <1>1, <1>3, <1>4, SecondaryTells
  <1>6. Len(w) = Len(v) /\ Sn!Present(w) = 1 .. Len(w)
    BY <1>3, <1>5, SecondaryTells
  <1>7. \A i \in 1 .. Len(v) : w[i] = v[i]
    BY <1>1, <1>3, <1>4, <1>6, SecondaryTells
  <1>8. w = v
    <2>1. PICK V : v \in Seq(V)
      BY DEF Proper, v
    <2>2. PICK W : w \in Seq(W)
      BY DEF Proper, w
    <2>3. v = [i \in 1 .. Len(v) |-> v[i]] /\ w = [i \in 1 .. Len(w) |-> w[i]]
      BY <2>1, <2>2
    <2>4. QED
      BY <1>6, <1>7, <2>3
  <1>9. QED
    BY <1>1, <1>8 DEF Proper, v, w

\* Every entry of a record is of a proper identity, under its key.
LEMMA EntriesAreOfRecord ==
    ASSUME Keyable, NEW r \in SnapRecords, NEW n \in DOMAIN Sn!Split(r)
    PROVE  LET e == Sn!Split(r)[n] IN
           /\ e.iter \in Nat /\ e.key = KeyOf(Sn!Identity(r, e.iter))
           /\ Proper(Sn!Identity(r, e.iter)) /\ Sn!Identity(r, e.iter)[1] = r.pgn
  <1> DEFINE e == Sn!Split(r)[n]
             id == Sn!Identity(r, e.iter)
  <1>1. /\ r.pgn \in DOMAIN Schema /\ Schema[r.pgn].repeats \in BOOLEAN
        /\ r.top \in Seq({r.top[i] : i \in DOMAIN r.top})
        /\ r.iters \in Seq({r.iters[i] : i \in DOMAIN r.iters})
        /\ Schema[r.pgn].fields = Len(r.top) + (IF Schema[r.pgn].repeats THEN 1 ELSE 0)
    BY DEF Keyable
  <1>2. Len(r.top) \in Nat /\ Len(r.iters) \in Nat
    BY <1>1
  <1>3. CASE Sn!Split(r) = Sn!WholeRecord(r)
    <2>1. n = 1 /\ e = Sn!Keyed(r, r.top, Sn!Whole)
      BY <1>3 DEF Sn!WholeRecord
    <2>2. e.iter = 0 /\ e.key = <<r.pgn, r.src, Sn!Secondary(r.top)>>
      BY <2>1 DEF Sn!Keyed, Sn!Whole
    <2>3. id = <<r.pgn, r.src, r.top>>
      BY <2>2 DEF Sn!Identity, Sn!Whole
    <2>4. Schema[r.pgn].fields \in Nat /\ Len(r.top) <= Schema[r.pgn].fields
      <3>1. CASE Schema[r.pgn].repeats
        BY <1>1, <1>2, <3>1
      <3>2. CASE ~Schema[r.pgn].repeats
        BY <1>1, <1>2, <3>2
      <3>3. QED
        BY <3>1, <3>2
    <2> HIDE DEF e
    <2>5. e.key = KeyOf(id)
      BY <2>2, <2>3 DEF KeyOf
    <2>6. Proper(id) /\ id[1] = r.pgn
      <3> HIDE DEF id
      <3>1. id = <<id[1], id[2], id[3]>> /\ id[1] = r.pgn /\ id[3] = r.top
        BY <2>3
      <3>2. \E V : r.top \in Seq(V)
        BY <1>1
      <3>3. QED
        BY <1>1, <2>4, <3>1, <3>2 DEF Proper
    <2>7. QED
      BY <2>2, <2>5, <2>6 DEF e
  <1>4. CASE Schema[r.pgn].repeats /\ Sn!Split(r) = Sn!PerIteration(r)
    <2>1. n \in 1 .. Len(r.iters) /\ e = Sn!Keyed(r, Append(r.top, r.iters[n]), n)
      BY <1>4 DEF Sn!PerIteration
    <2> DEFINE values == Append(r.top, r.iters[n])
    <2>2. e.iter = n /\ e.key = <<r.pgn, r.src, Sn!Secondary(values)>>
      BY <2>1 DEF Sn!Keyed
    <2>3. n \in Nat /\ n # 0
      BY <1>2, <2>1
    <2>4. id = <<r.pgn, r.src, values>>
      BY <2>2, <2>3 DEF Sn!Identity, Sn!Whole
    <2>5. Len(values) = Len(r.top) + 1 /\ \E V : values \in Seq(V)
      <3> DEFINE V == {r.top[i] : i \in DOMAIN r.top} \union {r.iters[n]}
      <3>1. r.top \in Seq(V) /\ r.iters[n] \in V
        <4>1. \A i \in DOMAIN r.top : r.top[i] \in V
          OBVIOUS
        <4> HIDE DEF V
        <4>2. r.top \in [1 .. Len(r.top) -> V]
          BY <1>1, <4>1
        <4>3. r.top \in Seq(V)
          BY <1>2, <4>2
        <4>4. QED
          BY <4>3 DEF V
      <3> HIDE DEF V
      <3>2. values \in Seq(V) /\ Len(values) = Len(r.top) + 1
        BY <3>1
      <3>3. QED
        BY <3>2
    <2>6. Schema[r.pgn].fields = Len(r.top) + 1
      BY <1>1, <1>4
    <2> HIDE DEF e, values
    <2>7. e.key = KeyOf(id)
      BY <2>2, <2>4 DEF KeyOf
    <2>8. Proper(id) /\ id[1] = r.pgn
      BY <1>1, <1>2, <2>4, <2>5, <2>6 DEF Proper
    <2>9. QED
      BY <2>2, <2>3, <2>7, <2>8 DEF e
  <1>5. QED
    BY <1>1, <1>3, <1>4 DEF Sn!Split, Sn!SplitLine, Sn!SplitRecord

-----------------------------------------------------------------------------
(* The snapshot: the invariant.                                            *)

CacheEntry(t) == [record : SnapRecords, iter : Nat, left : 0 .. Forever, count : Nat \ {0},
                    age : 0 .. t, interval : 0 .. t]
CacheTyped ==
    /\ stores \in 0 .. MaxStores /\ ticks \in 0 .. MaxTicks
    /\ \A k \in DOMAIN cache : cache[k] \in CacheEntry(ticks)
    /\ \A id \in DOMAIN heard : heard[id] \in [record : SnapRecords, left : 0 .. Forever]

\* Everything is cached under its own key.
UnderItsKey == \A k \in DOMAIN cache : Proper(Of(cache, k)) /\ k = KeyOf(Of(cache, k))

\* What is cached with all of its fields was heard last, and lives as long.
CachedWasHeard ==
    \A k \in DOMAIN cache : Sn!Complete(Of(cache, k)) =>
        /\ Of(cache, k) \in DOMAIN heard
        /\ heard[Of(cache, k)].record = cache[k].record /\ heard[Of(cache, k)].left = cache[k].left

\* What was heard with all of its fields is cached as long as it lives.
HeardIsCached ==
    \A id \in DOMAIN heard :
        /\ Proper(id)
        /\ Sn!Complete(id) /\ heard[id].left > 0 => KeyOf(id) \in DOMAIN cache /\ Of(cache, KeyOf(id)) = id

\* A dump shows the cache, in which nothing is expired.
DumpIsTheCache ==
    dump # Absent =>
        /\ \A k \in DOMAIN cache : cache[k].left > 0
        /\ dump.entries = {<<k, cache[k].record, cache[k].iter>> :
                               k \in {x \in DOMAIN cache : Sn!Kept(dump.port, x[1])}}

SnapInv == CacheTyped /\ UnderItsKey /\ CachedWasHeard /\ HeardIsCached /\ DumpIsTheCache

LEMMA SnapBegins ==
    ASSUME Keyable, Sn!Init
    PROVE  SnapInv
  <1>1. DOMAIN cache = {} /\ DOMAIN heard = {} /\ dump = Absent /\ stores = 0 /\ ticks = 0
    <2>1. DOMAIN << >> = {}
      OBVIOUS
    <2>2. QED
      BY <2>1 DEF Sn!Init
  <1>2. QED
    BY <1>1 DEF SnapInv, CacheTyped, UnderItsKey, CachedWasHeard, HeardIsCached, DumpIsTheCache, Keyable

-----------------------------------------------------------------------------
(* The snapshot: the steps.                                                *)

LEMMA EntriesAreNumbered ==
    ASSUME Keyable, NEW r \in SnapRecords
    PROVE  \E N \in Nat : DOMAIN Sn!Split(r) = 1 .. N
  <1>1. DOMAIN Sn!WholeRecord(r) = 1 .. 1
    BY DEF Sn!WholeRecord
  <1>2. Len(r.iters) \in Nat /\ DOMAIN Sn!PerIteration(r) = 1 .. Len(r.iters)
    BY DEF Sn!PerIteration, Keyable
  <1>3. QED
    BY <1>1, <1>2 DEF Sn!Split, Sn!SplitLine, Sn!SplitRecord

LEMMA LatestIsOne ==
    ASSUME NEW N \in Nat, NEW S, S \subseteq 1 .. N, S # {}
    PROVE  Sn!LastOf(S) \in S
  <1> DEFINE above == {m \in Nat : \A x \in S : x <= m}
  <1>1. N \in above
    OBVIOUS
  <1>2. PICK m \in above : \A y \in above : m <= y
    BY <1>1, LeastNumber
  <1>3. m \in S
    <2>1. SUFFICES ASSUME m \notin S
                   PROVE  FALSE
      OBVIOUS
    <2>2. PICK x \in S : TRUE
      OBVIOUS
    <2>3. m \in Nat /\ \A y \in S : y \in Nat /\ y < m
      BY <1>2, <2>1
    <2>4. m - 1 \in above
      BY <2>2, <2>3
    <2>5. QED
      BY <1>2, <2>3, <2>4
  <1>4. \E n \in S : \A x \in S : x <= n
    BY <1>2, <1>3
  <1>5. QED
    BY <1>4 DEF Sn!LastOf

\* The identities a record speaks of, and its entries of key k.
Told(r) == {Sn!Identity(r, Sn!Split(r)[n].iter) : n \in DOMAIN Sn!Split(r)}
Own(r, k) == {n \in DOMAIN Sn!Split(r) : Sn!Split(r)[n].key = k}

\* What storing a record changes, and what it leaves.
LEMMA StoreTells ==
    ASSUME Keyable, SnapInv, NEW r \in SnapRecords, Sn!Store(r)
    PROVE  /\ DOMAIN cache \subseteq DOMAIN cache'
           /\ \A k \in DOMAIN cache' : Own(r, k) = {} => k \in DOMAIN cache /\ cache'[k] = cache[k]
           /\ \A k : Own(r, k) # {} =>
               /\ k \in DOMAIN cache' /\ Of(cache', k) \in Told(r) /\ KeyOf(Of(cache', k)) = k
               /\ cache'[k] \in CacheEntry(ticks)
               /\ cache'[k].record = r /\ cache'[k].left = Sn!TtlForPgn(r.pgn)
               /\ k \in DOMAIN cache => cache'[k].count >= cache[k].count
           /\ \A id \in Told(r) : /\ Proper(id) /\ id \in DOMAIN heard' /\ Own(r, KeyOf(id)) # {}
                               /\ heard'[id] = [record |-> r, left |-> Sn!TtlForPgn(r.pgn)]
           /\ \A id \in DOMAIN heard' : id \notin Told(r) => id \in DOMAIN heard /\ heard'[id] = heard[id]
           /\ DOMAIN heard \subseteq DOMAIN heard'
           /\ Sn!TtlForPgn(r.pgn) \in 0 .. Forever
  <1> DEFINE E == Sn!Split(r)
             listed == {Sn!Identity(r, E[n].iter) : n \in DOMAIN E}
             among(k) == {n \in DOMAIN E : E[n].key = k}
             ttl == Sn!TtlForPgn(r.pgn)
             before(k) == Sn!Carried(cache, k)
             new(k) == [record |-> r, iter |-> E[Sn!LastOf(among(k))].iter, left |-> ttl, age |-> 0,
                        count |-> before(k).count + Sn!Cardinality(among(k)),
                        interval |-> IF Sn!Cardinality(among(k)) = 1 THEN before(k).interval ELSE 0]
             keys == DOMAIN cache \union {E[n].key : n \in DOMAIN E}
  <1>1. cache' = [k \in keys |-> IF among(k) = {} THEN cache[k] ELSE new(k)]
    BY DEF Sn!Store, Sn!StoreEntries
  <1>2. heard' = [id \in DOMAIN heard \union listed |->
                    IF id \in listed THEN [record |-> r, left |-> ttl] ELSE heard[id]]
    BY DEF Sn!Store
  <1>3. PICK N \in Nat : DOMAIN E = 1 .. N
    BY EntriesAreNumbered
  <1>4. \A n \in DOMAIN E : LET id == Sn!Identity(r, E[n].iter) IN
           E[n].iter \in Nat /\ E[n].key = KeyOf(id) /\ Proper(id)
    BY EntriesAreOfRecord
  <1>5. ttl \in 0 .. Forever /\ ticks \in Nat
    <2>1. ttl \in 0 .. Forever
      BY DEF Keyable, Sn!TtlForPgn
    <2>2. MaxTicks \in Nat /\ ticks \in 0 .. MaxTicks
      BY DEF Keyable, SnapInv, CacheTyped
    <2>3. QED
      BY <2>1, <2>2
  <1>6. \A k : /\ before(k).count \in Nat /\ before(k).interval \in 0 .. ticks
               /\ k \in DOMAIN cache => before(k).count = cache[k].count
    <2>1. TAKE k
    <2>2. CASE k \in DOMAIN cache
      BY <2>2 DEF SnapInv, CacheTyped, CacheEntry, Sn!Carried
    <2>3. CASE k \notin DOMAIN cache
      BY <1>5, <2>3 DEF Sn!Carried
    <2>4. QED
      BY <2>2, <2>3
  <1>7. ASSUME NEW k, among(k) # {}
        PROVE  Sn!LastOf(among(k)) \in among(k) /\ Sn!Cardinality(among(k)) \in Nat \ {0}
    <2>1. among(k) \subseteq 1 .. N
      BY <1>3
    <2> HIDE DEF among
    <2>2. Sn!LastOf(among(k)) \in among(k)
      BY <1>7, <2>1, LatestIsOne
    <2>3. IsFiniteSet(1 .. N)
      BY FS_Interval
    <2>4. IsFiniteSet(among(k))
      BY <2>1, <2>3, FS_Subset
    <2>5. Cardinality(among(k)) \in Nat /\ Cardinality(among(k)) # 0
      BY <1>7, <2>4, FS_CardinalityType, FS_EmptySet
    <2>6. QED
      BY <2>2, <2>5, SameCounts
  <1> HIDE DEF E, ttl, before
  <1>8. ASSUME NEW k, among(k) # {}
        PROVE  /\ k \in DOMAIN cache' /\ Of(cache', k) \in listed /\ KeyOf(Of(cache', k)) = k
               /\ cache'[k] \in CacheEntry(ticks) /\ cache'[k].record = r /\ cache'[k].left = ttl
               /\ k \in DOMAIN cache => cache'[k].count >= cache[k].count
    <2> DEFINE n == Sn!LastOf(among(k))
               c == Sn!Cardinality(among(k))
    <2>1. n \in among(k) /\ c \in Nat \ {0}
      BY <1>7, <1>8
    <2>2. n \in DOMAIN E /\ E[n].key = k
      BY <2>1
    <2>3. k \in keys
      BY <2>2
    <2>4. cache'[k] = [record |-> r, iter |-> E[n].iter, left |-> ttl, age |-> 0, count |-> before(k).count + c,
                       interval |-> IF c = 1 THEN before(k).interval ELSE 0]
      BY <1>1, <1>8, <2>3
    <2> HIDE DEF n, c, among, keys
    <2>5. Of(cache', k) = Sn!Identity(r, E[n].iter)
      BY <2>4 DEF Of
    <2>6. before(k).count + c \in Nat \ {0} /\ before(k).count + c >= before(k).count
      BY <1>6, <2>1
    <2>7. (IF c = 1 THEN before(k).interval ELSE 0) \in 0 .. ticks /\ 0 \in 0 .. ticks
      BY <1>5, <1>6
    <2>8. cache'[k] \in CacheEntry(ticks)
      BY <1>4, <1>5, <2>2, <2>4, <2>6, <2>7 DEF CacheEntry
    <2>9. k \in DOMAIN cache'
      BY <1>1, <2>3
    <2>10. Of(cache', k) \in listed /\ KeyOf(Of(cache', k)) = k
      BY <1>4, <2>2, <2>5
    <2>11. QED
      BY <1>6, <2>4, <2>6, <2>8, <2>9, <2>10
  <1>9. ASSUME NEW k \in DOMAIN cache', among(k) = {}
        PROVE  k \in DOMAIN cache /\ cache'[k] = cache[k]
    <2>1. k \in keys
      BY <1>1
    <2>2. k \in DOMAIN cache
      BY <1>9, <2>1
    <2>3. cache'[k] = cache[k]
      BY <1>1, <1>9, <2>1
    <2>4. QED
      BY <2>2, <2>3
  <1>10. \A id \in listed : /\ Proper(id) /\ id \in DOMAIN heard' /\ among(KeyOf(id)) # {}
                          /\ heard'[id] = [record |-> r, left |-> ttl]
    <2>1. TAKE id \in listed
    <2>2. PICK n \in DOMAIN E : id = Sn!Identity(r, E[n].iter)
      OBVIOUS
    <2>3. n \in among(KeyOf(id))
      BY <1>4, <2>2
    <2> HIDE DEF listed
    <2>4. QED
      BY <1>2, <1>4, <2>2, <2>3
  <1>11. \A id \in DOMAIN heard' : id \notin listed => id \in DOMAIN heard /\ heard'[id] = heard[id]
    <2> HIDE DEF listed
    <2>1. QED
      BY <1>2
  <1>12. DOMAIN heard \subseteq DOMAIN heard' /\ DOMAIN cache \subseteq DOMAIN cache'
    <2> HIDE DEF listed, among, keys
    <2>1. DOMAIN cache \subseteq keys
      BY DEF keys
    <2>2. QED
      BY <1>1, <1>2, <2>1
  <1>13. QED
    BY <1>5, <1>8, <1>9, <1>10, <1>11, <1>12 DEF E, ttl, Told, Own

LEMMA StoreIsSound ==
    ASSUME Keyable, SnapInv, NEW r \in SnapRecords, Sn!Store(r)
    PROVE  SnapInv' /\ Sn!LookingIsFree
  <1> DEFINE ttl == Sn!TtlForPgn(r.pgn)
  <1>1. \A k \in DOMAIN cache' : Own(r, k) = {} => k \in DOMAIN cache /\ cache'[k] = cache[k]
    BY StoreTells
  <1>2. \A k : Own(r, k) # {} =>
           /\ k \in DOMAIN cache' /\ Of(cache', k) \in Told(r) /\ KeyOf(Of(cache', k)) = k
           /\ cache'[k] \in CacheEntry(ticks) /\ cache'[k].record = r /\ cache'[k].left = ttl
           /\ k \in DOMAIN cache => cache'[k].count >= cache[k].count
    BY StoreTells
  <1>3. \A id \in Told(r) : /\ Proper(id) /\ id \in DOMAIN heard' /\ Own(r, KeyOf(id)) # {}
                         /\ heard'[id] = [record |-> r, left |-> ttl]
    BY StoreTells
  <1>4. \A id \in DOMAIN heard' : id \notin Told(r) => id \in DOMAIN heard /\ heard'[id] = heard[id]
    BY StoreTells
  <1>5. DOMAIN cache \subseteq DOMAIN cache' /\ DOMAIN heard \subseteq DOMAIN heard' /\ ttl \in 0 .. Forever
    BY StoreTells
  <1> HIDE DEF ttl
  <1>6. stores' = stores + 1 /\ stores < MaxStores /\ ticks' = ticks /\ dump' = Absent
    BY DEF Sn!Store
  <1>7. CacheTyped'
    <2>1. stores' \in 0 .. MaxStores /\ ticks' \in 0 .. MaxTicks
      BY <1>6 DEF SnapInv, CacheTyped, Keyable
    <2>2. \A k \in DOMAIN cache' : cache'[k] \in CacheEntry(ticks)
      BY <1>1, <1>2 DEF SnapInv, CacheTyped
    <2>3. \A id \in DOMAIN heard' : heard'[id] \in [record : SnapRecords, left : 0 .. Forever]
      BY <1>3, <1>4, <1>5 DEF SnapInv, CacheTyped
    <2>4. QED
      BY <1>6, <2>1, <2>2, <2>3 DEF CacheTyped
  <1>8. \A k \in DOMAIN cache' : Own(r, k) = {} => Of(cache', k) = Of(cache, k)
    BY <1>1 DEF Of
  <1>9. \A k \in DOMAIN cache' : Proper(Of(cache', k)) /\ k = KeyOf(Of(cache', k))
    BY <1>1, <1>2, <1>3, <1>8 DEF SnapInv, UnderItsKey
  <1>10. ASSUME NEW k \in DOMAIN cache', Sn!Complete(Of(cache', k))
         PROVE  /\ Of(cache', k) \in DOMAIN heard'
                /\ heard'[Of(cache', k)].record = cache'[k].record /\ heard'[Of(cache', k)].left = cache'[k].left
    <2>1. CASE Own(r, k) # {}
      BY <1>2, <1>3, <2>1
    <2>2. CASE Own(r, k) = {}
      <3>1. k \in DOMAIN cache /\ cache'[k] = cache[k] /\ Of(cache', k) = Of(cache, k) /\ k = KeyOf(Of(cache, k))
        BY <1>1, <1>8, <1>9, <2>2
      <3>2. Of(cache, k) \notin Told(r)
        BY <1>3, <2>2, <3>1
      <3>3. /\ Of(cache, k) \in DOMAIN heard
            /\ heard[Of(cache, k)].record = cache[k].record /\ heard[Of(cache, k)].left = cache[k].left
        BY <1>10, <3>1 DEF SnapInv, CachedWasHeard
      <3>4. Of(cache, k) \in DOMAIN heard'
        BY <1>5, <3>3
      <3>5. QED
        BY <1>4, <3>1, <3>2, <3>3, <3>4
    <2>3. QED
      BY <2>1, <2>2
  <1>11. ASSUME NEW id \in DOMAIN heard'
         PROVE  Proper(id)
    BY <1>3, <1>4 DEF SnapInv, HeardIsCached
  <1>12. ASSUME NEW id \in DOMAIN heard', Sn!Complete(id), heard'[id].left > 0
         PROVE  KeyOf(id) \in DOMAIN cache' /\ Of(cache', KeyOf(id)) = id
    <2> DEFINE k == KeyOf(id)
    <2>1. CASE Own(r, k) # {}
      <3>1. k \in DOMAIN cache' /\ Proper(Of(cache', k)) /\ KeyOf(Of(cache', k)) = KeyOf(id)
        BY <1>2, <1>9, <2>1
      <3>2. Of(cache', k) = id
        BY <1>11, <1>12, <3>1, KeysTell
      <3>3. QED
        BY <3>1, <3>2
    <2>2. CASE Own(r, k) = {}
      <3>1. id \notin Told(r)
        BY <1>3, <2>2
      <3>2. id \in DOMAIN heard /\ heard[id].left > 0
        BY <1>4, <1>12, <3>1
      <3>3. k \in DOMAIN cache /\ Of(cache, k) = id
        BY <1>12, <3>2 DEF SnapInv, HeardIsCached
      <3>4. QED
        BY <1>5, <1>8, <2>2, <3>3
    <2>3. QED
      BY <2>1, <2>2
  <1>13. SnapInv'
    <2>1. UnderItsKey'
      BY <1>9 DEF UnderItsKey
    <2>2. CachedWasHeard'
      BY <1>10 DEF CachedWasHeard
    <2>3. HeardIsCached'
      BY <1>11, <1>12 DEF HeardIsCached
    <2>4. DumpIsTheCache'
      BY <1>6 DEF DumpIsTheCache
    <2>5. QED
      BY <1>7, <2>1, <2>2, <2>3, <2>4 DEF SnapInv
  <1>14. ASSUME NEW k \in DOMAIN cache
         PROVE  k \in DOMAIN cache' /\ cache'[k].count >= cache[k].count
    <2>1. k \in DOMAIN cache' /\ cache[k].count \in Nat
      BY <1>5 DEF SnapInv, CacheTyped, CacheEntry
    <2>2. CASE Own(r, k) = {}
      BY <1>1, <2>1, <2>2
    <2>3. CASE Own(r, k) # {}
      BY <1>2, <2>1, <2>3
    <2>4. QED
      BY <2>2, <2>3
  <1>15. QED
    BY <1>13, <1>14 DEF Sn!LookingIsFree

LEMMA SnapTickIsSound ==
    ASSUME Keyable, SnapInv, Sn!Tick
    PROVE  SnapInv' /\ Sn!LookingIsFree
  <1> DEFINE less(n) == IF n \in {0, Forever} THEN n ELSE n - 1
  <1>1. /\ ticks < MaxTicks /\ ticks' = ticks + 1 /\ stores' = stores /\ dump' = Absent
        /\ cache' = [k \in DOMAIN cache |-> [cache[k] EXCEPT !.left = less(@), !.age = @ + 1]]
        /\ heard' = [id \in DOMAIN heard |-> [heard[id] EXCEPT !.left = less(@)]]
    BY DEF Sn!Tick
  <1>2. \A n \in 0 .. Forever : less(n) \in 0 .. Forever /\ (less(n) > 0 => n > 0)
    BY DEF Keyable
  <1>3. ticks \in Nat /\ ticks' \in 0 .. MaxTicks /\ stores \in 0 .. MaxStores
    <2>1. MaxTicks \in Nat /\ ticks \in 0 .. MaxTicks /\ stores \in 0 .. MaxStores
      BY DEF SnapInv, CacheTyped, Keyable
    <2>2. ticks < MaxTicks /\ ticks' = ticks + 1
      BY <1>1
    <2>3. QED
      BY <2>1, <2>2
  <1>4. \A k \in DOMAIN cache :
            cache[k] \in [record : SnapRecords, iter : Nat, left : 0 .. Forever, count : Nat \ {0},
                          age : 0 .. ticks, interval : 0 .. ticks]
    BY DEF SnapInv, CacheTyped, CacheEntry
  <1>5. \A id \in DOMAIN heard : heard[id] \in [record : SnapRecords, left : 0 .. Forever]
    BY DEF SnapInv, CacheTyped
  <1> HIDE DEF less
  <1>6. /\ DOMAIN cache' = DOMAIN cache
        /\ \A k \in DOMAIN cache :
            /\ cache'[k].record = cache[k].record /\ cache'[k].iter = cache[k].iter
            /\ cache'[k].left = less(cache[k].left) /\ cache'[k].count = cache[k].count
            /\ cache'[k] \in CacheEntry(ticks')
    <2>1. DOMAIN cache' = DOMAIN cache
      BY <1>1
    <2>2. ASSUME NEW k \in DOMAIN cache
          PROVE  /\ cache'[k].record = cache[k].record /\ cache'[k].iter = cache[k].iter
                 /\ cache'[k].left = less(cache[k].left) /\ cache'[k].count = cache[k].count
                 /\ cache'[k] \in CacheEntry(ticks')
      <3>1. cache'[k] = [cache[k] EXCEPT !.left = less(@), !.age = @ + 1]
        BY <1>1
      <3>2. cache[k] \in [record : SnapRecords, iter : Nat, left : 0 .. Forever, count : Nat \ {0},
                          age : 0 .. ticks, interval : 0 .. ticks]
        BY <1>4
      <3>3. cache[k].age \in 0 .. ticks /\ cache[k].interval \in 0 .. ticks /\ cache[k].left \in 0 .. Forever
        BY <3>2
      <3> DEFINE age == cache[k].age
                 interval == cache[k].interval
      <3> HIDE DEF age, interval
      <3>4. age \in 0 .. ticks /\ interval \in 0 .. ticks => age + 1 \in 0 .. ticks + 1 /\ interval \in 0 .. ticks + 1
        BY <1>3
      <3>5. cache[k].age + 1 \in 0 .. ticks' /\ cache[k].interval \in 0 .. ticks'
        BY <1>1, <3>3, <3>4 DEF age, interval
      <3>6. less(cache[k].left) \in 0 .. Forever
        BY <1>2, <3>3
      <3>7. QED
        BY <3>1, <3>2, <3>5, <3>6 DEF CacheEntry
    <2>3. QED
      BY <2>1, <2>2
  <1>7. /\ DOMAIN heard' = DOMAIN heard
        /\ \A id \in DOMAIN heard :
            /\ heard'[id].record = heard[id].record /\ heard'[id].left = less(heard[id].left)
            /\ heard'[id] \in [record : SnapRecords, left : 0 .. Forever]
    BY <1>1, <1>2, <1>5
  <1>8. \A k \in DOMAIN cache : Of(cache', k) = Of(cache, k)
    BY <1>6 DEF Of
  <1>9. CacheTyped'
    BY <1>1, <1>3, <1>6, <1>7 DEF CacheTyped
  <1>10. UnderItsKey'
    BY <1>6, <1>8 DEF SnapInv, UnderItsKey
  <1>11. CachedWasHeard'
    BY <1>6, <1>7, <1>8 DEF SnapInv, CachedWasHeard
  <1>12. HeardIsCached'
    <2>1. \A id \in DOMAIN heard : heard'[id].left > 0 => heard[id].left > 0
      BY <1>2, <1>5, <1>7
    <2>2. QED
      BY <1>6, <1>7, <1>8, <2>1 DEF SnapInv, HeardIsCached
  <1>13. DumpIsTheCache'
    BY <1>1 DEF DumpIsTheCache
  <1>14. \A k \in DOMAIN cache : k \in DOMAIN cache' /\ cache'[k].count >= cache[k].count
    BY <1>4, <1>6
  <1>15. QED
    BY <1>9, <1>10, <1>11, <1>12, <1>13, <1>14 DEF SnapInv, Sn!LookingIsFree

LEMMA LookIsSound ==
    ASSUME SnapInv, NEW p \in {"json", "ais"}, Sn!Snapshot(p)
    PROVE  SnapInv' /\ Sn!LookingIsFree
  <1> DEFINE live == {k \in DOMAIN cache : cache[k].left > 0}
  <1>1. /\ cache' = [k \in live |-> cache[k]]
        /\ dump' = [port |-> p, entries |-> {<<k, cache[k].record, cache[k].iter>> : k \in {x \in live : Sn!Kept(p, x[1])}}]
        /\ heard' = heard /\ stores' = stores /\ ticks' = ticks
    BY DEF Sn!Snapshot, Sn!Live
  <1>2. \A k \in live : k \in DOMAIN cache /\ cache[k].left > 0
    OBVIOUS
  <1>3. \A k \in DOMAIN cache : cache[k].left > 0 => k \in live
    OBVIOUS
  <1> HIDE DEF live
  <1>4. DOMAIN cache' = live /\ \A k \in live : cache'[k] = cache[k]
    BY <1>1
  <1>5. \A k \in live : Of(cache', k) = Of(cache, k)
    BY <1>4 DEF Of
  <1>6. CacheTyped'
    BY <1>1, <1>2, <1>4 DEF SnapInv, CacheTyped
  <1>7. UnderItsKey'
    BY <1>2, <1>4, <1>5 DEF SnapInv, UnderItsKey
  <1>8. CachedWasHeard'
    BY <1>1, <1>2, <1>4, <1>5 DEF SnapInv, CachedWasHeard
  <1>9. HeardIsCached'
    <2>1. ASSUME NEW id \in DOMAIN heard, Sn!Complete(id), heard[id].left > 0
          PROVE  KeyOf(id) \in live /\ Of(cache', KeyOf(id)) = id
      <3>1. KeyOf(id) \in DOMAIN cache /\ Of(cache, KeyOf(id)) = id
        BY <2>1 DEF SnapInv, HeardIsCached
      <3>2. cache[KeyOf(id)].left = heard[id].left
        BY <2>1, <3>1 DEF SnapInv, CachedWasHeard
      <3>3. KeyOf(id) \in live
        BY <1>3, <2>1, <3>1, <3>2
      <3>4. QED
        BY <1>5, <3>1, <3>3
    <2>2. \A id \in DOMAIN heard : Proper(id)
      BY DEF SnapInv, HeardIsCached
    <2>3. QED
      BY <1>1, <1>4, <2>1, <2>2 DEF HeardIsCached
  <1>10. DumpIsTheCache'
    <2>1. dump'.port = p
      BY <1>1
    <2>2. dump'.entries = {<<k, cache'[k].record, cache'[k].iter>> : k \in {x \in live : Sn!Kept(p, x[1])}}
      BY <1>1, <1>4
    <2>3. \A k \in DOMAIN cache' : cache'[k].left > 0
      BY <1>2, <1>4
    <2>4. QED
      BY <1>4, <2>1, <2>2, <2>3 DEF DumpIsTheCache
  <1>11. Sn!LookingIsFree
    <2>1. ASSUME NEW k \in DOMAIN cache, cache[k].left > 0
          PROVE  k \in DOMAIN cache' /\ cache'[k].count >= cache[k].count
      <3>1. k \in live /\ cache'[k] = cache[k]
        BY <1>3, <1>4, <2>1
      <3>2. cache[k].count \in Nat
        BY DEF SnapInv, CacheTyped, CacheEntry
      <3>3. QED
        BY <1>4, <3>1, <3>2
    <2>2. QED
      BY <2>1 DEF Sn!LookingIsFree
  <1>12. QED
    BY <1>6, <1>7, <1>8, <1>9, <1>10, <1>11 DEF SnapInv

LEMMA SnapSteps ==
    ASSUME Keyable, SnapInv, [Sn!Next]_Sn!snVars
    PROVE  SnapInv' /\ (Sn!Next => Sn!LookingIsFree)
  <1>1. CASE Sn!Next
    BY <1>1, StoreIsSound, SnapTickIsSound, LookIsSound DEF Sn!Next
  <1>2. CASE UNCHANGED Sn!snVars
    <2>1. cache' = cache /\ dump' = dump /\ heard' = heard /\ stores' = stores /\ ticks' = ticks
      BY <1>2 DEF Sn!snVars
    <2>2. \A k : Of(cache', k) = Of(cache, k)
      BY <2>1
    <2>3. CacheTyped' /\ UnderItsKey' /\ CachedWasHeard' /\ HeardIsCached' /\ DumpIsTheCache'
      BY <2>1, <2>2 DEF SnapInv, CacheTyped, UnderItsKey, CachedWasHeard, HeardIsCached, DumpIsTheCache
    <2>4. \A k \in DOMAIN cache : k \in DOMAIN cache' /\ cache'[k].count >= cache[k].count
      BY <2>1 DEF SnapInv, CacheTyped, CacheEntry
    <2>5. QED
      BY <2>3, <2>4 DEF SnapInv, Sn!LookingIsFree
  <1>3. QED
    BY <1>1, <1>2

\* What the invariant says of a dump.
LEMMA DumpsAreTrue ==
    ASSUME Keyable, SnapInv
    PROVE  Sn!DumpIsTheLatest /\ Sn!TypeOK
  <1>1. ASSUME dump # Absent
        PROVE  {<<Sn!Identity(e[2], e[3]), e[2]>> : e \in {d \in dump.entries : Sn!Complete(Sn!Identity(d[2], d[3]))}}
               = {<<id, heard[id].record>> : id \in {d \in DOMAIN heard :
                      Sn!Complete(d) /\ heard[d].left > 0 /\ Sn!Kept(dump.port, d[1])}}
    <2> DEFINE shown == {d \in dump.entries : Sn!Complete(Sn!Identity(d[2], d[3]))}
               alive == {d \in DOMAIN heard : Sn!Complete(d) /\ heard[d].left > 0 /\ Sn!Kept(dump.port, d[1])}
               kept == {x \in DOMAIN cache : Sn!Kept(dump.port, x[1])}
    <2>1. /\ \A k \in DOMAIN cache : cache[k].left > 0
          /\ dump.entries = {<<k, cache[k].record, cache[k].iter>> : k \in kept}
      BY <1>1 DEF SnapInv, DumpIsTheCache
    <2>2. ASSUME NEW e \in shown
          PROVE  \E id \in alive : <<Sn!Identity(e[2], e[3]), e[2]>> = <<id, heard[id].record>>
      <3>1. PICK k \in kept : e = <<k, cache[k].record, cache[k].iter>>
        BY <2>1
      <3> DEFINE id == Of(cache, k)
      <3>2. e[2] = cache[k].record /\ Sn!Identity(e[2], e[3]) = id
        BY <3>1 DEF Of
      <3>3. Sn!Complete(id) /\ k \in DOMAIN cache /\ Sn!Kept(dump.port, k[1])
        BY <3>2
      <3> HIDE DEF id
      <3>4. id \in DOMAIN heard /\ heard[id].record = cache[k].record /\ heard[id].left = cache[k].left
        BY <3>3 DEF SnapInv, CachedWasHeard, id
      <3>5. k[1] = id[1]
        BY <3>3 DEF SnapInv, UnderItsKey, KeyOf, id
      <3>6. heard[id].left > 0
        BY <2>1, <3>3, <3>4
      <3>7. id \in alive
        BY <3>3, <3>4, <3>5, <3>6
      <3> HIDE DEF alive
      <3>8. QED
        BY <3>2, <3>4, <3>7
    <2>3. ASSUME NEW id \in alive
          PROVE  \E e \in shown : <<Sn!Identity(e[2], e[3]), e[2]>> = <<id, heard[id].record>>
      <3> DEFINE k == KeyOf(id)
                 e == <<k, cache[k].record, cache[k].iter>>
      <3>1. id \in DOMAIN heard /\ Sn!Complete(id) /\ heard[id].left > 0 /\ Sn!Kept(dump.port, id[1])
        OBVIOUS
      <3>2. k \in DOMAIN cache /\ Of(cache, k) = id
        BY <3>1 DEF SnapInv, HeardIsCached
      <3>3. cache[k].record = heard[id].record
        BY <3>1, <3>2 DEF SnapInv, CachedWasHeard
      <3>4. k[1] = id[1]
        BY DEF KeyOf
      <3>5. k \in kept
        BY <3>1, <3>2, <3>4
      <3>6. e \in dump.entries
        BY <2>1, <3>5
      <3>7. e[2] = cache[k].record /\ Sn!Identity(e[2], e[3]) = id
        BY <3>2 DEF Of
      <3> HIDE DEF e, k
      <3>8. e \in shown
        BY <3>1, <3>6, <3>7
      <3> HIDE DEF shown
      <3>9. QED
        BY <3>3, <3>7, <3>8
    <2> HIDE DEF shown, alive
    <2>4. {<<Sn!Identity(e[2], e[3]), e[2]>> : e \in shown} = {<<id, heard[id].record>> : id \in alive}
      BY <2>2, <2>3
    <2>5. QED
      BY <2>4 DEF shown, alive
  <1>2. Sn!DumpIsTheLatest
    BY <1>1 DEF Sn!DumpIsTheLatest
  <1>3. ASSUME NEW k \in DOMAIN cache
        PROVE  /\ k[1] \in DOMAIN Schema /\ cache[k].record \in SnapRecords
               /\ cache[k].left \in 0 .. Forever /\ cache[k].count \in Nat \ {0}
               /\ cache[k].interval \in 0 .. MaxTicks /\ cache[k].age \in 0 .. MaxTicks
    <2>1. k[1] \in DOMAIN Schema
      BY DEF SnapInv, UnderItsKey, Proper, KeyOf
    <2>2. /\ cache[k].record \in SnapRecords /\ cache[k].left \in 0 .. Forever /\ cache[k].count \in Nat \ {0}
          /\ cache[k].interval \in 0 .. ticks /\ cache[k].age \in 0 .. ticks
      BY DEF SnapInv, CacheTyped, CacheEntry
    <2>3. ticks \in 0 .. MaxTicks /\ MaxTicks \in Nat
      BY DEF SnapInv, CacheTyped, Keyable
    <2>4. \A n \in 0 .. ticks : n \in 0 .. MaxTicks
      BY <2>3
    <2>5. QED
      BY <2>1, <2>2, <2>4
  <1>4. Sn!TypeOK
    BY <1>3 DEF Sn!TypeOK, SnapInv, CacheTyped
  <1>5. QED
    BY <1>2, <1>4

LEMMA SnapHolds ==
    ASSUME Keyable
    PROVE  Spec => [](part = "snapshot" => SnapInv)
  <1>1. Init => (part = "snapshot" => SnapInv)
    BY Begins, SnapBegins
  <1>2. (part = "snapshot" => SnapInv) /\ [Next]_vars => (part = "snapshot" => SnapInv)'
    BY Steps, SnapSteps
  <1>3. QED
    BY <1>1, <1>2, PTL DEF Spec

\* Whatever is stored, expires, is looked at and in whatever order: a dump shows, of
\* everything whose key fields were all there, the last record heard, as long as it
\* lives and on the port it belongs to (store_entry, composite_secondary,
\* per_iteration_secondary, filtered_snapshot).
THEOREM DumpsStayTrue ==
    ASSUME Keyable
    PROVE  Spec => []DumpIsTheLatest
  <1>1. (part = "snapshot" => SnapInv) => DumpIsTheLatest
    BY DumpsAreTrue DEF DumpIsTheLatest
  <1>2. QED
    BY <1>1, SnapHolds, PTL

-----------------------------------------------------------------------------
(* The ISO transport protocol.                                             *)

LEMMA TransfersHold ==
    ASSUME TpSizes
    PROVE  Spec => [](part = "isotp" => TransfersInv /\ OutSound)
  <1>1. Init => (part = "isotp" => TransfersInv /\ OutSound)
    BY Begins, TransfersInit
  <1>2. (part = "isotp" => TransfersInv /\ OutSound) /\ [Next]_vars => (part = "isotp" => TransfersInv /\ OutSound)'
    BY Steps, TransfersStep
  <1>3. QED
    BY <1>1, <1>2, PTL DEF Spec

\* Whatever is lost, repeated, aborted or evicted, a source has one session, and
\* a payload is the chunks of the transfer whose header it carries, none
\* missing (handle_tp_cm, handle_tp_dt, claim_tp_slot).
THEOREM TransfersStayWhole ==
    ASSUME TpSizes
    PROVE  Spec => []TransfersWhole
  <1>1. (part = "isotp" => TransfersInv /\ OutSound) => TransfersWhole
    BY TransfersSay DEF TransfersWhole
  <1>2. QED
    BY <1>1, TransfersHold, PTL

-----------------------------------------------------------------------------
(* The override store: the proofs of Overrides hold of the server's.        *)

OvP == INSTANCE OverridesProofs

LEMMA SameOverrides ==
    /\ Ov!Init <=> OvP!Init
    /\ Ov!Next <=> OvP!Next
    /\ UNCHANGED Ov!vars <=> UNCHANGED OvP!vars
    /\ Ov!StoredIsApplied <=> OvP!StoredIsApplied
    /\ Ov!RowsAddressOverrides <=> OvP!RowsAddressOverrides
  <1> USE DEF Ov!Threads, OvP!Threads, Ov!NoRules, OvP!NoRules, Ov!Request, OvP!Request, Ov!ClaimMsg, OvP!ClaimMsg,
              Ov!NakMsg, OvP!NakMsg, Ov!Pending, OvP!Pending
  <1>1. Ov!Init <=> OvP!Init
    BY DEF Ov!Init, OvP!Init
  <1>2. UNCHANGED Ov!vars <=> UNCHANGED OvP!vars
    BY DEF Ov!vars, OvP!vars, Ov!store, OvP!store, Ov!devs, OvP!devs, Ov!air, OvP!air, Ov!budget, OvP!budget
  <1>3. Ov!StoredIsApplied <=> OvP!StoredIsApplied
    BY DEF Ov!StoredIsApplied, OvP!StoredIsApplied, Ov!Quiet, OvP!Quiet
  <1>4. Ov!RowsAddressOverrides <=> OvP!RowsAddressOverrides
    BY DEF Ov!RowsAddressOverrides, OvP!RowsAddressOverrides, Ov!ReportRows, OvP!ReportRows, Ov!Known, OvP!Known,
           Ov!NameSrc, OvP!NameSrc
  <1>5. Ov!Next <=> OvP!Next
    BY DEF Ov!Next, OvP!Next, Ov!NoteClaim, OvP!NoteClaim, Ov!NoteNak, OvP!NoteNak, Ov!Unheard, OvP!Unheard,
           Ov!Crash, OvP!Crash, Ov!Start, OvP!Start, Ov!Deliver, OvP!Deliver, Ov!SendFrame, OvP!SendFrame,
           Ov!ApplyDelete, OvP!ApplyDelete, Ov!ApplySet, OvP!ApplySet, Ov!Claim, OvP!Claim,
           Ov!Made, OvP!Made, Ov!Raced, OvP!Raced, Ov!Save, OvP!Save, Ov!Replay, OvP!Replay, Ov!Remove, OvP!Remove,
           Ov!Load, OvP!Load, Ov!store, OvP!store, Ov!devs, OvP!devs, Ov!air, OvP!air, Ov!budget, OvP!budget
  <1>6. QED
    BY <1>1, <1>2, <1>3, <1>4, <1>5

LEMMA OverridesHeld ==
    ASSUME OvP!Distinct
    PROVE  Spec => [](part = "overrides" => OvP!IInv)
  <1>1. Init => (part = "overrides" => OvP!IInv)
    BY Begins, SameOverrides, OvP!InitIInv
  <1>2. (part = "overrides" => OvP!IInv) /\ [Next]_vars => (part = "overrides" => OvP!IInv)'
    BY Steps, SameOverrides, OvP!NextIInv
  <1>3. QED
    BY <1>1, <1>2, PTL DEF Spec

\* What is stored for a device is what it does, wherever it moves, whatever crosses
\* or crashes, and a row of a report selects the override it shows
\* (note_address_claim, apply_set_frame, report_frames).
THEOREM OverridesStayTrue ==
    ASSUME OvP!Distinct
    PROVE  Spec => []OverridesHold
  <1>1. (part = "overrides" => OvP!IInv) => OverridesHold
    BY SameOverrides, OvP!SettledIsApplied, OvP!RowsAreOverrides DEF OverridesHold, OvP!IInv
  <1>2. QED
    BY <1>1, OverridesHeld, PTL

-----------------------------------------------------------------------------
(* The quirks: what the claim of a virtual device reaches.                 *)


\* The assumption on the constants: the gap between two answers is a number, the
\* preferred address an address, and None no number.
Tuned == Second \in Nat /\ Window \in Nat \ {0} /\ MaxNow \in Nat /\ PREFERRED_ADDRESS \in Qu!Addrs /\ None \notin Int

\* What the quirks make, whoever it speaks for.
FedFrames == [pgn : {"product", "stop", "variation", "claim", "request", "lists", "rates"},
              src : 0 .. 255, dst : 0 .. 255, what : {"scx20", "wmm", "own", "twin", "claim", Twin}]
FramesOf(s) == {s[i] : i \in DOMAIN s}

MotionStates == [state : {"Idle", "Scanning", "Pending", "Claimed", "Failed"}, address : Qu!Addrs \union {Qu!Null},
                 deadline : Int, used : SUBSET Qu!Addrs, rate_source : (0 .. 255) \union {None}]

\* The frames of a joined sequence are those of its parts.
LEMMA FramesJoin ==
    ASSUME NEW S, NEW s \in Seq(S), NEW t \in Seq(S)
    PROVE  s \o t \in Seq(S) /\ FramesOf(s \o t) = FramesOf(s) \union FramesOf(t)
  <1>1. /\ s \o t \in Seq(S) /\ DOMAIN s = 1 .. Len(s) /\ DOMAIN t = 1 .. Len(t)
        /\ DOMAIN (s \o t) = 1 .. Len(s) + Len(t) /\ Len(s) \in Nat /\ Len(t) \in Nat
    OBVIOUS
  <1>2. ASSUME NEW i \in DOMAIN s
        PROVE  i \in DOMAIN (s \o t) /\ (s \o t)[i] = s[i]
    BY <1>1
  <1>3. ASSUME NEW j \in DOMAIN t
        PROVE  Len(s) + j \in DOMAIN (s \o t) /\ (s \o t)[Len(s) + j] = t[j]
    BY <1>1
  <1>4. ASSUME NEW i \in DOMAIN (s \o t)
        PROVE  (s \o t)[i] \in FramesOf(s) \union FramesOf(t)
    <2>1. CASE i <= Len(s)
      <3>1. i \in DOMAIN s
        BY <1>1, <2>1
      <3>2. QED
        BY <1>2, <3>1 DEF FramesOf
    <2>2. CASE ~ (i <= Len(s))
      <3>1. i - Len(s) \in DOMAIN t /\ i = Len(s) + (i - Len(s))
        BY <1>1, <2>2
      <3>2. (s \o t)[i] = t[i - Len(s)]
        BY <1>3, <3>1
      <3>3. QED
        BY <3>1, <3>2 DEF FramesOf
    <2>3. QED
      BY <2>1, <2>2
  <1>5. FramesOf(s) \subseteq FramesOf(s \o t)
    BY <1>2, Zenon DEF FramesOf
  <1>6. FramesOf(t) \subseteq FramesOf(s \o t)
    BY <1>3, Zenon DEF FramesOf
  <1>7. FramesOf(s \o t) \subseteq FramesOf(s) \union FramesOf(t)
    BY <1>4, Zenon DEF FramesOf
  <1>8. QED
    BY <1>1, <1>5, <1>6, <1>7, Zenon

\* The same of three sequences, and of four.
LEMMA FourJoin ==
    ASSUME NEW S, NEW s \in Seq(S), NEW t \in Seq(S), NEW u \in Seq(S), NEW v \in Seq(S)
    PROVE  /\ s \o t \o u \in Seq(S) /\ FramesOf(s \o t \o u) = FramesOf(s) \union FramesOf(t) \union FramesOf(u)
           /\ s \o t \o u \o v \in Seq(S)
           /\ FramesOf(s \o t \o u \o v) = FramesOf(s) \union FramesOf(t) \union FramesOf(u) \union FramesOf(v)
  <1> DEFINE st == s \o t
  <1>1. st \in Seq(S) /\ FramesOf(st) = FramesOf(s) \union FramesOf(t)
    BY FramesJoin
  <1> HIDE DEF st
  <1> DEFINE stu == st \o u
  <1>2. stu \in Seq(S) /\ FramesOf(stu) = FramesOf(st) \union FramesOf(u)
    BY <1>1, FramesJoin
  <1> HIDE DEF stu
  <1> DEFINE stuv == stu \o v
  <1>3. stuv \in Seq(S) /\ FramesOf(stuv) = FramesOf(stu) \union FramesOf(v)
    BY <1>2, FramesJoin
  <1> HIDE DEF stuv
  <1>4. stuv = s \o t \o u \o v /\ stu = s \o t \o u
    BY Zenon DEF st, stu, stuv
  <1>5. QED
    BY <1>1, <1>2, <1>3, <1>4

\* No frame, or one.
LEMMA FewFrames ==
    /\ FramesOf(<<>>) = {}
    /\ \A f : FramesOf(<<f>>) = {f}
    /\ \A S : <<>> \in Seq(S) /\ \A f \in S : <<f>> \in Seq(S)
  <1>1. FramesOf(<<>>) = {}
    BY DEF FramesOf
  <1>2. ASSUME NEW f
        PROVE  FramesOf(<<f>>) = {f}
    <2>1. DOMAIN <<f>> = {1} /\ <<f>>[1] = f
      OBVIOUS
    <2>2. QED
      BY <2>1 DEF FramesOf
  <1>3. QED
    BY <1>1, <1>2

\* The parts of the claim and of the quirk motion.
LEMMA FrameTypes ==
    ASSUME NEW a \in 0 .. 255
    PROVE  /\ Qu!ClaimOf(a) \in FedFrames /\ Qu!ClaimOf(a).pgn = "claim"
           /\ \A w \in {"twin", "scx20"} :
                 /\ Qu!Frame("product", a, Qu!Global, w) \in FedFrames
                 /\ Qu!Frame("product", a, Qu!Global, w).pgn = "product"
                 /\ Qu!Frame("product", a, Qu!Global, w).src = a
           /\ Qu!Frame("lists", a, Qu!Global, "twin") \in FedFrames
           /\ Qu!Frame("lists", a, Qu!Global, "twin").pgn = "lists"
           /\ Qu!Frame("rates", a, Qu!Global, "twin") \in FedFrames
           /\ Qu!Frame("rates", a, Qu!Global, "twin").pgn = "rates"
           /\ Qu!Frame("stop", Qu!Global, a, "wmm") \in FedFrames
           /\ Qu!Frame("stop", Qu!Global, a, "wmm").pgn = "stop"
           /\ Qu!Frame("stop", Qu!Global, a, "wmm").dst = a
           /\ Qu!Frame("variation", Qu!Global, Qu!Global, "own") \in FedFrames
           /\ Qu!Frame("variation", Qu!Global, Qu!Global, "own").pgn = "variation"
           /\ Qu!Frame("request", Qu!Null, Qu!Global, "claim") \in FedFrames
           /\ Qu!Frame("request", Qu!Null, Qu!Global, "claim").pgn = "request"
  BY DEF FedFrames, Qu!ClaimOf, Qu!Frame, Qu!Global, Qu!Null

\* A call's frames are typed, and those about the twin's products and rate are
\* told apart.
Only(outs, kinds_) == outs \in Seq(FedFrames) /\ \A f \in FramesOf(outs) : f.pgn \in kinds_

\* A window that starts now has not passed.
LEMMA Windowed == ASSUME Tuned, now \in Int
                  PROVE  now + Window \in Int /\ ~(now >= now + Window)
  BY DEF Tuned

\* The twin goes for an address: it claims it and waits a window (go_for).
LEMMA GoForGoes ==
    ASSUME Tuned, now \in Int, NEW m \in MotionStates, NEW a \in Qu!Addrs \union {Qu!Null}
    PROVE  /\ Qu!GoFor(m, a).state \in MotionStates
           /\ Qu!GoFor(m, a).state.state = "Pending" /\ ~(now >= Qu!GoFor(m, a).state.deadline)
           /\ Qu!GoFor(m, a).state.used = m.used /\ Qu!GoFor(m, a).state.rate_source = m.rate_source
           /\ Only(Qu!GoFor(m, a).out, {"claim"})
  <1>0. a \in 0 .. 255
    BY DEF Qu!Addrs, Qu!Null
  <1>1. Qu!ClaimOf(a) \in FedFrames /\ Qu!ClaimOf(a).pgn = "claim"
    BY <1>0, FrameTypes
  <1>2. Only(<<Qu!ClaimOf(a)>>, {"claim"})
    BY <1>1, FewFrames DEF Only
  <1> DEFINE after == [m EXCEPT !.state = "Pending", !.address = a, !.deadline = now + Window]
  <1>3. /\ after \in MotionStates /\ after.state = "Pending" /\ after.deadline = now + Window
        /\ after.used = m.used /\ after.rate_source = m.rate_source
    BY Windowed DEF MotionStates
  <1>4. Qu!GoFor(m, a).state = after /\ Qu!GoFor(m, a).out = <<Qu!ClaimOf(a)>>
    BY DEF Qu!GoFor, Qu!Done
  <1> HIDE DEF after
  <1>5. QED
    BY <1>2, <1>3, <1>4, Windowed

\* It retreats to the lowest free address, or gives up when none is (retreat).
LEMMA RetreatGoes ==
    ASSUME Tuned, now \in Int, NEW m \in MotionStates
    PROVE  /\ Qu!Retreat(m).state \in MotionStates
           /\ Qu!Retreat(m).state.state \in {"Pending", "Failed"}
           /\ Qu!Retreat(m).state.state = "Pending" => ~(now >= Qu!Retreat(m).state.deadline)
           /\ Qu!Retreat(m).state.state = "Failed" => Qu!Addrs \subseteq m.used
           /\ Qu!Retreat(m).state.used = m.used /\ Qu!Retreat(m).state.rate_source = m.rate_source
           /\ Only(Qu!Retreat(m).out, {"claim"})
  <1> DEFINE free == Qu!Addrs \ m.used
  <1>1. CASE free = {}
    <2> DEFINE after == [m EXCEPT !.state = "Failed", !.address = Qu!Null]
    <2>1. after \in MotionStates /\ after.state = "Failed" /\ after.used = m.used /\ after.rate_source = m.rate_source
      BY DEF MotionStates
    <2>2. Qu!Retreat(m).state = after /\ Qu!Retreat(m).out = <<Qu!ClaimOf(Qu!Null)>>
      BY <1>1 DEF Qu!Retreat, Qu!Done
    <2>3. Only(<<Qu!ClaimOf(Qu!Null)>>, {"claim"})
      <3>1. Qu!ClaimOf(Qu!Null) \in FedFrames /\ Qu!ClaimOf(Qu!Null).pgn = "claim"
        <4>1. Qu!Null \in 0 .. 255
          BY DEF Qu!Null
        <4>2. QED
          BY <4>1, FrameTypes
      <3>2. QED
        BY <3>1, FewFrames DEF Only
    <2>4. Qu!Addrs \subseteq m.used
      BY <1>1
    <2> HIDE DEF after
    <2>5. QED
      BY <2>1, <2>2, <2>3, <2>4
  <1>2. CASE free # {}
    <2>1. \E a \in free : \A b \in free : a <= b
      <3>1. free \subseteq {0, 1, 2}
        BY DEF Qu!Addrs
      <3> HIDE DEF free
      <3>2. CASE 0 \in free
        BY <3>1, <3>2
      <3>3. CASE 0 \notin free /\ 1 \in free
        BY <3>1, <3>3
      <3>4. CASE 0 \notin free /\ 1 \notin free
        <4>1. free = {2}
          BY <1>2, <3>1, <3>4
        <4>2. QED
          BY <4>1
      <3>5. QED
        BY <3>2, <3>3, <3>4
    <2> DEFINE low == CHOOSE a \in free : \A b \in free : a <= b
    <2>2. low \in Qu!Addrs \union {Qu!Null}
      BY <2>1
    <2>3. Qu!Retreat(m) = Qu!GoFor(m, low)
      BY <1>2 DEF Qu!Retreat
    <2> HIDE DEF low, free
    <2>4. QED
      BY <2>2, <2>3, GoForGoes
  <1>3. QED
    BY <1>1, <1>2

\* It starts by asking who is there (start).
LEMMA StartedGoes ==
    ASSUME Tuned, now \in Int, NEW m \in MotionStates
    PROVE  LET st == Qu!Started(m).state
           IN  /\ st \in MotionStates
               /\ st.state = m.state \/ (st.state = "Scanning" /\ m.state = "Idle")
               /\ st.address = m.address /\ st.used = m.used /\ st.rate_source = m.rate_source
               /\ Only(Qu!Started(m).out, {"request"})
  <1>1. CASE m.state # "Idle"
    BY <1>1, FewFrames DEF Qu!Started, Qu!Done, Only
  <1>2. CASE m.state = "Idle"
    <2> DEFINE after == [m EXCEPT !.state = "Scanning", !.deadline = now + Window]
               asks == Qu!Frame("request", Qu!Null, Qu!Global, "claim")
    <2>1. /\ after \in MotionStates /\ after.state = "Scanning"
          /\ after.address = m.address /\ after.used = m.used /\ after.rate_source = m.rate_source
      BY Windowed DEF MotionStates
    <2>2. Qu!Started(m).state = after /\ Qu!Started(m).out = <<asks>>
      BY <1>2 DEF Qu!Started, Qu!Done
    <2>3. Only(<<asks>>, {"request"})
      <3>1. asks \in FedFrames /\ asks.pgn = "request"
        <4>1. 0 \in 0 .. 255
          OBVIOUS
        <4>2. QED
          BY <4>1, FrameTypes
      <3>2. QED
        BY <3>1, FewFrames DEF Only
    <2> HIDE DEF after, asks
    <2>4. QED
      BY <1>2, <2>1, <2>2, <2>3
  <1>3. QED
    BY <1>1, <1>2

\* A claim that is heard makes nobody an owner, and one's own counts for nothing.
LEMMA OnClaimGoes ==
    ASSUME Tuned, now \in Int, NEW m \in MotionStates, NEW d
    PROVE  LET st == Qu!OnClaim(m, d).state
           IN  /\ st \in MotionStates
               /\ \/ st.state = m.state /\ st.address = m.address /\ st.deadline = m.deadline
                  \/ st.state = "Pending" /\ ~(now >= st.deadline)
                  \/ st.state = "Failed"
               /\ st.used \subseteq m.used \union (IF d.what = Twin THEN {} ELSE {d.src})
               /\ st.state = "Failed" => m.state = "Failed" \/ Qu!Addrs \subseteq st.used
               /\ st.rate_source = m.rate_source
               /\ m.used \subseteq st.used
               /\ Only(Qu!OnClaim(m, d).out, {"claim"})
  <1> DEFINE wary == [m EXCEPT !.used = @ \union {d.src}]
  <1>1. Only(<<>>, {"claim"})
    BY FewFrames DEF Only
  <1>2. CASE d.src \notin Qu!Addrs \/ Qu!Ours(d)
    BY <1>1, <1>2 DEF Qu!OnClaim, Qu!Done
  <1>3. CASE ~(d.src \notin Qu!Addrs \/ Qu!Ours(d))
    <2>1. d.src \in Qu!Addrs /\ d.what # Twin
      BY <1>3 DEF Qu!Ours
    <2>2. /\ wary \in MotionStates /\ wary.used = m.used \union {d.src}
          /\ wary.state = m.state /\ wary.address = m.address /\ wary.deadline = m.deadline /\ wary.rate_source = m.rate_source
      BY <2>1 DEF MotionStates
    <2>3. m.address \in Qu!Addrs \union {Qu!Null}
      BY DEF MotionStates
    <2>4. \/ Qu!OnClaim(m, d) = Qu!Done(wary, <<>>)
          \/ Qu!OnClaim(m, d) = Qu!GoFor(m, m.address)
          \/ Qu!OnClaim(m, d) = Qu!Retreat(wary)
      BY <1>3 DEF Qu!OnClaim
    <2> HIDE DEF wary
    <2>5. CASE Qu!OnClaim(m, d) = Qu!Done(wary, <<>>)
      <3>1. Qu!OnClaim(m, d).state = wary /\ Qu!OnClaim(m, d).out = <<>>
        BY <2>5 DEF Qu!Done
      <3>2. QED
        BY <1>1, <2>1, <2>2, <3>1
    <2>6. CASE Qu!OnClaim(m, d) = Qu!GoFor(m, m.address)
      BY <2>3, <2>6, GoForGoes
    <2>7. CASE Qu!OnClaim(m, d) = Qu!Retreat(wary)
      <3>1. /\ Qu!Retreat(wary).state \in MotionStates
            /\ Qu!Retreat(wary).state.state \in {"Pending", "Failed"}
            /\ Qu!Retreat(wary).state.state = "Pending" => ~(now >= Qu!Retreat(wary).state.deadline)
            /\ Qu!Retreat(wary).state.state = "Failed" => Qu!Addrs \subseteq wary.used
            /\ Qu!Retreat(wary).state.used = wary.used /\ Qu!Retreat(wary).state.rate_source = wary.rate_source
            /\ Only(Qu!Retreat(wary).out, {"claim"})
        BY <2>2, RetreatGoes
      <3>2. QED
        BY <2>1, <2>2, <2>7, <3>1
    <2>8. QED
      BY <2>4, <2>5, <2>6, <2>7
  <1>4. QED
    BY <1>2, <1>3

\* The clock makes an owner of whoever waited its window out (tick).
LEMMA TickedGoes ==
    ASSUME Tuned, now \in Int, NEW m \in MotionStates
    PROVE  LET st == Qu!Ticked(m).state
           IN  /\ st \in MotionStates
               /\ st.state = "Claimed" => /\ st.address = m.address
                                          /\ m.state = "Claimed" \/ (m.state = "Pending" /\ now >= m.deadline)
               /\ m.state = "Claimed" => st.state = "Claimed"
               /\ st.state = "Failed" => m.state = "Failed" \/ Qu!Addrs \subseteq st.used
               /\ st.used = m.used /\ st.rate_source = m.rate_source
               /\ Only(Qu!Ticked(m).out, {"claim"})
  <1>1. Only(<<>>, {"claim"})
    BY FewFrames DEF Only
  <1>2. CASE m.state = "Scanning" /\ now >= m.deadline
    <2>1. CASE PREFERRED_ADDRESS \in m.used
      <3>1. Qu!Ticked(m) = Qu!Retreat(m)
        BY <1>2, <2>1 DEF Qu!Ticked
      <3>2. QED
        BY <1>2, <3>1, RetreatGoes
    <2>2. CASE PREFERRED_ADDRESS \notin m.used
      <3>1. Qu!Ticked(m) = Qu!GoFor(m, PREFERRED_ADDRESS)
        BY <1>2, <2>2 DEF Qu!Ticked
      <3>2. QED
        BY <1>2, <3>1, GoForGoes DEF Tuned
    <2>3. QED
      BY <2>1, <2>2
  <1>3. CASE ~(m.state = "Scanning" /\ now >= m.deadline) /\ m.state = "Pending" /\ now >= m.deadline
    <2> DEFINE after == [m EXCEPT !.state = "Claimed"]
    <2>1. /\ after \in MotionStates /\ after.state = "Claimed" /\ after.address = m.address
          /\ after.used = m.used /\ after.rate_source = m.rate_source
      BY DEF MotionStates
    <2>2. Qu!Ticked(m).state = after /\ Qu!Ticked(m).out = <<>>
      BY <1>3 DEF Qu!Ticked, Qu!Done
    <2> HIDE DEF after
    <2>3. QED
      BY <1>1, <1>3, <2>1, <2>2
  <1>4. CASE ~(m.state = "Scanning" /\ now >= m.deadline) /\ ~(m.state = "Pending" /\ now >= m.deadline)
    <2>1. Qu!Ticked(m).state = m /\ Qu!Ticked(m).out = <<>>
      BY <1>4 DEF Qu!Ticked, Qu!Done
    <2>2. QED
      BY <1>1, <2>1
  <1>5. QED
    BY <1>2, <1>3, <1>4

\* What a request is answered with speaks under the address that is owned.
LEMMA RequestAnswered ==
    ASSUME Tuned, NEW m \in MotionStates, NEW d
    PROVE  /\ Only(Qu!HandleRequest(m, d), {"claim", "product", "lists"})
           /\ \A f \in FramesOf(Qu!HandleRequest(m, d)) :
                f.pgn = "product" => m.state = "Claimed" /\ f.src = m.address
  <1> DEFINE info == Qu!Frame("product", m.address, Qu!Global, "twin")
             list == Qu!Frame("lists", m.address, Qu!Global, "twin")
             lists == [i \in 1 .. 2 |-> list]
  <1>1. m.address \in 0 .. 255
    BY DEF MotionStates, Qu!Addrs, Qu!Null
  <1>2. /\ Qu!ClaimOf(m.address) \in FedFrames /\ Qu!ClaimOf(m.address).pgn = "claim"
        /\ info \in FedFrames /\ info.pgn = "product" /\ info.src = m.address
        /\ list \in FedFrames /\ list.pgn = "lists"
    BY <1>1, FrameTypes
  <1>3. m.state # "Claimed" \/ Qu!Address(m) # None
    BY <1>1 DEF Qu!Address, Tuned
  <1>4. \/ Qu!HandleRequest(m, d) = <<>>
        \/ Qu!HandleRequest(m, d) = <<Qu!ClaimOf(m.address)>>
        \/ Qu!HandleRequest(m, d) = <<info>> /\ m.state = "Claimed"
        \/ Qu!HandleRequest(m, d) = lists
    BY <1>3 DEF Qu!HandleRequest, Qu!ProductInfo, Qu!Address
  <1>5. lists \in Seq(FedFrames) /\ FramesOf(lists) = {list}
    <2>1. DOMAIN lists = 1 .. 2 /\ \A i \in 1 .. 2 : lists[i] = list
      OBVIOUS
    <2>2. FramesOf(lists) = {list}
      BY <2>1 DEF FramesOf
    <2> HIDE DEF list
    <2>3. lists \in [1 .. 2 -> FedFrames]
      BY <1>2
    <2>4. QED
      BY <2>2, <2>3
  <1> HIDE DEF info, list, lists
  <1>6. CASE Qu!HandleRequest(m, d) = <<>>
    BY <1>6, FewFrames DEF Only
  <1>7. CASE Qu!HandleRequest(m, d) = <<Qu!ClaimOf(m.address)>>
    BY <1>2, <1>7, FewFrames DEF Only
  <1>8. CASE Qu!HandleRequest(m, d) = <<info>> /\ m.state = "Claimed"
    BY <1>2, <1>8, FewFrames DEF Only
  <1>9. CASE Qu!HandleRequest(m, d) = lists
    BY <1>2, <1>5, <1>9 DEF Only
  <1>10. QED
    BY <1>4, <1>6, <1>7, <1>8, <1>9

\* Only a compass that can be retold is noted, and only the one noted is retold.
LEMMA RatesGo ==
    ASSUME Tuned, NEW m \in MotionStates, NEW d, d.src \in 0 .. 255, d.pgn = "sixdof"
    PROVE  LET st == Qu!Received(m, d).state
           IN  /\ st \in MotionStates
               /\ st.state = m.state /\ st.address = m.address /\ st.used = m.used /\ st.deadline = m.deadline
               /\ st.rate_source = IF Qu!Retellable(m, d) /\ m.rate_source = None THEN d.src ELSE m.rate_source
               /\ Only(Qu!Received(m, d).out, {"rates"})
               /\ FramesOf(Qu!Received(m, d).out) # {} => Qu!Retellable(m, d) /\ st.rate_source = d.src
  <1> DEFINE st == Qu!Latched(m, d)
             rate == Qu!Frame("rates", m.address, Qu!Global, "twin")
             outs == IF Qu!Retold(st, d) THEN <<rate>> ELSE <<>>
  <1>1. Qu!Received(m, d).state = st /\ Qu!Received(m, d).out = outs
    BY DEF Qu!Received, Qu!Done
  <1>2. /\ st \in MotionStates
        /\ st.state = m.state /\ st.address = m.address /\ st.used = m.used /\ st.deadline = m.deadline
        /\ st.rate_source = IF Qu!Retellable(m, d) /\ m.rate_source = None THEN d.src ELSE m.rate_source
    BY DEF Qu!Latched, MotionStates
  <1>3. Qu!Retellable(st, d) = Qu!Retellable(m, d)
    BY <1>2 DEF Qu!Retellable, Qu!Address
  <1>4. Qu!Retold(st, d) => Qu!Retellable(m, d) /\ st.rate_source = d.src
    BY <1>3 DEF Qu!Retold
  <1>5. rate \in FedFrames /\ rate.pgn = "rates"
    <2>1. m.address \in 0 .. 255
      BY DEF MotionStates, Qu!Addrs, Qu!Null
    <2>2. QED
      BY <2>1, FrameTypes
  <1> HIDE DEF st, rate
  <1>6. Only(outs, {"rates"}) /\ (FramesOf(outs) # {} => Qu!Retold(st, d))
    BY <1>5, FewFrames DEF Only
  <1> HIDE DEF outs
  <1>7. QED
    BY <1>1, <1>2, <1>4, <1>6
\* What is heard, from the bus or from the quirks themselves.
Heard(d) == /\ d.src \in 0 .. 255
            /\ d.pgn = "sixdof" => d.src \in Qu!Addrs
            /\ d.pgn = "date" => d.what \in {"beyond", "today"}

\* What a frame does to the twin, whatever it is.
LEMMA ReceivedGoes ==
    ASSUME Tuned, now \in Int, NEW m \in MotionStates, NEW d, Heard(d)
    PROVE  LET st == Qu!Received(m, d).state
               outs == Qu!Received(m, d).out
           IN  /\ st \in MotionStates
               /\ \/ st.state = m.state /\ st.address = m.address /\ st.deadline = m.deadline
                  \/ st.state = "Pending" /\ ~(now >= st.deadline) /\ d.pgn = "claim"
                  \/ st.state = "Failed" /\ d.pgn = "claim"
               /\ m.used \subseteq st.used
               /\ st.used \subseteq m.used \union (IF d.pgn = "claim" /\ d.what # Twin THEN {d.src} ELSE {})
               /\ st.state = "Failed" => m.state = "Failed" \/ Qu!Addrs \subseteq st.used
               /\ st.rate_source = IF Qu!Retellable(m, d) /\ m.rate_source = None THEN d.src ELSE m.rate_source
               /\ Only(outs, {"claim", "product", "lists", "rates"})
               /\ \A f \in FramesOf(outs) : f.pgn = "product" =>
                     m.state = "Claimed" /\ st.state = "Claimed" /\ f.src = st.address /\ st.address = m.address
               /\ \A f \in FramesOf(outs) : f.pgn = "rates" => Qu!Retellable(m, d) /\ st.rate_source = d.src
  <1>1. CASE d.pgn = "claim"
    <2>1. Qu!Received(m, d) = Qu!OnClaim(m, d) /\ ~Qu!Retellable(m, d)
      BY <1>1 DEF Qu!Received, Qu!Retellable
    <2> DEFINE st == Qu!OnClaim(m, d).state
               outs == Qu!OnClaim(m, d).out
    <2>2. /\ st \in MotionStates
          /\ \/ st.state = m.state /\ st.address = m.address /\ st.deadline = m.deadline
             \/ st.state = "Pending" /\ ~(now >= st.deadline)
             \/ st.state = "Failed"
          /\ st.used \subseteq m.used \union (IF d.what = Twin THEN {} ELSE {d.src})
          /\ st.state = "Failed" => m.state = "Failed" \/ Qu!Addrs \subseteq st.used
          /\ st.rate_source = m.rate_source
          /\ m.used \subseteq st.used
          /\ Only(outs, {"claim"})
      BY OnClaimGoes
    <2>3. Only(outs, {"claim", "product", "lists", "rates"}) /\ \A f \in FramesOf(outs) : f.pgn = "claim"
      BY <2>2 DEF Only
    <2>4. Qu!Received(m, d).state = st /\ Qu!Received(m, d).out = outs
      BY <2>1
    <2> HIDE DEF st, outs
    <2>5. QED
      BY <1>1, <2>1, <2>2, <2>3, <2>4
  <1>2. CASE d.pgn = "request"
    <2>1. /\ Qu!Received(m, d).state = m /\ Qu!Received(m, d).out = Qu!HandleRequest(m, d)
          /\ ~Qu!Retellable(m, d)
      BY <1>2 DEF Qu!Received, Qu!Done, Qu!Retellable
    <2>2. QED
      BY <1>2, <2>1, RequestAnswered DEF Only
  <1>3. CASE d.pgn = "sixdof"
    BY <1>3, RatesGo, ZenonT(30) DEF Heard, Only
  <1>4. CASE d.pgn \notin {"claim", "request", "sixdof"}
    <2>1. Qu!Received(m, d).state = m /\ Qu!Received(m, d).out = <<>> /\ ~Qu!Retellable(m, d)
      BY <1>4 DEF Qu!Received, Qu!Done, Qu!Retellable
    <2>2. QED
      BY <1>4, <2>1, FewFrames DEF Only
  <1>5. QED
    BY <1>1, <1>2, <1>3, <1>4

\* A call of the quirk: what it owns it announced in that call or owned before.
LEMMA MotionGoes ==
    ASSUME Tuned, now \in Int, motion \in MotionStates, NEW d, Heard(d)
    PROVE  LET st == Qu!Motion(d).state
               outs == Qu!Motion(d).out
           IN  /\ st \in MotionStates /\ outs \in Seq(FedFrames)
               /\ st.used \subseteq motion.used \union (IF d.pgn = "claim" /\ d.what # Twin THEN {d.src} ELSE {})
               /\ motion.used \subseteq st.used
               /\ st.state = "Failed" => motion.state = "Failed" \/ Qu!Addrs \subseteq st.used
               /\ st.rate_source = IF Qu!Retellable(motion, d) /\ motion.rate_source = None THEN d.src
                                   ELSE motion.rate_source
               /\ \A f \in FramesOf(outs) : f.pgn = "product" => f.src = st.address
               /\ \A f \in FramesOf(outs) : f.pgn = "rates" => Qu!Retellable(motion, d) /\ st.rate_source = d.src
               /\ st.state = "Claimed" => \/ motion.state = "Claimed" /\ st.address = motion.address
                                          \/ \E f \in FramesOf(outs) : f.pgn = "product"
  <1> DEFINE s1 == Qu!Started(motion)
             s2 == Qu!Received(s1.state, d)
             s3 == Qu!Ticked(s2.state)
             info == IF Qu!Announces(s1.state, s3.state) THEN Qu!ProductInfo(s3.state) ELSE <<>>
  <1>1. Qu!Motion(d).state = s3.state /\ Qu!Motion(d).out = s1.out \o s2.out \o s3.out \o info
    BY DEF Qu!Motion, Qu!Done
  <1>2. /\ s1.state \in MotionStates
        /\ s1.state.state = motion.state \/ (s1.state.state = "Scanning" /\ motion.state = "Idle")
        /\ s1.state.address = motion.address /\ s1.state.used = motion.used /\ s1.state.rate_source = motion.rate_source
        /\ Only(s1.out, {"request"})
    BY StartedGoes
  <1>3. Qu!Retellable(s1.state, d) = Qu!Retellable(motion, d)
    BY <1>2 DEF Qu!Retellable, Qu!Address
  <1> HIDE DEF s1
  <1>4. /\ s2.state \in MotionStates
        /\ \/ s2.state.state = s1.state.state /\ s2.state.address = s1.state.address /\ s2.state.deadline = s1.state.deadline
           \/ s2.state.state = "Pending" /\ ~(now >= s2.state.deadline)
           \/ s2.state.state = "Failed"
        /\ s1.state.used \subseteq s2.state.used
        /\ s2.state.used \subseteq s1.state.used \union (IF d.pgn = "claim" /\ d.what # Twin THEN {d.src} ELSE {})
        /\ s2.state.state = "Failed" => s1.state.state = "Failed" \/ Qu!Addrs \subseteq s2.state.used
        /\ s2.state.rate_source = IF Qu!Retellable(s1.state, d) /\ s1.state.rate_source = None THEN d.src
                                  ELSE s1.state.rate_source
        /\ Only(s2.out, {"claim", "product", "lists", "rates"})
        /\ \A f \in FramesOf(s2.out) : f.pgn = "product" => s2.state.state = "Claimed" /\ f.src = s2.state.address
        /\ \A f \in FramesOf(s2.out) : f.pgn = "rates" => Qu!Retellable(s1.state, d) /\ s2.state.rate_source = d.src
    BY <1>2, ReceivedGoes
  <1> HIDE DEF s2
  <1>5. /\ s3.state \in MotionStates
        /\ s3.state.state = "Claimed" => /\ s3.state.address = s2.state.address
                                         /\ \/ s2.state.state = "Claimed"
                                            \/ s2.state.state = "Pending" /\ now >= s2.state.deadline
        /\ s2.state.state = "Claimed" => s3.state.state = "Claimed"
        /\ s3.state.state = "Failed" => s2.state.state = "Failed" \/ Qu!Addrs \subseteq s3.state.used
        /\ s3.state.used = s2.state.used /\ s3.state.rate_source = s2.state.rate_source
        /\ Only(s3.out, {"claim"})
    <2>1. s2.state \in MotionStates
      BY <1>4
    <2>2. QED
      BY <2>1, TickedGoes
  <1> HIDE DEF s3
  <1>6. /\ info \in Seq(FedFrames)
        /\ \A f \in FramesOf(info) : f.pgn = "product" /\ f.src = s3.state.address
        /\ Qu!Announces(s1.state, s3.state) => \E f \in FramesOf(info) : f.pgn = "product"
    <2> DEFINE product == Qu!Frame("product", s3.state.address, Qu!Global, "twin")
    <2>1. s3.state.address \in 0 .. 255
      BY <1>5 DEF MotionStates, Qu!Addrs, Qu!Null
    <2>2. product \in FedFrames /\ product.pgn = "product" /\ product.src = s3.state.address
      BY <2>1, FrameTypes
    <2>3. info = <<>> \/ info = <<product>>
      <3>1. Qu!ProductInfo(s3.state) = <<>> \/ Qu!ProductInfo(s3.state) = <<product>>
        BY DEF Qu!ProductInfo
      <3>2. QED
        BY <3>1
    <2>4. Qu!Announces(s1.state, s3.state) => info = <<product>>
      <3>1. s3.state.address # None
        BY <2>1 DEF Tuned
      <3>2. Qu!Announces(s1.state, s3.state) => Qu!Address(s3.state) # None
        BY <3>1 DEF Qu!Address, Qu!Announces
      <3>3. Qu!Address(s3.state) # None => Qu!ProductInfo(s3.state) = <<product>>
        BY DEF Qu!ProductInfo
      <3> HIDE DEF product
      <3>4. QED
        BY <3>2, <3>3
    <2> HIDE DEF product, info
    <2>5. QED
      BY <2>2, <2>3, <2>4, FewFrames
  <1> HIDE DEF info
  <1>7. /\ Qu!Motion(d).out \in Seq(FedFrames)
        /\ FramesOf(Qu!Motion(d).out) = FramesOf(s1.out) \union FramesOf(s2.out) \union FramesOf(s3.out) \union FramesOf(info)
    <2>1. s1.out \in Seq(FedFrames) /\ s2.out \in Seq(FedFrames) /\ s3.out \in Seq(FedFrames)
      BY <1>2, <1>4, <1>5 DEF Only
    <2>2. QED
      BY <1>1, <1>6, <2>1, FourJoin
  <1>8. \A f \in FramesOf(Qu!Motion(d).out) : f.pgn = "product" => f.src = s3.state.address
    <2>1. s2.state.state = "Claimed" => s3.state.address = s2.state.address
      BY <1>5
    <2>2. QED
      BY <1>2, <1>4, <1>5, <1>6, <1>7, <2>1 DEF Only
  <1>9. \A f \in FramesOf(Qu!Motion(d).out) : f.pgn = "rates" => Qu!Retellable(motion, d) /\ s3.state.rate_source = d.src
    BY <1>2, <1>3, <1>4, <1>5, <1>6, <1>7 DEF Only
  <1>10. s3.state.state = "Claimed" => \/ motion.state = "Claimed" /\ s3.state.address = motion.address
                                      \/ Qu!Announces(s1.state, s3.state)
    BY <1>2, <1>4, <1>5 DEF Qu!Announces
  <1>11. QED
    BY <1>1, <1>2, <1>3, <1>4, <1>5, <1>6, <1>7, <1>8, <1>9, <1>10
\* The states of the quirk wmm.
WmmStates == [pos : BOOLEAN, date : {"host", "beyond", "today"}, cached : BOOLEAN, computed : Int \union {None},
              emitted : Int \union {None}, asked : SUBSET (0 .. 255)]

\* What the variation quirk notes: a position, a date, or who speaks of variation (observe).
LEMMA ObservedGoes ==
    ASSUME NEW w \in WmmStates, NEW d, Heard(d)
    PROVE  /\ Qu!Asked(Qu!Observed(w, d), d) \in WmmStates
           /\ Qu!Asked(Qu!Observed(w, d), d).emitted = w.emitted
           /\ Qu!Asked(Qu!Observed(w, d), d).asked = IF Qu!StopDue(w, d) THEN w.asked \union {d.src} ELSE w.asked
  <1> DEFINE v == Qu!Observed(w, d)
  <1>1. v \in WmmStates /\ v.emitted = w.emitted /\ v.asked = w.asked
    <2>1. CASE d.pgn = "position"
      <3>1. v = [w EXCEPT !.pos = TRUE]
        BY <2>1 DEF Qu!Observed
      <3>2. QED
        BY <3>1 DEF WmmStates
    <2>2. CASE d.pgn = "date"
      <3>1. v = [w EXCEPT !.date = d.what]
        BY <2>2 DEF Qu!Observed
      <3>2. QED
        BY <2>2, <3>1 DEF WmmStates, Heard
    <2>3. CASE d.pgn \notin {"position", "date"}
      BY <2>3 DEF Qu!Observed
    <2>4. QED
      BY <2>1, <2>2, <2>3
  <1>2. Qu!StopDue(v, d) = Qu!StopDue(w, d)
    BY <1>1 DEF Qu!StopDue
  <1> HIDE DEF v
  <1>3. CASE Qu!StopDue(w, d)
    <2>1. Qu!Asked(v, d) = [v EXCEPT !.asked = @ \union {d.src}]
      BY <1>2, <1>3 DEF Qu!Asked
    <2>2. QED
      BY <1>1, <1>3, <2>1 DEF WmmStates, Heard, v
  <1>4. CASE ~Qu!StopDue(w, d)
    <2>1. Qu!Asked(v, d) = v
      BY <1>2, <1>4 DEF Qu!Asked
    <2>2. QED
      BY <1>1, <1>4, <2>1 DEF v
  <1>5. QED
    BY <1>3, <1>4

\* What it then computes, at most once a second (compute).
LEMMA ComputedGoes ==
    ASSUME now \in Int, NEW w \in WmmStates
    PROVE  /\ Qu!Computed(w) \in WmmStates
           /\ Qu!Computed(w).emitted = w.emitted /\ Qu!Computed(w).asked = w.asked
  <1> DEFINE good == w.cached \/ w.date # "beyond"
  <1>1. good \in BOOLEAN
    OBVIOUS
  <1> HIDE DEF good
  <1>2. Qu!Computed(w) = w \/ Qu!Computed(w) = [w EXCEPT !.cached = good, !.computed = now]
    BY Zenon DEF Qu!Computed, good
  <1>3. CASE Qu!Computed(w) = w
    BY <1>3
  <1>4. CASE Qu!Computed(w) = [w EXCEPT !.cached = good, !.computed = now]
    <2> DEFINE u == [w EXCEPT !.cached = good]
               v == [u EXCEPT !.computed = now]
    <2>1. u \in WmmStates /\ u.emitted = w.emitted /\ u.asked = w.asked
      BY <1>1 DEF WmmStates
    <2>2. [w EXCEPT !.cached = good, !.computed = now] = v
      OBVIOUS
    <2> HIDE DEF u
    <2>3. v \in WmmStates /\ v.emitted = u.emitted /\ v.asked = u.asked
      BY <2>1 DEF WmmStates
    <2>4. QED
      BY <1>4, <2>1, <2>2, <2>3
  <1>5. QED
    BY <1>2, <1>3, <1>4

\* A variation goes out when none did within a second, which is then noted; a
\* source is asked to be silent when it was not asked before, which is noted too.
LEMMA WmmGoes ==
    ASSUME Tuned, now \in Int, wmm \in WmmStates, NEW d, Heard(d)
    PROVE  LET st == Qu!Wmm(d).state
               outs == Qu!Wmm(d).out
           IN  /\ st \in WmmStates /\ outs \in Seq(FedFrames)
               /\ wmm.asked \subseteq st.asked
               /\ \/ /\ \E f \in FramesOf(outs) : f.pgn = "variation"
                     /\ st.emitted = now /\ (wmm.emitted = None \/ now - wmm.emitted >= Second)
                  \/ /\ ~ \E f \in FramesOf(outs) : f.pgn = "variation"
                     /\ st.emitted = wmm.emitted
               /\ \A f \in FramesOf(outs) : f.pgn = "stop" =>
                     f.dst = d.src /\ d.src \notin wmm.asked /\ d.src \in st.asked
  <1> DEFINE noted == Qu!Asked(Qu!Observed(wmm, d), d)
             value == IF Qu!EmitDue(noted) THEN Qu!Computed(noted) ELSE noted
             emits == Qu!EmitDue(noted) /\ value.cached
             after == IF emits THEN Qu!Stamped(value) ELSE value
             stop == Qu!Frame("stop", Qu!Global, d.src, "wmm")
             stops == IF Qu!StopDue(wmm, d) THEN <<stop>> ELSE <<>>
             variation == Qu!Frame("variation", Qu!Global, Qu!Global, "own")
             variations == IF emits THEN <<variation>> ELSE <<>>
  <1>1. Qu!Wmm(d).state = after /\ Qu!Wmm(d).out = stops \o variations
    BY Zenon DEF Qu!Wmm, Qu!Done
  <1>2. /\ noted \in WmmStates /\ noted.emitted = wmm.emitted
        /\ noted.asked = IF Qu!StopDue(wmm, d) THEN wmm.asked \union {d.src} ELSE wmm.asked
    BY ObservedGoes
  <1> HIDE DEF noted
  <1>3. value \in WmmStates /\ value.emitted = wmm.emitted /\ value.asked = noted.asked
    BY <1>2, ComputedGoes
  <1>4. emits => wmm.emitted = None \/ now - wmm.emitted >= Second
    BY <1>2 DEF Qu!EmitDue
  <1> HIDE DEF value
  <1>5. /\ after \in WmmStates /\ after.asked = noted.asked
        /\ emits => after.emitted = now
        /\ ~emits => after.emitted = wmm.emitted
    <2>1. CASE emits
      <3>1. after = [value EXCEPT !.emitted = now]
        BY <2>1 DEF Qu!Stamped
      <3>2. QED
        BY <1>3, <2>1, <3>1 DEF WmmStates
    <2>2. CASE ~emits
      BY <1>3, <2>2
    <2>3. QED
      BY <2>1, <2>2
  <1> HIDE DEF after, emits
  <1>6. /\ stop \in FedFrames /\ stop.pgn = "stop" /\ stop.dst = d.src
        /\ variation \in FedFrames /\ variation.pgn = "variation"
    BY FrameTypes DEF Heard
  <1> HIDE DEF stop, variation
  <1>7. /\ stops \in Seq(FedFrames) /\ variations \in Seq(FedFrames)
        /\ \A f \in FramesOf(stops) : Qu!StopDue(wmm, d) /\ f = stop
        /\ emits => FramesOf(variations) = {variation}
        /\ ~emits => FramesOf(variations) = {}
    BY <1>6, FewFrames
  <1> HIDE DEF stops, variations
  <1>8. /\ stops \o variations \in Seq(FedFrames)
        /\ FramesOf(stops \o variations) = FramesOf(stops) \union FramesOf(variations)
    BY <1>7, FramesJoin
  <1>9. Qu!StopDue(wmm, d) => d.src \notin wmm.asked
    BY DEF Qu!StopDue
  <1>10. (\E f \in FramesOf(stops \o variations) : f.pgn = "variation") <=> emits
    BY <1>6, <1>7, <1>8
  <1>11. \A f \in FramesOf(stops \o variations) : f.pgn = "stop" => f = stop /\ Qu!StopDue(wmm, d)
    BY <1>6, <1>7, <1>8
  <1>12. QED
    BY <1>1, <1>2, <1>4, <1>5, <1>6, <1>8, <1>9, <1>10, <1>11

\* The compasses that are answered for, each under its own address.
LEMMA ScxGoes ==
    ASSUME NEW d
    PROVE  /\ Qu!Scx20(d).out \in Seq(FedFrames)
           /\ \A f \in FramesOf(Qu!Scx20(d).out) : f.src \in Qu!Targets(d)
  <1> DEFINE answer(a) == IF a \in Qu!Targets(d) THEN <<Qu!Frame("product", a, Qu!Global, "scx20")>> ELSE <<>>
  <1>1. ASSUME NEW a \in {0, 1, 2}
        PROVE  answer(a) \in Seq(FedFrames) /\ \A f \in FramesOf(answer(a)) : f.src \in Qu!Targets(d)
    <2> DEFINE product == Qu!Frame("product", a, Qu!Global, "scx20")
    <2>1. product \in FedFrames /\ product.src = a
      <3>1. a \in 0 .. 255 /\ "scx20" \in {"twin", "scx20"}
        OBVIOUS
      <3>2. QED
        BY <3>1, FrameTypes
    <2> HIDE DEF product
    <2>2. answer(a) = IF a \in Qu!Targets(d) THEN <<product>> ELSE <<>>
      BY DEF product
    <2> HIDE DEF answer
    <2>3. QED
      BY <2>1, <2>2, FewFrames
  <1>2. Qu!Scx20(d).out = answer(0) \o answer(1) \o answer(2)
    BY Zenon DEF Qu!Scx20, Qu!Fabricated, Qu!Done
  <1> HIDE DEF answer
  <1>3. /\ answer(0) \o answer(1) \o answer(2) \in Seq(FedFrames)
        /\ FramesOf(answer(0) \o answer(1) \o answer(2)) = FramesOf(answer(0)) \union FramesOf(answer(1)) \union FramesOf(answer(2))
    <2>1. answer(0) \in Seq(FedFrames) /\ answer(1) \in Seq(FedFrames) /\ answer(2) \in Seq(FedFrames)
      BY <1>1
    <2>2. QED
      BY <2>1, FourJoin
  <1>4. QED
    BY <1>1, <1>2, <1>3
-----------------------------------------------------------------------------
(* The invariant of the quirks, one conjunct for each of them.              *)

QuirkTypes ==
    /\ own \in Qu!Addrs \union {None} /\ now \in 0 .. MaxNow
    /\ fed_back \in Seq(FedFrames)
    /\ motion \in MotionStates /\ wmm \in WmmStates
    /\ learned \in [Qu!Addrs -> (-Second .. MaxNow) \union {None}]
    /\ told \in [Qu!Addrs -> (0 .. MaxNow) \union {None}]
    /\ begged \in [Qu!Addrs -> 0 .. 1]
    /\ retold \subseteq Qu!Addrs

\* What the twin owns it has announced, what it avoids others have claimed.
TwinInv == /\ Qu!OwnedIsAnnounced
           /\ motion.used \subseteq taken
           /\ Qu!GivesUpWhenFull

\* The compass noted is the first, and only that was retold.
CompassInv == /\ motion.rate_source = earliest
              /\ retold \subseteq {earliest}
              /\ earliest = None => retold = {}

\* The stamp of an answer is not before the answer.
AnswersInv == \A a \in Qu!Addrs : told[a] # None => learned[a] # None /\ told[a] <= learned[a]

\* The variation that went out is the one noted, and whoever was asked is noted.
VariationInv == /\ spoken = wmm.emitted
                /\ \A a \in Qu!Addrs : begged[a] = 1 => a \in wmm.asked

QuirksInv == QuirkTypes /\ TwinInv /\ CompassInv /\ AnswersInv /\ VariationInv

\* The pipeline stamps its own address on a frame of nobody, and on no other.
LEMMA StampTypes ==
    ASSUME own \in Qu!Addrs \union {None}, NEW f \in FedFrames
    PROVE  /\ Qu!Stamp(f) \in FedFrames
           /\ f.src \notin {0, 255} => Qu!Stamp(f).src = f.src
  <1>1. CASE f.src \in {0, Qu!Global} /\ own # None
    <2>1. Qu!Stamp(f) = [f EXCEPT !.src = own]
      BY <1>1 DEF Qu!Stamp
    <2>2. own \in 0 .. 255
      BY <1>1 DEF Qu!Addrs
    <2>3. QED
      BY <1>1, <2>1, <2>2 DEF FedFrames, Qu!Global
  <1>2. CASE ~(f.src \in {0, Qu!Global} /\ own # None)
    BY <1>2 DEF Qu!Stamp
  <1>3. QED
    BY <1>1, <1>2

\* So a stamped call is a call.
LEMMA StampedFrames ==
    ASSUME own \in Qu!Addrs \union {None}, NEW q \in Seq(FedFrames)
    PROVE  [i \in DOMAIN q |-> Qu!Stamp(q[i])] \in Seq(FedFrames)
  <1>1. DOMAIN q = 1 .. Len(q) /\ Len(q) \in Nat /\ \A i \in DOMAIN q : q[i] \in FedFrames
    OBVIOUS
  <1>2. \A i \in 1 .. Len(q) : Qu!Stamp(q[i]) \in FedFrames
    BY <1>1, StampTypes
  <1>3. [i \in DOMAIN q |-> Qu!Stamp(q[i])] \in [1 .. Len(q) -> FedFrames]
    BY <1>1, <1>2, Zenon
  <1> DEFINE stamped == [i \in DOMAIN q |-> Qu!Stamp(q[i])]
  <1> HIDE DEF stamped
  <1>4. stamped \in [1 .. Len(q) -> FedFrames] => stamped \in Seq(FedFrames)
    BY <1>1
  <1>5. QED
    BY <1>3, <1>4 DEF stamped

\* What the call leaves of the quirk scx20, enabled or not.
LEMMA ScxPart ==
    ASSUME Tuned, QuirkTypes, NEW d
    PROVE  LET s == Qu!Enabled("scx20", Qu!Scx20(d), learned)
           IN  /\ s.out \in Seq(FedFrames)
               /\ s.state \in [Qu!Addrs -> (-Second .. MaxNow) \union {None}]
               /\ \A a \in Qu!Addrs :
                    /\ learned[a] # None => s.state[a] # None /\ s.state[a] >= learned[a]
                    /\ (\E f \in FramesOf(s.out) : f.src = a) =>
                         learned[a] # None /\ now - learned[a] >= Second /\ s.state[a] = now
  <1> DEFINE s == Qu!Enabled("scx20", Qu!Scx20(d), learned)
  <1>0. Second \in Nat /\ MaxNow \in Nat /\ now \in 0 .. MaxNow /\ None \notin Int
    BY DEF Tuned, QuirkTypes
  <1>1. CASE "scx20" \notin kinds
    <2>1. s.state = learned /\ s.out = <<>>
      BY <1>1 DEF Qu!Enabled, Qu!Done
    <2>2. \A a \in Qu!Addrs : learned[a] # None => learned[a] \in Int
      BY DEF QuirkTypes
    <2> HIDE DEF s
    <2>3. /\ s.out \in Seq(FedFrames) /\ FramesOf(s.out) = {}
          /\ s.state \in [Qu!Addrs -> (-Second .. MaxNow) \union {None}]
      BY <2>1, FewFrames DEF QuirkTypes
    <2>4. \A a \in Qu!Addrs : learned[a] # None => s.state[a] # None /\ s.state[a] >= learned[a]
      BY <2>1, <2>2
    <2>5. QED
      BY <2>3, <2>4, Zenon DEF s
  <1>2. CASE "scx20" \in kinds
    <2>1. s = Qu!Scx20(d)
      BY <1>2 DEF Qu!Enabled
    <2> HIDE DEF s
    <2> DEFINE next(a) == Qu!Learn(learned, d)[a]
    <2>2. s.state = [a \in Qu!Addrs |-> IF a \in Qu!Targets(d) THEN now ELSE next(a)]
      BY <2>1 DEF Qu!Scx20, Qu!Done
    <2>3. ASSUME NEW a \in Qu!Addrs
          PROVE  /\ next(a) \in (-Second .. MaxNow) \union {None}
                 /\ learned[a] # None => next(a) = learned[a]
      <3>1. next(a) = learned[a] \/ (next(a) = now - Second /\ learned[a] = None)
        BY DEF Qu!Learn, QuirkTypes
      <3>2. now - Second \in -Second .. MaxNow
        BY <1>0
      <3> HIDE DEF next
      <3>3. QED
        BY <3>1, <3>2 DEF QuirkTypes
    <2>4. \A a \in Qu!Targets(d) : a \in Qu!Addrs /\ learned[a] # None /\ now - learned[a] >= Second
      BY DEF Qu!Targets
    <2> HIDE DEF next
    <2>5. now \in -Second .. MaxNow
      BY <1>0
    <2>6. s.state \in [Qu!Addrs -> (-Second .. MaxNow) \union {None}]
      BY <2>2, <2>3, <2>5
    <2>7. ASSUME NEW a \in Qu!Addrs
          PROVE  /\ learned[a] # None => s.state[a] # None /\ s.state[a] >= learned[a]
                 /\ a \in Qu!Targets(d) => s.state[a] = now
      <3>1. learned[a] # None => learned[a] \in Int
        BY DEF QuirkTypes
      <3>2. CASE a \in Qu!Targets(d)
        <4>1. s.state[a] = now
          BY <2>2, <3>2
        <4>2. QED
          BY <1>0, <2>4, <3>1, <3>2, <4>1
      <3>3. CASE a \notin Qu!Targets(d)
        <4>1. s.state[a] = next(a)
          BY <2>2, <3>3
        <4>2. QED
          BY <2>3, <3>1, <3>3, <4>1
      <3>4. QED
        BY <3>2, <3>3
    <2>8. s.out \in Seq(FedFrames) /\ \A f \in FramesOf(s.out) : f.src \in Qu!Targets(d)
      BY <2>1, ScxGoes
    <2>9. QED
      BY <2>4, <2>6, <2>7, <2>8, Zenon DEF s
  <1>3. QED
    BY <1>1, <1>2
\* And of the quirk wmm.
LEMMA WmmPart ==
    ASSUME Tuned, QuirkTypes, NEW d, Heard(d)
    PROVE  LET w == Qu!Enabled("wmm", Qu!Wmm(d), wmm)
           IN  /\ w.state \in WmmStates /\ w.out \in Seq(FedFrames)
               /\ wmm.asked \subseteq w.state.asked
               /\ \/ /\ \E f \in FramesOf(w.out) : f.pgn = "variation"
                     /\ w.state.emitted = now /\ (wmm.emitted = None \/ now - wmm.emitted >= Second)
                  \/ /\ ~ \E f \in FramesOf(w.out) : f.pgn = "variation"
                     /\ w.state.emitted = wmm.emitted
               /\ \A f \in FramesOf(w.out) : f.pgn = "stop" => f.dst \notin wmm.asked /\ f.dst \in w.state.asked
  <1> DEFINE w == Qu!Enabled("wmm", Qu!Wmm(d), wmm)
  <1>1. CASE "wmm" \notin kinds
    <2>1. w.state = wmm /\ w.out = <<>>
      BY <1>1 DEF Qu!Enabled, Qu!Done
    <2> HIDE DEF w
    <2>2. w.state \in WmmStates /\ w.out \in Seq(FedFrames) /\ FramesOf(w.out) = {}
      BY <2>1, FewFrames DEF QuirkTypes
    <2>3. QED
      BY <2>1, <2>2, Zenon DEF w
  <1>2. CASE "wmm" \in kinds
    <2>1. w = Qu!Wmm(d)
      BY <1>2 DEF Qu!Enabled
    <2>2. now \in Int /\ wmm \in WmmStates
      BY DEF QuirkTypes, Tuned
    <2>3. /\ Qu!Wmm(d).state \in WmmStates /\ Qu!Wmm(d).out \in Seq(FedFrames)
          /\ wmm.asked \subseteq Qu!Wmm(d).state.asked
          /\ \/ /\ \E f \in FramesOf(Qu!Wmm(d).out) : f.pgn = "variation"
                /\ Qu!Wmm(d).state.emitted = now /\ (wmm.emitted = None \/ now - wmm.emitted >= Second)
             \/ /\ ~ \E f \in FramesOf(Qu!Wmm(d).out) : f.pgn = "variation"
                /\ Qu!Wmm(d).state.emitted = wmm.emitted
          /\ \A f \in FramesOf(Qu!Wmm(d).out) : f.pgn = "stop" =>
                f.dst = d.src /\ d.src \notin wmm.asked /\ d.src \in Qu!Wmm(d).state.asked
      BY <2>2, WmmGoes
    <2> HIDE DEF w
    <2>4. \A f \in FramesOf(w.out) : f.pgn = "stop" => f.dst \notin wmm.asked /\ f.dst \in w.state.asked
      BY <2>1, <2>3
    <2>5. QED
      BY <2>1, <2>3, <2>4, Zenon DEF w
  <1>3. QED
    BY <1>1, <1>2

\* And of the quirk motion.
LEMMA MotionPart ==
    ASSUME Tuned, QuirkTypes, NEW d, Heard(d)
    PROVE  LET m == Qu!Enabled("motion", Qu!Motion(d), motion)
           IN  /\ m.state \in MotionStates /\ m.out \in Seq(FedFrames)
               /\ m.state.used \subseteq motion.used \union (IF d.pgn = "claim" /\ d.what # Twin THEN {d.src} ELSE {})
               /\ motion.used \subseteq m.state.used
               /\ m.state.state = "Failed" => motion.state = "Failed" \/ Qu!Addrs \subseteq m.state.used
               /\ m.state.rate_source = IF "motion" \in kinds /\ Qu!Retellable(motion, d) /\ motion.rate_source = None
                                        THEN d.src ELSE motion.rate_source
               /\ \A f \in FramesOf(m.out) : f.pgn = "product" => f.src = m.state.address
               /\ \A f \in FramesOf(m.out) : f.pgn = "rates" =>
                    "motion" \in kinds /\ Qu!Retellable(motion, d) /\ m.state.rate_source = d.src
               /\ m.state.state = "Claimed" => \/ motion.state = "Claimed" /\ m.state.address = motion.address
                                               \/ \E f \in FramesOf(m.out) : f.pgn = "product"
  <1> DEFINE m == Qu!Enabled("motion", Qu!Motion(d), motion)
  <1>1. CASE "motion" \notin kinds
    <2>1. m.state = motion /\ m.out = <<>>
      BY <1>1 DEF Qu!Enabled, Qu!Done
    <2> HIDE DEF m
    <2>2. m.state \in MotionStates /\ m.out \in Seq(FedFrames) /\ FramesOf(m.out) = {}
      BY <2>1, FewFrames DEF QuirkTypes
    <2>3. QED
      BY <1>1, <2>1, <2>2 DEF m
  <1>2. CASE "motion" \in kinds
    <2>1. m = Qu!Motion(d)
      BY <1>2 DEF Qu!Enabled
    <2>2. now \in Int /\ motion \in MotionStates
      BY DEF QuirkTypes, Tuned
    <2> HIDE DEF m
    <2>3. /\ m.state \in MotionStates /\ m.out \in Seq(FedFrames)
          /\ m.state.used \subseteq motion.used \union (IF d.pgn = "claim" /\ d.what # Twin THEN {d.src} ELSE {})
          /\ motion.used \subseteq m.state.used
          /\ m.state.state = "Failed" => motion.state = "Failed" \/ Qu!Addrs \subseteq m.state.used
          /\ m.state.rate_source = IF Qu!Retellable(motion, d) /\ motion.rate_source = None THEN d.src
                                   ELSE motion.rate_source
          /\ \A f \in FramesOf(m.out) : f.pgn = "product" => f.src = m.state.address
          /\ \A f \in FramesOf(m.out) : f.pgn = "rates" => Qu!Retellable(motion, d) /\ m.state.rate_source = d.src
          /\ m.state.state = "Claimed" => \/ motion.state = "Claimed" /\ m.state.address = motion.address
                                          \/ \E f \in FramesOf(m.out) : f.pgn = "product"
      BY <2>1, <2>2, MotionGoes
    <2>4. QED
      BY <1>2, <2>3 DEF m
  <1>3. QED
    BY <1>1, <1>2

\* Whatever the quirks are called with, they keep their word.
LEMMA ProcessKeeps ==
    ASSUME Tuned, QuirksInv, NEW d, Heard(d), NEW rest \in Seq(FedFrames), Qu!Process(d, rest),
           UNCHANGED <<own, now>>
    PROVE  QuirksInv' /\ Qu!Throttled
  <1> DEFINE s == Qu!Enabled("scx20", Qu!Scx20(d), learned)
             w == Qu!Enabled("wmm", Qu!Wmm(d), wmm)
             m == Qu!Enabled("motion", Qu!Motion(d), motion)
             synth == s.out \o w.out \o m.out
  <1>1. /\ learned' = s.state /\ wmm' = w.state /\ motion' = m.state
        /\ fed_back' = rest \o [i \in DOMAIN synth |-> Qu!Stamp(synth[i])]
        /\ Qu!Histories(d, s.out, w.out, m.out)
    BY DEF Qu!Process
  <1>2. QuirkTypes /\ TwinInv /\ CompassInv /\ AnswersInv /\ VariationInv
    BY DEF QuirksInv
  <1>3. /\ s.out \in Seq(FedFrames)
        /\ s.state \in [Qu!Addrs -> (-Second .. MaxNow) \union {None}]
        /\ \A a \in Qu!Addrs :
             /\ learned[a] # None => s.state[a] # None /\ s.state[a] >= learned[a]
             /\ (\E f \in FramesOf(s.out) : f.src = a) =>
                  learned[a] # None /\ now - learned[a] >= Second /\ s.state[a] = now
    BY <1>2, ScxPart
  <1>4. /\ w.state \in WmmStates /\ w.out \in Seq(FedFrames)
        /\ wmm.asked \subseteq w.state.asked
        /\ \/ /\ \E f \in FramesOf(w.out) : f.pgn = "variation"
              /\ w.state.emitted = now /\ (wmm.emitted = None \/ now - wmm.emitted >= Second)
           \/ /\ ~ \E f \in FramesOf(w.out) : f.pgn = "variation"
              /\ w.state.emitted = wmm.emitted
        /\ \A f \in FramesOf(w.out) : f.pgn = "stop" => f.dst \notin wmm.asked /\ f.dst \in w.state.asked
    BY <1>2, WmmPart
  <1>5. /\ m.state \in MotionStates /\ m.out \in Seq(FedFrames)
        /\ m.state.used \subseteq motion.used \union (IF d.pgn = "claim" /\ d.what # Twin THEN {d.src} ELSE {})
        /\ motion.used \subseteq m.state.used
        /\ m.state.state = "Failed" => motion.state = "Failed" \/ Qu!Addrs \subseteq m.state.used
        /\ m.state.rate_source = IF "motion" \in kinds /\ Qu!Retellable(motion, d) /\ motion.rate_source = None
                                 THEN d.src ELSE motion.rate_source
        /\ \A f \in FramesOf(m.out) : f.pgn = "product" => f.src = m.state.address
        /\ \A f \in FramesOf(m.out) : f.pgn = "rates" =>
             "motion" \in kinds /\ Qu!Retellable(motion, d) /\ m.state.rate_source = d.src
        /\ m.state.state = "Claimed" => \/ motion.state = "Claimed" /\ m.state.address = motion.address
                                        \/ \E f \in FramesOf(m.out) : f.pgn = "product"
    BY <1>2, MotionPart
  <1>6. Second \in Nat /\ MaxNow \in Nat /\ now \in 0 .. MaxNow /\ None \notin Int
    BY <1>2 DEF Tuned, QuirkTypes
  <1> HIDE DEF s, w, m
  <1>7. fed_back' \in Seq(FedFrames)
    <2>1. synth \in Seq(FedFrames)
      BY <1>3, <1>4, <1>5, FourJoin
    <2> HIDE DEF synth
    <2>2. [i \in DOMAIN synth |-> Qu!Stamp(synth[i])] \in Seq(FedFrames)
      BY <1>2, <2>1, StampedFrames DEF QuirkTypes
    <2>3. QED
      BY <1>1, <2>2, FramesJoin
  <1> HIDE DEF synth
  \* The compasses.
  <1>8. /\ told' \in [Qu!Addrs -> (0 .. MaxNow) \union {None}]
        /\ AnswersInv'
        /\ \A a \in Qu!Addrs : told'[a] # told[a] /\ told[a] # None => told'[a] - told[a] >= Second
    <2> DEFINE answered(a) == \E i \in DOMAIN s.out : s.out[i].src = a
    <2>1. told' = [a \in Qu!Addrs |-> IF answered(a) THEN now ELSE told[a]]
      BY <1>1 DEF Qu!Histories
    <2>2. \A a : answered(a) => \E f \in FramesOf(s.out) : f.src = a
      BY DEF FramesOf
    <2> HIDE DEF answered
    <2>3. ASSUME NEW a \in Qu!Addrs
          PROVE  /\ told'[a] \in (0 .. MaxNow) \union {None}
                 /\ told'[a] # None => learned'[a] # None /\ told'[a] <= learned'[a]
                 /\ told'[a] # told[a] /\ told[a] # None => told'[a] - told[a] >= Second
      <3>1. /\ told[a] \in (0 .. MaxNow) \union {None} /\ learned[a] \in (-Second .. MaxNow) \union {None}
            /\ told[a] # None => learned[a] # None /\ told[a] <= learned[a]
            /\ learned'[a] \in (-Second .. MaxNow) \union {None}
        BY <1>1, <1>2, <1>3 DEF QuirkTypes, AnswersInv
      <3>2. learned[a] # None => learned'[a] # None /\ learned'[a] >= learned[a]
        BY <1>1, <1>3
      <3>3. CASE answered(a)
        <4>1. told'[a] = now /\ learned[a] # None /\ now - learned[a] >= Second /\ learned'[a] = now
          BY <1>1, <1>3, <2>1, <2>2, <3>3
        <4>2. learned[a] \in Int
          BY <1>6, <3>1, <4>1
        <4>3. told[a] # None => told[a] \in Int
          BY <3>1
        <4>4. QED
          BY <1>6, <3>1, <4>1, <4>2, <4>3
      <3>4. CASE ~answered(a)
        <4>1. told'[a] = told[a]
          BY <2>1, <3>4
        <4>2. told[a] # None => told[a] \in Int /\ learned[a] \in Int /\ learned'[a] \in Int
          BY <1>6, <3>1, <3>2
        <4>3. QED
          BY <3>1, <3>2, <4>1, <4>2
      <3>5. QED
        BY <3>3, <3>4
    <2>4. QED
      BY <2>1, <2>3 DEF AnswersInv
  \* The variations.
  <1>9. /\ begged' \in [Qu!Addrs -> 0 .. 1]
        /\ VariationInv'
        /\ spoken' # spoken /\ spoken # None => spoken' - spoken >= Second
    <2>1. spoken' = IF \E i \in DOMAIN w.out : w.out[i].pgn = "variation" THEN now ELSE spoken
      BY <1>1 DEF Qu!Histories
    <2>2. (\E i \in DOMAIN w.out : w.out[i].pgn = "variation") <=> \E f \in FramesOf(w.out) : f.pgn = "variation"
      BY DEF FramesOf
    <2>3. spoken = wmm.emitted
      BY <1>2 DEF VariationInv
    <2>4. /\ spoken' = wmm'.emitted
          /\ spoken' # spoken /\ spoken # None => spoken' - spoken >= Second
      BY <1>1, <1>4, <2>1, <2>2, <2>3
    <2> DEFINE stopped(a) == \E i \in DOMAIN w.out : w.out[i].pgn = "stop" /\ w.out[i].dst = a
    <2>5. begged' = [a \in Qu!Addrs |-> IF stopped(a) THEN begged[a] + 1 ELSE begged[a]]
      BY <1>1 DEF Qu!Histories
    <2>6. \A a : stopped(a) => a \notin wmm.asked /\ a \in wmm'.asked
      BY <1>1, <1>4 DEF FramesOf
    <2> HIDE DEF stopped
    <2>7. ASSUME NEW a \in Qu!Addrs
          PROVE  begged'[a] \in 0 .. 1 /\ (begged'[a] = 1 => a \in wmm'.asked)
      <3>1. begged[a] \in 0 .. 1 /\ (begged[a] = 1 => a \in wmm.asked) /\ wmm.asked \subseteq wmm'.asked
        BY <1>1, <1>2, <1>4 DEF QuirkTypes, VariationInv
      <3>2. QED
        BY <2>5, <2>6, <3>1
    <2>8. QED
      BY <2>4, <2>5, <2>7 DEF VariationInv
  \* The twin.
  <1>10. TwinInv'
    <2>1. taken' = IF d.pgn = "claim" /\ d.what # Twin THEN taken \union {d.src} ELSE taken
      BY <1>1 DEF Qu!Histories
    <2>2. motion.used \subseteq taken /\ (motion.state = "Failed" => Qu!Addrs \subseteq taken)
      BY <1>2 DEF TwinInv, Qu!GivesUpWhenFull
    <2>3. motion'.used \subseteq taken'
      BY <1>1, <1>5, <2>1, <2>2
    <2>4. motion'.state = "Failed" => Qu!Addrs \subseteq taken'
      BY <1>1, <1>5, <2>1, <2>2, <2>3
    <2>5. motion'.state = "Claimed" /\ motion'.address # 0 => announced' = motion'.address
      <3> SUFFICES ASSUME motion'.state = "Claimed", motion'.address # 0
                   PROVE  announced' = motion'.address
        OBVIOUS
      <3> DEFINE product == CHOOSE i \in DOMAIN m.out : m.out[i].pgn = "product"
      <3>1. announced' = IF \E i \in DOMAIN m.out : m.out[i].pgn = "product" THEN Qu!Stamp(m.out[product]).src ELSE announced
        BY <1>1 DEF Qu!Histories
      <3>2. CASE \E i \in DOMAIN m.out : m.out[i].pgn = "product"
        <4>1. product \in DOMAIN m.out /\ m.out[product].pgn = "product"
          BY <3>2
        <4> HIDE DEF product
        <4>2. m.out[product] \in FramesOf(m.out) /\ m.out[product] \in FedFrames
          BY <1>5, <4>1 DEF FramesOf
        <4>3. m.out[product].src = motion'.address
          BY <1>1, <1>5, <4>1, <4>2
        <4>4. motion'.address \notin {0, 255}
          BY <1>1, <1>5 DEF MotionStates, Qu!Addrs, Qu!Null
        <4>5. QED
          BY <1>2, <3>1, <3>2, <4>2, <4>3, <4>4, StampTypes DEF QuirkTypes
      <3>3. CASE ~ \E i \in DOMAIN m.out : m.out[i].pgn = "product"
        <4>1. ~ \E f \in FramesOf(m.out) : f.pgn = "product"
          BY <3>3 DEF FramesOf
        <4>2. motion.state = "Claimed" /\ motion'.address = motion.address
          BY <1>1, <1>5, <4>1
        <4>3. QED
          BY <1>2, <3>1, <3>3, <4>2 DEF TwinInv, Qu!OwnedIsAnnounced
      <3>4. QED
        BY <3>2, <3>3
    <2>6. QED
      BY <2>3, <2>4, <2>5 DEF TwinInv, Qu!GivesUpWhenFull, Qu!OwnedIsAnnounced
  \* The compass that is retold.
  <1>11. CompassInv' /\ retold' \subseteq Qu!Addrs
    <2>1. /\ earliest' = IF "motion" \in kinds /\ earliest = None /\ Qu!Retellable(motion, d) THEN d.src ELSE earliest
          /\ retold' = IF \E i \in DOMAIN m.out : m.out[i].pgn = "rates" THEN retold \union {d.src} ELSE retold
      BY <1>1 DEF Qu!Histories
    <2>2. (\E i \in DOMAIN m.out : m.out[i].pgn = "rates") =>
             "motion" \in kinds /\ Qu!Retellable(motion, d) /\ motion'.rate_source = d.src
      BY <1>1, <1>5 DEF FramesOf
    <2>3. /\ motion.rate_source = earliest /\ retold \subseteq {earliest} /\ (earliest = None => retold = {})
          /\ retold \subseteq Qu!Addrs
      BY <1>2 DEF CompassInv, QuirkTypes
    <2>4. motion'.rate_source = earliest'
      BY <1>1, <1>5, <2>1, <2>3
    <2>5. Qu!Retellable(motion, d) => d.src \in Qu!Addrs /\ d.src # None
      BY <1>6 DEF Qu!Retellable, Heard, Qu!Addrs
    <2>6. QED
      BY <2>1, <2>2, <2>3, <2>4, <2>5 DEF CompassInv
  <1>12. QuirkTypes'
    BY <1>1, <1>2, <1>3, <1>4, <1>5, <1>7, <1>8, <1>9, <1>11 DEF QuirkTypes
  <1>13. Qu!Throttled
    BY <1>8, <1>9 DEF Qu!Throttled
  <1>14. QED
    BY <1>8, <1>9, <1>10, <1>11, <1>12, <1>13 DEF QuirksInv

\* What is fed back is something the quirks can hear.
LEMMA FedIsHeard == ASSUME NEW f \in FedFrames
                    PROVE  Heard(f)
  BY DEF FedFrames, Heard

\* And so is what the bus says.
LEMMA SaidIsHeard == ASSUME NEW d \in Qu!Said
                     PROVE  Heard(d)
  <1> DEFINE claims == Qu!Claims \union Qu!Requests
             skies == {Qu!Frame("position", 1, Qu!Global, "here"), Qu!Frame("date", 1, Qu!Global, "beyond"),
                       Qu!Frame("date", 1, Qu!Global, "today")}
             variations == {Qu!Frame("variation", a, Qu!Global, w) : a \in Qu!Addrs, w \in {"older", "newer"}}
             turns == {Qu!Frame("sixdof", a, Qu!Global, w) : a \in Qu!Addrs, w \in {"furuno", "other"}}
  <1>1. \A f \in claims : Heard(f)
    BY DEF Qu!Claims, Qu!Requests, Qu!Frame, Qu!Addrs, Qu!Null, Heard
  <1>2. \A f \in skies : Heard(f)
    BY DEF Qu!Frame, Heard
  <1>3. \A f \in variations : Heard(f)
    BY DEF Qu!Frame, Qu!Addrs, Heard
  <1>4. \A f \in turns : Heard(f)
    BY DEF Qu!Frame, Qu!Addrs, Heard
  <1>5. Qu!Said = (IF kinds \intersect {"scx20", "motion"} # {} THEN claims ELSE {})
                  \union (IF "wmm" \in kinds THEN skies \union variations ELSE {})
                  \union (IF "motion" \in kinds THEN turns ELSE {})
    BY DEF Qu!Said
  <1> HIDE DEF claims, skies, variations, turns
  <1>6. QED
    BY <1>1, <1>2, <1>3, <1>4, <1>5

\* The quirks start with nothing noted.
LEMMA QuirksInit == ASSUME Tuned, Qu!Init
                    PROVE  QuirksInv
  <1>1. /\ own \in Qu!Addrs \union {None} /\ now \in 0 .. MaxNow
        /\ fed_back \in Seq(FedFrames)
    BY DEF Qu!Init, Tuned, Qu!Addrs
  <1>2. motion \in MotionStates
    BY DEF Qu!Init, MotionStates, Tuned
  <1>3. wmm \in WmmStates
    BY DEF Qu!Init, WmmStates
  <1>4. /\ learned \in [Qu!Addrs -> (-Second .. MaxNow) \union {None}]
        /\ told \in [Qu!Addrs -> (0 .. MaxNow) \union {None}]
        /\ begged \in [Qu!Addrs -> 0 .. 1]
        /\ retold \subseteq Qu!Addrs
    BY DEF Qu!Init
  <1>5. TwinInv /\ CompassInv
    BY DEF Qu!Init, TwinInv, CompassInv, Qu!OwnedIsAnnounced, Qu!GivesUpWhenFull
  <1>6. AnswersInv /\ VariationInv
    BY DEF Qu!Init, AnswersInv, VariationInv
  <1>7. QED
    BY <1>1, <1>2, <1>3, <1>4, <1>5, <1>6 DEF QuirksInv, QuirkTypes

\* A step of the quirks, or none.
LEMMA QuirksStep ==
    ASSUME Tuned, QuirksInv, [Qu!Next]_Qu!vars
    PROVE  QuirksInv' /\ Qu!Throttled
  <1>1. CASE Qu!FedBack
    <2>1. /\ fed_back \in Seq(FedFrames) /\ fed_back # <<>>
          /\ Qu!Process(Head(fed_back), Tail(fed_back)) /\ UNCHANGED <<own, now>>
      BY <1>1 DEF Qu!FedBack, QuirksInv, QuirkTypes
    <2>2. Head(fed_back) \in FedFrames /\ Tail(fed_back) \in Seq(FedFrames)
      BY <2>1
    <2>3. QED
      BY <2>1, <2>2, FedIsHeard, ProcessKeeps
  <1>2. CASE Qu!Hear
    <2>1. PICK d \in Qu!Said : Qu!Process(d, <<>>)
      BY <1>2 DEF Qu!Hear
    <2>2. UNCHANGED <<own, now>>
      BY <1>2 DEF Qu!Hear
    <2>3. <<>> \in Seq(FedFrames)
      OBVIOUS
    <2>4. QED
      BY <2>1, <2>2, <2>3, SaidIsHeard, ProcessKeeps
  <1>3. CASE Qu!Move \/ Qu!Wait \/ UNCHANGED Qu!vars
    <2>1. /\ UNCHANGED <<kinds, fed_back, learned, wmm, motion, told, spoken, begged, announced, earliest, retold, taken>>
          /\ own' \in Qu!Addrs \union {own}
          /\ now' = now \/ (now < MaxNow /\ now' = now + 1)
      BY <1>3 DEF Qu!Move, Qu!Wait, Qu!vars
    <2>2. QuirkTypes'
      <3>1. now' \in 0 .. MaxNow
        BY <2>1 DEF QuirksInv, QuirkTypes, Tuned
      <3>2. QED
        BY <2>1, <3>1 DEF QuirksInv, QuirkTypes
    <2>3. TwinInv' /\ CompassInv' /\ AnswersInv' /\ VariationInv'
      BY <2>1 DEF QuirksInv, TwinInv, CompassInv, AnswersInv, VariationInv, Qu!OwnedIsAnnounced, Qu!GivesUpWhenFull
    <2>4. Qu!Throttled
      <3>1. \A a \in Qu!Addrs : begged[a] \in 0 .. 1
        BY DEF QuirksInv, QuirkTypes
      <3>2. QED
        BY <2>1, <3>1 DEF Qu!Throttled
    <2>5. QED
      BY <2>2, <2>3, <2>4 DEF QuirksInv
  <1>4. QED
    BY <1>1, <1>2, <1>3 DEF Qu!Next

\* And the quirks are well typed.
LEMMA QuirksTyped == ASSUME Tuned, QuirksInv
                     PROVE  Qu!TypeOK
  <1>1. QuirkTypes
    BY DEF QuirksInv
  <1>2. /\ motion.state \in {"Idle", "Scanning", "Pending", "Claimed", "Failed"}
        /\ motion.address \in Qu!Addrs \union {Qu!Null} /\ motion.used \subseteq Qu!Addrs
    BY <1>1 DEF QuirkTypes, MotionStates
  <1>3. QED
    BY <1>1, <1>2 DEF QuirkTypes, Qu!TypeOK

\* The quirks of the server keep their word throughout.
LEMMA QuirksHold ==
    ASSUME Tuned
    PROVE  Spec => [](part = "quirks" => QuirksInv)
  <1>1. Init => (part = "quirks" => QuirksInv)
    BY Begins, QuirksInit
  <1>2. (part = "quirks" => QuirksInv) /\ [Next]_vars => (part = "quirks" => QuirksInv)'
    BY Steps, QuirksStep
  <1>3. QED
    BY <1>1, <1>2, PTL DEF Spec

\* However claims race its own, an address the twin owns was announced under that
\* address, the twin gives up only when others have claimed every address, and the
\* rates that are retold are those of one compass (on_claim, tick, retreat of
\* address_claim.rs, and process of motion.rs).
THEOREM ClaimsStaySound ==
    ASSUME Tuned
    PROVE  Spec => []ClaimsSound
  <1>1. (part = "quirks" => QuirksInv) => ClaimsSound
    BY DEF ClaimsSound, QuirksInv, TwinInv, CompassInv, Qu!RatesOfOneUnit
  <1>2. QED
    BY <1>1, QuirksHold, PTL

\* What a step does that changes something.
LEMMA StepsOfParts ==
    ASSUME Next
    PROVE  /\ part = "requests" => Re!Next
           /\ part = "nmea0183" => Nm!Next
           /\ part = "snapshot" => Sn!Next
           /\ part = "tui" => Tu!Next
  BY DEF Next, OvStep, ReStep, NmStep, PlStep, BrStep, SnStep, TuStep, IsStep, IkStep, QuStep,
              NgStep, MaStep

\* No step of the server starts with some of its overrides, asks a device too
\* often, passes a second record in a second, loses what is cached by looking at
\* it, keeps back a transfer that arrived whole, or speaks for a device twice in a
\* second; no repaint leaves a list
\* without the row it should have, and Enter on the timeline opens the record
\* under the cursor (load, next_due, should_drop_fast, filtered_snapshot,
\* handle_tp_dt, process of the quirks, draw, drill_into_time_selection).
THEOREM AllStepsKeepTheirWord ==
    ASSUME OvP!Distinct, Positive, NoneIsNothing, Roomy, Keyable, Listable, TpSizes, Tuned
    PROVE  Spec => StepsKeepTheirWord
  <1>1. (part = "overrides" => OvP!IInv) /\ [Next]_vars => (part = "overrides" => Ov!RestartLosesNothing)
    BY Steps, SameOverrides, OvP!NextIInv DEF Ov!RestartLosesNothing
  <1>2. (part = "requests" => RequestsInv) /\ [Next]_vars => [part = "requests" => Re!AskedRarely]_vars
    BY StepsOfParts, RequestsAreRare
  <1>3. (part = "nmea0183" => Limits) /\ [Next]_vars => [part = "nmea0183" => Nm!OncePerSecond]_vars
    BY StepsOfParts, RateIsLimited
  <1>4. (part = "isotp" => TransfersInv /\ OutSound) /\ [Next]_vars => [part = "isotp" => Is!WholeTransferEmitted]_vars
    BY TransfersEmit
  <1>5. (part = "tui" => TuiInv) /\ [Next]_vars => [part = "tui" => Tu!KeysKeepTheirWord]_vars
    BY StepsOfParts, TuiSteps
  <1>6. (part = "snapshot" => SnapInv) /\ [Next]_vars => [part = "snapshot" => Sn!LookingIsFree]_vars
    BY StepsOfParts, SnapSteps
  <1>7. (part = "quirks" => QuirksInv) /\ [Next]_vars => [part = "quirks" => Qu!Throttled]_vars
    BY Steps, QuirksStep
  <1>8. QED
    BY <1>1, <1>2, <1>3, <1>4, <1>5, <1>6, <1>7, OverridesHeld, RequestsHold, LimitsHold, TransfersHold, TuiHolds,
       SnapHolds, QuirksHold, PTL
       DEF Spec, StepsKeepTheirWord

-----------------------------------------------------------------------------
(* The streams: the proofs of Pipeline hold of the server's.               *)

PlP == INSTANCE PipelineProofs

LEMMA SamePipeline ==
    /\ Pl!Init <=> PlP!Init
    /\ Pl!Next <=> PlP!Next
    /\ UNCHANGED Pl!plVars <=> UNCHANGED PlP!plVars
    /\ Pl!StreamIntact <=> PlP!StreamIntact
    /\ Pl!EchoedOnce <=> PlP!EchoedOnce
  <1> USE DEF Pl!Ports, PlP!Ports, Pl!HEADER, PlP!HEADER, Pl!Frame, PlP!Frame, Pl!Kinds, PlP!Kinds,
              Pl!hubs, PlP!hubs, Pl!clients, PlP!clients
  <1>1. Pl!Init <=> PlP!Init
    BY DEF Pl!Init, PlP!Init
  <1>2. UNCHANGED Pl!plVars <=> UNCHANGED PlP!plVars
    BY DEF Pl!plVars, PlP!plVars
  <1>3. Pl!StreamIntact <=> PlP!StreamIntact
    BY DEF Pl!StreamIntact, PlP!StreamIntact, Pl!OnItsWay, PlP!OnItsWay, Pl!Written, PlP!Written, Pl!Due, PlP!Due
  <1>4. Pl!EchoedOnce <=> PlP!EchoedOnce
    BY DEF Pl!EchoedOnce, PlP!EchoedOnce, Pl!ComingBack, PlP!ComingBack, Pl!Ids, PlP!Ids
  <1>5. Pl!Loop <=> PlP!Loop
    BY DEF Pl!Loop, PlP!Loop, Pl!HandleSynth, PlP!HandleSynth, Pl!HandleFrame, PlP!HandleFrame,
           Pl!Timeout, PlP!Timeout, Pl!Return, PlP!Return, Pl!FlushDue, PlP!FlushDue, Pl!Broadcast, PlP!Broadcast,
           Pl!Handle, PlP!Handle, Pl!Out, PlP!Out, Pl!Pushed, PlP!Pushed, Pl!HasSubscribers, PlP!HasSubscribers,
           Pl!Locks, PlP!Locks, Pl!Incomplete, PlP!Incomplete, Pl!Synthesised, PlP!Synthesised
  <1>6. Pl!Next <=> PlP!Next
    BY <1>5 DEF Pl!Next, PlP!Next, Pl!Tick, PlP!Tick, Pl!Close, PlP!Close, Pl!Header, PlP!Header,
           Pl!ForwardPlainLine, PlP!ForwardPlainLine, Pl!Receive, PlP!Receive, Pl!Client, PlP!Client,
           Pl!Subscribe, PlP!Subscribe, Pl!InHub, PlP!InHub, Pl!Greet, PlP!Greet, Pl!Write, PlP!Write,
           Pl!Taken, PlP!Taken, Pl!Leave, PlP!Leave
  <1>7. QED
    BY <1>1, <1>2, <1>3, <1>4, <1>6

\* No client of any port misses, repeats or reorders a line, whenever it comes, and
\* what the server puts on the bus comes back into its streams once (push, flush,
\* broadcast, run_stream_client, forward_plain_line).
THEOREM StreamsStayWhole ==
    ASSUME PlP!RawIsPort
    PROVE  Spec => []StreamsWhole
  <1>1. Init => (part = "pipeline" => PlP!IInv)
    BY Begins, SamePipeline, PlP!InitIInv
  <1>2. (part = "pipeline" => PlP!IInv) /\ [Next]_vars => (part = "pipeline" => PlP!IInv)'
    BY Steps, SamePipeline, PlP!NextIInv
  <1>3. (part = "pipeline" => PlP!IInv) => StreamsWhole
    BY SamePipeline, PlP!StreamsAreIntact, PlP!EchoesComeOnce DEF StreamsWhole
  <1>4. QED
    BY <1>1, <1>2, <1>3, PTL DEF Spec

-----------------------------------------------------------------------------
(* The decoders of the gateways.                                            *)

\* The framing of the server is sound throughout.
LEMMA FramerHolds ==
    ASSUME Sendable
    PROVE  Spec => [](part = "ngt1" => FramerInv)
  <1>1. Init => (part = "ngt1" => FramerInv)
    BY Begins, FramerInit
  <1>2. (part = "ngt1" => FramerInv) /\ [Next]_vars => (part = "ngt1" => FramerInv)'
    BY Steps, FramerStep
  <1>3. QED
    BY <1>1, <1>2, PTL DEF Spec

\* Whatever bytes the messages and the log's records are made of, the framing's own
\* among them, what the framer makes of undamaged bytes is what was framed, command,
\* payload and order (build_ngt1_message and build_ebl_record of actisense.rs,
\* push_byte and finalize_message of frame_decoder.rs).
THEOREM FramesStayWhole ==
    ASSUME Sendable
    PROVE  Spec => []FramesComeBack
  <1>1. (part = "ngt1" => FramerInv) => FramesComeBack
    BY RoundTrip DEF FramesComeBack
  <1>2. QED
    BY <1>1, FramerHolds, PTL

\* The session of the server is in step throughout.
LEMMA SessionsHold ==
    ASSUME Sayable
    PROVE  Spec => [](part = "maretron" => SessionInv)
  <1>1. Init => (part = "maretron" => SessionInv)
    BY Begins, SessionInit
  <1>2. (part = "maretron" => SessionInv) /\ [Next]_vars => (part = "maretron" => SessionInv)'
    BY Steps, SessionStep
  <1>3. QED
    BY <1>1, <1>2, PTL DEF Spec

\* However the bytes are cut into reads and whatever stands in the frames and texts:
\* the frames handed on are the first of those sent, with the PGN and destination
\* of each and its payload up to 223 bytes, all of them when every byte was read,
\* and binary mode is asked for once for each CONNECTED (parse and to_raw of
\* maretron_ipg.rs, decode and handle_text of maretron.rs).
THEOREM SessionsStayInFull ==
    ASSUME Sayable
    PROVE  Spec => []SessionsInFull
  <1>1. (part = "maretron" => SessionInv) => SessionsInFull
    BY SessionSays DEF SessionsInFull
  <1>2. QED
    BY <1>1, SessionsHold, PTL

-----------------------------------------------------------------------------
(* The types.  The invariants above say more of most parts; three need a    *)
(* conjunct that no other proof did.                                       *)

Batching == BatchLines \in Nat \ {0} /\ BatchAge \in Nat /\ MaxLate \in Nat

LEMMA SameOnes == \A S : Ov!Cardinality(S) = Cardinality(S)
  BY DEF Ov!Cardinality, Cardinality

\* A control client has one request in hand at most.
OneInHand == \A t \in Clients : \A f, g \in held[t] : f = g

LEMMA HandsHold ==
    ASSUME OvP!Distinct
    PROVE  Spec => [](part = "overrides" => OneInHand)
  <1>1. Ov!Init => OneInHand
    BY DEF Ov!Init, OneInHand, Ov!Threads
  <1>2. ASSUME OvP!IInv, OneInHand, [Ov!Next]_Ov!vars
        PROVE  OneInHand'
    <2>1. held \in [Ov!Threads -> SUBSET OvP!Requests] /\ Clients \subseteq Ov!Threads /\ Pipe \notin Clients
      BY <1>2 DEF OvP!IInv, OvP!Typed, OvP!Threads, Ov!Threads, OvP!Distinct
    <2>2. CASE held' = held
      BY <1>2, <2>2 DEF OneInHand
    <2>3. CASE Ov!NoteClaim
      <3>1. PICK fs : held' = [held EXCEPT ![Pipe] = fs]
        BY <2>3 DEF Ov!NoteClaim, Ov!Made
      <3>2. QED
        BY <1>2, <2>1, <3>1 DEF OneInHand
    <2>4. ASSUME NEW c \in Clients, NEW s \in Srcs, NEW p \in Pgns, NEW v \in Intervals, Ov!ApplySet(c, s, p, v)
          PROVE  OneInHand'
      <3>1. PICK r : held' = [held EXCEPT ![c] = {r}]
        BY <2>4 DEF Ov!ApplySet, Ov!Made
      <3>2. QED
        BY <1>2, <2>1, <3>1 DEF OneInHand
    <2>5. ASSUME NEW t \in Ov!Threads, Ov!SendFrame(t)
          PROVE  OneInHand'
      <3>1. PICK f \in held[t] : held' = [held EXCEPT ![t] = @ \ {f}]
        BY <2>5 DEF Ov!SendFrame
      <3>2. QED
        BY <1>2, <2>1, <3>1 DEF OneInHand
    <2>6. CASE Ov!Start
      BY <2>1, <2>6 DEF Ov!Start, OneInHand
    <2>7. CASE UNCHANGED Ov!vars
      BY <2>2, <2>7 DEF Ov!vars, Ov!air
    <2>8. QED
      BY <1>2, <2>2, <2>3, <2>4, <2>5, <2>6, <2>7 DEF Ov!Next, Ov!NoteNak, Ov!Unheard, Ov!Crash, Ov!Deliver,
         Ov!ApplyDelete, Ov!Claim, Ov!air
  <1>3. Init => (part = "overrides" => OneInHand)
    BY <1>1, Begins
  <1>4. (part = "overrides" => OvP!IInv) /\ (part = "overrides" => OneInHand) /\ [Next]_vars
        => (part = "overrides" => OneInHand)'
    BY <1>2, Steps
  <1>5. QED
    BY <1>3, <1>4, OverridesHeld, PTL DEF Spec

LEMMA OverridesTyped ==
    ASSUME OvP!IInv, OneInHand
    PROVE  Ov!TypeOK
  <1>1. \A t \in Clients : Ov!Cardinality(held[t]) <= 1
    <2> SUFFICES ASSUME NEW t \in Clients
                 PROVE  Cardinality(held[t]) <= 1
      BY SameOnes
    <2>1. held[t] = {} \/ \E f : held[t] = {f}
      BY DEF OneInHand
    <2>2. Cardinality({}) = 0 /\ \A f : Cardinality({f}) = 1
      BY FS_EmptySet, FS_Singleton
    <2>3. Cardinality(held[t]) = 0 \/ Cardinality(held[t]) = 1
      BY <2>1, <2>2, Zenon
    <2>4. QED
      BY <2>3
  <1>2. QED
    BY <1>1 DEF Ov!TypeOK, OvP!IInv, OvP!Typed, OvP!Rules

\* The course and speed a position quotes, and how old they are.
SpeedTyped == sog_cog \in [src : Srcs \union {None}, age : 0 .. Second]

LEMMA SpeedHolds ==
    ASSUME NoneIsNothing, Roomy
    PROVE  Spec => [](part = "nmea0183" => SpeedTyped)
  <1>1. Nm!Init => SpeedTyped
    BY DEF Nm!Init, SpeedTyped, NoneIsNothing
  <1>2. ASSUME Limits, SpeedTyped, [Nm!Next]_Nm!nVars
        PROVE  SpeedTyped'
    <2>1. CASE UNCHANGED sog_cog
      BY <1>2, <2>1 DEF SpeedTyped
    <2>2. ASSUME NEW n \in Names, NEW r \in Records, Nm!Record(n, r)
          PROVE  SpeedTyped'
      <3>1. sog_cog' = sog_cog \/ sog_cog' = [src |-> addr[n], age |-> 0]
        BY <2>2 DEF Nm!Record
      <3>2. addr[n] \in Srcs /\ 0 \in 0 .. Second
        BY <1>2 DEF Limits, NoneIsNothing
      <3>3. QED
        BY <1>2, <3>1, <3>2 DEF SpeedTyped
    <2>3. CASE Nm!Tick
      <3>1. sog_cog' = [sog_cog EXCEPT !.age = IF sog_cog.age < Second THEN sog_cog.age + 1 ELSE sog_cog.age]
        BY <2>3 DEF Nm!Tick
      <3>2. (IF sog_cog.age < Second THEN sog_cog.age + 1 ELSE sog_cog.age) \in 0 .. Second
        BY <1>2 DEF SpeedTyped, NoneIsNothing
      <3>3. QED
        BY <1>2, <3>1, <3>2 DEF SpeedTyped
    <2>4. CASE Nm!Restart
      BY <2>4 DEF Nm!Restart, SpeedTyped, NoneIsNothing
    <2>5. QED
      BY <1>2, <2>1, <2>2, <2>3, <2>4 DEF Nm!Next, Nm!NoteClaim, Nm!Move, Nm!Set, Nm!nVars, Nm!limiter
  <1>3. Init => (part = "nmea0183" => SpeedTyped)
    BY <1>1, Begins
  <1>4. (part = "nmea0183" => Limits) /\ (part = "nmea0183" => SpeedTyped) /\ [Next]_vars
        => (part = "nmea0183" => SpeedTyped)'
    BY <1>2, Steps
  <1>5. QED
    BY <1>3, <1>4, LimitsHold, PTL DEF Spec

LEMMA FilterTyped ==
    ASSUME FilterInv, Limits, SpeedTyped
    PROVE  Nm!TypeOK
  BY DEF Nm!TypeOK, FilterInv, Learned, RulesTyped, FileIsSaved, IsRules, Deaf, Rule, Limits, SpeedTyped

\* A batch is smaller than what would have been written, and no older than the
\* loop can be late.
BatchInv ==
    /\ half \in BOOLEAN /\ closed \in BOOLEAN /\ done \in BOOLEAN
    /\ \A p \in Pl!Ports : Len(pending[p]) < BatchLines /\ oldest[p] \in 0 .. BatchAge + MaxLate
    /\ \A i \in 1 .. Len(frames) : frames[i].kind \in Pl!Kinds

SmallBatches(b, o) == \A p \in Pl!Ports : Len(b[p]) < BatchLines /\ o[p] \in 0 .. BatchAge + MaxLate

LEMMA OutIsSmall ==
    ASSUME Batching, SmallBatches(pending, oldest), pending \in [Pl!Ports -> Seq(Nat)],
           NEW ps, NEW line \in Nat, NEW due, Pl!Out(ps, line, due)
    PROVE  SmallBatches(pending', oldest')
  <1> SUFFICES ASSUME NEW p \in Pl!Ports
               PROVE  Len(pending'[p]) < BatchLines /\ oldest'[p] \in 0 .. BatchAge + MaxLate
    BY DEF SmallBatches
  <1>1. oldest'[p] = 0 \/ oldest'[p] = oldest[p]
    BY DEF Pl!Out
  <1>2. oldest'[p] \in 0 .. BatchAge + MaxLate
    BY <1>1 DEF SmallBatches, Batching
  <1>3. CASE pending'[p] = <<>> \/ pending'[p] = pending[p]
    <2>1. Len(<<>>) = 0 /\ 0 < BatchLines /\ Len(pending[p]) < BatchLines
      BY DEF SmallBatches, Batching
    <2>2. QED
      BY <1>2, <1>3, <2>1
  <1>4. CASE pending'[p] # <<>> /\ pending'[p] # pending[p]
    <2>1. pending'[p] = Append(pending[p], line) /\ ~(Len(Append(pending[p], line)) >= BatchLines)
      BY <1>4 DEF Pl!Out, Pl!Pushed
    <2>2. Len(Append(pending[p], line)) \in Nat
      <3>1. pending[p] \in Seq(Nat)
        OBVIOUS
      <3>2. QED
        BY <3>1
    <2>3. QED
      BY <1>2, <2>1, <2>2 DEF Batching
  <1>5. QED
    BY <1>2, <1>3, <1>4

LEMMA HandleIsSmall ==
    ASSUME Batching, SmallBatches(pending, oldest), pending \in [Pl!Ports -> Seq(Nat)], half \in BOOLEAN,
           NEW f \in PlP!FrameType, Pl!Handle(f)
    PROVE  SmallBatches(pending', oldest') /\ half' \in BOOLEAN
  <1>1. f.id \in Nat
    BY DEF PlP!FrameType
  <1>2. half' \in BOOLEAN
    BY DEF Pl!Handle
  <1>3. CASE Pl!Incomplete(f)
    BY <1>2, <1>3 DEF Pl!Handle, Pl!hubs
  <1>4. CASE ~Pl!Incomplete(f)
    <2>1. Pl!Out({RawPort}, f.id, FALSE) \/ Pl!Out(Pl!Ports, f.id, TRUE)
      BY <1>4 DEF Pl!Handle
    <2>2. QED
      BY <1>1, <1>2, <2>1, OutIsSmall
  <1>5. QED
    BY <1>3, <1>4

LEMMA BatchesStaySmall ==
    ASSUME Batching, PlP!Typed, BatchInv, [Pl!Next]_Pl!plVars
    PROVE  BatchInv'
  <1>1. /\ pending \in [Pl!Ports -> Seq(Nat)] /\ SmallBatches(pending, oldest)
        /\ frames \in Seq(PlP!FrameType) /\ pending_synth \in Seq(PlP!FrameType)
    BY DEF PlP!Typed, PlP!HubsTyped, PlP!Ports, Pl!Ports, BatchInv, SmallBatches
  <1> DEFINE Kept == frames' = frames /\ closed' = closed /\ done' = done
             Still == half' = half /\ pending' = pending /\ oldest' = oldest
             Known == \A i \in 1 .. Len(frames') : frames'[i].kind \in Pl!Kinds
  <1>2. /\ Known /\ half' \in BOOLEAN /\ closed' \in BOOLEAN /\ done' \in BOOLEAN /\ SmallBatches(pending', oldest')
        => BatchInv'
    BY DEF BatchInv, SmallBatches, Pl!Ports
  <1>3. Kept => Known /\ closed' \in BOOLEAN /\ done' \in BOOLEAN
    BY DEF BatchInv
  <1>4. Still => half' \in BOOLEAN /\ SmallBatches(pending', oldest')
    BY <1>1 DEF BatchInv
  <1>5. CASE Kept /\ Still
    BY <1>2, <1>3, <1>4, <1>5
  <1>6. ASSUME NEW k \in Pl!Kinds, NEW n, frames' = Append(frames, Pl!Frame(n, k))
        PROVE  Known
    <2>1. Pl!Frame(n, k).kind \in Pl!Kinds
      BY DEF Pl!Frame
    <2>2. /\ Len(frames) \in Nat /\ Len(frames') = Len(frames) + 1 /\ frames'[Len(frames) + 1] = Pl!Frame(n, k)
          /\ \A i \in 1 .. Len(frames) : frames'[i] = frames[i]
      BY <1>1, <1>6
    <2>3. QED
      BY <2>1, <2>2 DEF BatchInv
  <1>7. ASSUME Pl!HandleSynth
        PROVE  BatchInv'
    <2>1. Head(pending_synth) \in PlP!FrameType /\ Pl!Handle(Head(pending_synth)) /\ Kept
      BY <1>1, <1>7 DEF Pl!HandleSynth
    <2>2. half' \in BOOLEAN /\ SmallBatches(pending', oldest')
      BY <1>1, <2>1, HandleIsSmall DEF BatchInv
    <2>3. QED
      BY <1>2, <1>3, <2>1, <2>2
  <1>8. ASSUME Pl!HandleFrame
        PROVE  BatchInv'
    <2>1. Head(frames) \in PlP!FrameType /\ Pl!Handle(Head(frames)) /\ frames' = Tail(frames) /\ frames # <<>>
      BY <1>1, <1>8 DEF Pl!HandleFrame
    <2>2. half' \in BOOLEAN /\ SmallBatches(pending', oldest')
      BY <1>1, <2>1, HandleIsSmall DEF BatchInv
    <2>3. Known
      BY <1>1, <2>1 DEF BatchInv
    <2>4. closed' = closed /\ done' = done
      BY <1>8 DEF Pl!HandleFrame
    <2>5. QED
      BY <1>2, <2>2, <2>3, <2>4 DEF BatchInv
  <1>9. ASSUME Pl!Timeout \/ Pl!Return
        PROVE  BatchInv'
    <2>1. Known /\ half' \in BOOLEAN /\ closed' \in BOOLEAN /\ done' \in BOOLEAN
      BY <1>9, Zenon DEF Pl!Timeout, Pl!Return, BatchInv
    <2>2. oldest' = oldest /\ \A p \in Pl!Ports : pending'[p] = pending[p] \/ pending'[p] = <<>>
      BY <1>9 DEF Pl!Timeout, Pl!Return, Pl!FlushDue
    <2>3. SmallBatches(pending', oldest')
      BY <1>1, <2>2 DEF SmallBatches, Batching
    <2>4. QED
      BY <1>2, <2>1, <2>3
  <1>10. ASSUME Pl!Tick
         PROVE  BatchInv'
    <2>1. /\ pending' = pending /\ half' = half /\ Kept
          /\ oldest' = [p \in Pl!Ports |-> IF pending[p] # <<>> /\ oldest[p] < BatchAge + MaxLate
                                           THEN oldest[p] + 1 ELSE oldest[p]]
      BY <1>10 DEF Pl!Tick
    <2>2. ASSUME NEW p \in Pl!Ports
          PROVE  oldest'[p] \in 0 .. BatchAge + MaxLate
      <3>1. oldest[p] \in 0 .. BatchAge + MaxLate /\ BatchAge + MaxLate \in Nat
        BY <1>1 DEF SmallBatches, Batching
      <3>2. oldest'[p] = oldest[p] \/ (oldest[p] < BatchAge + MaxLate /\ oldest'[p] = oldest[p] + 1)
        BY <2>1
      <3>3. QED
        BY <3>1, <3>2
    <2>3. SmallBatches(pending', oldest')
      BY <1>1, <2>1, <2>2 DEF SmallBatches
    <2>4. QED
      BY <1>2, <1>3, <2>1, <2>3 DEF BatchInv
  <1>11. ASSUME NEW k \in Pl!Kinds, Pl!Receive(k)
         PROVE  BatchInv'
    BY <1>2, <1>4, <1>6, <1>11 DEF Pl!Receive, Pl!hubs, BatchInv
  <1>12. ASSUME Pl!ForwardPlainLine
         PROVE  BatchInv'
    <2>1. "whole" \in Pl!Kinds
      BY DEF Pl!Kinds
    <2>2. QED
      BY <1>2, <1>4, <1>6, <1>12, <2>1 DEF Pl!ForwardPlainLine, Pl!hubs, BatchInv
  <1>13. ASSUME Pl!Close
         PROVE  BatchInv'
    BY <1>2, <1>4, <1>13 DEF Pl!Close, Pl!hubs, BatchInv
  <1>14. ASSUME Pl!Header
         PROVE  BatchInv'
    BY <1>5, <1>14 DEF Pl!Header, Pl!hubs
  <1>15. ASSUME NEW c \in PipeClients, Pl!Client(c) \/ Pl!Subscribe(c) \/ Pl!Leave(c)
         PROVE  BatchInv'
    BY <1>5, <1>15 DEF Pl!Client, Pl!Greet, Pl!Write, Pl!Subscribe, Pl!Leave, Pl!hubs
  <1>16. CASE UNCHANGED Pl!plVars
    BY <1>5, <1>16 DEF Pl!plVars, Pl!hubs
  <1>17. QED
    BY <1>7, <1>8, <1>9, <1>10, <1>11, <1>12, <1>13, <1>14, <1>15, <1>16 DEF Pl!Next, Pl!Loop

LEMMA BatchesHold ==
    ASSUME PlP!RawIsPort, Batching
    PROVE  Spec => [](part = "pipeline" => PlP!IInv /\ BatchInv)
  <1>1. ASSUME Pl!Init
        PROVE  BatchInv
    <2>1. half \in BOOLEAN /\ closed \in BOOLEAN /\ done \in BOOLEAN
      BY <1>1, Zenon DEF Pl!Init
    <2>2. Len(<<>>) = 0 /\ 0 < BatchLines /\ 0 \in 0 .. BatchAge + MaxLate
      BY DEF Batching
    <2>3. \A p \in Pl!Ports : pending[p] = <<>> /\ oldest[p] = 0
      BY <1>1 DEF Pl!Init
    <2>4. 1 .. Len(frames) = {}
      BY <1>1 DEF Pl!Init
    <2>5. QED
      BY <2>1, <2>2, <2>3, <2>4 DEF BatchInv
  <1>2. Init => (part = "pipeline" => PlP!IInv /\ BatchInv)
    BY <1>1, Begins, SamePipeline, PlP!InitIInv
  <1>3. (part = "pipeline" => PlP!IInv /\ BatchInv) /\ [Next]_vars => (part = "pipeline" => PlP!IInv /\ BatchInv)'
    BY Steps, SamePipeline, PlP!NextIInv, BatchesStaySmall DEF PlP!IInv
  <1>4. QED
    BY <1>2, <1>3, PTL DEF Spec

LEMMA StreamsTyped ==
    ASSUME PlP!IInv, BatchInv
    PROVE  Pl!TypeOK
  BY DEF Pl!TypeOK, PlP!IInv, PlP!Typed, PlP!EchoSound, PlP!Phases, BatchInv

\* Every part of the server stays well typed: no batch grows beyond its bound or
\* older than the loop can be late, no client holds two requests, no table, session,
\* screen or queue anything its code has no case for.
THEOREM ServerTypes ==
    ASSUME OvP!Distinct, Positive, NoneIsNothing, Roomy, PlP!RawIsPort, Batching, Keyable, Listable, TpSizes,
           Configs \subseteq Ik!Config, Tuned, Sendable, Sayable
    PROVE  Spec => []TypeOK
  <1> DEFINE Serving == /\ (part = "overrides" => OvP!IInv) /\ (part = "overrides" => OneInHand)
                      /\ (part = "requests" => RequestsInv)
                      /\ (part = "nmea0183" => FilterInv) /\ (part = "nmea0183" => Limits)
                      /\ (part = "nmea0183" => SpeedTyped)
             Streaming == /\ (part = "pipeline" => PlP!IInv /\ BatchInv)
                        /\ (part = "bridge" => BridgeInv)
                        /\ (part = "snapshot" => SnapInv)
                        /\ (part = "tui" => TuiInv)
                        /\ (part = "isotp" => TransfersInv /\ OutSound)
                        /\ (part = "ikonvert" => HandshakeInv)
                        /\ (part = "quirks" => QuirksInv)
             Decoding == /\ (part = "ngt1" => FramerInv)
                        /\ (part = "maretron" => SessionInv)
  <1>1. Serving /\ Streaming /\ Decoding => TypeOK
    BY RoundTrip, SessionSays, OverridesTyped, FilterTyped, StreamsTyped, DumpsAreTrue, InvShowsTheTruth, TransfersSay, QuirksTyped
       DEF TypeOK, RequestsInv, BridgeInv, HandshakeInv
  <1>2. Spec => []Serving
    BY OverridesHeld, HandsHold, RequestsHold, FilterHolds, LimitsHold, SpeedHolds, PTL
  <1>3. Spec => []Streaming
    BY BatchesHold, BridgeHolds, SnapHolds, TuiHolds, TransfersHold, HandshakesHold, QuirksHold, PTL
  <1>4. Spec => []Decoding
    BY FramerHolds, SessionsHold, PTL
  <1> HIDE DEF Serving, Streaming, Decoding
  <1>5. QED
    BY <1>1, <1>2, <1>3, <1>4, PTL
=============================================================================
