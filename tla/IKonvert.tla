------------------------------ MODULE IKonvert ------------------------------
(***************************************************************************)
(* The iKonvert handshake: the Decoder of                                  *)
(* canboat-io/src/device/ikonvert.rs against the device on the other end   *)
(* of a serial line.                                                       *)
(*                                                                         *)
(* Every command but the last is answered, N2NET_OFFLINE with a TEXT       *)
(* banner and the others with an ACK, and only the answer makes the host   *)
(* write the next one.  The device also sends heartbeats, and reboots by   *)
(* itself, which shows as another banner.  It ignores what arrives while   *)
(* it is busy with a command, and keeps its filter lists over a reboot.    *)
(***************************************************************************)
EXTENDS Naturals, Sequences

CONSTANTS
    Configs,     \* the configurations of the behaviours, see Config
    MaxReboots,  \* bound on the device's reboots
    MaxBeats,    \* bound on its heartbeats
    MaxLost      \* bound on lines lost and commands refused

\* Which of the optional commands the user asked for, and whether the host
\* takes the device as it is, as for the replay of a file.
Config == [rx_list : BOOLEAN, tx_list : BOOLEAN, rate_limit_off : BOOLEAN, skip_init : BOOLEAN]

VARIABLES
    config, init_state,
    to_device,    \* commands on their way
    from_device,  \* lines on their way
    busy,         \* the command the device is busy with, or "none"
    device,       \* its mode, filters stored, rate limit
    resets,       \* how many RESETs the host has sent
    reboots, beats, spoiled,
    excuse        \* something happened that the handshake need not survive

host     == <<config, init_state, resets>>
line     == <<to_device, from_device>>
gadget   == <<busy, device>>
counters == <<reboots, beats, spoiled, excuse>>
vars     == <<host, line, gadget, counters>>

\* The odd states, in which an answer is awaited, and the end.
Done       == 0
WaitInit   == 3
WaitTxList == 7
WaitRxList == 9
WaitReset  == 11
WaitOffline == 13

Mode == IF config.rx_list THEN "normal" ELSE "all"

-----------------------------------------------------------------------------
(* The host.                                                               *)

\* next_init_command, one definition for each even state it may start from:
\* the state to wait in, and what to write.
SendReset == [state |-> WaitReset, commands |-> <<"reset">>]
\* Mutant: the last step leaves the state machine in an even state.
LimitOffStays == [state |-> 2, commands |-> IF config.rate_limit_off THEN <<"limit_off">> ELSE <<>>]
LimitOff == [state |-> Done, commands |-> IF config.rate_limit_off THEN <<"limit_off">> ELSE <<>>]
SendInit == [state |-> WaitInit, commands |-> <<IF config.rx_list THEN "init_normal" ELSE "init_all">>]
MaybeTxList == IF config.tx_list THEN [state |-> WaitTxList, commands |-> <<"tx_list">>]
                                 ELSE SendInit
\* Mutant: the transmit list is forgotten when there is no receive list.
MaybeRxListOnly == IF config.rx_list THEN [state |-> WaitRxList, commands |-> <<"rx_list">>]
                                     ELSE SendInit
MaybeRxList == IF config.rx_list THEN [state |-> WaitRxList, commands |-> <<"rx_list">>]
                                 ELSE MaybeTxList

Advance(step) ==
    /\ init_state' = step.state
    /\ to_device' = to_device \o step.commands
    /\ resets' = IF "reset" = Head(Append(step.commands, "")) THEN resets + 1 ELSE resets

Stay == UNCHANGED <<init_state, to_device, resets>>

\* Mutant: a banner after the handshake is passed over.
RestartsWhileWaiting == init_state = WaitOffline

\* advance_after_text: whether a banner (re)starts the handshake.  The comment on
\* it (:229) has one in mid-handshake "a soft reset too"; the code logs it.
Restarts == init_state \in {WaitOffline, Done}

\* advance_after_text.
OnText == IF Restarts THEN Advance(SendReset) ELSE Stay

\* An ACK means something in the odd states but the first.
AckCounts == init_state \notin {Done, WaitOffline}

\* advance_after_ack.
OnAck ==
    IF ~AckCounts THEN Stay ELSE
    Advance(CASE init_state = WaitReset  -> MaybeRxList
              [] init_state = WaitRxList -> MaybeTxList
              [] init_state = WaitTxList -> SendInit
              [] init_state = WaitInit   -> LimitOff
              [] OTHER -> SendReset)

\* Mutant: OFFLINE is sent again whatever answer is awaited.
OnStatusAlways ==
    /\ to_device' = IF init_state # Done THEN Append(to_device, "offline") ELSE to_device
    /\ UNCHANGED <<init_state, resets>>

\* maybe_resend_offline: a line that is no answer, while one is awaited.
OnStatus ==
    /\ to_device' = IF init_state = WaitOffline THEN Append(to_device, "offline") ELSE to_device
    /\ UNCHANGED <<init_state, resets>>

\* decode, handle_control: the next line.  A banner that is spliced onto a
\* broken frame is found in it; frames do not matter to the handshake.
HostReads ==
    /\ from_device # <<>>
    /\ from_device' = Tail(from_device)
    /\ CASE Head(from_device) = "text"   -> OnText
         [] Head(from_device) = "ack"    -> OnAck
         [] Head(from_device) = "nak"    -> Stay
         [] Head(from_device) = "status" -> OnStatus
    /\ excuse' = (excuse \/ (Head(from_device) = "status" /\ init_state = WaitOffline))
    /\ UNCHANGED <<config, gadget, reboots, beats, spoiled>>

-----------------------------------------------------------------------------
(* The device and the line.                                                *)

\* Decoder::new, and init_bytes of the encoder.
Init ==
    /\ config \in Configs
    /\ init_state = IF config.skip_init THEN Done ELSE WaitOffline
    /\ resets = 0
    /\ to_device = IF config.skip_init THEN <<>> ELSE <<"offline">>
    /\ from_device = <<>>
    /\ busy = "none"
    /\ device \in [mode : {"offline", "all", "normal"}, rx_list : BOOLEAN, tx_list : BOOLEAN]
    /\ reboots = 0 /\ beats = 0 /\ spoiled = 0
    /\ excuse = FALSE

\* A command reaches the device, which ignores it when it is busy.
Deliver ==
    /\ to_device # <<>>
    /\ to_device' = Tail(to_device)
    /\ busy' = IF busy = "none" THEN Head(to_device) ELSE busy
    /\ UNCHANGED <<host, from_device, device, counters>>

\* The device has carried out a command and answers.
Answer ==
    /\ busy # "none"
    /\ busy' = "none"
    /\ device' = CASE busy = "offline"     -> [device EXCEPT !.mode = "offline"]
                   [] busy = "reset"       -> [device EXCEPT !.rx_list = FALSE, !.tx_list = FALSE]
                   [] busy = "rx_list"     -> [device EXCEPT !.rx_list = TRUE]
                   [] busy = "tx_list"     -> [device EXCEPT !.tx_list = TRUE]
                   [] busy = "init_all"    -> [device EXCEPT !.mode = "all"]
                   [] busy = "init_normal" -> [device EXCEPT !.mode = "normal"]
                   [] busy = "limit_off"   -> device
    /\ from_device' = CASE busy = "offline"   -> Append(from_device, "text")
                        [] busy = "limit_off" -> from_device
                        [] OTHER              -> Append(from_device, "ack")
    /\ UNCHANGED <<host, to_device, counters>>

\* It refuses a command.
Refuse ==
    /\ spoiled < MaxLost
    /\ busy # "none"
    /\ busy' = "none"
    /\ from_device' = Append(from_device, "nak")
    /\ spoiled' = spoiled + 1
    /\ excuse' = TRUE
    /\ UNCHANGED <<host, to_device, device, reboots, beats>>

Heartbeat ==
    /\ beats < MaxBeats
    /\ beats' = beats + 1
    /\ from_device' = Append(from_device, "status")
    /\ UNCHANGED <<host, to_device, gadget, reboots, spoiled, excuse>>

\* It reboots.  The handshake survives that only when it is over, down to its
\* last command, and the banner of the reboot before was read.
Reboot ==
    /\ reboots < MaxReboots
    /\ reboots' = reboots + 1
    /\ busy' = "none"
    /\ device' = [device EXCEPT !.mode = "offline"]
    /\ from_device' = Append(from_device, "text")
    /\ excuse' = (excuse \/ init_state # Done \/ to_device # <<>>
                     \/ "text" \in {from_device[i] : i \in DOMAIN from_device})
    /\ UNCHANGED <<host, to_device, beats, spoiled>>

\* The line garbles a line of either direction.
LoseLine ==
    /\ spoiled < MaxLost
    /\ spoiled' = spoiled + 1
    /\ excuse' = TRUE
    /\ \/ from_device # <<>> /\ Head(from_device) # "text"
          /\ from_device' = Tail(from_device) /\ UNCHANGED to_device
       \/ to_device # <<>> /\ to_device' = Tail(to_device) /\ UNCHANGED from_device
    /\ UNCHANGED <<host, gadget, reboots, beats>>

Next == HostReads \/ Deliver \/ Answer \/ Refuse \/ Heartbeat \/ Reboot \/ LoseLine

\* The reader thread reads on, the line carries on, the device answers.
Fairness == WF_vars(HostReads) /\ WF_vars(Deliver) /\ WF_vars(Answer)

Spec == Init /\ [][Next]_vars /\ Fairness

-----------------------------------------------------------------------------
(* Properties.                                                             *)

Line == {"text", "ack", "nak", "status"}
Command == {"offline", "reset", "rx_list", "tx_list", "init_all", "init_normal", "limit_off"}

TypeOK ==
    /\ config \in Configs
    /\ init_state \in {Done, WaitInit, WaitTxList, WaitRxList, WaitReset, WaitOffline}
    /\ to_device \in Seq(Command) /\ from_device \in Seq(Line)
    /\ busy \in Command \cup {"none"}
    /\ device \in [mode : {"offline", "all", "normal"}, rx_list : BOOLEAN, tx_list : BOOLEAN]
    /\ resets \in Nat /\ excuse \in BOOLEAN

\* A handshake was begun: with skip_init, at the first banner only.
Begun == ~config.skip_init \/ resets > 0

\* When the handshake is over and no banner is on its way, the device is online
\* in the mode the configuration asks for, with the lists it asks for and none
\* of those stored in it before: in spite of reboots, spoiled and refused lines.
DoneMeansOnline ==
    init_state = Done /\ Begun /\ (\A i \in DOMAIN from_device : from_device[i] # "text") =>
        device = [mode |-> Mode, rx_list |-> config.rx_list, tx_list |-> config.tx_list]

\* A device is initialised at the start, unless skip_init says not to, and again
\* only when it rebooted: the second banner that a repeated OFFLINE brings is not
\* taken for a reboot.  That is so because, against the comment at
\* ikonvert.rs:229, a banner in mid-handshake is not "a soft reset too".
ReinitOnlyAfterReboot == resets <= reboots + (IF config.skip_init THEN 0 ELSE 1)

\* The device comes online, and again after a reboot, unless a line was lost, a
\* command refused or sent twice, or the device rebooted during the handshake:
\* such a reboot is passed over, whatever the comment at ikonvert.rs:229 says,
\* and the host then waits for an ACK that does not come.
Online == (init_state = Done /\ device.mode = Mode) \/ excuse \/ ~Begun
ComesOnline == []<>Online
=============================================================================
