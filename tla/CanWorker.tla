----------------------------- MODULE CanWorker -----------------------------
(***************************************************************************)
(* The SocketCAN worker of canboat-io/src/device/socketcan.rs: one thread  *)
(* that owns the socket, the transmit ring, the address claim, the         *)
(* heartbeat and the answers to other nodes' requests.                     *)
(*                                                                         *)
(* The loop is followed step by step (pc): take the users' commands and    *)
(* sleep in poll, write at most one frame of the ring, handle what was     *)
(* received, run the timers and publish the claimed address in the atom    *)
(* that other threads read.  Other nodes are an environment that may send  *)
(* anything; AddressClaim is the model in which every node runs the claim. *)
(* Frames that only go to the consumer and the network status are left out.*)
(***************************************************************************)
EXTENDS Integers, Sequences

CONSTANTS
    AddrMax,         \* ADDR_MAX: highest assignable address
    Preferred,       \* config.address
    UserFrame,       \* what users send: [pgn, src], src = Own for src 0 or 255
    Own,             \* the src that asks for the claimed address
    Chunks,          \* Chunks[p]: CAN frames in one message of PGN p
    SeqMod,          \* range of the fast-packet sequence counter
    TxCapacity,      \* TX_BUFFER_CAPACITY
    ScanTicks,       \* SCAN_TIMEOUT_MS
    ClaimTicks,      \* CLAIM_TIMEOUT_MS
    DefaultInterval, \* heartbeat interval, config.heartbeat_ms and the default
    ProductTicks,    \* least time between two Product Informations
    MaxHeard,        \* bound on the frames received from other nodes
    MaxSends         \* bound on the users' commands

Addr     == 0 .. AddrMax
NullAddr == AddrMax + 1     \* ADDR_NULL, also CLAIM_UNCLAIMED
Global   == AddrMax + 2     \* ADDR_GLOBAL, as a destination

Fast   == {"product", "list", "group", "userfast"}
Single == {"claim", "request", "ack", "heartbeat", "user"}
Pgn    == Fast \cup Single
Source == Addr \cup {NullAddr}

ASSUME CanWorkerAssumption ==
    /\ AddrMax \in Nat
    /\ Preferred \in Addr
    /\ UserFrame \subseteq [pgn : {"user", "userfast", "synthetic"},
                            src : Addr \cup {Own}]
    /\ Own \notin Addr \cup {NullAddr}
    /\ Chunks \in [Pgn -> Nat \ {0}]
    /\ \A p \in Single : Chunks[p] = 1
    /\ SeqMod \in Nat \ {0, 1}
    /\ TxCapacity \in Nat \ {0}
    /\ ScanTicks \in Nat \ {0}
    /\ ClaimTicks \in Nat \ {0}
    /\ DefaultInterval \in Nat \ {0}
    /\ ProductTicks \in Nat
    /\ MaxHeard \in Nat
    /\ MaxSends \in Nat

VARIABLES
    pc,         \* where the worker is in its loop, "done" after it returned
    state,      \* AddressClaim::state
    address,    \* AddressClaim::address
    timer,      \* ticks left until the claim deadline
    used,       \* addresses seen in others' claims
    interval,   \* heartbeat_interval, 0 when disabled
    beat,       \* ticks left until next_heartbeat
    product,    \* ticks until Product Information may be sent again
    txq,        \* the transmit ring
    fastSeq,    \* fastSeq[p][s]: next sequence count of PGN p from source s
    atom,       \* claim_addr, read by other threads
    lastClaim,  \* history: the address this session last claimed on the wire
    claimLost,  \* history: a claim of this session never reached the wire
    heard,      \* frames received so far
    sends       \* commands sent so far

claim   == <<state, address, timer, used>>
rhythm  == <<interval, beat, product>>
ring    == <<txq, fastSeq, claimLost>>
counts  == <<heard, sends>>
vars    == <<pc, claim, rhythm, ring, atom, lastClaim, counts>>

Step  == {"cmds", "tx", "rx", "timers", "done"}
Frame == [pgn : Pgn, src : Source, ours : BOOLEAN, seq : 0 .. SeqMod - 1, index : Nat]

Holds == state \in {"Pending", "Claimed"}
Live  == IF state = "Claimed" THEN address ELSE NullAddr    \* addr()
Free(u) == Addr \ u
PickFree(u) == CHOOSE a \in Free(u) : \A b \in Free(u) : a <= b

-----------------------------------------------------------------------------
(* Sending.                                                                *)

\* The CAN frames of n messages of PGN p: ours says that they go out under
\* the worker's own address and do not impersonate another node.
Message(p, s, ours, n) ==
    [k \in 1 .. n * Chunks[p] |->
        [pgn |-> p, src |-> s, ours |-> ours,
         seq |-> IF p \in Fast
                 THEN (fastSeq[p][s] + (k - 1) \div Chunks[p]) % SeqMod ELSE 0,
         index |-> (k - 1) % Chunks[p]]]

Room == TxCapacity - Len(txq)

\* Mutant: the counter is advanced once per request, not once per message.
EnqueueCountsOnce(p, s, ours, n) ==
    LET m == Message(p, s, ours, n) IN
    /\ txq' = IF Room < Len(m) THEN txq \o SubSeq(m, 1, Room) ELSE txq \o m
    /\ fastSeq' = IF p \in Fast
                  THEN [fastSeq EXCEPT ![p][s] = (@ + 1) % SeqMod] ELSE fastSeq
    /\ claimLost' = (claimLost \/ (p = "claim" /\ Room < Len(m)))

\* Mutant: a claim goes to the front of the ring.
EnqueueClaimFirst(p, s, ours, n) ==
    LET m == Message(p, s, ours, n) IN
    /\ txq' = IF Room < Len(m) THEN txq \o SubSeq(m, 1, Room)
              ELSE IF p = "claim" THEN m \o txq ELSE txq \o m
    /\ fastSeq' = IF p \in Fast
                  THEN [fastSeq EXCEPT ![p][s] = (@ + n) % SeqMod] ELSE fastSeq
    /\ claimLost' = (claimLost \/ (p = "claim" /\ Room < Len(m)))

\* Bus::send_pgn: what finds no room in the ring is dropped, frame by frame.
Enqueue(p, s, ours, n) ==
    LET m == Message(p, s, ours, n) IN
    /\ txq' = IF Room < Len(m) THEN txq \o SubSeq(m, 1, Room) ELSE txq \o m
    /\ fastSeq' = IF p \in Fast
                  THEN [fastSeq EXCEPT ![p][s] = (@ + n) % SeqMod] ELSE fastSeq
    /\ claimLost' = (claimLost \/ (p = "claim" /\ Room < Len(m)))

\* Mutant: the claim is not queued behind other frames.
ClaimIfIdle(a) ==
    /\ state' = "Pending"
    /\ address' = a
    /\ timer' = ClaimTicks
    /\ IF txq = <<>> THEN Enqueue("claim", a, TRUE, 1) ELSE UNCHANGED ring

\* A claim of a is sent; the address is ours when it stays uncontested.
Claim(a) ==
    /\ state' = "Pending"
    /\ address' = a
    /\ timer' = ClaimTicks
    /\ Enqueue("claim", a, TRUE, 1)

Fail ==
    /\ state' = "Failed"
    /\ address' = NullAddr
    /\ Enqueue("claim", NullAddr, TRUE, 1)
    /\ UNCHANGED timer

-----------------------------------------------------------------------------
(* The worker starts.                                                      *)

NoSeq == [p \in Fast |-> [s \in Source |-> 0]]

ScanRequest == [pgn |-> "request", src |-> NullAddr, ours |-> TRUE,
                seq |-> 0, index |-> 0]

\* A new session: the claimer scans, or is switched off (config.no_claim).
Init ==
    /\ pc = "cmds"
    /\ \/ /\ state = "Scanning" /\ address = Preferred /\ timer = ScanTicks
          /\ txq = <<ScanRequest>>
       \/ /\ state = "Disabled" /\ address = 0 /\ timer = 0
          /\ txq = <<>>
    /\ used = {}
    /\ interval = DefaultInterval /\ beat = 0 /\ product = 0
    /\ fastSeq = NoSeq /\ claimLost = FALSE
    /\ atom = NullAddr /\ lastClaim = NullAddr
    /\ heard = 0 /\ sends = 0

\* The supervisor opens the device again: nothing of the last session is kept.
Reopen ==
    /\ pc = "done"
    /\ pc' = "cmds"
    /\ IF state = "Disabled"
       THEN UNCHANGED <<state, address, timer>> /\ txq' = <<>>
       ELSE /\ state' = "Scanning" /\ address' = Preferred /\ timer' = ScanTicks
            /\ txq' = <<ScanRequest>>
    /\ used' = {}
    /\ interval' = DefaultInterval /\ beat' = 0 /\ product' = 0
    /\ fastSeq' = NoSeq /\ claimLost' = FALSE
    /\ atom' = NullAddr /\ lastClaim' = NullAddr
    /\ UNCHANGED counts

-----------------------------------------------------------------------------
(* Step 1: the commands.                                                   *)

\* Our address in place of src 0 or 255, the given one otherwise.
SourceOf(u) == IF u.src = Own THEN Live ELSE u.src

\* A user's command has arrived.  Synthetic PGNs never go on the bus.
TakeCmd(u) ==
    /\ pc = "cmds" /\ sends < MaxSends
    /\ sends' = sends + 1
    /\ IF u.pgn = "synthetic" THEN UNCHANGED ring
       ELSE Enqueue(u.pgn, SourceOf(u), u.src = Own, 1)
    /\ UNCHANGED <<pc, claim, rhythm, atom, lastClaim, heard>>

-----------------------------------------------------------------------------
(* Steps 2 to 4: the worker sleeps, at most until the next deadline.       *)

Less(t) == IF t > 0 THEN t - 1 ELSE 0

\* Something can be read or written.  (On a signal the loop starts again.)
PollReturns ==
    /\ pc = "cmds"
    /\ pc' = "tx"
    /\ UNCHANGED <<claim, rhythm, ring, atom, lastClaim, counts>>

PollTimesOut ==
    /\ pc = "cmds"
    /\ pc' = "tx"
    /\ timer' = Less(timer) /\ beat' = Less(beat) /\ product' = Less(product)
    /\ UNCHANGED <<state, address, used, interval>>
    /\ UNCHANGED <<ring, atom, lastClaim, counts>>

\* The handle is gone, poll or recvmmsg fails, or the bus was silent for
\* timeout_secs: the worker returns.
Quit ==
    /\ pc \in {"cmds", "rx"}
    /\ pc' = "done"
    /\ UNCHANGED <<claim, rhythm, ring, atom, lastClaim, counts>>

-----------------------------------------------------------------------------
(* Step 5: at most one frame of the ring is written.                       *)

Written ==
    /\ pc = "tx" /\ txq # <<>>
    /\ pc' = "rx"
    /\ txq' = Tail(txq)
    /\ lastClaim' = IF Head(txq).pgn = "claim" THEN Head(txq).src ELSE lastClaim
    /\ UNCHANGED <<claim, rhythm, fastSeq, claimLost, atom, counts>>

\* Nothing to write, or the kernel's queue is full (the frame stays).
NotWritten ==
    /\ pc = "tx"
    /\ pc' = "rx"
    /\ UNCHANGED <<claim, rhythm, ring, atom, lastClaim, counts>>

\* Any other error: the frame is dropped.
WriteFails ==
    /\ pc = "tx" /\ txq # <<>>
    /\ pc' = "rx"
    /\ txq' = Tail(txq)
    /\ claimLost' = (claimLost \/ Head(txq).pgn = "claim")
    /\ UNCHANGED <<claim, rhythm, fastSeq, atom, lastClaim, counts>>

-----------------------------------------------------------------------------
(* Step 6: frames from other nodes.                                        *)

Receiving ==
    /\ pc = "rx" /\ heard < MaxHeard /\ state # "Disabled"
    /\ heard' = heard + 1
    /\ UNCHANGED <<pc, sends, atom, lastClaim>>

\* A claim for an address that is not ours, or while nothing is ours yet.
LearnClaim(a) ==
    /\ Receiving
    /\ state = "Scanning" \/ a # address
    /\ used' = used \cup {a}
    /\ UNCHANGED <<state, address, timer, rhythm, ring>>

\* A claim for our address by a higher NAME.
DefendClaim(a) ==
    /\ Receiving
    /\ state # "Scanning" /\ a = address
    /\ Claim(a)
    /\ UNCHANGED <<used, rhythm>>

\* A claim for our address by a lower NAME; ours is arbitrary-address-capable.
YieldClaim(a) ==
    /\ Receiving
    /\ state # "Scanning" /\ a = address
    /\ used' = used \cup {a}
    /\ IF Free(used \cup {a}) # {} THEN Claim(PickFree(used \cup {a})) ELSE Fail
    /\ UNCHANGED rhythm

\* The request is for us: dst is the address we own, or everybody.  Without
\* an address addr() is ADDR_NULL, so that a request to that is for us too.
Addressed(d) == d = Live

\* A request for our claim is answered while we hold or go for an address.
ClaimRequested(d) ==
    /\ Receiving
    /\ Addressed(d) \/ d = Global
    /\ Holds
    /\ Enqueue("claim", address, TRUE, 1)
    /\ UNCHANGED <<claim, rhythm>>

\* A request for anything else is answered once we own the address.
ProductRequested(d) ==
    /\ Receiving
    /\ Addressed(d) \/ d = Global
    /\ state = "Claimed" /\ product = 0
    /\ product' = ProductTicks
    /\ Enqueue("product", address, TRUE, 1)
    /\ UNCHANGED <<claim, interval, beat>>

ListRequested(d) ==
    /\ Receiving
    /\ Addressed(d) \/ d = Global
    /\ state = "Claimed"
    /\ Enqueue("list", address, TRUE, 2)
    /\ UNCHANGED <<claim, rhythm>>

HeartbeatRequested(d) ==
    /\ Receiving
    /\ Addressed(d) \/ d = Global
    /\ state = "Claimed"
    /\ Enqueue("heartbeat", address, TRUE, 1)
    /\ UNCHANGED <<claim, rhythm>>

OtherRequested(d) ==
    /\ Receiving
    /\ Addressed(d)
    /\ state = "Claimed"
    /\ Enqueue("ack", address, TRUE, 1)
    /\ UNCHANGED <<claim, rhythm>>

\* A Request Group Function for the heartbeat, whoever it is addressed to: a
\* new interval and its first beat, off, or neither ("no change", out of range).
GroupFunction ==
    /\ Receiving
    /\ state = "Claimed"
    /\ \/ \E i \in 1 .. DefaultInterval : interval' = i /\ beat' = i
       \/ interval' = 0 /\ beat' = beat
       \/ UNCHANGED <<interval, beat>>
    /\ Enqueue("group", address, TRUE, 1)
    /\ UNCHANGED <<claim, product>>

Handle ==
    \/ \E a \in Addr : LearnClaim(a) \/ DefendClaim(a) \/ YieldClaim(a)
    \/ \E d \in Addr \cup {NullAddr, Global} :
          \/ ClaimRequested(d) \/ ProductRequested(d) \/ ListRequested(d)
          \/ HeartbeatRequested(d) \/ OtherRequested(d)
    \/ GroupFunction

\* The socket is drained, or the budget is spent.
Received ==
    /\ pc = "rx"
    /\ pc' = "timers"
    /\ UNCHANGED <<claim, rhythm, ring, atom, lastClaim, counts>>

-----------------------------------------------------------------------------
(* Steps 7 and 8: the timers and the atom.                                 *)

\* Mutant: the preferred address is claimed without a look at the others'.
BeginClaimUnchecked ==
    /\ state = "Scanning" /\ timer = 0
    /\ Claim(Preferred)
    /\ UNCHANGED <<used, rhythm>>

BeginClaim ==
    /\ state = "Scanning" /\ timer = 0
    /\ IF Preferred \notin used  THEN Claim(Preferred)
       ELSE IF Free(used) # {}   THEN Claim(PickFree(used))
       ELSE Fail
    /\ UNCHANGED <<used, rhythm>>

\* We own the address: Product Information, unless just sent, and the
\* heartbeat is armed.
TakeOwnership ==
    /\ state = "Pending" /\ timer = 0
    /\ state' = "Claimed"
    /\ IF product = 0
       THEN product' = ProductTicks /\ Enqueue("product", address, TRUE, 1)
       ELSE UNCHANGED <<product, ring>>
    /\ beat' = IF interval > 0 THEN interval ELSE beat
    /\ UNCHANGED <<address, timer, used, interval>>

BeatDue == state = "Claimed" /\ interval > 0 /\ beat = 0

Beat ==
    /\ BeatDue
    /\ beat' = interval
    /\ Enqueue("heartbeat", address, TRUE, 1)
    /\ UNCHANGED <<claim, interval, product>>

NothingDue ==
    /\ ~(state \in {"Scanning", "Pending"} /\ timer = 0)
    /\ ~BeatDue
    /\ UNCHANGED <<claim, rhythm, ring>>

\* Mutant: only an address that was gained is published.
PublishGained == atom' = IF Live' # NullAddr THEN Live' ELSE atom

Publish == atom' = Live'

\* tick, of which at most one part is due, and the atom.
Timers ==
    /\ pc = "timers"
    /\ pc' = "cmds"
    /\ BeginClaim \/ TakeOwnership \/ Beat \/ NothingDue
    /\ Publish
    /\ UNCHANGED <<lastClaim, counts>>

-----------------------------------------------------------------------------
Worker ==
    \/ \E u \in UserFrame : TakeCmd(u)
    \/ PollReturns \/ PollTimesOut \/ Quit
    \/ Written \/ NotWritten \/ WriteFails
    \/ Handle \/ Received
    \/ Timers

Next == Worker \/ Reopen

Spec == Init /\ [][Next]_vars

\* The loop never rests, and the kernel accepts a frame again and again.
Fairness == WF_vars(Worker) /\ SF_vars(Written)

FairSpec == Spec /\ Fairness

-----------------------------------------------------------------------------
(* Properties.                                                             *)

\* Types, and: the worker goes by the null address exactly when it failed to
\* claim one (on_address_claim and begin_claim), and never goes for one that
\* it knows another node has.
TypeOK ==
    /\ pc \in Step
    /\ state \in {"Disabled", "Scanning", "Pending", "Claimed", "Failed"}
    /\ address \in Addr \cup {NullAddr}
    /\ state = "Failed" <=> address = NullAddr
    /\ timer \in 0 .. ScanTicks + ClaimTicks
    /\ used \subseteq Addr
    /\ Holds => address \notin used
    /\ interval \in Nat /\ beat \in Nat
    /\ product \in 0 .. ProductTicks
    /\ txq \in Seq(Frame) /\ Len(txq) <= TxCapacity
    /\ fastSeq \in [Fast -> [Source -> 0 .. SeqMod - 1]]
    /\ claimLost \in BOOLEAN
    /\ atom \in Addr \cup {NullAddr}
    /\ lastClaim \in Addr \cup {NullAddr}
    /\ heard \in 0 .. MaxHeard /\ sends \in 0 .. MaxSends

\* The other nodes hear us under one address at a time: a frame of our own
\* (send_pgn with addr()) leaves the ring under the address that our last claim
\* on the wire was for, or under none, however often the address changed while
\* frames were waiting.  Only the loss of a claim can break this.
SentUnderOwnClaim ==
    txq # <<>> /\ Head(txq).ours /\ Head(txq).pgn # "claim" /\ ~claimLost
    => Head(txq).src \in {NullAddr, lastClaim}

\* What other threads read is what is on the wire (the comment on step 8):
\* while the worker sleeps or writes, the atom holds the address it owns, or
\* none.  It lags behind only while received frames are being handled.
AtomFresh == pc \in {"cmds", "tx"} => atom = Live

\* Where the messages of PGN p and source s that wait in the ring q begin.
Starts(q, p, s) == {i \in DOMAIN q : q[i].pgn = p /\ q[i].src = s /\ q[i].index = 0}

\* "Consecutive first frames are distinguishable from continuations": two
\* messages of one PGN and source, the one the next after the other in the
\* ring, carry different sequence counts (next_fast_seq).
Distinguishable ==
    \A p \in Fast, s \in Source : \A i, j \in Starts(txq, p, s) :
        i < j /\ (\A k \in Starts(txq, p, s) : k <= i \/ j <= k) => txq[i].seq # txq[j].seq

\* An address that is kept is announced: its claim leaves the ring, whatever
\* waits before it, unless it was dropped.
Announced ==
    <>[](state = "Claimed" /\ pc # "done" /\ ~claimLost)
    => <>(lastClaim = address)
=============================================================================
