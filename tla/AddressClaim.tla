---------------------------- MODULE AddressClaim ----------------------------
(***************************************************************************)
(* The ISO 11783-5 address-claim state machine of                          *)
(* canboat-io/src/address_claim.rs, run by every node of one bus.          *)
(*                                                                         *)
(* A node scans the bus, broadcasts a claim for the address it picked,     *)
(* owns it when the claim went uncontested for ClaimTicks, and arbitrates  *)
(* by NAME (lowest wins) when another node claims the same address.  The   *)
(* caller's part that the claim depends on is modelled with it: the worker *)
(* of device/socketcan.rs feeds it the claims and requests it receives,    *)
(* calls tick, and sends what it returns.                                  *)
(*                                                                         *)
(* wire[m][n] is everything m has broadcast and n has not handled yet: m's *)
(* TX ring, the bus and n's receive buffer in one FIFO.  The state machine *)
(* compares `now` with `deadline`; here timer is the time that is left.    *)
(***************************************************************************)
EXTENDS Integers, FiniteSets, Sequences

CONSTANTS
    Node,        \* the nodes of the bus
    Name,        \* Name[n]: its 64-bit ISO NAME, the lower wins
    Preferred,   \* Preferred[n]: the configured source address
    Arbitrary,   \* Arbitrary[n]: the NAME's arbitrary-address-capable bit
    Passive,     \* nodes built with AddressClaim::disabled (no_claim)
    Echo,        \* nodes whose own frames are fed back to them (a quirk)
    AddrMax,     \* ADDR_MAX: highest assignable address
    ScanTicks,   \* SCAN_TIMEOUT_MS
    ClaimTicks,  \* CLAIM_TIMEOUT_MS
    Timely,      \* every frame is handled before time advances
    MaxStops     \* bound on how often a node is switched off

Addr     == 0 .. AddrMax
NullAddr == AddrMax + 1    \* ADDR_NULL, the source of a node without address

ASSUME ClaimAssumption ==
    /\ AddrMax \in Nat
    /\ Name \in [Node -> Nat]
    /\ Preferred \in [Node -> Addr]
    /\ Arbitrary \in [Node -> BOOLEAN]
    /\ Passive \subseteq Node
    /\ Echo \subseteq Node
    /\ ScanTicks \in Nat \ {0}
    /\ ClaimTicks \in Nat \ {0}
    /\ Timely \in BOOLEAN
    /\ MaxStops \in Nat

\* "ISO NAMEs are globally unique" (address_claim.rs:156).
DistinctNames == \A m, n \in Node : Name[m] = Name[n] => m = n

VARIABLES
    state,     \* state[n]: its ClaimState, or "Off" while it is not running
    address,   \* address[n]: the address it holds or goes for
    timer,     \* timer[n]: ticks left until deadline, 0 when it is due
    used,      \* used[n]: addresses seen in others' claims
    wire,      \* wire[m][n]: frames sent by m that n has not handled
    stops      \* how often a node was switched off

vars == <<state, address, timer, used, wire, stops>>

ClaimState == {"Off", "Disabled", "Scanning", "Pending", "Claimed", "Failed"}
Frame == [kind : {"claim", "request"}, src : Addr \cup {NullAddr}]

Holds(n) == state[n] \in {"Pending", "Claimed"}
Quiet    == \A m, n \in Node : wire[m][n] = <<>>

-----------------------------------------------------------------------------
(* Frames.                                                                 *)

ClaimOf(a) == [kind |-> "claim", src |-> a]
Request    == [kind |-> "request", src |-> NullAddr]

\* A broadcast of s reaches every running node, s itself only if it echoes.
Hears(s, r) == state[r] # "Off" /\ (r # s \/ s \in Echo)

Broadcast(w, s, f) ==
    [w EXCEPT ![s] = [r \in Node |-> IF Hears(s, r) THEN Append(w[s][r], f)
                                                    ELSE w[s][r]]]

\* The wire after n has taken the next frame of m.
Taken(m, n) == [wire EXCEPT ![m][n] = Tail(@)]

\* A running n is about to handle a frame of this kind from m.
Incoming(m, n, kind) ==
    /\ state[n] # "Off"
    /\ wire[m][n] # <<>>
    /\ Head(wire[m][n]).kind = kind

\* n goes for address a: Pending, a full claim timeout, and a claim frame.
Claim(n, a, w) ==
    /\ state'   = [state EXCEPT ![n] = "Pending"]
    /\ address' = [address EXCEPT ![n] = a]
    /\ timer'   = [timer EXCEPT ![n] = ClaimTicks]
    /\ wire'    = Broadcast(w, n, ClaimOf(a))

\* Mutant: the failed node keeps the address it lost.
FailKeepsAddress(n, w) ==
    /\ state' = [state EXCEPT ![n] = "Failed"]
    /\ wire'  = Broadcast(w, n, ClaimOf(NullAddr))
    /\ UNCHANGED <<address, timer>>

\* n has nowhere to go: silent from now on, after one "cannot claim".
Fail(n, w) ==
    /\ state'   = [state EXCEPT ![n] = "Failed"]
    /\ address' = [address EXCEPT ![n] = NullAddr]
    /\ wire'    = Broadcast(w, n, ClaimOf(NullAddr))
    /\ UNCHANGED timer

\* The addresses pick_free chooses among, and the lowest of them.
FreeBelowMax(u) == (0 .. AddrMax - 1) \ u    \* mutant: the range is exclusive
Free(u) == Addr \ u

PickFree(u) == CHOOSE a \in Free(u) : \A b \in Free(u) : a <= b

-----------------------------------------------------------------------------
Init ==
    /\ state   = [n \in Node |-> "Off"]
    /\ address = Preferred
    /\ timer   = [n \in Node |-> 0]
    /\ used    = [n \in Node |-> {}]
    /\ wire    = [m \in Node |-> [n \in Node |-> <<>>]]
    /\ stops   = 0

\* The worker opens its socket, builds the claimer and starts the scan.
Start(n) ==
    /\ state[n] = "Off"
    /\ IF n \in Passive
       THEN /\ state' = [state EXCEPT ![n] = "Disabled"]
            /\ UNCHANGED <<timer, wire>>
       ELSE /\ state' = [state EXCEPT ![n] = "Scanning"]
            /\ timer' = [timer EXCEPT ![n] = ScanTicks]
            /\ wire'  = Broadcast(wire, n, Request)
    /\ UNCHANGED <<address, used, stops>>

\* Mutant: an echo of our own claim counts as a conflict.
IrrelevantButEcho(m, n, a) == a = NullAddr \/ state[n] = "Disabled"

\* A "cannot claim", our own echo, or anything while claiming is disabled.
Irrelevant(m, n, a) ==
    \/ a = NullAddr
    \/ state[n] = "Disabled"
    \/ Name[m] = Name[n]

\* Mutant: conflicts are arbitrated only once the address is owned.
ElsewhereUnlessOwned(n, a) == state[n] # "Claimed" \/ a # address[n]

\* a is not ours, or nothing is ours yet.
Elsewhere(n, a) == state[n] = "Scanning" \/ a # address[n]

IgnoreClaim(m, n) ==
    /\ Incoming(m, n, "claim")
    /\ Irrelevant(m, n, Head(wire[m][n]).src)
    /\ wire' = Taken(m, n)
    /\ UNCHANGED <<state, address, timer, used, stops>>

LearnClaim(m, n) ==
    LET a == Head(wire[m][n]).src IN
    /\ Incoming(m, n, "claim")
    /\ ~Irrelevant(m, n, a)
    /\ Elsewhere(n, a)
    /\ used' = [used EXCEPT ![n] = @ \cup {a}]
    /\ wire' = Taken(m, n)
    /\ UNCHANGED <<state, address, timer, stops>>

\* n has the lower NAME: it claims its address again.
DefendClaim(m, n) ==
    LET a == Head(wire[m][n]).src IN
    /\ Incoming(m, n, "claim")
    /\ ~Irrelevant(m, n, a)
    /\ ~Elsewhere(n, a)
    /\ Name[n] < Name[m]
    /\ Claim(n, a, Taken(m, n))
    /\ UNCHANGED <<used, stops>>

\* Mutant: the address just lost is not marked as used.
YieldForgetsUsed(m, n) ==
    LET a == Head(wire[m][n]).src IN
    /\ Incoming(m, n, "claim")
    /\ ~Irrelevant(m, n, a)
    /\ ~Elsewhere(n, a)
    /\ ~(Name[n] < Name[m])
    /\ IF Arbitrary[n] /\ Free(used[n]) # {}
       THEN Claim(n, PickFree(used[n]), Taken(m, n))
       ELSE Fail(n, Taken(m, n))
    /\ UNCHANGED <<used, stops>>

\* n loses the address and moves to the lowest free one, or goes silent.
YieldClaim(m, n) ==
    LET a == Head(wire[m][n]).src
        u == used[n] \cup {a}
    IN
    /\ Incoming(m, n, "claim")
    /\ ~Irrelevant(m, n, a)
    /\ ~Elsewhere(n, a)
    /\ ~(Name[n] < Name[m])
    /\ used' = [used EXCEPT ![n] = u]
    /\ IF Arbitrary[n] /\ Free(u) # {}
       THEN Claim(n, PickFree(u), Taken(m, n))
       ELSE Fail(n, Taken(m, n))
    /\ UNCHANGED stops

\* An ISO Request for PGN 60928 is answered while an address is held.
AnswerRequest(m, n) ==
    /\ Incoming(m, n, "request")
    /\ wire' = IF Holds(n)
               THEN Broadcast(Taken(m, n), n, ClaimOf(address[n]))
               ELSE Taken(m, n)
    /\ UNCHANGED <<state, address, timer, used, stops>>

Receive(m, n) ==
    \/ IgnoreClaim(m, n)
    \/ LearnClaim(m, n)
    \/ DefendClaim(m, n)
    \/ YieldClaim(m, n)
    \/ AnswerRequest(m, n)

\* Mutant: no other address is tried when the preferred one is taken.
BeginClaimPreferredOnly(n) ==
    /\ state[n] = "Scanning" /\ timer[n] = 0
    /\ IF Preferred[n] \notin used[n] THEN Claim(n, Preferred[n], wire)
                                      ELSE Fail(n, wire)
    /\ UNCHANGED <<used, stops>>

\* tick at the end of the scan: the preferred address, else the lowest free.
BeginClaim(n) ==
    /\ state[n] = "Scanning" /\ timer[n] = 0
    /\ IF Preferred[n] \notin used[n] THEN Claim(n, Preferred[n], wire)
       ELSE IF Free(used[n]) # {}     THEN Claim(n, PickFree(used[n]), wire)
       ELSE Fail(n, wire)
    /\ UNCHANGED <<used, stops>>

\* Mutant: a claim is owned without waiting for the deadline.
OwnAtOnce(n) ==
    /\ state[n] = "Pending"
    /\ state' = [state EXCEPT ![n] = "Claimed"]
    /\ UNCHANGED <<address, timer, used, wire, stops>>

\* tick at the end of an uncontested claim.
Own(n) ==
    /\ state[n] = "Pending" /\ timer[n] = 0
    /\ state' = [state EXCEPT ![n] = "Claimed"]
    /\ UNCHANGED <<address, timer, used, wire, stops>>

Tick(n) == BeginClaim(n) \/ Own(n)

\* Time passes.  When Timely, only once every frame has been handled.
Advance ==
    /\ \E n \in Node : timer[n] > 0
    /\ Timely => Quiet
    /\ timer' = [n \in Node |-> IF timer[n] > 0 THEN timer[n] - 1 ELSE 0]
    /\ UNCHANGED <<state, address, used, wire, stops>>

\* What may be left of a queue of frames when its sender dies.
Remnants(q) == {SubSeq(q, 1, k) : k \in 0 .. Len(q)}

\* The worker returns (device gone, bus silent, process killed).  What it had
\* received is lost, and so may be any tail of what each peer has yet to hear.
Stop(n) ==
    /\ state[n] # "Off"
    /\ stops < MaxStops
    /\ stops'   = stops + 1
    /\ state'   = [state EXCEPT ![n] = "Off"]
    /\ address' = [address EXCEPT ![n] = Preferred[n]]
    /\ timer'   = [timer EXCEPT ![n] = 0]
    /\ used'    = [used EXCEPT ![n] = {}]
    /\ \E kept \in [Node -> UNION {Remnants(wire[n][r]) : r \in Node}] :
          /\ \A r \in Node : kept[r] \in Remnants(wire[n][r])
          /\ wire' = [m \in Node |-> [r \in Node |->
                        IF r = n THEN <<>>
                        ELSE IF m = n THEN kept[r]
                        ELSE wire[m][r]]]

Next ==
    \/ \E n \in Node : Start(n) \/ Tick(n) \/ Stop(n)
    \/ \E m, n \in Node : Receive(m, n)
    \/ Advance

Spec == Init /\ [][Next]_vars

\* The worker's poll loop handles every frame and every due deadline.
Fairness ==
    /\ \A n \in Node : WF_vars(Tick(n))
    /\ \A m, n \in Node : WF_vars(Receive(m, n))
    /\ WF_vars(Advance)

FairSpec == Spec /\ Fairness
-----------------------------------------------------------------------------
(* Properties.                                                             *)

\* Types, and: a node is Failed exactly when it goes by the null address
\* (on_address_claim and begin_claim set both together).
TypeOK ==
    /\ state \in [Node -> ClaimState]
    /\ address \in [Node -> Addr \cup {NullAddr}]
    /\ timer \in [Node -> 0 .. ScanTicks + ClaimTicks]
    /\ used \in [Node -> SUBSET Addr]
    /\ wire \in [Node -> [Node -> Seq(Frame)]]
    /\ stops \in 0 .. MaxStops
    /\ \A n \in Node : state[n] = "Failed" <=> address[n] = NullAddr

\* Arbitration leaves no conflict behind: once every frame is handled, no two
\* nodes hold the same address, however slowly the frames travelled and
\* whatever was switched off or on meanwhile.
QuietMeansUnique ==
    Quiet => \A m, n \in Node :
                Holds(m) /\ Holds(n) /\ address[m] = address[n] => m = n

\* With a bus faster than the claim timeout, no two nodes ever own one address
\* at the same time: 250 ms uncontested is enough (CLAIM_TIMEOUT_MS).
ExclusiveOwnership ==
    Timely => \A m, n \in Node :
                 /\ state[m] = "Claimed" /\ state[n] = "Claimed"
                 /\ address[m] = address[n]
                 => m = n

\* Some other node holds a.
HeldByOther(n, a) == \E m \in Node \ {n} : Holds(m) /\ address[m] = a

\* "No address could be claimed (bus full, ...)" (ClaimState::Failed): a node
\* that can take any address fails only while others hold all of them.
FailsOnFullBus ==
    \A n \in Node :
        Arbitrary[n] /\ state[n] # "Failed" /\ state'[n] = "Failed"
        => \A a \in Addr : HeldByOther(n, a)

FailsOnlyOnFullBus == [][FailsOnFullBus]_vars

\* A running node gives up an address only while a node with a lower NAME
\* holds it, even when the claim it lost to has been overtaken by events.
YieldsToLower ==
    \A n \in Node :
        Holds(n) /\ state'[n] # "Off" /\ ~(Holds(n)' /\ address'[n] = address[n])
        => \E m \in Node : /\ Holds(m) /\ address[m] = address[n]
                           /\ Name[m] < Name[n]

YieldsOnlyToLower == [][YieldsToLower]_vars

\* No livelock of claims and counter-claims: every handshake ends.
EventuallySettled ==
    <>[](\A n \in Node : state[n] \notin {"Scanning", "Pending"})

\* With an address for everyone, every node that takes part ends up owning one.
EventuallyAllOwn ==
    <>[](\A n \in Node : state[n] \in {"Off", "Disabled", "Claimed"})

\* Under a timely bus the protocol implements exclusive ownership.
Owned == [n \in Node |-> IF state[n] = "Claimed" THEN address[n] ELSE NullAddr]
Ownership == INSTANCE AddressOwnership WITH owned <- Owned
ImplementsOwnership == Ownership!Spec
=============================================================================
