------------------------- MODULE AddressClaimProofs -------------------------
(***************************************************************************)
(* What holds of AddressClaim for every bus: any set of nodes, any address *)
(* range, any timeouts.                                                    *)
(***************************************************************************)
EXTENDS AddressClaim, SequenceTheorems, WellFoundedInduction, TLAPS

-----------------------------------------------------------------------------
(* The operators the actions are built from.                               *)

\* pick_free finds an address whenever there is a free one, never a used one.
LEMMA PickFreeIsFree ==
    ASSUME NEW u, Free(u) # {}
    PROVE  /\ PickFree(u) \in Addr
           /\ PickFree(u) \notin u
  <1>1. Free(u) \subseteq Nat
    BY ClaimAssumption DEF Free, Addr
  <1>2. PICK a \in Free(u) : \A b \in Free(u) : ~(<<b, a>> \in OpToRel(<, Nat))
    BY <1>1, NatLessThanWellFounded, WFMin
  <1>3. \A b \in Free(u) : a <= b
    <2>1. TAKE b \in Free(u)
    <2>2. a \in Nat /\ b \in Nat
      BY <1>1
    <2>3. ~(b < a)
      <3>1. SUFFICES ASSUME b < a PROVE FALSE
        OBVIOUS
      <3>2. <<b, a>> \in OpToRel(<, Nat)
        BY <2>2, <3>1 DEF OpToRel
      <3>3. QED
        BY <1>2, <3>2
    <2>4. QED
      BY <2>2, <2>3
  <1>4. PickFree(u) \in Free(u)
    BY <1>3 DEF PickFree
  <1>5. QED
    BY <1>4 DEF Free

\* The type of wire, and of a wire that is about to be extended.
Wires == [Node -> [Node -> Seq(Frame)]]

\* f is on its way from m to n.
InFlight(w, m, n, f) == \E i \in 1 .. Len(w[m][n]) : w[m][n][i] = f

\* Consuming a frame keeps the wire typed and forgets that frame at most.
LEMMA TakenEffect ==
    ASSUME wire \in Wires, NEW m \in Node, NEW n \in Node, wire[m][n] # <<>>
    PROVE  /\ Taken(m, n) \in Wires
           /\ Head(wire[m][n]) \in Frame
           /\ InFlight(wire, m, n, Head(wire[m][n]))
           /\ \A p, q \in Node : \A f :
                /\ InFlight(Taken(m, n), p, q, f) => InFlight(wire, p, q, f)
                /\ InFlight(wire, p, q, f) =>
                     \/ InFlight(Taken(m, n), p, q, f)
                     \/ p = m /\ q = n /\ f = Head(wire[m][n])
  <1> DEFINE s == wire[m][n]
  <1>1. s \in Seq(Frame) /\ s # <<>>
    BY DEF Wires
  <1>2. /\ Head(s) \in Frame /\ Tail(s) \in Seq(Frame)
        /\ Len(Tail(s)) = Len(s) - 1 /\ Len(s) \in Nat \ {0}
        /\ \A i \in 1 .. Len(Tail(s)) : Tail(s)[i] = s[i + 1]
        /\ Head(s) = s[1]
    BY <1>1, HeadTailProperties, EmptySeq
  <1>3. Taken(m, n) \in Wires
    BY <1>2 DEF Taken, Wires
  <1>4. Taken(m, n)[m][n] = Tail(s)
    BY DEF Taken, Wires
  <1>5. \A p, q \in Node : ~(p = m /\ q = n) => Taken(m, n)[p][q] = wire[p][q]
    BY DEF Taken, Wires
  <1>6. InFlight(wire, m, n, Head(s))
    BY <1>2 DEF InFlight
  <1>7. ASSUME NEW p \in Node, NEW q \in Node, NEW f
        PROVE  /\ InFlight(Taken(m, n), p, q, f) => InFlight(wire, p, q, f)
               /\ InFlight(wire, p, q, f) =>
                    \/ InFlight(Taken(m, n), p, q, f)
                    \/ p = m /\ q = n /\ f = Head(s)
    <2>1. CASE ~(p = m /\ q = n)
      BY <2>1, <1>5 DEF InFlight
    <2>2. CASE p = m /\ q = n
      <3>1. ASSUME NEW i \in 1 .. Len(Tail(s)), Tail(s)[i] = f
            PROVE  \E j \in 1 .. Len(s) : s[j] = f
        <4>1. i + 1 \in 1 .. Len(s) /\ s[i + 1] = f
          BY <1>2, <3>1
        <4>2. QED
          BY <4>1
      <3>2. ASSUME NEW i \in 1 .. Len(s), s[i] = f
            PROVE  f = Head(s) \/ \E j \in 1 .. Len(Tail(s)) : Tail(s)[j] = f
        <4>1. CASE i = 1
          BY <4>1, <3>2, <1>2
        <4>2. CASE i # 1
          <5>1. i - 1 \in 1 .. Len(Tail(s)) /\ Tail(s)[i - 1] = s[(i - 1) + 1]
            BY <4>2, <1>2
          <5>2. s[(i - 1) + 1] = f
            BY <3>2, <1>2
          <5>3. QED
            BY <5>1, <5>2
        <4>3. QED
          BY <4>1, <4>2
      <3>3. QED
        BY <2>2, <3>1, <3>2, <1>4 DEF InFlight
    <2>3. QED
      BY <2>1, <2>2
  <1>8. QED
    BY <1>2, <1>3, <1>6, <1>7

\* A broadcast keeps the wire typed and adds its frame for those who hear it.
LEMMA BroadcastEffect ==
    ASSUME NEW w \in Wires, NEW s \in Node, NEW f \in Frame
    PROVE  /\ Broadcast(w, s, f) \in Wires
           /\ \A p, q \in Node : \A g :
                InFlight(Broadcast(w, s, f), p, q, g) <=>
                  \/ InFlight(w, p, q, g)
                  \/ p = s /\ Hears(s, q) /\ g = f
  <1>1. \A p, q \in Node : w[p][q] \in Seq(Frame)
    BY DEF Wires
  <1>2. Broadcast(w, s, f) \in Wires
    BY <1>1 DEF Broadcast, Wires
  <1>3. \A q \in Node : Broadcast(w, s, f)[s][q] =
                          IF Hears(s, q) THEN Append(w[s][q], f) ELSE w[s][q]
    BY DEF Broadcast, Wires
  <1>4. \A p, q \in Node : p # s => Broadcast(w, s, f)[p][q] = w[p][q]
    BY DEF Broadcast, Wires
  <1>5. ASSUME NEW p \in Node, NEW q \in Node, NEW g
        PROVE  InFlight(Broadcast(w, s, f), p, q, g) <=>
                  \/ InFlight(w, p, q, g)
                  \/ p = s /\ Hears(s, q) /\ g = f
    <2>1. CASE p # s \/ ~Hears(s, q)
      <3>1. Broadcast(w, s, f)[p][q] = w[p][q]
        BY <2>1, <1>3, <1>4
      <3>2. QED
        BY <2>1, <3>1 DEF InFlight
    <2>2. CASE p = s /\ Hears(s, q)
      <3> DEFINE o == w[s][q]
                 e == Append(o, f)
      <3>1. /\ Len(e) = Len(o) + 1 /\ Len(o) \in Nat
            /\ \A i \in 1 .. Len(o) : e[i] = o[i]
            /\ e[Len(o) + 1] = f
        BY <1>1
      <3>2. (\E i \in 1 .. Len(e) : e[i] = g) <=>
              (\E i \in 1 .. Len(o) : o[i] = g) \/ g = f
        <4>1. \A i \in 1 .. Len(e) : i \in 1 .. Len(o) \/ i = Len(o) + 1
          BY <3>1
        <4>2. 1 .. Len(o) \subseteq 1 .. Len(e) /\ Len(o) + 1 \in 1 .. Len(e)
          BY <3>1
        <4>3. QED
          BY <3>1, <4>1, <4>2
      <3>3. Broadcast(w, s, f)[p][q] = e
        BY <2>2, <1>3
      <3>4. QED
        BY <2>2, <3>2, <3>3 DEF InFlight
    <2>3. QED
      BY <2>1, <2>2
  <1>6. QED
    BY <1>2, <1>5

LEMMA FrameTypes ==
    /\ \A a \in Addr \cup {NullAddr} : ClaimOf(a) \in Frame
    /\ Request \in Frame
    /\ NullAddr \notin Addr
  BY ClaimAssumption DEF ClaimOf, Request, Frame, Addr, NullAddr

-----------------------------------------------------------------------------
(* Type correctness.                                                       *)

\* The part of TypeOK that claiming or failing may disturb.
NodeTypes ==
    /\ state \in [Node -> ClaimState]
    /\ address \in [Node -> Addr \cup {NullAddr}]
    /\ timer \in [Node -> 0 .. ScanTicks + ClaimTicks]
    /\ \A n \in Node : state[n] = "Failed" <=> address[n] = NullAddr

LEMMA ClaimTypes ==
    ASSUME TypeOK, NEW n \in Node, NEW a \in Addr, NEW w \in Wires,
           Claim(n, a, w)
    PROVE  NodeTypes' /\ wire' \in Wires
  <1>1. wire' \in Wires
    BY BroadcastEffect, FrameTypes DEF Claim
  <1>2. ClaimTicks \in 0 .. ScanTicks + ClaimTicks
    BY ClaimAssumption
  <1>3. a # NullAddr
    BY FrameTypes
  <1>4. NodeTypes'
    BY <1>2, <1>3 DEF Claim, TypeOK, NodeTypes, ClaimState
  <1>5. QED
    BY <1>1, <1>4

LEMMA FailTypes ==
    ASSUME TypeOK, NEW n \in Node, NEW w \in Wires, Fail(n, w)
    PROVE  NodeTypes' /\ wire' \in Wires
  <1>1. wire' \in Wires
    BY BroadcastEffect, FrameTypes DEF Fail
  <1>2. NodeTypes'
    BY DEF Fail, TypeOK, NodeTypes, ClaimState
  <1>3. QED
    BY <1>1, <1>2

LEMMA TypeStep == TypeOK /\ [Next]_vars => TypeOK'
  <1> SUFFICES ASSUME TypeOK, [Next]_vars
               PROVE  TypeOK'
    OBVIOUS
  <1> USE ClaimAssumption
  <1>0. wire \in Wires
    BY DEF TypeOK, Wires
  <1>1. ASSUME NEW n \in Node, Start(n)
        PROVE  TypeOK'
    <2>1. Broadcast(wire, n, Request) \in Wires
      BY <1>0, BroadcastEffect, FrameTypes
    <2>2. wire' \in Wires
      BY <1>0, <1>1, <2>1 DEF Start
    <2>3. /\ address' = address /\ used' = used /\ stops' = stops
          /\ \E s \in {"Disabled", "Scanning"} : state' = [state EXCEPT ![n] = s]
          /\ state[n] = "Off"
          /\ timer' \in {timer, [timer EXCEPT ![n] = ScanTicks]}
      BY <1>1 DEF Start
    <2>4. ScanTicks \in 0 .. ScanTicks + ClaimTicks
      OBVIOUS
    <2>. HIDE ClaimAssumption
    <2>5. NodeTypes'
      BY <2>3, <2>4 DEF TypeOK, NodeTypes, ClaimState
    <2>6. QED
      BY <2>2, <2>3, <2>5 DEF TypeOK, NodeTypes, Wires
  <1>2. ASSUME NEW n \in Node, BeginClaim(n)
        PROVE  TypeOK'
    <2>1. CASE \E a \in Addr : Claim(n, a, wire)
      BY <1>0, <1>2, <2>1, ClaimTypes DEF BeginClaim, TypeOK, NodeTypes, Wires
    <2>2. CASE Fail(n, wire)
      BY <1>0, <1>2, <2>2, FailTypes DEF BeginClaim, TypeOK, NodeTypes, Wires
    <2>3. QED
      BY <1>2, <2>1, <2>2, PickFreeIsFree DEF BeginClaim
  <1>3. ASSUME NEW n \in Node, Own(n)
        PROVE  TypeOK'
    BY <1>3 DEF Own, TypeOK, ClaimState
  <1>4. ASSUME NEW n \in Node, Stop(n)
        PROVE  TypeOK'
    <2>1. PICK kept :
             /\ \A r \in Node : kept[r] \in Remnants(wire[n][r])
             /\ wire' = [m \in Node |-> [r \in Node |->
                           IF r = n THEN <<>>
                           ELSE IF m = n THEN kept[r]
                           ELSE wire[m][r]]]
      BY <1>4 DEF Stop
    <2>2. ASSUME NEW r \in Node
          PROVE  kept[r] \in Seq(Frame)
      <3>1. wire[n][r] \in Seq(Frame)
        BY <1>0 DEF Wires
      <3>2. PICK k \in 0 .. Len(wire[n][r]) : kept[r] = SubSeq(wire[n][r], 1, k)
        BY <2>1 DEF Remnants
      <3>3. \A i \in 1 .. k : wire[n][r][i] \in Frame
        BY <3>1, ElementOfSeq, LenProperties
      <3>4. QED
        BY <3>1, <3>2, <3>3, SubSeqProperties, LenProperties
    <2>3. wire' \in Wires
      BY <1>0, <2>1, <2>2 DEF Wires
    <2>4. stops' \in 0 .. MaxStops
      <3>1. stops' = stops + 1 /\ stops < MaxStops
        BY <1>4 DEF Stop
      <3>2. stops \in 0 .. MaxStops
        BY DEF TypeOK
      <3>3. QED
        BY <3>1, <3>2, ClaimAssumption
    <2>. HIDE ClaimAssumption
    <2>a. /\ state' = [state EXCEPT ![n] = "Off"]
          /\ address' = [address EXCEPT ![n] = Preferred[n]]
          /\ timer' = [timer EXCEPT ![n] = 0]
          /\ used' = [used EXCEPT ![n] = {}]
      BY <1>4 DEF Stop
    <2>b. /\ Preferred[n] \in Addr /\ Preferred[n] # NullAddr
          /\ 0 \in 0 .. ScanTicks + ClaimTicks
      BY ClaimAssumption, FrameTypes
    <2>5. NodeTypes'
      BY <2>a, <2>b DEF TypeOK, NodeTypes, ClaimState
    <2>6. used' \in [Node -> SUBSET Addr]
      BY <2>a DEF TypeOK
    <2>7. QED
      BY <2>3, <2>4, <2>5, <2>6 DEF TypeOK, NodeTypes, Wires
  <1>5. ASSUME NEW m \in Node, NEW n \in Node, Receive(m, n)
        PROVE  TypeOK'
    <2> DEFINE f == Head(wire[m][n])
    <2>1. /\ Taken(m, n) \in Wires
          /\ f \in Frame
      <3>1. wire[m][n] # <<>>
        BY <1>5 DEF Receive, IgnoreClaim, LearnClaim, DefendClaim, YieldClaim,
                    AnswerRequest, Incoming
      <3>2. QED
        BY <1>0, <3>1, TakenEffect
    <2>2. CASE IgnoreClaim(m, n)
      BY <2>1, <2>2 DEF IgnoreClaim, TypeOK, Wires
    <2>3. CASE LearnClaim(m, n)
      <3>1. f.src \in Addr
        BY <2>1, <2>3 DEF LearnClaim, Irrelevant, Frame
      <3>2. used' \in [Node -> SUBSET Addr]
        BY <2>3, <3>1 DEF LearnClaim, TypeOK
      <3>3. QED
        BY <2>1, <2>3, <3>2 DEF LearnClaim, TypeOK, Wires
    <2>4. CASE DefendClaim(m, n)
      <3>1. f.src \in Addr
        BY <2>1, <2>4 DEF DefendClaim, Irrelevant, Frame
      <3>2. Claim(n, f.src, Taken(m, n))
        BY <2>4 DEF DefendClaim
      <3>3. NodeTypes' /\ wire' \in Wires
        BY <2>1, <3>1, <3>2, ClaimTypes
      <3>4. QED
        BY <2>4, <3>3 DEF DefendClaim, TypeOK, NodeTypes, Wires
    <2>5. CASE YieldClaim(m, n)
      <3>1. f.src \in Addr
        BY <2>1, <2>5 DEF YieldClaim, Irrelevant, Frame
      <3>2. used' \in [Node -> SUBSET Addr]
        BY <2>5, <3>1 DEF YieldClaim, TypeOK
      <3>3. \/ \E a \in Addr : Claim(n, a, Taken(m, n))
            \/ Fail(n, Taken(m, n))
        BY <2>5, PickFreeIsFree DEF YieldClaim
      <3>4. NodeTypes' /\ wire' \in Wires
        BY <2>1, <3>3, ClaimTypes, FailTypes
      <3>5. QED
        BY <2>5, <3>2, <3>4 DEF YieldClaim, TypeOK, NodeTypes, Wires
    <2>6. CASE AnswerRequest(m, n)
      <3>1. wire' \in Wires
        <4>1. ClaimOf(address[n]) \in Frame
          BY FrameTypes DEF TypeOK
        <4>2. QED
          BY <2>1, <2>6, <4>1, BroadcastEffect DEF AnswerRequest
      <3>2. QED
        BY <2>6, <3>1 DEF AnswerRequest, TypeOK, Wires
    <2>7. QED
      BY <1>5, <2>2, <2>3, <2>4, <2>5, <2>6 DEF Receive
  <1>6. CASE Advance
    <2>1. timer' \in [Node -> 0 .. ScanTicks + ClaimTicks]
      BY <1>6 DEF Advance, TypeOK
    <2>2. QED
      BY <1>6, <2>1 DEF Advance, TypeOK
  <1>7. CASE UNCHANGED vars
    BY <1>7 DEF vars, TypeOK
  <1>8. QED
    BY <1>1, <1>2, <1>3, <1>4, <1>5, <1>6, <1>7 DEF Next, Tick

\* Every value the state machine computes has its type, whatever the bus.
THEOREM TypeCorrect == Spec => []TypeOK
  <1>1. Init => TypeOK
    BY ClaimAssumption, FrameTypes, EmptySeq DEF Init, TypeOK, ClaimState
  <1>2. QED
    BY <1>1, TypeStep, PTL DEF Spec

-----------------------------------------------------------------------------
(* Arbitration.  Two nodes may well hold one address for a while; what is  *)
(* never lost is the claim that will end it.                               *)

\* Two holders of an address: the claim of one is on its way to the other.
ConflictKnown ==
    \A m, n \in Node :
        Holds(m) /\ Holds(n) /\ address[m] = address[n] /\ m # n
        => \/ InFlight(wire, m, n, ClaimOf(address[m]))
           \/ InFlight(wire, n, m, ClaimOf(address[m]))

\* How one node n may act without losing track of a conflict: it lets go of
\* its address, or has told every other holder of it, or keeps it and
\* consumes no claim for it.
LEMMA ConflictStep ==
    ASSUME ConflictKnown, NEW n \in Node,
           \A p \in Node \ {n} : state'[p] = state[p] /\ address'[p] = address[p],
           \A p, q \in Node \ {n} : \A f :
              InFlight(wire, p, q, f) => InFlight(wire', p, q, f),
           \/ ~Holds(n)'
           \/ \A p \in Node \ {n} :
                 Holds(p) => InFlight(wire', n, p, ClaimOf(address'[n]))
           \/ /\ Holds(n) /\ address'[n] = address[n]
              /\ \A p \in Node \ {n} :
                   LET f == ClaimOf(address[n]) IN
                   /\ InFlight(wire, p, n, f) => InFlight(wire', p, n, f)
                   /\ InFlight(wire, n, p, f) => InFlight(wire', n, p, f)
    PROVE  ConflictKnown'
  <1> SUFFICES ASSUME NEW p \in Node, NEW q \in Node,
                      Holds(p)', Holds(q)', address'[p] = address'[q], p # q
               PROVE  \/ InFlight(wire', p, q, ClaimOf(address'[p]))
                      \/ InFlight(wire', q, p, ClaimOf(address'[p]))
    BY DEF ConflictKnown
  <1>1. CASE p # n /\ q # n
    BY <1>1 DEF ConflictKnown, Holds
  <1>2. CASE p = n
    BY <1>2 DEF ConflictKnown, Holds
  <1>3. CASE q = n
    BY <1>3 DEF ConflictKnown, Holds
  <1>4. QED
    BY <1>1, <1>2, <1>3

\* Claiming an address tells every other holder, failing holds none.
LEMMA ConflictClaim ==
    ASSUME TypeOK, ConflictKnown, NEW n \in Node, NEW w \in Wires,
           \A p \in Node : \A q \in Node \ {n} : \A f :
              InFlight(wire, p, q, f) => InFlight(w, p, q, f),
           \/ \E a \in Addr : Claim(n, a, w)
           \/ Fail(n, w)
    PROVE  ConflictKnown'
  <1>1. CASE \E a \in Addr : Claim(n, a, w)
    <2>1. PICK a \in Addr : Claim(n, a, w)
      BY <1>1
    <2>2. \A p, q \in Node : \A g :
             InFlight(wire', p, q, g) <=>
               InFlight(w, p, q, g) \/ (p = n /\ Hears(n, q) /\ g = ClaimOf(a))
      BY <2>1, BroadcastEffect, FrameTypes DEF Claim
    <2>3. \A p \in Node \ {n} : state'[p] = state[p] /\ address'[p] = address[p]
      BY <2>1 DEF Claim, TypeOK
    <2>4. address'[n] = a
      BY <2>1 DEF Claim, TypeOK
    <2>5. \A p \in Node \ {n} : Holds(p) => Hears(n, p)
      BY DEF Holds, Hears
    <2>6. \A p \in Node \ {n} :
             Holds(p) => InFlight(wire', n, p, ClaimOf(address'[n]))
      BY <2>2, <2>4, <2>5
    <2>7. \A p, q \in Node \ {n} : \A f :
             InFlight(wire, p, q, f) => InFlight(wire', p, q, f)
      BY <2>2
    <2>8. QED
      BY <2>3, <2>6, <2>7, ConflictStep
  <1>2. CASE Fail(n, w)
    <2>1. \A p, q \in Node : \A g :
             InFlight(w, p, q, g) => InFlight(wire', p, q, g)
      BY <1>2, BroadcastEffect, FrameTypes DEF Fail
    <2>2. \A p \in Node \ {n} : state'[p] = state[p] /\ address'[p] = address[p]
      BY <1>2 DEF Fail, TypeOK
    <2>3. ~Holds(n)'
      BY <1>2 DEF Fail, TypeOK, Holds
    <2>4. \A p, q \in Node \ {n} : \A f :
             InFlight(wire, p, q, f) => InFlight(wire', p, q, f)
      BY <2>1
    <2>5. QED
      BY <2>2, <2>3, <2>4, ConflictStep
  <1>3. QED
    BY <1>1, <1>2

LEMMA ConflictKnownStep ==
    ASSUME DistinctNames, TypeOK, ConflictKnown, [Next]_vars
    PROVE  ConflictKnown'
  <1>0. wire \in Wires
    BY DEF TypeOK, Wires
  <1>1. ASSUME NEW n \in Node, Start(n)
        PROVE  ConflictKnown'
    <2>1. \A p \in Node \ {n} : state'[p] = state[p] /\ address'[p] = address[p]
      BY <1>1 DEF Start, TypeOK
    <2>2. ~Holds(n)'
      BY <1>1 DEF Start, TypeOK, Holds
    <2>3. \A p, q \in Node \ {n} : \A f :
             InFlight(wire, p, q, f) => InFlight(wire', p, q, f)
      BY <1>0, <1>1, BroadcastEffect, FrameTypes DEF Start
    <2>4. QED
      BY <2>1, <2>2, <2>3, ConflictStep
  <1>2. ASSUME NEW n \in Node, BeginClaim(n)
        PROVE  ConflictKnown'
    <2>1. (\E a \in Addr : Claim(n, a, wire)) \/ Fail(n, wire)
      BY <1>2, PickFreeIsFree, ClaimAssumption DEF BeginClaim
    <2>2. QED
      BY <1>0, <2>1, ConflictClaim
  <1>3. ASSUME NEW n \in Node, Own(n)
        PROVE  ConflictKnown'
    BY <1>3 DEF Own, ConflictKnown, Holds, TypeOK
  <1>4. ASSUME NEW n \in Node, Stop(n)
        PROVE  ConflictKnown'
    <2>1. state' = [state EXCEPT ![n] = "Off"]
          /\ address' = [address EXCEPT ![n] = Preferred[n]]
      BY <1>4 DEF Stop
    <2>2. \A p, q \in Node \ {n} : wire'[p][q] = wire[p][q]
      BY <1>4 DEF Stop
    <2>3. \A p, q \in Node \ {n} : \A f :
             InFlight(wire, p, q, f) => InFlight(wire', p, q, f)
      BY <2>2 DEF InFlight
    <2>4. ~Holds(n)'
      BY <2>1 DEF TypeOK, Holds
    <2>5. \A p \in Node \ {n} : state'[p] = state[p] /\ address'[p] = address[p]
      BY <2>1 DEF TypeOK
    <2>6. QED
      BY <2>3, <2>4, <2>5, ConflictStep
  <1>5. ASSUME NEW m \in Node, NEW n \in Node, Receive(m, n)
        PROVE  ConflictKnown'
    <2> DEFINE f == Head(wire[m][n])
    <2>1. wire[m][n] # <<>>
      BY <1>5 DEF Receive, IgnoreClaim, LearnClaim, DefendClaim, YieldClaim,
                  AnswerRequest, Incoming
    <2>2. /\ Taken(m, n) \in Wires
          /\ f \in Frame
          /\ \A p, q \in Node : \A g :
               InFlight(wire, p, q, g) =>
                 InFlight(Taken(m, n), p, q, g) \/ (p = m /\ q = n /\ g = f)
      BY <1>0, <2>1, TakenEffect
    <2>3. \A p \in Node : \A q \in Node \ {n} : \A g :
             InFlight(wire, p, q, g) => InFlight(Taken(m, n), p, q, g)
      BY <2>2
    \* A claim that does not concern an address n holds may be forgotten.
    <2>4. ASSUME UNCHANGED <<state, address>>,
                 \A p, q \in Node : \A g :
                    InFlight(Taken(m, n), p, q, g) => InFlight(wire', p, q, g),
                 Holds(n) /\ m # n => f # ClaimOf(address[n])
          PROVE  ConflictKnown'
      <3>1. \A p, q \in Node \ {n} : \A g :
               InFlight(wire, p, q, g) => InFlight(wire', p, q, g)
        BY <2>3, <2>4
      <3>2. \A p \in Node \ {n} : \A g :
               InFlight(wire, n, p, g) => InFlight(wire', n, p, g)
        BY <2>3, <2>4
      <3>3. Holds(n) => \A p \in Node \ {n} :
               InFlight(wire, p, n, ClaimOf(address[n])) =>
                 InFlight(wire', p, n, ClaimOf(address[n]))
        BY <2>2, <2>4
      <3>4. Holds(n)' => Holds(n)
        BY <2>4 DEF Holds
      <3>5. QED
        BY <2>4, <3>1, <3>2, <3>3, <3>4, ConflictStep
    <2>5. CASE IgnoreClaim(m, n)
      <3>1. Holds(n) /\ m # n => f # ClaimOf(address[n])
        <4>1. SUFFICES ASSUME Holds(n), m # n, f = ClaimOf(address[n])
                       PROVE  FALSE
          OBVIOUS
        <4>2. address[n] # NullAddr
          BY <4>1 DEF Holds, TypeOK
        <4>3. f.src # NullAddr
          BY <4>1, <4>2 DEF ClaimOf
        <4>4. Name[m] # Name[n]
          BY <4>1 DEF DistinctNames
        <4>5. QED
          BY <2>5, <4>1, <4>3, <4>4 DEF IgnoreClaim, Irrelevant, Holds
      <3>2. UNCHANGED <<state, address>> /\ wire' = Taken(m, n)
        BY <2>5 DEF IgnoreClaim
      <3>3. QED
        BY <2>4, <3>1, <3>2
    <2>6. CASE LearnClaim(m, n)
      <3>1. Holds(n) => f # ClaimOf(address[n])
        BY <2>6 DEF LearnClaim, Elsewhere, Holds, ClaimOf
      <3>2. UNCHANGED <<state, address>> /\ wire' = Taken(m, n)
        BY <2>6 DEF LearnClaim
      <3>3. QED
        BY <2>4, <3>1, <3>2
    <2>7. CASE DefendClaim(m, n)
      <3>1. f.src \in Addr
        BY <2>2, <2>7 DEF DefendClaim, Irrelevant, Frame
      <3>2. Claim(n, f.src, Taken(m, n))
        BY <2>7 DEF DefendClaim
      <3>3. QED
        BY <2>2, <2>3, <3>1, <3>2, ConflictClaim
    <2>8. CASE YieldClaim(m, n)
      <3>1. (\E a \in Addr : Claim(n, a, Taken(m, n))) \/ Fail(n, Taken(m, n))
        BY <2>8, PickFreeIsFree DEF YieldClaim
      <3>2. QED
        BY <2>2, <2>3, <3>1, ConflictClaim
    <2>9. CASE AnswerRequest(m, n)
      <3>1. f # ClaimOf(address[n])
        BY <2>9 DEF AnswerRequest, Incoming, ClaimOf
      <3>2. \A p, q \in Node : \A g :
               InFlight(Taken(m, n), p, q, g) => InFlight(wire', p, q, g)
        <4>1. ClaimOf(address[n]) \in Frame
          BY FrameTypes DEF TypeOK
        <4>2. QED
          BY <2>2, <2>9, <4>1, BroadcastEffect DEF AnswerRequest
      <3>3. UNCHANGED <<state, address>>
        BY <2>9 DEF AnswerRequest
      <3>4. QED
        BY <2>4, <3>1, <3>2, <3>3
    <2>10. QED
      BY <1>5, <2>5, <2>6, <2>7, <2>8, <2>9 DEF Receive
  <1>6. CASE Advance
    BY <1>6 DEF Advance, ConflictKnown, Holds
  <1>7. CASE UNCHANGED vars
    BY <1>7 DEF vars, ConflictKnown, Holds
  <1>8. QED
    BY <1>1, <1>2, <1>3, <1>4, <1>5, <1>6, <1>7 DEF Next, Tick

LEMMA ConflictKnownQuiet == ConflictKnown /\ TypeOK => QuietMeansUnique
  BY DEF ConflictKnown, QuietMeansUnique, Quiet, InFlight

LEMMA ConflictKnownAlways ==
    ASSUME DistinctNames
    PROVE  Spec => []ConflictKnown
  <1>1. Init => ConflictKnown
    BY DEF Init, ConflictKnown, Holds
  <1>2. TypeOK /\ ConflictKnown /\ [Next]_vars => ConflictKnown'
    BY ConflictKnownStep
  <1>3. QED
    BY <1>1, <1>2, TypeCorrect, PTL DEF Spec

\* Once every frame is handled no two nodes hold one address, whatever the
\* delays, the switching on and off, and the addresses preferred.
THEOREM QuietUniqueness ==
    ASSUME DistinctNames
    PROVE  Spec => []QuietMeansUnique
  BY ConflictKnownAlways, TypeCorrect, ConflictKnownQuiet, PTL

-----------------------------------------------------------------------------
(* Exclusive ownership on a timely bus.  No time passes while a conflict   *)
(* is open, so the later of two holders still has its whole timeout left.  *)

Fresh(n) == state[n] = "Pending" /\ timer[n] = ClaimTicks

FreshConflict ==
    Timely => \A m, n \in Node :
                 Holds(m) /\ Holds(n) /\ address[m] = address[n] /\ m # n
                 => Fresh(m) \/ Fresh(n)

\* n lets go, starts its timeout afresh, or stays as it is.
LEMMA FreshStep ==
    ASSUME FreshConflict, NEW n \in Node,
           \A p \in Node \ {n} : /\ state'[p] = state[p]
                                 /\ address'[p] = address[p]
                                 /\ timer'[p] = timer[p],
           ~Holds(n)' \/ Fresh(n)'
    PROVE  FreshConflict'
  BY DEF FreshConflict, Holds, Fresh

LEMMA FreshConflictStep ==
    ASSUME TypeOK, FreshConflict, QuietMeansUnique, [Next]_vars
    PROVE  FreshConflict'
  <1>1. ASSUME NEW n \in Node, NEW w,
               (\E a : Claim(n, a, w)) \/ Fail(n, w)
        PROVE  FreshConflict'
    <2>1. \A p \in Node \ {n} : /\ state'[p] = state[p]
                                /\ address'[p] = address[p]
                                /\ timer'[p] = timer[p]
      BY <1>1 DEF Claim, Fail, TypeOK
    <2>2. ~Holds(n)' \/ Fresh(n)'
      BY <1>1 DEF Claim, Fail, TypeOK, Holds, Fresh
    <2>3. QED
      BY <2>1, <2>2, FreshStep
  <1>2. CASE UNCHANGED <<state, address, timer>>
    BY <1>2 DEF FreshConflict, Holds, Fresh
  <1>3. ASSUME NEW n \in Node, Start(n) \/ Stop(n)
        PROVE  FreshConflict'
    <2>1. \A p \in Node \ {n} : /\ state'[p] = state[p]
                                /\ address'[p] = address[p]
                                /\ timer'[p] = timer[p]
      BY <1>3 DEF Start, Stop, TypeOK
    <2>2. ~Holds(n)'
      BY <1>3 DEF Start, Stop, TypeOK, Holds
    <2>3. QED
      BY <2>1, <2>2, FreshStep
  <1>4. ASSUME NEW n \in Node, BeginClaim(n)
        PROVE  FreshConflict'
    BY <1>4, <1>1 DEF BeginClaim
  <1>5. ASSUME NEW n \in Node, Own(n)
        PROVE  FreshConflict'
    <2>1. ~Fresh(n)
      BY <1>5, ClaimAssumption DEF Own, Fresh
    <2>2. /\ state[n] = "Pending" /\ state' = [state EXCEPT ![n] = "Claimed"]
          /\ address' = address /\ timer' = timer
      BY <1>5 DEF Own
    <2>3. \A p \in Node : Holds(p)' <=> Holds(p)
      BY <2>2 DEF Holds, TypeOK
    <2>4. \A p \in Node \ {n} : Fresh(p)' <=> Fresh(p)
      BY <2>2 DEF Fresh, TypeOK
    <2>5. QED
      BY <2>1, <2>2, <2>3, <2>4 DEF FreshConflict
  <1>6. ASSUME NEW m \in Node, NEW n \in Node, Receive(m, n)
        PROVE  FreshConflict'
    <2>1. CASE IgnoreClaim(m, n) \/ LearnClaim(m, n) \/ AnswerRequest(m, n)
      BY <2>1, <1>2 DEF IgnoreClaim, LearnClaim, AnswerRequest
    <2>2. CASE DefendClaim(m, n)
      BY <2>2, <1>1 DEF DefendClaim
    <2>3. CASE YieldClaim(m, n)
      BY <2>3, <1>1 DEF YieldClaim
    <2>4. QED
      BY <1>6, <2>1, <2>2, <2>3 DEF Receive
  <1>7. CASE Advance
    <2>1. Timely => Quiet /\ UNCHANGED <<state, address>>
      BY <1>7 DEF Advance
    <2>2. QED
      BY <2>1 DEF QuietMeansUnique, FreshConflict, Holds
  <1>8. CASE UNCHANGED vars
    BY <1>8, <1>2 DEF vars
  <1>9. QED
    BY <1>3, <1>4, <1>5, <1>6, <1>7, <1>8 DEF Next, Tick

LEMMA FreshConflictExclusive == FreshConflict => ExclusiveOwnership
  BY DEF FreshConflict, ExclusiveOwnership, Holds, Fresh

\* If frames are handled before the claim timeout can run out, no address is
\* ever owned twice: not by two nodes that claim at once, not across restarts.
THEOREM OwnershipIsExclusive ==
    ASSUME DistinctNames
    PROVE  Spec => []ExclusiveOwnership
  <1>1. Init => FreshConflict
    BY DEF Init, FreshConflict, Holds
  <1>2. TypeOK /\ QuietMeansUnique /\ FreshConflict /\ [Next]_vars
        => FreshConflict'
    BY FreshConflictStep
  <1>3. QED
    BY <1>1, <1>2, TypeCorrect, QuietUniqueness, FreshConflictExclusive, PTL
       DEF Spec

-----------------------------------------------------------------------------
(* Losing to a lower NAME.  While nobody is switched off, a claim in       *)
(* flight and an address noted as used both stand for a node that holds    *)
(* the address now: whoever gave it up gave it up to a lower NAME.         *)

HeldBy(k, a) == Holds(k) /\ address[k] = a

ClaimsBacked ==
    \A m, n \in Node : \A a \in Addr :
        InFlight(wire, m, n, ClaimOf(a))
        => \E k \in Node : HeldBy(k, a) /\ Name[k] <= Name[m]

UsedBacked ==
    \A n \in Node : \A a \in used[n] : \E k \in Node : HeldBy(k, a)

OwnNotUsed == \A n \in Node : Holds(n) => address[n] \notin used[n]

Backed == ClaimsBacked /\ UsedBacked /\ OwnNotUsed

\* n is not switched off, and if it lets go of an address then to a node k of
\* lower NAME that holds it; frames it adds announce an address it holds.
LEMMA BackedStep ==
    ASSUME TypeOK, TypeOK', Backed, NEW n \in Node,
           \A p \in Node \ {n} : /\ state'[p] = state[p]
                                 /\ address'[p] = address[p]
                                 /\ used'[p] = used[p],
           \A p, q \in Node : \A a \in Addr :
              InFlight(wire', p, q, ClaimOf(a)) =>
                \/ InFlight(wire, p, q, ClaimOf(a))
                \/ p = n /\ HeldBy(n, a)',
           \A a \in Addr : HeldBy(n, a) =>
              \/ HeldBy(n, a)'
              \/ \E k \in Node \ {n} : HeldBy(k, a) /\ Name[k] <= Name[n],
           \A a \in used'[n] : a \in used[n] \/ \E k \in Node \ {n} : HeldBy(k, a),
           Holds(n)' => address'[n] \notin used'[n]
    PROVE  Backed'
  <1> USE ClaimAssumption
  <1>1. ASSUME NEW a \in Addr, NEW k \in Node, HeldBy(k, a)
        PROVE  \E j \in Node : HeldBy(j, a)' /\ Name[j] <= Name[k]
    <2>1. CASE k # n
      BY <1>1, <2>1 DEF HeldBy, Holds
    <2>2. CASE k = n
      <3>1. CASE HeldBy(n, a)'
        BY <2>2, <3>1
      <3>2. CASE \E j \in Node \ {n} : HeldBy(j, a) /\ Name[j] <= Name[n]
        BY <2>2, <3>2 DEF HeldBy, Holds
      <3>3. QED
        BY <1>1, <2>2, <3>1, <3>2
    <2>3. QED
      BY <2>1, <2>2
  <1>2. ClaimsBacked'
    <2> SUFFICES ASSUME NEW p \in Node, NEW q \in Node, NEW a \in Addr,
                        InFlight(wire', p, q, ClaimOf(a))
                 PROVE  \E k \in Node : HeldBy(k, a)' /\ Name[k] <= Name[p]
      BY DEF ClaimsBacked
    <2>1. CASE p = n /\ HeldBy(n, a)'
      BY <2>1
    <2>2. CASE InFlight(wire, p, q, ClaimOf(a))
      <3>1. PICK k \in Node : HeldBy(k, a) /\ Name[k] <= Name[p]
        BY <2>2 DEF Backed, ClaimsBacked
      <3>2. PICK j \in Node : HeldBy(j, a)' /\ Name[j] <= Name[k]
        BY <3>1, <1>1
      <3>3. Name[j] <= Name[p]
        BY <3>1, <3>2
      <3>4. QED
        BY <3>2, <3>3
    <2>3. QED
      BY <2>1, <2>2
  <1>3. UsedBacked'
    <2> SUFFICES ASSUME NEW p \in Node, NEW a \in used'[p]
                 PROVE  \E k \in Node : HeldBy(k, a)'
      BY DEF UsedBacked
    <2>1. a \in Addr
      BY DEF TypeOK
    <2>2. \E k \in Node : HeldBy(k, a)
      BY DEF Backed, UsedBacked
    <2>3. QED
      BY <2>1, <2>2, <1>1
  <1>4. OwnNotUsed'
    <2> SUFFICES ASSUME NEW p \in Node, Holds(p)'
                 PROVE  address'[p] \notin used'[p]
      BY DEF OwnNotUsed
    <2>1. CASE p = n
      BY <2>1
    <2>2. CASE p # n
      BY <2>2 DEF Backed, OwnNotUsed, Holds
    <2>3. QED
      BY <2>1, <2>2
  <1>5. QED
    BY <1>2, <1>3, <1>4 DEF Backed

\* The claim that makes n yield is backed by another node of lower NAME.
LEMMA YieldBacked ==
    ASSUME TypeOK, Backed, NEW m \in Node, NEW n \in Node, YieldClaim(m, n)
    PROVE  LET a == Head(wire[m][n]).src IN
           /\ a \in Addr /\ address[n] = a /\ state[n] # "Scanning"
           /\ Name[m] < Name[n]
           /\ \E k \in Node \ {n} : HeldBy(k, a) /\ Name[k] <= Name[m]
  <1> DEFINE f == Head(wire[m][n])
             a == f.src
  <1>1. /\ wire[m][n] # <<>> /\ f.kind = "claim"
        /\ a # NullAddr /\ Name[m] # Name[n] /\ ~(Name[n] < Name[m])
        /\ address[n] = a /\ state[n] # "Scanning"
    BY DEF YieldClaim, Incoming, Irrelevant, Elsewhere
  <1>2. wire \in Wires
    BY DEF TypeOK, Wires
  <1>3. f \in Frame /\ InFlight(wire, m, n, f)
    BY <1>1, <1>2, TakenEffect
  <1>4. a \in Addr /\ f = ClaimOf(a)
    BY <1>1, <1>3 DEF Frame, ClaimOf
  <1>5. Name[m] < Name[n]
    BY <1>1, ClaimAssumption
  <1>6. PICK k \in Node : HeldBy(k, a) /\ Name[k] <= Name[m]
    BY <1>3, <1>4 DEF Backed, ClaimsBacked
  <1>7. k # n
    BY <1>5, <1>6, ClaimAssumption
  <1>8. QED
    BY <1>1, <1>4, <1>5, <1>6, <1>7

\* A claim by n of an address nobody told it of.
LEMMA BackedClaim ==
    ASSUME TypeOK, TypeOK', Backed, NEW n \in Node, NEW w \in Wires,
           \A p, q \in Node : \A f : InFlight(w, p, q, f) => InFlight(wire, p, q, f),
           \/ \E a \in Addr : Claim(n, a, w) /\ a \notin used'[n]
           \/ Fail(n, w),
           \A p \in Node \ {n} : used'[p] = used[p],
           \A a \in Addr : HeldBy(n, a) =>
              \/ HeldBy(n, a)'
              \/ \E k \in Node \ {n} : HeldBy(k, a) /\ Name[k] <= Name[n],
           \A a \in used'[n] : a \in used[n] \/ \E k \in Node \ {n} : HeldBy(k, a)
    PROVE  Backed'
  <1>1. CASE \E a \in Addr : Claim(n, a, w) /\ a \notin used'[n]
    <2>1. PICK a \in Addr : Claim(n, a, w) /\ a \notin used'[n]
      BY <1>1
    <2>2. /\ \A p \in Node \ {n} : state'[p] = state[p] /\ address'[p] = address[p]
          /\ state'[n] = "Pending" /\ address'[n] = a
      BY <2>1 DEF Claim, TypeOK
    <2>3. \A p, q \in Node : \A g :
             InFlight(wire', p, q, g) <=>
               InFlight(w, p, q, g) \/ (p = n /\ Hears(n, q) /\ g = ClaimOf(a))
      BY <2>1, BroadcastEffect, FrameTypes DEF Claim
    <2>4. \A p, q \in Node : \A b \in Addr :
             InFlight(wire', p, q, ClaimOf(b)) =>
               InFlight(wire, p, q, ClaimOf(b)) \/ (p = n /\ HeldBy(n, b)')
      <3> SUFFICES ASSUME NEW p \in Node, NEW q \in Node, NEW b \in Addr,
                          InFlight(wire', p, q, ClaimOf(b)),
                          ~InFlight(wire, p, q, ClaimOf(b))
                   PROVE  p = n /\ HeldBy(n, b)'
        OBVIOUS
      <3>1. p = n /\ ClaimOf(b) = ClaimOf(a)
        BY <2>3
      <3>2. b = a
        BY <3>1 DEF ClaimOf
      <3>3. QED
        BY <2>2, <3>1, <3>2 DEF HeldBy, Holds
    <2>5. Holds(n)' => address'[n] \notin used'[n]
      BY <2>1, <2>2
    <2>6. QED
      BY <2>2, <2>4, <2>5, BackedStep
  <1>2. CASE Fail(n, w)
    <2>1. /\ \A p \in Node \ {n} : state'[p] = state[p] /\ address'[p] = address[p]
          /\ state'[n] = "Failed"
      BY <1>2 DEF Fail, TypeOK
    <2>2. \A p, q \in Node : \A g :
             InFlight(wire', p, q, g) <=>
               \/ InFlight(w, p, q, g)
               \/ p = n /\ Hears(n, q) /\ g = ClaimOf(NullAddr)
      BY <1>2, BroadcastEffect, FrameTypes DEF Fail
    <2>3. \A b \in Addr : ClaimOf(b) # ClaimOf(NullAddr)
      BY FrameTypes DEF ClaimOf
    <2>4. \A p, q \in Node : \A b \in Addr :
             InFlight(wire', p, q, ClaimOf(b)) => InFlight(wire, p, q, ClaimOf(b))
      BY <2>2, <2>3
    <2>5. ~Holds(n)'
      BY <2>1 DEF Holds
    <2>6. QED
      BY <2>1, <2>4, <2>5, BackedStep
  <1>3. QED
    BY <1>1, <1>2

LEMMA BackedNext ==
    ASSUME MaxStops = 0, TypeOK, TypeOK', Backed, [Next]_vars
    PROVE  Backed'
  <1>0. wire \in Wires
    BY DEF TypeOK, Wires
  \* Nobody's holding changes, no claim is added.
  <1>1. ASSUME \A p \in Node : Holds(p)' <=> Holds(p),
               UNCHANGED <<address, used>>,
               \A p, q \in Node : \A a \in Addr :
                 InFlight(wire', p, q, ClaimOf(a)) => InFlight(wire, p, q, ClaimOf(a))
        PROVE  Backed'
    BY <1>1 DEF Backed, ClaimsBacked, UsedBacked, OwnNotUsed, HeldBy, TypeOK
  <1>2. ASSUME NEW n \in Node, Start(n)
        PROVE  Backed'
    <2>1. \A p \in Node : Holds(p)' <=> Holds(p)
      BY <1>2 DEF Start, Holds, TypeOK
    <2>2. UNCHANGED <<address, used>>
      BY <1>2 DEF Start
    <2>3. \A a \in Addr : ClaimOf(a) # Request
      BY DEF ClaimOf, Request
    <2>4. \A p, q \in Node : \A a \in Addr :
             InFlight(wire', p, q, ClaimOf(a)) => InFlight(wire, p, q, ClaimOf(a))
      <3>1. CASE wire' = wire
        BY <3>1
      <3>2. CASE wire' = Broadcast(wire, n, Request)
        BY <1>0, <2>3, <3>2, BroadcastEffect, FrameTypes
      <3>3. QED
        BY <1>2, <3>1, <3>2 DEF Start
    <2>5. QED
      BY <1>1, <2>1, <2>2, <2>4
  <1>3. ASSUME NEW n \in Node, BeginClaim(n)
        PROVE  Backed'
    <2>1. ~Holds(n) /\ used' = used
      BY <1>3 DEF BeginClaim, Holds
    <2>2. \/ \E a \in Addr : Claim(n, a, wire) /\ a \notin used'[n]
          \/ Fail(n, wire)
      BY <1>3, <2>1, PickFreeIsFree, ClaimAssumption DEF BeginClaim
    <2>3. \A a \in Addr : ~HeldBy(n, a)
      BY <2>1 DEF HeldBy
    <2>4. QED
      BY <1>0, <2>1, <2>2, <2>3, BackedClaim
  <1>4. ASSUME NEW n \in Node, Own(n)
        PROVE  Backed'
    <2>1. \A p \in Node : Holds(p)' <=> Holds(p)
      BY <1>4 DEF Own, Holds, TypeOK
    <2>2. QED
      BY <1>1, <1>4, <2>1 DEF Own
  <1>5. ASSUME NEW n \in Node, Stop(n)
        PROVE  FALSE
    BY <1>5 DEF Stop, TypeOK
  <1>6. ASSUME NEW m \in Node, NEW n \in Node, Receive(m, n)
        PROVE  Backed'
    <2> DEFINE f == Head(wire[m][n])
    <2>1. wire[m][n] # <<>>
      BY <1>6 DEF Receive, IgnoreClaim, LearnClaim, DefendClaim, YieldClaim,
                  AnswerRequest, Incoming
    <2>2. /\ Taken(m, n) \in Wires
          /\ f \in Frame
          /\ InFlight(wire, m, n, f)
          /\ \A p, q \in Node : \A g :
               InFlight(Taken(m, n), p, q, g) => InFlight(wire, p, q, g)
      BY <1>0, <2>1, TakenEffect
    <2>3. CASE IgnoreClaim(m, n)
      BY <1>1, <2>2, <2>3 DEF IgnoreClaim, Holds
    <2>4. CASE LearnClaim(m, n)
      <3>1. f.src \in Addr /\ f = ClaimOf(f.src)
        BY <2>2, <2>4 DEF LearnClaim, Incoming, Irrelevant, Frame, ClaimOf
      <3>2. PICK k \in Node : HeldBy(k, f.src)
        BY <2>2, <3>1 DEF Backed, ClaimsBacked
      <3>3. ~HeldBy(n, f.src)
        BY <2>4 DEF LearnClaim, Elsewhere, HeldBy, Holds
      <3>4. /\ state' = state /\ address' = address /\ wire' = Taken(m, n)
            /\ used' = [used EXCEPT ![n] = @ \cup {f.src}]
        BY <2>4 DEF LearnClaim
      <3>5. \A a \in used'[n] : a \in used[n] \/ \E j \in Node \ {n} : HeldBy(j, a)
        BY <3>2, <3>3, <3>4 DEF TypeOK
      <3>6. \A a \in Addr : HeldBy(n, a) => HeldBy(n, a)'
        BY <3>4 DEF HeldBy, Holds
      <3>7. Holds(n)' => address'[n] \notin used'[n]
        BY <3>3, <3>4 DEF Holds, HeldBy, Backed, OwnNotUsed, TypeOK
      <3>8. \A p \in Node \ {n} : used'[p] = used[p]
        BY <3>4 DEF TypeOK
      <3>9. QED
        BY <2>2, <3>4, <3>5, <3>6, <3>7, <3>8, BackedStep
    <2>5. CASE DefendClaim(m, n)
      <3>1. /\ f.src \in Addr /\ f.src = address[n] /\ f = ClaimOf(f.src)
            /\ Claim(n, f.src, Taken(m, n)) /\ used' = used
            /\ state[n] \notin {"Scanning", "Disabled", "Off"}
        BY <2>2, <2>5 DEF DefendClaim, Incoming, Irrelevant, Elsewhere, Frame, ClaimOf
      <3>2. \A a \in Addr : HeldBy(n, a) => HeldBy(n, a)'
        BY <3>1 DEF Claim, HeldBy, Holds, TypeOK
      <3>3. f.src \notin used'[n]
        <4>1. CASE Holds(n)
          BY <3>1, <4>1 DEF Backed, OwnNotUsed
        <4>2. CASE state[n] = "Failed"
          BY <3>1, <4>2, FrameTypes DEF TypeOK
        <4>3. QED
          BY <3>1, <4>1, <4>2 DEF TypeOK, ClaimState, Holds
      <3>4. QED
        BY <2>2, <3>1, <3>2, <3>3, BackedClaim
    <2>6. CASE YieldClaim(m, n)
      <3> DEFINE a == f.src
                 u == used[n] \cup {a}
      <3>1. /\ a \in Addr /\ address[n] = a /\ Name[m] < Name[n]
            /\ \E k \in Node \ {n} : HeldBy(k, a) /\ Name[k] <= Name[m]
        BY <2>6, YieldBacked
      <3>2. PICK k \in Node \ {n} : HeldBy(k, a) /\ Name[k] <= Name[m]
        BY <3>1
      <3>3. Name[k] <= Name[n]
        BY <3>1, <3>2, ClaimAssumption
      <3>4. used' = [used EXCEPT ![n] = u]
        BY <2>6 DEF YieldClaim
      <3>5. used'[n] = u /\ \A p \in Node \ {n} : used'[p] = used[p]
        BY <3>4 DEF TypeOK
      <3>6. \/ \E b \in Addr : Claim(n, b, Taken(m, n)) /\ b \notin used'[n]
            \/ Fail(n, Taken(m, n))
        BY <2>6, <3>5, PickFreeIsFree DEF YieldClaim
      <3>7. \A b \in Addr : HeldBy(n, b) =>
              \E j \in Node \ {n} : HeldBy(j, b) /\ Name[j] <= Name[n]
        BY <3>1, <3>2, <3>3 DEF HeldBy
      <3>8. \A b \in used'[n] : b \in used[n] \/ \E j \in Node \ {n} : HeldBy(j, b)
        BY <3>2, <3>5
      <3>9. QED
        BY <2>2, <3>5, <3>6, <3>7, <3>8, BackedClaim
    <2>7. CASE AnswerRequest(m, n)
      <3>1. UNCHANGED <<state, address, used>>
        BY <2>7 DEF AnswerRequest
      <3>2. \A p, q \in Node : \A b \in Addr :
              InFlight(wire', p, q, ClaimOf(b)) =>
                InFlight(wire, p, q, ClaimOf(b)) \/ (p = n /\ HeldBy(n, b)')
        <4>1. CASE ~Holds(n)
          BY <2>2, <2>7, <4>1 DEF AnswerRequest
        <4>2. CASE Holds(n)
          <5>1. ClaimOf(address[n]) \in Frame
            BY FrameTypes DEF TypeOK
          <5>2. wire' = Broadcast(Taken(m, n), n, ClaimOf(address[n]))
            BY <2>7, <4>2 DEF AnswerRequest
          <5>3. \A b : ClaimOf(b) = ClaimOf(address[n]) => b = address[n]
            BY DEF ClaimOf
          <5>4. HeldBy(n, address[n])'
            BY <3>1, <4>2 DEF HeldBy, Holds
          <5>5. QED
            BY <2>2, <5>1, <5>2, <5>3, <5>4, <3>1, BroadcastEffect
        <4>3. QED
          BY <4>1, <4>2
      <3>3. \A b \in Addr : HeldBy(n, b) => HeldBy(n, b)'
        BY <3>1 DEF HeldBy, Holds
      <3>4. Holds(n)' => address'[n] \notin used'[n]
        BY <3>1 DEF Holds, Backed, OwnNotUsed
      <3>5. QED
        BY <3>1, <3>2, <3>3, <3>4, BackedStep
    <2>8. QED
      BY <1>6, <2>3, <2>4, <2>5, <2>6, <2>7 DEF Receive
  <1>7. CASE Advance
    BY <1>1, <1>7 DEF Advance, Holds
  <1>8. CASE UNCHANGED vars
    BY <1>1, <1>8 DEF vars, Holds
  <1>9. QED
    BY <1>2, <1>3, <1>4, <1>5, <1>6, <1>7, <1>8 DEF Next, Tick

LEMMA BackedAlways ==
    ASSUME MaxStops = 0
    PROVE  Spec => []Backed
  <1>1. Init => Backed
    BY DEF Init, Backed, ClaimsBacked, UsedBacked, OwnNotUsed, InFlight, Holds
  <1>2. TypeOK /\ TypeOK' /\ Backed /\ [Next]_vars => Backed'
    BY BackedNext
  <1>3. QED
    BY <1>1, <1>2, TypeCorrect, PTL DEF Spec

\* Only yielding, the end of a scan and switching off let go of an address.
LEMMA LettingGo ==
    ASSUME TypeOK, NEW n \in Node, [Next]_vars,
           \/ Holds(n) /\ ~(Holds(n)' /\ address'[n] = address[n])
           \/ state[n] # "Failed" /\ state'[n] = "Failed"
    PROVE  \/ \E m \in Node : YieldClaim(m, n)
           \/ BeginClaim(n) /\ ~Holds(n)
           \/ Stop(n) /\ state'[n] = "Off"
  <1>1. ASSUME NEW p \in Node, Start(p) \/ Own(p)
        PROVE  FALSE
    BY <1>1 DEF Start, Own, Holds, TypeOK
  <1>2. ASSUME NEW p \in Node, BeginClaim(p)
        PROVE  p = n /\ ~Holds(n)
    <2>1. p # n => state'[n] = state[n] /\ address'[n] = address[n]
      BY <1>2 DEF BeginClaim, Claim, Fail, TypeOK
    <2>2. state[p] = "Scanning"
      BY <1>2 DEF BeginClaim
    <2>3. QED
      BY <2>1, <2>2 DEF Holds
  <1>3. ASSUME NEW p \in Node, Stop(p)
        PROVE  p = n /\ state'[n] = "Off"
    <2>1. /\ state' = [state EXCEPT ![p] = "Off"]
          /\ address' = [address EXCEPT ![p] = Preferred[p]]
      BY <1>3 DEF Stop
    <2>2. QED
      BY <2>1 DEF TypeOK, Holds
  <1>4. ASSUME NEW m \in Node, NEW p \in Node, Receive(m, p)
        PROVE  p = n /\ YieldClaim(m, n)
    <2>1. ~(IgnoreClaim(m, p) \/ LearnClaim(m, p) \/ AnswerRequest(m, p))
      BY DEF IgnoreClaim, LearnClaim, AnswerRequest, Holds
    <2>2. ~DefendClaim(m, p)
      <3>1. SUFFICES ASSUME DefendClaim(m, p) PROVE FALSE
        OBVIOUS
      <3>2. /\ Claim(p, Head(wire[m][p]).src, Taken(m, p))
            /\ Head(wire[m][p]).src = address[p]
        BY <3>1 DEF DefendClaim, Elsewhere
      <3>3. QED
        BY <3>2 DEF Claim, Holds, TypeOK
    <2>3. YieldClaim(m, p)
      BY <1>4, <2>1, <2>2 DEF Receive
    <2>4. p # n => state'[n] = state[n] /\ address'[n] = address[n]
      BY <2>3 DEF YieldClaim, Claim, Fail, TypeOK
    <2>5. QED
      BY <2>3, <2>4 DEF Holds
  <1>5. CASE Advance \/ UNCHANGED vars
    BY <1>5 DEF Advance, vars, Holds
  <1>6. QED
    BY <1>1, <1>2, <1>3, <1>4, <1>5 DEF Next, Tick

\* While nobody is switched off, a node gives up an address only to a lower
\* NAME that holds it at that moment.
THEOREM YieldingIsToLower ==
    ASSUME MaxStops = 0
    PROVE  Spec => YieldsOnlyToLower
  <1>1. TypeOK /\ Backed /\ [Next]_vars => [YieldsToLower]_vars
    <2> SUFFICES ASSUME TypeOK, Backed, [Next]_vars, NEW n \in Node,
                        Holds(n), state'[n] # "Off",
                        ~(Holds(n)' /\ address'[n] = address[n])
                 PROVE  \E m \in Node : /\ Holds(m) /\ address[m] = address[n]
                                        /\ Name[m] < Name[n]
      BY DEF YieldsToLower
    <2>1. PICK m \in Node : YieldClaim(m, n)
      BY LettingGo
    <2>2. PICK k \in Node : HeldBy(k, address[n]) /\ Name[k] <= Name[m]
      BY <2>1, YieldBacked
    <2>3. Name[m] < Name[n]
      BY <2>1, YieldBacked
    <2>4. Name[k] < Name[n]
      BY <2>2, <2>3, ClaimAssumption
    <2>5. QED
      BY <2>2, <2>4 DEF HeldBy
  <1>2. QED
    BY <1>1, TypeCorrect, BackedAlways, PTL DEF Spec, YieldsOnlyToLower

\* While nobody is switched off, an arbitrary-address-capable node fails only
\* when every address is held by another node.
THEOREM FailingIsOnFullBus ==
    ASSUME MaxStops = 0
    PROVE  Spec => FailsOnlyOnFullBus
  <1>1. TypeOK /\ Backed /\ [Next]_vars => [FailsOnFullBus]_vars
    <2> SUFFICES ASSUME TypeOK, Backed, [Next]_vars, NEW n \in Node, NEW a \in Addr,
                        Arbitrary[n], state[n] # "Failed", state'[n] = "Failed"
                 PROVE  HeldByOther(n, a)
      BY DEF FailsOnFullBus
    <2>1. ASSUME a \in used[n]
          PROVE  HeldByOther(n, a)
      BY <2>1 DEF Backed, UsedBacked, OwnNotUsed, HeldBy, HeldByOther
    <2>2. CASE BeginClaim(n)
      <3>1. a \in used[n]
        BY <2>2 DEF BeginClaim, Claim, Free, TypeOK
      <3>2. QED
        BY <2>1, <3>1
    <2>3. ASSUME NEW m \in Node, YieldClaim(m, n)
          PROVE  HeldByOther(n, a)
      <3>1. a \in used[n] \cup {Head(wire[m][n]).src}
        BY <2>3 DEF YieldClaim, Claim, Free, TypeOK
      <3>2. \E k \in Node \ {n} : HeldBy(k, Head(wire[m][n]).src)
        BY <2>3, YieldBacked
      <3>3. QED
        BY <2>1, <3>1, <3>2 DEF HeldBy, HeldByOther
    <2>4. QED
      BY <2>2, <2>3, LettingGo
  <1>2. QED
    BY <1>1, TypeCorrect, BackedAlways, PTL DEF Spec, FailsOnlyOnFullBus

-----------------------------------------------------------------------------
(* Implementation of the abstract ownership.                               *)

\* A node whose owned address is unchanged, or dropped, steps the
\* specification's way.
LEMMA OwnershipRelease ==
    ASSUME TypeOK, NEW n \in Node,
           \A p \in Node \ {n} : Owned'[p] = Owned[p],
           Owned'[n] \in {Owned[n], NullAddr}
    PROVE  [Ownership!Next]_Owned
  <1>1. CASE Owned'[n] = Owned[n]
    <2>1. Owned' = Owned
      BY <1>1 DEF Owned
    <2>2. QED
      BY <2>1
  <1>2. CASE Owned'[n] = NullAddr /\ Owned[n] # NullAddr
    <2>1. Owned[n] \in Addr
      BY <1>2 DEF Owned, TypeOK
    <2>2. Owned' = [Owned EXCEPT ![n] = NullAddr]
      BY <1>2 DEF Owned
    <2>3. Ownership!Release(n)
      BY <2>1, <2>2 DEF Ownership!Release
    <2>4. QED
      BY <2>3 DEF Ownership!Next
  <1>3. QED
    BY <1>1, <1>2

LEMMA OwnershipStep ==
    ASSUME Timely, TypeOK, ExclusiveOwnership', [Next]_vars
    PROVE  [Ownership!Next]_Owned
  <1>1. ASSUME NEW n \in Node,
               \A p \in Node \ {n} : state'[p] = state[p] /\ address'[p] = address[p],
               state'[n] # "Claimed"
        PROVE  [Ownership!Next]_Owned
    <2>1. /\ \A p \in Node \ {n} : Owned'[p] = Owned[p]
          /\ Owned'[n] = NullAddr
      BY <1>1 DEF Owned
    <2>2. QED
      BY <2>1, OwnershipRelease
  <1>2. CASE UNCHANGED <<state, address>>
    BY <1>2 DEF Owned
  <1>3. ASSUME NEW n \in Node, NEW w, (\E a : Claim(n, a, w)) \/ Fail(n, w)
        PROVE  [Ownership!Next]_Owned
    BY <1>3, <1>1 DEF Claim, Fail, TypeOK
  <1>4. ASSUME NEW n \in Node, Start(n) \/ Stop(n)
        PROVE  [Ownership!Next]_Owned
    BY <1>4, <1>1 DEF Start, Stop, TypeOK
  <1>5. ASSUME NEW n \in Node, BeginClaim(n)
        PROVE  [Ownership!Next]_Owned
    BY <1>5, <1>3 DEF BeginClaim
  <1>6. ASSUME NEW n \in Node, Own(n)
        PROVE  [Ownership!Next]_Owned
    <2>1. /\ state[n] = "Pending" /\ state' = [state EXCEPT ![n] = "Claimed"]
          /\ address' = address
      BY <1>6 DEF Own
    <2>2. Owned[n] = NullAddr
      BY <2>1 DEF Owned
    <2>3. address[n] \in Addr
      BY <2>1 DEF TypeOK
    <2>4. Owned' = [Owned EXCEPT ![n] = address[n]]
      BY <2>1 DEF Owned, TypeOK
    <2>5. \A p \in Node : Owned[p] # address[n]
      <3>1. SUFFICES ASSUME NEW p \in Node, Owned[p] = address[n]
                     PROVE  FALSE
        OBVIOUS
      <3>2. p # n
        BY <2>2, <2>3, <3>1, FrameTypes
      <3>3. state[p] = "Claimed" /\ address[p] = address[n]
        BY <2>3, <3>1, FrameTypes DEF Owned
      <3>4. state'[p] = "Claimed" /\ state'[n] = "Claimed" /\ address'[p] = address'[n]
        BY <2>1, <3>2, <3>3 DEF TypeOK
      <3>5. QED
        BY <3>2, <3>4 DEF ExclusiveOwnership
    <2>6. Ownership!Acquire(n, address[n])
      BY <2>2, <2>4, <2>5 DEF Ownership!Acquire, Ownership!Free
    <2>7. QED
      BY <2>3, <2>6 DEF Ownership!Next
  <1>7. ASSUME NEW m \in Node, NEW n \in Node, Receive(m, n)
        PROVE  [Ownership!Next]_Owned
    <2>1. CASE IgnoreClaim(m, n) \/ LearnClaim(m, n) \/ AnswerRequest(m, n)
      BY <2>1, <1>2 DEF IgnoreClaim, LearnClaim, AnswerRequest
    <2>2. CASE DefendClaim(m, n) \/ YieldClaim(m, n)
      BY <2>2, <1>3 DEF DefendClaim, YieldClaim
    <2>3. QED
      BY <1>7, <2>1, <2>2 DEF Receive
  <1>8. CASE Advance \/ UNCHANGED vars
    BY <1>8, <1>2 DEF Advance, vars
  <1>9. QED
    BY <1>4, <1>5, <1>6, <1>7, <1>8 DEF Next, Tick

\* On a timely bus the claim protocol implements exclusive ownership: an
\* address is taken only while free and changes hands only through release.
THEOREM ClaimImplementsOwnership ==
    ASSUME DistinctNames, Timely
    PROVE  Spec => ImplementsOwnership
  <1>1. Init => Ownership!Init
    BY DEF Init, Owned, Ownership!Init
  <1>2. TypeOK /\ ExclusiveOwnership' /\ [Next]_vars => [Ownership!Next]_Owned
    BY OwnershipStep
  <1>3. QED
    BY <1>1, <1>2, TypeCorrect, OwnershipIsExclusive, PTL
       DEF Spec, ImplementsOwnership, Ownership!Spec
=============================================================================
