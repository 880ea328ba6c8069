-------------------------- MODULE CanWorkerProofs --------------------------
(***************************************************************************)
(* Theorems about CanWorker for every ring, bus and set of users.          *)
(***************************************************************************)
EXTENDS CanWorker, WellFoundedInduction, TLAPS

-----------------------------------------------------------------------------
(* What is put in the ring.                                                *)

\* m is (part of) a message of PGN p from s.
Part(m, p, s, ours) ==
    /\ m \in Seq(Frame)
    /\ \A k \in 1 .. Len(m) : m[k].pgn = p /\ m[k].src = s /\ m[k].ours = ours

\* A claim is a single frame: m is all of it.
WholeClaim(m, p, n) == p = "claim" /\ n = 1 => Len(m) = 1

\* A message is a sequence of well-formed frames of its PGN and source.
LEMMA MessageShape ==
    ASSUME CanWorkerAssumption, TypeOK,
           NEW p \in Pgn, NEW s \in Source, NEW ours \in BOOLEAN, NEW n \in Nat \ {0}
    PROVE  /\ Part(Message(p, s, ours, n), p, s, ours)
           /\ p = "claim" /\ n = 1 => Len(Message(p, s, ours, n)) = 1
           /\ Len(Message(p, s, ours, n)) \in Nat
<1> DEFINE C == Chunks[p]
           b == IF p \in Fast THEN fastSeq[p][s] ELSE 0
           L == n * C
           m == Message(p, s, ours, n)
<1>1. C \in Nat \ {0} /\ SeqMod \in Nat \ {0} /\ p \notin {} /\ (p = "claim" => C = 1)
  BY DEF CanWorkerAssumption, Single
<1>2. b \in Nat
  BY <1>1 DEF TypeOK
<1>3. L \in Nat /\ (p = "claim" /\ n = 1 => L = 1)
  BY <1>1, SMT
<1>4. ASSUME NEW k \in 1 .. L
      PROVE  [pgn |-> p, src |-> s, ours |-> ours,
              seq |-> IF p \in Fast
                      THEN (fastSeq[p][s] + (k - 1) \div Chunks[p]) % SeqMod ELSE 0,
              index |-> (k - 1) % Chunks[p]] \in Frame
  <2>1. (k - 1) \div C \in Nat /\ (k - 1) % C \in Nat
    <3>1. k - 1 \in Nat
      BY <1>3, <1>4
    <3> QED  BY <3>1, <1>1
  <2>2. p \in Fast => (fastSeq[p][s] + (k - 1) \div C) % SeqMod \in 0 .. SeqMod - 1
    <3> HIDE DEF C
    <3>1. p \in Fast => fastSeq[p][s] \in Nat
      BY <1>2
    <3> QED  BY <3>1, <2>1, <1>1
  <2> QED  BY <2>1, <2>2, <1>1 DEF Frame
<1>5. m = [k \in 1 .. L |->
            [pgn |-> p, src |-> s, ours |-> ours,
             seq |-> IF p \in Fast
                     THEN (fastSeq[p][s] + (k - 1) \div Chunks[p]) % SeqMod ELSE 0,
             index |-> (k - 1) % Chunks[p]]]
  BY DEF Message
<1> HIDE DEF L, m
<1>6. m \in Seq(Frame) /\ Len(m) = L
  BY <1>3, <1>4, <1>5
<1>7. ASSUME NEW k \in 1 .. Len(m)
      PROVE  m[k].pgn = p /\ m[k].src = s /\ m[k].ours = ours
  BY <1>5, <1>6
<1> QED  BY <1>3, <1>6, <1>7 DEF Part, m

\* Enqueue appends a part of the message, all of it unless a claim is lost.
LEMMA EnqueueShape ==
    ASSUME CanWorkerAssumption, TypeOK,
           NEW p \in Pgn, NEW s \in Source, NEW ours \in BOOLEAN, NEW n \in Nat \ {0},
           Enqueue(p, s, ours, n)
    PROVE  /\ \E m \in Seq(Frame) :
                 /\ Part(m, p, s, ours)
                 /\ txq' = txq \o m
                 /\ claimLost' \/ WholeClaim(m, p, n)
           /\ txq' \in Seq(Frame) /\ Len(txq') <= TxCapacity
           /\ fastSeq' \in [Fast -> [Source -> 0 .. SeqMod - 1]]
           /\ claimLost' \in BOOLEAN
           /\ claimLost => claimLost'
<1> DEFINE m == Message(p, s, ours, n)
<1>1. /\ Part(m, p, s, ours)
      /\ p = "claim" /\ n = 1 => Len(m) = 1
      /\ Len(m) \in Nat
  BY MessageShape
<1>2. /\ txq' = IF Room < Len(m) THEN txq \o SubSeq(m, 1, Room) ELSE txq \o m
      /\ fastSeq' = IF p \in Fast
                    THEN [fastSeq EXCEPT ![p][s] = (@ + n) % SeqMod] ELSE fastSeq
      /\ claimLost' = (claimLost \/ (p = "claim" /\ Room < Len(m)))
  BY DEF Enqueue
<1>3. txq \in Seq(Frame) /\ Len(txq) \in Nat /\ Room \in Nat
  BY DEF TypeOK, Room, CanWorkerAssumption
<1> HIDE DEF m
<1>4. claimLost' \in BOOLEAN /\ (claimLost => claimLost')
  BY <1>2 DEF TypeOK
<1>5. fastSeq' \in [Fast -> [Source -> 0 .. SeqMod - 1]]
  <2>1. fastSeq \in [Fast -> [Source -> 0 .. SeqMod - 1]] /\ SeqMod \in Nat \ {0}
    BY DEF TypeOK, CanWorkerAssumption
  <2>2. p \in Fast => (fastSeq[p][s] + n) % SeqMod \in 0 .. SeqMod - 1
    <3>1. p \in Fast => fastSeq[p][s] \in Nat
      BY <2>1
    <3> QED  BY <3>1, <2>1
  <2> QED  BY <1>2, <2>1, <2>2
<1>6. CASE Room < Len(m)
  <2> DEFINE r == SubSeq(m, 1, Room)
  <2>1. r \in Seq(Frame) /\ Len(r) = Room /\ \A k \in 1 .. Room : r[k] = m[k]
    BY <1>1, <1>3, <1>6 DEF Part
  <2>2. Part(r, p, s, ours)
    BY <2>1, <1>1, <1>3, <1>6 DEF Part
  <2> HIDE DEF r
  <2>3. txq' = txq \o r
    BY <1>2, <1>6 DEF r
  <2>4. txq' \in Seq(Frame) /\ Len(txq') <= TxCapacity
    BY <2>1, <2>3, <1>3 DEF Room, CanWorkerAssumption
  <2>5. p = "claim" => claimLost'
    BY <1>2, <1>6
  <2>6. claimLost' \/ WholeClaim(r, p, n)
    BY <2>5 DEF WholeClaim
  <2> QED  BY <1>4, <1>5, <2>1, <2>2, <2>3, <2>4, <2>6
<1>7. CASE ~(Room < Len(m))
  <2>1. txq' = txq \o m /\ m \in Seq(Frame)
    BY <1>1, <1>2, <1>7 DEF Part
  <2>2. txq' \in Seq(Frame) /\ Len(txq') <= TxCapacity
    BY <2>1, <1>1, <1>3, <1>7 DEF Room, CanWorkerAssumption
  <2>3. WholeClaim(m, p, n)
    BY <1>1 DEF WholeClaim
  <2> QED  BY <1>1, <1>4, <1>5, <2>1, <2>2, <2>3
<1> QED  BY <1>6, <1>7

-----------------------------------------------------------------------------
(* Types.                                                                  *)

\* What a claim leaves behind, for an address that is not known to be taken.
LEMMA ClaimTypes ==
    ASSUME CanWorkerAssumption, TypeOK, NEW a \in Addr, a \notin used', used' \subseteq Addr,
           Claim(a), UNCHANGED <<interval, beat, product>>,
           pc' \in Step, atom' \in Addr \cup {NullAddr}, lastClaim' \in Addr \cup {NullAddr},
           heard' \in 0 .. MaxHeard, sends' \in 0 .. MaxSends
    PROVE  TypeOK'
<1>1. "claim" \in Pgn /\ a \in Source /\ TRUE \in BOOLEAN /\ 1 \in Nat \ {0}
  BY DEF Pgn, Single, Source
<1>2. Enqueue("claim", a, TRUE, 1)
  BY DEF Claim
<1>3. /\ txq' \in Seq(Frame) /\ Len(txq') <= TxCapacity
      /\ fastSeq' \in [Fast -> [Source -> 0 .. SeqMod - 1]]
      /\ claimLost' \in BOOLEAN
  BY <1>1, <1>2, EnqueueShape
<1>4. state' = "Pending" /\ address' = a /\ timer' \in 0 .. ScanTicks + ClaimTicks /\ a # NullAddr
  BY DEF Claim, CanWorkerAssumption, Addr, NullAddr
<1> QED  BY <1>3, <1>4 DEF TypeOK, Holds

\* The same for giving up.
LEMMA FailTypes ==
    ASSUME CanWorkerAssumption, TypeOK, used' \subseteq Addr,
           Fail, UNCHANGED <<interval, beat, product>>,
           pc' \in Step, atom' \in Addr \cup {NullAddr}, lastClaim' \in Addr \cup {NullAddr},
           heard' \in 0 .. MaxHeard, sends' \in 0 .. MaxSends
    PROVE  TypeOK'
<1>1. "claim" \in Pgn /\ NullAddr \in Source /\ TRUE \in BOOLEAN /\ 1 \in Nat \ {0}
  BY DEF Pgn, Single, Source
<1>2. Enqueue("claim", NullAddr, TRUE, 1)
  BY DEF Fail
<1>3. /\ txq' \in Seq(Frame) /\ Len(txq') <= TxCapacity
      /\ fastSeq' \in [Fast -> [Source -> 0 .. SeqMod - 1]]
      /\ claimLost' \in BOOLEAN
  BY <1>1, <1>2, EnqueueShape
<1> QED  BY <1>3 DEF TypeOK, Holds, Fail

\* An address that is picked is free.
LEMMA Picked ==
    ASSUME NEW u, Free(u) # {}, AddrMax \in Nat
    PROVE  PickFree(u) \in Addr /\ PickFree(u) \notin u
<1>1. Free(u) \subseteq Nat
  BY DEF Free, Addr
<1>2. PICK a \in Free(u) : \A b \in Free(u) : ~(<<b, a>> \in OpToRel(<, Nat))
  BY <1>1, NatLessThanWellFounded, WFMin
<1>3. ASSUME NEW b \in Free(u) PROVE a <= b
  <2>1. a \in Nat /\ b \in Nat
    BY <1>1
  <2>2. ASSUME b < a PROVE FALSE
    <3>1. <<b, a>> \in OpToRel(<, Nat)
      BY <2>1, <2>2 DEF OpToRel
    <3> QED  BY <1>2, <3>1
  <2> QED  BY <2>1, <2>2
<1>4. PickFree(u) \in Free(u)
  BY <1>3 DEF PickFree
<1> QED  BY <1>4 DEF Free

\* Whatever is sent for itself, without a change of the claim.
LEMMA SendTypes ==
    ASSUME CanWorkerAssumption, TypeOK,
           NEW p \in Pgn, NEW s \in Source, NEW ours \in BOOLEAN, NEW n \in Nat \ {0},
           Enqueue(p, s, ours, n), UNCHANGED claim,
           interval' \in Nat, beat' \in Nat, product' \in 0 .. ProductTicks,
           pc' \in Step, atom' \in Addr \cup {NullAddr}, lastClaim' \in Addr \cup {NullAddr},
           heard' \in 0 .. MaxHeard, sends' \in 0 .. MaxSends
    PROVE  TypeOK'
<1>1. /\ txq' \in Seq(Frame) /\ Len(txq') <= TxCapacity
      /\ fastSeq' \in [Fast -> [Source -> 0 .. SeqMod - 1]]
      /\ claimLost' \in BOOLEAN
  BY EnqueueShape
<1> QED  BY <1>1 DEF TypeOK, Holds, claim

\* The address worked under, and the one a user's frame goes out from.
LEMMA Sources ==
    ASSUME CanWorkerAssumption, TypeOK
    PROVE  /\ Live \in Addr \cup {NullAddr}
           /\ address \in Source
           /\ \A u \in UserFrame : SourceOf(u) \in Source /\ (u.src = Own) \in BOOLEAN
           /\ \A u \in UserFrame : u.pgn # "synthetic" => u.pgn \in Pgn \ {"claim"}
  BY DEF CanWorkerAssumption, TypeOK, Live, Source, SourceOf, Pgn, Fast, Single

\* The rings a session starts with.
LEMMA FirstRings ==
    ASSUME CanWorkerAssumption
    PROVE  /\ <<ScanRequest>> \in Seq(Frame) /\ Len(<<ScanRequest>>) = 1
           /\ <<>> \in Seq(Frame) /\ Len(<<>>) = 0
           /\ NoSeq \in [Fast -> [Source -> 0 .. SeqMod - 1]]
           /\ 1 <= TxCapacity /\ 0 <= TxCapacity
<1>1. 0 \in 0 .. SeqMod - 1
  BY DEF CanWorkerAssumption
<1>2. ScanRequest \in Frame
  BY <1>1 DEF ScanRequest, Frame, Source, Pgn, Single
<1> HIDE DEF ScanRequest
<1>3. <<ScanRequest>> \in Seq(Frame) /\ Len(<<ScanRequest>>) = 1
  BY <1>2
<1>4. 1 <= TxCapacity /\ 0 <= TxCapacity
  BY DEF CanWorkerAssumption
<1> QED  BY <1>1, <1>3, <1>4 DEF NoSeq

-----------------------------------------------------------------------------
\* Every step of the worker keeps the types.
LEMMA TypeStep ==
    ASSUME CanWorkerAssumption, TypeOK, [Next]_vars
    PROVE  TypeOK'
<1> USE CanWorkerAssumption
<1>0. /\ TRUE \in BOOLEAN /\ 1 \in Nat \ {0} /\ 2 \in Nat \ {0}
      /\ interval \in Nat /\ beat \in Nat /\ product \in 0 .. ProductTicks
      /\ 0 \in Nat /\ ProductTicks \in 0 .. ProductTicks
      /\ \A i \in 1 .. DefaultInterval : i \in Nat
  BY DEF TypeOK, CanWorkerAssumption
<1>1. ASSUME NEW u \in UserFrame, TakeCmd(u) PROVE TypeOK'
  <2>1. sends' \in 0 .. MaxSends
    BY <1>1 DEF TakeCmd, TypeOK, CanWorkerAssumption
  <2>2. CASE u.pgn = "synthetic"
    BY <1>1, <2>1, <2>2 DEF TakeCmd, TypeOK, Holds, claim, rhythm, ring, Step
  <2>3. CASE u.pgn # "synthetic"
    <3>1. Enqueue(u.pgn, SourceOf(u), u.src = Own, 1)
      BY <1>1, <2>3 DEF TakeCmd
    <3>2. u.pgn \in Pgn /\ SourceOf(u) \in Source /\ (u.src = Own) \in BOOLEAN
      BY <2>3, Sources
    <3>3. /\ pc' \in Step /\ atom' \in Addr \cup {NullAddr}
          /\ lastClaim' \in Addr \cup {NullAddr} /\ heard' \in 0 .. MaxHeard
          /\ interval' \in Nat /\ beat' \in Nat /\ product' \in 0 .. ProductTicks
          /\ UNCHANGED claim
      BY <1>1 DEF TakeCmd, TypeOK, rhythm
    <3> QED  BY <1>0, <2>1, <3>1, <3>2, <3>3, SendTypes
  <2> QED  BY <2>2, <2>3
<1>2. CASE PollReturns
  BY <1>2 DEF PollReturns, TypeOK, Holds, claim, rhythm, ring, counts, Step
<1>3. CASE PollTimesOut
  <2>1. timer' \in 0 .. ScanTicks + ClaimTicks /\ beat' \in Nat /\ product' \in 0 .. ProductTicks
    BY <1>3 DEF PollTimesOut, TypeOK, Less, CanWorkerAssumption
  <2> QED  BY <1>3, <2>1 DEF PollTimesOut, TypeOK, Holds, ring, counts, Step
<1>4. CASE Quit
  BY <1>4 DEF Quit, TypeOK, Holds, claim, rhythm, ring, counts, Step
<1>5. CASE Written
  <2>1. /\ Tail(txq) \in Seq(Frame) /\ Len(Tail(txq)) <= TxCapacity
        /\ Head(txq) \in Frame
    BY <1>5 DEF Written, TypeOK, CanWorkerAssumption
  <2>2. lastClaim' \in Addr \cup {NullAddr}
    BY <1>5, <2>1 DEF Written, Frame, Source, TypeOK
  <2> QED  BY <1>5, <2>1, <2>2 DEF Written, TypeOK, Holds, claim, rhythm, counts, Step
<1>6. CASE NotWritten
  BY <1>6 DEF NotWritten, TypeOK, Holds, claim, rhythm, ring, counts, Step
<1>7. CASE WriteFails
  <2>1. Tail(txq) \in Seq(Frame) /\ Len(Tail(txq)) <= TxCapacity
    BY <1>7 DEF WriteFails, TypeOK, CanWorkerAssumption
  <2>2. claimLost' \in BOOLEAN
    BY <1>7 DEF WriteFails, TypeOK
  <2> QED  BY <1>7, <2>1, <2>2 DEF WriteFails, TypeOK, Holds, claim, rhythm, counts, Step
<1>8. CASE Handle
  <2>1. ASSUME Receiving
        PROVE  /\ pc' \in Step /\ atom' \in Addr \cup {NullAddr}
               /\ lastClaim' \in Addr \cup {NullAddr}
               /\ heard' \in 0 .. MaxHeard /\ sends' \in 0 .. MaxSends
    BY <2>1 DEF Receiving, TypeOK, CanWorkerAssumption
  <2>2. ASSUME NEW a \in Addr, LearnClaim(a) PROVE TypeOK'
    BY <2>1, <2>2 DEF LearnClaim, TypeOK, Holds, rhythm, ring
  <2>3. ASSUME NEW a \in Addr, DefendClaim(a) PROVE TypeOK'
    <3>1. a \notin used /\ used' = used /\ UNCHANGED <<interval, beat, product>> /\ Claim(a)
      <4>1. state # "Scanning" /\ a = address /\ state # "Disabled"
        BY <2>3 DEF DefendClaim, Receiving
      <4>2. a # NullAddr
        BY DEF Addr, NullAddr, CanWorkerAssumption
      <4>3. Holds
        BY <4>1, <4>2 DEF TypeOK, Holds
      <4> QED  BY <2>3, <4>1, <4>3 DEF DefendClaim, rhythm, TypeOK
    <3>2. used' \subseteq Addr
      BY <3>1 DEF TypeOK
    <3> QED  BY <2>1, <2>3, <3>1, <3>2, ClaimTypes DEF DefendClaim
  <2>4. ASSUME NEW a \in Addr, YieldClaim(a) PROVE TypeOK'
    <3> DEFINE v == used \cup {a}
    <3>1. used' = v /\ v \subseteq Addr /\ UNCHANGED <<interval, beat, product>>
      BY <2>4 DEF YieldClaim, TypeOK, rhythm
    <3>2. CASE Free(v) # {}
      <4>1. PickFree(v) \in Addr /\ PickFree(v) \notin v
        BY <3>2, Picked DEF CanWorkerAssumption
      <4>2. Claim(PickFree(v))
        BY <2>4, <3>2 DEF YieldClaim
      <4> QED  BY <2>1, <2>4, <3>1, <4>1, <4>2, ClaimTypes DEF YieldClaim
    <3>3. CASE Free(v) = {}
      BY <2>1, <2>4, <3>1, <3>3, FailTypes DEF YieldClaim
    <3> QED  BY <3>2, <3>3
  <2>5. ASSUME NEW d, ClaimRequested(d) \/ ProductRequested(d) \/ ListRequested(d)
                      \/ HeartbeatRequested(d) \/ OtherRequested(d)
        PROVE  TypeOK'
    <3>1. {"claim", "product", "list", "heartbeat", "ack"} \subseteq Pgn /\ address \in Source
      BY Sources DEF Pgn, Fast, Single
    <3>2. /\ Receiving /\ UNCHANGED claim
          /\ interval' \in Nat /\ beat' \in Nat /\ product' \in 0 .. ProductTicks
      BY <1>0, <2>5 DEF ClaimRequested, ProductRequested, ListRequested, HeartbeatRequested,
                        OtherRequested, rhythm, claim
    <3>3. \E p \in Pgn, n \in Nat \ {0} : Enqueue(p, address, TRUE, n)
      BY <1>0, <2>5, <3>1 DEF ClaimRequested, ProductRequested, ListRequested,
                              HeartbeatRequested, OtherRequested
    <3> QED  BY <1>0, <2>1, <3>1, <3>2, <3>3, SendTypes
  <2>6. CASE GroupFunction
    <3>1. "group" \in Pgn /\ address \in Source
      BY Sources DEF Pgn, Fast
    <3>2. /\ Receiving /\ UNCHANGED claim /\ Enqueue("group", address, TRUE, 1)
          /\ interval' \in Nat /\ beat' \in Nat /\ product' \in 0 .. ProductTicks
      BY <1>0, <2>6 DEF GroupFunction
    <3> QED  BY <1>0, <2>1, <3>1, <3>2, SendTypes
  <2> QED  BY <1>8, <2>2, <2>3, <2>4, <2>5, <2>6 DEF Handle
<1>9. CASE Received
  BY <1>9 DEF Received, TypeOK, Holds, claim, rhythm, ring, counts, Step
<1>10. CASE Timers
  <2>1. /\ pc' \in Step /\ lastClaim' \in Addr \cup {NullAddr}
        /\ heard' \in 0 .. MaxHeard /\ sends' \in 0 .. MaxSends
    BY <1>10 DEF Timers, TypeOK, Step, counts
  <2>2. atom' \in Addr \cup {NullAddr}
    <3>1. ASSUME state' = "Claimed" PROVE address' \in Addr \cup {NullAddr}
      BY <1>10, <3>1 DEF Timers, BeginClaim, Claim, Fail, TakeOwnership, Beat, NothingDue,
                         claim, TypeOK
    <3> QED  BY <1>10, <3>1 DEF Timers, Publish, Live
  <2>3. CASE BeginClaim
    <3>1. used' = used /\ used \subseteq Addr /\ UNCHANGED <<interval, beat, product>>
      BY <2>3 DEF BeginClaim, TypeOK, rhythm
    <3>2. CASE Fail
      BY <2>1, <2>2, <3>1, <3>2, FailTypes
    <3>3. ASSUME NEW a \in Addr, a \notin used, Claim(a) PROVE TypeOK'
      BY <2>1, <2>2, <3>1, <3>3, ClaimTypes
    <3>4. Free(used) # {} => PickFree(used) \in Addr /\ PickFree(used) \notin used
      BY Picked DEF CanWorkerAssumption
    <3> QED  BY <2>3, <3>2, <3>3, <3>4 DEF BeginClaim, CanWorkerAssumption
  <2>4. CASE TakeOwnership
    <3>1. /\ state' = "Claimed" /\ state = "Pending" /\ UNCHANGED <<address, timer, used, interval>>
          /\ beat' \in Nat /\ product' \in 0 .. ProductTicks
      BY <1>0, <2>4 DEF TakeOwnership
    <3>2. /\ txq' \in Seq(Frame) /\ Len(txq') <= TxCapacity
          /\ fastSeq' \in [Fast -> [Source -> 0 .. SeqMod - 1]]
          /\ claimLost' \in BOOLEAN
      <4>1. "product" \in Pgn /\ address \in Source
        BY Sources DEF Pgn, Fast
      <4>2. CASE Enqueue("product", address, TRUE, 1)
        BY <1>0, <4>1, <4>2, EnqueueShape
      <4>3. CASE UNCHANGED ring
        BY <4>3 DEF ring, TypeOK
      <4> QED  BY <2>4, <4>2, <4>3 DEF TakeOwnership
    <3> QED  BY <2>1, <2>2, <3>1, <3>2 DEF TypeOK, Holds
  <2>5. CASE Beat
    <3>1. "heartbeat" \in Pgn /\ address \in Source
      BY Sources DEF Pgn, Single
    <3>2. /\ UNCHANGED claim /\ Enqueue("heartbeat", address, TRUE, 1)
          /\ interval' \in Nat /\ beat' \in Nat /\ product' \in 0 .. ProductTicks
      BY <2>5 DEF Beat, TypeOK
    <3> QED  BY <1>0, <2>1, <2>2, <3>1, <3>2, SendTypes
  <2>6. CASE NothingDue
    BY <2>1, <2>2, <2>6 DEF NothingDue, TypeOK, Holds, claim, rhythm, ring
  <2> QED  BY <1>10, <2>3, <2>4, <2>5, <2>6 DEF Timers
<1>11. CASE Reopen
  <2>1. txq' = <<>> \/ txq' = <<ScanRequest>>
    BY <1>11 DEF Reopen
  <2>2. NoSeq \in [Fast -> [Source -> 0 .. SeqMod - 1]]
    BY FirstRings
  <2>3. txq' \in Seq(Frame) /\ Len(txq') <= TxCapacity
    BY <2>1, FirstRings
  <2>4. /\ state' \in {"Disabled", "Scanning"} /\ address' \in Addr
        /\ timer' \in 0 .. ScanTicks + ClaimTicks
    BY <1>11 DEF Reopen, TypeOK, CanWorkerAssumption, Addr, NullAddr
  <2>5. /\ pc' \in Step /\ used' = {} /\ interval' \in Nat /\ beat' \in Nat
        /\ product' \in 0 .. ProductTicks /\ fastSeq' = NoSeq /\ claimLost' = FALSE
        /\ atom' = NullAddr /\ lastClaim' = NullAddr /\ UNCHANGED counts
    <3>1. 0 \in 0 .. ProductTicks /\ DefaultInterval \in Nat
      BY DEF CanWorkerAssumption
    <3> QED  BY <1>11, <3>1 DEF Reopen, Step
  <2>6. address' # NullAddr
    BY <2>4 DEF Addr, NullAddr, CanWorkerAssumption
  <2> QED  BY <2>2, <2>3, <2>4, <2>5, <2>6 DEF TypeOK, Holds, counts
<1>12. CASE UNCHANGED vars
  BY <1>12 DEF vars, TypeOK, Holds, claim, rhythm, ring, counts
<1> QED
  BY <1>1, <1>2, <1>3, <1>4, <1>5, <1>6, <1>7, <1>8, <1>9, <1>10, <1>11, <1>12 DEF Next, Worker

\* A session starts well typed.
LEMMA TypeInit == ASSUME CanWorkerAssumption, Init PROVE TypeOK
<1>1. txq = <<>> \/ txq = <<ScanRequest>>
  BY DEF Init
<1>2. NoSeq \in [Fast -> [Source -> 0 .. SeqMod - 1]]
  BY FirstRings
<1>3. txq \in Seq(Frame) /\ Len(txq) <= TxCapacity
  BY <1>1, FirstRings
<1>4. /\ state \in {"Disabled", "Scanning"} /\ address \in Addr /\ address # NullAddr
      /\ timer \in 0 .. ScanTicks + ClaimTicks
  BY DEF Init, CanWorkerAssumption, Addr, NullAddr
<1>5. /\ pc \in Step /\ used = {} /\ interval \in Nat /\ beat \in Nat
      /\ product \in 0 .. ProductTicks /\ fastSeq = NoSeq /\ claimLost = FALSE
      /\ atom = NullAddr /\ lastClaim = NullAddr
      /\ heard \in 0 .. MaxHeard /\ sends \in 0 .. MaxSends
  BY DEF Init, Step, CanWorkerAssumption
<1> QED  BY <1>2, <1>3, <1>4, <1>5 DEF TypeOK, Holds

-----------------------------------------------------------------------------
(* The order in the ring.                                                  *)

\* What is at place i of the ring q goes out while c is the address claimed
\* last: by the last claim before i, or by l when there is none.
Under(q, l, i, c) ==
    \/ \E j \in 1 .. i - 1 :
          /\ q[j].pgn = "claim" /\ q[j].src = c
          /\ \A k \in j + 1 .. i - 1 : q[k].pgn # "claim"
    \/ /\ l = c
       /\ \A k \in 1 .. i - 1 : q[k].pgn # "claim"

\* Until a claim is lost: every frame of our own waits behind the claim of its
\* address, and the address held is the one claimed last.
FramesInOrder ==
    ~claimLost =>
        \A i \in 1 .. Len(txq) :
            txq[i].ours /\ txq[i].pgn # "claim"
            => txq[i].src = NullAddr \/ Under(txq, lastClaim, i, txq[i].src)

HeldInOrder ==
    ~claimLost /\ Holds => Under(txq, lastClaim, Len(txq) + 1, address)

InOrder == FramesInOrder /\ HeldInOrder

\* Appending does not change what the frames before it go out under.
LEMMA UnderPrefix ==
    ASSUME NEW q \in Seq(Frame), NEW m \in Seq(Frame), NEW l, NEW c,
           NEW i \in 1 .. Len(q) + 1, Under(q, l, i, c)
    PROVE  Under(q \o m, l, i, c)
<1> DEFINE r == q \o m
<1>1. \A k \in 1 .. Len(q) : r[k] = q[k]
  OBVIOUS
<1>2. \A k \in 1 .. i - 1 : r[k] = q[k]
  BY <1>1
<1> HIDE DEF r
<1>3. Under(r, l, i, c)
  BY <1>2 DEF Under
<1> QED  BY <1>3 DEF r

\* What is appended goes out under the same address, while it is no claim.
LEMMA UnderAppended ==
    ASSUME NEW q \in Seq(Frame), NEW m \in Seq(Frame), NEW l, NEW c,
           \A k \in 1 .. Len(m) : m[k].pgn # "claim",
           Under(q, l, Len(q) + 1, c),
           NEW i \in Len(q) + 1 .. Len(q \o m) + 1
    PROVE  Under(q \o m, l, i, c)
<1> DEFINE r == q \o m
           n == Len(q)
<1>1. n \in Nat /\ Len(m) \in Nat /\ Len(r) = n + Len(m)
  OBVIOUS
<1>2. /\ \A k \in 1 .. n : r[k] = q[k]
      /\ \A k \in n + 1 .. Len(r) : r[k] = m[k - n]
  OBVIOUS
<1>3. \A k \in n + 1 .. Len(r) : r[k].pgn # "claim"
  <2> TAKE k \in n + 1 .. Len(r)
  <2>1. k - n \in 1 .. Len(m)
    BY <1>1
  <2> QED  BY <1>2, <2>1
<1>4. i \in n + 1 .. Len(r) + 1 /\ Under(q, l, n + 1, c)
  OBVIOUS
<1> HIDE DEF r, n
<1>5. CASE \E j \in 1 .. n : /\ q[j].pgn = "claim" /\ q[j].src = c
                            /\ \A k \in j + 1 .. n : q[k].pgn # "claim"
  <2>1. PICK j \in 1 .. n : /\ q[j].pgn = "claim" /\ q[j].src = c
                            /\ \A k \in j + 1 .. n : q[k].pgn # "claim"
    BY <1>5
  <2>2. j \in 1 .. i - 1 /\ r[j].pgn = "claim" /\ r[j].src = c
    BY <1>1, <1>2, <1>4, <2>1
  <2>3. ASSUME NEW k \in j + 1 .. i - 1 PROVE r[k].pgn # "claim"
    <3>1. CASE k <= n
      <4>1. k \in j + 1 .. n /\ k \in 1 .. n
        BY <1>1, <3>1
      <4> QED  BY <4>1, <2>1, <1>2
    <3>2. CASE ~(k <= n)
      <4>1. k \in n + 1 .. Len(r)
        BY <1>1, <1>4, <3>2
      <4> QED  BY <4>1, <1>3
    <3> QED  BY <3>1, <3>2
  <2>4. Under(r, l, i, c)
    BY <2>2, <2>3 DEF Under
  <2> QED  BY <2>4 DEF r
<1>6. CASE l = c /\ \A k \in 1 .. n : q[k].pgn # "claim"
  <2>1. ASSUME NEW k \in 1 .. i - 1 PROVE r[k].pgn # "claim"
    <3>1. k \in 1 .. n \/ k \in n + 1 .. Len(r)
      BY <1>1, <1>4
    <3> QED  BY <3>1, <1>2, <1>3, <1>6
  <2>2. Under(r, l, i, c)
    BY <2>1, <1>6 DEF Under
  <2> QED  BY <2>2 DEF r
<1>7. \A j : j \in 1 .. (n + 1) - 1 <=> j \in 1 .. n
  BY <1>1
<1>8. \A j : (\A k \in j + 1 .. (n + 1) - 1 : q[k].pgn # "claim")
             <=> (\A k \in j + 1 .. n : q[k].pgn # "claim")
  BY <1>1, (n + 1) - 1 = n
<1> QED  BY <1>4, <1>5, <1>6, <1>7, <1>8 DEF Under

\* m is the one frame of a claim of c.
OneClaim(m, c) == Len(m) = 1 /\ m[1].pgn = "claim" /\ m[1].src = c

\* After a claim everything goes out under it.
LEMMA UnderClaim ==
    ASSUME NEW q \in Seq(Frame), NEW m \in Seq(Frame), NEW l, NEW c, OneClaim(m, c)
    PROVE  Under(q \o m, l, Len(q \o m) + 1, c)
<1> DEFINE r == q \o m
           n == Len(q)
<1>1. /\ n \in Nat /\ Len(m) \in Nat /\ Len(r) = n + Len(m)
      /\ \A k \in n + 1 .. Len(r) : r[k] = m[k - n]
  OBVIOUS
<1> HIDE DEF r, n
<1>2. Len(r) = n + 1 /\ m[1].pgn = "claim" /\ m[1].src = c
  BY <1>1 DEF OneClaim
<1>3. n + 1 \in n + 1 .. Len(r) /\ (n + 1) - n = 1
  BY <1>1, <1>2
<1>4. r[n + 1].pgn = "claim" /\ r[n + 1].src = c
  BY <1>1, <1>2, <1>3
<1>5. n + 1 \in 1 .. Len(r) + 1 - 1 /\ \A k \in n + 1 + 1 .. Len(r) + 1 - 1 : r[k].pgn # "claim"
  BY <1>1, <1>2
<1>6. Under(r, l, Len(r) + 1, c)
  BY <1>4, <1>5 DEF Under
<1> QED  BY <1>6 DEF r

\* Taking the head away: a claim is now what was claimed last.
LEMMA UnderTail ==
    ASSUME NEW q \in Seq(Frame), q # <<>>, NEW l, NEW c, NEW i \in 1 .. Len(q),
           Under(q, l, i + 1, c)
    PROVE  Under(Tail(q), IF Head(q).pgn = "claim" THEN Head(q).src ELSE l, i, c)
<1> DEFINE r == Tail(q)
           g == IF Head(q).pgn = "claim" THEN Head(q).src ELSE l
<1>1. /\ Len(q) \in Nat \ {0} /\ Head(q) = q[1]
      /\ \A k \in 1 .. Len(q) - 1 : r[k] = q[k + 1]
  OBVIOUS
<1> HIDE DEF r
<1>2. CASE \E j \in 1 .. i : /\ q[j].pgn = "claim" /\ q[j].src = c
                            /\ \A k \in j + 1 .. i : q[k].pgn # "claim"
  <2>1. PICK j \in 1 .. i : /\ q[j].pgn = "claim" /\ q[j].src = c
                            /\ \A k \in j + 1 .. i : q[k].pgn # "claim"
    BY <1>2
  <2>2. CASE j = 1
    <3>1. g = c
      BY <1>1, <2>1, <2>2
    <3>2. ASSUME NEW k \in 1 .. i - 1 PROVE r[k].pgn # "claim"
      <4>1. k + 1 \in j + 1 .. i /\ k \in 1 .. Len(q) - 1
        BY <2>2, <1>1
      <4> QED  BY <4>1, <2>1, <1>1
    <3> QED  BY <3>1, <3>2 DEF Under, r
  <2>3. CASE j # 1
    <3>1. j - 1 \in 1 .. i - 1 /\ j - 1 \in 1 .. Len(q) - 1 /\ (j - 1) + 1 = j
      BY <2>3, <1>1
    <3>2. r[j - 1] = q[j]
      BY <3>1, <1>1
    <3>3. ASSUME NEW k \in (j - 1) + 1 .. i - 1 PROVE r[k].pgn # "claim"
      <4>1. k + 1 \in j + 1 .. i /\ k \in 1 .. Len(q) - 1
        BY <1>1, <2>3
      <4> QED  BY <4>1, <2>1, <1>1
    <3>4. r[j - 1].pgn = "claim" /\ r[j - 1].src = c
      BY <3>2, <2>1
    <3> HIDE DEF g
    <3>5. Under(r, g, i, c)
      BY <3>1, <3>3, <3>4 DEF Under
    <3> QED  BY <3>5 DEF r, g
  <2> QED  BY <2>2, <2>3
<1>3. CASE l = c /\ \A k \in 1 .. i : q[k].pgn # "claim"
  <2>1. g = c
    BY <1>1, <1>3
  <2>2. ASSUME NEW k \in 1 .. i - 1 PROVE r[k].pgn # "claim"
    <3>1. k + 1 \in 1 .. i /\ k \in 1 .. Len(q) - 1
      BY <1>1
    <3> QED  BY <3>1, <1>1, <1>3
  <2> QED  BY <2>1, <2>2 DEF Under, r
<1>4. i + 1 - 1 = i
  OBVIOUS
<1> QED  BY <1>2, <1>3, <1>4 DEF Under

\* A frame of our own that is no claim is sent under the address we hold.
LEMMA SendInOrder ==
    ASSUME CanWorkerAssumption, TypeOK, InOrder,
           NEW p \in Pgn \ {"claim"}, NEW s \in Source, NEW ours \in BOOLEAN,
           NEW n \in Nat \ {0}, Enqueue(p, s, ours, n),
           ours => s = NullAddr \/ (Holds /\ s = address),
           lastClaim' = lastClaim, Holds' => Holds, address' = address
    PROVE  InOrder'
<1>1. PICK m \in Seq(Frame) :
          /\ Part(m, p, s, ours)
          /\ txq' = txq \o m
          /\ claimLost' \/ WholeClaim(m, p, n)
  BY EnqueueShape
<1>2. claimLost => claimLost'
  BY EnqueueShape
<1>3. SUFFICES ASSUME ~claimLost' PROVE InOrder'
  BY DEF InOrder, FramesInOrder, HeldInOrder
<1>4. /\ txq \in Seq(Frame) /\ Len(txq) \in Nat /\ Len(m) \in Nat
      /\ Len(txq') = Len(txq) + Len(m)
      /\ \A i \in 1 .. Len(txq) : txq'[i] = txq[i]
      /\ \A i \in Len(txq) + 1 .. Len(txq') : txq'[i] = m[i - Len(txq)]
  BY <1>1 DEF TypeOK
<1>5. \A k \in 1 .. Len(m) : m[k].pgn # "claim"
  BY <1>1 DEF Part
<1>6. ASSUME Holds, NEW i \in Len(txq) + 1 .. Len(txq') + 1
      PROVE  Under(txq', lastClaim, i, address)
  <2>1. Under(txq, lastClaim, Len(txq) + 1, address)
    BY <1>2, <1>3, <1>6 DEF InOrder, HeldInOrder
  <2> QED  BY <2>1, <1>1, <1>4, <1>5, UnderAppended
<1>7. ASSUME NEW i \in 1 .. Len(txq'), txq'[i].ours, txq'[i].pgn # "claim"
      PROVE  txq'[i].src = NullAddr \/ Under(txq', lastClaim, i, txq'[i].src)
  <2>1. CASE i <= Len(txq)
    <3>1. i \in 1 .. Len(txq) /\ i \in 1 .. Len(txq) + 1 /\ txq'[i] = txq[i]
      BY <2>1, <1>4
    <3>2. txq[i].src = NullAddr \/ Under(txq, lastClaim, i, txq[i].src)
      BY <3>1, <1>2, <1>3, <1>7 DEF InOrder, FramesInOrder
    <3> QED  BY <3>1, <3>2, <1>1, <1>4, UnderPrefix
  <2>2. CASE ~(i <= Len(txq))
    <3>1. i \in Len(txq) + 1 .. Len(txq') /\ i \in Len(txq) + 1 .. Len(txq') + 1
      BY <2>2, <1>4
    <3>2. i - Len(txq) \in 1 .. Len(m) /\ txq'[i] = m[i - Len(txq)]
      BY <3>1, <1>4
    <3>3. txq'[i].src = s /\ ours
      BY <3>2, <1>1, <1>7 DEF Part
    <3> QED  BY <3>1, <3>3, <1>6
  <2> QED  BY <2>1, <2>2
<1>8. Holds' => Under(txq', lastClaim, Len(txq') + 1, address)
  BY <1>4, <1>6
<1> QED  BY <1>7, <1>8 DEF InOrder, FramesInOrder, HeldInOrder

\* A claim that is sent is what the frames after it go out under.
LEMMA ClaimInOrder ==
    ASSUME CanWorkerAssumption, TypeOK, InOrder, NEW c \in Source,
           NEW ours \in BOOLEAN, Enqueue("claim", c, ours, 1),
           lastClaim' = lastClaim, Holds' => address' = c
    PROVE  InOrder'
<1>0. "claim" \in Pgn /\ 1 \in Nat \ {0}
  BY DEF Pgn, Single
<1>1. PICK m \in Seq(Frame) :
          /\ Part(m, "claim", c, ours)
          /\ txq' = txq \o m
          /\ claimLost' \/ WholeClaim(m, "claim", 1)
  BY <1>0, EnqueueShape
<1>2. claimLost => claimLost'
  BY <1>0, EnqueueShape
<1>3. SUFFICES ASSUME ~claimLost' PROVE InOrder'
  BY DEF InOrder, FramesInOrder, HeldInOrder
<1>4. OneClaim(m, c)
  <2>1. Len(m) = 1
    BY <1>1, <1>3 DEF WholeClaim
  <2>2. 1 \in 1 .. Len(m)
    BY <2>1
  <2> QED  BY <2>1, <2>2, <1>1 DEF OneClaim, Part
<1>5. /\ txq \in Seq(Frame) /\ Len(txq) \in Nat /\ Len(m) \in Nat
      /\ Len(txq') = Len(txq) + Len(m)
      /\ \A i \in 1 .. Len(txq) : txq'[i] = txq[i]
      /\ \A i \in Len(txq) + 1 .. Len(txq') : txq'[i] = m[i - Len(txq)]
  BY <1>1 DEF TypeOK
<1>6. Len(m) = 1 /\ m[1].pgn = "claim"
  BY <1>4 DEF OneClaim
<1>7. ASSUME NEW i \in 1 .. Len(txq'), txq'[i].ours, txq'[i].pgn # "claim"
      PROVE  txq'[i].src = NullAddr \/ Under(txq', lastClaim, i, txq'[i].src)
  <2>1. CASE i <= Len(txq)
    <3>1. i \in 1 .. Len(txq) /\ i \in 1 .. Len(txq) + 1 /\ txq'[i] = txq[i]
      BY <2>1, <1>5
    <3>2. txq[i].src = NullAddr \/ Under(txq, lastClaim, i, txq[i].src)
      BY <3>1, <1>2, <1>3, <1>7 DEF InOrder, FramesInOrder
    <3> QED  BY <3>1, <3>2, <1>1, <1>5, UnderPrefix
  <2>2. CASE ~(i <= Len(txq))
    <3>1. i \in Len(txq) + 1 .. Len(txq') /\ i - Len(txq) = 1
      BY <2>2, <1>5, <1>6
    <3>2. txq'[i] = m[1]
      BY <3>1, <1>5
    <3> QED  BY <3>2, <1>6, <1>7
  <2> QED  BY <2>1, <2>2
<1>8. Under(txq', lastClaim, Len(txq') + 1, c)
  BY <1>5, <1>1, <1>4, UnderClaim
<1> QED  BY <1>7, <1>8 DEF InOrder, FramesInOrder, HeldInOrder

\* The head leaves the ring: written, or dropped.
LEMMA TailInOrder ==
    ASSUME CanWorkerAssumption, TypeOK, InOrder, txq # <<>>, txq' = Tail(txq),
           UNCHANGED <<state, address>>,
           ~claimLost' => /\ ~claimLost
                          /\ lastClaim' = IF Head(txq).pgn = "claim" THEN Head(txq).src
                                                                    ELSE lastClaim
    PROVE  InOrder'
<1>1. SUFFICES ASSUME ~claimLost' PROVE InOrder'
  BY DEF InOrder, FramesInOrder, HeldInOrder
<1>2. /\ txq \in Seq(Frame) /\ Len(txq) \in Nat \ {0}
      /\ Len(txq') = Len(txq) - 1
      /\ \A i \in 1 .. Len(txq) - 1 : txq'[i] = txq[i + 1]
  BY DEF TypeOK
<1>3. ASSUME NEW i \in 1 .. Len(txq), NEW c, Under(txq, lastClaim, i + 1, c)
      PROVE  Under(txq', lastClaim', i, c)
  BY <1>1, <1>2, <1>3, UnderTail
<1>4. ASSUME NEW i \in 1 .. Len(txq'), txq'[i].ours, txq'[i].pgn # "claim"
      PROVE  txq'[i].src = NullAddr \/ Under(txq', lastClaim', i, txq'[i].src)
  <2>1. i + 1 \in 1 .. Len(txq) /\ i \in 1 .. Len(txq) /\ txq'[i] = txq[i + 1]
    BY <1>2
  <2> QED  BY <2>1, <1>1, <1>3, <1>4 DEF InOrder, FramesInOrder
<1>5. ASSUME Holds' PROVE Under(txq', lastClaim', Len(txq') + 1, address')
  <2>1. Holds /\ address' = address
    BY <1>5 DEF Holds
  <2>2. Under(txq, lastClaim, Len(txq) + 1, address)
    BY <1>1, <2>1 DEF InOrder, HeldInOrder
  <2>3. Len(txq) \in 1 .. Len(txq) /\ Len(txq') + 1 = Len(txq)
    BY <1>2
  <2> QED  BY <2>1, <2>2, <2>3, <1>3
<1> QED  BY <1>4, <1>5 DEF InOrder, FramesInOrder, HeldInOrder

\* Nothing in the ring, and no address gained.
LEMMA Undisturbed ==
    ASSUME InOrder, UNCHANGED <<txq, claimLost, lastClaim, address>>, Holds' => Holds
    PROVE  InOrder'
BY DEF InOrder, FramesInOrder, HeldInOrder, Under

\* A claim of a free address, and of none.
LEMMA ClaimStep ==
    ASSUME CanWorkerAssumption, TypeOK, InOrder, lastClaim' = lastClaim,
           Fail \/ \E a \in Addr : Claim(a)
    PROVE  InOrder'
<1>1. TRUE \in BOOLEAN /\ NullAddr \in Source
  BY DEF Source
<1>2. CASE Fail
  <2>1. Enqueue("claim", NullAddr, TRUE, 1) /\ ~Holds'
    BY <1>2 DEF Fail, Holds
  <2> QED  BY <1>1, <2>1, ClaimInOrder
<1>3. ASSUME NEW a \in Addr, Claim(a) PROVE InOrder'
  <2>1. Enqueue("claim", a, TRUE, 1) /\ address' = a /\ a \in Source
    BY <1>3 DEF Claim, Source
  <2> QED  BY <1>1, <2>1, ClaimInOrder
<1> QED  BY <1>2, <1>3

\* A session starts with no frame of its own but the scan's request.
LEMMA FirstInOrder ==
    ASSUME txq = <<>> \/ txq = <<ScanRequest>>, state \in {"Disabled", "Scanning"}
    PROVE  InOrder
<1>1. \A i \in 1 .. Len(txq) : txq[i] = ScanRequest
  OBVIOUS
<1>2. ScanRequest.src = NullAddr
  BY DEF ScanRequest
<1> QED  BY <1>1, <1>2 DEF InOrder, FramesInOrder, HeldInOrder, Holds

\* Every step of the worker keeps the order.
LEMMA OrderStep ==
    ASSUME CanWorkerAssumption, TypeOK, InOrder, [Next]_vars PROVE InOrder'
<1>0. TRUE \in BOOLEAN /\ 1 \in Nat \ {0} /\ 2 \in Nat \ {0}
      /\ address \in Source
  BY Sources
<1>1. ASSUME NEW u \in UserFrame, TakeCmd(u) PROVE InOrder'
  <2>1. UNCHANGED <<state, address, lastClaim>>
    BY <1>1 DEF TakeCmd, claim
  <2>2. Holds' <=> Holds
    BY <2>1 DEF Holds
  <2>3. CASE UNCHANGED ring
    BY <2>1, <2>2, <2>3, Undisturbed DEF ring
  <2>4. CASE u.pgn # "synthetic" /\ Enqueue(u.pgn, SourceOf(u), u.src = Own, 1)
    <3>1. u.pgn \in Pgn \ {"claim"} /\ SourceOf(u) \in Source
      BY <1>1, <2>4, Sources DEF CanWorkerAssumption
    <3>2. (u.src = Own) \in BOOLEAN
      OBVIOUS
    <3>3. u.src = Own => SourceOf(u) = NullAddr \/ (Holds /\ SourceOf(u) = address)
      BY DEF SourceOf, Live, Holds
    <3> QED  BY <1>0, <2>1, <2>2, <2>4, <3>1, <3>2, <3>3, SendInOrder
  <2> QED  BY <1>1, <2>3, <2>4 DEF TakeCmd
<1>2. CASE PollReturns \/ PollTimesOut \/ Quit \/ NotWritten \/ Received
  <2>1. UNCHANGED <<txq, claimLost, lastClaim, address, state>>
    BY <1>2 DEF PollReturns, PollTimesOut, Quit, NotWritten, Received, ring, claim
  <2> QED  BY <2>1, Undisturbed DEF Holds
<1>3. CASE Written
  BY <1>3, TailInOrder DEF Written, claim
<1>4. CASE WriteFails
  <2>1. Head(txq).pgn = "claim" => claimLost'
    BY <1>4 DEF WriteFails
  <2>2. claimLost => claimLost'
    BY <1>4 DEF WriteFails
  <2>3. UNCHANGED <<state, address, lastClaim>> /\ txq # <<>> /\ txq' = Tail(txq)
    BY <1>4 DEF WriteFails, claim
  <2> QED  BY <2>1, <2>2, <2>3, TailInOrder
<1>5. CASE Handle
  <2>1. ASSUME NEW a \in Addr, LearnClaim(a) PROVE InOrder'
    <3>1. UNCHANGED <<txq, claimLost, lastClaim, address, state>>
      BY <2>1 DEF LearnClaim, Receiving, ring
    <3> QED  BY <3>1, Undisturbed DEF Holds
  <2>2. ASSUME NEW a \in Addr, DefendClaim(a) PROVE InOrder'
    BY <2>2, ClaimStep DEF DefendClaim, Receiving
  <2>3. ASSUME NEW a \in Addr, YieldClaim(a) PROVE InOrder'
    <3> DEFINE v == used \cup {a}
    <3>1. v \subseteq Addr
      BY DEF TypeOK
    <3>2. Free(v) # {} => PickFree(v) \in Addr
      BY <3>1, Picked DEF CanWorkerAssumption
    <3> QED  BY <2>3, <3>2, ClaimStep DEF YieldClaim, Receiving
  <2>4. ASSUME NEW d, ClaimRequested(d) PROVE InOrder'
    <3>1. /\ Holds /\ Enqueue("claim", address, TRUE, 1)
          /\ UNCHANGED <<state, address, lastClaim>>
      BY <2>4 DEF ClaimRequested, Receiving, claim
    <3> QED  BY <1>0, <3>1, ClaimInOrder
  <2>5. ASSUME NEW d, ProductRequested(d) \/ ListRequested(d) \/ HeartbeatRequested(d)
                      \/ OtherRequested(d) \/ GroupFunction
        PROVE  InOrder'
    <3>1. {"product", "list", "heartbeat", "ack", "group"} \subseteq Pgn \ {"claim"}
      BY DEF Pgn, Fast, Single
    <3>2. Holds /\ UNCHANGED <<state, address, lastClaim>>
      BY <2>5 DEF ProductRequested, ListRequested, HeartbeatRequested, OtherRequested,
                  GroupFunction, Receiving, claim, Holds
    <3>3. PICK p \in Pgn \ {"claim"}, n \in Nat \ {0} : Enqueue(p, address, TRUE, n)
      BY <1>0, <2>5, <3>1 DEF ProductRequested, ListRequested, HeartbeatRequested,
                              OtherRequested, GroupFunction
    <3>4. Holds' => Holds
      BY <3>2
    <3> QED  BY <1>0, <3>2, <3>3, <3>4, SendInOrder
  <2> QED  BY <1>5, <2>1, <2>2, <2>3, <2>4, <2>5 DEF Handle
<1>6. CASE Timers
  <2>1. lastClaim' = lastClaim
    BY <1>6 DEF Timers
  <2>2. CASE BeginClaim
    <3>1. used \subseteq Addr
      BY DEF TypeOK
    <3>2. Free(used) # {} => PickFree(used) \in Addr
      BY <3>1, Picked DEF CanWorkerAssumption
    <3> QED  BY <2>1, <2>2, <3>2, ClaimStep DEF BeginClaim, CanWorkerAssumption
  <2>3. CASE TakeOwnership
    <3>1. Holds /\ UNCHANGED address
      BY <2>3 DEF TakeOwnership, Holds
    <3>2. "product" \in Pgn \ {"claim"}
      BY DEF Pgn, Fast
    <3>3. CASE UNCHANGED ring
      BY <2>1, <3>1, <3>3, Undisturbed DEF ring
    <3>4. CASE Enqueue("product", address, TRUE, 1)
      BY <1>0, <2>1, <3>1, <3>2, <3>4, SendInOrder
    <3> QED  BY <2>3, <3>3, <3>4 DEF TakeOwnership
  <2>4. CASE Beat
    <3>1. Holds /\ UNCHANGED <<state, address>> /\ Enqueue("heartbeat", address, TRUE, 1)
      BY <2>4 DEF Beat, BeatDue, Holds, claim
    <3>2. "heartbeat" \in Pgn \ {"claim"}
      BY DEF Pgn, Single
    <3> QED  BY <1>0, <2>1, <3>1, <3>2, SendInOrder
  <2>5. CASE NothingDue
    <3>1. UNCHANGED <<txq, claimLost, lastClaim, address, state>>
      BY <2>1, <2>5 DEF NothingDue, ring, claim
    <3> QED  BY <3>1, Undisturbed DEF Holds
  <2> QED  BY <1>6, <2>2, <2>3, <2>4, <2>5 DEF Timers
<1>7. CASE Reopen
  <2>1. (txq' = <<>> \/ txq' = <<ScanRequest>>) /\ state' \in {"Disabled", "Scanning"}
    BY <1>7 DEF Reopen
  <2>2. \A i \in 1 .. Len(txq') : txq'[i] = ScanRequest
    BY <2>1
  <2>3. ScanRequest.src = NullAddr
    BY DEF ScanRequest
  <2> QED  BY <2>1, <2>2, <2>3 DEF InOrder, FramesInOrder, HeldInOrder, Holds
<1>8. CASE UNCHANGED vars
  <2>1. UNCHANGED <<txq, claimLost, lastClaim, address, state>>
    BY <1>8 DEF vars, claim, ring
  <2> QED  BY <2>1, Undisturbed DEF Holds
<1> QED  BY <1>1, <1>2, <1>3, <1>4, <1>5, <1>6, <1>7, <1>8 DEF Next, Worker

\* The atom is Live whenever the worker is not handling frames.
LEMMA AtomStep ==
    ASSUME TypeOK, AtomFresh, [Next]_vars PROVE AtomFresh'
<1>1. ASSUME NEW u \in UserFrame, TakeCmd(u) PROVE AtomFresh'
  BY <1>1 DEF TakeCmd, AtomFresh, claim, Live
<1>2. CASE PollReturns \/ PollTimesOut \/ Quit
  BY <1>2 DEF PollReturns, PollTimesOut, Quit, AtomFresh, claim, Live
<1>3. CASE Written \/ NotWritten \/ WriteFails \/ Received
  BY <1>3 DEF Written, NotWritten, WriteFails, Received, AtomFresh
<1>4. CASE Handle
  <2>1. Receiving
    BY <1>4 DEF Handle, LearnClaim, DefendClaim, YieldClaim, ClaimRequested, ProductRequested,
                ListRequested, HeartbeatRequested, OtherRequested, GroupFunction
  <2> QED  BY <2>1 DEF Receiving, AtomFresh
<1>5. CASE Timers
  BY <1>5 DEF Timers, Publish, AtomFresh
<1>6. CASE Reopen
  BY <1>6 DEF Reopen, AtomFresh, Live
<1>7. CASE UNCHANGED vars
  BY <1>7 DEF vars, claim, AtomFresh, Live
<1> QED  BY <1>1, <1>2, <1>3, <1>4, <1>5, <1>6, <1>7 DEF Next, Worker

-----------------------------------------------------------------------------
(* The sequence counts.                                                    *)

\* While nothing is dropped, the messages of a PGN and source in the ring q are
\* numbered one after the other, and the counter c comes next.
Counted(q, c) ==
    \A p \in Fast, s \in Source : \A i \in Starts(q, p, s) :
        /\ \A j \in Starts(q, p, s) :
              i < j /\ (\A k \in Starts(q, p, s) : k <= i \/ j <= k)
              => q[j].seq = (q[i].seq + 1) % SeqMod
        /\ (\A k \in Starts(q, p, s) : k <= i) => c[p][s] = (q[i].seq + 1) % SeqMod

Counter == [Fast -> [Source -> 0 .. SeqMod - 1]]
After(c, p, s) == [c EXCEPT ![p][s] = (c[p][s] + 1) % SeqMod]

\* m is one message of p from s that the counter c numbers.
Block(m, p, s, c) ==
    /\ m \in Seq(Frame) /\ Len(m) \in Nat \ {0} /\ m[1].seq = c[p][s]
    /\ \A k \in 1 .. Len(m) : m[k].pgn = p /\ m[k].src = s /\ (m[k].index = 0 <=> k = 1)

LEMMA SmallQuotient ==
    ASSUME NEW M \in Nat \ {0}, NEW y \in 0 .. 2 * M - 1
    PROVE  /\ y % M = IF y < M THEN y ELSE y - M
           /\ y \div M = IF y < M THEN 0 ELSE 1
<1> DEFINE r == y % M
           d == y \div M
<1>1. r \in 0 .. M - 1 /\ d \in Int /\ y = M * d + r
  OBVIOUS
<1> HIDE DEF r, d
<1>2. CASE d >= 2
  <2>1. M * d >= M * 2
    BY <1>1, <1>2
  <2> QED  BY <1>1, <2>1
<1>3. CASE d <= -1
  <2>1. M * d <= M * (-1)
    BY <1>1, <1>3
  <2> QED  BY <1>1, <2>1
<1>4. CASE d = 0 \/ d = 1
  BY <1>1, <1>4
<1> QED  BY <1>1, <1>2, <1>3, <1>4 DEF r, d

\* The next count is one of the counts, and another one; two of one are two.
LEMMA NextCount ==
    ASSUME CanWorkerAssumption, NEW x \in 0 .. SeqMod - 1
    PROVE  /\ (x + 1) % SeqMod \in 0 .. SeqMod - 1 /\ (x + 1) % SeqMod # x
           /\ (((x + 1) % SeqMod) + 1) % SeqMod = (x + 2) % SeqMod
           /\ (x + 0) % SeqMod = x
<1>1. SeqMod \in Nat \ {0} /\ SeqMod >= 2
  BY DEF CanWorkerAssumption
<1>2. \A y \in 0 .. 2 * SeqMod - 1 : y % SeqMod = IF y < SeqMod THEN y ELSE y - SeqMod
  BY <1>1, SmallQuotient
<1>3. x + 0 \in 0 .. 2 * SeqMod - 1 /\ x + 1 \in 0 .. 2 * SeqMod - 1 /\ x + 2 \in 0 .. 2 * SeqMod - 1
  BY <1>1
<1> DEFINE a == (x + 1) % SeqMod
<1>4. a = IF x + 1 < SeqMod THEN x + 1 ELSE x + 1 - SeqMod
  BY <1>2, <1>3
<1>5. (x + 2) % SeqMod = IF x + 2 < SeqMod THEN x + 2 ELSE x + 2 - SeqMod
  BY <1>2, <1>3
<1>6. (x + 0) % SeqMod = x
  BY <1>2, <1>3
<1> HIDE DEF a
<1>7. a \in 0 .. SeqMod - 1 /\ a # x /\ a + 1 \in 0 .. 2 * SeqMod - 1
  BY <1>1, <1>4
<1>8. (a + 1) % SeqMod = IF a + 1 < SeqMod THEN a + 1 ELSE a + 1 - SeqMod
  BY <1>2, <1>7
<1>9. (a + 1) % SeqMod = (x + 2) % SeqMod
  BY <1>1, <1>4, <1>5, <1>8
<1> QED  BY <1>6, <1>7, <1>9 DEF a

LEMMA TailCounted ==
    ASSUME NEW q \in Seq(Frame), NEW c, q # <<>>, Counted(q, c)
    PROVE  Counted(Tail(q), c)
<1> DEFINE t == Tail(q)
<1>1. /\ Len(q) \in Nat \ {0} /\ DOMAIN q = 1 .. Len(q) /\ DOMAIN t = 1 .. Len(q) - 1
      /\ \A i \in 1 .. Len(q) - 1 : t[i] = q[i + 1]
  OBVIOUS
<1> HIDE DEF t
<1> SUFFICES ASSUME NEW p \in Fast, NEW s \in Source, NEW i \in Starts(t, p, s)
             PROVE  /\ \A j \in Starts(t, p, s) :
                          i < j /\ (\A k \in Starts(t, p, s) : k <= i \/ j <= k)
                          => t[j].seq = (t[i].seq + 1) % SeqMod
                    /\ (\A k \in Starts(t, p, s) : k <= i) => c[p][s] = (t[i].seq + 1) % SeqMod
  BY DEF Counted, t
<1>2. \A k \in Starts(t, p, s) : k \in Nat /\ k + 1 \in Starts(q, p, s) /\ t[k] = q[k + 1]
  BY <1>1 DEF Starts
<1>3. \A k \in Starts(q, p, s) : k \in Nat /\ (k = 1 \/ k - 1 \in Starts(t, p, s))
  BY <1>1 DEF Starts
<1>4. ASSUME NEW j \in Starts(t, p, s), i < j, \A k \in Starts(t, p, s) : k <= i \/ j <= k
      PROVE  t[j].seq = (t[i].seq + 1) % SeqMod
  <2>1. \A k \in Starts(q, p, s) : k <= i + 1 \/ j + 1 <= k
    BY <1>2, <1>3, <1>4
  <2>2. i + 1 < j + 1
    BY <1>2, <1>4
  <2> QED  BY <1>2, <2>1, <2>2 DEF Counted
<1>5. ASSUME \A k \in Starts(t, p, s) : k <= i
      PROVE  c[p][s] = (t[i].seq + 1) % SeqMod
  <2>1. \A k \in Starts(q, p, s) : k <= i + 1
    BY <1>2, <1>3, <1>5
  <2> QED  BY <1>2, <2>1 DEF Counted
<1> QED  BY <1>4, <1>5

\* What is appended without a first frame of a counted PGN changes nothing.
LEMMA OtherCounted ==
    ASSUME NEW q \in Seq(Frame), NEW m \in Seq(Frame), NEW c, Counted(q, c),
           \A k \in 1 .. Len(m) : m[k].pgn \notin Fast
    PROVE  Counted(q \o m, c)
<1> DEFINE r == q \o m
<1>1. /\ DOMAIN q = 1 .. Len(q) /\ DOMAIN r = 1 .. Len(q) + Len(m) /\ Len(q) \in Nat /\ Len(m) \in Nat
      /\ \A i \in 1 .. Len(q) : r[i] = q[i]
      /\ \A i \in Len(q) + 1 .. Len(q) + Len(m) : r[i] = m[i - Len(q)] /\ i - Len(q) \in 1 .. Len(m)
  OBVIOUS
<1> HIDE DEF r
<1>2. \A p \in Fast, s \in Source : Starts(r, p, s) = Starts(q, p, s)
  BY <1>1 DEF Starts
<1>3. \A p, s : \A i \in Starts(q, p, s) : r[i] = q[i]
  BY <1>1 DEF Starts
<1>4. Counted(r, c)
  BY <1>2, <1>3 DEF Counted
<1> QED  BY <1>4 DEF r

\* A message is appended with the count that comes next.
LEMMA BlockCounted ==
    ASSUME CanWorkerAssumption, NEW q \in Seq(Frame), NEW m, NEW c \in Counter, NEW p \in Fast, NEW s \in Source,
           Counted(q, c), Block(m, p, s, c)
    PROVE  Counted(q \o m, After(c, p, s)) /\ After(c, p, s) \in Counter
<1> DEFINE r == q \o m
           d == After(c, p, s)
           n == Len(q) + 1
<1>1. /\ DOMAIN q = 1 .. Len(q) /\ DOMAIN r = 1 .. Len(q) + Len(m) /\ Len(q) \in Nat /\ Len(m) \in Nat \ {0}
      /\ \A i \in 1 .. Len(q) : r[i] = q[i]
      /\ \A i \in Len(q) + 1 .. Len(q) + Len(m) : r[i] = m[i - Len(q)] /\ i - Len(q) \in 1 .. Len(m)
  BY DEF Block
<1>2. c[p][s] \in 0 .. SeqMod - 1 /\ (c[p][s] + 1) % SeqMod \in 0 .. SeqMod - 1
  BY NextCount DEF Counter
<1>3. /\ d \in Counter /\ d[p][s] = (c[p][s] + 1) % SeqMod
      /\ \A p2 \in Fast, s2 \in Source : p2 # p \/ s2 # s => d[p2][s2] = c[p2][s2]
  BY <1>2 DEF After, Counter
<1>4. r[n] = m[1] /\ n \in DOMAIN r
  BY <1>1
<1> HIDE DEF r, d
<1>5. ASSUME NEW p2 \in Fast, NEW s2 \in Source, p2 # p \/ s2 # s
      PROVE  Starts(r, p2, s2) = Starts(q, p2, s2)
  <2>1. ASSUME NEW i \in DOMAIN r, r[i].pgn = p2, r[i].src = s2 PROVE i \in DOMAIN q
    <3>1. CASE i \in 1 .. Len(q)
      BY <1>1, <3>1
    <3>2. CASE i \in Len(q) + 1 .. Len(q) + Len(m)
      BY <1>1, <1>5, <2>1, <3>2 DEF Block
    <3> QED  BY <1>1, <2>1, <3>1, <3>2
  <2>2. ASSUME NEW i \in DOMAIN q PROVE i \in DOMAIN r /\ r[i] = q[i]
    BY <1>1, <2>2
  <2> QED  BY <2>1, <2>2 DEF Starts
<1>6. Starts(r, p, s) = Starts(q, p, s) \cup {n}
  <2>1. ASSUME NEW i \in Starts(r, p, s), i \notin DOMAIN q PROVE i = n
    <3>1. i \in Len(q) + 1 .. Len(q) + Len(m) /\ r[i].index = 0
      BY <1>1, <2>1 DEF Starts
    <3>2. i - Len(q) = 1
      BY <1>1, <3>1 DEF Block
    <3> QED  BY <1>1, <3>1, <3>2
  <2>2. n \in Starts(r, p, s)
    <3>1. 1 \in 1 .. Len(m)
      BY <1>1
    <3> QED  BY <1>4, <3>1 DEF Starts, Block
  <2>3. ASSUME NEW i \in DOMAIN q PROVE i \in DOMAIN r /\ r[i] = q[i]
    BY <1>1, <2>3
  <2> QED  BY <2>1, <2>2, <2>3 DEF Starts
<1>7. \A p2, s2 : \A i \in Starts(q, p2, s2) : r[i] = q[i] /\ i \in Nat /\ i < n
  BY <1>1 DEF Starts
<1> SUFFICES ASSUME NEW p2 \in Fast, NEW s2 \in Source, NEW i \in Starts(r, p2, s2)
             PROVE  /\ \A j \in Starts(r, p2, s2) :
                          i < j /\ (\A k \in Starts(r, p2, s2) : k <= i \/ j <= k)
                          => r[j].seq = (r[i].seq + 1) % SeqMod
                    /\ (\A k \in Starts(r, p2, s2) : k <= i) => d[p2][s2] = (r[i].seq + 1) % SeqMod
  BY <1>3 DEF Counted, r, d
<1>8. CASE p2 # p \/ s2 # s
  BY <1>3, <1>5, <1>7, <1>8 DEF Counted
<1>9. CASE p2 = p /\ s2 = s
  <2> HIDE DEF n
  <2>1. n \in Nat /\ r[n].seq = c[p][s]
    BY <1>1, <1>4 DEF Block, n
  <2>2. CASE i = n
    BY <1>3, <1>6, <1>7, <1>9, <2>1, <2>2
  <2>3. ASSUME i \in Starts(q, p, s), NEW j \in Starts(r, p, s), i < j,
               \A k \in Starts(r, p, s) : k <= i \/ j <= k
        PROVE  r[j].seq = (r[i].seq + 1) % SeqMod
    <3>1. CASE j = n
      <4>1. \A k \in Starts(q, p, s) : k <= i
        BY <1>6, <1>7, <2>1, <2>3, <3>1
      <4> QED  BY <1>7, <2>1, <2>3, <3>1, <4>1 DEF Counted
    <3>2. CASE j \in Starts(q, p, s)
      BY <1>6, <1>7, <2>3, <3>2 DEF Counted
    <3> QED  BY <1>6, <3>1, <3>2
  <2>4. ASSUME i \in Starts(q, p, s)
        PROVE  ~(\A k \in Starts(r, p, s) : k <= i)
    <3>1. n \in Starts(r, p, s) /\ ~(n <= i)
      BY <1>6, <1>7, <2>1, <2>4
    <3> QED  BY <3>1
  <2> QED  BY <1>6, <1>9, <2>2, <2>3, <2>4
<1> QED  BY <1>8, <1>9

\* A message of a counted PGN is a block, and two are two.
LEMMA MessageBlocks ==
    ASSUME CanWorkerAssumption, TypeOK, NEW p \in Fast, NEW s \in Source, NEW ours \in BOOLEAN
    PROVE  /\ Block(Message(p, s, ours, 1), p, s, fastSeq)
           /\ \E a, b : /\ Message(p, s, ours, 2) = a \o b
                        /\ Block(a, p, s, fastSeq) /\ Block(b, p, s, After(fastSeq, p, s))
<1> DEFINE C == Chunks[p]
           x == fastSeq[p][s]
           F(k, v) == [pgn |-> p, src |-> s, ours |-> ours, seq |-> v, index |-> k]
           a == [k \in 1 .. C |-> F(k - 1, x)]
           b == [k \in 1 .. C |-> F(k - 1, (x + 1) % SeqMod)]
<1>1. C \in Nat \ {0} /\ x \in 0 .. SeqMod - 1 /\ (x + 1) % SeqMod \in 0 .. SeqMod - 1 /\ (x + 0) % SeqMod = x
      /\ p \in Pgn /\ fastSeq \in Counter
  <2>1. C \in Nat \ {0} /\ p \in Pgn
    BY DEF CanWorkerAssumption, Pgn
  <2>2. x \in 0 .. SeqMod - 1 /\ fastSeq \in Counter
    BY DEF TypeOK, Counter
  <2> QED  BY <2>1, <2>2, NextCount
<1>2. After(fastSeq, p, s)[p][s] = (x + 1) % SeqMod
  BY <1>1 DEF After, Counter
<1>3. \A k \in 1 .. 2 * C :
          /\ (k - 1) % C = IF k <= C THEN k - 1 ELSE k - 1 - C
          /\ (k - 1) \div C = IF k <= C THEN 0 ELSE 1
  <2> SUFFICES ASSUME NEW k \in 1 .. 2 * C
               PROVE  /\ (k - 1) % C = IF k <= C THEN k - 1 ELSE k - 1 - C
                      /\ (k - 1) \div C = IF k <= C THEN 0 ELSE 1
    OBVIOUS
  <2> HIDE DEF C
  <2>1. k - 1 \in 0 .. 2 * C - 1 /\ (k - 1 < C <=> k <= C)
    BY <1>1
  <2> QED  BY <1>1, <2>1, SmallQuotient
<1>4. Message(p, s, ours, 1) = [k \in 1 .. 1 * C |-> F((k - 1) % C, (x + (k - 1) \div C) % SeqMod)]
  BY DEF Message
<1>5. Message(p, s, ours, 2) = [k \in 1 .. 2 * C |-> F((k - 1) % C, (x + (k - 1) \div C) % SeqMod)]
  BY DEF Message
<1> HIDE DEF C, x
<1>6. Message(p, s, ours, 1) = a
  <2>1. 1 * C = C
    BY <1>1
  <2>2. \A k \in 1 .. C : k \in 1 .. 2 * C /\ k <= C
    BY <1>1
  <2> QED  BY <1>1, <1>3, <1>4, <2>1, <2>2
<1>7. \A k \in 1 .. C : k - 1 \in Nat /\ (k - 1 = 0 <=> k = 1)
  BY <1>1
<1>8. ASSUME NEW v \in 0 .. SeqMod - 1
      PROVE  LET m == [k \in 1 .. C |-> F(k - 1, v)] IN
             /\ m \in Seq(Frame) /\ Len(m) = C /\ m[1].seq = v
             /\ \A k \in 1 .. Len(m) : m[k].pgn = p /\ m[k].src = s /\ (m[k].index = 0 <=> k = 1)
  <2> DEFINE m == [k \in 1 .. C |-> F(k - 1, v)]
  <2>1. \A k \in 1 .. C : F(k - 1, v) \in Frame
    BY <1>1, <1>7, <1>8 DEF Frame
  <2>2. m \in Seq(Frame) /\ Len(m) = C
    <3>1. m \in [1 .. C -> Frame]
      BY <2>1, Zenon
    <3> HIDE DEF m
    <3> QED  BY <1>1, <3>1
  <2>3. 1 \in 1 .. C
    BY <1>1
  <2> QED  BY <1>7, <2>2, <2>3
<1>9. Block(a, p, s, fastSeq) /\ Block(b, p, s, After(fastSeq, p, s))
  BY <1>1, <1>2, <1>8 DEF Block, x
<1>10. Message(p, s, ours, 2) = a \o b
  <2> DEFINE w == Message(p, s, ours, 2)
             u == a \o b
  <2>1. a \in Seq(Frame) /\ Len(a) = C /\ b \in Seq(Frame) /\ Len(b) = C
    BY <1>1, <1>8
  <2>2. \A k \in 1 .. C : a[k] = F(k - 1, x) /\ b[k] = F(k - 1, (x + 1) % SeqMod)
    OBVIOUS
  <2> HIDE DEF a, b
  <2>3. /\ u = [k \in 1 .. 2 * C |-> u[k]]
        /\ \A k \in 1 .. 2 * C : u[k] = IF k <= C THEN a[k] ELSE b[k - C]
    <3>1. u \in Seq(Frame) /\ Len(u) = C + C
      BY <1>1, <2>1
    <3>2. C + C = 2 * C
      BY <1>1
    <3>3. \A k \in 1 .. 2 * C : u[k] = IF k <= C THEN a[k] ELSE b[k - C]
      BY <1>1, <2>1, <3>2
    <3>4. u \in [1 .. 2 * C -> Frame]
      <4> HIDE DEF u
      <4> QED  BY <3>1, <3>2
    <3> QED  BY <3>3, <3>4
  <2>4. w = [k \in 1 .. 2 * C |-> w[k]]
    BY <1>5
  <2>5. ASSUME NEW k \in 1 .. 2 * C
        PROVE  w[k] = u[k]
    <3>1. w[k] = F((k - 1) % C, (x + (k - 1) \div C) % SeqMod)
      BY <1>5
    <3>2. CASE k <= C
      <4>1. k \in 1 .. C /\ (k - 1) % C = k - 1 /\ (k - 1) \div C = 0
        BY <1>1, <1>3, <3>2
      <4> QED  BY <1>1, <2>2, <2>3, <3>1, <3>2, <4>1
    <3>3. CASE ~(k <= C)
      <4>1. k - C \in 1 .. C /\ (k - 1) % C = k - 1 - C /\ (k - 1) \div C = 1 /\ k - 1 - C = k - C - 1
        BY <1>1, <1>3, <3>3
      <4> QED  BY <2>2, <2>3, <3>1, <3>3, <4>1
    <3> QED  BY <3>2, <3>3
  <2> HIDE DEF w, u
  <2> QED  BY <2>3, <2>4, <2>5 DEF w, u
<1> QED  BY <1>6, <1>9, <1>10

\* What is sent and not dropped is counted.
LEMMA SendCounted ==
    ASSUME CanWorkerAssumption, TypeOK, Counted(txq, fastSeq), NEW p \in Pgn, NEW s \in Source,
           NEW ours \in BOOLEAN, NEW n \in {1, 2}, Enqueue(p, s, ours, n), Len(txq') < TxCapacity
    PROVE  Counted(txq', fastSeq')
<1> DEFINE m == Message(p, s, ours, n)
<1>1. /\ m \in Seq(Frame) /\ Len(m) \in Nat /\ \A k \in 1 .. Len(m) : m[k].pgn = p
      /\ txq \in Seq(Frame) /\ Len(txq) \in Nat /\ Len(txq) <= TxCapacity /\ TxCapacity \in Nat
  <2>1. n \in Nat \ {0}
    OBVIOUS
  <2>2. Part(m, p, s, ours) /\ Len(m) \in Nat
    BY <2>1, MessageShape
  <2>3. txq \in Seq(Frame) /\ Len(txq) \in Nat /\ Len(txq) <= TxCapacity /\ TxCapacity \in Nat
    BY DEF TypeOK, CanWorkerAssumption
  <2> QED  BY <2>2, <2>3 DEF Part
<1>2. txq' = IF Room < Len(m) THEN txq \o SubSeq(m, 1, Room) ELSE txq \o m
  BY DEF Enqueue
<1> HIDE DEF m
<1>3. txq' = txq \o m
  <2>1. SUFFICES ASSUME Room < Len(m)
                 PROVE  FALSE
    BY <1>2
  <2>2. Room \in Nat /\ Room = TxCapacity - Len(txq)
    BY <1>1 DEF Room
  <2>3. Len(SubSeq(m, 1, Room)) = Room /\ SubSeq(m, 1, Room) \in Seq(Frame)
    BY <1>1, <2>1, <2>2
  <2>4. Len(txq') = Len(txq) + Room
    BY <1>1, <1>2, <2>1, <2>3
  <2> QED  BY <1>1, <2>2, <2>4
<1>4. CASE p \notin Fast
  <2>1. fastSeq' = fastSeq
    BY <1>4 DEF Enqueue
  <2> QED  BY <1>1, <1>3, <1>4, <2>1, OtherCounted
<1>5. CASE p \in Fast
  <2>1. fastSeq \in Counter /\ fastSeq[p][s] \in 0 .. SeqMod - 1
    BY <1>5 DEF TypeOK, Counter
  <2>2. fastSeq' = [fastSeq EXCEPT ![p][s] = (fastSeq[p][s] + n) % SeqMod]
    BY <1>5 DEF Enqueue
  <2>3. CASE n = 1
    <3>1. Block(m, p, s, fastSeq) /\ fastSeq' = After(fastSeq, p, s)
      BY <1>5, <2>2, <2>3, MessageBlocks DEF m, After
    <3> QED  BY <1>1, <1>3, <1>5, <2>1, <3>1, BlockCounted
  <2>4. CASE n = 2
    <3> DEFINE c == After(fastSeq, p, s)
    <3>1. PICK a, b : m = a \o b /\ Block(a, p, s, fastSeq) /\ Block(b, p, s, c)
      BY <1>5, <2>4, MessageBlocks DEF m
    <3>2. a \in Seq(Frame) /\ b \in Seq(Frame) /\ txq \o a \in Seq(Frame) /\ txq' = (txq \o a) \o b
      BY <1>1, <1>3, <3>1 DEF Block
    <3>3. Counted(txq \o a, c) /\ c \in Counter
      BY <1>1, <1>5, <2>1, <3>1, BlockCounted
    <3>4. Counted(txq', After(c, p, s))
      BY <1>5, <3>1, <3>2, <3>3, BlockCounted
    <3>5. fastSeq' = After(c, p, s)
      <4>1. (((fastSeq[p][s] + 1) % SeqMod) + 1) % SeqMod = (fastSeq[p][s] + 2) % SeqMod
        BY <2>1, NextCount
      <4>2. c[p][s] = (fastSeq[p][s] + 1) % SeqMod
        BY <1>5, <2>1 DEF After, Counter
      <4> QED  BY <1>5, <2>1, <2>2, <2>4, <4>1, <4>2 DEF After, Counter
    <3> QED  BY <3>4, <3>5
  <2> QED  BY <2>3, <2>4
<1> QED  BY <1>4, <1>5

\* Nothing is counted in the rings a session starts with.
LEMMA FirstCounted ==
    Counted(<<>>, NoSeq) /\ Counted(<<ScanRequest>>, NoSeq)
<1>1. \A p, s : Starts(<<>>, p, s) = {}
  BY DEF Starts
<1>2. ASSUME NEW p \in Fast, NEW s, NEW i \in Starts(<<ScanRequest>>, p, s) PROVE FALSE
  <2>1. i = 1 /\ <<ScanRequest>>[i] = ScanRequest
    BY <1>2 DEF Starts
  <2>2. ScanRequest.pgn = p
    BY <1>2, <2>1 DEF Starts
  <2>3. ScanRequest.pgn = "request"
    BY DEF ScanRequest
  <2> QED  BY <2>2, <2>3 DEF Fast
<1> QED  BY <1>1, <1>2 DEF Counted

\* Every step that leaves room in the ring keeps the numbering.
LEMMA CountedStep ==
    ASSUME CanWorkerAssumption, TypeOK, Counted(txq, fastSeq), [Next]_vars, Len(txq') < TxCapacity
    PROVE  Counted(txq', fastSeq')
<1>0. /\ address \in Source /\ NullAddr \in Source /\ Addr \subseteq Source
      /\ {"claim", "product", "list", "group", "heartbeat", "ack"} \subseteq Pgn
  BY Sources DEF Pgn, Fast, Single, Source
<1>1. ASSUME UNCHANGED ring PROVE Counted(txq', fastSeq')
  BY <1>1 DEF ring
<1>2. ASSUME NEW p \in Pgn, NEW s \in Source, NEW n \in {1, 2}, Enqueue(p, s, TRUE, n)
      PROVE  Counted(txq', fastSeq')
  BY <1>2, SendCounted
<1>3. ASSUME NEW a \in Addr, Claim(a) PROVE Counted(txq', fastSeq')
  BY <1>0, <1>2, <1>3 DEF Claim
<1>4. CASE Fail
  BY <1>0, <1>2, <1>4 DEF Fail
<1>5. \A u \in SUBSET Addr : Free(u) # {} => PickFree(u) \in Addr
  BY Picked DEF CanWorkerAssumption
<1>6. used \in SUBSET Addr
  BY DEF TypeOK
<1>7. ASSUME NEW u \in UserFrame, TakeCmd(u) PROVE Counted(txq', fastSeq')
  <2>1. CASE u.pgn = "synthetic"
    BY <1>1, <1>7, <2>1 DEF TakeCmd
  <2>2. CASE u.pgn # "synthetic"
    <3>1. Enqueue(u.pgn, SourceOf(u), u.src = Own, 1)
      BY <1>7, <2>2 DEF TakeCmd
    <3>2. u.pgn \in Pgn /\ SourceOf(u) \in Source /\ (u.src = Own) \in BOOLEAN
      BY <2>2, Sources
    <3> QED  BY <3>1, <3>2, SendCounted
  <2> QED  BY <2>1, <2>2
<1>8. CASE PollReturns \/ PollTimesOut \/ Quit \/ NotWritten \/ Received
  BY <1>1, <1>8 DEF PollReturns, PollTimesOut, Quit, NotWritten, Received
<1>9. CASE Written \/ WriteFails
  <2>1. txq # <<>> /\ txq' = Tail(txq) /\ fastSeq' = fastSeq /\ txq \in Seq(Frame)
    BY <1>9 DEF Written, WriteFails, TypeOK
  <2> QED  BY <2>1, TailCounted
<1>10. CASE Handle
  <2>1. ASSUME NEW a \in Addr, LearnClaim(a) \/ DefendClaim(a) PROVE Counted(txq', fastSeq')
    BY <1>1, <1>3, <2>1 DEF LearnClaim, DefendClaim
  <2>2. ASSUME NEW a \in Addr, YieldClaim(a) PROVE Counted(txq', fastSeq')
    <3>1. used \cup {a} \in SUBSET Addr
      BY <1>6
    <3> QED  BY <1>3, <1>4, <1>5, <2>2, <3>1 DEF YieldClaim
  <2>3. ASSUME NEW d, ClaimRequested(d) \/ ProductRequested(d) \/ ListRequested(d)
                      \/ HeartbeatRequested(d) \/ OtherRequested(d)
        PROVE  Counted(txq', fastSeq')
    <3>1. \E p \in Pgn, n \in {1, 2} : Enqueue(p, address, TRUE, n)
      BY <1>0, <2>3 DEF ClaimRequested, ProductRequested, ListRequested,
                        HeartbeatRequested, OtherRequested
    <3> QED  BY <1>0, <1>2, <3>1
  <2>4. CASE GroupFunction
    BY <1>0, <1>2, <2>4 DEF GroupFunction
  <2> QED  BY <1>10, <2>1, <2>2, <2>3, <2>4 DEF Handle
<1>11. CASE Timers
  <2>1. CASE BeginClaim
    <3>1. Preferred \in Addr
      BY DEF CanWorkerAssumption
    <3> QED  BY <1>3, <1>4, <1>5, <1>6, <2>1, <3>1 DEF BeginClaim
  <2>2. CASE TakeOwnership
    BY <1>0, <1>1, <1>2, <2>2 DEF TakeOwnership
  <2>3. CASE Beat
    BY <1>0, <1>2, <2>3 DEF Beat
  <2>4. CASE NothingDue
    BY <1>1, <2>4 DEF NothingDue
  <2> QED  BY <1>11, <2>1, <2>2, <2>3, <2>4 DEF Timers
<1>12. CASE Reopen
  BY <1>12, FirstCounted DEF Reopen
<1>13. CASE UNCHANGED vars
  BY <1>1, <1>13 DEF vars, ring
<1> QED
  BY <1>7, <1>8, <1>9, <1>10, <1>11, <1>12, <1>13 DEF Next, Worker

\* A ring that is counted tells its consecutive messages apart.
LEMMA CountedApart ==
    ASSUME CanWorkerAssumption, TypeOK, Counted(txq, fastSeq)
    PROVE  Distinguishable
<1> SUFFICES ASSUME NEW p \in Fast, NEW s \in Source,
                    NEW i \in Starts(txq, p, s), NEW j \in Starts(txq, p, s), i < j,
                    \A k \in Starts(txq, p, s) : k <= i \/ j <= k
             PROVE  txq[i].seq # txq[j].seq
  BY DEF Distinguishable
<1>1. txq[j].seq = (txq[i].seq + 1) % SeqMod
  BY DEF Counted
<1>2. txq[i].seq \in 0 .. SeqMod - 1
  <2>1. txq[i] \in Frame
    BY DEF TypeOK, Starts
  <2> QED  BY <2>1 DEF Frame
<1> QED  BY <1>1, <1>2, NextCount

-----------------------------------------------------------------------------
(* The theorems.                                                           *)

\* The worker's state is always well typed: in particular it goes by the null
\* address exactly after a failed claim, holds no address that it knows another
\* node has, and its ring never exceeds TX_BUFFER_CAPACITY.
THEOREM WorkerTypes == Spec => []TypeOK
<1>1. Init => TypeOK
  BY TypeInit, CanWorkerAssumption
<1>2. TypeOK /\ [Next]_vars => TypeOK'
  BY TypeStep, CanWorkerAssumption
<1> QED  BY <1>1, <1>2, PTL DEF Spec

\* The invariant behind the next theorem: everything that waits in the ring
\* waits behind the claim of its address.
THEOREM RingInOrder == Spec => []InOrder
<1>1. Init => InOrder
  <2>1. Init => (txq = <<>> \/ txq = <<ScanRequest>>) /\ state \in {"Disabled", "Scanning"}
    BY DEF Init
  <2> QED  BY <2>1, FirstInOrder
<1>2. TypeOK /\ InOrder /\ [Next]_vars => InOrder'
  BY OrderStep, CanWorkerAssumption
<1> QED  BY <1>1, <1>2, WorkerTypes, PTL DEF Spec

\* Unless a claim is lost, the other nodes hear the worker's own frames under
\* the address it claimed last on the wire: Bus::send_pgn queues, and the
\* writer of step 5 sends, claims and everything else in one order.
THEOREM OneAddressAtATime == Spec => []SentUnderOwnClaim
<1>1. TypeOK /\ InOrder => SentUnderOwnClaim
  <2> SUFFICES ASSUME TypeOK, InOrder, txq # <<>>, Head(txq).ours,
                      Head(txq).pgn # "claim", ~claimLost
               PROVE  Head(txq).src \in {NullAddr, lastClaim}
    BY DEF SentUnderOwnClaim
  <2>1. 1 \in 1 .. Len(txq) /\ Head(txq) = txq[1]
    BY DEF TypeOK
  <2>2. txq[1].src = NullAddr \/ Under(txq, lastClaim, 1, txq[1].src)
    BY <2>1 DEF InOrder, FramesInOrder
  <2> QED  BY <2>1, <2>2 DEF Under
<1> QED  BY <1>1, WorkerTypes, RingInOrder, PTL

\* While the worker sleeps or writes, the atom that every other thread reads is
\* the address it owns: step 8 publishes what steps 6 and 7 changed.
THEOREM AtomIsFresh == Spec => []AtomFresh
<1>1. Init => AtomFresh
  BY DEF Init, AtomFresh, Live
<1>2. TypeOK /\ AtomFresh /\ [Next]_vars => AtomFresh'
  BY AtomStep
<1> QED  BY <1>1, <1>2, WorkerTypes, PTL DEF Spec

\* As long as the ring does not fill up, so that nothing is dropped, the worker
\* numbers the messages of a PGN and source one after the other: whoever
\* receives them tells the first frame of one from a continuation of the last.
THEOREM ConsecutiveAreTold == Spec /\ [](Len(txq) < TxCapacity) => []Distinguishable
<1> USE CanWorkerAssumption
<1>1. Init => Counted(txq, fastSeq)
  BY FirstCounted DEF Init
<1>2. TypeOK /\ Counted(txq, fastSeq) /\ [Next]_vars /\ (Len(txq) < TxCapacity)' => Counted(txq, fastSeq)'
  <2>1. SUFFICES ASSUME TypeOK, Counted(txq, fastSeq), [Next]_vars, (Len(txq) < TxCapacity)'
                 PROVE  Counted(txq', fastSeq')
    BY DEF Counted, Starts
  <2> QED  BY <2>1, CountedStep
<1>3. TypeOK /\ Counted(txq, fastSeq) => Distinguishable
  BY CountedApart
<1>4. Spec => []TypeOK
  BY WorkerTypes
<1> QED  BY <1>1, <1>2, <1>3, <1>4, PTL DEF Spec
=============================================================================
