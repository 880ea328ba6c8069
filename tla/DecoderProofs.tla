---------------------------- MODULE DecoderProofs ----------------------------
(***************************************************************************)
(* Proofs about the parts of the server that face a device: ISO transport  *)
(* protocol reassembly, the iKonvert handshake, the Actisense framing and  *)
(* the Maretron session, for whatever is sent, lost, repeated or aborted.  *)
(***************************************************************************)
EXTENDS Server, FiniteSetTheorems, SequenceTheorems, WellFoundedInduction, TLAPS

\* There is a source, a session and a packet; the bounds are numbers.
TpSizes ==
    /\ Talkers # {} /\ TpSlots \in Nat \ {0} /\ MaxPackets \in Nat \ {0}
    /\ MaxTransfers \in Nat /\ MaxLost \in Nat /\ MaxAgain \in Nat

\* A nonempty set of natural numbers has a least element.
LEMMA LeastNumber ==
    ASSUME NEW S, S \subseteq Nat, S # {}
    PROVE  \E x \in S : \A y \in S : x <= y
  <1>1. PICK x \in S : \A y \in S : ~(<<y, x>> \in OpToRel(<, Nat))
    BY NatLessThanWellFounded, WFMin
  <1>2. ASSUME NEW y \in S
        PROVE  x <= y
    <2>1. x \in Nat /\ y \in Nat
      OBVIOUS
    <2>2. y < x => <<y, x>> \in OpToRel(<, Nat)
      BY <2>1 DEF OpToRel
    <2>3. ~(y < x)
      BY <1>1, <2>2
    <2>4. QED
      BY <2>1, <2>3
  <1>3. QED
    BY <1>2

LEMMA LowestIsMember ==
    ASSUME NEW S, S \subseteq Nat, S # {}
    PROVE  Is!Lowest(S) \in S
  BY LeastNumber DEF Is!Lowest

-----------------------------------------------------------------------------
(* The invariant.                                                          *)

\* No two sessions are of one source.
OneEach ==
    \A i, j \in Is!Slot :
        tp_slots[i].used /\ tp_slots[j].used /\ tp_slots[i].src = tp_slots[j].src => i = j

\* A source that has begun to send is in the middle of a transfer.
Begun == \A s \in Talkers : sending[s].packets > 0 \/ sending[s].next > 1 => sending[s].transfer # 0

\* What a session has received are chunks, and of the transfer that opened it,
\* which is the one its source sends, unless that one's connect was not heard.
SessionSound(i) ==
    /\ tp_slots[i].received \subseteq 1 .. tp_slots[i].packets
    /\ \A p \in tp_slots[i].received : tp_slots[i].data[p] # 0
    /\ ~unheard[tp_slots[i].src] =>
          /\ tp_slots[i].opened = sending[tp_slots[i].src].transfer
          /\ \A p \in tp_slots[i].received : tp_slots[i].data[p] = tp_slots[i].opened
SessionsSound == \A i \in Is!Slot : tp_slots[i].used => SessionSound(i)

\* A transfer of which nothing was lost has a session with all that was sent.
Follows(s, i) ==
    /\ tp_slots[i].used /\ tp_slots[i].src = s
    /\ tp_slots[i].packets = sending[s].packets
    /\ tp_slots[i].received = 1 .. sending[s].next - 1
WholeIsFollowed ==
    \A s \in Talkers : sending[s].whole /\ sending[s].next <= sending[s].packets =>
        \E i \in Is!Slot : Follows(s, i)

TransfersInv == Is!TypeOK /\ OneEach /\ Begun /\ SessionsSound /\ WholeIsFollowed

-----------------------------------------------------------------------------
(* The slot that a connect opens, and the one that data goes to.           *)

LEMMA ClaimedIsSlot ==
    ASSUME TpSizes, Is!TypeOK, NEW s \in Talkers
    PROVE  /\ Is!Claimed(s) \in Is!Slot
           /\ Is!Session(s) # {} => Is!Claimed(s) \in Is!Session(s)
  <1>1. Is!Slot \subseteq Nat /\ Is!Slot # {}
    BY DEF TpSizes, Is!Slot
  <1>2. Is!Session(s) \subseteq Is!Slot /\ Is!FreeSlots \subseteq Is!Slot
    BY DEF Is!Session, Is!FreeSlots
  <1>3. CASE Is!Session(s) # {}
    <2>1. Is!Lowest(Is!Session(s)) \in Is!Session(s)
      BY <1>1, <1>2, <1>3, LowestIsMember
    <2>2. QED
      BY <1>2, <1>3, <2>1 DEF Is!Claimed
  <1>4. CASE Is!Session(s) = {} /\ Is!FreeSlots # {}
    <2>1. Is!Lowest(Is!FreeSlots) \in Is!FreeSlots
      BY <1>1, <1>2, <1>4, LowestIsMember
    <2>2. QED
      BY <1>2, <1>4, <2>1 DEF Is!Claimed
  <1>5. CASE Is!Session(s) = {} /\ Is!FreeSlots = {}
    <2> DEFINE ages == {tp_slots[i].age : i \in Is!Slot}
    <2>1. \A i \in Is!Slot : tp_slots[i].age \in Nat
      BY DEF Is!TypeOK, Is!SessionType
    <2>2. ages \subseteq Nat /\ ages # {}
      BY <1>1, <2>1
    <2>3. PICK x \in ages : \A y \in ages : x <= y
      <3> HIDE DEF ages
      <3> QED BY <2>2, LeastNumber
    <2>4. PICK i \in Is!Slot : x = tp_slots[i].age
      BY <2>3
    <2>5. \A j \in Is!Slot : tp_slots[i].age <= tp_slots[j].age
      BY <2>3, <2>4
    <2>6. Is!OldestSession \in Is!Slot
      BY <2>5 DEF Is!OldestSession
    <2>7. QED
      BY <1>5, <2>6 DEF Is!Claimed
  <1>6. QED
    BY <1>3, <1>4, <1>5

\* Session i of s takes the chunk p of t, and ends when none is missing.
Takes(s, i, p, t) ==
    LET chunks == tp_slots[i].received \cup {p}
        data == [tp_slots[i].data EXCEPT ![p] = t]
        ends == 1 .. tp_slots[i].packets \subseteq chunks
    IN  /\ tp_slots' = [tp_slots EXCEPT ![i] = [tp_slots[i] EXCEPT
                 !.received = chunks, !.data = data, !.used = ~ends]]
        /\ emitted' = IF ~ends THEN Is!NoPayload
                  ELSE [src |-> s, opened |-> tp_slots[i].opened,
                        parts |-> [q \in 1 .. tp_slots[i].packets |-> data[q]]]
        /\ UNCHANGED tp_next_age

\* Data frame p, with the chunk of transfer t, is swallowed or goes into the one
\* session of its source, which ends when that was the last one it waited for.
LEMMA DataEffect ==
    ASSUME TpSizes, Is!TypeOK, OneEach, NEW s \in Talkers, NEW p \in Is!Packet, NEW t \in Is!Transfer, Is!Data(s, p, t)
    PROVE  \/ /\ Is!Swallow
              /\ \A i \in Is!Slot : tp_slots[i].used /\ tp_slots[i].src = s => p > tp_slots[i].packets
           \/ \E i \in Is!Slot :
                /\ tp_slots[i].used /\ tp_slots[i].src = s /\ p <= tp_slots[i].packets
                /\ Takes(s, i, p, t)
  <1> DEFINE i == Is!Lowest(Is!Session(s))
  <1>1. Is!Session(s) \subseteq Is!Slot /\ Is!Slot \subseteq Nat
    BY DEF Is!Session, Is!Slot
  <1>2. CASE Is!Session(s) = {}
    <2>1. Is!Swallow
      BY <1>2 DEF Is!Data
    <2>2. QED
      BY <1>2, <2>1 DEF Is!Session
  <1>3. CASE Is!Session(s) # {}
    <2>1. i \in Is!Session(s)
      BY <1>1, <1>3, LowestIsMember
    <2>2. i \in Is!Slot /\ tp_slots[i].used /\ tp_slots[i].src = s
      BY <2>1 DEF Is!Session
    <2>3. \A j \in Is!Slot : tp_slots[j].used /\ tp_slots[j].src = s => j = i
      BY <2>2 DEF OneEach
    <2>4. CASE p > tp_slots[i].packets
      <3>1. Is!Swallow
        BY <2>4 DEF Is!Data
      <3>2. QED
        BY <2>3, <2>4, <3>1
    <2>5. CASE ~(p > tp_slots[i].packets)
      <3>1. p <= tp_slots[i].packets
        BY <2>2, <2>5 DEF Is!TypeOK, Is!SessionType, Is!Packet, TpSizes
      <3>2. tp_slots[i] \in Is!SessionType
        BY <2>2 DEF Is!TypeOK
      <3> DEFINE chunks == tp_slots[i].received \cup {p}
                 data == [tp_slots[i].data EXCEPT ![p] = t]
                 ends == 1 .. tp_slots[i].packets \subseteq chunks
      <3>3. /\ tp_slots' = [tp_slots EXCEPT ![i].received = chunks, ![i].data = data, ![i].used = ~ends]
            /\ emitted' = IF ~ends THEN Is!NoPayload
                      ELSE [src |-> s, opened |-> tp_slots[i].opened,
                            parts |-> [q \in 1 .. tp_slots[i].packets |-> data[q]]]
            /\ UNCHANGED tp_next_age
        BY <1>3, <2>5 DEF Is!Data, Is!Completes
      <3>4. tp_slots' = [tp_slots EXCEPT ![i] = [tp_slots[i] EXCEPT
                            !.received = chunks, !.data = data, !.used = ~ends]]
        BY <2>2, <3>2, <3>3 DEF Is!TypeOK, Is!SessionType
      <3>5. Takes(s, i, p, t)
        BY <3>3, <3>4 DEF Takes
      <3>6. QED
        BY <2>2, <3>1, <3>5
    <2>6. QED
      BY <2>4, <2>5
  <1>4. QED
    BY <1>2, <1>3

-----------------------------------------------------------------------------
(* One lemma per frame.                                                    *)

\* What a step hands on.
OutSound == Is!PayloadOfOneTransfer /\ Is!NoGaps

SlotsTyped ==
    /\ tp_slots \in [Is!Slot -> Is!SessionType] /\ tp_next_age \in Nat
    /\ \A i \in Is!Slot : tp_slots[i].used => ~(1 .. tp_slots[i].packets \subseteq tp_slots[i].received)

\* Data of the transfer that its source sends.
LEMMA DataKeepsSessions ==
    ASSUME TpSizes, TransfersInv, NEW s \in Talkers, NEW p \in Is!Packet, sending[s].transfer # 0,
           Is!Data(s, p, sending[s].transfer), unheard' = unheard,
           \A r \in Talkers : sending'[r].transfer = sending[r].transfer
    PROVE  SlotsTyped' /\ OneEach' /\ SessionsSound' /\ OutSound'
  <1> DEFINE t == sending[s].transfer
  <1>1. Is!TypeOK /\ OneEach /\ SessionsSound /\ t \in Is!Transfer
    BY DEF TransfersInv, Is!TypeOK
  <1>2. CASE Is!Swallow
    <2>1. SlotsTyped' /\ OneEach'
      BY <1>1, <1>2 DEF Is!TypeOK, SlotsTyped, OneEach, Is!Swallow
    <2>2. SessionsSound'
      <3>1. \A i \in Is!Slot : tp_slots[i].src \in Talkers
        BY <1>1 DEF Is!TypeOK, Is!SessionType
      <3>2. QED
        BY <1>1, <1>2, <3>1 DEF SessionsSound, SessionSound, Is!Swallow
    <2>3. OutSound'
      BY <1>2 DEF OutSound, Is!PayloadOfOneTransfer, Is!NoGaps, Is!Swallow
    <2>4. QED
      BY <2>1, <2>2, <2>3
  <1>3. ASSUME NEW i \in Is!Slot,
               tp_slots[i].used, tp_slots[i].src = s, p <= tp_slots[i].packets,
               Takes(s, i, p, t)
        PROVE  SlotsTyped' /\ OneEach' /\ SessionsSound' /\ OutSound'
    <2> DEFINE old == tp_slots[i]
               chunks == old.received \cup {p}
               data == [old.data EXCEPT ![p] = t]
               ends == 1 .. old.packets \subseteq chunks
               new == [old EXCEPT !.received = chunks, !.data = data, !.used = ~ends]
    <2>1. old \in Is!SessionType /\ tp_slots \in [Is!Slot -> Is!SessionType]
      BY <1>1 DEF Is!TypeOK
    <2>2. chunks \in SUBSET Is!Packet /\ data \in [Is!Packet -> Is!Transfer]
      BY <1>1, <2>1 DEF Is!SessionType
    <2>3. /\ new \in Is!SessionType /\ new.used = ~ends /\ new.src = s /\ new.packets = old.packets
          /\ new.received = chunks /\ new.data = data /\ new.opened = old.opened
      BY <1>3, <2>1, <2>2 DEF Is!SessionType
    <2>4. /\ tp_slots' = [tp_slots EXCEPT ![i] = new]
          /\ tp_next_age' = tp_next_age
          /\ emitted' = IF ~ends THEN Is!NoPayload
                    ELSE [src |-> s, opened |-> old.opened,
                          parts |-> [q \in 1 .. old.packets |-> data[q]]]
      BY <1>3 DEF Takes
    <2>5. tp_slots'[i] = new /\ \A j \in Is!Slot \ {i} : tp_slots'[j] = tp_slots[j]
      BY <2>1, <2>4
    <2>6. SessionSound(i)
      BY <1>1, <1>3 DEF SessionsSound
    <2>7. /\ chunks \subseteq 1 .. old.packets
          /\ \A q \in chunks : data[q] # 0
          /\ ~unheard[s] => old.opened = t /\ \A q \in chunks : data[q] = t
      <3>1. p \in 1 .. old.packets
        BY <1>3, <2>1 DEF Is!SessionType, Is!Packet, TpSizes
      <3>2. old.data \in [Is!Packet -> Is!Transfer] /\ old.received \subseteq Is!Packet
        BY <2>1 DEF Is!SessionType
      <3>3. \A q \in chunks : data[q] = IF q = p THEN t ELSE old.data[q]
        BY <3>2
      <3>4. ~unheard[s] => old.opened = t /\ \A q \in old.received : old.data[q] = t
        BY <1>3, <2>6 DEF SessionSound
      <3>5. old.received \subseteq 1 .. old.packets /\ \A q \in old.received : old.data[q] # 0
        BY <2>6 DEF SessionSound
      <3>6. QED
        BY <3>1, <3>3, <3>4, <3>5
    <2> HIDE DEF new
    <2>8. SlotsTyped'
      <3>1. tp_slots' \in [Is!Slot -> Is!SessionType] /\ tp_next_age' \in Nat
        BY <1>1, <2>1, <2>3, <2>4 DEF Is!TypeOK
      <3>2. \A j \in Is!Slot : tp_slots'[j].used => ~(1 .. tp_slots'[j].packets \subseteq tp_slots'[j].received)
        <4>1. ASSUME NEW j \in Is!Slot, tp_slots'[j].used
              PROVE  ~(1 .. tp_slots'[j].packets \subseteq tp_slots'[j].received)
          <5>1. CASE j = i
            <6>1. new.used
              BY <2>5, <4>1, <5>1
            <6>2. ~ends
              BY <2>3, <6>1
            <6>3. QED
              BY <2>3, <2>5, <5>1, <6>2
          <5>2. CASE j # i
            BY <1>1, <2>5, <4>1, <5>2 DEF Is!TypeOK
          <5>3. QED
            BY <5>1, <5>2
        <4>2. QED
          BY <4>1
      <3>3. QED
        BY <3>1, <3>2 DEF SlotsTyped
    <2>9. OneEach'
      <3>1. \A j \in Is!Slot : tp_slots'[j].src = tp_slots[j].src /\ (tp_slots'[j].used => tp_slots[j].used)
        BY <1>3, <2>3, <2>5
      <3>2. QED
        BY <1>1, <3>1 DEF OneEach
    <2>10. SessionsSound'
      <3>1. ASSUME NEW j \in Is!Slot, tp_slots'[j].used
            PROVE  SessionSound(j)'
        <4>1. CASE j = i
          <5>1. /\ tp_slots'[j].src = s /\ tp_slots'[j].packets = old.packets
                /\ tp_slots'[j].received = chunks /\ tp_slots'[j].data = data
                /\ tp_slots'[j].opened = old.opened
            BY <2>3, <2>5, <4>1
          <5>2. unheard'[s] = unheard[s] /\ sending'[s].transfer = t
            OBVIOUS
          <5> HIDE DEF old, chunks, data, t
          <5>3. QED
            BY <2>7, <5>1, <5>2 DEF SessionSound
        <4>2. CASE j # i
          <5>1. tp_slots'[j] = tp_slots[j] /\ tp_slots[j].src \in Talkers
            BY <1>1, <2>5, <4>2 DEF Is!TypeOK, Is!SessionType
          <5>2. SessionSound(j)
            BY <1>1, <3>1, <5>1 DEF SessionsSound
          <5>3. QED
            BY <5>1, <5>2 DEF SessionSound
        <4>3. QED
          BY <4>1, <4>2
      <3>2. QED
        BY <3>1 DEF SessionsSound
    <2>11. OutSound'
      <3>1. CASE ~ends
        <4>1. emitted' = Is!NoPayload
          BY <2>4, <3>1
        <4>2. QED
          BY <4>1 DEF OutSound, Is!PayloadOfOneTransfer, Is!NoGaps
      <3>2. CASE ends
        <4>1. emitted' = [src |-> s, opened |-> old.opened, parts |-> [q \in 1 .. old.packets |-> data[q]]]
          BY <2>4, <3>2
        <4>2. /\ emitted'.src = s /\ emitted'.opened = old.opened
              /\ DOMAIN emitted'.parts = 1 .. old.packets
              /\ \A q \in 1 .. old.packets : emitted'.parts[q] = data[q]
          BY <4>1
        <4>3. QED
          BY <2>7, <3>2, <4>2 DEF OutSound, Is!PayloadOfOneTransfer, Is!NoGaps
      <3>3. QED
        BY <3>1, <3>2
    <2>12. QED
      BY <2>8, <2>9, <2>10, <2>11
  <1>4. \/ Is!Swallow
        \/ \E i \in Is!Slot :
                /\ tp_slots[i].used /\ tp_slots[i].src = s /\ p <= tp_slots[i].packets
                /\ Takes(s, i, p, t)
    BY <1>1, DataEffect
  <1>5. QED
    BY <1>2, <1>3, <1>4

\* What a connect leaves, when it is heard.
LEMMA ConnectKeepsSessions ==
    ASSUME TpSizes, TransfersInv, NEW s \in Talkers, NEW t \in Is!Transfer, NEW n \in Is!Packet, Is!Connect(s, t, n),
           sending'[s].transfer = t, \A r \in Talkers \ {s} : sending'[r].transfer = sending[r].transfer,
           \A r \in Talkers \ {s} : unheard'[r] = unheard[r]
    PROVE  /\ SlotsTyped' /\ OneEach' /\ SessionsSound' /\ OutSound'
           /\ tp_slots'[Is!Claimed(s)] = Is!Opened(s, t, n)
           /\ \A i \in Is!Slot \ {Is!Claimed(s)} : tp_slots'[i] = tp_slots[i]
  <1> DEFINE c == Is!Claimed(s)
             new == Is!Opened(s, t, n)
  <1>1. Is!TypeOK /\ OneEach /\ SessionsSound
    BY DEF TransfersInv
  <1>2. c \in Is!Slot /\ (Is!Session(s) # {} => c \in Is!Session(s))
    BY <1>1, ClaimedIsSlot
  <1>3. tp_slots \in [Is!Slot -> Is!SessionType] /\ tp_next_age \in Nat
    BY <1>1 DEF Is!TypeOK
  <1>4. /\ new \in Is!SessionType /\ new.used = TRUE /\ new.src = s /\ new.opened = t
        /\ new.packets = n /\ new.received = {}
    BY <1>3 DEF Is!Opened, Is!SessionType, Is!Packet, Is!Transfer, TpSizes
  <1>5. /\ tp_slots' = [tp_slots EXCEPT ![c] = new]
        /\ tp_next_age' = tp_next_age + 1 /\ emitted' = Is!NoPayload
    BY DEF Is!Connect
  <1> HIDE DEF c, new
  <1>6. tp_slots'[c] = new /\ \A i \in Is!Slot \ {c} : tp_slots'[i] = tp_slots[i]
    BY <1>2, <1>3, <1>5
  <1>7. \A i \in Is!Slot \ {c} : tp_slots[i].used => tp_slots[i].src \in Talkers \ {s}
    <2>1. ASSUME NEW i \in Is!Slot \ {c}, tp_slots[i].used, tp_slots[i].src = s
          PROVE  FALSE
      <3>1. c \in Is!Session(s)
        BY <1>2, <2>1 DEF Is!Session
      <3>2. QED
        BY <1>1, <2>1, <3>1 DEF Is!Session, OneEach
    <2>2. QED
      BY <1>3, <2>1 DEF Is!SessionType
  <1>8. SlotsTyped'
    <2>1. 1 \in 1 .. n
      BY DEF Is!Packet, TpSizes
    <2>2. ~(1 .. new.packets \subseteq new.received)
      BY <1>4, <2>1
    <2>3. tp_slots' \in [Is!Slot -> Is!SessionType] /\ tp_next_age' \in Nat
      BY <1>2, <1>3, <1>4, <1>5
    <2>4. QED
      BY <1>1, <1>6, <2>2, <2>3 DEF SlotsTyped, Is!TypeOK
  <1>9. OneEach'
    <2>1. ASSUME NEW i \in Is!Slot, NEW j \in Is!Slot, tp_slots'[i].used, tp_slots'[j].used,
                 tp_slots'[i].src = tp_slots'[j].src, i # j
          PROVE  FALSE
      <3>1. CASE i # c /\ j # c
        BY <1>1, <1>6, <2>1, <3>1 DEF OneEach
      <3>2. CASE i = c \/ j = c
        BY <1>4, <1>6, <1>7, <2>1, <3>2
      <3>3. QED
        BY <3>1, <3>2
    <2>2. QED
      BY <2>1 DEF OneEach
  <1>10. SessionsSound'
    <2>1. ASSUME NEW i \in Is!Slot, tp_slots'[i].used
          PROVE  SessionSound(i)'
      <3>1. CASE i = c
        BY <1>4, <1>6, <3>1 DEF SessionSound
      <3>2. CASE i # c
        <4>1. tp_slots'[i] = tp_slots[i] /\ tp_slots[i].src \in Talkers \ {s}
          BY <1>6, <1>7, <2>1, <3>2
        <4>2. SessionSound(i)
          BY <1>1, <2>1, <4>1 DEF SessionsSound
        <4>3. QED
          BY <4>1, <4>2 DEF SessionSound
      <3>3. QED
        BY <3>1, <3>2
    <2>2. QED
      BY <2>1 DEF SessionsSound
  <1>11. OutSound'
    BY <1>5 DEF OutSound, Is!PayloadOfOneTransfer, Is!NoGaps
  <1>12. QED
    BY <1>6, <1>8, <1>9, <1>10, <1>11 DEF c, new

\* An abort, and a frame that is swallowed, leave every open session as it was.
LEMMA FewerSessions ==
    ASSUME TpSizes, TransfersInv, tp_slots' \in [Is!Slot -> Is!SessionType], tp_next_age' = tp_next_age, emitted' = Is!NoPayload,
           \A i \in Is!Slot : tp_slots'[i].used =>
                /\ tp_slots'[i] = tp_slots[i]
                /\ unheard[tp_slots[i].src] => unheard'[tp_slots[i].src]
                /\ ~unheard'[tp_slots[i].src] =>
                      sending'[tp_slots[i].src].transfer = sending[tp_slots[i].src].transfer
    PROVE  SlotsTyped' /\ OneEach' /\ SessionsSound' /\ OutSound'
  <1>1. Is!TypeOK /\ OneEach /\ SessionsSound
    BY DEF TransfersInv
  <1>2. SlotsTyped'
    BY <1>1 DEF SlotsTyped, Is!TypeOK
  <1>3. OneEach'
    BY <1>1 DEF OneEach
  <1>4. SessionsSound'
    <2>1. ASSUME NEW i \in Is!Slot, tp_slots'[i].used
          PROVE  SessionSound(i)'
      <3>1. tp_slots'[i] = tp_slots[i] /\ SessionSound(i)
        BY <1>1, <2>1 DEF SessionsSound
      <3>2. /\ unheard[tp_slots[i].src] => unheard'[tp_slots[i].src]
            /\ ~unheard'[tp_slots[i].src] =>
                  sending'[tp_slots[i].src].transfer = sending[tp_slots[i].src].transfer
        BY <2>1
      <3>3. QED
        BY <3>1, <3>2 DEF SessionSound
    <2>2. QED
      BY <2>1 DEF SessionsSound
  <1>5. OutSound'
    BY DEF OutSound, Is!PayloadOfOneTransfer, Is!NoGaps
  <1>6. QED
    BY <1>2, <1>3, <1>4, <1>5

-----------------------------------------------------------------------------
(* The invariant is one.                                                   *)

LEMMA TransfersInit ==
    ASSUME TpSizes, Is!Init
    PROVE  TransfersInv /\ OutSound
  <1>1. (CHOOSE s \in Talkers : TRUE) \in Talkers
    BY DEF TpSizes
  <1>2. Is!TypeOK
    <2>0. /\ 0 \in Is!Transfer /\ 0 \in 0 .. MaxPackets /\ 0 \in Nat /\ 1 \in 1 .. MaxPackets + 1
          /\ 0 \in 0 .. MaxLost /\ 0 \in 0 .. MaxAgain
      BY DEF Is!Transfer, TpSizes
    <2>1. /\ \A i \in Is!Slot : tp_slots[i] \in Is!SessionType /\ ~tp_slots[i].used
          /\ tp_slots \in [Is!Slot -> Is!SessionType]
      BY <1>1, <2>0 DEF Is!Init, Is!SessionType
    <2>2. sending \in [Talkers -> [transfer : Is!Transfer, packets : 0 .. MaxPackets,
                              next : 1 .. MaxPackets + 1, whole : BOOLEAN]]
      BY <2>0 DEF Is!Init
    <2>3. QED
      BY <2>0, <2>1, <2>2 DEF Is!Init, Is!TypeOK
  <1>3. \A i \in Is!Slot : ~tp_slots[i].used
    BY DEF Is!Init
  <1>4. Begun /\ WholeIsFollowed
    BY DEF Is!Init, Begun, WholeIsFollowed
  <1>5. QED
    BY <1>2, <1>3, <1>4 DEF Is!Init, TransfersInv, OneEach, SessionsSound, OutSound, Is!PayloadOfOneTransfer, Is!NoGaps

\* Every action does its part of the types outside of the sessions.
SendersTyped ==
    /\ started \in Is!Transfer /\ unheard \in [Talkers -> BOOLEAN]
    /\ lost \in 0 .. MaxLost /\ again \in 0 .. MaxAgain
    /\ sending \in [Talkers -> [transfer : Is!Transfer, packets : 0 .. MaxPackets,
                            next : 1 .. MaxPackets + 1, whole : BOOLEAN]]

LEMMA ConnectStep ==
    ASSUME TpSizes, TransfersInv, NEW s \in Talkers, Is!SendConnect(s, TRUE)
    PROVE  TransfersInv' /\ OutSound'
  <1>1. PICK n \in Is!Packet :
            /\ started < MaxTransfers /\ started' = started + 1
            /\ Is!Connect(s, started', n)
            /\ lost' = lost /\ again' = again
            /\ sending' = [r \in Talkers |->
                  IF r = s THEN [transfer |-> started', packets |-> n, next |-> 1, whole |-> TRUE]
                  ELSE [sending[r] EXCEPT !.whole = @ /\ ~(TRUE /\ Is!Evicts(s, r))]]
            /\ unheard' = [unheard EXCEPT ![s] = ~TRUE]
    BY DEF Is!SendConnect
  <1>2. Is!TypeOK /\ Begun /\ WholeIsFollowed
    BY DEF TransfersInv
  <1>3. started' \in Is!Transfer /\ started' # 0
    BY <1>1, <1>2 DEF Is!TypeOK, Is!Transfer, TpSizes
  <1>4. /\ sending'[s] = [transfer |-> started', packets |-> n, next |-> 1, whole |-> TRUE]
        /\ \A r \in Talkers \ {s} : /\ sending'[r].transfer = sending[r].transfer
                                 /\ sending'[r].packets = sending[r].packets
                                 /\ sending'[r].next = sending[r].next
                                 /\ sending'[r].whole = (sending[r].whole /\ ~Is!Evicts(s, r))
                                 /\ unheard'[r] = unheard[r]
    BY <1>1, <1>2 DEF Is!TypeOK
  <1>5. SendersTyped'
    <2>1. \A r \in Talkers : sending'[r] \in [transfer : Is!Transfer, packets : 0 .. MaxPackets,
                                          next : 1 .. MaxPackets + 1, whole : BOOLEAN]
      <3>1. \A r \in Talkers : Is!Evicts(s, r) \in BOOLEAN
        <4>1. Is!Claimed(s) \in Is!Slot
          BY <1>2, ClaimedIsSlot
        <4>2. QED
          BY <1>2, <4>1 DEF Is!Evicts, Is!TypeOK, Is!SessionType
      <3>2. sending'[s] \in [transfer : Is!Transfer, packets : 0 .. MaxPackets,
                             next : 1 .. MaxPackets + 1, whole : BOOLEAN]
        BY <1>3, <1>4 DEF Is!Packet, TpSizes
      <3>3. ASSUME NEW r \in Talkers \ {s}
            PROVE  sending'[r] \in [transfer : Is!Transfer, packets : 0 .. MaxPackets,
                                    next : 1 .. MaxPackets + 1, whole : BOOLEAN]
        <4>1. sending'[r] = [sending[r] EXCEPT !.whole = sending[r].whole /\ ~Is!Evicts(s, r)]
          BY <1>1
        <4>2. sending[r] \in [transfer : Is!Transfer, packets : 0 .. MaxPackets,
                              next : 1 .. MaxPackets + 1, whole : BOOLEAN]
          BY <1>2 DEF Is!TypeOK
        <4>3. (sending[r].whole /\ ~Is!Evicts(s, r)) \in BOOLEAN
          OBVIOUS
        <4>4. QED
          BY <4>1, <4>2, <4>3
      <3>4. QED
        BY <3>2, <3>3
    <2>2. QED
      BY <1>1, <1>2, <1>3, <2>1 DEF SendersTyped, Is!TypeOK
  <1>6. /\ SlotsTyped' /\ OneEach' /\ SessionsSound' /\ OutSound'
        /\ tp_slots'[Is!Claimed(s)] = Is!Opened(s, started', n)
        /\ \A i \in Is!Slot \ {Is!Claimed(s)} : tp_slots'[i] = tp_slots[i]
    BY <1>1, <1>3, <1>4, ConnectKeepsSessions
  <1>7. Begun'
    BY <1>2, <1>3, <1>4 DEF Begun
  <1>8. WholeIsFollowed'
    <2> PICK c \in Is!Slot : c = Is!Claimed(s)
      BY <1>2, ClaimedIsSlot
    <2>1. ASSUME NEW r \in Talkers, sending'[r].whole, sending'[r].next <= sending'[r].packets
          PROVE  \E i \in Is!Slot : Follows(r, i)'
      <3>1. CASE r = s
        <4>1. 1 .. 1 - 1 = {}
          OBVIOUS
        <4>2. tp_slots'[c].used /\ tp_slots'[c].src = s /\ tp_slots'[c].packets = n /\ tp_slots'[c].received = {}
          BY <1>6 DEF Is!Opened
        <4>3. Follows(s, c)'
          BY <1>4, <4>1, <4>2 DEF Follows
        <4>4. QED
          BY <3>1, <4>3
      <3>2. CASE r # s
        <4>1. sending[r].whole /\ ~Is!Evicts(s, r) /\ sending[r].next <= sending[r].packets
          BY <1>4, <2>1, <3>2
        <4>2. PICK i \in Is!Slot : Follows(r, i)
          BY <1>2, <4>1 DEF WholeIsFollowed
        <4>3. i # Is!Claimed(s)
          BY <4>1, <4>2 DEF Is!Evicts, Follows
        <4>4. Follows(r, i)'
          BY <1>4, <1>6, <3>2, <4>2, <4>3 DEF Follows
        <4>5. QED
          BY <4>4
      <3>3. QED
        BY <3>1, <3>2
    <2>2. QED
      BY <2>1 DEF WholeIsFollowed
  <1>9. QED
    BY <1>5, <1>6, <1>7, <1>8 DEF TransfersInv, Is!TypeOK, SlotsTyped, SendersTyped

LEMMA LostConnectStep ==
    ASSUME TpSizes, TransfersInv, NEW s \in Talkers, Is!SendConnect(s, FALSE)
    PROVE  TransfersInv' /\ OutSound'
  <1>1. PICK n \in Is!Packet :
            /\ started < MaxTransfers /\ started' = started + 1 /\ Is!Swallow
            /\ lost' = lost + 1 /\ lost' <= MaxLost /\ again' = again
            /\ sending' = [r \in Talkers |->
                  IF r = s THEN [transfer |-> started', packets |-> n, next |-> 1, whole |-> FALSE]
                  ELSE [sending[r] EXCEPT !.whole = @ /\ ~(FALSE /\ Is!Evicts(s, r))]]
            /\ unheard' = [unheard EXCEPT ![s] = ~FALSE]
    BY DEF Is!SendConnect
  <1>2. Is!TypeOK /\ Begun /\ WholeIsFollowed
    BY DEF TransfersInv
  <1>3. started' \in Is!Transfer /\ started' # 0
    BY <1>1, <1>2 DEF Is!TypeOK, Is!Transfer, TpSizes
  <1>4. /\ sending'[s] = [transfer |-> started', packets |-> n, next |-> 1, whole |-> FALSE]
        /\ unheard'[s]
        /\ \A r \in Talkers \ {s} : sending'[r] = sending[r] /\ unheard'[r] = unheard[r]
    <2>1. ASSUME NEW r \in Talkers \ {s}
          PROVE  sending'[r] = sending[r]
      <3>1. sending'[r] = [sending[r] EXCEPT !.whole = sending[r].whole /\ ~(FALSE /\ Is!Evicts(s, r))]
        BY <1>1
      <3>2. sending[r] \in [transfer : Is!Transfer, packets : 0 .. MaxPackets,
                            next : 1 .. MaxPackets + 1, whole : BOOLEAN]
        BY <1>2 DEF Is!TypeOK
      <3>3. (sending[r].whole /\ ~(FALSE /\ Is!Evicts(s, r))) = sending[r].whole
        BY <3>2
      <3>4. QED
        BY <3>1, <3>2, <3>3
    <2>2. QED
      BY <1>1, <1>2, <2>1 DEF Is!TypeOK
  <1>5. SendersTyped'
    <2>1. sending'[s] \in [transfer : Is!Transfer, packets : 0 .. MaxPackets,
                           next : 1 .. MaxPackets + 1, whole : BOOLEAN]
      BY <1>3, <1>4 DEF Is!Packet, TpSizes
    <2>2. QED
      BY <1>1, <1>2, <1>3, <1>4, <2>1 DEF SendersTyped, Is!TypeOK, TpSizes
  <1>6. tp_slots' = tp_slots /\ tp_next_age' = tp_next_age /\ emitted' = Is!NoPayload
    BY <1>1 DEF Is!Swallow
  <1>7. SlotsTyped' /\ OneEach' /\ SessionsSound' /\ OutSound'
    <2>1. \A i \in Is!Slot : tp_slots[i].src \in Talkers
      BY <1>2 DEF Is!TypeOK, Is!SessionType
    <2>2. tp_slots' \in [Is!Slot -> Is!SessionType]
      BY <1>2, <1>6 DEF Is!TypeOK
    <2>3. QED
      BY <1>4, <1>6, <2>1, <2>2, FewerSessions
  <1>8. Begun'
    BY <1>2, <1>3, <1>4 DEF Begun
  <1>9. WholeIsFollowed'
    <2>1. ASSUME NEW r \in Talkers, sending'[r].whole, sending'[r].next <= sending'[r].packets
          PROVE  \E i \in Is!Slot : Follows(r, i)'
      <3>1. sending'[r] = sending[r]
        BY <1>4, <2>1
      <3>2. PICK i \in Is!Slot : Follows(r, i)
        BY <1>2, <2>1, <3>1 DEF WholeIsFollowed
      <3>3. Follows(r, i)'
        BY <1>6, <3>1, <3>2 DEF Follows
      <3>4. QED
        BY <3>3
    <2>2. QED
      BY <2>1 DEF WholeIsFollowed
  <1>10. QED
    BY <1>5, <1>7, <1>8, <1>9 DEF TransfersInv, Is!TypeOK, SlotsTyped, SendersTyped

LEMMA DataStep ==
    ASSUME TpSizes, TransfersInv, NEW s \in Talkers, Is!SendData(s)
    PROVE  /\ TransfersInv' /\ OutSound'
           /\ sending[s].whole /\ sending[s].next = sending[s].packets => emitted' # Is!NoPayload /\ emitted'.src = s
  <1> DEFINE p == sending[s].next
             t == sending[s].transfer
  <1>1. Is!TypeOK /\ OneEach /\ Begun /\ SessionsSound /\ WholeIsFollowed
    BY DEF TransfersInv
  <1>2. /\ p <= sending[s].packets /\ Is!Data(s, p, t)
        /\ sending' = [sending EXCEPT ![s].next = p + 1]
        /\ started' = started /\ unheard' = unheard /\ lost' = lost /\ again' = again
    BY DEF Is!SendData
  <1>3. sending[s] \in [transfer : Is!Transfer, packets : 0 .. MaxPackets,
                        next : 1 .. MaxPackets + 1, whole : BOOLEAN]
    BY <1>1 DEF Is!TypeOK
  <1>4. p \in Is!Packet /\ t \in Is!Transfer /\ sending[s].packets \in 0 .. MaxPackets /\ p + 1 \in 1 .. MaxPackets + 1
    BY <1>2, <1>3 DEF Is!Packet, TpSizes
  <1>5. t # 0
    BY <1>1, <1>2, <1>4 DEF Begun, Is!Packet
  <1>6. /\ sending'[s] = [sending[s] EXCEPT !.next = p + 1]
        /\ \A r \in Talkers \ {s} : sending'[r] = sending[r]
    BY <1>1, <1>2 DEF Is!TypeOK
  <1>7. /\ sending'[s].transfer = t /\ sending'[s].packets = sending[s].packets
        /\ sending'[s].next = p + 1 /\ sending'[s].whole = sending[s].whole
    BY <1>3, <1>6
  <1>8. SendersTyped'
    <2>1. sending'[s] \in [transfer : Is!Transfer, packets : 0 .. MaxPackets,
                           next : 1 .. MaxPackets + 1, whole : BOOLEAN]
      BY <1>3, <1>4, <1>6
    <2>2. QED
      BY <1>1, <1>2, <1>6, <2>1 DEF SendersTyped, Is!TypeOK
  <1>9. SlotsTyped' /\ OneEach' /\ SessionsSound' /\ OutSound'
    <2>1. \A r \in Talkers : sending'[r].transfer = sending[r].transfer
      BY <1>6, <1>7
    <2> HIDE DEF p
    <2>2. QED
      BY <1>2, <1>4, <1>5, <2>1, DataKeepsSessions
  <1>10. Begun'
    BY <1>1, <1>5, <1>6, <1>7 DEF Begun
  <1>11. \/ Is!Swallow /\ \A i \in Is!Slot : tp_slots[i].used /\ tp_slots[i].src = s => p > tp_slots[i].packets
         \/ \E i \in Is!Slot : /\ tp_slots[i].used /\ tp_slots[i].src = s /\ p <= tp_slots[i].packets
                               /\ Takes(s, i, p, t)
    <2> HIDE DEF p, t
    <2>1. QED
      BY <1>1, <1>2, <1>4, DataEffect
  <1>12. \A r \in Talkers \ {s}, i \in Is!Slot : Follows(r, i) => Follows(r, i)'
    <2>1. CASE Is!Swallow
      BY <1>6, <2>1 DEF Follows, Is!Swallow
    <2>2. ASSUME NEW k \in Is!Slot, tp_slots[k].src = s, Takes(s, k, p, t)
          PROVE  \A r \in Talkers \ {s}, i \in Is!Slot : Follows(r, i) => Follows(r, i)'
      <3>1. \A i \in Is!Slot \ {k} : tp_slots'[i] = tp_slots[i]
        BY <1>1, <2>2 DEF Takes, Is!TypeOK
      <3>2. QED
        BY <1>6, <2>2, <3>1 DEF Follows
    <2>3. QED
      BY <1>11, <2>1, <2>2
  <1>13. ASSUME NEW i \in Is!Slot, sending[s].whole, Follows(s, i)
         PROVE  /\ p < sending[s].packets => Follows(s, i)'
                /\ p = sending[s].packets => emitted' # Is!NoPayload /\ emitted'.src = s
    <2>1. /\ tp_slots[i].used /\ tp_slots[i].src = s /\ tp_slots[i].packets = sending[s].packets
          /\ tp_slots[i].received = 1 .. p - 1
      BY <1>13 DEF Follows
    <2>2. Takes(s, i, p, t)
      <3>1. ~(p > tp_slots[i].packets)
        BY <1>2, <1>4, <2>1 DEF Is!Packet
      <3>2. PICK k \in Is!Slot : tp_slots[k].used /\ tp_slots[k].src = s /\ Takes(s, k, p, t)
        BY <1>11, <2>1, <3>1
      <3>3. k = i
        BY <1>1, <2>1, <3>2 DEF OneEach
      <3>4. QED
        BY <3>2, <3>3
    <2> DEFINE ends == 1 .. tp_slots[i].packets \subseteq tp_slots[i].received \cup {p}
    <2>3. tp_slots[i].received \cup {p} = 1 .. p
      BY <1>4, <2>1 DEF Is!Packet
    <2>4. /\ tp_slots'[i].used = ~ends /\ tp_slots'[i].src = s
          /\ tp_slots'[i].packets = tp_slots[i].packets
          /\ tp_slots'[i].received = tp_slots[i].received \cup {p}
      BY <1>1, <2>1, <2>2 DEF Takes, Is!TypeOK, Is!SessionType
    <2>5. ASSUME p < sending[s].packets
          PROVE  Follows(s, i)'
      <3>1. ~ends
        BY <1>4, <2>1, <2>3, <2>5 DEF Is!Packet
      <3>2. (p + 1) - 1 = p
        BY <1>4 DEF Is!Packet
      <3>3. QED
        BY <1>7, <2>1, <2>3, <2>4, <3>1, <3>2 DEF Follows
    <2>6. ASSUME p = sending[s].packets
          PROVE  emitted' # Is!NoPayload /\ emitted'.src = s
      <3>1. ends
        BY <2>1, <2>3, <2>6
      <3>2. emitted' = [src |-> s, opened |-> tp_slots[i].opened,
                    parts |-> [q \in 1 .. tp_slots[i].packets |-> [tp_slots[i].data EXCEPT ![p] = t][q]]]
        BY <2>2, <3>1 DEF Takes
      <3>3. "opened" \in DOMAIN emitted' /\ emitted'.src = s
        BY <3>2
      <3>4. "opened" \notin DOMAIN Is!NoPayload
        BY DEF Is!NoPayload
      <3>5. QED
        BY <3>3, <3>4
    <2>7. QED
      BY <2>5, <2>6
  <1>14. WholeIsFollowed'
    <2>1. ASSUME NEW r \in Talkers, sending'[r].whole, sending'[r].next <= sending'[r].packets
          PROVE  \E i \in Is!Slot : Follows(r, i)'
      <3>1. CASE r = s
        <4>1. sending[s].whole /\ p < sending[s].packets
          BY <1>4, <1>7, <2>1, <3>1 DEF Is!Packet
        <4>2. PICK i \in Is!Slot : Follows(s, i)
          BY <1>1, <1>2, <4>1 DEF WholeIsFollowed
        <4>3. QED
          BY <1>13, <3>1, <4>1, <4>2
      <3>2. CASE r # s
        <4>1. sending'[r] = sending[r]
          BY <1>6, <3>2
        <4>2. PICK i \in Is!Slot : Follows(r, i)
          BY <1>1, <2>1, <4>1 DEF WholeIsFollowed
        <4>3. QED
          BY <1>12, <3>2, <4>2
      <3>3. QED
        BY <3>1, <3>2
    <2>2. QED
      BY <2>1 DEF WholeIsFollowed
  <1>15. ASSUME sending[s].whole, p = sending[s].packets
         PROVE  emitted' # Is!NoPayload /\ emitted'.src = s
    <2>1. PICK i \in Is!Slot : Follows(s, i)
      BY <1>1, <1>2, <1>15 DEF WholeIsFollowed
    <2>2. QED
      BY <1>13, <1>15, <2>1
  <1>16. QED
    BY <1>8, <1>9, <1>10, <1>14, <1>15 DEF TransfersInv, Is!TypeOK, SlotsTyped, SendersTyped

LEMMA AgainStep ==
    ASSUME TpSizes, TransfersInv, NEW s \in Talkers, Is!SendAgain(s)
    PROVE  TransfersInv' /\ OutSound'
  <1> DEFINE t == sending[s].transfer
  <1>1. Is!TypeOK /\ OneEach /\ Begun /\ SessionsSound /\ WholeIsFollowed
    BY DEF TransfersInv
  <1>2. PICK p \in 1 .. sending[s].next - 1 :
            /\ again < MaxAgain /\ again' = again + 1 /\ Is!Data(s, p, t)
            /\ sending' = sending /\ started' = started /\ unheard' = unheard /\ lost' = lost
    BY DEF Is!SendAgain
  <1>3. sending[s].next \in 1 .. MaxPackets + 1 /\ t \in Is!Transfer
    BY <1>1 DEF Is!TypeOK
  <1>4. p \in Is!Packet /\ sending[s].next > 1
    BY <1>2, <1>3 DEF Is!Packet, TpSizes
  <1>5. t # 0
    BY <1>1, <1>4 DEF Begun
  <1>6. SendersTyped'
    BY <1>1, <1>2 DEF SendersTyped, Is!TypeOK, TpSizes
  <1>7. SlotsTyped' /\ OneEach' /\ SessionsSound' /\ OutSound'
    BY <1>2, <1>4, <1>5, DataKeepsSessions
  <1>8. Begun'
    BY <1>1, <1>2 DEF Begun
  <1>9. \/ Is!Swallow
        \/ \E i \in Is!Slot : tp_slots[i].src = s /\ tp_slots[i].used /\ Takes(s, i, p, t)
    BY <1>1, <1>2, <1>3, <1>4, DataEffect
  <1>10. WholeIsFollowed'
    <2>1. ASSUME NEW r \in Talkers, sending'[r].whole, sending'[r].next <= sending'[r].packets
          PROVE  \E i \in Is!Slot : Follows(r, i)'
      <3>1. sending[r].whole /\ sending[r].next <= sending[r].packets
        BY <1>2, <2>1
      <3>2. PICK i \in Is!Slot : Follows(r, i)
        BY <1>1, <3>1 DEF WholeIsFollowed
      <3>3. CASE Is!Swallow
        <4>1. Follows(r, i)'
          BY <1>2, <3>2, <3>3 DEF Follows, Is!Swallow
        <4>2. QED
          BY <4>1
      <3>4. ASSUME NEW k \in Is!Slot, tp_slots[k].src = s, tp_slots[k].used, Takes(s, k, p, t)
            PROVE  \E j \in Is!Slot : Follows(r, j)'
        <4>1. CASE k # i
          <5>1. tp_slots'[i] = tp_slots[i]
            BY <1>1, <3>4, <4>1 DEF Takes, Is!TypeOK
          <5>2. Follows(r, i)'
            BY <1>2, <3>2, <5>1 DEF Follows
          <5>3. QED
            BY <5>2
        <4>2. CASE k = i
          <5>1. /\ r = s /\ tp_slots[i].packets = sending[s].packets
                /\ tp_slots[i].received = 1 .. sending[s].next - 1
            BY <3>2, <3>4, <4>2 DEF Follows
          <5>2. tp_slots[i].received \cup {p} = tp_slots[i].received
            BY <1>2, <5>1
          <5>3. ~(1 .. tp_slots[i].packets \subseteq tp_slots[i].received \cup {p})
            BY <1>1, <3>4, <4>2, <5>2 DEF Is!TypeOK
          <5>4. /\ tp_slots'[i].used = TRUE /\ tp_slots'[i].src = s
                /\ tp_slots'[i].packets = tp_slots[i].packets
                /\ tp_slots'[i].received = tp_slots[i].received
            BY <1>1, <3>4, <4>2, <5>2, <5>3 DEF Takes, Is!TypeOK, Is!SessionType
          <5>5. Follows(r, i)'
            BY <1>2, <5>1, <5>4 DEF Follows
          <5>6. QED
            BY <5>5
        <4>3. QED
          BY <4>1, <4>2
      <3>5. QED
        BY <1>9, <3>3, <3>4
    <2>2. QED
      BY <2>1 DEF WholeIsFollowed
  <1>11. QED
    BY <1>6, <1>7, <1>8, <1>10 DEF TransfersInv, Is!TypeOK, SlotsTyped, SendersTyped

LEMMA LoseStep ==
    ASSUME TpSizes, TransfersInv, NEW s \in Talkers, Is!LoseData(s)
    PROVE  TransfersInv' /\ OutSound'
  <1>1. Is!TypeOK /\ OneEach /\ Begun /\ SessionsSound /\ WholeIsFollowed
    BY DEF TransfersInv
  <1>2. /\ lost < MaxLost /\ lost' = lost + 1 /\ sending[s].next <= sending[s].packets
        /\ sending' = [sending EXCEPT ![s].next = sending[s].next + 1, ![s].whole = FALSE]
        /\ emitted' = Is!NoPayload /\ tp_slots' = tp_slots /\ tp_next_age' = tp_next_age
        /\ started' = started /\ unheard' = unheard /\ again' = again
    BY DEF Is!LoseData
  <1>3. sending[s] \in [transfer : Is!Transfer, packets : 0 .. MaxPackets,
                        next : 1 .. MaxPackets + 1, whole : BOOLEAN]
    BY <1>1 DEF Is!TypeOK
  <1>4. /\ sending'[s] \in [transfer : Is!Transfer, packets : 0 .. MaxPackets,
                            next : 1 .. MaxPackets + 1, whole : BOOLEAN]
        /\ sending'[s].transfer = sending[s].transfer /\ sending'[s].whole = FALSE
        /\ \A r \in Talkers \ {s} : sending'[r] = sending[r]
    <2>1. sending'[s] = [sending[s] EXCEPT !.next = sending[s].next + 1, !.whole = FALSE]
      BY <1>1, <1>2 DEF Is!TypeOK
    <2>2. sending[s].next + 1 \in 1 .. MaxPackets + 1
      BY <1>2, <1>3 DEF TpSizes
    <2>3. \A r \in Talkers \ {s} : sending'[r] = sending[r]
      BY <1>1, <1>2 DEF Is!TypeOK
    <2>4. QED
      BY <1>3, <2>1, <2>2, <2>3
  <1>5. SendersTyped'
    BY <1>1, <1>2, <1>4 DEF SendersTyped, Is!TypeOK, TpSizes
  <1>6. SlotsTyped' /\ OneEach' /\ SessionsSound' /\ OutSound'
    <2>1. tp_slots' \in [Is!Slot -> Is!SessionType] /\ \A i \in Is!Slot : tp_slots[i].src \in Talkers
      BY <1>1, <1>2 DEF Is!TypeOK, Is!SessionType
    <2>2. \A r \in Talkers : sending'[r].transfer = sending[r].transfer
      BY <1>4
    <2>3. QED
      BY <1>2, <2>1, <2>2, FewerSessions
  <1>7. Begun'
    <2>1. sending[s].packets > 0
      BY <1>2, <1>3, Z3 DEF TpSizes
    <2>2. QED
      BY <1>1, <1>4, <2>1 DEF Begun
  <1>8. WholeIsFollowed'
    <2>1. ASSUME NEW r \in Talkers, sending'[r].whole, sending'[r].next <= sending'[r].packets
          PROVE  \E i \in Is!Slot : Follows(r, i)'
      <3>1. sending'[r] = sending[r]
        BY <1>4, <2>1
      <3>2. PICK i \in Is!Slot : Follows(r, i)
        BY <1>1, <2>1, <3>1 DEF WholeIsFollowed
      <3>3. Follows(r, i)'
        BY <1>2, <3>1, <3>2 DEF Follows
      <3>4. QED
        BY <3>3
    <2>2. QED
      BY <2>1 DEF WholeIsFollowed
  <1>9. QED
    BY <1>5, <1>6, <1>7, <1>8 DEF TransfersInv, Is!TypeOK, SlotsTyped, SendersTyped

LEMMA AbortStep ==
    ASSUME TpSizes, TransfersInv, NEW s \in Talkers, Is!SendAbort(s)
    PROVE  TransfersInv' /\ OutSound'
  <1>1. Is!TypeOK /\ OneEach /\ Begun /\ SessionsSound /\ WholeIsFollowed
    BY DEF TransfersInv
  <1>2. /\ sending[s].next \in 2 .. sending[s].packets
        /\ tp_slots' = [i \in Is!Slot |-> IF i \in Is!Session(s) THEN [tp_slots[i] EXCEPT !.used = FALSE]
                                                            ELSE tp_slots[i]]
        /\ emitted' = Is!NoPayload /\ tp_next_age' = tp_next_age
        /\ sending' = [sending EXCEPT ![s].packets = 0, ![s].whole = FALSE]
        /\ unheard' = [unheard EXCEPT ![s] = FALSE]
        /\ started' = started /\ lost' = lost /\ again' = again
    BY DEF Is!SendAbort, Is!Abort
  <1>3. /\ sending'[s] \in [transfer : Is!Transfer, packets : 0 .. MaxPackets,
                            next : 1 .. MaxPackets + 1, whole : BOOLEAN]
        /\ sending'[s].transfer = sending[s].transfer /\ sending'[s].whole = FALSE
        /\ \A r \in Talkers \ {s} : sending'[r] = sending[r] /\ unheard'[r] = unheard[r]
    <2>1. sending[s] \in [transfer : Is!Transfer, packets : 0 .. MaxPackets,
                          next : 1 .. MaxPackets + 1, whole : BOOLEAN]
      BY <1>1 DEF Is!TypeOK
    <2>2. sending'[s] = [sending[s] EXCEPT !.packets = 0, !.whole = FALSE]
      BY <1>1, <1>2 DEF Is!TypeOK
    <2>3. \A r \in Talkers \ {s} : sending'[r] = sending[r] /\ unheard'[r] = unheard[r]
      BY <1>1, <1>2 DEF Is!TypeOK
    <2>4. 0 \in 0 .. MaxPackets
      BY DEF TpSizes
    <2>5. QED
      BY <2>1, <2>2, <2>3, <2>4
  <1>4. SendersTyped'
    BY <1>1, <1>2, <1>3 DEF SendersTyped, Is!TypeOK
  <1>5. \A i \in Is!Slot : tp_slots[i] \in Is!SessionType
    BY <1>1 DEF Is!TypeOK
  <1>6. \A i \in Is!Slot : /\ tp_slots'[i] \in Is!SessionType
                           /\ i \in Is!Session(s) => ~tp_slots'[i].used
                           /\ i \notin Is!Session(s) => tp_slots'[i] = tp_slots[i]
    <2>1. ASSUME NEW i \in Is!Slot, i \in Is!Session(s)
          PROVE  tp_slots'[i] \in Is!SessionType /\ ~tp_slots'[i].used
      <3>1. tp_slots'[i] = [tp_slots[i] EXCEPT !.used = FALSE]
        BY <1>2, <2>1
      <3>2. QED
        BY <1>5, <3>1 DEF Is!SessionType
    <2>2. ASSUME NEW i \in Is!Slot, i \notin Is!Session(s)
          PROVE  tp_slots'[i] = tp_slots[i]
      BY <1>2, <2>2
    <2>3. QED
      BY <1>5, <2>1, <2>2
  <1>7. SlotsTyped' /\ OneEach' /\ SessionsSound' /\ OutSound'
    <2>1. tp_slots' \in [Is!Slot -> Is!SessionType]
      BY <1>2, <1>6
    <2>2. \A i \in Is!Slot : tp_slots'[i].used => tp_slots'[i] = tp_slots[i] /\ tp_slots[i].src \in Talkers \ {s}
      BY <1>5, <1>6 DEF Is!Session, Is!SessionType
    <2>3. QED
      BY <1>2, <1>3, <2>1, <2>2, FewerSessions
  <1>8. Begun'
    <2>1. sending[s].next > 1
      <3>1. sending[s].packets \in 0 .. MaxPackets
        BY <1>1 DEF Is!TypeOK
      <3>2. QED
        BY <1>2, <3>1
    <2>2. QED
      BY <1>1, <1>3, <2>1 DEF Begun
  <1>9. WholeIsFollowed'
    <2>1. ASSUME NEW r \in Talkers, sending'[r].whole, sending'[r].next <= sending'[r].packets
          PROVE  \E i \in Is!Slot : Follows(r, i)'
      <3>1. r # s /\ sending'[r] = sending[r]
        BY <1>3, <2>1
      <3>2. PICK i \in Is!Slot : Follows(r, i)
        BY <1>1, <2>1, <3>1 DEF WholeIsFollowed
      <3>3. tp_slots'[i] = tp_slots[i]
        BY <1>6, <3>1, <3>2 DEF Follows, Is!Session
      <3>4. Follows(r, i)'
        BY <3>1, <3>2, <3>3 DEF Follows
      <3>5. QED
        BY <3>4
    <2>2. QED
      BY <2>1 DEF WholeIsFollowed
  <1>10. QED
    BY <1>4, <1>7, <1>8, <1>9 DEF TransfersInv, Is!TypeOK, SlotsTyped, SendersTyped

LEMMA TransfersStep ==
    ASSUME TpSizes, TransfersInv, OutSound, [Is!Next]_Is!vars
    PROVE  TransfersInv' /\ OutSound'
  <1>1. ASSUME NEW s \in Talkers,
               \/ Is!SendConnect(s, TRUE) \/ Is!SendConnect(s, FALSE) \/ Is!SendData(s)
               \/ Is!SendAgain(s) \/ Is!LoseData(s) \/ Is!SendAbort(s)
        PROVE  TransfersInv' /\ OutSound'
    BY <1>1, ConnectStep, LostConnectStep, DataStep, AgainStep, LoseStep, AbortStep
  <1>2. CASE UNCHANGED Is!vars
    BY <1>2 DEF Is!vars, TransfersInv, Is!TypeOK, OneEach, Begun, SessionsSound, SessionSound, WholeIsFollowed, Follows,
                OutSound, Is!PayloadOfOneTransfer, Is!NoGaps
  <1>3. QED
    BY <1>1, <1>2 DEF Is!Next

-----------------------------------------------------------------------------
(* The theorems.                                                           *)

\* What the invariant says of the sessions and of the payloads.
LEMMA TransfersSay ==
    ASSUME TransfersInv, OutSound
    PROVE  Is!TypeOK /\ Is!OneSessionPerSource /\ Is!PayloadOfOneTransfer /\ Is!NoGaps
  <1>1. Is!TypeOK /\ Is!OneSessionPerSource
    BY DEF TransfersInv, Is!OneSessionPerSource, Is!Session, OneEach
  <1>2. Is!PayloadOfOneTransfer /\ Is!NoGaps
    BY DEF OutSound
  <1>3. QED
    BY <1>1, <1>2

LEMMA TransfersEmit ==
    ASSUME TpSizes, TransfersInv
    PROVE  Is!WholeTransferEmitted
  <1> SUFFICES ASSUME NEW s \in Talkers, Is!SendData(s), sending[s].whole, sending[s].next = sending[s].packets
               PROVE  emitted' # Is!NoPayload /\ emitted'.src = s
    BY DEF Is!WholeTransferEmitted
  <1>1. QED
    BY DataStep

\* Every state is one in which the sessions are sound (see TransfersInv), and what is
\* handed on is of one transfer, for any number of sources and sessions.
THEOREM TransfersInvariant ==
    ASSUME TpSizes
    PROVE  Is!Spec => [](TransfersInv /\ OutSound)
  <1>1. Is!Init => TransfersInv /\ OutSound
    BY TransfersInit
  <1>2. TransfersInv /\ OutSound /\ [Is!Next]_Is!vars => (TransfersInv /\ OutSound)'
    BY TransfersStep
  <1>3. QED
    BY <1>1, <1>2, PTL DEF Is!Spec

\* "Keyed on source address - the spec allows one transfer per source at a
\* time" (reassembly.rs:205): whatever is lost, aborted or evicted, in sessions
\* of the right types no source ever has two.
THEOREM OneSession ==
    ASSUME TpSizes
    PROVE  Is!Spec => [](Is!TypeOK /\ Is!OneSessionPerSource)
  <1>1. TransfersInv /\ OutSound => Is!TypeOK /\ Is!OneSessionPerSource
    BY TransfersSay
  <1>2. QED
    BY <1>1, TransfersInvariant, PTL

\* A payload holds what its header's transfer sent, chunk for chunk, unless the
\* connect of that transfer was missed; and nothing that was not heard at all
\* (handle_tp_dt).
THEOREM PayloadsAreOfOneTransfer ==
    ASSUME TpSizes
    PROVE  Is!Spec => [](Is!PayloadOfOneTransfer /\ Is!NoGaps)
  <1>1. TransfersInv /\ OutSound => Is!PayloadOfOneTransfer /\ Is!NoGaps
    BY TransfersSay
  <1>2. QED
    BY <1>1, TransfersInvariant, PTL

\* A transfer that is heard in full is handed on with its last packet, unless
\* another source was given its session (handle_tp_dt, claim_tp_slot).
THEOREM WholeTransfersComeOut ==
    ASSUME TpSizes
    PROVE  Is!Spec => Is!WholeTransfersEmitted
  <1>1. TransfersInv /\ [Is!Next]_Is!vars => [Is!WholeTransferEmitted]_Is!vars
    BY TransfersEmit
  <1>2. QED
    BY <1>1, TransfersInvariant, PTL DEF Is!Spec, Is!WholeTransfersEmitted

-----------------------------------------------------------------------------
(* The iKonvert handshake.  What makes its end sound is that it asks one    *)
(* question at a time: OneQuestion and OneAnswer say where the question or  *)
(* its answer is, ListsFollow what the device has stored by then, and       *)
(* BannersAreReboots that of the banners still on their way no more will be *)
(* taken for a reboot than there were reboots.                              *)

Lines == DOMAIN from_device
Commands == DOMAIN to_device
Questions == {"reset", "rx_list", "tx_list", "init_all", "init_normal"}
Handshaking == init_state \in {Ik!WaitReset, Ik!WaitRxList, Ik!WaitTxList, Ik!WaitInit}

\* The command whose answer the host waits for.
Awaited ==
    CASE init_state = Ik!WaitReset  -> "reset"
      [] init_state = Ik!WaitRxList -> "rx_list"
      [] init_state = Ik!WaitTxList -> "tx_list"
      [] init_state = Ik!WaitInit   -> Head(Ik!SendInit.commands)
      [] OTHER -> "offline"

Answered == \E i \in Lines : from_device[i] = "ack"
Asking == busy \in Questions \/ \E i \in Commands : to_device[i] \in Questions

\* One question at a time, the one awaited, behind every other command; an
\* OFFLINE is only ever in front of it.
OneQuestion ==
    /\ \A i \in Commands : to_device[i] \in Questions => i = Len(to_device) /\ to_device[i] = Awaited
    /\ \A i \in Commands : to_device[i] = "offline" /\ Handshaking => to_device[Len(to_device)] \in Questions
    /\ busy \in Questions => busy = Awaited /\ \A i \in Commands : to_device[i] \notin Questions
    /\ ~Handshaking => ~Asking /\ ~Answered
    /\ init_state = Ik!Done => busy # "offline" /\ \A i \in Commands : to_device[i] # "offline"

\* One answer at a time, once its question is gone, and every OFFLINE before it.
OneAnswer ==
    /\ \A i, j \in Lines : from_device[i] = "ack" /\ from_device[j] = "ack" => i = j
    /\ Answered => ~Asking /\ busy # "offline"

\* A banner that will be taken for a reboot: it is read when the handshake is over.
Late(i) ==
    /\ from_device[i] = "text"
    /\ init_state = Ik!Done \/ \E j \in Lines : j < i /\ from_device[j] = "ack"

\* How many starts there were: RESETs, and the one that skip_init skipped.
Starts == IF config.skip_init THEN resets + 1 ELSE resets

\* Late banners are of different reboots, none of which was answered with a RESET yet.
BannersAreReboots ==
    /\ resets \in Nat /\ reboots \in Nat /\ Starts <= 1 + reboots
    /\ init_state = Ik!WaitOffline => Starts = 0
    /\ \E reboot \in [Lines -> Nat] :
          /\ \A i \in Lines : Late(i) => reboot[i] \in Starts .. reboots
          /\ \A i, j \in Lines : Late(i) /\ Late(j) /\ i < j => reboot[i] < reboot[j]

Lists(rx, tx) == device.rx_list = rx /\ device.tx_list = tx
NoneLate == \A i \in Lines : ~Late(i)
Over == init_state = Ik!Done /\ Ik!Begun

\* The filters stored, while a question is asked, when it was answered, and at the end.
ListsFollow ==
    /\ Asking => /\ init_state = Ik!WaitRxList => config.rx_list /\ Lists(FALSE, FALSE)
                 /\ init_state = Ik!WaitTxList => config.tx_list /\ Lists(config.rx_list, FALSE)
                 /\ init_state = Ik!WaitInit => Lists(config.rx_list, config.tx_list)
    /\ Answered => /\ init_state = Ik!WaitReset => Lists(FALSE, FALSE)
                   /\ init_state = Ik!WaitRxList => config.rx_list /\ Lists(TRUE, FALSE)
                   /\ init_state = Ik!WaitTxList => config.tx_list /\ Lists(config.rx_list, TRUE)
                   /\ init_state = Ik!WaitInit => Lists(config.rx_list, config.tx_list)
    /\ Over => Lists(config.rx_list, config.tx_list)
    /\ Over \/ (init_state = Ik!WaitInit /\ Answered) => (NoneLate => device.mode = Ik!Mode)

HandshakeInv == Ik!TypeOK /\ OneQuestion /\ OneAnswer /\ BannersAreReboots /\ ListsFollow

-----------------------------------------------------------------------------
LEMMA TailIndex ==
    ASSUME NEW S, NEW s \in Seq(S), s # <<>>
    PROVE  /\ Tail(s) \in Seq(S) /\ Head(s) = s[1] /\ 1 \in DOMAIN s
           /\ Len(s) \in Nat /\ Len(Tail(s)) = Len(s) - 1 /\ DOMAIN s = 1 .. Len(s) /\ DOMAIN Tail(s) = 1 .. Len(s) - 1
           /\ \A i \in DOMAIN Tail(s) : i + 1 \in DOMAIN s /\ Tail(s)[i] = s[i + 1]
           /\ \A i \in DOMAIN s : i # 1 => i - 1 \in DOMAIN Tail(s) /\ Tail(s)[i - 1] = s[i]
  OBVIOUS

LEMMA AppendIndex ==
    ASSUME NEW S, NEW s \in Seq(S), NEW x \in S
    PROVE  /\ Append(s, x) \in Seq(S) /\ s \o <<x>> = Append(s, x) /\ s \o <<>> = s
           /\ Len(s) \in Nat /\ DOMAIN s = 1 .. Len(s) /\ Len(Append(s, x)) = Len(s) + 1
           /\ DOMAIN Append(s, x) = 1 .. Len(s) + 1
           /\ \A i \in DOMAIN s : i \in DOMAIN Append(s, x) /\ Append(s, x)[i] = s[i]
           /\ Append(s, x)[Len(s) + 1] = x
  OBVIOUS

LEMMA States ==
    /\ Ik!TypeOK => (~Handshaking <=> init_state \in {Ik!Done, Ik!WaitOffline})
    /\ Awaited \in Questions \union {"offline"}
    /\ Handshaking => Awaited \in Questions
    /\ Ik!SendInit.commands = <<IF config.rx_list THEN "init_normal" ELSE "init_all">>
  <1> USE DEF Ik!SendInit
  <1>1. Head(Ik!SendInit.commands) \in {"init_normal", "init_all"}
    OBVIOUS
  <1>2. QED
    BY <1>1 DEF Ik!TypeOK, Handshaking, Awaited, Questions, Ik!Done, Ik!WaitOffline, Ik!WaitReset, Ik!WaitRxList, Ik!WaitTxList, Ik!WaitInit
LEMMA Quiet ==
    ASSUME HandshakeInv, ~Handshaking
    PROVE  ~Asking /\ ~Answered
  BY DEF HandshakeInv, OneQuestion

-----------------------------------------------------------------------------
(* Banners.                                                                 *)

LEMMA NoBanners ==
    ASSUME resets' \in Nat, reboots' \in Nat, Starts' <= 1 + reboots',
           init_state' = Ik!WaitOffline => Starts' = 0, \A i \in Lines' : ~Late(i)'
    PROVE  BannersAreReboots'
  <1> DEFINE g == [i \in Lines' |-> 0]
  <1>1. g \in [Lines' -> Nat]
    OBVIOUS
  <1>2. QED
    BY <1>1 DEF BannersAreReboots

LEMMA ShiftedBanners ==
    ASSUME Ik!TypeOK, BannersAreReboots, from_device # <<>>, from_device' = Tail(from_device),
           UNCHANGED <<config, resets, reboots>>, init_state' = Ik!WaitOffline => init_state = Ik!WaitOffline,
           \A i \in Lines' : Late(i)' => Late(i + 1)
    PROVE  BannersAreReboots'
  <1>0. Starts' = Starts
    BY DEF Starts
  <1>1. PICK f \in [Lines -> Nat] :
            /\ \A i \in Lines : Late(i) => f[i] \in Starts .. reboots
            /\ \A i, j \in Lines : Late(i) /\ Late(j) /\ i < j => f[i] < f[j]
    BY DEF BannersAreReboots
  <1> DEFINE g == [i \in Lines' |-> f[i + 1]]
  <1>2. /\ Lines' \subseteq Nat
        /\ \A i \in Lines' : i + 1 \in Lines
    BY TailIndex DEF Lines, Ik!TypeOK
  <1>3. g \in [Lines' -> Nat]
    BY <1>2
  <1>4. \A i \in Lines' : Late(i)' => g[i] \in Starts' .. reboots'
    BY <1>0, <1>1, <1>2
  <1>5. \A i, j \in Lines' : Late(i)' /\ Late(j)' /\ i < j => g[i] < g[j]
    BY <1>1, <1>2
  <1>6. QED
    BY <1>0, <1>3, <1>4, <1>5 DEF BannersAreReboots

LEMMA AppendedBanners ==
    ASSUME Ik!TypeOK, BannersAreReboots, NEW x \in Ik!Line, from_device' = Append(from_device, x),
           UNCHANGED <<config, resets, init_state>>, reboots' \in Nat, reboots' >= reboots,
           NEW n \in Nat, n = Len(from_device) + 1, Late(n)' => reboots' = reboots + 1,
           \A i \in Lines : Late(i)' <=> Late(i)
    PROVE  BannersAreReboots'
  <1>0. Starts' = Starts
    BY DEF Starts
  <1>1. PICK f \in [Lines -> Nat] :
            /\ \A i \in Lines : Late(i) => f[i] \in Starts .. reboots
            /\ \A i, j \in Lines : Late(i) /\ Late(j) /\ i < j => f[i] < f[j]
    BY DEF BannersAreReboots
  <1> DEFINE g == [i \in Lines' |-> IF i = n THEN reboots' ELSE f[i]]
  <1>2. /\ Lines = 1 .. Len(from_device) /\ Lines' = 1 .. n /\ n \in Nat /\ n \notin Lines
        /\ \A i \in Lines' : i = n \/ (i \in Lines /\ i < n)
    <2>1. Lines = 1 .. Len(from_device) /\ Lines' = 1 .. n /\ Len(from_device) \in Nat
      BY AppendIndex DEF Lines, Ik!TypeOK
    <2>2. QED
      BY <2>1
  <1>3. g \in [Lines' -> Nat]
    BY <1>2
  <1>4. Starts \in Nat /\ reboots \in Nat /\ Starts <= 1 + reboots
    BY DEF BannersAreReboots, Starts
  <1>5. \A i \in Lines' : Late(i)' => g[i] \in Starts' .. reboots'
    <2> SUFFICES ASSUME NEW i \in Lines', Late(i)'
                 PROVE  g[i] \in Starts .. reboots'
      BY <1>0
    <2>1. CASE i = n
      BY <2>1, <1>4
    <2>2. CASE i # n
      BY <2>2, <1>1, <1>2, <1>4
    <2>3. QED
      BY <2>1, <2>2
  <1>6. \A i, j \in Lines' : Late(i)' /\ Late(j)' /\ i < j => g[i] < g[j]
    <2> SUFFICES ASSUME NEW i \in Lines', NEW j \in Lines', Late(i)', Late(j)', i < j
                 PROVE  g[i] < g[j]
      OBVIOUS
    <2>1. i \in Lines /\ i # n
      BY <1>2
    <2>2. f[i] \in Starts .. reboots /\ g[i] = f[i]
      BY <2>1, <1>1
    <2>3. CASE j = n
      <3>1. reboots' = reboots + 1 /\ g[j] = reboots'
        BY <2>3
      <3>2. QED
        BY <3>1, <2>2, <1>4
    <2>4. CASE j # n
      BY <2>1, <2>4, <1>1, <1>2
    <2>5. QED
      BY <2>3, <2>4
  <1>7. resets' \in Nat /\ Starts' <= 1 + reboots' /\ (init_state' = Ik!WaitOffline => Starts' = 0)
    <2>1. resets \in Nat /\ (init_state = Ik!WaitOffline => Starts = 0)
      BY DEF BannersAreReboots
    <2>2. resets' = resets /\ init_state' = init_state /\ Starts' = Starts
      BY <1>0
    <2>3. Starts <= 1 + reboots'
      <3>1. reboots' \in Nat /\ reboots' >= reboots
        OBVIOUS
      <3> HIDE DEF g
      <3>2. \A r, b, c \in Nat : r <= 1 + b /\ c >= b => r <= 1 + c
        OBVIOUS
      <3>3. QED
        BY <3>1, <3>2, <1>4
    <2>4. QED
      BY <1>4, <2>1, <2>2, <2>3 DEF Ik!WaitOffline
  <1>8. QED
    BY <1>3, <1>5, <1>6, <1>7 DEF BannersAreReboots

(* The line from the device. *)

\* A line is taken from its front that is no banner the host acts on.
LEMMA FrontTaken ==
    ASSUME HandshakeInv, from_device # <<>>, from_device' = Tail(from_device),
           UNCHANGED <<config, init_state, resets, reboots, busy, device>>, Asking' <=> Asking,
           Head(from_device) = "text" => init_state # Ik!Done
    PROVE  (Answered' => Answered) /\ OneAnswer' /\ BannersAreReboots' /\ ListsFollow'
  <1>1. /\ Lines' \subseteq Nat /\ Lines \subseteq Nat /\ 1 \in Lines /\ from_device[1] = Head(from_device)
        /\ \A i \in Lines' : i + 1 \in Lines /\ from_device'[i] = from_device[i + 1]
        /\ \A i \in Lines : i # 1 => i > 1 /\ i - 1 \in Lines' /\ from_device'[i - 1] = from_device[i]
    BY TailIndex DEF Lines, HandshakeInv, Ik!TypeOK
  <1>2. Answered' => Answered
    BY <1>1 DEF Answered
  <1>3. OneAnswer'
    <2>1. ASSUME NEW i \in Lines', NEW j \in Lines', from_device'[i] = "ack", from_device'[j] = "ack"
          PROVE  i = j
      <3>1. i + 1 = j + 1
        <4>1. i + 1 \in Lines /\ j + 1 \in Lines /\ from_device[i + 1] = "ack" /\ from_device[j + 1] = "ack"
          BY <1>1, <2>1
        <4>2. OneAnswer
          BY DEF HandshakeInv
        <4>3. QED
          BY <4>1, <4>2 DEF OneAnswer
      <3>2. i \in Nat /\ j \in Nat
        BY <1>1
      <3>3. QED
        BY <3>1, <3>2
    <2>2. Answered' => ~Asking' /\ busy' # "offline"
      BY <1>2 DEF OneAnswer, HandshakeInv
    <2>3. QED
      BY <2>1, <2>2 DEF OneAnswer
  <1>4. \A i \in Lines' : Late(i)' => Late(i + 1)
    <2> SUFFICES ASSUME NEW i \in Lines', Late(i)'
                 PROVE  Late(i + 1)
      OBVIOUS
    <2>1. from_device[i + 1] = "text"
      BY <1>1 DEF Late
    <2>2. CASE init_state = Ik!Done
      BY <2>1, <2>2 DEF Late
    <2>3. CASE init_state # Ik!Done
      <3>1. PICK j \in Lines' : j < i /\ from_device'[j] = "ack"
        BY <2>3 DEF Late
      <3>2. j + 1 \in Lines /\ from_device[j + 1] = "ack" /\ i \in Nat /\ j \in Nat
        BY <3>1, <1>1
      <3>3. QED
        BY <2>1, <3>1, <3>2 DEF Late
    <2>4. QED
      BY <2>2, <2>3
  <1>5. BannersAreReboots'
    BY <1>4, ShiftedBanners DEF HandshakeInv
  <1>6. ASSUME init_state = Ik!Done \/ Answered', NoneLate'
        PROVE  NoneLate
    <2> SUFFICES ASSUME NEW i \in Lines, Late(i)
                 PROVE  FALSE
      BY DEF NoneLate
    <2>1. from_device[i] = "text"
      BY DEF Late
    <2>2. CASE init_state = Ik!Done
      <3>1. i # 1
        BY <1>1, <2>1, <2>2
      <3>2. QED
        BY <1>1, <1>6, <2>1, <2>2, <3>1 DEF NoneLate, Late
    <2>3. CASE init_state # Ik!Done
      <3>1. PICK j \in Lines : j < i /\ from_device[j] = "ack"
        BY <2>3 DEF Late
      <3>2. PICK k \in Lines' : from_device'[k] = "ack"
        BY <2>3, <1>6 DEF Answered
      <3>3. j = k + 1
        <4>1. k + 1 \in Lines /\ from_device[k + 1] = "ack"
          BY <1>1, <3>2
        <4>2. QED
          BY <3>1, <4>1 DEF HandshakeInv, OneAnswer
      <3>4. i \in Nat /\ j \in Nat /\ k \in Nat /\ i # 1 /\ k < i - 1
        <4>1. i \in Nat /\ j \in Nat /\ k \in Nat
          BY <1>1
        <4>2. j >= 1
          BY <4>1, <3>3
        <4>3. QED
          BY <4>1, <4>2, <3>1, <3>3
      <3>5. QED
        <4>1. i - 1 \in Lines' /\ from_device'[i - 1] = "text"
          BY <1>1, <2>1, <3>4
        <4>2. QED
          BY <4>1, <1>6, <3>2, <3>4 DEF NoneLate, Late
    <2>4. QED
      BY <2>2, <2>3
  <1>7. ListsFollow'
    <2>0. Over' = Over
      BY DEF Over, Ik!Begun
    <2>1. (Over \/ (init_state = Ik!WaitInit /\ Answered))' => (NoneLate' => device.mode = Ik!Mode)
      BY <1>2, <1>6, <2>0 DEF HandshakeInv, ListsFollow, Over
    <2>2. Ik!Mode' = Ik!Mode
      BY DEF Ik!Mode
    <2>3. QED
      BY <1>2, <2>0, <2>1, <2>2 DEF HandshakeInv, ListsFollow, Lists
  <1>8. QED
    BY <1>2, <1>3, <1>5, <1>7

\* A line is taken that the host does not act on, or that is lost.
LEMMA FrontIgnored ==
    ASSUME HandshakeInv, from_device # <<>>, from_device' = Tail(from_device),
           UNCHANGED <<config, init_state, resets, reboots, busy, device, to_device>>, excuse' \in BOOLEAN,
           Head(from_device) = "text" => init_state # Ik!Done
    PROVE  HandshakeInv'
  <1>1. Asking' <=> Asking
    BY DEF Asking, Commands
  <1>2. (Answered' => Answered) /\ OneAnswer' /\ BannersAreReboots' /\ ListsFollow'
    BY <1>1, FrontTaken
  <1>3. Ik!TypeOK'
    BY TailIndex DEF HandshakeInv, Ik!TypeOK
  <1>4. Awaited' = Awaited /\ Handshaking' = Handshaking
    BY DEF Awaited, Handshaking, Ik!SendInit
  <1>5. OneQuestion'
    BY <1>1, <1>2, <1>4 DEF HandshakeInv, OneQuestion, Commands
  <1>6. QED
    BY <1>2, <1>3, <1>5 DEF HandshakeInv

LEMMA LineAppended ==
    ASSUME Ik!TypeOK, NEW x \in Ik!Line, from_device' = Append(from_device, x), init_state' = init_state,
           NEW n \in Nat, n = Len(from_device) + 1
    PROVE  /\ n \in Lines' /\ from_device'[n] = x
           /\ \A i \in Lines : i \in Lines' /\ from_device'[i] = from_device[i] /\ i < n
           /\ \A i \in Lines' : i = n \/ i \in Lines
           /\ x # "ack" => (Answered' <=> Answered)
           /\ \A i \in Lines : Late(i)' <=> Late(i)
           /\ Late(n)' => x = "text" /\ (init_state = Ik!Done \/ Answered)
           /\ NoneLate' => NoneLate
  <1>1. Lines = 1 .. Len(from_device) /\ Lines' = 1 .. n /\ Len(from_device) \in Nat
    BY AppendIndex DEF Lines, Ik!TypeOK
  <1>2. /\ n \in Lines' /\ n \in Nat
        /\ \A i \in Lines : i \in Lines' /\ i < n /\ i \in Nat
        /\ \A i \in Lines' : i = n \/ i \in Lines
    BY <1>1
  <1>3. from_device'[n] = x /\ \A i \in Lines : from_device'[i] = from_device[i]
    BY AppendIndex DEF Lines, Ik!TypeOK
  <1>4. x # "ack" => (Answered' <=> Answered)
    BY <1>2, <1>3 DEF Answered
  <1>5. ASSUME NEW i \in Lines
        PROVE  Late(i)' <=> Late(i)
    <2>1. \A j \in Lines' : j < i => j \in Lines
      BY <1>2
    <2>2. (\E j \in Lines' : j < i /\ from_device'[j] = "ack") <=> \E j \in Lines : j < i /\ from_device[j] = "ack"
      BY <1>2, <1>3, <2>1
    <2>3. QED
      BY <1>3, <2>2 DEF Late
  <1>6. Late(n)' => x = "text" /\ (init_state = Ik!Done \/ Answered)
    <2>1. \A j \in Lines' : j < n => j \in Lines
      BY <1>2
    <2>2. QED
      BY <1>3, <2>1 DEF Late, Answered
  <1>7. NoneLate' => NoneLate
    BY <1>2, <1>5 DEF NoneLate
  <1>8. QED
    BY <1>2, <1>3, <1>4, <1>5, <1>6, <1>7

\* A refusal or a heartbeat is added, which the host does not act on.
LEMMA Remarked ==
    ASSUME HandshakeInv, NEW x \in {"nak", "status"}, from_device' = Append(from_device, x),
           UNCHANGED <<config, init_state, resets, reboots, device, to_device>>, excuse' \in BOOLEAN,
           busy' \in {busy, "none"}
    PROVE  HandshakeInv'
  <1> SUFFICES ASSUME NEW n \in Nat, n = Len(from_device) + 1
               PROVE  HandshakeInv'
    BY AppendIndex DEF HandshakeInv, Ik!TypeOK
  <1>1. /\ Ik!TypeOK /\ x \in Ik!Line /\ x # "ack" /\ x # "text" /\ reboots' \in Nat /\ reboots' >= reboots
    BY DEF HandshakeInv, Ik!Line, BannersAreReboots
  <1>2. /\ n \in Lines' /\ from_device'[n] = x
        /\ \A i \in Lines : i \in Lines' /\ from_device'[i] = from_device[i] /\ i < n
        /\ \A i \in Lines' : i = n \/ i \in Lines
        /\ (Answered' <=> Answered) /\ \A i \in Lines : Late(i)' <=> Late(i)
        /\ ~Late(n)' /\ (NoneLate' => NoneLate)
    BY <1>1, LineAppended
  <1>3. BannersAreReboots'
    BY <1>1, <1>2, AppendedBanners DEF HandshakeInv
  <1>4. (Asking' => Asking) /\ Awaited' = Awaited /\ Handshaking' = Handshaking
    BY DEF Asking, Commands, Awaited, Handshaking, Ik!SendInit, Questions
  <1>5. Ik!TypeOK'
    BY <1>1, AppendIndex DEF Ik!TypeOK
  <1>6. OneQuestion'
    BY <1>2, <1>4 DEF HandshakeInv, OneQuestion, Commands, Questions
  <1>7. OneAnswer'
    BY <1>1, <1>2, <1>4 DEF HandshakeInv, OneAnswer
  <1>8. ListsFollow'
    BY <1>2, <1>4 DEF HandshakeInv, ListsFollow, Lists, Ik!Mode, Over, Ik!Begun
  <1>9. QED
    BY <1>3, <1>5, <1>6, <1>7, <1>8 DEF HandshakeInv

(* The line to the device. *)

\* A command arrives, to be carried out or ignored, or is lost.
LEMMA CommandTaken ==
    ASSUME HandshakeInv, to_device # <<>>, to_device' = Tail(to_device),
           UNCHANGED <<config, init_state, resets, reboots, from_device, device>>, excuse' \in BOOLEAN,
           busy' = busy \/ (busy = "none" /\ busy' = Head(to_device))
    PROVE  HandshakeInv'
  <1>1. /\ to_device' \in Seq(Ik!Command) /\ Head(to_device) = to_device[1] /\ 1 \in Commands
        /\ Len(to_device) \in Nat /\ Len(to_device') = Len(to_device) - 1
        /\ Commands = 1 .. Len(to_device) /\ Commands' = 1 .. Len(to_device) - 1
        /\ \A i \in Commands' : i + 1 \in Commands /\ to_device'[i] = to_device[i + 1]
    BY TailIndex DEF Commands, HandshakeInv, Ik!TypeOK
  <1>2. /\ Lines' = Lines /\ Answered' = Answered /\ Awaited' = Awaited /\ Handshaking' = Handshaking
        /\ Ik!Mode' = Ik!Mode /\ NoneLate' = NoneLate /\ \A i : Late(i)' = Late(i)
        /\ Over' = Over /\ Starts' = Starts
    BY DEF Lines, Answered, Awaited, Handshaking, Ik!SendInit, Ik!Mode, NoneLate, Late, Over, Ik!Begun, Starts
  <1>3. "none" \notin Questions /\ "offline" \notin Questions
    BY DEF Questions
  <1>4. busy' \in Ik!Command \cup {"none"} /\ Ik!TypeOK'
    BY <1>1 DEF HandshakeInv, Ik!TypeOK
  <1>5. Asking' => Asking
    BY <1>1 DEF Asking
  <1>6. BannersAreReboots'
    BY <1>2 DEF HandshakeInv, BannersAreReboots, Lines
  <1>7. ListsFollow'
    BY <1>2, <1>5 DEF HandshakeInv, ListsFollow, Lists
  <1>8. OneAnswer'
    <2>1. ASSUME Answered
          PROVE  busy' # "offline"
      <3>1. ~Asking /\ busy # "offline" /\ Handshaking
        BY <2>1 DEF HandshakeInv, OneAnswer, OneQuestion
      <3>2. to_device[1] # "offline"
        <4>1. Len(to_device) \in Commands
          BY <1>1
        <4>2. to_device[1] = "offline" => to_device[Len(to_device)] \in Questions
          BY <1>1, <3>1 DEF HandshakeInv, OneQuestion
        <4>3. QED
          BY <4>1, <4>2, <3>1 DEF Asking
      <3>3. QED
        BY <1>1, <3>1, <3>2
    <2>2. QED
      BY <1>2, <1>5, <2>1 DEF HandshakeInv, OneAnswer
  <1>9. OneQuestion'
    <2>1. ASSUME NEW i \in Commands', to_device'[i] \in Questions
          PROVE  i = Len(to_device') /\ to_device'[i] = Awaited'
      <3>1. i + 1 = Len(to_device) /\ to_device[i + 1] = Awaited
        BY <1>1, <2>1 DEF HandshakeInv, OneQuestion
      <3>2. i \in Nat /\ Len(to_device) \in Nat /\ Len(to_device') = Len(to_device) - 1
        BY <1>1
      <3>3. i = Len(to_device')
        BY <3>1, <3>2
      <3>4. QED
        BY <1>1, <1>2, <3>1, <3>3
    <2>2. ASSUME NEW i \in Commands', to_device'[i] = "offline", Handshaking'
          PROVE  to_device'[Len(to_device')] \in Questions
      <3>1. to_device[Len(to_device)] \in Questions
        BY <1>1, <1>2, <2>2 DEF HandshakeInv, OneQuestion
      <3>2. Len(to_device') \in Commands' /\ Len(to_device') + 1 = Len(to_device)
        BY <1>1
      <3>3. QED
        BY <1>1, <3>1, <3>2
    <2>3. ASSUME busy' \in Questions
          PROVE  busy' = Awaited' /\ \A i \in Commands' : to_device'[i] \notin Questions
      <3>1. CASE busy' = busy
        BY <1>1, <1>2, <2>3, <3>1 DEF HandshakeInv, OneQuestion
      <3>2. CASE busy' # busy
        <4>1. 1 = Len(to_device) /\ to_device[1] = Awaited /\ busy' = to_device[1]
          BY <1>1, <2>3, <3>2 DEF HandshakeInv, OneQuestion
        <4>2. Commands' = {}
          BY <1>1, <4>1
        <4>3. QED
          BY <1>2, <4>1, <4>2
      <3>3. QED
        BY <3>1, <3>2
    <2>4. ~Handshaking' => ~Asking' /\ ~Answered'
      BY <1>2, <1>5 DEF HandshakeInv, OneQuestion
    <2>5. init_state' = Ik!Done => busy' # "offline" /\ \A i \in Commands' : to_device'[i] # "offline"
      BY <1>1 DEF HandshakeInv, OneQuestion
    <2>6. QED
      BY <2>1, <2>2, <2>3, <2>4, <2>5 DEF OneQuestion
  <1>10. QED
    BY <1>4, <1>6, <1>7, <1>8, <1>9 DEF HandshakeInv

(* The device. *)

\* An OFFLINE was carried out: its banner is read before the handshake is over.
LEMMA WentOffline ==
    ASSUME HandshakeInv, Ik!Answer, busy = "offline"
    PROVE  HandshakeInv'
  <1> SUFFICES ASSUME NEW n \in Nat, n = Len(from_device) + 1
               PROVE  HandshakeInv'
    BY AppendIndex DEF HandshakeInv, Ik!TypeOK
  <1>1. /\ Ik!TypeOK /\ "text" \in Ik!Line /\ reboots' \in Nat /\ reboots' >= reboots
        /\ busy' = "none" /\ from_device' = Append(from_device, "text")
        /\ UNCHANGED <<config, init_state, resets, reboots, to_device, excuse>>
        /\ device' = [device EXCEPT !.mode = "offline"]
    BY DEF Ik!Answer, Ik!host, Ik!counters, HandshakeInv, Ik!Line, BannersAreReboots
  <1>2. ~Answered /\ init_state # Ik!Done
    BY DEF HandshakeInv, OneQuestion, OneAnswer
  <1>3. /\ n \in Lines' /\ from_device'[n] = "text"
        /\ \A i \in Lines : i \in Lines' /\ from_device'[i] = from_device[i] /\ i < n
        /\ \A i \in Lines' : i = n \/ i \in Lines
        /\ ~Answered' /\ \A i \in Lines : Late(i)' <=> Late(i)
        /\ ~Late(n)'
    BY <1>1, <1>2, LineAppended
  <1>4. BannersAreReboots'
    BY <1>1, <1>3, AppendedBanners DEF HandshakeInv
  <1>5. (Asking' => Asking) /\ Awaited' = Awaited /\ Handshaking' = Handshaking
    BY <1>1 DEF Asking, Commands, Awaited, Handshaking, Ik!SendInit, Questions
  <1>6. Ik!TypeOK'
    <2>1. device' \in [mode : {"offline", "all", "normal"}, rx_list : BOOLEAN, tx_list : BOOLEAN]
      BY <1>1 DEF Ik!TypeOK
    <2>2. QED
      BY <1>1, <2>1, AppendIndex DEF Ik!TypeOK
  <1>7. OneQuestion'
    BY <1>1, <1>3, <1>5 DEF HandshakeInv, OneQuestion, Commands, Questions
  <1>8. OneAnswer'
    BY <1>3 DEF OneAnswer, Answered
  <1>9. ListsFollow'
    <2>1. device'.rx_list = device.rx_list /\ device'.tx_list = device.tx_list
      BY <1>1 DEF Ik!TypeOK
    <2>2. QED
      BY <1>1, <1>2, <1>3, <1>5, <2>1 DEF HandshakeInv, ListsFollow, Lists, Over
  <1>10. QED
    BY <1>4, <1>6, <1>7, <1>8, <1>9 DEF HandshakeInv

\* A question was carried out and is answered.
LEMMA AnswersQuestion ==
    ASSUME HandshakeInv, Ik!Answer, busy \in Questions
    PROVE  HandshakeInv'
  <1> SUFFICES ASSUME NEW n \in Nat, n = Len(from_device) + 1
               PROVE  HandshakeInv'
    BY AppendIndex DEF HandshakeInv, Ik!TypeOK
  <1>1. /\ Ik!TypeOK /\ "ack" \in Ik!Line /\ reboots' \in Nat /\ reboots' >= reboots
        /\ busy' = "none" /\ from_device' = Append(from_device, "ack")
        /\ UNCHANGED <<config, init_state, resets, reboots, to_device, excuse>>
    BY DEF Ik!Answer, Ik!host, Ik!counters, HandshakeInv, Ik!Line, BannersAreReboots, Questions
  <1>2. /\ Asking /\ ~Answered /\ Handshaking /\ busy = Awaited
        /\ \A i \in Commands : to_device[i] \notin Questions
    BY DEF HandshakeInv, OneQuestion, OneAnswer, Asking
  <1>3. /\ n \in Lines' /\ from_device'[n] = "ack"
        /\ \A i \in Lines : i \in Lines' /\ from_device'[i] = from_device[i] /\ i < n
        /\ \A i \in Lines' : i = n \/ i \in Lines
        /\ \A i \in Lines : Late(i)' <=> Late(i)
        /\ ~Late(n)' /\ (NoneLate' => NoneLate)
    BY <1>1, LineAppended
  <1>4. BannersAreReboots'
    BY <1>1, <1>3, AppendedBanners DEF HandshakeInv
  <1>5. ~Asking' /\ Awaited' = Awaited /\ Handshaking' = Handshaking /\ Commands' = Commands
    BY <1>1, <1>2 DEF Asking, Commands, Awaited, Handshaking, Ik!SendInit, Questions
  <1>6. device' \in [mode : {"offline", "all", "normal"}, rx_list : BOOLEAN, tx_list : BOOLEAN]
    BY DEF Ik!Answer, HandshakeInv, Ik!TypeOK, Questions
  <1>7. Ik!TypeOK'
    BY <1>1, <1>6, AppendIndex DEF Ik!TypeOK
  <1>8. OneQuestion'
    <2>1. ASSUME NEW i \in Commands
          PROVE  to_device[i] # "offline"
      <3>1. Len(to_device) \in Commands
        BY DEF HandshakeInv, Ik!TypeOK, Commands
      <3>2. QED
        BY <1>2, <3>1 DEF HandshakeInv, OneQuestion
    <2>2. QED
      BY <1>1, <1>2, <1>5, <2>1 DEF OneQuestion, Questions
  <1>9. OneAnswer'
    <2>1. \A i \in Lines' : from_device'[i] = "ack" => i = n
      BY <1>2, <1>3 DEF Answered
    <2>2. QED
      BY <1>1, <1>5, <2>1 DEF OneAnswer
  <1>10. ListsFollow'
    <2>1. init_state # Ik!Done /\ ~(init_state = Ik!Done)'
      BY <1>1, <1>2 DEF Handshaking, Ik!Done, Ik!WaitReset, Ik!WaitRxList, Ik!WaitTxList, Ik!WaitInit
    <2>2. /\ init_state = Ik!WaitRxList => config.rx_list /\ Lists(FALSE, FALSE)
          /\ init_state = Ik!WaitTxList => config.tx_list /\ Lists(config.rx_list, FALSE)
          /\ init_state = Ik!WaitInit => Lists(config.rx_list, config.tx_list)
      BY <1>2 DEF HandshakeInv, ListsFollow
    <2>3. init_state = Ik!WaitReset => Lists(FALSE, FALSE)'
      <3>0. init_state = Ik!WaitReset => busy = "reset"
        BY <1>2 DEF Awaited, Ik!WaitReset, Ik!WaitRxList, Ik!WaitTxList, Ik!WaitInit
      <3>1. init_state = Ik!WaitReset => device' = [device EXCEPT !.rx_list = FALSE, !.tx_list = FALSE]
        BY <3>0 DEF Ik!Answer
      <3>2. QED
        BY <1>1, <3>1 DEF Lists, Ik!TypeOK
    <2>4. init_state = Ik!WaitRxList => Lists(TRUE, FALSE)'
      <3>0. init_state = Ik!WaitRxList => busy = "rx_list"
        BY <1>2 DEF Awaited, Ik!WaitReset, Ik!WaitRxList, Ik!WaitTxList, Ik!WaitInit
      <3>1. init_state = Ik!WaitRxList => device' = [device EXCEPT !.rx_list = TRUE]
        BY <3>0 DEF Ik!Answer
      <3>2. QED
        BY <1>1, <2>2, <3>1 DEF Lists, Ik!TypeOK
    <2>5. init_state = Ik!WaitTxList => Lists(config.rx_list, TRUE)'
      <3>0. init_state = Ik!WaitTxList => busy = "tx_list"
        BY <1>2 DEF Awaited, Ik!WaitReset, Ik!WaitRxList, Ik!WaitTxList, Ik!WaitInit
      <3>1. init_state = Ik!WaitTxList => device' = [device EXCEPT !.tx_list = TRUE]
        BY <3>0 DEF Ik!Answer
      <3>2. QED
        BY <1>1, <2>2, <3>1 DEF Lists, Ik!TypeOK
    <2>6. init_state = Ik!WaitInit => Lists(config.rx_list, config.tx_list)' /\ device'.mode = Ik!Mode'
      <3>1. Head(Ik!SendInit.commands) = IF config.rx_list THEN "init_normal" ELSE "init_all"
        BY DEF Ik!SendInit
      <3>2. init_state = Ik!WaitInit => busy = IF config.rx_list THEN "init_normal" ELSE "init_all"
        BY <1>2, <3>1 DEF Awaited, Ik!WaitReset, Ik!WaitRxList, Ik!WaitTxList, Ik!WaitInit
      <3>3. init_state = Ik!WaitInit => device' = [device EXCEPT !.mode = Ik!Mode]
        BY <3>2 DEF Ik!Answer, Ik!Mode
      <3>4. Ik!Mode' = Ik!Mode
        BY <1>1 DEF Ik!Mode
      <3>5. QED
        BY <1>1, <2>2, <3>3, <3>4 DEF Lists, Ik!TypeOK
    <2>7. config' = config /\ init_state' = init_state
      BY <1>1
    <2>8. ~Over'
      BY <2>1 DEF Over
    <2>9. QED
      BY <1>5, <2>1, <2>2, <2>3, <2>4, <2>5, <2>6, <2>7, <2>8 DEF ListsFollow
  <1>11. QED
    BY <1>4, <1>7, <1>8, <1>9, <1>10 DEF HandshakeInv

\* The limit was lifted, without an answer.
LEMMA LiftedLimit ==
    ASSUME HandshakeInv, Ik!Answer, busy = "limit_off"
    PROVE  HandshakeInv'
  <1>1. /\ busy' = "none" /\ from_device' = from_device /\ device' = device
        /\ UNCHANGED <<config, init_state, resets, reboots, to_device, excuse>>
    BY DEF Ik!Answer, Ik!host, Ik!counters
  <1>2. (Asking' => Asking) /\ Awaited' = Awaited /\ Handshaking' = Handshaking /\ Commands' = Commands
    BY <1>1 DEF Asking, Commands, Awaited, Handshaking, Ik!SendInit, Questions
  <1>3. Lines' = Lines /\ Answered' = Answered /\ Ik!Mode' = Ik!Mode /\ NoneLate' = NoneLate /\ \A i : Late(i)' = Late(i)
        /\ Over' = Over /\ Starts' = Starts
    BY <1>1 DEF Lines, Answered, Ik!Mode, NoneLate, Late, Over, Ik!Begun, Starts
  <1>4. Ik!TypeOK'
    BY <1>1 DEF HandshakeInv, Ik!TypeOK
  <1>5. OneQuestion'
    BY <1>1, <1>2, <1>3 DEF HandshakeInv, OneQuestion, Questions
  <1>6. OneAnswer'
    BY <1>1, <1>2, <1>3 DEF HandshakeInv, OneAnswer
  <1>7. BannersAreReboots'
    BY <1>1, <1>3 DEF HandshakeInv, BannersAreReboots
  <1>8. ListsFollow'
    BY <1>1, <1>2, <1>3 DEF HandshakeInv, ListsFollow, Lists
  <1>9. QED
    BY <1>4, <1>5, <1>6, <1>7, <1>8 DEF HandshakeInv

LEMMA AnswerKeeps == ASSUME HandshakeInv, Ik!Answer
                     PROVE  HandshakeInv'
  <1>1. busy \in Questions \/ busy = "offline" \/ busy = "limit_off"
    BY DEF HandshakeInv, Ik!TypeOK, Ik!Answer, Ik!Command, Questions
  <1>2. QED
    BY <1>1, WentOffline, AnswersQuestion, LiftedLimit

LEMMA RebootKeeps == ASSUME HandshakeInv, Ik!Reboot
                     PROVE  HandshakeInv'
  <1> SUFFICES ASSUME NEW n \in Nat, n = Len(from_device) + 1
               PROVE  HandshakeInv'
    BY AppendIndex DEF HandshakeInv, Ik!TypeOK
  <1>1. /\ Ik!TypeOK /\ "text" \in Ik!Line /\ reboots' \in Nat /\ reboots' >= reboots /\ reboots' = reboots + 1
        /\ busy' = "none" /\ from_device' = Append(from_device, "text")
        /\ UNCHANGED <<config, init_state, resets, to_device>>
        /\ device' = [device EXCEPT !.mode = "offline"]
    <2>1. reboots \in Nat
      BY DEF HandshakeInv, BannersAreReboots
    <2>2. QED
      BY <2>1 DEF Ik!Reboot, Ik!host, HandshakeInv, Ik!Line
  <1>2. excuse' \in BOOLEAN
    BY DEF Ik!Reboot, HandshakeInv, Ik!TypeOK
  <1>3. /\ n \in Lines' /\ from_device'[n] = "text"
        /\ \A i \in Lines : i \in Lines' /\ from_device'[i] = from_device[i] /\ i < n
        /\ \A i \in Lines' : i = n \/ i \in Lines
        /\ (Answered' <=> Answered) /\ \A i \in Lines : Late(i)' <=> Late(i)
    BY <1>1, LineAppended
  <1>4. BannersAreReboots'
    BY <1>1, <1>3, AppendedBanners DEF HandshakeInv
  <1>5. (Asking' => Asking) /\ Awaited' = Awaited /\ Handshaking' = Handshaking
    BY <1>1 DEF Asking, Commands, Awaited, Handshaking, Ik!SendInit, Questions
  <1>6. Ik!TypeOK'
    <2>1. device' \in [mode : {"offline", "all", "normal"}, rx_list : BOOLEAN, tx_list : BOOLEAN]
      BY <1>1 DEF Ik!TypeOK
    <2>2. QED
      BY <1>1, <1>2, <2>1, AppendIndex DEF Ik!TypeOK
  <1>7. OneQuestion'
    BY <1>1, <1>3, <1>5 DEF HandshakeInv, OneQuestion, Commands, Questions
  <1>8. OneAnswer'
    BY <1>1, <1>3, <1>5 DEF HandshakeInv, OneAnswer
  <1>9. ListsFollow'
    <2>1. device'.rx_list = device.rx_list /\ device'.tx_list = device.tx_list
      BY <1>1 DEF Ik!TypeOK
    <2>2. ASSUME init_state = Ik!Done \/ Answered
          PROVE  ~NoneLate'
      <3>1. CASE init_state = Ik!Done
        BY <1>1, <1>3, <3>1 DEF NoneLate, Late
      <3>2. CASE Answered
        BY <1>1, <1>3, <3>2 DEF NoneLate, Late, Answered
      <3>3. QED
        BY <2>2, <3>1, <3>2
    <2>3. QED
      BY <1>1, <1>3, <1>5, <2>1, <2>2 DEF HandshakeInv, ListsFollow, Lists, Over, Ik!Begun
  <1>10. QED
    BY <1>4, <1>6, <1>7, <1>8, <1>9 DEF HandshakeInv

(* The host. *)

Asks(q, s) ==
    /\ init_state' = s
    /\ to_device' = Append(to_device, q)
    /\ resets' = resets

\* What an ACK makes the host do.
LEMMA AckEffect ==
    ASSUME Ik!TypeOK, Handshaking, Ik!OnAck
    PROVE  /\ init_state = Ik!WaitReset =>
              \/ config.rx_list /\ Asks("rx_list", Ik!WaitRxList)
              \/ ~config.rx_list /\ config.tx_list /\ Asks("tx_list", Ik!WaitTxList)
              \/ ~config.rx_list /\ ~config.tx_list /\ Asks(Head(Ik!SendInit.commands), Ik!WaitInit)
           /\ init_state = Ik!WaitRxList =>
              \/ config.tx_list /\ Asks("tx_list", Ik!WaitTxList)
              \/ ~config.tx_list /\ Asks(Head(Ik!SendInit.commands), Ik!WaitInit)
           /\ init_state = Ik!WaitTxList => Asks(Head(Ik!SendInit.commands), Ik!WaitInit)
           /\ init_state = Ik!WaitInit => /\ init_state' = Ik!Done /\ resets' = resets
                                       /\ to_device' \in {to_device, Append(to_device, "limit_off")}
  <1> USE DEF Ik!Done, Ik!WaitInit, Ik!WaitTxList, Ik!WaitRxList, Ik!WaitReset, Ik!WaitOffline
  <1>1. Ik!AckCounts /\ init_state \in {Ik!WaitReset, Ik!WaitRxList, Ik!WaitTxList, Ik!WaitInit}
    BY DEF Handshaking, Ik!AckCounts
  <1>2. \A q : to_device \o <<q>> = Append(to_device, q)
    BY DEF Ik!TypeOK
  <1>3. to_device \o <<>> = to_device
    BY DEF Ik!TypeOK
  <1>4. \A q : Head(Append(<<q>>, "")) = q /\ Head(Append(<<>>, "")) = "" /\ Head(<<q>>) = q
    OBVIOUS
  <1> DEFINE init == IF config.rx_list THEN "init_normal" ELSE "init_all"
  <1>5. Ik!SendInit = [state |-> Ik!WaitInit, commands |-> <<init>>] /\ Head(Ik!SendInit.commands) = init /\ init # "reset"
    BY <1>4 DEF Ik!SendInit
  <1> HIDE DEF init
  <1>6. Ik!Advance(Ik!SendInit) => Asks(Head(Ik!SendInit.commands), Ik!WaitInit)
    BY <1>2, <1>4, <1>5 DEF Ik!Advance, Asks
  <1>7. Ik!Advance([state |-> Ik!WaitTxList, commands |-> <<"tx_list">>]) => Asks("tx_list", Ik!WaitTxList)
    BY <1>2, <1>4 DEF Ik!Advance, Asks
  <1>8. Ik!Advance([state |-> Ik!WaitRxList, commands |-> <<"rx_list">>]) => Asks("rx_list", Ik!WaitRxList)
    BY <1>2, <1>4 DEF Ik!Advance, Asks
  <1>9. Ik!Advance(Ik!LimitOff) => /\ init_state' = Ik!Done /\ resets' = resets
                             /\ to_device' \in {to_device, Append(to_device, "limit_off")}
    <2>1. CASE config.rate_limit_off
      BY <2>1, <1>2, <1>4 DEF Ik!Advance, Ik!LimitOff
    <2>2. CASE ~config.rate_limit_off
      BY <2>2, <1>3, <1>4 DEF Ik!Advance, Ik!LimitOff
    <2>3. QED
      BY <2>1, <2>2
  <1>10. CASE init_state = Ik!WaitReset
    <2>1. Ik!Advance(Ik!MaybeRxList)
      BY <1>1, <1>10 DEF Ik!OnAck
    <2>2. QED
      BY <1>10, <2>1, <1>6, <1>7, <1>8 DEF Ik!MaybeRxList, Ik!MaybeTxList
  <1>11. CASE init_state = Ik!WaitRxList
    <2>1. Ik!Advance(Ik!MaybeTxList)
      BY <1>1, <1>11 DEF Ik!OnAck
    <2>2. QED
      BY <1>11, <2>1, <1>6, <1>7 DEF Ik!MaybeTxList
  <1>12. CASE init_state = Ik!WaitTxList
    <2>1. Ik!Advance(Ik!SendInit)
      BY <1>1, <1>12 DEF Ik!OnAck
    <2>2. QED
      BY <1>12, <2>1, <1>6
  <1>13. CASE init_state = Ik!WaitInit
    <2>1. Ik!Advance(Ik!LimitOff)
      BY <1>1, <1>13 DEF Ik!OnAck
    <2>2. QED
      BY <1>13, <2>1, <1>9
  <1>14. QED
    BY <1>1, <1>10, <1>11, <1>12, <1>13

\* A command was appended in answer to what the host has read.
LEMMA CommandAppended ==
    ASSUME Ik!TypeOK, NEW q, q \in Ik!Command, to_device' = Append(to_device, q)
    PROVE  /\ Len(to_device') \in Commands' /\ to_device'[Len(to_device')] = q
           /\ \A i \in Commands' : i = Len(to_device') \/ (i \in Commands /\ to_device'[i] = to_device[i])
           /\ to_device' \in Seq(Ik!Command)
  BY AppendIndex DEF Commands, Ik!TypeOK

\* A question is asked, when none is and no answer is on its way.
LEMMA Questioned ==
    ASSUME HandshakeInv, ~Asking, ~Answered', init_state' \in {Ik!WaitReset, Ik!WaitRxList, Ik!WaitTxList, Ik!WaitInit},
           to_device' = Append(to_device, Awaited'), UNCHANGED <<busy, device>>
    PROVE  OneQuestion' /\ OneAnswer' /\ to_device' \in Seq(Ik!Command) /\ ~(init_state = Ik!Done)' /\ Handshaking'
  <1>1. Handshaking' /\ init_state' # Ik!Done /\ Awaited' \in Questions
    <2>1. Handshaking' /\ init_state' # Ik!Done
      BY DEF Handshaking, Ik!Done, Ik!WaitReset, Ik!WaitRxList, Ik!WaitTxList, Ik!WaitInit
    <2>2. Head(Ik!SendInit.commands)' \in {"init_all", "init_normal"}
      BY DEF Ik!SendInit
    <2>3. QED
      BY <2>1, <2>2 DEF Awaited, Questions, Ik!WaitReset, Ik!WaitRxList, Ik!WaitTxList, Ik!WaitInit
  <1>2. /\ Len(to_device') \in Commands' /\ to_device'[Len(to_device')] = Awaited'
        /\ \A i \in Commands' : i = Len(to_device') \/ (i \in Commands /\ to_device'[i] = to_device[i])
        /\ to_device' \in Seq(Ik!Command)
    BY <1>1, CommandAppended DEF HandshakeInv, Questions, Ik!Command
  <1>3. busy' = busy /\ busy \notin Questions /\ \A i \in Commands : to_device[i] \notin Questions
    BY DEF Asking
  <1>4. OneQuestion'
    BY <1>1, <1>2, <1>3 DEF OneQuestion
  <1>5. OneAnswer'
    BY DEF OneAnswer, Answered
  <1>6. QED
    BY <1>1, <1>2, <1>4, <1>5

\* An ACK: it is the only one, and what it answers is no longer asked.
LEMMA AckRead ==
    ASSUME Configs \subseteq Ik!Config, HandshakeInv, Ik!HostReads, Head(from_device) = "ack"
    PROVE  HandshakeInv'
  <1>1. /\ from_device # <<>> /\ from_device' = Tail(from_device) /\ Ik!OnAck /\ excuse' = excuse
        /\ UNCHANGED <<config, busy, device, reboots>>
    <2>1. excuse' = excuse
      BY DEF Ik!HostReads, HandshakeInv, Ik!TypeOK
    <2>2. QED
      BY <2>1 DEF Ik!HostReads, Ik!gadget
  <1>2. /\ Lines' \subseteq Nat /\ Lines \subseteq Nat /\ 1 \in Lines /\ from_device[1] = "ack"
        /\ \A i \in Lines' : i + 1 \in Lines /\ from_device'[i] = from_device[i + 1]
        /\ \A i \in Lines : i # 1 => i > 1 /\ i - 1 \in Lines' /\ from_device'[i - 1] = from_device[i]
        /\ from_device' \in Seq(Ik!Line)
    BY <1>1, TailIndex DEF Lines, HandshakeInv, Ik!TypeOK
  <1>3. Answered /\ Handshaking /\ ~Asking /\ busy # "offline" /\ Ik!TypeOK
    BY <1>2 DEF HandshakeInv, OneQuestion, OneAnswer, Answered
  <1>4. ~Answered'
    <2> SUFFICES ASSUME NEW i \in Lines', from_device'[i] = "ack"
                 PROVE  FALSE
      BY DEF Answered
    <2>1. i + 1 \in Lines /\ from_device[i + 1] = "ack" /\ i \in Nat
      BY <1>2
    <2>2. i + 1 = 1
      BY <2>1, <1>2 DEF HandshakeInv, OneAnswer
    <2>3. i >= 1
      BY <1>1, TailIndex DEF Lines, HandshakeInv, Ik!TypeOK
    <2>4. QED
      BY <2>1, <2>2, <2>3
  <1>5. \A i \in Lines' : from_device'[i] = "text" => Late(i + 1)
    <2> SUFFICES ASSUME NEW i \in Lines', from_device'[i] = "text"
                 PROVE  Late(i + 1)
      OBVIOUS
    <2>1. i + 1 \in Lines /\ from_device[i + 1] = "text" /\ i + 1 # 1
      BY <1>2
    <2>2. 1 < i + 1
      BY <1>2, <2>1
    <2>3. QED
      BY <1>2, <2>1, <2>2 DEF Late
  <1>6. /\ init_state = Ik!WaitReset => Lists(FALSE, FALSE)
        /\ init_state = Ik!WaitRxList => config.rx_list /\ Lists(TRUE, FALSE)
        /\ init_state = Ik!WaitTxList => config.tx_list /\ Lists(config.rx_list, TRUE)
        /\ init_state = Ik!WaitInit => Lists(config.rx_list, config.tx_list)
        /\ init_state = Ik!WaitInit => (NoneLate => device.mode = Ik!Mode)
    BY <1>3 DEF HandshakeInv, ListsFollow
  <1>7. Lists(config.rx_list, config.tx_list)' = Lists(config.rx_list, config.tx_list) /\ Ik!Mode' = Ik!Mode
        /\ \A rx, tx : Lists(rx, tx)' = Lists(rx, tx)
    BY <1>1 DEF Lists, Ik!Mode
  <1>8. BannersAreReboots'
    <2>1. resets' = resets /\ init_state' # Ik!WaitOffline
      BY <1>1, <1>3, AckEffect DEF Asks, Handshaking, Ik!Done, Ik!WaitReset, Ik!WaitRxList, Ik!WaitTxList, Ik!WaitInit, Ik!WaitOffline
    <2>2. \A i \in Lines' : Late(i)' => Late(i + 1)
      BY <1>5 DEF Late
    <2>3. QED
      BY <1>1, <1>3, <2>1, <2>2, ShiftedBanners DEF HandshakeInv
  <1>9. CASE init_state' # Ik!Done
    <2>1. /\ init_state' \in {Ik!WaitReset, Ik!WaitRxList, Ik!WaitTxList, Ik!WaitInit}
          /\ \E q : Asks(q, init_state') /\ q = Awaited'
      <3>1. Head(Ik!SendInit.commands)' = Head(Ik!SendInit.commands)
        BY <1>1 DEF Ik!SendInit
      <3>2. \E q, s : /\ Asks(q, s)
                      /\ \/ q = "rx_list" /\ s = Ik!WaitRxList
                         \/ q = "tx_list" /\ s = Ik!WaitTxList
                         \/ q = Head(Ik!SendInit.commands) /\ s = Ik!WaitInit
        BY <1>1, <1>3, <1>9, AckEffect DEF Handshaking
      <3>3. QED
        BY <3>1, <3>2 DEF Asks, Awaited, Ik!WaitReset, Ik!WaitRxList, Ik!WaitTxList, Ik!WaitInit
    <2>2. to_device' = Append(to_device, Awaited')
      BY <2>1 DEF Asks
    <2>3. OneQuestion' /\ OneAnswer' /\ to_device' \in Seq(Ik!Command) /\ Handshaking'
      BY <1>1, <1>3, <1>4, <2>1, <2>2, Questioned
    <2>4. Ik!TypeOK'
      BY <1>1, <1>2, <1>3, <1>8, <2>1, <2>3 DEF Ik!TypeOK, BannersAreReboots
    <2>5. ListsFollow'
      <3>1. /\ init_state' = Ik!WaitRxList => config.rx_list /\ Lists(FALSE, FALSE)
            /\ init_state' = Ik!WaitTxList => config.tx_list /\ Lists(config.rx_list, FALSE)
            /\ init_state' = Ik!WaitInit => Lists(config.rx_list, config.tx_list)
        <4>1. config.rx_list \in BOOLEAN /\ config.tx_list \in BOOLEAN
          BY <1>3 DEF Ik!TypeOK, Ik!Config
        <4> USE DEF Ik!WaitReset, Ik!WaitRxList, Ik!WaitTxList, Ik!WaitInit
        <4> HIDE DEF Ik!WaitReset, Ik!WaitRxList, Ik!WaitTxList, Ik!WaitInit
        <4>d. /\ Ik!WaitRxList # Ik!WaitTxList /\ Ik!WaitRxList # Ik!WaitInit /\ Ik!WaitTxList # Ik!WaitInit
          BY DEF Ik!WaitReset, Ik!WaitRxList, Ik!WaitTxList, Ik!WaitInit
        <4>2. CASE init_state = Ik!WaitReset
          <5>1. Lists(FALSE, FALSE)
            BY <1>6, <4>2
          <5>2. \/ config.rx_list /\ init_state' = Ik!WaitRxList
                \/ config.rx_list = FALSE /\ config.tx_list /\ init_state' = Ik!WaitTxList
                \/ config.rx_list = FALSE /\ config.tx_list = FALSE /\ init_state' = Ik!WaitInit
            BY <1>1, <1>3, <4>1, <4>2, AckEffect DEF Asks
          <5>3. config.rx_list = FALSE => Lists(config.rx_list, FALSE)
            BY <5>1
          <5>4. config.rx_list = FALSE /\ config.tx_list = FALSE => Lists(config.rx_list, config.tx_list)
            BY <5>1
          <5>5. QED
            BY <4>d, <5>1, <5>2, <5>3, <5>4
        <4>3. CASE init_state = Ik!WaitRxList
          <5>1. config.rx_list = TRUE /\ Lists(TRUE, FALSE)
            BY <1>6, <4>1, <4>3
          <5>2. \/ config.tx_list /\ init_state' = Ik!WaitTxList
                \/ config.tx_list = FALSE /\ init_state' = Ik!WaitInit
            BY <1>1, <1>3, <4>1, <4>3, AckEffect DEF Asks
          <5>3. Lists(config.rx_list, FALSE)
            BY <5>1
          <5>4. config.tx_list = FALSE => Lists(config.rx_list, config.tx_list)
            BY <5>3
          <5>5. QED
            BY <4>d, <5>2, <5>3, <5>4
        <4>4. CASE init_state = Ik!WaitTxList
          <5>1. config.tx_list = TRUE /\ Lists(config.rx_list, TRUE)
            BY <1>6, <4>1, <4>4
          <5>2. init_state' = Ik!WaitInit
            BY <1>1, <1>3, <4>4, AckEffect DEF Asks
          <5>3. Lists(config.rx_list, config.tx_list)
            BY <5>1
          <5>4. QED
            BY <4>d, <5>2, <5>3
        <4>5. CASE init_state = Ik!WaitInit
          BY <1>1, <1>3, <1>9, <4>5, AckEffect
        <4>6. QED
          BY <1>3, <4>2, <4>3, <4>4, <4>5 DEF Handshaking
      <3>2. config' = config
        BY <1>1
      <3>3. QED
        BY <1>4, <1>7, <1>9, <3>1, <3>2 DEF ListsFollow, Over
    <2>6. QED
      BY <1>8, <2>3, <2>4, <2>5 DEF HandshakeInv
  <1>10. CASE init_state' = Ik!Done
    <2>1. init_state = Ik!WaitInit /\ to_device' \in {to_device, Append(to_device, "limit_off")}
      BY <1>1, <1>3, <1>10, AckEffect DEF Asks, Handshaking, Ik!Done, Ik!WaitReset, Ik!WaitRxList, Ik!WaitTxList, Ik!WaitInit
    <2>2. /\ to_device' \in Seq(Ik!Command)
          /\ \A i \in Commands' : to_device'[i] = "limit_off" \/ (i \in Commands /\ to_device'[i] = to_device[i])
      <3>1. CASE to_device' = to_device
        BY <1>3, <3>1 DEF Commands, Ik!TypeOK
      <3>2. CASE to_device' = Append(to_device, "limit_off")
        BY <1>3, <3>2, CommandAppended DEF Ik!Command
      <3>3. QED
        BY <2>1, <3>1, <3>2
    <2>3. \A i \in Commands : to_device[i] # "offline"
      <3>1. ASSUME NEW i \in Commands
            PROVE  Len(to_device) \in Commands
        BY <1>3 DEF Ik!TypeOK, Commands
      <3>2. QED
        BY <1>3, <3>1 DEF HandshakeInv, OneQuestion, Asking
    <2>4. \A i \in Commands' : to_device'[i] \notin Questions /\ to_device'[i] # "offline"
      BY <1>3, <2>2, <2>3 DEF Asking, Questions
    <2>5. busy' \notin Questions /\ busy' # "offline" /\ ~Asking'
      BY <1>1, <1>3, <2>4 DEF Asking
    <2>6. OneQuestion'
      BY <1>4, <2>4, <2>5 DEF OneQuestion
    <2>7. OneAnswer'
      BY <1>4 DEF OneAnswer, Answered
    <2>8. Ik!TypeOK'
      BY <1>1, <1>2, <1>3, <1>8, <1>10, <2>2 DEF Ik!TypeOK, BannersAreReboots
    <2>9. NoneLate' => NoneLate
      <3> SUFFICES ASSUME NEW i \in Lines, Late(i)
                   PROVE  ~NoneLate'
        BY DEF NoneLate
      <3>1. from_device[i] = "text" /\ i # 1
        BY <1>2 DEF Late
      <3>2. i - 1 \in Lines' /\ from_device'[i - 1] = "text"
        BY <1>2, <3>1
      <3>3. QED
        BY <1>10, <3>2 DEF NoneLate, Late
    <2>10. ListsFollow'
      <3>1. Lists(config.rx_list, config.tx_list)' /\ (NoneLate' => device'.mode = Ik!Mode')
        BY <1>1, <1>6, <1>7, <2>1, <2>9
      <3>2. QED
        BY <1>4, <1>10, <2>5, <3>1 DEF ListsFollow, Over
    <2>11. QED
      BY <1>8, <2>6, <2>7, <2>8, <2>10 DEF HandshakeInv
  <1>11. QED
    BY <1>9, <1>10

\* A banner that starts the handshake.
LEMMA BannerRead ==
    ASSUME HandshakeInv, Ik!HostReads, Head(from_device) = "text", Ik!Restarts
    PROVE  HandshakeInv'
  <1>1. /\ from_device # <<>> /\ from_device' = Tail(from_device) /\ Ik!Advance(Ik!SendReset) /\ excuse' = excuse
        /\ UNCHANGED <<config, busy, device, reboots>>
    <2>1. excuse' = excuse
      BY DEF Ik!HostReads, HandshakeInv, Ik!TypeOK
    <2>2. QED
      BY <2>1 DEF Ik!HostReads, Ik!gadget, Ik!OnText
  <1>2. /\ Lines' \subseteq Nat /\ 1 \in Lines /\ from_device[1] = "text"
        /\ \A i \in Lines' : i + 1 \in Lines /\ from_device'[i] = from_device[i + 1]
        /\ from_device' \in Seq(Ik!Line)
    BY <1>1, TailIndex DEF Lines, HandshakeInv, Ik!TypeOK
  <1>3. Ik!TypeOK /\ init_state \in {Ik!WaitOffline, Ik!Done} /\ ~Handshaking
    BY DEF HandshakeInv, Ik!Restarts, Handshaking, Ik!Done, Ik!WaitReset, Ik!WaitRxList, Ik!WaitTxList, Ik!WaitInit, Ik!WaitOffline
  <1>4. ~Asking /\ ~Answered
    BY <1>3, Quiet
  <1>5. ~Answered'
    BY <1>2, <1>4 DEF Answered
  <1>6. init_state' = Ik!WaitReset /\ to_device' = Append(to_device, "reset") /\ resets' = resets + 1
    <2>1. to_device \o <<"reset">> = Append(to_device, "reset") /\ Head(Append(<<"reset">>, "")) = "reset"
      BY <1>3 DEF Ik!TypeOK
    <2>2. QED
      BY <1>1, <2>1 DEF Ik!Advance, Ik!SendReset
  <1>7. Awaited' = "reset"
    BY <1>6 DEF Awaited, Ik!WaitReset, Ik!WaitRxList, Ik!WaitTxList, Ik!WaitInit
  <1>8. OneQuestion' /\ OneAnswer' /\ to_device' \in Seq(Ik!Command) /\ ~(init_state = Ik!Done)' /\ Handshaking'
    BY <1>1, <1>4, <1>5, <1>6, <1>7, Questioned
  <1>9. BannersAreReboots'
    <2>1. resets \in Nat /\ Starts \in Nat /\ reboots \in Nat /\ (init_state = Ik!WaitOffline => Starts = 0)
      BY DEF HandshakeInv, BannersAreReboots, Starts
    <2>2. init_state = Ik!Done => Starts <= reboots
      <3>1. PICK f \in [Lines -> Nat] : \A i \in Lines : Late(i) => f[i] \in Starts .. reboots
        BY DEF HandshakeInv, BannersAreReboots
      <3>2. init_state = Ik!Done => f[1] \in Starts .. reboots
        BY <1>2, <3>1 DEF Late
      <3>3. QED
        BY <2>1, <3>2
    <2>3. Starts <= reboots
      BY <1>3, <2>1, <2>2
    <2>0. Starts' = Starts + 1
      BY <1>1, <1>6, <2>1 DEF Starts
    <2>4. resets' \in Nat /\ reboots' \in Nat /\ Starts' <= 1 + reboots'
      BY <1>1, <1>6, <2>0, <2>1, <2>3
    <2>5. \A i \in Lines' : ~Late(i)'
      BY <1>5, <1>8 DEF Late, Answered
    <2>6. init_state' # Ik!WaitOffline
      BY <1>6 DEF Ik!WaitReset, Ik!WaitOffline
    <2>7. QED
      BY <2>4, <2>5, <2>6, NoBanners
  <1>10. Ik!TypeOK'
    BY <1>1, <1>2, <1>3, <1>6, <1>8, <1>9 DEF Ik!TypeOK, BannersAreReboots
  <1>11. ListsFollow'
    <2>1. /\ init_state' # Ik!Done /\ init_state' # Ik!WaitRxList /\ init_state' # Ik!WaitTxList /\ init_state' # Ik!WaitInit
      BY <1>6 DEF Ik!Done, Ik!WaitReset, Ik!WaitRxList, Ik!WaitTxList, Ik!WaitInit
    <2>2. QED
      BY <1>5, <2>1 DEF ListsFollow, Over
  <1>12. QED
    BY <1>8, <1>9, <1>10, <1>11 DEF HandshakeInv

\* A line that is no answer, while one to OFFLINE is awaited: OFFLINE again.
LEMMA OfflineAgain ==
    ASSUME HandshakeInv, Ik!HostReads, Head(from_device) = "status", init_state = Ik!WaitOffline
    PROVE  HandshakeInv'
  <1>1. /\ from_device # <<>> /\ from_device' = Tail(from_device) /\ to_device' = Append(to_device, "offline")
        /\ UNCHANGED <<config, init_state, resets, busy, device, reboots>>
    BY DEF Ik!HostReads, Ik!gadget, Ik!OnStatus
  <1>2. excuse' \in BOOLEAN
    BY DEF Ik!HostReads
  <1>3. ~Handshaking /\ init_state # Ik!Done /\ Ik!TypeOK
    BY DEF HandshakeInv, Handshaking, Ik!Done, Ik!WaitReset, Ik!WaitRxList, Ik!WaitTxList, Ik!WaitInit, Ik!WaitOffline
  <1>4. ~Asking /\ ~Answered
    BY <1>3, Quiet
  <1>5. /\ to_device' \in Seq(Ik!Command)
        /\ \A i \in Commands' : to_device'[i] = "offline" \/ (i \in Commands /\ to_device'[i] = to_device[i])
    BY <1>1, <1>3, CommandAppended DEF Ik!Command
  <1>6. ~Asking' /\ \A i \in Commands' : to_device'[i] \notin Questions
    BY <1>1, <1>4, <1>5 DEF Asking, Questions
  <1>7. (Answered' => Answered) /\ OneAnswer' /\ BannersAreReboots' /\ ListsFollow'
    BY <1>1, <1>3, <1>4, <1>6, FrontTaken
  <1>8. Ik!TypeOK'
    BY <1>1, <1>2, <1>3, <1>5, TailIndex DEF Ik!TypeOK
  <1>9. OneQuestion'
    BY <1>1, <1>3, <1>4, <1>6, <1>7 DEF OneQuestion, Asking, Handshaking
  <1>10. QED
    BY <1>7, <1>8, <1>9 DEF HandshakeInv

LEMMA HostReadsKeeps == ASSUME Configs \subseteq Ik!Config, HandshakeInv, Ik!HostReads
                        PROVE  HandshakeInv'
  <1>1. from_device # <<>> /\ Head(from_device) \in Ik!Line
    BY DEF Ik!HostReads, HandshakeInv, Ik!TypeOK
  <1>2. ASSUME ~(Head(from_device) = "text" /\ Ik!Restarts), Head(from_device) # "ack",
               ~(Head(from_device) = "status" /\ init_state = Ik!WaitOffline)
        PROVE  HandshakeInv'
    <2>1. UNCHANGED <<init_state, to_device, resets>>
      BY <1>1, <1>2 DEF Ik!HostReads, Ik!Line, Ik!OnText, Ik!OnStatus, Ik!Stay
    <2>2. Head(from_device) = "text" => init_state # Ik!Done
      BY <1>2 DEF Ik!Restarts
    <2>3. /\ from_device' = Tail(from_device) /\ excuse' \in BOOLEAN
          /\ UNCHANGED <<config, resets, reboots, busy, device>>
      BY <2>1 DEF Ik!HostReads, Ik!gadget
    <2>4. QED
      BY <1>1, <2>1, <2>2, <2>3, FrontIgnored
  <1>3. QED
    BY <1>2, AckRead, BannerRead, OfflineAgain

-----------------------------------------------------------------------------
LEMMA HandshakeInit == ASSUME Configs \subseteq Ik!Config, Ik!Init
                  PROVE  HandshakeInv
  <1> USE DEF Ik!Done, Ik!WaitInit, Ik!WaitTxList, Ik!WaitRxList, Ik!WaitReset, Ik!WaitOffline
  <1>1. /\ to_device = IF config.skip_init THEN <<>> ELSE <<"offline">>
        /\ init_state = IF config.skip_init THEN Ik!Done ELSE Ik!WaitOffline
        /\ from_device = <<>> /\ busy = "none" /\ resets = 0 /\ reboots = 0
    BY DEF Ik!Init
  <1>2. Ik!TypeOK
    <2>1. <<"offline">> \in Seq(Ik!Command) /\ <<>> \in Seq(Ik!Line) /\ <<>> \in Seq(Ik!Command)
      BY DEF Ik!Command
    <2>2. QED
      BY <2>1 DEF Ik!Init, Ik!TypeOK, Ik!Command
  <1>3. Lines = {} /\ \A i \in Commands : to_device[i] = "offline" /\ ~config.skip_init
    <2>1. CASE config.skip_init
      BY <1>1, <2>1 DEF Lines, Commands
    <2>2. CASE ~config.skip_init
      BY <1>1, <2>2 DEF Lines, Commands
    <2>3. QED
      BY <2>1, <2>2
  <1>4. ~Asking /\ ~Answered /\ ~Handshaking /\ ~Over
    BY <1>1, <1>3 DEF Asking, Answered, Handshaking, Questions, Over, Ik!Begun
  <1>5. OneQuestion /\ OneAnswer /\ ListsFollow
    <2>1. OneQuestion
      BY <1>1, <1>3, <1>4 DEF OneQuestion, Questions
    <2>2. OneAnswer
      BY <1>3, <1>4 DEF OneAnswer
    <2>3. ListsFollow
      BY <1>4 DEF ListsFollow
    <2>4. QED
      BY <2>1, <2>2, <2>3
  <1>6. BannersAreReboots
    <2> DEFINE g == [i \in Lines |-> 0]
    <2>1. g \in [Lines -> Nat] /\ \A i \in Lines : ~Late(i)
      BY <1>3
    <2>2. resets \in Nat /\ reboots \in Nat /\ Starts <= 1 + reboots /\ (init_state = Ik!WaitOffline => Starts = 0)
      <3>1. CASE config.skip_init
        BY <1>1, <3>1 DEF Starts
      <3>2. CASE ~config.skip_init
        BY <1>1, <3>2 DEF Starts
      <3>3. QED
        BY <3>1, <3>2
    <2>3. QED
      BY <2>1, <2>2 DEF BannersAreReboots
  <1>7. QED
    BY <1>2, <1>5, <1>6 DEF HandshakeInv

LEMMA HandshakeStep == ASSUME Configs \subseteq Ik!Config, HandshakeInv, Ik!Next
                  PROVE  HandshakeInv'
  <1>1. CASE Ik!HostReads
    BY <1>1, HostReadsKeeps
  <1>2. CASE Ik!Deliver
    BY <1>2, CommandTaken DEF Ik!Deliver, Ik!host, Ik!counters, HandshakeInv, Ik!TypeOK
  <1>3. CASE Ik!Answer
    BY <1>3, AnswerKeeps
  <1>4. CASE Ik!Refuse
    BY <1>4, Remarked DEF Ik!Refuse, Ik!host
  <1>5. CASE Ik!Heartbeat
    BY <1>5, Remarked DEF Ik!Heartbeat, Ik!host, Ik!gadget, HandshakeInv, Ik!TypeOK
  <1>6. CASE Ik!Reboot
    BY <1>6, RebootKeeps
  <1>7. CASE Ik!LoseLine
    <2>1. excuse' \in BOOLEAN /\ UNCHANGED <<config, init_state, resets, reboots, busy, device>>
      BY <1>7 DEF Ik!LoseLine, Ik!host, Ik!gadget
    <2>2. CASE from_device # <<>> /\ Head(from_device) # "text" /\ from_device' = Tail(from_device) /\ UNCHANGED to_device
      BY <2>1, <2>2, FrontIgnored
    <2>3. CASE to_device # <<>> /\ to_device' = Tail(to_device) /\ UNCHANGED from_device
      BY <2>1, <2>3, CommandTaken
    <2>4. QED
      BY <1>7, <2>2, <2>3 DEF Ik!LoseLine
  <1>8. QED
    BY <1>1, <1>2, <1>3, <1>4, <1>5, <1>6, <1>7 DEF Ik!Next

LEMMA Sound == ASSUME Configs \subseteq Ik!Config, HandshakeInv
               PROVE  Ik!DoneMeansOnline /\ Ik!ReinitOnlyAfterReboot
  <1>1. Ik!DoneMeansOnline
    <2> SUFFICES ASSUME init_state = Ik!Done, Ik!Begun, \A i \in DOMAIN from_device : from_device[i] # "text"
                 PROVE  device = [mode |-> Ik!Mode, rx_list |-> config.rx_list, tx_list |-> config.tx_list]
      BY DEF Ik!DoneMeansOnline
    <2>1. NoneLate
      BY DEF NoneLate, Late, Lines
    <2>2. device.mode = Ik!Mode /\ device.rx_list = config.rx_list /\ device.tx_list = config.tx_list
      BY <2>1 DEF HandshakeInv, ListsFollow, Lists, Over
    <2>3. device \in [mode : {"offline", "all", "normal"}, rx_list : BOOLEAN, tx_list : BOOLEAN]
      BY DEF HandshakeInv, Ik!TypeOK
    <2>4. QED
      BY <2>2, <2>3
  <1>2. Ik!ReinitOnlyAfterReboot
    <2>1. resets \in Nat /\ reboots \in Nat /\ Starts <= 1 + reboots
      BY DEF HandshakeInv, BannersAreReboots
    <2>2. CASE config.skip_init
      BY <2>1, <2>2 DEF Ik!ReinitOnlyAfterReboot, Starts
    <2>3. CASE ~config.skip_init
      BY <2>1, <2>3 DEF Ik!ReinitOnlyAfterReboot, Starts
    <2>4. QED
      BY <2>2, <2>3
  <1>3. QED
    BY <1>1, <1>2

LEMMA HandshakeStutter == ASSUME HandshakeInv, UNCHANGED Ik!vars
                          PROVE  HandshakeInv'
  <1>1. UNCHANGED <<config, init_state, resets, to_device, from_device, busy, device, reboots, excuse>>
    BY DEF Ik!vars, Ik!host, Ik!line, Ik!gadget, Ik!counters
  <1>2. /\ Lines' = Lines /\ Commands' = Commands /\ Awaited' = Awaited /\ Handshaking' = Handshaking
        /\ Ik!Mode' = Ik!Mode /\ \A i : Late(i)' = Late(i)
        /\ Over' = Over /\ Starts' = Starts
    BY <1>1 DEF Lines, Commands, Awaited, Handshaking, Ik!SendInit, Ik!Mode, Late, Over, Ik!Begun, Starts
  <1>3. Asking' = Asking /\ Answered' = Answered /\ NoneLate' = NoneLate
    BY <1>1, <1>2 DEF Asking, Answered, NoneLate
  <1>4. Ik!TypeOK'
    BY <1>1 DEF HandshakeInv, Ik!TypeOK
  <1>5. OneQuestion' /\ OneAnswer'
    BY <1>1, <1>2, <1>3 DEF HandshakeInv, OneQuestion, OneAnswer
  <1>6. BannersAreReboots'
    BY <1>1, <1>2 DEF HandshakeInv, BannersAreReboots
  <1>7. ListsFollow'
    BY <1>1, <1>2, <1>3 DEF HandshakeInv, ListsFollow, Lists
  <1>8. QED
    BY <1>4, <1>5, <1>6, <1>7 DEF HandshakeInv

-----------------------------------------------------------------------------
(* Recursive functions on the first numbers: that there is one that goes   *)
(* on as its definition says, and no other.                                *)

\* Functions on the first numbers: g says how f goes on, or f and h go on alike.
Course(N, S) == [0 .. N -> S]
Strides(N, S) == [1 .. N -> [S -> S]]
GoesOn(f, s0, N, g) == f[0] = s0 /\ \A n \in 1 .. N : f[n] = g[n][f[n - 1]]
GoAlike(f, h, N) == \A n \in 1 .. N : f[n - 1] = h[n - 1] => f[n] = h[n]

\* What starts with s0 and goes on as g says exists.
LEMMA Recursion ==
    ASSUME NEW S, NEW s0 \in S, NEW N \in Nat, NEW g \in Strides(N, S)
    PROVE  \E f \in Course(N, S) : GoesOn(f, s0, N, g)
  <1> DEFINE Fits(m, f) == f[0] = s0 /\ \A n \in 1 .. m : f[n] = g[n][f[n - 1]]
             Bad == {m \in 0 .. N : ~ \E f \in [0 .. m -> S] : Fits(m, f)}
  <1>1. SUFFICES ASSUME Bad # {}
                 PROVE  FALSE
    <2>1. N \in 0 .. N
      OBVIOUS
    <2>2. CASE Bad # {}
      BY <2>2
    <2>3. CASE Bad = {}
      <3>1. \E f \in [0 .. N -> S] : Fits(N, f)
        BY <2>1, <2>3
      <3>2. QED
        BY <3>1 DEF Course, GoesOn
    <2>4. QED
      BY <2>2, <2>3
  <1>2. PICK b \in Bad : \A m \in Bad : b <= m
    <2>1. Bad \subseteq Nat
      OBVIOUS
    <2>2. QED
      BY <1>1, <2>1, LeastNumber
  <1>3. b \in 0 .. N /\ ~ \E f \in [0 .. b -> S] : Fits(b, f)
    BY <1>2
  <1>4. CASE b = 0
    <2>1. [n \in 0 .. 0 |-> s0] \in [0 .. 0 -> S] /\ Fits(0, [n \in 0 .. 0 |-> s0])
      OBVIOUS
    <2> HIDE DEF Fits
    <2>2. QED
      BY <1>3, <1>4, <2>1, Zenon
  <1>5. CASE b # 0
    <2>1. b - 1 \in 0 .. N /\ b - 1 \notin Bad /\ b \in 1 .. N
      <3>1. b \in 0 .. N
        BY <1>3
      <3> HIDE DEF Bad
      <3>2. ~(b <= b - 1)
        BY <3>1
      <3>3. QED
        BY <1>2, <1>5, <3>1, <3>2
    <2>2. PICK f \in [0 .. b - 1 -> S] : Fits(b - 1, f)
      BY <2>1
    <2>3. f[b - 1] \in S /\ g[b] \in [S -> S]
      BY <2>1 DEF Strides
    <2> DEFINE h == [n \in 0 .. b |-> IF n = b THEN g[b][f[b - 1]] ELSE f[n]]
    <2>4. h \in [0 .. b -> S]
      BY <2>1, <2>3
    <2>5. ASSUME NEW n \in 1 .. b
          PROVE  h[n] = g[n][h[n - 1]]
      <3>1. CASE n = b
        <4>1. h[n] = g[b][f[b - 1]] /\ h[b - 1] = f[b - 1]
          BY <2>1, <3>1
        <4>2. QED
          BY <3>1, <4>1
      <3>2. CASE n # b
        <4>1. h[n] = f[n] /\ n \in 1 .. b - 1
          BY <2>1, <3>2
        <4>2. f[n] = g[n][f[n - 1]]
          BY <2>2, <4>1
        <4>3. h[n - 1] = f[n - 1]
          BY <2>1, <4>1
        <4>4. QED
          BY <4>1, <4>2, <4>3
      <3>3. QED
        BY <3>1, <3>2
    <2>6. h[0] = s0
      BY <1>5, <2>1, <2>2
    <2>7. QED
      <3> HIDE DEF h
      <3>1. Fits(b, h)
        BY <2>5, <2>6
      <3> HIDE DEF Fits
      <3>2. QED
        BY <1>3, <2>4, <3>1, Zenon
  <1>6. QED
    BY <1>4, <1>5

\* Two functions that start alike and go on alike are alike.
LEMMA GoOnAlike ==
    ASSUME NEW N \in Nat, NEW f, NEW h, f[0] = h[0], GoAlike(f, h, N)
    PROVE  \A n \in 0 .. N : f[n] = h[n]
  <1> DEFINE Bad == {n \in 0 .. N : f[n] # h[n]}
  <1>1. SUFFICES ASSUME Bad # {}
                 PROVE  FALSE
    OBVIOUS
  <1>2. PICK b \in Bad : \A n \in Bad : b <= n
    <2>1. Bad \subseteq Nat
      OBVIOUS
    <2>2. QED
      BY <1>1, <2>1, LeastNumber
  <1>3. b \in 1 .. N /\ f[b] # h[b]
    BY <1>2
  <1>4. b - 1 \in 0 .. N /\ b - 1 \notin Bad
    BY <1>2, <1>3
  <1>5. f[b - 1] = h[b - 1]
    BY <1>4
  <1>6. QED
    BY <1>3, <1>5 DEF GoAlike

\* The pieces from each one on, joined.
Pieces(N, B) == [1 .. N -> Seq(B)]
Rests(N, B) == [1 .. N + 1 -> Seq(B)]
Joins(f, P, N) == f[N + 1] = <<>> /\ \A k \in 1 .. N : f[k] = P[k] \o f[k + 1]

LEMMA JoinsExist ==
    ASSUME NEW B, NEW N \in Nat, NEW P \in Pieces(N, B)
    PROVE  \E f \in Rests(N, B) : Joins(f, P, N)
  <1> DEFINE G == [n \in 1 .. N |-> [x \in Seq(B) |-> P[N + 1 - n] \o x]]
  <1>1. <<>> \in Seq(B)
    OBVIOUS
  <1>2. G \in Strides(N, Seq(B))
    <2>1. ASSUME NEW n \in 1 .. N, NEW x \in Seq(B)
          PROVE  P[N + 1 - n] \o x \in Seq(B)
      <3>1. N + 1 - n \in 1 .. N
        OBVIOUS
      <3>2. P[N + 1 - n] \in Seq(B)
        BY <3>1 DEF Pieces
      <3>3. QED
        BY <3>2, ConcatProperties
    <2>2. QED
      BY <2>1, Zenon DEF Strides
  <1> HIDE DEF G
  <1>3. PICK g \in [0 .. N -> Seq(B)] : g[0] = <<>> /\ \A n \in 1 .. N : g[n] = G[n][g[n - 1]]
    <2>1. \E g \in Course(N, Seq(B)) : GoesOn(g, <<>>, N, G)
      BY <1>1, <1>2, Recursion
    <2>2. QED
      BY <2>1, Zenon DEF Course, GoesOn
  <1>4. ASSUME NEW n \in 1 .. N
        PROVE  g[n] = P[N + 1 - n] \o g[n - 1]
    <2>1. n - 1 \in 0 .. N
      OBVIOUS
    <2>2. g[n - 1] \in Seq(B)
      BY <1>3, <2>1
    <2>3. G[n][g[n - 1]] = P[N + 1 - n] \o g[n - 1]
      BY <2>2 DEF G
    <2>4. QED
      BY <1>3, <2>3
  <1> DEFINE f == [k \in 1 .. N + 1 |-> g[N + 1 - k]]
  <1>5. f \in Rests(N, B)
    <2>1. \A k \in 1 .. N + 1 : N + 1 - k \in 0 .. N
      OBVIOUS
    <2>2. \A k \in 1 .. N + 1 : g[N + 1 - k] \in Seq(B)
      BY <1>3, <2>1
    <2>3. QED
      BY <2>2, Zenon DEF Rests
  <1>6. f[N + 1] = <<>>
    <2>1. N + 1 \in 1 .. N + 1 /\ N + 1 - (N + 1) = 0
      OBVIOUS
    <2>2. QED
      BY <1>3, <2>1
  <1>7. ASSUME NEW k \in 1 .. N
        PROVE  f[k] = P[k] \o f[k + 1]
    <2>1. /\ N + 1 - k \in 1 .. N /\ N + 1 - (N + 1 - k) = k /\ k + 1 \in 1 .. N + 1 /\ k \in 1 .. N + 1
          /\ N + 1 - (k + 1) = (N + 1 - k) - 1
      OBVIOUS
    <2>2. f[k] = g[N + 1 - k] /\ f[k + 1] = g[(N + 1 - k) - 1]
      BY <2>1
    <2>3. QED
      BY <1>4, <2>1, <2>2
  <1> HIDE DEF f
  <1>8. QED
    BY <1>5, <1>6, <1>7 DEF Joins

LEMMA JoinsAlike ==
    ASSUME NEW N \in Nat, NEW P, NEW f, NEW h, Joins(f, P, N), Joins(h, P, N)
    PROVE  \A k \in 1 .. N + 1 : f[k] = h[k]
  <1> DEFINE back(r) == [n \in 0 .. N |-> r[N + 1 - n]]
             q == back(f)
             r == back(h)
  <1>1. q[0] = r[0]
    BY DEF Joins
  <1>2. ASSUME NEW m \in 1 .. N, q[m - 1] = r[m - 1]
        PROVE  q[m] = r[m]
    <2>1. /\ N + 1 - m \in 1 .. N /\ (N + 1 - m) + 1 = N + 1 - (m - 1) /\ m - 1 \in 0 .. N /\ m \in 0 .. N
      OBVIOUS
    <2>2. /\ f[N + 1 - m] = P[N + 1 - m] \o f[N + 1 - (m - 1)]
          /\ h[N + 1 - m] = P[N + 1 - m] \o h[N + 1 - (m - 1)]
      BY <2>1 DEF Joins
    <2>3. /\ q[m] = f[N + 1 - m] /\ q[m - 1] = f[N + 1 - (m - 1)]
          /\ r[m] = h[N + 1 - m] /\ r[m - 1] = h[N + 1 - (m - 1)]
      BY <2>1
    <2>4. QED
      BY <1>2, <2>2, <2>3
  <1>3. \A n \in 0 .. N : q[n] = r[n]
    <2> HIDE DEF q, r
    <2>1. GoAlike(q, r, N)
      BY <1>2 DEF GoAlike
    <2>2. QED
      BY <1>1, <2>1, GoOnAlike
  <1>4. ASSUME NEW k \in 1 .. N + 1
        PROVE  f[k] = h[k]
    <2>1. N + 1 - k \in 0 .. N /\ N + 1 - (N + 1 - k) = k
      OBVIOUS
    <2>2. q[N + 1 - k] = f[k] /\ r[N + 1 - k] = h[k]
      BY <2>1
    <2>3. QED
      BY <1>3, <2>1, <2>2
  <1>5. QED
    BY <1>4

-----------------------------------------------------------------------------
(* The Actisense framing.                                                  *)

\* What can be sent: a payload's length fits its byte, a timestamp has at most
\* the 8 bytes the decoder keeps.
SendMessages == {m \in [kind : {"message"}, command : Ng!Byte, payload : Seq(Ng!Byte)] : Len(m.payload) <= 255}
SendHeaders == {h \in [kind : {"header"}, command : Ng!Byte, payload : Seq(Ng!Byte)] :
                    h.command = Ng!Timestamp => Len(h.payload) <= 8}
Sendable == /\ NgtPlain \in Seq(SendMessages) /\ Logged \in Seq(SendMessages \union SendHeaders)
            /\ Noise \subseteq Ng!Byte /\ MaxDamage \in Nat

\* What is left of a number is a byte.
LEMMA ByteLeft ==
    ASSUME NEW n \in Nat
    PROVE  n % 256 \in Ng!Byte
  BY DEF Ng!Byte

LEMMA SmallIsByte ==
    ASSUME NEW n \in Nat, n <= 255
    PROVE  n \in Ng!Byte
  BY DEF Ng!Byte

LEMMA ByteSum ==
    ASSUME NEW x \in Ng!Byte, NEW y \in Ng!Byte
    PROVE  (x + y) % 256 \in Ng!Byte
  <1>1. x + y \in Nat
    BY DEF Ng!Byte
  <1>2. QED
    BY <1>1, ByteLeft

\* The sums of the first bytes, one byte at a time.
LEMMA SumsGoOn ==
    ASSUME NEW s \in Seq(Ng!Byte)
    PROVE  /\ Ng!Sums(s) \in [0 .. Len(s) -> Ng!Byte] /\ Ng!Sums(s)[0] = 0
           /\ \A n \in 1 .. Len(s) : Ng!Sums(s)[n] = (Ng!Sums(s)[n - 1] + s[n]) % 256
  <1> DEFINE N == Len(s)
             G == [n \in 1 .. N |-> [x \in Ng!Byte |-> (x + s[n]) % 256]]
             Fits(f) == f = [n \in 0 .. N |-> IF n = 0 THEN 0 ELSE (f[n - 1] + s[n]) % 256]
  <1>1. N \in Nat /\ 0 \in Ng!Byte /\ \A n \in 1 .. N : s[n] \in Ng!Byte
    <2>1. N \in Nat
      OBVIOUS
    <2>2. 0 \in Ng!Byte
      BY DEF Ng!Byte
    <2>3. \A n \in 1 .. N : s[n] \in Ng!Byte
      OBVIOUS
    <2>4. QED
      BY <2>1, <2>2, <2>3
  <1>2. G \in Strides(N, Ng!Byte)
    <2>1. ASSUME NEW n \in 1 .. N, NEW x \in Ng!Byte
          PROVE  (x + s[n]) % 256 \in Ng!Byte
      <3>1. s[n] \in Ng!Byte
        BY <1>1
      <3>2. QED
        BY <3>1, ByteSum
    <2>2. QED
      BY <2>1, Zenon DEF Strides
  <1> HIDE DEF N, G
  <1>3. PICK f \in [0 .. N -> Ng!Byte] : f[0] = 0 /\ \A n \in 1 .. N : f[n] = G[n][f[n - 1]]
    <2>1. \E f \in Course(N, Ng!Byte) : GoesOn(f, 0, N, G)
      BY <1>1, <1>2, Recursion
    <2>2. QED
      BY <2>1, Zenon DEF Course, GoesOn
  <1>4. ASSUME NEW n \in 1 .. N
        PROVE  f[n] = (f[n - 1] + s[n]) % 256
    <2>1. n - 1 \in 0 .. N
      BY <1>1
    <2>2. f[n - 1] \in Ng!Byte
      BY <1>3, <2>1
    <2>3. G[n][f[n - 1]] = (f[n - 1] + s[n]) % 256
      BY <2>2 DEF G
    <2>4. QED
      BY <1>3, <2>3
  <1>5. Fits(f)
    <2>1. ASSUME NEW n \in 0 .. N
          PROVE  f[n] = IF n = 0 THEN 0 ELSE (f[n - 1] + s[n]) % 256
      <3>1. n # 0 => n \in 1 .. N
        BY <1>1
      <3>2. QED
        BY <1>3, <1>4, <3>1
    <2>2. f = [n \in 0 .. N |-> f[n]]
      BY <1>3
    <2>3. QED
      BY <2>1, <2>2
  <1>6. Fits(Ng!Sums(s))
    <2>1. Fits(CHOOSE h : Fits(h))
      <3> HIDE DEF Fits
      <3>1. QED
        BY <1>5, Zenon
    <2>2. Ng!Sums(s) = CHOOSE h : Fits(h)
      BY Zenon DEF Ng!Sums, N
    <2>3. QED
      <3> HIDE DEF Fits
      <3>1. QED
        BY <2>1, <2>2, Zenon
  <1> DEFINE h == Ng!Sums(s)
  <1>7. h = [n \in 0 .. N |-> IF n = 0 THEN 0 ELSE (h[n - 1] + s[n]) % 256]
    BY <1>6
  <1> HIDE DEF h
  <1>8. h[0] = 0 /\ \A n \in 1 .. N : h[n] = (h[n - 1] + s[n]) % 256
    <2>1. ASSUME NEW n \in 0 .. N
          PROVE  h[n] = IF n = 0 THEN 0 ELSE (h[n - 1] + s[n]) % 256
      BY <1>7, Zenon
    <2>2. QED
      BY <1>1, <2>1
  <1>9. \A n \in 0 .. N : h[n] = f[n]
    <2>1. h[0] = f[0]
      BY <1>3, <1>8
    <2>2. GoAlike(h, f, N)
      BY <1>4, <1>8 DEF GoAlike
    <2>3. N \in Nat
      BY <1>1
    <2> HIDE DEF Fits
    <2>4. QED
      BY <2>1, <2>2, <2>3, GoOnAlike
  <1>10. h \in [0 .. N -> Ng!Byte]
    <2>1. h = [n \in 0 .. N |-> h[n]]
      BY <1>7, Zenon
    <2>2. QED
      BY <1>9, <2>1
  <1>11. QED
    BY <1>8, <1>10 DEF h, N

LEMMA SumOfAppend ==
    ASSUME NEW s \in Seq(Ng!Byte), NEW x \in Ng!Byte
    PROVE  Ng!Sum(Append(s, x)) = (Ng!Sum(s) + x) % 256
  <1> DEFINE t == Append(s, x)
             f == Ng!Sums(t)
             h == Ng!Sums(s)
  <1>1. /\ t \in Seq(Ng!Byte) /\ Len(t) = Len(s) + 1 /\ t[Len(s) + 1] = x /\ Len(s) \in Nat
        /\ \A n \in 1 .. Len(s) : t[n] = s[n]
    OBVIOUS
  <1> HIDE DEF t
  <1>2. f[0] = 0 /\ \A n \in 1 .. Len(t) : f[n] = (f[n - 1] + t[n]) % 256
    BY <1>1, SumsGoOn
  <1>3. h[0] = 0 /\ \A n \in 1 .. Len(s) : h[n] = (h[n - 1] + s[n]) % 256
    BY SumsGoOn
  <1> HIDE DEF f, h
  <1>4. GoAlike(f, h, Len(s))
    <2>1. \A n \in 1 .. Len(s) : n \in 1 .. Len(t) /\ t[n] = s[n]
      BY <1>1
    <2>2. QED
      BY <1>2, <1>3, <2>1 DEF GoAlike
  <1>5. f[Len(s)] = h[Len(s)]
    <2>1. f[0] = h[0] /\ Len(s) \in 0 .. Len(s)
      BY <1>1, <1>2, <1>3
    <2>2. QED
      BY <1>1, <1>4, <2>1, GoOnAlike
  <1>6. Len(s) + 1 \in 1 .. Len(t) /\ (Len(s) + 1) - 1 = Len(s)
    BY <1>1
  <1>7. f[Len(t)] = (h[Len(s)] + x) % 256
    BY <1>1, <1>2, <1>5, <1>6
  <1>8. QED
    BY <1>7 DEF Ng!Sum, f, h, t

LEMMA SumIsByte ==
    ASSUME NEW s \in Seq(Ng!Byte)
    PROVE  Ng!Sum(s) \in Ng!Byte
  <1>1. Len(s) \in 0 .. Len(s)
    OBVIOUS
  <1>2. QED
    BY <1>1, SumsGoOn DEF Ng!Sum

\* What is sent of a message sums to 0, and says what it holds.
LEMMA SumsToZero ==
    ASSUME NEW m \in SendMessages
    PROVE  LET raw == Ng!Summed(m) IN
           /\ raw \in Seq(Ng!Byte) /\ Ng!Sum(raw) = 0 /\ Len(raw) = Len(m.payload) + 3
           /\ raw[1] = m.command /\ raw[2] = Len(m.payload) /\ SubSeq(raw, 3, Len(raw) - 1) = m.payload
  <1> DEFINE body == Ng!Body(m)
             head == <<m.command, Len(m.payload)>>
             left == (256 - Ng!Sum(body)) % 256
             raw == Append(body, left)
             p == m.payload
  <1>1. m.command \in Ng!Byte /\ p \in Seq(Ng!Byte) /\ Len(p) \in Ng!Byte /\ Len(p) \in Nat
    <2>1. m.command \in Ng!Byte /\ p \in Seq(Ng!Byte) /\ Len(p) <= 255
      BY DEF SendMessages
    <2> HIDE DEF p
    <2>2. Len(p) \in Nat
      BY <2>1
    <2>3. Len(p) \in Ng!Byte
      BY <2>1, <2>2, SmallIsByte
    <2>4. QED
      BY <2>1, <2>2, <2>3
  <1>2. head \in Seq(Ng!Byte) /\ Len(head) = 2 /\ head[1] = m.command /\ head[2] = Len(p)
    BY <1>1
  <1> HIDE DEF head, p
  <1>3. body = head \o p
    BY DEF Ng!Body, head, p
  <1> HIDE DEF body
  <1>4. /\ body \in Seq(Ng!Byte) /\ Len(body) = Len(p) + 2 /\ body[1] = m.command /\ body[2] = Len(p)
        /\ \A i \in 1 .. Len(p) : body[i + 2] = p[i]
    <2>1. /\ body \in Seq(Ng!Byte) /\ Len(body) = 2 + Len(p)
          /\ \A i \in 1 .. 2 + Len(p) : body[i] = IF i <= 2 THEN head[i] ELSE p[i - 2]
      <3>1. head \in Seq(Ng!Byte) /\ p \in Seq(Ng!Byte) /\ Len(head) = 2
        BY <1>1, <1>2
      <3>2. /\ head \o p \in Seq(Ng!Byte) /\ Len(head \o p) = Len(head) + Len(p)
            /\ \A i \in 1 .. Len(head) + Len(p) : (head \o p)[i] = IF i <= Len(head) THEN head[i] ELSE p[i - Len(head)]
        BY <3>1, ConcatProperties, Zenon
      <3>3. QED
        BY <1>3, <3>1, <3>2, Zenon
    <2>2. body[1] = head[1] /\ body[2] = head[2]
      BY <1>1, <2>1
    <2>3. ASSUME NEW i \in 1 .. Len(p)
          PROVE  body[i + 2] = p[i]
      <3>1. i + 2 \in 1 .. 2 + Len(p) /\ ~(i + 2 <= 2) /\ (i + 2) - 2 = i
        BY <1>1
      <3>2. QED
        BY <2>1, <3>1
    <2>4. QED
      BY <1>1, <1>2, <2>1, <2>2, <2>3
  <1>5. Ng!Sum(body) \in Ng!Byte
    BY <1>4, SumIsByte
  <1>6. left \in Ng!Byte /\ (Ng!Sum(body) + left) % 256 = 0
    BY <1>5 DEF Ng!Byte
  <1> HIDE DEF left
  <1>7. /\ raw \in Seq(Ng!Byte) /\ Len(raw) = Len(p) + 3 /\ \A i \in 1 .. Len(body) : raw[i] = body[i]
    BY <1>4, <1>6
  <1>8. Ng!Sum(raw) = 0
    BY <1>4, <1>6, SumOfAppend
  <1>9. raw = Ng!Summed(m)
    BY DEF Ng!Summed, body, left
  <1> HIDE DEF raw
  <1>10. raw[1] = m.command /\ raw[2] = Len(p)
    BY <1>1, <1>4, <1>7
  <1>11. SubSeq(raw, 3, Len(raw) - 1) = p
    <2> DEFINE cut == SubSeq(raw, 3, Len(raw) - 1)
    <2>1. cut \in Seq(Ng!Byte) /\ Len(cut) = Len(p) /\ \A i \in 1 .. Len(p) : cut[i] = raw[i + 2]
      BY <1>1, <1>7
    <2>2. \A i \in 1 .. Len(p) : raw[i + 2] = p[i]
      BY <1>1, <1>4, <1>7
    <2> HIDE DEF cut
    <2>3. \A i \in 1 .. Len(cut) : cut[i] = p[i]
      BY <2>1, <2>2
    <2>4. p \in Seq(Ng!Byte)
      BY <1>1
    <2>5. cut = p
      BY <2>1, <2>3, <2>4, SeqEqual
    <2>6. QED
      BY <2>5 DEF cut
  <1>12. QED
    BY <1>7, <1>8, <1>9, <1>10, <1>11 DEF p

\* The escapes doubled of the bytes from one on: those of the byte, and of the rest.
LEMMA StuffingGoesOn ==
    ASSUME NEW s \in Seq(Ng!Byte), NEW E
    PROVE  /\ Ng!StuffedFrom(s, E) \in [1 .. Len(s) + 1 -> Seq(Ng!Byte)]
           /\ Ng!StuffedFrom(s, E)[Len(s) + 1] = <<>>
           /\ \A k \in 1 .. Len(s) :
                Ng!StuffedFrom(s, E)[k] = Ng!Pushed(s[k], E) \o Ng!StuffedFrom(s, E)[k + 1]
  <1> DEFINE N == Len(s)
             B == Ng!Byte
             P == [k \in 1 .. N |-> Ng!Pushed(s[k], E)]
             Fits(f) == f = [k \in 1 .. N + 1 |->
                                IF k > N THEN <<>> ELSE Ng!Pushed(s[k], E) \o f[k + 1]]
  <1>1. N \in Nat
    OBVIOUS
  <1>2. P \in Pieces(N, B)
    <2>1. ASSUME NEW k \in 1 .. N
          PROVE  Ng!Pushed(s[k], E) \in Seq(B)
      <3>1. s[k] \in Ng!Byte
        OBVIOUS
      <3>2. QED
        BY <3>1 DEF Ng!Pushed
    <2>2. QED
      BY <2>1, Zenon DEF Pieces
  <1> HIDE DEF N, P, B
  <1>3. PICK f \in Rests(N, B) : Joins(f, P, N)
    BY <1>1, <1>2, JoinsExist
  <1>4. \A k \in 1 .. N : P[k] = Ng!Pushed(s[k], E)
    BY DEF P
  <1>5. N + 1 \in 1 .. N + 1 /\ N + 1 > N /\ \A k \in 1 .. N : ~(k > N) /\ k \in 1 .. N + 1
    BY <1>1
  <1>6. Fits(f)
    <2>1. ASSUME NEW k \in 1 .. N + 1
          PROVE  f[k] = IF k > N THEN <<>> ELSE Ng!Pushed(s[k], E) \o f[k + 1]
      <3>1. k > N => k = N + 1
        BY <1>1
      <3>2. ~(k > N) => k \in 1 .. N
        BY <1>1
      <3>3. QED
        BY <1>3, <1>4, <3>1, <3>2 DEF Joins
    <2>2. f = [k \in 1 .. N + 1 |-> f[k]]
      BY <1>3, Zenon DEF Rests
    <2>3. QED
      BY <2>1, <2>2
  <1>7. Fits(Ng!StuffedFrom(s, E))
    <2>1. Fits(CHOOSE h : Fits(h))
      <3> HIDE DEF Fits
      <3>1. QED
        BY <1>6, Zenon
    <2>2. Ng!StuffedFrom(s, E) = CHOOSE h : Fits(h)
      BY Zenon DEF Ng!StuffedFrom, N
    <2>3. QED
      <3> HIDE DEF Fits
      <3>1. QED
        BY <2>1, <2>2, Zenon
  <1> DEFINE h == Ng!StuffedFrom(s, E)
  <1>8. h = [k \in 1 .. N + 1 |-> IF k > N THEN <<>> ELSE Ng!Pushed(s[k], E) \o h[k + 1]]
    BY <1>7
  <1> HIDE DEF h
  <1>9. h[N + 1] = <<>> /\ \A k \in 1 .. N : h[k] = Ng!Pushed(s[k], E) \o h[k + 1]
    <2>1. ASSUME NEW k \in 1 .. N + 1
          PROVE  h[k] = IF k > N THEN <<>> ELSE Ng!Pushed(s[k], E) \o h[k + 1]
      BY <1>8, Zenon
    <2>2. QED
      BY <1>5, <2>1
  <1>10. \A k \in 1 .. N + 1 : h[k] = f[k]
    <2>1. Joins(h, P, N)
      BY <1>4, <1>9 DEF Joins
    <2>2. QED
      BY <1>1, <1>3, <2>1, JoinsAlike
  <1>11. h \in [1 .. N + 1 -> Seq(B)]
    <2>1. h = [k \in 1 .. N + 1 |-> h[k]]
      BY <1>8, Zenon
    <2>2. \A k \in 1 .. N + 1 : f[k] \in Seq(B)
      BY <1>3 DEF Rests
    <2>3. QED
      BY <1>10, <2>1, <2>2
  <1>12. QED
    BY <1>9, <1>11 DEF h, N, B

\* What frames an item: the byte that leads its start and its end, those that
\* follow it, the state in between, the bytes doubled, and the bytes framed.
SendItems == SendMessages \union SendHeaders
Lead(item) == IF item.kind = "header" THEN Ng!ESC ELSE Ng!DLE
Opener(item) == IF item.kind = "header" THEN Ng!SOH ELSE Ng!STX
Closer(item) == IF item.kind = "header" THEN Ng!LF ELSE Ng!ETX
InsideOf(item) == IF item.kind = "header" THEN "InHeader" ELSE "InFrame"
DoubledOf(item, e) == IF item.kind = "header" THEN {Ng!ESC} ELSE IF e THEN {Ng!DLE, Ng!ESC} ELSE {Ng!DLE}
RawOf(item) == IF item.kind = "header" THEN <<item.command>> \o item.payload ELSE Ng!Summed(item)

\* The bytes of an item from its k-th on, to the end of its frame.
LeftFrom(item, e, k) == Ng!StuffedFrom(RawOf(item), DoubledOf(item, e))[k] \o <<Lead(item), Closer(item)>>

LEMMA RawIsBytes ==
    ASSUME NEW item \in SendItems
    PROVE  RawOf(item) \in Seq(Ng!Byte)
  <1>1. CASE item.kind = "header"
    <2>1. item.command \in Ng!Byte /\ item.payload \in Seq(Ng!Byte)
      BY DEF SendItems, SendMessages, SendHeaders
    <2>2. QED
      BY <1>1, <2>1 DEF RawOf
  <1>2. CASE item.kind # "header"
    <2>1. item \in SendMessages
      BY <1>2 DEF SendItems, SendHeaders
    <2>2. QED
      BY <1>2, <2>1, SumsToZero DEF RawOf
  <1>3. QED
    BY <1>1, <1>2

LEMMA LeftIsBytes ==
    ASSUME NEW item \in SendItems, NEW e, NEW k \in 1 .. Len(RawOf(item)) + 1
    PROVE  /\ LeftFrom(item, e, k) \in Seq(Ng!Byte)
           /\ k <= Len(RawOf(item)) =>
                LeftFrom(item, e, k) = Ng!Pushed(RawOf(item)[k], DoubledOf(item, e)) \o LeftFrom(item, e, k + 1)
           /\ k > Len(RawOf(item)) => LeftFrom(item, e, k) = <<Lead(item), Closer(item)>>
  <1> DEFINE raw == RawOf(item)
             D == DoubledOf(item, e)
             end == <<Lead(item), Closer(item)>>
             from == Ng!StuffedFrom(raw, D)
  <1>1. raw \in Seq(Ng!Byte) /\ Len(raw) \in Nat
    BY RawIsBytes
  <1>2. end \in Seq(Ng!Byte)
    BY DEF Lead, Closer, Ng!Byte, Ng!ESC, Ng!DLE, Ng!LF, Ng!ETX
  <1> HIDE DEF raw, D, end
  <1>3. /\ from \in [1 .. Len(raw) + 1 -> Seq(Ng!Byte)] /\ from[Len(raw) + 1] = <<>>
        /\ \A j \in 1 .. Len(raw) : from[j] = Ng!Pushed(raw[j], D) \o from[j + 1]
    BY <1>1, StuffingGoesOn
  <1> HIDE DEF from
  <1>4. LeftFrom(item, e, k) = from[k] \o end /\ LeftFrom(item, e, k + 1) = from[k + 1] \o end
    BY DEF LeftFrom, from, raw, D, end
  <1>5. k \in 1 .. Len(raw) + 1
    BY DEF raw
  <1>6. from[k] \in Seq(Ng!Byte)
    BY <1>3, <1>5
  <1>7. LeftFrom(item, e, k) \in Seq(Ng!Byte)
    BY <1>2, <1>4, <1>6, ConcatProperties
  <1>8. ASSUME k <= Len(raw)
        PROVE  LeftFrom(item, e, k) = Ng!Pushed(raw[k], D) \o LeftFrom(item, e, k + 1)
    <2>1. k \in 1 .. Len(raw) /\ k + 1 \in 1 .. Len(raw) + 1
      BY <1>1, <1>5, <1>8
    <2>2. from[k] = Ng!Pushed(raw[k], D) \o from[k + 1] /\ from[k + 1] \in Seq(Ng!Byte)
      BY <1>3, <2>1
    <2>3. Ng!Pushed(raw[k], D) \in Seq(Ng!Byte)
      <3>1. raw[k] \in Ng!Byte
        BY <1>1, <2>1
      <3>2. QED
        BY <3>1 DEF Ng!Pushed
    <2>4. (Ng!Pushed(raw[k], D) \o from[k + 1]) \o end = Ng!Pushed(raw[k], D) \o (from[k + 1] \o end)
      <3> DEFINE p == Ng!Pushed(raw[k], D)
                 q == from[k + 1]
      <3>1. p \in Seq(Ng!Byte) /\ q \in Seq(Ng!Byte)
        BY <2>2, <2>3
      <3> HIDE DEF p, q
      <3>2. (p \o q) \o end = p \o (q \o end)
        BY <1>2, <3>1, ConcatAssociative
      <3>3. QED
        BY <3>2 DEF p, q
    <2>5. QED
      BY <1>4, <2>2, <2>4, Zenon
  <1>9. ASSUME k > Len(raw)
        PROVE  LeftFrom(item, e, k) = end
    <2>1. k = Len(raw) + 1
      BY <1>1, <1>5, <1>9
    <2>2. from[k] = <<>>
      BY <1>3, <2>1
    <2>3. QED
      BY <1>2, <1>4, <2>2, ConcatEmptySeq
  <1>10. QED
    BY <1>7, <1>8, <1>9 DEF raw, D, end

\* The encoders, one byte at a time.
LEMMA EncodedBytes ==
    ASSUME NEW item \in SendItems
    PROVE  Ng!Encoded(item) = <<Lead(item)>> \o (<<Opener(item)>> \o LeftFrom(item, ebl, 1))
  <1> DEFINE raw == RawOf(item)
             D == DoubledOf(item, ebl)
             end == <<Lead(item), Closer(item)>>
             start == <<Lead(item), Opener(item)>>
             s == Ng!Stuffed(raw, D)
  <1>1. Lead(item) \in Ng!Byte /\ Opener(item) \in Ng!Byte /\ Closer(item) \in Ng!Byte
    BY DEF Lead, Opener, Closer, Ng!Byte, Ng!ESC, Ng!DLE, Ng!LF, Ng!ETX, Ng!SOH, Ng!STX
  <1>2. s \in Seq(Ng!Byte)
    <2>1. raw \in Seq(Ng!Byte)
      BY RawIsBytes
    <2> HIDE DEF raw, D
    <2>2. Ng!StuffedFrom(raw, D) \in [1 .. Len(raw) + 1 -> Seq(Ng!Byte)]
      BY <2>1, StuffingGoesOn, Zenon
    <2>3. 1 \in 1 .. Len(raw) + 1
      BY <2>1
    <2>4. Ng!StuffedFrom(raw, D)[1] \in Seq(Ng!Byte)
      BY <2>2, <2>3, Zenon
    <2>5. QED
      BY <2>4 DEF Ng!Stuffed
  <1>3. Ng!Encoded(item) = start \o s \o end
    <2>1. CASE item.kind = "header"
      BY <2>1 DEF Ng!Encoded, Ng!HeaderBytes, Lead, Opener, Closer, RawOf, DoubledOf
    <2>2. CASE item.kind # "header"
      BY <2>2 DEF Ng!Encoded, Ng!MessageBytes, Ng!MessageEscapes, Lead, Opener, Closer, RawOf, DoubledOf
    <2>3. QED
      BY <2>1, <2>2
  <1>4. LeftFrom(item, ebl, 1) = s \o end
    BY DEF LeftFrom, Ng!Stuffed
  <1>5. start \in Seq(Ng!Byte) /\ end \in Seq(Ng!Byte) /\ start = <<Lead(item)>> \o <<Opener(item)>>
    BY <1>1
  <1> HIDE DEF s, start, end
  <1>6. <<Lead(item)>> \in Seq(Ng!Byte) /\ <<Opener(item)>> \in Seq(Ng!Byte) /\ s \o end \in Seq(Ng!Byte)
    BY <1>1, <1>2, <1>5, ConcatProperties
  <1>7. start \o s \o end = start \o (s \o end)
    BY <1>2, <1>5, ConcatAssociative
  <1>8. start \o (s \o end) = <<Lead(item)>> \o (<<Opener(item)>> \o (s \o end))
    BY <1>5, <1>6, ConcatAssociative
  <1>9. QED
    BY <1>3, <1>4, <1>7, <1>8

\* Where the decoder stands while an item is on its way: before its start, in the
\* middle of that, inside with the bytes before the k-th collected, between the two
\* of a doubled byte, and in the middle of its end.
OnItsWay(item) ==
    \/ framing = "Idle" /\ collected = <<>> /\ serial = <<Lead(item)>> \o (<<Opener(item)>> \o LeftFrom(item, ebl, 1))
    \/ framing = "Escape" /\ framed_from = "Idle" /\ collected = <<>> /\ serial = <<Opener(item)>> \o LeftFrom(item, ebl, 1)
    \/ framing = InsideOf(item) /\ \E k \in 1 .. Len(RawOf(item)) + 1 :
            collected = SubSeq(RawOf(item), 1, k - 1) /\ serial = LeftFrom(item, ebl, k)
    \/ framing = "Escape" /\ framed_from = InsideOf(item) /\ \E k \in 1 .. Len(RawOf(item)) :
            /\ RawOf(item)[k] \in DoubledOf(item, ebl)
            /\ collected = SubSeq(RawOf(item), 1, k - 1) /\ serial = <<RawOf(item)[k]>> \o LeftFrom(item, ebl, k + 1)
    \/ framing = "Escape" /\ framed_from = InsideOf(item) /\ collected = RawOf(item) /\ serial = <<Closer(item)>>

LEMMA HeadOfJoin ==
    ASSUME NEW S, NEW b \in S, NEW t \in Seq(S)
    PROVE  <<b>> \o t \in Seq(S) /\ <<b>> \o t # <<>> /\ Head(<<b>> \o t) = b /\ Tail(<<b>> \o t) = t
  <1>1. <<b>> \o t \in Seq(S) /\ <<b>> \o t # <<>> /\ Head(<<b>> \o t) = b
    OBVIOUS
  <1>2. Tail(<<b>> \o t) = t
    <2> DEFINE u == <<b>> \o t
    <2>1. u \in Seq(S) /\ Len(u) = Len(t) + 1 /\ u # <<>> /\ Len(t) \in Nat
      OBVIOUS
    <2>2. \A i \in 1 .. Len(t) : u[i + 1] = t[i]
      OBVIOUS
    <2> HIDE DEF u
    <2>3. Tail(u) \in Seq(S) /\ Len(Tail(u)) = Len(t) /\ \A i \in 1 .. Len(t) : Tail(u)[i] = u[i + 1]
      BY <2>1, HeadTailProperties
    <2>4. \A i \in 1 .. Len(Tail(u)) : Tail(u)[i] = t[i]
      BY <2>2, <2>3
    <2>5. Tail(u) = t
      BY <2>3, <2>4, SeqEqual
    <2>6. QED
      BY <2>5 DEF u
  <1>3. QED
    BY <1>1, <1>2

\* What is taken by one more.
LEMMA OneMore ==
    ASSUME NEW S, NEW s \in Seq(S), NEW k \in 1 .. Len(s)
    PROVE  Append(SubSeq(s, 1, k - 1), s[k]) = SubSeq(s, 1, (k + 1) - 1)
  <1> DEFINE t == Append(SubSeq(s, 1, k - 1), s[k])
             u == SubSeq(s, 1, (k + 1) - 1)
  <1>1. Len(s) \in Nat /\ \A i \in 1 .. Len(s) : s[i] \in S
    OBVIOUS
  <1>2. /\ SubSeq(s, 1, k - 1) \in Seq(S) /\ Len(SubSeq(s, 1, k - 1)) = k - 1
        /\ \A i \in 1 .. k - 1 : SubSeq(s, 1, k - 1)[i] = s[i]
    BY <1>1
  <1>3. t \in Seq(S) /\ Len(t) = k /\ \A i \in 1 .. k : t[i] = s[i]
    BY <1>1, <1>2
  <1>4. u \in Seq(S) /\ Len(u) = k /\ \A i \in 1 .. k : u[i] = s[i]
    BY <1>1
  <1> HIDE DEF t, u
  <1>5. t = u
    BY <1>3, <1>4, SeqEqual
  <1>6. QED
    BY <1>5 DEF t, u

\* What is framed is decoded as it went in.
LEMMA FinishedIsSent ==
    ASSUME NEW item \in SendItems, collected = RawOf(item)
    PROVE  (IF item.kind = "header" THEN Ng!FinishHeader ELSE Ng!FinishFrame) = <<item>>
  <1>1. CASE item.kind # "header"
    <2>1. /\ item \in SendMessages
          /\ item = [kind |-> "message", command |-> item.command, payload |-> item.payload]
      BY <1>1 DEF SendItems, SendHeaders, SendMessages
    <2>2. collected = Ng!Summed(item) /\ Len(item.payload) \in Nat
      BY <1>1, <2>1 DEF RawOf, SendMessages
    <2>3. /\ Ng!Sum(collected) = 0 /\ Len(collected) = Len(item.payload) + 3 /\ collected[1] = item.command
          /\ collected[2] = Len(item.payload) /\ SubSeq(collected, 3, Len(collected) - 1) = item.payload
      BY <2>1, <2>2, SumsToZero
    <2>4. Ng!Accepted(collected)
      BY <2>2, <2>3 DEF Ng!Accepted
    <2>5. Ng!FinishFrame = <<Ng!Message(collected[1], SubSeq(collected, 3, Len(collected) - 1))>>
      BY <2>4, Zenon DEF Ng!FinishFrame
    <2>6. QED
      BY <1>1, <2>1, <2>3, <2>5 DEF Ng!Message
  <1>2. CASE item.kind = "header"
    <2> DEFINE p == item.payload
    <2>1. /\ item \in SendHeaders /\ item.command \in Ng!Byte /\ p \in Seq(Ng!Byte)
          /\ item = [kind |-> "header", command |-> item.command, payload |-> p]
          /\ item.command = Ng!Timestamp => Len(p) <= 8
      BY <1>2 DEF SendItems, SendHeaders, SendMessages
    <2>2. collected = <<item.command>> \o p
      BY <1>2 DEF RawOf
    <2> HIDE DEF p
    <2>3. /\ collected \in Seq(Ng!Byte) /\ collected # <<>> /\ Head(collected) = item.command /\ Tail(collected) = p
      BY <2>1, <2>2, HeadOfJoin
    <2>4. /\ collected[1] = item.command /\ Len(collected) = Len(p) + 1 /\ Len(p) \in Nat
          /\ \A i \in 1 .. Len(p) : collected[i + 1] = p[i]
      BY <2>1, <2>2
    <2>5. CASE item.command = Ng!Timestamp /\ Len(collected) >= 9
      <3> DEFINE cut == SubSeq(collected, 2, 9)
      <3>1. Len(p) = 8
        <4>1. Len(p) <= 8 /\ Len(collected) >= 9
          BY <2>1, <2>5, Zenon
        <4>2. Len(collected) = Len(p) + 1 /\ Len(p) \in Nat
          BY <2>4, Zenon
        <4> HIDE DEF cut
        <4>3. QED
          BY <4>1, <4>2
      <3>2. cut \in Seq(Ng!Byte) /\ Len(cut) = 8 /\ \A i \in 1 .. 8 : cut[i] = collected[i + 1]
        BY <2>3, <2>4, <3>1
      <3> HIDE DEF cut
      <3>3. cut = p
        <4>1. \A i \in 1 .. Len(cut) : cut[i] = p[i]
          BY <2>4, <3>1, <3>2
        <4>2. QED
          BY <2>1, <3>1, <3>2, <4>1, SeqEqual
      <3>4. Ng!FinishHeader = <<Ng!Header(Ng!Timestamp, cut)>>
        BY <2>3, <2>4, <2>5 DEF Ng!FinishHeader, cut
      <3>5. QED
        BY <1>2, <2>1, <2>5, <3>3, <3>4 DEF Ng!Header
    <2>6. CASE ~(item.command = Ng!Timestamp /\ Len(collected) >= 9)
      <3>1. Ng!FinishHeader = <<Ng!Header(collected[1], Tail(collected))>>
        BY <2>3, <2>4, <2>6 DEF Ng!FinishHeader
      <3>2. QED
        BY <1>2, <2>1, <2>3, <2>4, <3>1 DEF Ng!Header
    <2>7. QED
      BY <2>5, <2>6
  <1>3. QED
    BY <1>1, <1>2

\* What may have been decoded.
Decoded == [kind : {"message", "header"}, command : Ng!Byte, payload : Seq(Ng!Byte)]

\* The next byte of an item brings the decoder further into it, or the item out.
LEMMA ByteArrives ==
    ASSUME NEW item \in SendItems, item.kind = "header" => ebl, OnItsWay(item), framed \in Seq(Decoded),
           Ng!PushByte(Head(serial)), serial' = Tail(serial), ebl' = ebl
    PROVE  /\ serial # <<>>
           /\ \/ OnItsWay(item)' /\ framed' = framed
              \/ serial' = <<>> /\ framing' = "Idle" /\ collected' = <<>> /\ framed' = framed \o <<item>>
  <1> DEFINE raw == RawOf(item)
             D == DoubledOf(item, ebl)
             from(k) == LeftFrom(item, ebl, k)
             inside == InsideOf(item)
  <1> USE DEF Ng!DLE, Ng!ESC, Ng!STX, Ng!ETX, Ng!SOH, Ng!LF
  <1>1. /\ Lead(item) \in Ng!Byte /\ Opener(item) \in Ng!Byte /\ Closer(item) \in Ng!Byte
        /\ inside \in {"InFrame", "InHeader"} /\ Lead(item) \in D
    BY DEF Lead, Opener, Closer, InsideOf, DoubledOf, Ng!Byte
  <1>2. raw \in Seq(Ng!Byte) /\ Len(raw) \in Nat /\ \A k \in 1 .. Len(raw) : raw[k] \in Ng!Byte
    <2>1. raw \in Seq(Ng!Byte)
      BY RawIsBytes
    <2> HIDE DEF raw
    <2>2. QED
      BY <2>1
  <1>3. ASSUME NEW k \in 1 .. Len(raw) + 1
        PROVE  /\ from(k) \in Seq(Ng!Byte)
               /\ k <= Len(raw) => from(k) = Ng!Pushed(raw[k], D) \o from(k + 1)
               /\ k > Len(raw) => from(k) = <<Lead(item), Closer(item)>>
    BY LeftIsBytes
  <1>4. framed \o <<>> = framed
    BY ConcatEmptySeq
  <1>5. framing = inside => Ng!Escapes = D
    BY DEF InsideOf, DoubledOf, Ng!Escapes
  <1>6. ebl \/ item.kind # "header"
    OBVIOUS
  <1> HIDE DEF raw, D, from, inside
  \* Before its start.
  <1>7. CASE framing = "Idle" /\ collected = <<>> /\ serial = <<Lead(item)>> \o (<<Opener(item)>> \o from(1))
    <2>1. 1 \in 1 .. Len(raw) + 1
      BY <1>2
    <2>2. <<Opener(item)>> \o from(1) \in Seq(Ng!Byte)
      BY <1>1, <1>3, <2>1, HeadOfJoin
    <2>3. serial # <<>> /\ Head(serial) = Lead(item) /\ serial' = <<Opener(item)>> \o from(1)
      BY <1>1, <1>7, <2>2, HeadOfJoin
    <2>4. Lead(item) \in Ng!Escapes
      BY <1>6, <1>7 DEF Ng!Escapes, Lead
    <2>5. framing' = "Escape" /\ framed_from' = "Idle" /\ UNCHANGED <<collected, framed>>
      BY <1>7, <2>3, <2>4 DEF Ng!PushByte
    <2>6. OnItsWay(item)'
      BY <1>7, <2>3, <2>5 DEF OnItsWay, from
    <2>7. QED
      BY <2>3, <2>5, <2>6
  \* In the middle of its start.
  <1>8. CASE framing = "Escape" /\ framed_from = "Idle" /\ collected = <<>> /\ serial = <<Opener(item)>> \o from(1)
    <2>1. 1 \in 1 .. Len(raw) + 1
      BY <1>2
    <2>2. serial # <<>> /\ Head(serial) = Opener(item) /\ serial' = from(1)
      BY <1>1, <1>3, <1>8, <2>1, HeadOfJoin
    <2>3. Ng!Escaped(Opener(item))
      BY <1>8, <2>2 DEF Ng!PushByte
    <2>4. framing' = inside /\ collected' = <<>> /\ framed' = framed
      <3>1. CASE item.kind = "header"
        <4>1. Opener(item) = 1 /\ ebl /\ inside = "InHeader"
          BY <1>6, <3>1 DEF Opener, inside, InsideOf
        <4>2. Ng!Goto("InHeader", <<>>, <<>>)
          BY <2>3, <4>1 DEF Ng!Escaped, Ng!Cleared
        <4>3. QED
          BY <1>4, <4>1, <4>2 DEF Ng!Goto
      <3>2. CASE item.kind # "header"
        <4>1. Opener(item) = 2 /\ inside = "InFrame"
          BY <3>2 DEF Opener, inside, InsideOf
        <4>2. Ng!Goto("InFrame", <<>>, <<>>)
          BY <2>3, <4>1 DEF Ng!Escaped, Ng!Cleared
        <4>3. QED
          BY <1>4, <4>1, <4>2 DEF Ng!Goto
      <3>3. QED
        BY <3>1, <3>2
    <2>5. SubSeq(raw, 1, 1 - 1) = <<>>
      BY SubSeqEmpty
    <2>6. OnItsWay(item)'
      <3>1. collected' = SubSeq(raw, 1, 1 - 1) /\ serial' = from(1) /\ framing' = inside
        BY <2>2, <2>4, <2>5
      <3>2. QED
        BY <2>1, <3>1 DEF OnItsWay, from, raw, inside
    <2>7. QED
      BY <2>2, <2>4, <2>6
  \* Inside.
  <1>9. ASSUME NEW k \in 1 .. Len(raw) + 1, framing = inside, collected = SubSeq(raw, 1, k - 1), serial = from(k)
        PROVE  serial # <<>> /\ OnItsWay(item)' /\ framed' = framed
    <2>1. framing # "Escape" /\ framing # "Idle" /\ Ng!Escapes = D
      BY <1>1, <1>5, <1>9
    <2>2. CASE k > Len(raw)
      <3>1. k = Len(raw) + 1
        BY <1>2, <2>2
      <3>2. serial = <<Lead(item), Closer(item)>>
        BY <1>3, <1>9, <2>2
      <3>3. serial # <<>> /\ Head(serial) = Lead(item) /\ serial' = <<Closer(item)>>
        BY <1>1, <3>2
      <3>4. framing' = "Escape" /\ framed_from' = inside /\ UNCHANGED <<collected, framed>>
        BY <1>1, <1>9, <2>1, <3>3 DEF Ng!PushByte
      <3>5. collected' = raw
        <4>1. k - 1 = Len(raw)
          BY <1>2, <3>1
        <4>2. collected = SubSeq(raw, 1, Len(raw))
          BY <1>9, <4>1
        <4>3. QED
          BY <1>2, <3>4, <4>2, SubSeqFull
      <3>6. OnItsWay(item)'
        BY <3>3, <3>4, <3>5 DEF OnItsWay, raw, inside
      <3>7. QED
        BY <3>3, <3>4, <3>6
    <2>3. CASE ~(k > Len(raw))
      <3>1. k \in 1 .. Len(raw) /\ k + 1 \in 1 .. Len(raw) + 1 /\ k <= Len(raw)
        BY <1>2, <2>3
      <3>2. serial = Ng!Pushed(raw[k], D) \o from(k + 1) /\ from(k + 1) \in Seq(Ng!Byte) /\ raw[k] \in Ng!Byte
        BY <1>2, <1>3, <1>9, <3>1
      <3>3. CASE raw[k] \in D
        <4>1. serial = <<raw[k], raw[k]>> \o from(k + 1)
          BY <3>2, <3>3 DEF Ng!Pushed
        <4>2. <<raw[k]>> \o from(k + 1) \in Seq(Ng!Byte)
          BY <3>2, HeadOfJoin
        <4>3. serial = <<raw[k]>> \o (<<raw[k]>> \o from(k + 1))
          <5>1. <<raw[k]>> \in Seq(Ng!Byte) /\ <<raw[k], raw[k]>> = <<raw[k]>> \o <<raw[k]>>
            BY <3>2
          <5>2. QED
            BY <3>2, <4>1, <5>1, ConcatAssociative
        <4>4. serial # <<>> /\ Head(serial) = raw[k] /\ serial' = <<raw[k]>> \o from(k + 1)
          BY <3>2, <4>2, <4>3, HeadOfJoin
        <4>5. framing' = "Escape" /\ framed_from' = inside /\ UNCHANGED <<collected, framed>>
          BY <1>9, <2>1, <3>3, <4>4 DEF Ng!PushByte
        <4>6. collected' = SubSeq(raw, 1, k - 1)
          BY <1>9, <4>5
        <4>7. OnItsWay(item)'
          BY <3>1, <3>3, <4>4, <4>5, <4>6 DEF OnItsWay, raw, inside, from, D
        <4>8. QED
          BY <4>4, <4>5, <4>7
      <3>4. CASE raw[k] \notin D
        <4>1. serial = <<raw[k]>> \o from(k + 1)
          BY <3>2, <3>4 DEF Ng!Pushed
        <4>2. serial # <<>> /\ Head(serial) = raw[k] /\ serial' = from(k + 1)
          BY <3>2, <4>1, HeadOfJoin
        <4>3. Ng!Goto(inside, Append(collected, raw[k]), <<>>)
          BY <1>9, <2>1, <3>4, <4>2 DEF Ng!PushByte
        <4>4. framing' = inside /\ collected' = Append(collected, raw[k]) /\ framed' = framed
          BY <1>4, <4>3 DEF Ng!Goto
        <4>5. collected' = SubSeq(raw, 1, (k + 1) - 1)
          BY <1>2, <1>9, <3>1, <4>4, OneMore
        <4>6. OnItsWay(item)'
          BY <3>1, <4>2, <4>4, <4>5 DEF OnItsWay, raw, inside, from
        <4>7. QED
          BY <4>2, <4>4, <4>6
      <3>5. QED
        BY <3>3, <3>4
    <2>4. QED
      BY <2>2, <2>3
  \* Between the two of a doubled byte.
  <1>10. ASSUME NEW k \in 1 .. Len(raw), raw[k] \in D, framing = "Escape", framed_from = inside,
                collected = SubSeq(raw, 1, k - 1), serial = <<raw[k]>> \o from(k + 1)
         PROVE  serial # <<>> /\ OnItsWay(item)' /\ framed' = framed
    <2>1. k + 1 \in 1 .. Len(raw) + 1
      BY <1>2
    <2>2. serial # <<>> /\ Head(serial) = raw[k] /\ serial' = from(k + 1)
      BY <1>2, <1>3, <1>10, <2>1, HeadOfJoin
    <2>3. Ng!Escaped(raw[k])
      BY <1>10, <2>2 DEF Ng!PushByte
    <2>4. raw[k] = 16 \/ (ebl /\ raw[k] = 27)
      BY <1>6, <1>10 DEF D, DoubledOf
    <2>5. Ng!Goto(inside, Append(collected, raw[k]), <<>>)
      <3>1. framed_from # "Idle"
        BY <1>1, <1>10
      <3>2. QED
        BY <1>10, <2>3, <2>4, <3>1 DEF Ng!Escaped
    <2>6. framing' = inside /\ collected' = Append(collected, raw[k]) /\ framed' = framed
      BY <1>4, <2>5 DEF Ng!Goto
    <2>7. collected' = SubSeq(raw, 1, (k + 1) - 1)
      BY <1>2, <1>10, <2>6, OneMore
    <2>8. OnItsWay(item)'
      BY <2>1, <2>2, <2>6, <2>7 DEF OnItsWay, raw, inside, from
    <2>9. QED
      BY <2>2, <2>6, <2>8
  \* In the middle of its end.
  <1>11. CASE framing = "Escape" /\ framed_from = inside /\ collected = raw /\ serial = <<Closer(item)>>
    <2>1. serial # <<>> /\ Head(serial) = Closer(item) /\ serial' = <<>>
      BY <1>1, <1>11
    <2>2. Ng!Escaped(Closer(item))
      BY <1>11, <2>1 DEF Ng!PushByte
    <2>3. (IF item.kind = "header" THEN Ng!FinishHeader ELSE Ng!FinishFrame) = <<item>>
      BY <1>11, FinishedIsSent DEF raw
    <2>4. CASE item.kind = "header"
      <3>1. Closer(item) = 10 /\ ebl
        BY <1>6, <2>4 DEF Closer
      <3>2. Ng!Goto("Idle", <<>>, Ng!FinishHeader)
        BY <2>2, <3>1 DEF Ng!Escaped, Ng!Cleared
      <3>3. QED
        BY <2>1, <2>3, <2>4, <3>2 DEF Ng!Goto
    <2>5. CASE item.kind # "header"
      <3>1. Closer(item) = 3
        BY <2>5 DEF Closer
      <3>2. Ng!Goto("Idle", <<>>, Ng!FinishFrame)
        BY <2>2, <3>1 DEF Ng!Escaped, Ng!Cleared
      <3>3. QED
        BY <2>1, <2>3, <2>5, <3>2 DEF Ng!Goto
    <2>6. QED
      BY <2>4, <2>5
  <1>12. QED
    <2>1. \/ framing = "Idle" /\ collected = <<>> /\ serial = <<Lead(item)>> \o (<<Opener(item)>> \o from(1))
          \/ framing = "Escape" /\ framed_from = "Idle" /\ collected = <<>> /\ serial = <<Opener(item)>> \o from(1)
          \/ framing = inside /\ \E k \in 1 .. Len(raw) + 1 :
                  collected = SubSeq(raw, 1, k - 1) /\ serial = from(k)
          \/ framing = "Escape" /\ framed_from = inside /\ \E k \in 1 .. Len(raw) :
                  /\ raw[k] \in D
                  /\ collected = SubSeq(raw, 1, k - 1) /\ serial = <<raw[k]>> \o from(k + 1)
          \/ framing = "Escape" /\ framed_from = inside /\ collected = raw /\ serial = <<Closer(item)>>
      BY Zenon DEF OnItsWay, raw, D, from, inside
    <2> HIDE DEF OnItsWay
    <2>2. QED
      BY <1>7, <1>8, <1>9, <1>10, <1>11, <2>1

FramerTyped ==
    /\ Ng!TypeOK
    /\ to_send \in Seq(SendItems) /\ framed \in Seq(Decoded)
    /\ framing = "Escape" /\ framed_from = "Idle" => collected = <<>>

\* What finish_frame and finish_header emit.
LEMMA FinishedIsDecoded ==
    ASSUME collected \in Seq(Ng!Byte)
    PROVE  Ng!FinishFrame \in Seq(Decoded) /\ Ng!FinishHeader \in Seq(Decoded)
  <1> DEFINE b == collected
  <1>1. Len(b) \in Nat /\ \A i \in 1 .. Len(b) : b[i] \in Ng!Byte
    OBVIOUS
  <1>2. <<>> \in Seq(Decoded)
    OBVIOUS
  <1>3. ASSUME NEW c \in Ng!Byte, NEW p \in Seq(Ng!Byte)
        PROVE  <<Ng!Message(c, p)>> \in Seq(Decoded) /\ <<Ng!Header(c, p)>> \in Seq(Decoded)
    <2>1. Ng!Message(c, p) \in Decoded /\ Ng!Header(c, p) \in Decoded
      BY DEF Ng!Message, Ng!Header, Decoded
    <2>2. QED
      BY <2>1
  <1>4. Ng!FinishFrame \in Seq(Decoded)
    <2>1. CASE Ng!Accepted(b)
      <3>1. Len(b) >= 3
        BY <2>1 DEF Ng!Accepted
      <3>2. b[1] \in Ng!Byte
        BY <1>1, <3>1
      <3>3. SubSeq(b, 3, Len(b) - 1) \in Seq(Ng!Byte)
        BY <1>1, SubSeqProperties
      <3>4. Ng!FinishFrame = <<Ng!Message(b[1], SubSeq(b, 3, Len(b) - 1))>>
        BY <2>1, Zenon DEF Ng!FinishFrame
      <3>5. QED
        BY <1>3, <3>2, <3>3, <3>4
    <2>2. CASE ~Ng!Accepted(b)
      BY <1>2, <2>2, Zenon DEF Ng!FinishFrame
    <2>3. QED
      BY <2>1, <2>2
  <1>5. Ng!FinishHeader \in Seq(Decoded)
    <2>1. CASE b = <<>>
      BY <1>2, <2>1 DEF Ng!FinishHeader
    <2>2. CASE b # <<>> /\ b[1] = Ng!Timestamp /\ Len(b) >= 9
      <3>1. \A i \in 2 .. 9 : b[i] \in Ng!Byte
        BY <1>1, <2>2
      <3>2. SubSeq(b, 2, 9) \in Seq(Ng!Byte)
        BY <3>1, SubSeqProperties
      <3>3. Ng!Timestamp \in Ng!Byte
        BY DEF Ng!Timestamp, Ng!Byte
      <3>4. Ng!FinishHeader = <<Ng!Header(Ng!Timestamp, SubSeq(b, 2, 9))>>
        BY <2>2 DEF Ng!FinishHeader
      <3>5. QED
        BY <1>3, <3>2, <3>3, <3>4
    <2>3. CASE b # <<>> /\ ~(b[1] = Ng!Timestamp /\ Len(b) >= 9)
      <3>1. Tail(b) \in Seq(Ng!Byte) /\ b[1] \in Ng!Byte
        <4>1. 1 \in 1 .. Len(b)
          BY <1>1, <2>3
        <4>2. QED
          BY <1>1, <2>3, <4>1, HeadTailProperties
      <3>2. Ng!FinishHeader = <<Ng!Header(b[1], Tail(b))>>
        BY <2>3 DEF Ng!FinishHeader
      <3>3. QED
        BY <1>3, <3>1, <3>2
    <2>4. QED
      BY <2>1, <2>2, <2>3
  <1>6. QED
    BY <1>4, <1>5

\* What any byte does to the decoder, sent or not.
LEMMA BytesAreTyped ==
    ASSUME FramerTyped, NEW b \in Ng!Byte, Ng!PushByte(b)
    PROVE  /\ collected' \in Seq(Ng!Byte) /\ framed' \in Seq(Decoded)
           /\ framing' \in {"Idle", "InFrame", "InHeader", "Escape"} /\ framed_from' \in {"Idle", "InFrame", "InHeader"}
           /\ framing' = "Idle" => collected' = <<>>
           /\ framing' = "Escape" /\ framed_from' = "Idle" => collected' = <<>>
  <1>1. /\ collected \in Seq(Ng!Byte) /\ framed \in Seq(Decoded)
        /\ framing \in {"Idle", "InFrame", "InHeader", "Escape"} /\ framed_from \in {"Idle", "InFrame", "InHeader"}
        /\ framing = "Idle" => collected = <<>>
        /\ framing = "Escape" /\ framed_from = "Idle" => collected = <<>>
    BY DEF FramerTyped, Ng!TypeOK
  <1>2. ASSUME NEW s \in {"Idle", "InFrame", "InHeader"}, NEW t \in Seq(Ng!Byte), NEW items \in Seq(Decoded),
               s = "Idle" => t = <<>>, Ng!Goto(s, t, items)
        PROVE  /\ collected' \in Seq(Ng!Byte) /\ framed' \in Seq(Decoded)
               /\ framing' \in {"Idle", "InFrame", "InHeader", "Escape"} /\ framed_from' \in {"Idle", "InFrame", "InHeader"}
               /\ framing' = "Idle" => collected' = <<>>
               /\ framing' = "Escape" /\ framed_from' = "Idle" => collected' = <<>>
    <2>1. framing' = s /\ collected' = t /\ framed' = framed \o items /\ framed_from' = framed_from
      BY <1>2 DEF Ng!Goto
    <2>2. framed \o items \in Seq(Decoded)
      BY <1>1, ConcatProperties
    <2>3. QED
      BY <1>1, <1>2, <2>1, <2>2
  <1>3. <<>> \in Seq(Ng!Byte) /\ <<>> \in Seq(Decoded) /\ Append(collected, b) \in Seq(Ng!Byte)
    BY <1>1, AppendProperties
  <1>4. Ng!FinishFrame \in Seq(Decoded) /\ Ng!FinishHeader \in Seq(Decoded)
    BY <1>1, FinishedIsDecoded
  <1>5. CASE framing = "Escape"
    <2>1. Ng!Escaped(b)
      BY <1>5 DEF Ng!PushByte
    <2>2. \/ Ng!Goto("InFrame", <<>>, <<>>)
          \/ Ng!Goto("Idle", <<>>, Ng!FinishFrame)
          \/ Ng!Goto("InHeader", <<>>, <<>>)
          \/ Ng!Goto("Idle", <<>>, Ng!FinishHeader)
          \/ Ng!Goto(framed_from, IF framed_from = "Idle" THEN collected ELSE Append(collected, b), <<>>)
          \/ Ng!Goto("Idle", <<>>, <<>>)
      BY <2>1 DEF Ng!Escaped, Ng!Cleared
    <2>3. CASE Ng!Goto(framed_from, IF framed_from = "Idle" THEN collected ELSE Append(collected, b), <<>>)
      <3>1. CASE framed_from = "Idle"
        <4>1. Ng!Goto("Idle", collected, <<>>) /\ collected = <<>>
          BY <1>1, <1>5, <2>3, <3>1
        <4>2. QED
          BY <1>2, <1>3, <4>1
      <3>2. CASE framed_from # "Idle"
        <4>1. Ng!Goto(framed_from, Append(collected, b), <<>>)
          BY <2>3, <3>2
        <4>2. QED
          BY <1>1, <1>2, <1>3, <3>2, <4>1
      <3>3. QED
        BY <3>1, <3>2
    <2>4. QED
      BY <1>2, <1>3, <1>4, <2>2, <2>3
  <1>6. CASE framing # "Escape" /\ b \in Ng!Escapes
    <2>1. framing' = "Escape" /\ framed_from' = framing /\ UNCHANGED <<collected, framed>>
      BY <1>6 DEF Ng!PushByte
    <2>2. QED
      BY <1>1, <1>6, <2>1
  <1>7. CASE framing # "Escape" /\ b \notin Ng!Escapes
    <2>1. Ng!Goto(framing, IF framing = "Idle" THEN collected ELSE Append(collected, b), <<>>)
      BY <1>7 DEF Ng!PushByte
    <2>2. CASE framing = "Idle"
      <3>1. Ng!Goto("Idle", collected, <<>>) /\ collected = <<>>
        BY <1>1, <2>1, <2>2
      <3>2. QED
        BY <1>2, <1>3, <3>1
    <2>3. CASE framing # "Idle"
      <3>1. Ng!Goto(framing, Append(collected, b), <<>>)
        BY <2>1, <2>3
      <3>2. QED
        BY <1>1, <1>2, <1>3, <1>7, <2>3, <3>1
    <2>4. QED
      BY <2>2, <2>3
  <1>8. QED
    BY <1>5, <1>6, <1>7

\* What was sent, as long as nothing was damaged: all of it decoded, but for what
\* is on its way.
Undamaged == \E n \in 0 .. Len(Ng!Items) :
    /\ to_send = SubSeq(Ng!Items, n + 1, Len(Ng!Items))
    /\ \/ serial = <<>> /\ framing = "Idle" /\ collected = <<>> /\ framed = SubSeq(Ng!Items, 1, n)
       \/ n > 0 /\ framed = SubSeq(Ng!Items, 1, n - 1) /\ OnItsWay(Ng!Items[n])

FramerInv == FramerTyped /\ (damage = 0 => Undamaged)

LEMMA ItemsAreSendable ==
    ASSUME Sendable
    PROVE  /\ Ng!Items \in Seq(SendItems)
           /\ \A i \in 1 .. Len(Ng!Items) : Ng!Items[i] \in SendItems /\ (Ng!Items[i].kind = "header" => ebl)
  <1>1. Logged \in Seq(SendItems)
    BY DEF Sendable, SendItems
  <1>2. NgtPlain \in Seq(SendItems) /\ \A i \in 1 .. Len(NgtPlain) : NgtPlain[i].kind # "header"
    <2>1. NgtPlain \in Seq(SendMessages) /\ SendMessages \subseteq SendItems
      BY DEF Sendable, SendItems
    <2>2. \A i \in 1 .. Len(NgtPlain) : NgtPlain[i] \in SendMessages
      BY <2>1, ElementOfSeq
    <2>3. \A m \in SendMessages : m.kind = "message"
      BY DEF SendMessages
    <2>4. NgtPlain \in Seq(SendItems)
      BY <2>1, SeqMonotonic
    <2>5. QED
      BY <2>2, <2>3, <2>4
  <1>3. CASE ebl
    <2>1. Ng!Items = Logged
      BY <1>3 DEF Ng!Items
    <2>2. QED
      BY <1>1, <1>3, <2>1, ElementOfSeq
  <1>4. CASE ~ebl
    <2>1. Ng!Items = NgtPlain
      BY <1>4 DEF Ng!Items
    <2>2. QED
      BY <1>2, <2>1, ElementOfSeq
  <1>5. QED
    BY <1>3, <1>4

LEMMA FramerInit ==
    ASSUME Sendable, Ng!Init
    PROVE  FramerInv
  <1>1. Ng!Items \in Seq(SendItems) /\ Len(Ng!Items) \in Nat
    BY ItemsAreSendable
  <1>2. /\ ebl \in BOOLEAN /\ to_send = Ng!Items /\ serial = <<>> /\ framing = "Idle" /\ framed_from = "Idle"
        /\ collected = <<>> /\ framed = <<>> /\ damage = 0
    BY DEF Ng!Init
  <1>3. FramerTyped
    BY <1>1, <1>2 DEF FramerTyped, Ng!TypeOK, Sendable
  <1>4. Undamaged
    <2>1. SubSeq(Ng!Items, 1, 0) = <<>> /\ SubSeq(Ng!Items, 0 + 1, Len(Ng!Items)) = Ng!Items /\ 0 \in 0 .. Len(Ng!Items)
      BY <1>1, SubSeqEmpty, SubSeqFull
    <2>2. QED
      BY <1>2, <2>1 DEF Undamaged
  <1>5. QED
    BY <1>3, <1>4 DEF FramerInv

LEMMA BytesAreLeft ==
    ASSUME NEW item \in SendItems, OnItsWay(item)
    PROVE  serial # <<>>
  <1>1. /\ Lead(item) \in Ng!Byte /\ Opener(item) \in Ng!Byte /\ Closer(item) \in Ng!Byte
    BY DEF Lead, Opener, Closer, Ng!Byte, Ng!ESC, Ng!DLE, Ng!LF, Ng!ETX, Ng!SOH, Ng!STX
  <1>2. RawOf(item) \in Seq(Ng!Byte)
    BY RawIsBytes
  <1>3. ASSUME NEW k \in 1 .. Len(RawOf(item)) + 1
        PROVE  LeftFrom(item, ebl, k) \in Seq(Ng!Byte) /\ LeftFrom(item, ebl, k) # <<>>
    <2> DEFINE s == Ng!StuffedFrom(RawOf(item), DoubledOf(item, ebl))[k]
               end == <<Lead(item), Closer(item)>>
    <2>1. s \in Seq(Ng!Byte)
      BY <1>2, StuffingGoesOn
    <2>2. end \in Seq(Ng!Byte) /\ end # <<>>
      BY <1>1
    <2> HIDE DEF s, end
    <2>3. s \o end \in Seq(Ng!Byte) /\ s \o end # <<>>
      BY <2>1, <2>2, ConcatProperties, ConcatEqualIffEmpty
    <2>4. QED
      BY <2>3 DEF LeftFrom, s, end
  <1>4. 1 \in 1 .. Len(RawOf(item)) + 1 /\ Len(RawOf(item)) \in Nat
    BY <1>2
  <1>5. <<Opener(item)>> \o LeftFrom(item, ebl, 1) \in Seq(Ng!Byte) /\ <<Opener(item)>> \o LeftFrom(item, ebl, 1) # <<>>
    BY <1>1, <1>3, <1>4, HeadOfJoin
  <1>6. <<Lead(item)>> \o (<<Opener(item)>> \o LeftFrom(item, ebl, 1)) # <<>>
    BY <1>1, <1>5, HeadOfJoin
  <1>7. ASSUME NEW k \in 1 .. Len(RawOf(item))
        PROVE  <<RawOf(item)[k]>> \o LeftFrom(item, ebl, k + 1) # <<>>
    <2>1. k + 1 \in 1 .. Len(RawOf(item)) + 1 /\ RawOf(item)[k] \in Ng!Byte
      BY <1>2, <1>4
    <2>2. QED
      BY <1>3, <2>1, HeadOfJoin
  <1>8. <<Closer(item)>> # <<>>
    OBVIOUS
  <1>9. QED
    BY <1>3, <1>5, <1>6, <1>7, <1>8, Zenon DEF OnItsWay

LEMMA EncodedIsBytes ==
    ASSUME NEW item \in SendItems
    PROVE  Ng!Encoded(item) \in Seq(Ng!Byte)
  <1>1. Lead(item) \in Ng!Byte /\ Opener(item) \in Ng!Byte
    BY DEF Lead, Opener, Ng!Byte, Ng!ESC, Ng!DLE, Ng!SOH, Ng!STX
  <1>2. LeftFrom(item, ebl, 1) \in Seq(Ng!Byte)
    <2>1. RawOf(item) \in Seq(Ng!Byte)
      BY RawIsBytes
    <2>2. 1 \in 1 .. Len(RawOf(item)) + 1
      BY <2>1
    <2>3. QED
      BY <2>2, LeftIsBytes
  <1>3. <<Opener(item)>> \o LeftFrom(item, ebl, 1) \in Seq(Ng!Byte)
    BY <1>1, <1>2, HeadOfJoin
  <1>4. QED
    BY <1>1, <1>3, HeadOfJoin, EncodedBytes

LEMMA FramerTypes ==
    ASSUME Sendable, FramerTyped, [Ng!Next]_Ng!vars
    PROVE  FramerTyped'
  <1>1. /\ ebl \in BOOLEAN /\ serial \in Seq(Ng!Byte) /\ collected \in Seq(Ng!Byte)
        /\ framing \in {"Idle", "InFrame", "InHeader", "Escape"} /\ framed_from \in {"Idle", "InFrame", "InHeader"}
        /\ damage \in 0 .. MaxDamage
        /\ framing = "Idle" => collected = <<>>
        /\ to_send \in Seq(SendItems) /\ framed \in Seq(Decoded)
        /\ framing = "Escape" /\ framed_from = "Idle" => collected = <<>>
    BY DEF FramerTyped, Ng!TypeOK
  <1>2. serial # <<>> => Head(serial) \in Ng!Byte /\ Tail(serial) \in Seq(Ng!Byte)
    BY <1>1, HeadTailProperties
  <1>3. Ng!Damage => damage' \in 0 .. MaxDamage
    <2>1. MaxDamage \in Nat /\ damage \in 0 .. MaxDamage
      BY <1>1 DEF Sendable
    <2>2. Ng!Damage => damage < MaxDamage /\ damage' = damage + 1
      BY DEF Ng!Damage
    <2>3. QED
      BY <2>1, <2>2
  <1>4. CASE Ng!Send
    <2>1. Head(to_send) \in SendItems /\ Tail(to_send) \in Seq(SendItems)
      BY <1>1, <1>4, HeadTailProperties DEF Ng!Send
    <2>2. /\ serial' = Ng!Encoded(Head(to_send)) /\ to_send' = Tail(to_send)
          /\ UNCHANGED <<ebl, framing, framed_from, collected, framed, damage>>
      BY <1>4 DEF Ng!Send
    <2>3. serial' \in Seq(Ng!Byte)
      BY <2>1, <2>2, EncodedIsBytes
    <2>4. QED
      BY <1>1, <2>1, <2>2, <2>3 DEF FramerTyped, Ng!TypeOK
  <1>5. CASE Ng!Arrive
    <2>1. Ng!PushByte(Head(serial)) /\ serial # <<>> /\ serial' = Tail(serial) /\ UNCHANGED <<ebl, to_send, damage>>
      BY <1>5 DEF Ng!Arrive
    <2>2. QED
      BY <1>1, <1>2, <2>1, BytesAreTyped DEF FramerTyped, Ng!TypeOK
  <1>6. CASE Ng!Lost
    <2>1. serial # <<>> /\ Ng!Damage /\ serial' = Tail(serial) /\ UNCHANGED <<ebl, to_send, framing, framed_from, collected, framed>>
      BY <1>6 DEF Ng!Lost, Ng!Damage
    <2>2. QED
      BY <1>1, <1>2, <1>3, <2>1 DEF FramerTyped, Ng!TypeOK
  <1>7. CASE Ng!Doubled
    <2>1. Ng!PushByte(Head(serial)) /\ serial # <<>> /\ Ng!Damage /\ UNCHANGED <<ebl, to_send, serial>>
      BY <1>7 DEF Ng!Doubled, Ng!Damage
    <2>2. QED
      BY <1>1, <1>2, <1>3, <2>1, BytesAreTyped DEF FramerTyped, Ng!TypeOK
  <1>8. CASE Ng!Inserted
    <2>1. Ng!Damage /\ UNCHANGED <<ebl, to_send, serial>>
      BY <1>8 DEF Ng!Inserted, Ng!Damage
    <2>2. PICK b \in Ng!Byte : Ng!PushByte(b)
      BY <1>8 DEF Ng!Inserted, Sendable
    <2>3. QED
      BY <1>1, <1>3, <2>1, <2>2, BytesAreTyped DEF FramerTyped, Ng!TypeOK
  <1>9. CASE UNCHANGED Ng!vars
    BY <1>1, <1>9 DEF FramerTyped, Ng!TypeOK, Ng!vars
  <1>10. QED
    BY <1>4, <1>5, <1>6, <1>7, <1>8, <1>9 DEF Ng!Next

LEMMA FramerStep ==
    ASSUME Sendable, FramerInv, [Ng!Next]_Ng!vars
    PROVE  FramerInv'
  <1> DEFINE all == Ng!Items
  <1>1. FramerTyped'
    BY FramerTypes DEF FramerInv
  <1>2. all \in Seq(SendItems) /\ Len(all) \in Nat /\ \A i \in 1 .. Len(all) : all[i] \in SendItems /\ (all[i].kind = "header" => ebl)
    <2>1. all \in Seq(SendItems) /\ \A i \in 1 .. Len(all) : all[i] \in SendItems /\ (all[i].kind = "header" => ebl)
      BY ItemsAreSendable
    <2> HIDE DEF all
    <2>2. QED
      BY <2>1
  <1>3. damage \in Nat /\ framed \in Seq(Decoded)
    BY DEF FramerInv, FramerTyped, Ng!TypeOK, Sendable
  <1>4. ebl' = ebl => all' = all
    BY DEF Ng!Items
  <1> HIDE DEF all
  <1>5. ASSUME Undamaged
        PROVE  \E n \in 0 .. Len(all) :
                 /\ to_send = SubSeq(all, n + 1, Len(all))
                 /\ \/ serial = <<>> /\ framing = "Idle" /\ collected = <<>> /\ framed = SubSeq(all, 1, n)
                    \/ n > 0 /\ framed = SubSeq(all, 1, n - 1) /\ OnItsWay(all[n])
    BY <1>5, Zenon DEF Undamaged, all
  <1>6. ASSUME NEW n \in 0 .. Len(all), ebl' = ebl, to_send' = SubSeq(all, n + 1, Len(all)),
               \/ serial' = <<>> /\ framing' = "Idle" /\ collected' = <<>> /\ framed' = SubSeq(all, 1, n)
               \/ n > 0 /\ framed' = SubSeq(all, 1, n - 1) /\ OnItsWay(all[n])'
        PROVE  Undamaged'
    <2>1. all' = all
      BY <1>4, <1>6
    <2> HIDE DEF OnItsWay
    <2>2. \E m \in 0 .. Len(all') :
            /\ to_send' = SubSeq(all', m + 1, Len(all'))
            /\ \/ serial' = <<>> /\ framing' = "Idle" /\ collected' = <<>> /\ framed' = SubSeq(all', 1, m)
               \/ m > 0 /\ framed' = SubSeq(all', 1, m - 1) /\ OnItsWay(all[m])'
      BY <1>6, <2>1
    <2>3. QED
      BY <2>1, <2>2 DEF Undamaged, all
  <1>7. ASSUME damage' = 0
        PROVE  Undamaged'
    <2>1. ~Ng!Damage
      <3>1. Ng!Damage => damage' = damage + 1
        BY DEF Ng!Damage
      <3>2. QED
        BY <1>3, <1>7, <3>1
    <2>2. CASE Ng!Send
      <3>1. /\ serial = <<>> /\ to_send # <<>> /\ serial' = Ng!Encoded(Head(to_send)) /\ to_send' = Tail(to_send)
            /\ UNCHANGED <<ebl, framing, framed_from, collected, framed, damage>>
        BY <2>2 DEF Ng!Send
      <3>2. Undamaged
        BY <1>7, <3>1 DEF FramerInv
      <3>3. PICK n \in 0 .. Len(all) :
                 /\ to_send = SubSeq(all, n + 1, Len(all))
                 /\ \/ serial = <<>> /\ framing = "Idle" /\ collected = <<>> /\ framed = SubSeq(all, 1, n)
                    \/ n > 0 /\ framed = SubSeq(all, 1, n - 1) /\ OnItsWay(all[n])
        BY <1>5, <3>2
      <3>4. framing = "Idle" /\ collected = <<>> /\ framed = SubSeq(all, 1, n)
        <4>1. n > 0 => n \in 1 .. Len(all)
          BY <1>2
        <4>2. ~(n > 0 /\ OnItsWay(all[n]))
          BY <1>2, <3>1, <4>1, BytesAreLeft
        <4>3. QED
          BY <3>3, <4>2
      <3>5. n + 1 \in 1 .. Len(all) /\ n + 1 \in 0 .. Len(all)
        <4>1. n # Len(all)
          <5>1. SUFFICES ASSUME n = Len(all) PROVE FALSE
            OBVIOUS
          <5>2. SubSeq(all, n + 1, Len(all)) = <<>>
            BY <1>2, <5>1, SubSeqEmpty
          <5>3. QED
            BY <3>1, <3>3, <5>2
        <4>2. QED
          BY <1>2, <4>1
      <3>6. Head(to_send) = all[n + 1] /\ Tail(to_send) = SubSeq(all, (n + 1) + 1, Len(all))
        <4>1. Len(all) \in n + 1 .. Len(all)
          BY <1>2, <3>5
        <4>2. QED
          BY <1>2, <3>3, <3>5, <4>1, HeadTailOfSubSeq
      <3> DEFINE item == all[n + 1]
      <3>7. item \in SendItems
        BY <1>2, <3>5
      <3>8. all' = all
        BY <1>4, <3>1
      <3>9. serial' = <<Lead(item)>> \o (<<Opener(item)>> \o LeftFrom(item, ebl, 1))
        <4> HIDE DEF item
        <4>1. Head(to_send) = item
          BY <3>6 DEF item
        <4>2. QED
          BY <3>1, <3>7, <4>1, EncodedBytes
      <3>10. OnItsWay(item)'
        <4>1. item' = item
          BY <3>8
        <4> HIDE DEF item
        <4>2. framing' = "Idle" /\ collected' = <<>> /\ ebl' = ebl
          BY <3>1, <3>4
        <4>3. serial' = <<Lead(item')>> \o (<<Opener(item')>> \o LeftFrom(item', ebl', 1))
          BY <3>9, <4>1, <4>2
        <4>4. QED
          BY <4>2, <4>3 DEF OnItsWay
      <3>11. framed' = SubSeq(all, 1, (n + 1) - 1)
        <4>1. (n + 1) - 1 = n
          BY <3>5
        <4>2. QED
          BY <3>1, <3>4, <4>1
      <3>12. n + 1 > 0
        BY <3>5
      <3>13. QED
        BY <1>6, <3>1, <3>5, <3>6, <3>10, <3>11, <3>12
    <2>3. CASE Ng!Arrive
      <3>1. Ng!PushByte(Head(serial)) /\ serial # <<>> /\ serial' = Tail(serial) /\ UNCHANGED <<ebl, to_send, damage>>
        BY <2>3 DEF Ng!Arrive
      <3>2. Undamaged
        BY <1>7, <3>1 DEF FramerInv
      <3>3. PICK n \in 0 .. Len(all) :
                 /\ to_send = SubSeq(all, n + 1, Len(all))
                 /\ n > 0 /\ framed = SubSeq(all, 1, n - 1) /\ OnItsWay(all[n])
        <4> HIDE DEF OnItsWay
        <4>1. QED
          BY <1>5, <3>1, <3>2
      <3>4. n \in 1 .. Len(all) /\ all[n] \in SendItems /\ (all[n].kind = "header" => ebl)
        BY <1>2, <3>3
      <3>5. all' = all
        BY <1>4, <3>1
      <3>6. PICK item \in SendItems : item = all[n]
        BY <3>4
      <3>7. OnItsWay(item) /\ (item.kind = "header" => ebl)
        BY <3>3, <3>4, <3>6
      <3>8. \/ OnItsWay(item)' /\ framed' = framed
            \/ serial' = <<>> /\ framing' = "Idle" /\ collected' = <<>> /\ framed' = framed \o <<item>>
        BY <1>3, <3>1, <3>7, ByteArrives
      <3>9. CASE OnItsWay(item)' /\ framed' = framed
        <4>1. OnItsWay(all[n])'
          BY <3>5, <3>6, <3>9
        <4>2. framed' = SubSeq(all, 1, n - 1) /\ to_send' = SubSeq(all, n + 1, Len(all))
          BY <3>1, <3>3, <3>9
        <4>3. QED
          BY <1>6, <3>1, <3>3, <4>1, <4>2
      <3>10. CASE serial' = <<>> /\ framing' = "Idle" /\ collected' = <<>> /\ framed' = framed \o <<item>>
        <4>1. SubSeq(all, 1, n) = SubSeq(all, 1, n - 1) \o <<all[n]>>
          <5>1. 1 \in 1 .. Len(all) /\ n \in 1 .. Len(all)
            BY <1>2, <3>4
          <5>2. QED
            BY <1>2, <5>1, SubSeqRecursiveSecond
        <4>2. framed' = SubSeq(all, 1, n) /\ to_send' = SubSeq(all, n + 1, Len(all))
          BY <3>1, <3>3, <3>6, <3>10, <4>1
        <4>3. QED
          BY <1>6, <3>1, <3>10, <4>2
      <3>11. QED
        BY <3>8, <3>9, <3>10
    <2>4. CASE UNCHANGED Ng!vars
      <3>1. UNCHANGED <<ebl, to_send, serial, framing, framed_from, collected, framed, damage>>
        BY <2>4 DEF Ng!vars
      <3>2. Undamaged
        BY <1>7, <3>1 DEF FramerInv
      <3>3. PICK n \in 0 .. Len(all) :
                 /\ to_send = SubSeq(all, n + 1, Len(all))
                 /\ \/ serial = <<>> /\ framing = "Idle" /\ collected = <<>> /\ framed = SubSeq(all, 1, n)
                    \/ n > 0 /\ framed = SubSeq(all, 1, n - 1) /\ OnItsWay(all[n])
        BY <1>5, <3>2
      <3>4. all' = all
        BY <1>4, <3>1
      <3>5. OnItsWay(all[n]) => OnItsWay(all[n])'
        BY <3>1, <3>4 DEF OnItsWay
      <3>6. QED
        <4> HIDE DEF OnItsWay
        <4>1. QED
          BY <1>6, <3>1, <3>3, <3>5
    <2>5. ~Ng!Lost /\ ~Ng!Doubled /\ ~Ng!Inserted
      BY <2>1 DEF Ng!Lost, Ng!Doubled, Ng!Inserted
    <2>6. QED
      BY <2>2, <2>3, <2>4, <2>5 DEF Ng!Next
  <1>8. QED
    BY <1>1, <1>7 DEF FramerInv

\* What is inductive says what comes out.
LEMMA RoundTrip ==
    ASSUME Sendable, FramerInv
    PROVE  Ng!TypeOK /\ Ng!Transparent
  <1> DEFINE all == Ng!Items
  <1>1. all \in Seq(SendItems) /\ \A i \in 1 .. Len(all) : all[i] \in SendItems
    BY ItemsAreSendable
  <1>2. ASSUME damage = 0, serial = <<>>
        PROVE  framed = Ng!SentItems
    <2>1. Undamaged
      BY <1>2 DEF FramerInv
    <2>2. PICK n \in 0 .. Len(all) :
                 /\ to_send = SubSeq(all, n + 1, Len(all))
                 /\ \/ serial = <<>> /\ framing = "Idle" /\ collected = <<>> /\ framed = SubSeq(all, 1, n)
                    \/ n > 0 /\ framed = SubSeq(all, 1, n - 1) /\ OnItsWay(all[n])
      BY <2>1, Zenon DEF Undamaged
    <2> HIDE DEF all
    <2>3. Len(all) \in Nat
      BY <1>1
    <2>4. n > 0 => n \in 1 .. Len(all)
      BY <2>3
    <2>5. framed = SubSeq(all, 1, n)
      BY <1>1, <1>2, <2>2, <2>4, BytesAreLeft
    <2>6. Len(to_send) = Len(all) - n
      <3>1. \A i \in n + 1 .. Len(all) : all[i] \in SendItems
        BY <1>1, <2>3
      <3>2. Len(to_send) = IF n + 1 <= Len(all) THEN Len(all) - (n + 1) + 1 ELSE 0
        BY <2>2, <2>3, <3>1, SubSeqProperties
      <3>3. QED
        BY <2>3, <3>2
    <2>7. Len(all) - Len(to_send) = n
      BY <2>3, <2>6
    <2>8. QED
      BY <2>5, <2>7 DEF Ng!SentItems, all
  <1>3. QED
    BY <1>2 DEF FramerInv, FramerTyped, Ng!Transparent

-----------------------------------------------------------------------------
(* The Maretron session.                                                   *)

\* What the device may say: frames whose payload fits the length they have, with a
\* destination where their PGN leaves room for one, and texts of ASCII without a NUL.
IsPgn(pgn) == pgn \in Nat /\ pgn <= 131071
SaidFrames == {f \in [kind : {"frame"}, prio : 0 .. 7, type : 0 .. 3, pgn : Nat, dst : Ma!Byte, src : Ma!Byte,
                      payload : Seq(Ma!Byte)] :
                    /\ Len(f.payload) <= IF f.type = 3 THEN 65535 ELSE 255
                    /\ IsPgn(f.pgn)
                    /\ IF Ma!Pf(f.pgn) < 240 THEN f.pgn % 256 = 0 ELSE f.dst = 255}
SaidTexts == {t \in [kind : {"text"}, word : Seq(Ma!Byte)] :
                    /\ \A i \in 1 .. Len(t.word) : t.word[i] # 0
                    /\ t.word # <<>> => t.word[1] < 128}
SaidItems == SaidFrames \union SaidTexts
Sayable == \A s \in Scripts : s \in Seq(SaidItems)

\* What is handed on, of whatever bytes.
HandedFrames == [kind : {"frame"}, prio : 0 .. 7, pgn : Nat, src : Ma!Byte, dst : Ma!Byte, payload : Seq(Ma!Byte)]
Handed == HandedFrames \union {[kind |-> "error"]}

LEMMA FramesGoOn ==
    ASSUME NEW T, NEW s \in Seq(T)
    PROVE  /\ Ma!FramesTo(s) \in [0 .. Len(s) -> Seq(T)] /\ Ma!FramesTo(s)[0] = <<>>
           /\ \A n \in 1 .. Len(s) : Ma!FramesTo(s)[n] =
                IF s[n].kind = "frame" THEN Append(Ma!FramesTo(s)[n - 1], s[n]) ELSE Ma!FramesTo(s)[n - 1]
  <1> DEFINE N == Len(s)
             B == Seq(T)
             next(n, x) == IF s[n].kind = "frame" THEN Append(x, s[n]) ELSE x
             G == [n \in 1 .. N |-> [x \in B |-> next(n, x)]]
             Fits(f) == f = [n \in 0 .. N |-> IF n = 0 THEN <<>> ELSE next(n, f[n - 1])]
  <1>1. N \in Nat /\ <<>> \in B /\ \A n \in 1 .. N : s[n] \in T
    OBVIOUS
  <1>2. G \in Strides(N, B)
    <2>1. ASSUME NEW n \in 1 .. N, NEW x \in B
          PROVE  next(n, x) \in B
      <3>1. s[n] \in T
        BY <1>1
      <3>2. QED
        BY <3>1, AppendProperties
    <2> HIDE DEF next
    <2>2. QED
      BY <2>1, Zenon DEF Strides
  <1> HIDE DEF N, G, B, next
  <1>3. PICK f \in [0 .. N -> B] : f[0] = <<>> /\ \A n \in 1 .. N : f[n] = G[n][f[n - 1]]
    <2>1. \E f \in Course(N, B) : GoesOn(f, <<>>, N, G)
      BY <1>1, <1>2, Recursion
    <2>2. QED
      BY <2>1, Zenon DEF Course, GoesOn
  <1>4. ASSUME NEW n \in 1 .. N
        PROVE  f[n] = next(n, f[n - 1])
    <2>1. n - 1 \in 0 .. N
      BY <1>1
    <2>2. f[n - 1] \in B
      BY <1>3, <2>1
    <2>3. G[n][f[n - 1]] = next(n, f[n - 1])
      BY <2>2 DEF G
    <2>4. QED
      BY <1>3, <2>3
  <1>5. Fits(f)
    <2>1. ASSUME NEW n \in 0 .. N
          PROVE  f[n] = IF n = 0 THEN <<>> ELSE next(n, f[n - 1])
      <3>1. n # 0 => n \in 1 .. N
        BY <1>1
      <3>2. QED
        BY <1>3, <1>4, <3>1
    <2>2. f = [n \in 0 .. N |-> f[n]]
      BY <1>3
    <2>3. QED
      BY <2>1, <2>2
  <1>6. Fits(Ma!FramesTo(s))
    <2>1. Fits(CHOOSE h : Fits(h))
      <3> HIDE DEF Fits
      <3>1. QED
        BY <1>5, Zenon
    <2>2. Ma!FramesTo(s) = CHOOSE h : Fits(h)
      BY Zenon DEF Ma!FramesTo, N, next
    <2>3. QED
      <3> HIDE DEF Fits
      <3>1. QED
        BY <2>1, <2>2, Zenon
  <1> DEFINE h == Ma!FramesTo(s)
  <1>7. h = [n \in 0 .. N |-> IF n = 0 THEN <<>> ELSE next(n, h[n - 1])]
    BY <1>6
  <1> HIDE DEF h
  <1>8. h[0] = <<>> /\ \A n \in 1 .. N : h[n] = next(n, h[n - 1])
    <2>1. ASSUME NEW n \in 0 .. N
          PROVE  h[n] = IF n = 0 THEN <<>> ELSE next(n, h[n - 1])
      BY <1>7, Zenon
    <2>2. QED
      BY <1>1, <2>1
  <1>9. \A n \in 0 .. N : h[n] = f[n]
    <2>1. h[0] = f[0]
      BY <1>3, <1>8
    <2>2. GoAlike(h, f, N)
      BY <1>4, <1>8 DEF GoAlike
    <2>3. N \in Nat
      BY <1>1
    <2> HIDE DEF Fits
    <2>4. QED
      BY <2>1, <2>2, <2>3, GoOnAlike
  <1>10. h \in [0 .. N -> B]
    <2>1. h = [n \in 0 .. N |-> h[n]]
      BY <1>7, Zenon
    <2>2. QED
      BY <1>9, <2>1
  <1>11. QED
    BY <1>8, <1>10 DEF h, N, B, next

LEMMA ConnectedGoOn ==
    ASSUME NEW T, NEW s \in Seq(T)
    PROVE  /\ Ma!ConnectedTo(s) \in [0 .. Len(s) -> Nat] /\ Ma!ConnectedTo(s)[0] = 0
           /\ \A n \in 1 .. Len(s) : Ma!ConnectedTo(s)[n] =
                IF Ma!IsConnected(s[n]) THEN Ma!ConnectedTo(s)[n - 1] + 1 ELSE Ma!ConnectedTo(s)[n - 1]
  <1> DEFINE N == Len(s)
             next(n, x) == IF Ma!IsConnected(s[n]) THEN x + 1 ELSE x
             G == [n \in 1 .. N |-> [x \in Nat |-> next(n, x)]]
             Fits(f) == f = [n \in 0 .. N |-> IF n = 0 THEN 0 ELSE next(n, f[n - 1])]
  <1>1. N \in Nat
    OBVIOUS
  <1>2. G \in Strides(N, Nat)
    <2>1. ASSUME NEW n \in 1 .. N, NEW x \in Nat
          PROVE  next(n, x) \in Nat
      OBVIOUS
    <2> HIDE DEF next
    <2>2. QED
      BY <2>1, Zenon DEF Strides
  <1> HIDE DEF N, G, next
  <1>3. PICK f \in [0 .. N -> Nat] : f[0] = 0 /\ \A n \in 1 .. N : f[n] = G[n][f[n - 1]]
    <2>1. \E f \in Course(N, Nat) : GoesOn(f, 0, N, G)
      BY <1>1, <1>2, Recursion
    <2>2. QED
      BY <2>1, Zenon DEF Course, GoesOn
  <1>4. ASSUME NEW n \in 1 .. N
        PROVE  f[n] = next(n, f[n - 1])
    <2>1. n - 1 \in 0 .. N
      BY <1>1
    <2>2. f[n - 1] \in Nat
      BY <1>3, <2>1
    <2>3. G[n][f[n - 1]] = next(n, f[n - 1])
      BY <2>2 DEF G
    <2>4. QED
      BY <1>3, <2>3
  <1>5. Fits(f)
    <2>1. ASSUME NEW n \in 0 .. N
          PROVE  f[n] = IF n = 0 THEN 0 ELSE next(n, f[n - 1])
      <3>1. n # 0 => n \in 1 .. N
        BY <1>1
      <3>2. QED
        BY <1>3, <1>4, <3>1
    <2>2. f = [n \in 0 .. N |-> f[n]]
      BY <1>3
    <2>3. QED
      BY <2>1, <2>2
  <1>6. Fits(Ma!ConnectedTo(s))
    <2>1. Fits(CHOOSE h : Fits(h))
      <3> HIDE DEF Fits
      <3>1. QED
        BY <1>5, Zenon
    <2>2. Ma!ConnectedTo(s) = CHOOSE h : Fits(h)
      BY Zenon DEF Ma!ConnectedTo, N, next
    <2>3. QED
      <3> HIDE DEF Fits
      <3>1. QED
        BY <2>1, <2>2, Zenon
  <1> DEFINE h == Ma!ConnectedTo(s)
  <1>7. h = [n \in 0 .. N |-> IF n = 0 THEN 0 ELSE next(n, h[n - 1])]
    BY <1>6
  <1> HIDE DEF h
  <1>8. h[0] = 0 /\ \A n \in 1 .. N : h[n] = next(n, h[n - 1])
    <2>1. ASSUME NEW n \in 0 .. N
          PROVE  h[n] = IF n = 0 THEN 0 ELSE next(n, h[n - 1])
      BY <1>7, Zenon
    <2>2. QED
      BY <1>1, <2>1
  <1>9. \A n \in 0 .. N : h[n] = f[n]
    <2>1. h[0] = f[0]
      BY <1>3, <1>8
    <2>2. GoAlike(h, f, N)
      BY <1>4, <1>8 DEF GoAlike
    <2>3. N \in Nat
      BY <1>1
    <2> HIDE DEF Fits
    <2>4. QED
      BY <2>1, <2>2, <2>3, GoOnAlike
  <1>10. h \in [0 .. N -> Nat]
    <2>1. h = [n \in 0 .. N |-> h[n]]
      BY <1>7, Zenon
    <2>2. QED
      BY <1>9, <2>1
  <1>11. QED
    BY <1>8, <1>10 DEF h, N, next

\* Sequences that begin alike hold the same frames, and CONNECTED as often.
LEMMA FramesAlike ==
    ASSUME NEW T, NEW s \in Seq(T), NEW t \in Seq(T), NEW n \in 0 .. Len(s), n <= Len(t),
           \A i \in 1 .. n : s[i] = t[i]
    PROVE  \A k \in 0 .. n : /\ Ma!FramesTo(s)[k] = Ma!FramesTo(t)[k]
                             /\ Ma!ConnectedTo(s)[k] = Ma!ConnectedTo(t)[k]
  <1> DEFINE f == Ma!FramesTo(s)
             g == Ma!FramesTo(t)
             c == Ma!ConnectedTo(s)
             d == Ma!ConnectedTo(t)
  <1>1. n \in Nat /\ \A i \in 1 .. n : i \in 1 .. Len(s) /\ i \in 1 .. Len(t)
    OBVIOUS
  <1>2. GoAlike(f, g, n) /\ f[0] = g[0]
    <2>1. /\ f[0] = <<>> /\ \A i \in 1 .. Len(s) : f[i] = IF s[i].kind = "frame" THEN Append(f[i - 1], s[i]) ELSE f[i - 1]
          /\ g[0] = <<>> /\ \A i \in 1 .. Len(t) : g[i] = IF t[i].kind = "frame" THEN Append(g[i - 1], t[i]) ELSE g[i - 1]
      BY FramesGoOn
    <2> HIDE DEF f, g
    <2>2. QED
      BY <1>1, <2>1 DEF GoAlike
  <1>3. GoAlike(c, d, n) /\ c[0] = d[0]
    <2>1. /\ c[0] = 0 /\ \A i \in 1 .. Len(s) : c[i] = IF Ma!IsConnected(s[i]) THEN c[i - 1] + 1 ELSE c[i - 1]
          /\ d[0] = 0 /\ \A i \in 1 .. Len(t) : d[i] = IF Ma!IsConnected(t[i]) THEN d[i - 1] + 1 ELSE d[i - 1]
      BY ConnectedGoOn
    <2> HIDE DEF c, d
    <2>2. QED
      BY <1>1, <2>1 DEF GoAlike
  <1> HIDE DEF f, g, c, d
  <1>4. \A k \in 0 .. n : f[k] = g[k]
    BY <1>1, <1>2, GoOnAlike
  <1>5. \A k \in 0 .. n : c[k] = d[k]
    BY <1>1, <1>3, GoOnAlike
  <1>6. QED
    BY <1>4, <1>5 DEF f, g, c, d

LEMMA FramesOfAppend ==
    ASSUME NEW T, NEW s \in Seq(T), NEW x \in T
    PROVE  Ma!FramesAmong(Append(s, x)) = IF x.kind = "frame" THEN Append(Ma!FramesAmong(s), x) ELSE Ma!FramesAmong(s)
  <1> DEFINE t == Append(s, x)
             n == Len(s)
  <1>1. /\ t \in Seq(T) /\ Len(t) = n + 1 /\ t[n + 1] = x /\ n \in Nat /\ \A i \in 1 .. n : s[i] = t[i]
    BY AppendProperties
  <1> HIDE DEF t
  <1>2. n \in 0 .. Len(s) /\ n <= Len(t) /\ n \in 0 .. n /\ n + 1 \in 1 .. Len(t) /\ (n + 1) - 1 = n
    BY <1>1
  <1>3. Ma!FramesTo(s)[n] = Ma!FramesTo(t)[n]
    BY <1>1, <1>2, FramesAlike
  <1>4. Ma!FramesTo(t)[n + 1] = IF t[n + 1].kind = "frame" THEN Append(Ma!FramesTo(t)[(n + 1) - 1], t[n + 1])
                                ELSE Ma!FramesTo(t)[(n + 1) - 1]
    BY <1>1, <1>2, FramesGoOn
  <1>5. QED
    BY <1>1, <1>2, <1>3, <1>4 DEF Ma!FramesAmong, t

\* What CONNECTED counts only grows.
LEMMA ConnectedGrows ==
    ASSUME NEW T, NEW s \in Seq(T), NEW n \in 0 .. Len(s)
    PROVE  \A k \in 0 .. n : Ma!ConnectedTo(s)[k] <= Ma!ConnectedTo(s)[n]
  <1> DEFINE c == Ma!ConnectedTo(s)
             Bad == {m \in 0 .. n : \E k \in 0 .. m : ~(c[k] <= c[m])}
  <1>1. n \in Nat /\ \A i \in 0 .. n : i \in 0 .. Len(s)
    OBVIOUS
  <1>2. c \in [0 .. Len(s) -> Nat] /\ \A i \in 1 .. Len(s) : c[i] = c[i - 1] + 1 \/ c[i] = c[i - 1]
    BY ConnectedGoOn
  <1> HIDE DEF c
  <1>3. CASE Bad # {}
    <2>1. PICK b \in Bad : \A m \in Bad : b <= m
      <3>1. Bad \subseteq Nat
        OBVIOUS
      <3>2. QED
        BY <1>3, <3>1, LeastNumber
    <2>2. PICK k \in 0 .. b : ~(c[k] <= c[b])
      OBVIOUS
    <2>3. b \in 0 .. n /\ c[b] \in Nat /\ c[k] \in Nat
      BY <1>1, <1>2
    <2>4. k # b
      BY <2>2, <2>3
    <2>5. b - 1 \in 0 .. n /\ k \in 0 .. b - 1 /\ b \in 1 .. Len(s) /\ ~(b <= b - 1)
      BY <1>1, <2>3, <2>4
    <2>6. b - 1 \notin Bad
      <3> HIDE DEF Bad
      <3>1. QED
        BY <2>1, <2>5
    <2>7. c[k] <= c[b - 1]
      BY <2>5, <2>6
    <2>8. c[b - 1] <= c[b] /\ c[b - 1] \in Nat
      <3>1. c[b - 1] \in Nat
        BY <1>1, <1>2, <2>5
      <3>2. c[b] = c[b - 1] + 1 \/ c[b] = c[b - 1]
        BY <1>2, <2>5
      <3>3. QED
        BY <3>1, <3>2
    <2>9. QED
      <3> HIDE DEF Bad
      <3>1. QED
        BY <2>2, <2>3, <2>7, <2>8
  <1>4. CASE Bad = {}
    <2>1. n \in 0 .. n /\ n \notin Bad
      BY <1>1, <1>4
    <2>2. QED
      BY <2>1 DEF c
  <1>5. QED
    BY <1>3, <1>4

\* What is due of one frame more is due at the end.
LEMMA DueOfAppend ==
    ASSUME NEW s \in Seq(SaidItems), NEW x \in SaidItems
    PROVE  Ma!AsDue(Append(s, x)) = Append(Ma!AsDue(s), Ma!Due(x))
  <1> DEFINE T == {Ma!Due(y) : y \in SaidItems}
             t == Append(s, x)
             n == Len(s)
             d == Ma!Due(x)
             a == [i \in 1 .. Len(s) |-> Ma!Due(s[i])]
             b == [i \in 1 .. Len(t) |-> Ma!Due(t[i])]
  <1>1. /\ t \in Seq(SaidItems) /\ Len(t) = n + 1 /\ t[n + 1] = x /\ n \in Nat
        /\ \A i \in 1 .. n : s[i] = t[i] /\ s[i] \in SaidItems
    BY AppendProperties, ElementOfSeq
  <1>2. \A y \in SaidItems : Ma!Due(y) \in T
    OBVIOUS
  <1> HIDE DEF T, t
  <1>3. a \in Seq(T) /\ Len(a) = n /\ \A i \in 1 .. n : a[i] = Ma!Due(s[i])
    BY <1>1, <1>2
  <1>4. b \in Seq(T) /\ Len(b) = n + 1 /\ \A i \in 1 .. n + 1 : b[i] = Ma!Due(t[i])
    <2>1. \A i \in 1 .. n + 1 : t[i] \in SaidItems
      BY <1>1, ElementOfSeq
    <2>2. QED
      BY <1>1, <1>2, <2>1
  <1>5. d \in T
    BY <1>2
  <1> HIDE DEF a, b, d
  <1>6. /\ Append(a, d) \in Seq(T) /\ Len(Append(a, d)) = n + 1
        /\ (\A i \in 1 .. n : Append(a, d)[i] = a[i]) /\ Append(a, d)[n + 1] = d
    BY <1>3, <1>5, AppendProperties
  <1>7. ASSUME NEW i \in 1 .. Len(b)
        PROVE  b[i] = Append(a, d)[i]
    <2>1. CASE i = n + 1
      BY <1>1, <1>4, <1>6, <2>1 DEF d
    <2>2. CASE i # n + 1
      <3>1. i \in 1 .. n
        BY <1>1, <1>4, <2>2
      <3>2. QED
        BY <1>1, <1>3, <1>4, <1>6, <3>1
    <2>3. QED
      BY <2>1, <2>2
  <1>8. b = Append(a, d)
    BY <1>4, <1>6, <1>7, SeqEqual
  <1>9. QED
    BY <1>8, Zenon DEF a, b, d, t, Ma!AsDue

\* to_raw keeps what is due.
LEMMA RawIsDue ==
    ASSUME NEW f \in SaidFrames
    PROVE  Ma!Raw(f) = Ma!Due(f) /\ Ma!Due(f) \in Handed /\ Ma!Due(f).kind = "frame"
  <1> DEFINE p == f.payload
             n == IF Len(p) < Ma!FASTPACKET_MAX_SIZE THEN Len(p) ELSE Ma!FASTPACKET_MAX_SIZE
             cut == IF Len(p) <= 223 THEN p ELSE SubSeq(p, 1, 223)
  <1>1. /\ p \in Seq(Ma!Byte) /\ Len(p) \in Nat /\ f.prio \in 0 .. 7 /\ f.pgn \in Nat /\ f.src \in Ma!Byte
        /\ f.dst \in Ma!Byte
    BY DEF SaidFrames
  <1> HIDE DEF p
  <1>2. SubSeq(p, 1, n) = cut
    <2>1. CASE Len(p) <= 223
      <3>1. n = Len(p)
        <4> DEFINE l == Len(p)
        <4>1. l \in Nat /\ l <= 223 /\ n = IF l < 223 THEN l ELSE 223
          BY <1>1, <2>1 DEF Ma!FASTPACKET_MAX_SIZE
        <4> HIDE DEF l, n
        <4>2. n = l
          BY <4>1
        <4>3. QED
          BY <4>2 DEF l
      <3>2. SubSeq(p, 1, Len(p)) = p
        BY <1>1, SubSeqFull
      <3>3. QED
        BY <2>1, <3>1, <3>2
    <2>2. CASE ~(Len(p) <= 223)
      <3>1. n = 223
        BY <1>1, <2>2 DEF Ma!FASTPACKET_MAX_SIZE
      <3>2. QED
        BY <2>2, <3>1
    <2>3. QED
      BY <2>1, <2>2
  <1>3. cut \in Seq(Ma!Byte)
    <2>1. CASE Len(p) <= 223
      BY <1>1, <2>1
    <2>2. CASE ~(Len(p) <= 223)
      <3>1. \A i \in 1 .. 223 : i \in 1 .. Len(p)
        BY <1>1, <2>2
      <3>2. \A i \in 1 .. 223 : p[i] \in Ma!Byte
        BY <1>1, <3>1, ElementOfSeq
      <3>3. SubSeq(p, 1, 223) \in Seq(Ma!Byte)
        BY <3>2
      <3>4. QED
        BY <2>2, <3>3
    <2>3. QED
      BY <2>1, <2>2
  <1>4. /\ Ma!Raw(f) = [kind |-> "frame", prio |-> f.prio, pgn |-> f.pgn, src |-> f.src, dst |-> f.dst,
                        payload |-> SubSeq(p, 1, n)]
        /\ Ma!Due(f) = [kind |-> "frame", prio |-> f.prio, pgn |-> f.pgn, src |-> f.src, dst |-> f.dst, payload |-> cut]
    BY Zenon DEF Ma!Raw, Ma!Due, p
  <1> HIDE DEF cut, n
  <1>5. Ma!Raw(f) = Ma!Due(f)
    BY <1>2, <1>4, Zenon
  <1>6. Ma!Due(f) \in HandedFrames /\ Ma!Due(f).kind = "frame"
    BY <1>1, <1>3, <1>4 DEF HandedFrames
  <1>7. QED
    BY <1>5, <1>6 DEF Handed

-----------------------------------------------------------------------------
(* The parser, on what an item begins with.                                *)

\* b begins as t does, as far as both go.
BeginsLike(b, t) == \A i \in 1 .. Len(b) : i <= Len(t) => b[i] = t[i]

\* A text ends where it says so, and not before.
LEMMA TextParsed ==
    ASSUME NEW w \in Seq(Ma!Byte), \A i \in 1 .. Len(w) : w[i] # 0,
           NEW b \in Seq(Ma!Byte), BeginsLike(b, w \o << 0 >>)
    PROVE  IF Len(b) < Len(w) + 1 THEN Ma!Nul(b) = {}
           ELSE /\ Ma!Nul(b) = {Len(w) + 1} /\ (CHOOSE i \in Ma!Nul(b) : TRUE) = Len(w) + 1
                /\ SubSeq(b, 1, (Len(w) + 1) - 1) = w
  <1> DEFINE t == w \o <<0>>
  <1>1. Len(w) \in Nat /\ Len(b) \in Nat /\ DOMAIN b = 1 .. Len(b)
    OBVIOUS
  <1>2. Len(t) = Len(w) + 1 /\ t[Len(w) + 1] = 0 /\ \A i \in 1 .. Len(w) : t[i] = w[i]
    <2>1. <<0>> \in Seq(Ma!Byte) /\ Len(<<0>>) = 1 /\ <<0>>[1] = 0
      BY DEF Ma!Byte
    <2>2. /\ Len(t) = Len(w) + 1
          /\ \A i \in 1 .. Len(w) + 1 : t[i] = IF i <= Len(w) THEN w[i] ELSE <<0>>[i - Len(w)]
      BY <2>1, ConcatProperties
    <2> HIDE DEF t
    <2>3. Len(w) + 1 \in 1 .. Len(w) + 1 /\ ~(Len(w) + 1 <= Len(w)) /\ (Len(w) + 1) - Len(w) = 1
      BY <1>1
    <2>4. \A i \in 1 .. Len(w) : i \in 1 .. Len(w) + 1 /\ i <= Len(w)
      BY <1>1
    <2>5. QED
      BY <2>1, <2>2, <2>3, <2>4
  <1> HIDE DEF t
  <1>3. ASSUME NEW i \in 1 .. Len(b), i <= Len(w)
        PROVE  b[i] = w[i] /\ b[i] # 0
    <2>1. i \in 1 .. Len(w) /\ i <= Len(t)
      BY <1>1, <1>2, <1>3
    <2>2. QED
      BY <1>2, <2>1 DEF BeginsLike, t
  <1>4. CASE Len(b) < Len(w) + 1
    <2>1. \A i \in 1 .. Len(b) : i <= Len(w)
      BY <1>1, <1>4
    <2>2. Ma!Nul(b) = {}
      BY <1>1, <1>3, <2>1 DEF Ma!Nul
    <2>3. QED
      BY <1>4, <2>2
  <1>5. CASE ~(Len(b) < Len(w) + 1)
    <2> DEFINE m == Len(w) + 1
    <2>1. m \in 1 .. Len(b) /\ b[m] = 0
      <3>1. m \in 1 .. Len(b) /\ m <= Len(t)
        BY <1>1, <1>2, <1>5
      <3>2. b[m] = t[m]
        BY <3>1 DEF BeginsLike, t
      <3>3. QED
        BY <1>2, <3>1, <3>2
    <2>2. \A i \in 1 .. m - 1 : i \in 1 .. Len(b) /\ i <= Len(w)
      BY <1>1, <2>1
    <2>3. \A i \in 1 .. m - 1 : b[i] = w[i] /\ b[i] # 0
      BY <1>3, <2>2
    <2>4. ASSUME NEW i \in 1 .. Len(b), i # m, b[i] = 0
          PROVE  \E j \in 1 .. i - 1 : b[j] = 0
      <3>1. ~(i \in 1 .. m - 1)
        BY <2>3, <2>4
      <3>2. m \in 1 .. i - 1
        BY <1>1, <2>1, <2>4, <3>1
      <3>3. QED
        BY <2>1, <3>2
    <2>5. Ma!Nul(b) = {m}
      <3> HIDE DEF m
      <3>1. m \in Ma!Nul(b)
        BY <1>1, <2>1, <2>3 DEF Ma!Nul
      <3>2. \A i \in Ma!Nul(b) : i = m
        BY <1>1, <2>4 DEF Ma!Nul
      <3>3. QED
        BY <3>1, <3>2
    <2>6. (CHOOSE i \in Ma!Nul(b) : TRUE) = m
      <3>1. (CHOOSE i \in Ma!Nul(b) : TRUE) \in Ma!Nul(b)
        BY <2>5, Zenon
      <3>2. QED
        BY <2>5, <3>1
    <2>7. SubSeq(b, 1, m - 1) = w
      <3> DEFINE u == SubSeq(b, 1, m - 1)
      <3>1. m - 1 = Len(w) /\ m - 1 \in Nat /\ \A i \in 1 .. m - 1 : b[i] \in Ma!Byte
        BY <1>1, <2>2, ElementOfSeq
      <3>2. u \in Seq(Ma!Byte) /\ Len(u) = Len(w) /\ \A i \in 1 .. Len(w) : u[i] = b[i]
        BY <1>1, <2>1, <3>1
      <3> HIDE DEF u
      <3>3. \A i \in 1 .. Len(u) : u[i] = w[i]
        BY <2>3, <3>1, <3>2
      <3>4. u = w
        BY <3>2, <3>3, SeqEqual
      <3>5. QED
        BY <3>4 DEF u
    <2>8. QED
      BY <1>5, <2>5, <2>6, <2>7
  <1>6. QED
    BY <1>4, <1>5

HeaderIs(x, prio, type, page) ==
    x \in Ma!Byte /\ x >= 128 /\ (x \div 2) % 4 = type /\ (x \div 16) % 8 = prio /\ x % 2 = page

LEMMA HeaderByte ==
    ASSUME NEW prio \in 0 .. 7, NEW type \in 0 .. 3, NEW page \in 0 .. 1,
           NEW x, x = 128 + prio * 16 + type * 2 + page
    PROVE  HeaderIs(x, prio, type, page)
  BY DEF Ma!Byte, HeaderIs

\* A PGN is put together again from the bytes it was taken apart into.
Whole(page, pf, last) == page * 65536 + pf * 256 + last
InParts(pgn) ==
    /\ Ma!Page(pgn) \in 0 .. 1 /\ Ma!Pf(pgn) \in Ma!Byte /\ pgn % 256 \in Ma!Byte
    /\ Whole(Ma!Page(pgn), Ma!Pf(pgn), pgn % 256) = pgn

LEMMA PgnParts ==
    ASSUME NEW pgn, IsPgn(pgn)
    PROVE  InParts(pgn)
  <1> DEFINE q == pgn \div 256
             z == pgn % 256
             page == q \div 256
             pf == q % 256
  <1>1. pgn \in Nat /\ pgn <= 131071
    BY DEF IsPgn
  <1>2. q \in Nat /\ z \in Nat /\ z <= 255 /\ pgn = 256 * q + z /\ q <= 511
    BY <1>1
  <1>3. pgn \div 65536 = page
    BY <1>1
  <1> HIDE DEF q, z
  <1>4. pf \in Nat /\ pf <= 255 /\ q = 256 * page + pf /\ page \in 0 .. 1
    BY <1>2
  <1> HIDE DEF page, pf
  <1>5. page * 65536 + pf * 256 + z = pgn
    BY <1>2, <1>4
  <1>6. Ma!Page(pgn) = page /\ Ma!Pf(pgn) = pf /\ pgn % 256 = z
    BY <1>3 DEF Ma!Page, Ma!Pf, pf, q, z
  <1>7. Whole(page, pf, z) = pgn
    BY <1>5 DEF Whole
  <1>8. QED
    BY <1>2, <1>4, <1>6, <1>7 DEF InParts, Ma!Byte

TwoBytes(n) == n % 256 \in Ma!Byte /\ n \div 256 \in Ma!Byte /\ (n % 256) + 256 * (n \div 256) = n
IsLength(n) == n \in Nat /\ n <= 65535

LEMMA LengthBytes ==
    ASSUME NEW size, IsLength(size)
    PROVE  TwoBytes(size)
  <1>1. size \in Nat /\ size <= 65535
    BY DEF IsLength
  <1>2. size \div 256 >= 0 /\ size \div 256 <= 255 /\ size \div 256 \in Int
    BY <1>1
  <1>3. QED
    BY <1>1, <1>2 DEF Ma!Byte, TwoBytes

\* The header of a frame, and its payload behind it.
Heading(f) == <<Ma!SYNC, Ma!F1(f), Ma!Pf(f.pgn), Ma!Ps(f.pgn, f.dst), f.src>>
              \o (IF f.type = 3 THEN <<Len(f.payload) % 256, Len(f.payload) \div 256>> ELSE <<Len(f.payload)>>)
Start(f) == IF f.type = 3 THEN 7 ELSE 6

LEMMA FrameIsBytes ==
    ASSUME NEW f \in SaidFrames
    PROVE  LET t == Ma!FrameBytes(f) IN
           /\ t \in Seq(Ma!Byte) /\ Len(t) = Start(f) + Len(f.payload) /\ Len(f.payload) \in Nat
           /\ t[1] = Ma!SYNC /\ t[2] = Ma!F1(f) /\ t[3] = Ma!Pf(f.pgn) /\ t[4] = Ma!Ps(f.pgn, f.dst) /\ t[5] = f.src
           /\ f.type = 3 => t[6] + 256 * t[7] = Len(f.payload)
           /\ f.type # 3 => t[6] = Len(f.payload)
           /\ \A i \in 1 .. Len(f.payload) : t[Start(f) + i] = f.payload[i]
  <1> DEFINE t == Ma!FrameBytes(f)
             p == f.payload
             n == Len(f.payload)
             h == Heading(f)
             pf == Ma!Pf(f.pgn)
             ps == Ma!Ps(f.pgn, f.dst)
             page == Ma!Page(f.pgn)
             five == <<Ma!SYNC, Ma!F1(f), pf, ps, f.src>>
             size == IF f.type = 3 THEN <<n % 256, n \div 256>> ELSE <<n>>
  <1>0. /\ f.prio \in 0 .. 7 /\ f.type \in 0 .. 3 /\ f.dst \in Ma!Byte /\ IsPgn(f.pgn)
        /\ f.src \in Ma!Byte /\ p \in Seq(Ma!Byte) /\ n <= IF f.type = 3 THEN 65535 ELSE 255
    BY DEF SaidFrames
  <1>1. /\ f.prio \in 0 .. 7 /\ f.type \in 0 .. 3 /\ page \in 0 .. 1 /\ pf \in Ma!Byte /\ ps \in Ma!Byte
        /\ f.src \in Ma!Byte /\ p \in Seq(Ma!Byte) /\ n <= IF f.type = 3 THEN 65535 ELSE 255
    <2>1. InParts(f.pgn)
      BY <1>0, PgnParts
    <2>2. page \in 0 .. 1 /\ pf \in Ma!Byte /\ f.pgn % 256 \in Ma!Byte
      BY <2>1 DEF InParts
    <2>3. ps \in Ma!Byte
      <3>1. ps = IF pf < 240 THEN f.dst ELSE f.pgn % 256
        BY Zenon DEF Ma!Ps
      <3> HIDE DEF ps, pf
      <3>2. QED
        BY <1>0, <2>2, <3>1
    <2>4. QED
      BY <1>0, <2>2, <2>3
  <1> HIDE DEF pf, ps
  <1> HIDE DEF p
  <1>2. n \in Nat
    <2>1. Len(p) \in Nat
      BY <1>1
    <2>2. QED
      BY <2>1 DEF p
  <1> HIDE DEF n
  <1>3. Ma!F1(f) \in Ma!Byte /\ Ma!SYNC \in Ma!Byte
    <2>1. Ma!SYNC \in Ma!Byte
      BY DEF Ma!SYNC, Ma!Byte
    <2>2. Ma!F1(f) \in Ma!Byte
      <3> HIDE DEF five, size, t, h
      <3> DEFINE prio == f.prio
                 type == f.type
                 x == 128 + prio * 16 + type * 2 + page
      <3>0. prio \in 0 .. 7 /\ type \in 0 .. 3 /\ page \in 0 .. 1 /\ Ma!F1(f) = x
        <4>1. Ma!F1(f) = x
          BY DEF Ma!F1
        <4> HIDE DEF x
        <4>2. QED
          BY <1>1, <4>1
      <3> HIDE DEF prio, type, page
      <3>1. HeaderIs(x, prio, type, page)
        BY <3>0, HeaderByte
      <3>2. QED
        BY <3>0, <3>1, Zenon DEF HeaderIs
    <2>3. QED
      BY <2>1, <2>2
  <1>4. /\ five \in Seq(Ma!Byte) /\ Len(five) = 5 /\ five[1] = Ma!SYNC /\ five[2] = Ma!F1(f) /\ five[3] = pf
        /\ five[4] = ps /\ five[5] = f.src
    BY <1>1, <1>3
  <1> HIDE DEF five
  <1>5. size \in Seq(Ma!Byte) /\ Len(size) = Start(f) - 5 /\ Start(f) \in {6, 7}
    <2>1. CASE f.type = 3
      <3>1. IsLength(n)
        BY <1>1, <1>2, <2>1 DEF IsLength
      <3>2. n % 256 \in Ma!Byte /\ n \div 256 \in Ma!Byte
        <4>1. TwoBytes(n)
          BY <3>1, LengthBytes, Zenon
        <4>2. QED
          BY <4>1 DEF TwoBytes
      <3>3. QED
        BY <2>1, <3>2 DEF Start
    <2>2. CASE f.type # 3
      <3>1. n \in Ma!Byte
        BY <1>1, <1>2, <2>2 DEF Ma!Byte
      <3>2. QED
        BY <2>2, <3>1 DEF Start
    <2>3. QED
      BY <2>1, <2>2
  <1>6. /\ f.type = 3 => size[1] + 256 * size[2] = n
        /\ f.type # 3 => size[1] = n
    <2>1. CASE f.type = 3
      <3>1. IsLength(n)
        BY <1>1, <1>2, <2>1 DEF IsLength
      <3>2. (n % 256) + 256 * (n \div 256) = n
        <4>1. TwoBytes(n)
          BY <3>1, LengthBytes, Zenon
        <4>2. QED
          BY <4>1 DEF TwoBytes
      <3>3. size[1] = n % 256 /\ size[2] = n \div 256
        BY <2>1
      <3>4. QED
        BY <2>1, <3>2, <3>3, Zenon
    <2>2. CASE f.type # 3
      BY <2>2
    <2>3. QED
      BY <2>1, <2>2
  <1> HIDE DEF size
  <1>7. h = five \o size /\ t = h \o p
    BY DEF Heading, Ma!FrameBytes, five, size, p, n, pf, ps
  <1> HIDE DEF t, h
  <1>8. /\ h \in Seq(Ma!Byte) /\ Len(h) = Start(f)
        /\ \A i \in 1 .. Start(f) : h[i] = IF i <= 5 THEN five[i] ELSE size[i - 5]
    <2>1. /\ five \o size \in Seq(Ma!Byte) /\ Len(five \o size) = Len(five) + Len(size)
          /\ \A i \in 1 .. Len(five) + Len(size) : (five \o size)[i] =
                IF i <= Len(five) THEN five[i] ELSE size[i - Len(five)]
      BY <1>4, <1>5, ConcatProperties, Zenon
    <2>2. Len(five) = 5 /\ Len(five) + Len(size) = Start(f)
      BY <1>4, <1>5
    <2>3. QED
      BY <1>7, <2>1, <2>2, Zenon
  <1>9. /\ t \in Seq(Ma!Byte) /\ Len(t) = Start(f) + Len(p)
        /\ \A i \in 1 .. Start(f) + Len(p) : t[i] = IF i <= Start(f) THEN h[i] ELSE p[i - Start(f)]
    BY <1>1, <1>7, <1>8, ConcatProperties
  <1>10. Len(p) = n /\ Len(p) \in Nat
    BY <1>2 DEF n, p
  <1>11. \A i \in 1 .. Start(f) : t[i] = h[i]
    BY <1>5, <1>9, <1>10
  <1>12. t[1] = Ma!SYNC /\ t[2] = Ma!F1(f) /\ t[3] = pf /\ t[4] = ps /\ t[5] = f.src /\ t[6] = size[1]
    BY <1>4, <1>5, <1>8, <1>11
  <1>13. f.type = 3 => t[7] = size[2]
    <2>1. f.type = 3 => 7 \in 1 .. Start(f)
      BY DEF Start
    <2>2. QED
      BY <1>8, <1>11, <2>1
  <1>14. \A i \in 1 .. Len(p) : t[Start(f) + i] = p[i]
    <2>1. TAKE i \in 1 .. Len(p)
    <2>2. Start(f) + i \in 1 .. Start(f) + Len(p) /\ ~(Start(f) + i <= Start(f)) /\ (Start(f) + i) - Start(f) = i
      BY <1>5, <1>10
    <2>3. QED
      BY <1>9, <2>2
  <1>15. QED
    BY <1>6, <1>9, <1>10, <1>12, <1>13, <1>14 DEF t, p, n, pf, ps

\* A frame ends where its length says, and is read as it was said.
LEMMA FrameParsed ==
    ASSUME NEW f \in SaidFrames, NEW b \in Seq(Ma!Byte), BeginsLike(b, Ma!FrameBytes(f))
    PROVE  IF Len(b) < Start(f) + Len(f.payload) THEN Ma!Frame(b).kind = "more"
           ELSE /\ Ma!Frame(b).kind = "frame" /\ Ma!Frame(b).consumed = Start(f) + Len(f.payload)
                /\ Ma!Frame(b).frame = f
  <1> DEFINE t == Ma!FrameBytes(f)
             p == f.payload
             n == Len(p)
             m == Start(f)
             pf == Ma!Pf(f.pgn)
             ps == Ma!Ps(f.pgn, f.dst)
             page == Ma!Page(f.pgn)
  <1>1. /\ t \in Seq(Ma!Byte) /\ Len(t) = m + n /\ n \in Nat
        /\ t[1] = Ma!SYNC /\ t[2] = Ma!F1(f) /\ t[3] = pf /\ t[4] = ps /\ t[5] = f.src
        /\ f.type = 3 => t[6] + 256 * t[7] = n
        /\ f.type # 3 => t[6] = n
        /\ \A i \in 1 .. n : t[m + i] = p[i]
    BY FrameIsBytes
  <1>2. /\ f.prio \in 0 .. 7 /\ f.type \in 0 .. 3 /\ p \in Seq(Ma!Byte) /\ IsPgn(f.pgn)
        /\ IF pf < 240 THEN f.pgn % 256 = 0 ELSE f.dst = 255
        /\ f = [kind |-> "frame", prio |-> f.prio, type |-> f.type, pgn |-> f.pgn, dst |-> f.dst,
                src |-> f.src, payload |-> p]
    BY DEF SaidFrames
  <1>0. page \in 0 .. 1 /\ pf \in Ma!Byte /\ f.pgn % 256 \in Ma!Byte /\ Whole(page, pf, f.pgn % 256) = f.pgn
    <2>1. InParts(f.pgn)
      BY <1>2, PgnParts
    <2>2. QED
      BY <2>1, Zenon DEF InParts
  <1>9. ps = IF pf < 240 THEN f.dst ELSE f.pgn % 256
    BY Zenon DEF Ma!Ps
  <1>3. HeaderIs(Ma!F1(f), f.prio, f.type, page)
    <2> DEFINE prio == f.prio
               type == f.type
               x == 128 + prio * 16 + type * 2 + page
    <2>1. prio \in 0 .. 7 /\ type \in 0 .. 3 /\ page \in 0 .. 1 /\ Ma!F1(f) = x
      <3>1. Ma!F1(f) = x
        BY DEF Ma!F1
      <3>2. QED
        BY <1>0, <1>2, <3>1, Zenon
    <2> HIDE DEF prio, type, page
    <2>2. HeaderIs(x, prio, type, page)
      BY <2>1, HeaderByte
    <2>3. QED
      BY <2>1, <2>2, Zenon DEF prio, type
  <1>4. m \in {6, 7} /\ (f.type = 3 => m = 7) /\ (f.type # 3 => m = 6) /\ Len(b) \in Nat
    BY DEF Start
  <1>5. \A i \in 1 .. Len(b) : i <= m + n => b[i] = t[i]
    BY <1>1 DEF BeginsLike
  <1> HIDE DEF t, p, n, m, pf, ps, page
  <1>6. CASE Len(b) < 6
    <2>1. Ma!Frame(b).kind = "more"
      BY <1>6 DEF Ma!Frame, Ma!NeedMore
    <2>2. Len(b) < m + n
      BY <1>1, <1>4, <1>6
    <2>3. QED
      BY <2>1, <2>2 DEF m, n, p
  <1>7. CASE ~(Len(b) < 6)
    <2>1. \A i \in 1 .. 6 : b[i] = t[i]
      <3>1. \A i \in 1 .. 6 : i \in 1 .. Len(b) /\ i <= m + n
        BY <1>1, <1>4, <1>7
      <3>2. QED
        BY <1>5, <3>1
    <2>2. /\ b[2] = Ma!F1(f) /\ b[3] = pf /\ b[4] = ps /\ b[5] = f.src /\ b[6] = t[6]
      BY <1>1, <2>1
    <2>3. /\ ~(b[2] < 128) /\ (b[2] \div 2) % 4 = f.type /\ (b[2] \div 16) % 8 = f.prio /\ b[2] % 2 = page
      <3>1. /\ b[2] \in Ma!Byte /\ b[2] >= 128 /\ (b[2] \div 2) % 4 = f.type /\ (b[2] \div 16) % 8 = f.prio
            /\ b[2] % 2 = page
        BY <1>3, <2>2, Zenon DEF HeaderIs
      <3>2. ~(b[2] < 128)
        <4> DEFINE y == b[2]
        <4>1. y \in Ma!Byte /\ y >= 128
          BY <3>1, Zenon
        <4> HIDE DEF y
        <4>2. ~(y < 128)
          BY <4>1 DEF Ma!Byte
        <4>3. QED
          BY <4>2, Zenon DEF y
      <3>3. QED
        BY <3>1, <3>2, Zenon
    <2>4. Ma!HeaderLen(b) = m
      <3>1. Ma!HeaderLen(b) = IF f.type = 3 THEN 7 ELSE 6
        BY <2>3, Zenon DEF Ma!HeaderLen
      <3>2. QED
        BY <1>4, <3>1
    <2>5. Len(b) < m \/ Ma!PayloadLen(b) = n
      <3>1. CASE f.type = 3
        <4>1. Len(b) < m \/ b[7] = t[7]
          <5>1. Len(b) < m \/ (7 \in 1 .. Len(b) /\ 7 <= m + n)
            BY <1>1, <1>4, <3>1
          <5>2. QED
            BY <1>5, <5>1
        <4>2. Ma!PayloadLen(b) = b[6] + 256 * b[7]
          BY <1>4, <2>4, <3>1 DEF Ma!PayloadLen
        <4>3. t[6] + 256 * t[7] = n
          BY <1>1, <3>1
        <4>4. QED
          BY <2>2, <4>1, <4>2, <4>3
      <3>2. CASE f.type # 3
        <4>1. Ma!PayloadLen(b) = b[6]
          BY <1>4, <2>4, <3>2 DEF Ma!PayloadLen
        <4>2. QED
          BY <1>1, <2>2, <3>2, <4>1
      <3>3. QED
        BY <3>1, <3>2
    <2>9. Ma!PgnOf(b) = f.pgn /\ Ma!DstOf(b) = f.dst
      <3> DEFINE last == IF pf < 240 THEN 0 ELSE ps
      <3>1. Ma!PgnOf(b) = Whole(page, pf, last) /\ Ma!DstOf(b) = IF pf < 240 THEN ps ELSE 255
        <4>1. Ma!PgnOf(b) = Whole(b[2] % 2, b[3], IF b[3] < 240 THEN 0 ELSE b[4])
          BY DEF Ma!PgnOf, Whole
        <4>2. Ma!DstOf(b) = IF b[3] < 240 THEN b[4] ELSE 255
          BY DEF Ma!DstOf
        <4>3. b[2] % 2 = page /\ b[3] = pf /\ b[4] = ps
          BY <2>2, <2>3
        <4>4. QED
          BY <4>1, <4>2, <4>3, Zenon
      <3>2. CASE pf < 240
        <4>1. f.pgn % 256 = 0 /\ ps = f.dst
          BY <1>2, <1>9, <3>2
        <4>2. QED
          BY <1>0, <3>1, <3>2, <4>1
      <3>3. CASE ~(pf < 240)
        <4>1. f.dst = 255 /\ ps = f.pgn % 256
          BY <1>2, <1>9, <3>3
        <4>2. QED
          BY <1>0, <3>1, <3>3, <4>1
      <3>4. QED
        BY <3>2, <3>3
    <2> DEFINE read == [kind |-> "frame", consumed |-> m + n,
                        frame |-> [kind |-> "frame", prio |-> f.prio, type |-> f.type, pgn |-> f.pgn, dst |-> f.dst,
                                   src |-> f.src, payload |-> SubSeq(b, m + 1, m + n)]]
    <2>6. CASE Len(b) < m + n
      <3>1. Len(b) < Ma!HeaderLen(b) \/ Len(b) < Ma!HeaderLen(b) + Ma!PayloadLen(b)
        BY <2>4, <2>5, <2>6
      <3>2. Ma!Frame(b) = Ma!NeedMore
        BY <1>7, <2>3, <3>1, Zenon DEF Ma!Frame
      <3>3. QED
        BY <2>6, <3>2 DEF Ma!NeedMore, m, n, p
    <2>7. CASE ~(Len(b) < m + n)
      <3>1. Ma!PayloadLen(b) = n /\ ~(Len(b) < m)
        BY <1>1, <1>4, <2>5, <2>7
      <3>2. Ma!Frame(b) = read
        BY <1>7, <2>2, <2>3, <2>4, <2>7, <2>9, <3>1, Zenon DEF Ma!Frame
      <3>3. SubSeq(b, m + 1, m + n) = p
        <4> DEFINE u == SubSeq(b, m + 1, m + n)
        <4>1. m + 1 \in Nat /\ m + n \in Nat /\ \A i \in m + 1 .. m + n : i \in 1 .. Len(b)
          BY <1>1, <1>4, <2>7
        <4>2. \A i \in m + 1 .. m + n : b[i] \in Ma!Byte
          BY <4>1, ElementOfSeq
        <4>3. u \in Seq(Ma!Byte) /\ Len(u) = n /\ \A i \in 1 .. n : u[i] = b[m + i]
          BY <1>1, <1>4, <2>7, <4>1, <4>2
        <4> HIDE DEF u
        <4>4. \A i \in 1 .. n : u[i] = p[i]
          <5>1. TAKE i \in 1 .. n
          <5>2. m + i \in 1 .. Len(b) /\ m + i <= m + n
            BY <1>1, <1>4, <2>7
          <5>3. b[m + i] = t[m + i]
            BY <1>5, <5>2
          <5>4. QED
            BY <1>1, <4>3, <5>3
        <4>5. n = Len(p)
          BY DEF n
        <4>6. u = p
          BY <1>2, <4>3, <4>4, <4>5, SeqEqual
        <4>7. QED
          BY <4>6 DEF u
      <3>4. read.frame = f
        BY <1>2, <3>3
      <3>5. QED
        BY <2>7, <3>2, <3>4 DEF m, n, p
    <2>8. QED
      BY <2>6, <2>7
  <1>8. QED
    BY <1>6, <1>7

\* What the parser makes of a buffer that begins with an item.
ItemParsed(e, item, size) ==
    IF size < Len(Ma!Encoded(item)) THEN e.kind = "more"
    ELSE /\ e.consumed = Len(Ma!Encoded(item))
         /\ \/ item.kind = "frame" /\ e.kind = "frame" /\ e.frame = item
            \/ item.kind = "text" /\ e.kind = "text" /\ e.word = item.word
            \/ item.kind = "text" /\ e.kind = "drop" /\ item.word # Ma!CONNECTED /\ item.word # Ma!NO

LEMMA ItemIsBytes ==
    ASSUME NEW item \in SaidItems
    PROVE  Ma!Encoded(item) \in Seq(Ma!Byte) /\ Len(Ma!Encoded(item)) \in Nat /\ Len(Ma!Encoded(item)) > 0
  <1>1. CASE item \in SaidFrames
    <2>1. item.kind = "frame"
      BY <1>1 DEF SaidFrames
    <2>2. Ma!Encoded(item) = Ma!FrameBytes(item)
      BY <2>1 DEF Ma!Encoded
    <2>3. /\ Ma!FrameBytes(item) \in Seq(Ma!Byte) /\ Len(Ma!FrameBytes(item)) = Start(item) + Len(item.payload)
          /\ Len(item.payload) \in Nat
      BY <1>1, FrameIsBytes
    <2>4. Start(item) \in {6, 7}
      BY DEF Start
    <2>5. QED
      BY <2>2, <2>3, <2>4
  <1>2. CASE item \in SaidTexts
    <2>1. item.kind = "text" /\ item.word \in Seq(Ma!Byte)
      BY <1>2 DEF SaidTexts
    <2>2. Ma!Encoded(item) = item.word \o <<0>>
      BY <2>1 DEF Ma!Encoded
    <2> DEFINE w == item.word
    <2>3. w \in Seq(Ma!Byte) /\ <<0>> \in Seq(Ma!Byte) /\ Len(<<0>>) = 1
      BY <2>1 DEF Ma!Byte
    <2> HIDE DEF w
    <2>4. w \o <<0>> \in Seq(Ma!Byte) /\ Len(w \o <<0>>) = Len(w) + 1 /\ Len(w) \in Nat
      BY <2>3, ConcatProperties
    <2>5. QED
      BY <2>2, <2>4 DEF w
  <1>3. QED
    BY <1>1, <1>2 DEF SaidItems

LEMMA ParsedItem ==
    ASSUME NEW item \in SaidItems, NEW s \in {"AwaitHandshake", "Streaming"},
           item.kind = "frame" => s = "Streaming",
           NEW b \in Seq(Ma!Byte), b # <<>>, BeginsLike(b, Ma!Encoded(item))
    PROVE  ItemParsed(Ma!Parse(b, s), item, Len(b))
  <1> DEFINE t == Ma!Encoded(item)
  <1>1. t \in Seq(Ma!Byte) /\ Len(t) \in Nat /\ Len(t) > 0 /\ Len(b) \in Nat /\ Len(b) > 0
    BY ItemIsBytes
  <1>2. b[1] = t[1]
    <2>1. 1 \in 1 .. Len(b) /\ 1 <= Len(t)
      BY <1>1
    <2>2. QED
      BY <2>1 DEF BeginsLike
  <1>3. CASE item \in SaidFrames
    <2>1. item.kind = "frame"
      BY <1>3 DEF SaidFrames
    <2>2. t = Ma!FrameBytes(item) /\ Len(t) = Start(item) + Len(item.payload) /\ t[1] = Ma!SYNC
      BY <1>3, <2>1, FrameIsBytes DEF Ma!Encoded
    <2>3. Ma!Parse(b, s) = Ma!Frame(b)
      <3> HIDE DEF t
      <3>1. s = "Streaming" /\ b[1] = Ma!SYNC
        BY <1>2, <2>1, <2>2
      <3>2. s # "AwaitHandshake" /\ b[1] \notin {Ma!VIDEO, Ma!ASCII} /\ ~(b[1] < 128)
        BY <3>1 DEF Ma!SYNC, Ma!VIDEO, Ma!ASCII
      <3>3. QED
        BY <3>1, <3>2, Zenon DEF Ma!Parse
    <2>4. IF Len(b) < Len(t) THEN Ma!Frame(b).kind = "more"
          ELSE Ma!Frame(b).kind = "frame" /\ Ma!Frame(b).consumed = Len(t) /\ Ma!Frame(b).frame = item
      <3>1. BeginsLike(b, Ma!FrameBytes(item))
        BY <2>2, Zenon DEF t
      <3> HIDE DEF t
      <3>2. QED
        BY <1>3, <2>2, <3>1, FrameParsed
    <2>5. QED
      BY <2>1, <2>3, <2>4, Zenon DEF ItemParsed
  <1>4. CASE item \in SaidTexts
    <2> DEFINE w == item.word
               n == Len(w) + 1
    <2>1. /\ item.kind = "text" /\ w \in Seq(Ma!Byte) /\ (\A i \in 1 .. Len(w) : w[i] # 0)
          /\ (w # <<>> => w[1] < 128)
      BY <1>4 DEF SaidTexts
    <2>2. t = w \o <<0>>
      BY <2>1 DEF Ma!Encoded
    <2>3. BeginsLike(b, w \o <<0>>)
      BY <2>2, Zenon DEF t
    <2> HIDE DEF t, w
    <2>4. /\ <<0>> \in Seq(Ma!Byte) /\ Len(<<0>>) = 1 /\ <<0>>[1] = 0
      BY DEF Ma!Byte
    <2>5. Len(t) = n /\ Len(w) \in Nat /\ \A i \in 1 .. n : t[i] = IF i <= Len(w) THEN w[i] ELSE <<0>>[i - Len(w)]
      BY <2>1, <2>2, <2>4, ConcatProperties
    <2>6. IF w = <<>> THEN b[1] = 0 ELSE b[1] = w[1]
      <3>1. CASE w = <<>>
        <4>1. Len(w) = 0
          BY <3>1
        <4>2. t[1] = <<0>>[1]
          BY <2>5, <4>1
        <4>3. QED
          BY <1>2, <2>4, <3>1, <4>2
      <3>2. CASE w # <<>>
        <4>1. Len(w) >= 1
          BY <2>1, <3>2
        <4>2. QED
          BY <1>2, <2>5, <3>2, <4>1
      <3>3. QED
        BY <3>1, <3>2
    <2>7. b[1] < 128 /\ b[1] # Ma!SYNC
      BY <2>1, <2>6 DEF Ma!SYNC
    <2>8. IF Len(b) < n THEN Ma!Nul(b) = {}
          ELSE Ma!Nul(b) = {n} /\ (CHOOSE i \in Ma!Nul(b) : TRUE) = n /\ SubSeq(b, 1, n - 1) = w
      BY <2>1, <2>3, TextParsed
    <2> HIDE DEF n
    <2>9. IF Len(b) < n THEN Ma!Text(b).kind = "more"
          ELSE Ma!Text(b).kind = "text" /\ Ma!Text(b).word = w /\ Ma!Text(b).consumed = n
      <3>1. CASE Len(b) < n
        BY <2>8, <3>1 DEF Ma!Text, Ma!NeedMore
      <3>2. CASE ~(Len(b) < n)
        <4>1. Ma!Nul(b) # {} /\ (CHOOSE i \in Ma!Nul(b) : TRUE) = n /\ SubSeq(b, 1, n - 1) = w
          BY <2>8, <3>2
        <4>2. Ma!Text(b) = [kind |-> "text", word |-> SubSeq(b, 1, n - 1), consumed |-> n]
          BY <4>1, Zenon DEF Ma!Text
        <4>3. QED
          BY <3>2, <4>1, <4>2
      <3>3. QED
        BY <3>1, <3>2
    <2>10. CASE Ma!Parse(b, s) = Ma!Text(b)
      <3> DEFINE e == Ma!Text(b)
      <3> HIDE DEF e
      <3>1. IF Len(b) < n THEN e.kind = "more" ELSE e.kind = "text" /\ e.word = w /\ e.consumed = n
        BY <2>9 DEF e
      <3>2. Len(Ma!Encoded(item)) = n
        BY <2>5 DEF t
      <3>3. ItemParsed(e, item, Len(b))
        BY <2>1, <3>1, <3>2 DEF ItemParsed, w
      <3>4. QED
        BY <2>10, <3>3, Zenon DEF e
    <2>11. CASE s = "Streaming" /\ b[1] \in {Ma!VIDEO, Ma!ASCII}
      <3>1. Ma!Parse(b, s) = IF Ma!Nul(b) = {} THEN Ma!NeedMore ELSE Ma!Drop(CHOOSE i \in Ma!Nul(b) : TRUE)
        <4>1. "Streaming" # "AwaitHandshake"
          OBVIOUS
        <4>2. QED
          BY <2>7, <2>11, <4>1, Zenon DEF Ma!Parse
      <3>2. Ma!Parse(b, s) = IF Len(b) < n THEN Ma!NeedMore ELSE Ma!Drop(n)
        <4>1. CASE Len(b) < n
          BY <2>8, <3>1, <4>1, Zenon
        <4>2. CASE ~(Len(b) < n)
          <5>1. Ma!Nul(b) # {} /\ (CHOOSE i \in Ma!Nul(b) : TRUE) = n
            BY <2>8, <4>2
          <5>2. QED
            BY <3>1, <4>2, <5>1, Zenon
        <4>3. QED
          BY <4>1, <4>2
      <3>3. w # Ma!CONNECTED /\ w # Ma!NO
        <4>1. b[1] # 0 /\ b[1] # 67 /\ b[1] # 78
          BY <2>11 DEF Ma!VIDEO, Ma!ASCII
        <4>2. w[1] # 67 /\ w[1] # 78
          BY <2>6, <4>1
        <4>3. QED
          BY <4>2 DEF Ma!CONNECTED, Ma!NO
      <3> DEFINE e == Ma!Parse(b, s)
      <3>4. IF Len(b) < n THEN e.kind = "more" ELSE e.kind = "drop" /\ e.consumed = n
        <4>1. CASE Len(b) < n
          BY <3>2, <4>1 DEF Ma!NeedMore
        <4>2. CASE ~(Len(b) < n)
          BY <3>2, <4>2 DEF Ma!Drop
        <4>3. QED
          BY <4>1, <4>2
      <3> HIDE DEF e
      <3>5. Len(Ma!Encoded(item)) = n
        BY <2>5 DEF t
      <3>6. ItemParsed(e, item, Len(b))
        BY <2>1, <3>3, <3>4, <3>5 DEF ItemParsed, w
      <3>7. QED
        BY <3>6 DEF e
    <2>12. Ma!Parse(b, s) = Ma!Text(b) \/ (s = "Streaming" /\ b[1] \in {Ma!VIDEO, Ma!ASCII})
      <3>1. CASE s = "AwaitHandshake"
        BY <3>1, Zenon DEF Ma!Parse
      <3>2. CASE s = "Streaming" /\ b[1] \notin {Ma!VIDEO, Ma!ASCII}
        <4>1. "Streaming" # "AwaitHandshake"
          OBVIOUS
        <4>2. QED
          BY <2>7, <3>2, <4>1, Zenon DEF Ma!Parse
      <3>3. QED
        BY <3>1, <3>2
    <2>13. QED
      BY <2>10, <2>11, <2>12
  <1>5. QED
    BY <1>3, <1>4 DEF SaidItems

-----------------------------------------------------------------------------
(* The items on the wire, and the parser among them.                       *)

\* What was joined first is also joined when one more piece follows.
LEMMA JoinsOnward ==
    ASSUME NEW B, NEW N \in Nat, NEW P \in Pieces(N, B), NEW Q \in Pieces(N + 1, B), \A k \in 1 .. N : Q[k] = P[k],
           NEW f \in Rests(N, B), NEW h \in Rests(N + 1, B), Joins(f, P, N), Joins(h, Q, N + 1)
    PROVE  \A k \in 1 .. N + 1 : h[k] = f[k] \o Q[N + 1]
  <1> DEFINE q == Q[N + 1]
             r == [k \in 1 .. (N + 1) + 1 |-> IF k = (N + 1) + 1 THEN <<>> ELSE f[k] \o q]
  <1>1. /\ q \in Seq(B) /\ (\A k \in 1 .. N : P[k] \in Seq(B)) /\ (\A k \in 1 .. N + 1 : f[k] \in Seq(B))
        /\ f[N + 1] = <<>> /\ \A k \in 1 .. N : f[k] = P[k] \o f[k + 1]
    <2>1. N + 1 \in 1 .. N + 1
      OBVIOUS
    <2>2. QED
      BY <2>1 DEF Pieces, Rests, Joins
  <1>2. Q[N + 1] = q
    OBVIOUS
  <1> HIDE DEF q
  <1>3. r[(N + 1) + 1] = <<>> /\ \A k \in 1 .. N + 1 : r[k] = f[k] \o q
    OBVIOUS
  <1> HIDE DEF r
  <1>4. ASSUME NEW k \in 1 .. N + 1
        PROVE  r[k] = Q[k] \o r[k + 1]
    <2>1. CASE k = N + 1
      <3>1. r[k] = <<>> \o q /\ r[k + 1] = <<>> /\ Q[k] = q
        BY <1>1, <1>2, <1>3, <2>1
      <3>2. <<>> \o q = q /\ q \o <<>> = q
        BY <1>1, ConcatEmptySeq
      <3>3. QED
        BY <3>1, <3>2
    <2>2. CASE k # N + 1
      <3>1. k \in 1 .. N /\ k + 1 \in 1 .. N + 1
        BY <2>2
      <3>2. r[k] = (P[k] \o f[k + 1]) \o q /\ r[k + 1] = f[k + 1] \o q /\ Q[k] = P[k]
        BY <1>1, <1>3, <3>1
      <3>3. (P[k] \o f[k + 1]) \o q = P[k] \o (f[k + 1] \o q)
        <4> DEFINE x == P[k]
                   y == f[k + 1]
        <4>1. x \in Seq(B) /\ y \in Seq(B)
          BY <1>1, <3>1
        <4> HIDE DEF x, y
        <4>2. (x \o y) \o q = x \o (y \o q)
          BY <1>1, <4>1, ConcatAssociative
        <4>3. QED
          BY <4>2, Zenon DEF x, y
      <3>4. QED
        BY <3>2, <3>3, Zenon
    <2>3. QED
      BY <2>1, <2>2
  <1>5. Joins(r, Q, N + 1)
    BY <1>3, <1>4 DEF Joins
  <1>6. \A k \in 1 .. (N + 1) + 1 : h[k] = r[k]
    <2>1. N + 1 \in Nat
      OBVIOUS
    <2>2. QED
      BY <1>5, <2>1, JoinsAlike
  <1>7. ASSUME NEW k \in 1 .. N + 1
        PROVE  h[k] = f[k] \o q
    <2>1. k \in 1 .. (N + 1) + 1
      OBVIOUS
    <2>2. QED
      BY <1>3, <1>6, <2>1
  <1>8. QED
    BY <1>2, <1>7

\* Two ways to cut the same bytes: what is left of the longer piece goes on as the other rest.
LEMMA CutOff ==
    ASSUME NEW B, NEW x \in Seq(B), NEW u \in Seq(B), NEW y \in Seq(B), NEW v \in Seq(B),
           x \o u = y \o v, Len(y) <= Len(x)
    PROVE  SubSeq(x, Len(y) + 1, Len(x)) \o u = v
  <1> DEFINE m == Len(y)
             l == Len(x)
             c == SubSeq(x, m + 1, l)
             w == c \o u
  <1>1. m \in Nat /\ l \in Nat /\ m <= l /\ Len(u) \in Nat /\ Len(v) \in Nat
    OBVIOUS
  <1>2. c \in Seq(B) /\ Len(c) = l - m /\ \A i \in 1 .. l - m : c[i] = x[m + i]
    <2>1. m + 1 \in Nat /\ \A i \in m + 1 .. l : i \in 1 .. l
      BY <1>1
    <2>2. \A i \in m + 1 .. l : x[i] \in B
      BY <2>1, ElementOfSeq
    <2>3. QED
      BY <1>1, <2>1, <2>2
  <1>3. /\ x \o u \in Seq(B) /\ Len(x \o u) = l + Len(u)
        /\ \A i \in 1 .. l + Len(u) : (x \o u)[i] = IF i <= l THEN x[i] ELSE u[i - l]
    BY ConcatProperties
  <1>4. /\ y \o v \in Seq(B) /\ Len(y \o v) = m + Len(v)
        /\ \A i \in 1 .. m + Len(v) : (y \o v)[i] = IF i <= m THEN y[i] ELSE v[i - m]
    BY ConcatProperties
  <1> DEFINE z == x \o u
  <1>5. /\ Len(z) = l + Len(u) /\ Len(z) = m + Len(v)
        /\ \A i \in 1 .. l + Len(u) : z[i] = IF i <= l THEN x[i] ELSE u[i - l]
        /\ \A i \in 1 .. m + Len(v) : z[i] = IF i <= m THEN y[i] ELSE v[i - m]
    BY <1>3, <1>4
  <1> HIDE DEF c, z
  <1>6. w \in Seq(B) /\ Len(w) = Len(c) + Len(u) /\ \A i \in 1 .. Len(c) + Len(u) : w[i] = IF i <= Len(c) THEN c[i] ELSE u[i - Len(c)]
    BY <1>2, ConcatProperties
  <1> HIDE DEF w, m, l
  <1>7. Len(w) = Len(v)
    <2>1. Len(w) = (l - m) + Len(u)
      BY <1>2, <1>6
    <2>2. l + Len(u) = m + Len(v)
      BY <1>5
    <2>3. QED
      BY <1>1, <2>1, <2>2
  <1>8. ASSUME NEW i \in 1 .. Len(w)
        PROVE  w[i] = v[i]
    <2>1. /\ m + i \in 1 .. l + Len(u) /\ m + i \in 1 .. m + Len(v) /\ ~(m + i <= m) /\ (m + i) - m = i
          /\ i \in 1 .. Len(c) + Len(u)
      BY <1>1, <1>2, <1>5, <1>6, <1>7
    <2>2. z[m + i] = v[i]
      BY <1>5, <2>1
    <2>3. CASE i <= l - m
      <3>1. i \in 1 .. l - m /\ m + i <= l
        BY <1>1, <2>3
      <3>2. w[i] = c[i] /\ c[i] = x[m + i]
        BY <1>2, <1>6, <2>1, <2>3, <3>1
      <3>3. z[m + i] = x[m + i]
        BY <1>5, <2>1, <3>1
      <3>4. QED
        BY <2>2, <3>2, <3>3
    <2>4. CASE ~(i <= l - m)
      <3>1. ~(m + i <= l) /\ (m + i) - l = i - Len(c)
        BY <1>1, <1>2, <2>4
      <3>2. w[i] = u[i - Len(c)]
        BY <1>2, <1>6, <2>1, <2>4
      <3>3. z[m + i] = u[(m + i) - l]
        BY <1>5, <2>1, <3>1
      <3>4. QED
        BY <2>2, <3>1, <3>2, <3>3
    <2>5. QED
      BY <2>3, <2>4
  <1>9. w = v
    BY <1>6, <1>7, <1>8, SeqEqual
  <1>10. QED
    BY <1>9 DEF w, c, m, l

\* The items' bytes from each one on.
Said(items) == [k \in 1 .. Len(items) |-> Ma!Encoded(items[k])]
Flat(items) == CHOOSE f \in Rests(Len(items), Ma!Byte) : Joins(f, Said(items), Len(items))

LEMMA FlatGoesOn ==
    ASSUME NEW items \in Seq(SaidItems)
    PROVE  /\ Said(items) \in Pieces(Len(items), Ma!Byte)
           /\ Flat(items) \in Rests(Len(items), Ma!Byte) /\ Joins(Flat(items), Said(items), Len(items))
           /\ \A k \in 1 .. Len(items) + 1 : Flat(items)[k] \in Seq(Ma!Byte)
           /\ Flat(items)[Len(items) + 1] = <<>>
           /\ \A k \in 1 .. Len(items) : Flat(items)[k] = Ma!Encoded(items[k]) \o Flat(items)[k + 1]
  <1> DEFINE N == Len(items)
             P == Said(items)
  <1>1. N \in Nat /\ \A k \in 1 .. N : items[k] \in SaidItems
    OBVIOUS
  <1>2. P \in Pieces(N, Ma!Byte)
    <2>1. \A k \in 1 .. N : Ma!Encoded(items[k]) \in Seq(Ma!Byte)
      BY <1>1, ItemIsBytes
    <2>2. QED
      BY <2>1, Zenon DEF Pieces, Said
  <1>3. \A k \in 1 .. N : P[k] = Ma!Encoded(items[k])
    BY DEF Said
  <1> HIDE DEF N, P
  <1>4. \E f \in Rests(N, Ma!Byte) : Joins(f, P, N)
    BY <1>1, <1>2, JoinsExist
  <1> DEFINE f == Flat(items)
  <1>5. f \in Rests(N, Ma!Byte) /\ Joins(f, P, N)
    BY <1>4, Zenon DEF Flat, N, P
  <1> HIDE DEF f
  <1>6. \A k \in 1 .. N + 1 : f[k] \in Seq(Ma!Byte)
    BY <1>5 DEF Rests
  <1>7. f[N + 1] = <<>> /\ \A k \in 1 .. N : f[k] = Ma!Encoded(items[k]) \o f[k + 1]
    BY <1>3, <1>5 DEF Joins
  <1>8. QED
    BY <1>2, <1>5, <1>6, <1>7 DEF f, N, P

\* One more item follows all the bytes there are.
LEMMA FlatOfAppend ==
    ASSUME NEW items \in Seq(SaidItems), NEW item \in SaidItems
    PROVE  \A k \in 1 .. Len(items) + 1 : Flat(Append(items, item))[k] = Flat(items)[k] \o Ma!Encoded(item)
  <1> DEFINE more == Append(items, item)
             N == Len(items)
  <1>1. /\ more \in Seq(SaidItems) /\ Len(more) = N + 1 /\ more[N + 1] = item /\ N \in Nat
        /\ \A i \in 1 .. N : items[i] = more[i]
    BY AppendProperties
  <1> HIDE DEF more
  <1>2. /\ Said(items) \in Pieces(N, Ma!Byte) /\ Flat(items) \in Rests(N, Ma!Byte)
        /\ Joins(Flat(items), Said(items), N)
    BY FlatGoesOn
  <1>3. /\ Said(more) \in Pieces(N + 1, Ma!Byte) /\ Flat(more) \in Rests(N + 1, Ma!Byte)
        /\ Joins(Flat(more), Said(more), N + 1)
    BY <1>1, FlatGoesOn
  <1>4. (\A k \in 1 .. N : Said(more)[k] = Said(items)[k]) /\ Said(more)[N + 1] = Ma!Encoded(item)
    <2>1. \A k \in 1 .. N : k \in 1 .. N + 1
      BY <1>1
    <2>2. N + 1 \in 1 .. N + 1
      BY <1>1
    <2>3. QED
      BY <1>1, <2>1, <2>2 DEF Said
  <1> HIDE DEF N
  <1>5. \A k \in 1 .. N + 1 : Flat(more)[k] = Flat(items)[k] \o Said(more)[N + 1]
    BY <1>1, <1>2, <1>3, <1>4, JoinsOnward
  <1>6. QED
    BY <1>4, <1>5 DEF N, more

-----------------------------------------------------------------------------
(* The decoder, in step with what was said.                                *)

DecoderStates == [acc : Seq(Ma!Byte), session : {"AwaitHandshake", "Streaming"}, set_mode : Nat, events : Seq(Handed)]

\* A decoder that took the first c items, with the others' bytes in its buffer and on their way.
TookFirst(st, items, u, c) ==
    /\ st.acc \o u = Flat(items)[c + 1]
    /\ Ma!FramesAmong(st.events) = Ma!AsDue(Ma!FramesTo(items)[c])
    /\ st.set_mode = Ma!ConnectedTo(items)[c]
InStep(items, u) ==
    {st \in DecoderStates :
        /\ (st.session = "Streaming") = (st.set_mode > 0)
        /\ \A k \in 1 .. Len(items) : items[k].kind = "frame" => st.set_mode > 0
        /\ \E c \in 0 .. Len(items) : TookFirst(st, items, u, c)}
IsSettled(st) == Ma!Parse(st.acc, st.session).kind = "more"

\* What the buffer begins with is the next item, when there is one.
LEMMA NextInBuffer ==
    ASSUME NEW items \in Seq(SaidItems), NEW u \in Seq(Ma!Byte), NEW st \in DecoderStates,
           NEW c \in 0 .. Len(items), TookFirst(st, items, u, c)
    PROVE  /\ c = Len(items) => st.acc = <<>>
           /\ c # Len(items) =>
                /\ c + 1 \in 1 .. Len(items) /\ items[c + 1] \in SaidItems
                /\ Flat(items)[c + 1] = Ma!Encoded(items[c + 1]) \o Flat(items)[c + 2]
                /\ Flat(items)[c + 2] \in Seq(Ma!Byte)
                /\ BeginsLike(st.acc, Ma!Encoded(items[c + 1]))
  <1> DEFINE f == Flat(items)
             N == Len(items)
             a == st.acc
             z == a \o u
  <1>1. /\ \A k \in 1 .. N + 1 : f[k] \in Seq(Ma!Byte)
        /\ f[N + 1] = <<>>
        /\ \A k \in 1 .. N : f[k] = Ma!Encoded(items[k]) \o f[k + 1]
    BY FlatGoesOn
  <1>2. a \in Seq(Ma!Byte) /\ N \in Nat /\ \A k \in 1 .. N : items[k] \in SaidItems
    BY DEF DecoderStates
  <1>3. z = f[c + 1]
    BY DEF TookFirst
  <1> HIDE DEF f, N, a
  <1>4. /\ z \in Seq(Ma!Byte) /\ Len(z) = Len(a) + Len(u)
        /\ \A i \in 1 .. Len(a) + Len(u) : z[i] = IF i <= Len(a) THEN a[i] ELSE u[i - Len(a)]
    BY <1>2, ConcatProperties
  <1> HIDE DEF z
  <1>5. Len(a) \in Nat /\ Len(u) \in Nat
    BY <1>2
  <1>6. CASE c = N
    <2>1. z = <<>>
      BY <1>1, <1>3, <1>6
    <2>2. Len(a) = 0
      BY <1>4, <1>5, <2>1
    <2>3. a = <<>>
      BY <1>2, <2>2, EmptySeq
    <2>4. QED
      BY <1>6, <2>3 DEF a, N
  <1>7. CASE c # N
    <2>1. c + 1 \in 1 .. N /\ (c + 1) + 1 = c + 2 /\ c + 2 \in 1 .. N + 1
      BY <1>2, <1>7 DEF N
    <2> DEFINE item == items[c + 1]
               t == Ma!Encoded(item)
               v == f[c + 2]
    <2>2. item \in SaidItems /\ v \in Seq(Ma!Byte) /\ f[c + 1] = t \o v
      BY <1>1, <1>2, <2>1
    <2> HIDE DEF item
    <2>3. t \in Seq(Ma!Byte)
      BY <2>2, ItemIsBytes
    <2> HIDE DEF v
    <2>4. z = t \o v
      BY <1>3, <2>2
    <2> HIDE DEF t
    <2>5. /\ Len(t) \in Nat /\ Len(v) \in Nat
          /\ \A i \in 1 .. Len(t) + Len(v) : (t \o v)[i] = IF i <= Len(t) THEN t[i] ELSE v[i - Len(t)]
      BY <2>2, <2>3, ConcatProperties
    <2>6. ASSUME NEW i \in 1 .. Len(a), i <= Len(t)
          PROVE  a[i] = t[i]
      <3>1. i \in 1 .. Len(a) + Len(u) /\ i <= Len(a) /\ i \in 1 .. Len(t) + Len(v)
        BY <1>5, <2>5, <2>6
      <3>2. z[i] = a[i]
        BY <1>4, <3>1
      <3>3. (t \o v)[i] = t[i]
        BY <2>5, <2>6, <3>1
      <3>4. QED
        BY <2>4, <3>2, <3>3
    <2>7. BeginsLike(a, t)
      BY <2>6 DEF BeginsLike
    <2>8. QED
      BY <1>7, <2>1, <2>2, <2>7 DEF a, N, t, item, v, f
  <1>8. QED
    BY <1>6, <1>7 DEF N

\* One turn of the loop takes the next item whole, or waits for more of it.
LEMMA TurnStaysInStep ==
    ASSUME NEW items \in Seq(SaidItems), NEW u \in Seq(Ma!Byte), NEW st \in InStep(items, u)
    PROVE  /\ Ma!Stepped(st) \in InStep(items, u)
           /\ \/ IsSettled(st) /\ Ma!Stepped(st) = st
              \/ Len(Ma!Stepped(st).acc) < Len(st.acc)
  <1> DEFINE e == Ma!Parse(st.acc, st.session)
             N == Len(items)
             f == Flat(items)
  <1>1. CASE e.kind = "more"
    <2> HIDE DEF e
    <2>1. Ma!Stepped(st) = st
      BY <1>1, Zenon DEF Ma!Stepped, e
    <2>2. IsSettled(st)
      BY <1>1, Zenon DEF IsSettled, e
    <2>3. QED
      BY <2>1, <2>2
  <1>2. CASE e.kind # "more"
    <2>1. /\ st \in DecoderStates /\ (st.session = "Streaming") = (st.set_mode > 0)
          /\ \A k \in 1 .. N : items[k].kind = "frame" => st.set_mode > 0
      BY DEF InStep
    <2>2. PICK c \in 0 .. N : TookFirst(st, items, u, c)
      BY DEF InStep
    <2>3. /\ st.acc \in Seq(Ma!Byte) /\ st.session \in {"AwaitHandshake", "Streaming"} /\ st.set_mode \in Nat
          /\ st.events \in Seq(Handed) /\ N \in Nat
      BY <2>1 DEF DecoderStates
    <2>4. st.acc # <<>>
      <3>1. ASSUME st.acc = <<>>
            PROVE  FALSE
        <4>1. e = Ma!NeedMore
          BY <3>1, Zenon DEF Ma!Parse
        <4>2. QED
          BY <1>2, <4>1 DEF Ma!NeedMore
      <3>2. QED
        BY <3>1
    <2> DEFINE item == items[c + 1]
               t == Ma!Encoded(item)
               v == f[c + 2]
               m == Len(t)
    <2>5. /\ c + 1 \in 1 .. N /\ item \in SaidItems /\ f[c + 1] = t \o v /\ v \in Seq(Ma!Byte) /\ BeginsLike(st.acc, t)
      <3>1. c # N
        BY <2>1, <2>2, <2>4, NextInBuffer
      <3>2. QED
        BY <2>1, <2>2, <3>1, NextInBuffer
    <2>6. t \in Seq(Ma!Byte) /\ m \in Nat /\ m > 0
      BY <2>5, ItemIsBytes
    <2>7. item.kind = "frame" => st.session = "Streaming"
      BY <2>1, <2>5
    <2>8. ItemParsed(e, item, Len(st.acc))
      BY <2>3, <2>4, <2>5, <2>7, ParsedItem
    <2> HIDE DEF e, f, t, v, m, N
    <2>9. /\ m <= Len(st.acc) /\ e.consumed = m
          /\ \/ item.kind = "frame" /\ e.kind = "frame" /\ e.frame = item
             \/ item.kind = "text" /\ e.kind = "text" /\ e.word = item.word
             \/ item.kind = "text" /\ e.kind = "drop" /\ item.word # Ma!CONNECTED /\ item.word # Ma!NO
      <3>1. ~(Len(st.acc) < m) /\ Len(st.acc) \in Nat
        BY <1>2, <2>3, <2>8 DEF ItemParsed, t, m
      <3>2. m <= Len(st.acc)
        BY <2>6, <3>1
      <3>3. QED
        BY <2>8, <3>1, <3>2 DEF ItemParsed, t, m
    <2> DEFINE left == SubSeq(st.acc, m + 1, Len(st.acc))
               rest == [st EXCEPT !.acc = left]
    <2>10. /\ left \in Seq(Ma!Byte) /\ Len(left) = Len(st.acc) - m /\ left \o u = v
      <3> DEFINE a == st.acc
      <3>1. a \in Seq(Ma!Byte) /\ m <= Len(a) /\ Len(a) \in Nat
        BY <2>3, <2>9
      <3>2. a \o u = t \o v
        BY <2>2, <2>5 DEF TookFirst, f
      <3> HIDE DEF a
      <3>3. SubSeq(a, m + 1, Len(a)) \o u = v
        BY <2>5, <2>6, <3>1, <3>2, CutOff DEF m
      <3>4. SubSeq(a, m + 1, Len(a)) \in Seq(Ma!Byte) /\ Len(SubSeq(a, m + 1, Len(a))) = Len(a) - m
        <4>1. m + 1 \in Nat /\ \A i \in m + 1 .. Len(a) : i \in 1 .. Len(a)
          BY <2>6, <3>1
        <4>2. \A i \in m + 1 .. Len(a) : a[i] \in Ma!Byte
          BY <3>1, <4>1, ElementOfSeq
        <4>3. QED
          BY <2>6, <3>1, <4>1, <4>2
      <3>5. QED
        BY <3>3, <3>4 DEF a
    <2>11. Len(left) < Len(st.acc)
      BY <2>3, <2>6, <2>10
    <2>12. Ma!Stepped(st) = Ma!AfterEvent(st, e)
      BY <1>2, Zenon DEF Ma!Stepped, e
    <2>13. /\ rest.acc = left /\ rest.session = st.session /\ rest.set_mode = st.set_mode /\ rest.events = st.events
           /\ rest \in DecoderStates
      <3> HIDE DEF left
      <3>1. QED
        BY <2>1, <2>3, <2>10 DEF DecoderStates
    <2>14. rest = [st EXCEPT !.acc = SubSeq(@, e.consumed + 1, Len(@))]
      BY <2>9
    <2> HIDE DEF left, rest
    <2>15. Ma!AfterEvent(st, e) =
              CASE e.kind = "drop"  -> rest
                [] e.kind = "frame" -> [rest EXCEPT !.events = Append(@, Ma!Raw(e.frame))]
                [] e.kind = "text" /\ Ma!Accepts(e.word) -> Ma!Accepted(rest)
                [] e.kind = "text" /\ e.word = Ma!NO /\ ~Ma!Accepts(e.word) ->
                      [rest EXCEPT !.events = Append(@, [kind |-> "error"])]
                [] OTHER -> rest
      BY <2>14, Zenon DEF Ma!AfterEvent
    <2> DEFINE r == Ma!Stepped(st)
               among(x) == Ma!FramesAmong(x)
               first(n) == Ma!AsDue(Ma!FramesTo(items)[n])
               counted(n) == Ma!ConnectedTo(items)[n]
    <2>16. /\ first(c + 1) = IF item.kind = "frame" THEN Append(first(c), Ma!Due(item)) ELSE first(c)
           /\ counted(c + 1) = IF Ma!IsConnected(item) THEN counted(c) + 1 ELSE counted(c)
           /\ c + 1 \in 0 .. N /\ (c + 1) + 1 = c + 2
      <3>1. (c + 1) - 1 = c /\ c + 1 \in 0 .. N /\ (c + 1) + 1 = c + 2
        BY <2>3, <2>5
      <3>2. first(c + 1) = IF item.kind = "frame" THEN Append(first((c + 1) - 1), Ma!Due(item)) ELSE first((c + 1) - 1)
        <4> DEFINE x == Ma!FramesTo(items)[(c + 1) - 1]
        <4>1. Ma!FramesTo(items)[c + 1] = IF item.kind = "frame" THEN Append(x, item) ELSE x
          BY <2>5, FramesGoOn DEF N
        <4>2. x \in Seq(SaidItems)
          BY <3>1, FramesGoOn DEF N
        <4> HIDE DEF x, item
        <4>3. Ma!AsDue(Append(x, item)) = Append(Ma!AsDue(x), Ma!Due(item))
          BY <2>5, <4>2, DueOfAppend
        <4>4. QED
          BY <4>1, <4>3, Zenon DEF x
      <3>3. counted(c + 1) = IF Ma!IsConnected(item) THEN counted((c + 1) - 1) + 1 ELSE counted((c + 1) - 1)
        BY <2>5, ConnectedGoOn DEF N
      <3>4. QED
        BY <3>1, <3>2, <3>3
    <2>17. among(st.events) = first(c) /\ st.set_mode = counted(c)
      BY <2>2 DEF TookFirst
    <2>18. /\ r \in DecoderStates /\ r.acc = left
           /\ among(r.events) = first(c + 1) /\ r.set_mode = counted(c + 1)
           /\ (r.session = "Streaming") = (r.set_mode > 0) /\ r.set_mode >= st.set_mode
      <3>1. CASE item.kind = "frame" /\ e.kind = "frame" /\ e.frame = item
        <4> DEFINE raw == Ma!Raw(item)
        <4>1. r = [rest EXCEPT !.events = Append(@, raw)]
          BY <2>12, <2>15, <3>1
        <4>2. item \in SaidFrames /\ ~Ma!IsConnected(item)
          BY <2>5, <3>1 DEF SaidItems, SaidTexts, Ma!IsConnected
        <4>8. raw = Ma!Due(item) /\ raw \in Handed /\ raw.kind = "frame"
          <5> HIDE DEF item
          <5>1. QED
            BY <4>2, RawIsDue
        <4> HIDE DEF raw
        <4>3. Append(st.events, raw) \in Seq(Handed)
          BY <2>3, <4>8, AppendProperties
        <4>4. /\ r \in DecoderStates /\ r.acc = left /\ r.session = st.session /\ r.set_mode = st.set_mode
              /\ r.events = Append(st.events, raw)
          <5> HIDE DEF r, item
          <5>1. QED
            BY <2>13, <4>1, <4>3 DEF DecoderStates
        <4>5. among(Append(st.events, raw)) = Append(among(st.events), raw)
          BY <2>3, <4>8, FramesOfAppend
        <4> HIDE DEF r, among, first, counted
        <4>6. among(r.events) = first(c + 1) /\ r.set_mode = counted(c + 1)
          BY <2>16, <2>17, <3>1, <4>2, <4>4, <4>5, <4>8
        <4>7. QED
          BY <2>1, <2>3, <4>4, <4>6
      <3>2. CASE item.kind = "text" /\ e.kind = "text" /\ e.word = item.word /\ item.word = Ma!CONNECTED
        <4>1. r = Ma!Accepted(rest)
          BY <2>12, <2>15, <3>2 DEF Ma!Accepts
        <4>2. /\ r \in DecoderStates /\ r.acc = left /\ r.session = "Streaming" /\ r.set_mode = st.set_mode + 1
              /\ r.events = st.events
          <5> HIDE DEF r, item, among, first, counted
          <5>1. r = [rest EXCEPT !.session = "Streaming", !.set_mode = @ + 1]
            BY <4>1, Zenon DEF Ma!Accepted
          <5>2. rest \in [acc : Seq(Ma!Byte), session : {"AwaitHandshake", "Streaming"}, set_mode : Nat, events : Seq(Handed)]
            BY <2>13 DEF DecoderStates
          <5>3. rest.set_mode + 1 = st.set_mode + 1 /\ st.set_mode + 1 \in Nat
            BY <2>3, <2>13
          <5>4. /\ r.acc = left /\ r.session = "Streaming" /\ r.set_mode = st.set_mode + 1 /\ r.events = st.events
            BY <2>13, <5>1, <5>2, <5>3
          <5>5. r \in DecoderStates
            BY <5>1, <5>2, <5>3, <5>4 DEF DecoderStates
          <5>6. QED
            BY <5>4, <5>5
        <4>3. Ma!IsConnected(item)
          BY <3>2 DEF Ma!IsConnected
        <4> HIDE DEF r, among, first, counted
        <4>4. among(r.events) = first(c + 1) /\ r.set_mode = counted(c + 1)
          BY <2>16, <2>17, <3>2, <4>2, <4>3
        <4>5. QED
          BY <2>3, <4>2, <4>4
      <3>3. CASE item.kind = "text" /\ e.kind = "text" /\ e.word = item.word /\ item.word = Ma!NO
        <4>1. ~Ma!Accepts(e.word) /\ ~Ma!IsConnected(item)
          BY <3>3 DEF Ma!Accepts, Ma!IsConnected, Ma!CONNECTED, Ma!NO
        <4> DEFINE error == [kind |-> "error"]
        <4>2. r = [rest EXCEPT !.events = Append(@, error)]
          BY <2>12, <2>15, <3>3, <4>1
        <4>3. error \in Handed /\ error.kind # "frame"
          BY DEF Handed
        <4> HIDE DEF error
        <4>4. Append(st.events, error) \in Seq(Handed)
          BY <2>3, <4>3, AppendProperties
        <4>5. /\ r \in DecoderStates /\ r.acc = left /\ r.session = st.session /\ r.set_mode = st.set_mode
              /\ r.events = Append(st.events, error)
          <5> HIDE DEF r, item
          <5>1. QED
            BY <2>13, <4>2, <4>4 DEF DecoderStates
        <4>6. among(Append(st.events, error)) = among(st.events)
          BY <2>3, <4>3, FramesOfAppend
        <4> HIDE DEF r, among, first, counted
        <4>7. among(r.events) = first(c + 1) /\ r.set_mode = counted(c + 1)
          BY <2>16, <2>17, <3>3, <4>1, <4>5, <4>6
        <4>8. QED
          BY <2>1, <2>3, <4>5, <4>7
      <3>4. CASE item.kind = "text" /\ (e.kind = "drop" \/ (e.kind = "text" /\ e.word = item.word))
                 /\ item.word # Ma!CONNECTED /\ item.word # Ma!NO
        <4>1. ~Ma!IsConnected(item) /\ (e.kind = "text" => ~Ma!Accepts(e.word))
          BY <3>4 DEF Ma!IsConnected, Ma!Accepts
        <4>2. r = rest
          BY <2>12, <2>15, <3>4, <4>1
        <4> HIDE DEF r, among, first, counted
        <4>3. among(r.events) = first(c + 1) /\ r.set_mode = counted(c + 1)
          BY <2>13, <2>16, <2>17, <3>4, <4>1, <4>2
        <4>4. QED
          BY <2>1, <2>3, <2>13, <4>2, <4>3
      <3>5. QED
        BY <2>9, <3>1, <3>2, <3>3, <3>4
    <2>19. TookFirst(r, items, u, c + 1)
      <3>1. r.acc \o u = f[(c + 1) + 1]
        BY <2>10, <2>16, <2>18 DEF v
      <3>2. QED
        BY <2>18, <3>1, Zenon DEF TookFirst, f
    <2>20. \A k \in 1 .. N : items[k].kind = "frame" => r.set_mode > 0
      <3> HIDE DEF r
      <3>1. r.set_mode \in Nat
        BY <2>18 DEF DecoderStates
      <3>2. QED
        BY <2>1, <2>3, <2>18, <3>1
    <2>21. r \in InStep(items, u)
      <3> HIDE DEF r
      <3>1. QED
        BY <2>16, <2>18, <2>19, <2>20 DEF InStep, N
    <2>22. Len(r.acc) < Len(st.acc)
      BY <2>11, <2>18
    <2>23. QED
      BY <2>21, <2>22
  <1>3. QED
    BY <1>1, <1>2

\* A read's bytes are taken to the end: what stays in the buffer is no whole item.
LEMMA DrainSettles ==
    ASSUME NEW items \in Seq(SaidItems), NEW u \in Seq(Ma!Byte), NEW st \in InStep(items, u)
    PROVE  Ma!Drained(st) \in InStep(items, u) /\ IsSettled(Ma!Drained(st))
  <1> DEFINE N == Len(st.acc)
             S == InStep(items, u)
             G == [n \in 1 .. N |-> [x \in S |-> Ma!Stepped(x)]]
             Fits(f) == f = [n \in 0 .. N |-> IF n = 0 THEN st ELSE Ma!Stepped(f[n - 1])]
  <1>1. N \in Nat /\ \A x \in S : x.acc \in Seq(Ma!Byte)
    BY DEF InStep, DecoderStates
  <1>2. G \in Strides(N, S)
    <2>1. \A x \in S : Ma!Stepped(x) \in S
      BY TurnStaysInStep
    <2> HIDE DEF S
    <2>2. QED
      BY <2>1, Zenon DEF Strides
  <1>3. st \in S
    OBVIOUS
  <1> HIDE DEF N, G, S
  <1>4. PICK f \in [0 .. N -> S] : f[0] = st /\ \A n \in 1 .. N : f[n] = G[n][f[n - 1]]
    <2>1. \E f \in Course(N, S) : GoesOn(f, st, N, G)
      BY <1>1, <1>2, <1>3, Recursion
    <2>2. QED
      BY <2>1, Zenon DEF Course, GoesOn
  <1>5. ASSUME NEW n \in 1 .. N
        PROVE  f[n] = Ma!Stepped(f[n - 1])
    <2>1. n - 1 \in 0 .. N
      BY <1>1
    <2>2. f[n - 1] \in S
      BY <1>4, <2>1
    <2>3. G[n][f[n - 1]] = Ma!Stepped(f[n - 1])
      BY <2>2 DEF G
    <2>4. QED
      BY <1>4, <2>3
  <1>6. Fits(f)
    <2>1. ASSUME NEW n \in 0 .. N
          PROVE  f[n] = IF n = 0 THEN st ELSE Ma!Stepped(f[n - 1])
      <3>1. n # 0 => n \in 1 .. N
        BY <1>1
      <3>2. QED
        BY <1>4, <1>5, <3>1
    <2>2. f = [n \in 0 .. N |-> f[n]]
      BY <1>4
    <2>3. QED
      BY <2>1, <2>2
  <1>7. Fits(Ma!Turns(st))
    <2>1. Fits(CHOOSE h : Fits(h))
      <3> HIDE DEF Fits
      <3>1. QED
        BY <1>6, Zenon
    <2>2. Ma!Turns(st) = CHOOSE h : Fits(h)
      BY Zenon DEF Ma!Turns, N
    <2>3. QED
      <3> HIDE DEF Fits
      <3>1. QED
        BY <2>1, <2>2, Zenon
  <1> DEFINE h == Ma!Turns(st)
  <1>8. h = [n \in 0 .. N |-> IF n = 0 THEN st ELSE Ma!Stepped(h[n - 1])]
    BY <1>7
  <1> HIDE DEF h
  <1>9. h[0] = st /\ \A n \in 1 .. N : h[n] = Ma!Stepped(h[n - 1])
    <2>1. ASSUME NEW n \in 0 .. N
          PROVE  h[n] = IF n = 0 THEN st ELSE Ma!Stepped(h[n - 1])
      BY <1>8, Zenon
    <2>2. QED
      BY <1>1, <2>1
  <1>10. \A n \in 0 .. N : h[n] = f[n]
    <2>1. h[0] = f[0]
      BY <1>4, <1>9
    <2>2. GoAlike(h, f, N)
      BY <1>5, <1>9 DEF GoAlike
    <2> HIDE DEF Fits
    <2>3. QED
      BY <1>1, <2>1, <2>2, GoOnAlike
  <1>11. \A n \in 0 .. N : h[n] \in S
    BY <1>4, <1>10
  \* Each turn shortens the buffer until nothing whole is left.
  <1> DEFINE Short(n) == IsSettled(h[n]) \/ Len(h[n].acc) <= N - n
             Bad == {n \in 0 .. N : ~Short(n)}
  <1>12. ASSUME NEW n \in 1 .. N, Short(n - 1)
         PROVE  Short(n)
    <2>1. n - 1 \in 0 .. N /\ n \in 0 .. N
      BY <1>1
    <2>2. h[n - 1] \in S /\ h[n] \in S /\ h[n] = Ma!Stepped(h[n - 1])
      BY <1>9, <1>11, <2>1
    <2>3. \/ IsSettled(h[n - 1]) /\ h[n] = h[n - 1]
          \/ Len(h[n].acc) < Len(h[n - 1].acc)
      BY <2>2, TurnStaysInStep DEF S
    <2>4. CASE IsSettled(h[n - 1])
      <3>1. \/ IsSettled(h[n])
            \/ /\ Len(h[n].acc) < Len(h[n - 1].acc) /\ Ma!Parse(h[n - 1].acc, h[n - 1].session).kind = "more"
        BY <2>3, <2>4 DEF IsSettled
      <3>2. CASE Ma!Parse(h[n - 1].acc, h[n - 1].session).kind = "more"
        <4>1. Ma!Stepped(h[n - 1]) = h[n - 1]
          BY <3>2, Zenon DEF Ma!Stepped
        <4>2. h[n] = h[n - 1]
          BY <2>2, <4>1
        <4>3. QED
          BY <2>4, <4>2
      <3>3. QED
        BY <3>1, <3>2
    <2>5. CASE ~IsSettled(h[n - 1])
      <3>1. Len(h[n].acc) < Len(h[n - 1].acc) /\ Len(h[n - 1].acc) <= N - (n - 1)
        BY <1>12, <2>3, <2>5
      <3>2. Len(h[n].acc) \in Nat /\ Len(h[n - 1].acc) \in Nat
        BY <1>1, <2>2
      <3>3. Len(h[n].acc) <= N - n
        BY <1>1, <3>1, <3>2
      <3>4. QED
        BY <3>3
    <2>6. QED
      BY <2>4, <2>5
  <1>13. Short(0)
    BY <1>1, <1>9 DEF N
  <1>14. Short(N)
    <2>1. CASE Bad # {}
      <3>1. PICK b \in Bad : \A n \in Bad : b <= n
        <4>1. Bad \subseteq Nat
          OBVIOUS
        <4> HIDE DEF Bad
        <4>2. QED
          BY <2>1, <4>1, LeastNumber
      <3> HIDE DEF Short
      <3>2. b \in 0 .. N /\ ~Short(b)
        BY <3>1
      <3>3. b \in 1 .. N
        BY <1>1, <1>13, <3>2
      <3>4. b - 1 \in 0 .. N /\ ~(b <= b - 1)
        BY <1>1, <3>3
      <3>5. b - 1 \notin Bad
        <4> HIDE DEF Bad
        <4>1. QED
          BY <3>1, <3>4
      <3>6. Short(b - 1)
        BY <3>4, <3>5
      <3>7. QED
        BY <1>12, <3>2, <3>3, <3>6
    <2>2. CASE Bad = {}
      <3> HIDE DEF Short
      <3>1. N \in 0 .. N
        BY <1>1
      <3>2. QED
        BY <2>2, <3>1
    <2>3. QED
      BY <2>1, <2>2
  <1>15. Ma!Drained(st) = h[N]
    BY Zenon DEF Ma!Drained, h, N
  <1>16. h[N] \in S /\ h[N].acc \in Seq(Ma!Byte)
    <2>1. N \in 0 .. N
      BY <1>1
    <2>2. QED
      BY <1>1, <1>11, <2>1
  <1>17. IsSettled(h[N])
    <2>1. CASE Len(h[N].acc) <= N - N
      <3> DEFINE a == h[N].acc
      <3>1. a \in Seq(Ma!Byte) /\ Len(a) <= N - N
        BY <1>16, <2>1
      <3> HIDE DEF a
      <3>2. Len(a) = 0
        BY <1>1, <3>1
      <3>3. a = <<>>
        BY <3>1, <3>2, EmptySeq
      <3>4. Ma!Parse(a, h[N].session) = Ma!NeedMore
        BY <3>3, Zenon DEF Ma!Parse
      <3>5. QED
        BY <3>4 DEF IsSettled, Ma!NeedMore, a
    <2>2. QED
      BY <1>14, <2>1
  <1>18. QED
    BY <1>15, <1>16, <1>17 DEF S

\* A settled buffer with nothing on its way was all the bytes of all the items.
LEMMA AllTaken ==
    ASSUME NEW items \in Seq(SaidItems), NEW st \in InStep(items, <<>>), IsSettled(st),
           NEW c \in 0 .. Len(items), TookFirst(st, items, <<>>, c)
    PROVE  c = Len(items)
  <1>1. SUFFICES ASSUME c # Len(items)
                 PROVE  FALSE
    OBVIOUS
  <1>2. /\ st \in DecoderStates /\ st.acc \in Seq(Ma!Byte) /\ st.session \in {"AwaitHandshake", "Streaming"}
        /\ (st.session = "Streaming") = (st.set_mode > 0)
        /\ \A k \in 1 .. Len(items) : items[k].kind = "frame" => st.set_mode > 0
    BY DEF InStep, DecoderStates
  <1>3. <<>> \in Seq(Ma!Byte)
    OBVIOUS
  <1> DEFINE item == items[c + 1]
             t == Ma!Encoded(item)
             v == Flat(items)[c + 2]
  <1>4. /\ c + 1 \in 1 .. Len(items) /\ item \in SaidItems /\ Flat(items)[c + 1] = t \o v /\ v \in Seq(Ma!Byte)
        /\ BeginsLike(st.acc, t)
    BY <1>1, <1>2, <1>3, NextInBuffer
  <1>5. st.acc = t \o v
    <2>1. st.acc \o <<>> = Flat(items)[c + 1]
      BY DEF TookFirst
    <2>2. st.acc \o <<>> = st.acc
      BY <1>2, ConcatEmptySeq
    <2>3. QED
      BY <1>4, <2>1, <2>2
  <1>6. t \in Seq(Ma!Byte) /\ Len(t) \in Nat /\ Len(t) > 0
    BY <1>4, ItemIsBytes
  <1> HIDE DEF v
  <1>7. Len(st.acc) = Len(t) + Len(v) /\ Len(v) \in Nat
    <2> HIDE DEF t
    <2>1. QED
      BY <1>4, <1>5, <1>6, ConcatProperties
  <1>8. st.acc # <<>> /\ ~(Len(st.acc) < Len(t))
    BY <1>6, <1>7
  <1>9. item.kind = "frame" => st.session = "Streaming"
    BY <1>2, <1>4
  <1>10. ItemParsed(Ma!Parse(st.acc, st.session), item, Len(st.acc))
    BY <1>2, <1>4, <1>8, <1>9, ParsedItem
  <1>11. QED
    <2> DEFINE e == Ma!Parse(st.acc, st.session)
    <2>1. e.kind = "more"
      BY DEF IsSettled
    <2>2. ItemParsed(e, item, Len(st.acc))
      BY <1>10
    <2> HIDE DEF e, item
    <2>3. e.kind \in {"frame", "text", "drop"}
      BY <1>8, <2>2 DEF ItemParsed
    <2>4. QED
      BY <2>1, <2>3

-----------------------------------------------------------------------------
(* The session, byte by byte.                                              *)

SessionState == [acc |-> acc, session |-> ipg_session, set_mode |-> set_mode, events |-> handed_on]

SessionInv ==
    /\ script \in Seq(SaidItems) /\ stream \in Seq(Ma!Byte)
    /\ \E n \in 0 .. Len(script) : /\ unsent = SubSeq(script, n + 1, Len(script))
                                   /\ SessionState \in InStep(SubSeq(script, 1, n), stream)
    /\ IsSettled(SessionState)

\* What was sent is the script without what is not.
LEMMA SentFirst ==
    ASSUME script \in Seq(SaidItems), NEW n \in 0 .. Len(script), unsent = SubSeq(script, n + 1, Len(script))
    PROVE  /\ Ma!Sent = SubSeq(script, 1, n) /\ SubSeq(script, 1, n) \in Seq(SaidItems)
           /\ Len(SubSeq(script, 1, n)) = n
  <1>1. Len(script) \in Nat /\ \A i \in 1 .. Len(script) : script[i] \in SaidItems
    OBVIOUS
  <1>2. n + 1 \in Int /\ \A i \in n + 1 .. Len(script) : i \in 1 .. Len(script)
    BY <1>1
  <1>3. Len(unsent) = Len(script) - n
    <2>1. \A i \in n + 1 .. Len(script) : script[i] \in SaidItems
      BY <1>1, <1>2
    <2>2. Len(unsent) = IF n + 1 <= Len(script) THEN Len(script) - (n + 1) + 1 ELSE 0
      BY <1>1, <1>2, <2>1, SubSeqProperties
    <2>3. QED
      BY <1>1, <2>2
  <1>4. Len(script) - Len(unsent) = n
    BY <1>1, <1>3
  <1>5. SubSeq(script, 1, n) \in Seq(SaidItems) /\ Len(SubSeq(script, 1, n)) = n
    BY <1>1
  <1>6. QED
    BY <1>4, <1>5 DEF Ma!Sent

LEMMA SessionInit ==
    ASSUME Sayable, Ma!Init
    PROVE  SessionInv
  <1>1. /\ script \in Seq(SaidItems) /\ unsent = script /\ stream = <<>> /\ acc = <<>>
        /\ ipg_session = "AwaitHandshake" /\ set_mode = 0 /\ handed_on = <<>>
    BY DEF Ma!Init, Sayable
  <1>2. 0 \in 0 .. Len(script) /\ unsent = SubSeq(script, 0 + 1, Len(script))
    BY <1>1, SubSeqFull
  <1> DEFINE items == SubSeq(script, 1, 0)
             st == SessionState
  <1>3. items = <<>>
    BY SubSeqEmpty
  <1>4. /\ st.acc = <<>> /\ st.session = "AwaitHandshake" /\ st.set_mode = 0 /\ st.events = <<>>
        /\ st \in DecoderStates
    BY <1>1 DEF SessionState, DecoderStates
  <1> HIDE DEF items, st
  <1>5. items \in Seq(SaidItems) /\ Len(items) = 0
    BY <1>3
  <1>6. TookFirst(st, items, <<>>, 0)
    <2>1. Flat(items)[0 + 1] = <<>>
      BY <1>5, FlatGoesOn
    <2>2. Ma!FramesTo(items)[0] = <<>> /\ Ma!ConnectedTo(items)[0] = 0
      BY <1>5, FramesGoOn, ConnectedGoOn
    <2>3. Ma!FramesAmong(st.events) = <<>>
      <3> DEFINE none == st.events
      <3>1. none \in Seq(Handed) /\ Len(none) = 0
        BY <1>4
      <3> HIDE DEF none
      <3>2. Ma!FramesTo(none)[0] = <<>>
        BY <3>1, FramesGoOn
      <3>3. Ma!FramesAmong(none) = <<>>
        BY <3>1, <3>2 DEF Ma!FramesAmong
      <3>4. QED
        BY <3>3 DEF none
    <2>4. st.acc \o <<>> = <<>>
      BY <1>4
    <2>6. Ma!AsDue(<<>>) = <<>>
      BY DEF Ma!AsDue
    <2>5. QED
      BY <1>4, <2>1, <2>2, <2>3, <2>4, <2>6 DEF TookFirst
  <1>7. st \in InStep(items, <<>>)
    <2>1. (st.session = "Streaming") = (st.set_mode > 0)
      BY <1>4
    <2>2. \A k \in 1 .. Len(items) : items[k].kind = "frame" => st.set_mode > 0
      BY <1>5
    <2>3. 0 \in 0 .. Len(items)
      BY <1>5
    <2>4. QED
      BY <1>4, <1>6, <2>1, <2>2, <2>3 DEF InStep
  <1>8. IsSettled(st)
    <2>1. Ma!Parse(st.acc, st.session) = Ma!NeedMore
      BY <1>4, Zenon DEF Ma!Parse
    <2>2. QED
      BY <2>1 DEF IsSettled, Ma!NeedMore
  <1>9. stream \in Seq(Ma!Byte) /\ SessionState \in InStep(SubSeq(script, 1, 0), stream) /\ IsSettled(SessionState)
    BY <1>1, <1>7, <1>8 DEF items, st
  <1>10. QED
    BY <1>1, <1>2, <1>9 DEF SessionInv

LEMMA SessionSends ==
    ASSUME SessionInv, Ma!Send
    PROVE  SessionInv'
  <1>1. /\ script \in Seq(SaidItems) /\ stream \in Seq(Ma!Byte) /\ IsSettled(SessionState)
        /\ unsent # <<>> /\ (Head(unsent).kind = "frame" => set_mode > 0)
        /\ stream' = stream \o Ma!Encoded(Head(unsent)) /\ unsent' = Tail(unsent)
        /\ script' = script /\ SessionState' = SessionState
    BY DEF SessionInv, Ma!Send, SessionState
  <1>2. PICK n \in 0 .. Len(script) : /\ unsent = SubSeq(script, n + 1, Len(script))
                                      /\ SessionState \in InStep(SubSeq(script, 1, n), stream)
    BY DEF SessionInv
  <1> DEFINE items == SubSeq(script, 1, n)
             more == SubSeq(script, 1, n + 1)
             item == script[n + 1]
             st == SessionState
             t == Ma!Encoded(item)
  <1>3. Len(script) \in Nat /\ n + 1 \in 1 .. Len(script) /\ n + 1 \in 0 .. Len(script) /\ item \in SaidItems
    <2>1. Len(script) \in Nat
      BY <1>1
    <2>2. n # Len(script)
      <3>1. ASSUME n = Len(script)
            PROVE  FALSE
        <4>1. SubSeq(script, n + 1, Len(script)) = <<>>
          BY <2>1, <3>1, SubSeqEmpty
        <4>2. QED
          BY <1>1, <1>2, <4>1
      <3>2. QED
        BY <3>1
    <2>3. n + 1 \in 1 .. Len(script) /\ n + 1 \in 0 .. Len(script)
      BY <2>1, <2>2
    <2>4. QED
      BY <1>1, <2>1, <2>3
  <1>4. Head(unsent) = item /\ Tail(unsent) = SubSeq(script, (n + 1) + 1, Len(script))
    <2>1. Len(script) \in n + 1 .. Len(script)
      BY <1>3
    <2>2. QED
      BY <1>1, <1>2, <1>3, <2>1, HeadTailOfSubSeq
  <1>5. items \in Seq(SaidItems) /\ Len(items) = n /\ more \in Seq(SaidItems) /\ Len(more) = n + 1
    <2>1. \A i \in 1 .. n + 1 : i \in 1 .. Len(script)
      BY <1>3
    <2>2. \A i \in 1 .. n + 1 : script[i] \in SaidItems
      BY <1>1, <2>1
    <2>3. QED
      BY <1>1, <1>3, <2>2
  <1>6. more = Append(items, item)
    <2>1. Append(SubSeq(script, 1, (n + 1) - 1), script[n + 1]) = SubSeq(script, 1, ((n + 1) + 1) - 1)
      BY <1>1, <1>3, OneMore
    <2>2. (n + 1) - 1 = n /\ ((n + 1) + 1) - 1 = n + 1
      BY <1>3
    <2>3. QED
      BY <2>1, <2>2
  <1>7. (\A k \in 1 .. n : items[k] = more[k]) /\ more[n + 1] = item
    <2> HIDE DEF items, more
    <2>1. n = Len(items)
      BY <1>5
    <2>2. QED
      BY <1>5, <1>6, <2>1, AppendProperties
  <1> HIDE DEF item, items, more, st
  <1>8. t \in Seq(Ma!Byte)
    BY <1>3, ItemIsBytes
  <1>9. /\ st \in DecoderStates /\ st.acc \in Seq(Ma!Byte) /\ st.set_mode \in Nat /\ st.set_mode = set_mode
        /\ (st.session = "Streaming") = (st.set_mode > 0)
        /\ \A k \in 1 .. n : items[k].kind = "frame" => st.set_mode > 0
    <2>1. st \in InStep(items, stream)
      BY <1>2 DEF st, items
    <2>2. st.set_mode = set_mode
      BY DEF st, SessionState
    <2>3. QED
      BY <1>5, <2>1, <2>2 DEF InStep, DecoderStates
  <1>10. PICK c \in 0 .. n : TookFirst(st, items, stream, c)
    <2>1. st \in InStep(items, stream)
      BY <1>2 DEF st, items
    <2>2. QED
      BY <1>5, <2>1 DEF InStep
  <1> HIDE DEF t
  <1>11. TookFirst(st, more, stream \o t, c)
    <2>1. st.acc \o (stream \o t) = Flat(more)[c + 1]
      <3> DEFINE a == st.acc
      <3>1. a \in Seq(Ma!Byte)
        BY <1>9
      <3>2. a \o stream = Flat(items)[c + 1]
        BY <1>10 DEF TookFirst
      <3> HIDE DEF a
      <3>3. (a \o stream) \o t = a \o (stream \o t)
        BY <1>1, <1>8, <3>1, ConcatAssociative
      <3>4. Flat(more)[c + 1] = Flat(items)[c + 1] \o t
        <4>1. c + 1 \in 1 .. n + 1
          BY <1>3
        <4>2. QED
          BY <1>3, <1>5, <1>6, <4>1, FlatOfAppend DEF t
      <3>5. QED
        BY <3>2, <3>3, <3>4 DEF a
    <2>2. Ma!FramesTo(items)[c] = Ma!FramesTo(more)[c] /\ Ma!ConnectedTo(items)[c] = Ma!ConnectedTo(more)[c]
      <3>1. n \in 0 .. Len(items) /\ n <= Len(more)
        BY <1>3, <1>5
      <3>2. QED
        BY <1>5, <1>7, <3>1, FramesAlike
    <2>3. QED
      BY <1>10, <2>1, <2>2 DEF TookFirst
  <1>12. \A k \in 1 .. n + 1 : more[k].kind = "frame" => st.set_mode > 0
    <2>1. TAKE k \in 1 .. n + 1
    <2>2. CASE k = n + 1
      BY <1>1, <1>4, <1>7, <1>9, <2>2
    <2>3. CASE k # n + 1
      <3>1. k \in 1 .. n
        BY <1>3, <2>3
      <3>2. QED
        BY <1>7, <1>9, <3>1
    <2>4. QED
      BY <2>2, <2>3
  <1>13. st \in InStep(more, stream \o t)
    <2>1. c \in 0 .. Len(more)
      BY <1>3, <1>5
    <2>2. QED
      BY <1>5, <1>9, <1>11, <1>12, <2>1 DEF InStep
  <1>14. stream' = stream \o t /\ stream' \in Seq(Ma!Byte)
    <2>1. stream' = stream \o t
      BY <1>1, <1>4 DEF t
    <2>2. QED
      BY <1>1, <1>8, <2>1, ConcatProperties
  <1>15. /\ n + 1 \in 0 .. Len(script') /\ unsent' = SubSeq(script', (n + 1) + 1, Len(script'))
         /\ SessionState' \in InStep(SubSeq(script', 1, n + 1), stream') /\ IsSettled(SessionState)'
    <2>1. IsSettled(SessionState)'
      BY <1>1 DEF IsSettled
    <2>2. SessionState' \in InStep(SubSeq(script', 1, n + 1), stream')
      BY <1>1, <1>13, <1>14 DEF st, more
    <2>3. QED
      BY <1>1, <1>3, <1>4, <2>1, <2>2
  <1>16. QED
    BY <1>1, <1>14, <1>15, Zenon DEF SessionInv

LEMMA SessionReads ==
    ASSUME SessionInv, Ma!Read
    PROVE  SessionInv'
  <1> DEFINE with(m) == [acc |-> acc \o SubSeq(stream, 1, m), session |-> ipg_session, set_mode |-> set_mode,
                         events |-> handed_on]
  <1>1. PICK m \in 1 .. MaxChunk :
            /\ m <= Len(stream)
            /\ LET st == Ma!Drained(with(m))
               IN acc' = st.acc /\ ipg_session' = st.session /\ set_mode' = st.set_mode /\ handed_on' = st.events
            /\ stream' = SubSeq(stream, m + 1, Len(stream))
            /\ UNCHANGED <<unsent, script>>
    BY Zenon DEF Ma!Read
  <1>2. /\ script \in Seq(SaidItems) /\ stream \in Seq(Ma!Byte)
    BY DEF SessionInv
  <1>3. PICK n \in 0 .. Len(script) : /\ unsent = SubSeq(script, n + 1, Len(script))
                                      /\ SessionState \in InStep(SubSeq(script, 1, n), stream)
    BY DEF SessionInv
  <1> DEFINE items == SubSeq(script, 1, n)
             one == SubSeq(stream, 1, m)
             two == SubSeq(stream, m + 1, Len(stream))
             st == SessionState
             read == with(m)
  <1>4. items \in Seq(SaidItems)
    BY <1>2, <1>3, SentFirst
  <1>5. one \in Seq(Ma!Byte) /\ two \in Seq(Ma!Byte) /\ one \o two = stream
    <2>1. Len(stream) \in Nat /\ m \in Nat /\ m \in 1 .. Len(stream)
      BY <1>1, <1>2
    <2>2. one \in Seq(Ma!Byte)
      <3>1. \A i \in 1 .. m : i \in 1 .. Len(stream)
        BY <2>1
      <3>2. \A i \in 1 .. m : stream[i] \in Ma!Byte
        BY <1>2, <3>1, ElementOfSeq
      <3>3. QED
        BY <2>1, <3>2
    <2>3. two \in Seq(Ma!Byte)
      <3>1. \A i \in m + 1 .. Len(stream) : i \in 1 .. Len(stream)
        BY <2>1
      <3>2. \A i \in m + 1 .. Len(stream) : stream[i] \in Ma!Byte
        BY <1>2, <3>1, ElementOfSeq
      <3>3. QED
        BY <2>1, <3>2
    <2>4. one \o two = stream
      <3>1. Len(one) = m /\ (\A i \in 1 .. m : one[i] = stream[i])
        BY <2>1
      <3>2. Len(two) = Len(stream) - m /\ \A i \in 1 .. Len(stream) - m : two[i] = stream[m + i]
        BY <2>1
      <3> DEFINE z == one \o two
      <3> HIDE DEF one, two
      <3>3. /\ z \in Seq(Ma!Byte) /\ Len(z) = Len(one) + Len(two)
            /\ \A i \in 1 .. Len(one) + Len(two) : z[i] = IF i <= Len(one) THEN one[i] ELSE two[i - Len(one)]
        BY <2>2, <2>3, ConcatProperties
      <3> HIDE DEF z
      <3>4. Len(z) = Len(stream)
        BY <2>1, <3>1, <3>2, <3>3
      <3>5. ASSUME NEW i \in 1 .. Len(z)
            PROVE  z[i] = stream[i]
        <4>1. i \in 1 .. Len(one) + Len(two) /\ i \in Nat
          BY <2>1, <3>3, <3>4
        <4>2. CASE i <= m
          <5>1. i \in 1 .. m
            BY <2>1, <4>1, <4>2
          <5>2. QED
            BY <3>1, <3>3, <4>1, <4>2, <5>1
        <4>3. CASE ~(i <= m)
          <5>1. i - m \in 1 .. Len(stream) - m /\ m + (i - m) = i
            BY <2>1, <3>4, <4>1, <4>3
          <5>2. z[i] = two[i - m]
            BY <3>1, <3>3, <4>1, <4>3
          <5>3. QED
            BY <3>2, <5>1, <5>2
        <4>4. QED
          BY <4>2, <4>3
      <3>6. z = stream
        BY <1>2, <3>3, <3>4, <3>5, SeqEqual
      <3>7. QED
        BY <3>6 DEF z
    <2>5. QED
      BY <2>2, <2>3, <2>4
  <1>6. st \in InStep(items, stream) /\ st.acc = acc /\ st.session = ipg_session /\ st.set_mode = set_mode
        /\ st.events = handed_on /\ st \in DecoderStates
    BY <1>3 DEF SessionState, InStep
  <1>7. read.acc = acc \o one /\ read.session = ipg_session /\ read.set_mode = set_mode /\ read.events = handed_on
    OBVIOUS
  <1> HIDE DEF items, one, two, st
  <1>8. read \in DecoderStates
    <2>1. /\ acc \in Seq(Ma!Byte) /\ ipg_session \in {"AwaitHandshake", "Streaming"} /\ set_mode \in Nat
          /\ handed_on \in Seq(Handed)
      BY <1>6 DEF DecoderStates
    <2>2. acc \o one \in Seq(Ma!Byte)
      BY <1>5, <2>1, ConcatProperties
    <2>3. read = [acc |-> acc \o one, session |-> ipg_session, set_mode |-> set_mode, events |-> handed_on]
      BY DEF one
    <2>4. QED
      BY <2>1, <2>2, <2>3 DEF DecoderStates
  <1> HIDE DEF read
  <1>9. read \in InStep(items, two)
    <2>1. PICK c \in 0 .. Len(items) : TookFirst(st, items, stream, c)
      BY <1>6 DEF InStep
    <2>2. (acc \o one) \o two = acc \o stream
      <3>1. acc \in Seq(Ma!Byte)
        BY <1>6 DEF DecoderStates
      <3>2. (acc \o one) \o two = acc \o (one \o two)
        <4>1. one \in Seq(Ma!Byte) /\ two \in Seq(Ma!Byte)
          BY <1>5
        <4> DEFINE x == acc
        <4>2. x \in Seq(Ma!Byte)
          BY <3>1
        <4> HIDE DEF x
        <4>3. (x \o one) \o two = x \o (one \o two)
          BY <4>1, <4>2, ConcatAssociative
        <4>4. QED
          BY <4>3 DEF x
      <3>3. QED
        BY <1>5, <3>2, Zenon
    <2>3. TookFirst(read, items, two, c)
      BY <1>6, <1>7, <2>1, <2>2 DEF TookFirst
    <2>4. /\ (read.session = "Streaming") = (read.set_mode > 0)
          /\ \A k \in 1 .. Len(items) : items[k].kind = "frame" => read.set_mode > 0
      BY <1>6, <1>7 DEF InStep
    <2>5. QED
      BY <1>8, <2>1, <2>3, <2>4 DEF InStep
  <1> DEFINE drained == Ma!Drained(read)
  <1>10. drained \in InStep(items, two) /\ IsSettled(drained)
    BY <1>4, <1>5, <1>9, DrainSettles
  <1>11. acc' = drained.acc /\ ipg_session' = drained.session /\ set_mode' = drained.set_mode /\ handed_on' = drained.events
    BY <1>1, Zenon DEF read
  <1> HIDE DEF drained
  <1>12. SessionState' = drained
    <2>1. drained \in DecoderStates
      BY <1>10 DEF InStep
    <2>2. drained = [acc |-> drained.acc, session |-> drained.session, set_mode |-> drained.set_mode, events |-> drained.events]
      BY <2>1 DEF DecoderStates
    <2>3. SessionState' = [acc |-> acc', session |-> ipg_session', set_mode |-> set_mode', events |-> handed_on']
      BY DEF SessionState
    <2>4. QED
      BY <1>11, <2>2, <2>3
  <1>13. stream' = two /\ script' = script /\ unsent' = unsent
    BY <1>1 DEF two
  <1>14. /\ script' \in Seq(SaidItems) /\ stream' \in Seq(Ma!Byte) /\ n \in 0 .. Len(script')
         /\ unsent' = SubSeq(script', n + 1, Len(script'))
    BY <1>2, <1>3, <1>5, <1>13
  <1>15. SessionState' \in InStep(SubSeq(script', 1, n), stream') /\ IsSettled(SessionState)'
    <2>1. IsSettled(SessionState)'
      BY <1>10, <1>12 DEF IsSettled
    <2>2. QED
      BY <1>10, <1>12, <1>13, <2>1 DEF items
  <1>16. QED
    BY <1>14, <1>15, Zenon DEF SessionInv

LEMMA SessionStep ==
    ASSUME SessionInv, [Ma!Next]_Ma!vars
    PROVE  SessionInv'
  <1>1. CASE Ma!Send
    BY <1>1, SessionSends
  <1>2. CASE Ma!Read
    BY <1>2, SessionReads
  <1>3. CASE UNCHANGED Ma!vars
    BY <1>3 DEF SessionInv, SessionState, Ma!vars, IsSettled
  <1>4. QED
    BY <1>1, <1>2, <1>3 DEF Ma!Next

LEMMA SessionSays ==
    ASSUME SessionInv
    PROVE  Ma!TypeOK /\ Ma!FramesInFull /\ Ma!ModeAfterConnected
  <1>1. script \in Seq(SaidItems) /\ stream \in Seq(Ma!Byte) /\ IsSettled(SessionState)
    BY DEF SessionInv
  <1>2. PICK n \in 0 .. Len(script) : /\ unsent = SubSeq(script, n + 1, Len(script))
                                      /\ SessionState \in InStep(SubSeq(script, 1, n), stream)
    BY DEF SessionInv
  <1> DEFINE items == SubSeq(script, 1, n)
             st == SessionState
  <1>3. Ma!Sent = items /\ items \in Seq(SaidItems)
    BY <1>1, <1>2, SentFirst
  <1>4. /\ st \in InStep(items, stream) /\ st.acc = acc /\ st.session = ipg_session /\ st.set_mode = set_mode
        /\ st.events = handed_on /\ IsSettled(st)
    BY <1>1, <1>2 DEF SessionState
  <1> HIDE DEF items, st
  <1>5. Ma!TypeOK
    <2>1. /\ st.acc \in Seq(Ma!Byte) /\ st.session \in {"AwaitHandshake", "Streaming"} /\ st.set_mode \in Nat
          /\ (st.session = "Streaming") = (st.set_mode > 0)
      BY <1>4 DEF InStep, DecoderStates
    <2>2. QED
      BY <1>1, <1>4, <2>1 DEF Ma!TypeOK
  <1>6. PICK c \in 0 .. Len(items) : TookFirst(st, items, stream, c)
    BY <1>4 DEF InStep
  <1>7. Ma!FramesAmong(handed_on) = Ma!AsDue(Ma!FramesTo(items)[c]) /\ set_mode = Ma!ConnectedTo(items)[c]
    BY <1>4, <1>6 DEF TookFirst
  <1>8. stream = <<>> => c = Len(items)
    <2>1. ASSUME stream = <<>>
          PROVE  c = Len(items)
      <3>1. st \in InStep(items, <<>>) /\ TookFirst(st, items, <<>>, c)
        BY <1>4, <1>6, <2>1
      <3>2. QED
        BY <1>3, <1>4, <3>1, AllTaken
    <2>2. QED
      BY <2>1
  <1>9. Ma!FramesInFull
    BY <1>3, <1>7, <1>8 DEF Ma!FramesInFull, Ma!FramesAmong
  <1>10. Ma!ModeAfterConnected
    <2>1. Len(items) \in 0 .. Len(items) /\ c \in 0 .. Len(items)
      BY <1>3
    <2>2. Ma!ConnectedTo(items)[c] <= Ma!ConnectedTo(items)[Len(items)]
      BY <1>3, <2>1, ConnectedGrows
    <2>3. QED
      BY <1>3, <1>7, <1>8, <2>2 DEF Ma!ModeAfterConnected, Ma!ConnectedAmong
  <1>11. QED
    BY <1>5, <1>9, <1>10
=============================================================================
