-------------------------- MODULE FastPacketProofs --------------------------
(***************************************************************************)
(* What holds of FastPacket for any number of slots, keys, counters and    *)
(* bursts, under every pattern of loss and reordering.                     *)
(***************************************************************************)
EXTENDS FastPacket, FiniteSetTheorems, WellFoundedInduction, TLAPS

\* A nonempty set of natural numbers has a least element.
LEMMA LeastExists ==
    ASSUME NEW S, S \subseteq Nat, S # {}
    PROVE  \E x \in S : \A y \in S : x <= y
  <1>1. PICK x \in S : \A y \in S : ~(<<y, x>> \in OpToRel(<, Nat))
    BY NatLessThanWellFounded, WFMin
  <1>2. ASSUME NEW y \in S
        PROVE  x <= y
    <2>1. x \in Nat /\ y \in Nat
      OBVIOUS
    <2>2. ~(y < x)
      <3>1. SUFFICES ASSUME y < x PROVE FALSE
        OBVIOUS
      <3>2. <<y, x>> \in OpToRel(<, Nat)
        BY <2>1, <3>1 DEF OpToRel
      <3>3. QED
        BY <1>1, <3>2
    <2>3. QED
      BY <2>1, <2>2
  <1>3. QED
    BY <1>2

LEMMA MinIsMember ==
    ASSUME NEW S, S \subseteq Nat, S # {}
    PROVE  Min_(S) \in S
  BY LeastExists DEF Min_

\* claim_slot always finds a slot: an unused one, else the oldest.
LEMMA ClaimedIsSlot ==
    ASSUME TypeOK
    PROVE  ClaimedSlot \in Slot
  <1>1. CASE Unused # {}
    <2>1. Unused \subseteq Nat /\ Unused \subseteq Slot
      BY FastPacketAssumption DEF Unused, Slot
    <2>2. QED
      BY <1>1, <2>1, MinIsMember DEF ClaimedSlot
  <1>2. CASE Unused = {}
    <2> DEFINE ages == {slots[s].age : s \in Slot}
    <2>1. ages \subseteq Nat
      BY DEF TypeOK, SlotType
    <2>2. 1 \in Slot
      BY FastPacketAssumption DEF Slot
    <2>3. ages # {}
      BY <2>2
    <2>4. PICK x \in ages : \A y \in ages : x <= y
      BY <2>1, <2>3, LeastExists
    <2>5. PICK s \in Slot : x = slots[s].age
      BY <2>4
    <2>6. \A t \in Slot : slots[s].age <= slots[t].age
      BY <2>4, <2>5
    <2>7. OldestSlot \in Slot
      BY <2>6 DEF OldestSlot
    <2>8. QED
      BY <1>2, <2>7 DEF ClaimedSlot
  <1>3. QED
    BY <1>1, <1>2

\* The sender cuts a payload into the frames the receiver waits for: frame i is
\* sent while bytes remain, and needed when i <= size / 7 (integer division).
THEOREM SenderAndReceiverAgree ==
    \A size \in Size : Chunks(size) = Mask(size)
  <1> SUFFICES ASSUME NEW size \in Size
               PROVE  Chunks(size) = Mask(size)
    OBVIOUS
  <1>1. MaxIndex \in Nat /\ size \in Nat /\ 1 <= size /\ size <= 6 + MaxIndex * 7
    BY FastPacketAssumption DEF Size
  <1>2. size \div 7 \in Nat /\ size \div 7 <= MaxIndex
    BY <1>1
  <1>3. ASSUME NEW i \in Nat
        PROVE  Offset(i) < size <=> i <= size \div 7
    BY <1>1 DEF Offset
  <1>4. \A i : i \in Chunks(size) <=> i \in Mask(size)
    BY <1>1, <1>2, <1>3 DEF Chunks, Mask, Index
  <1>5. QED
    BY <1>4

LEMMA IndexTypes ==
    /\ \A size \in Size : Mask(size) \in SUBSET Index /\ Chunks(size) \in SUBSET Index
    /\ \A b \in Nat : b % SeqCount \in Count
  <1>1. \A size \in Size : Mask(size) \in SUBSET Index /\ Chunks(size) \in SUBSET Index
    BY SenderAndReceiverAgree DEF Chunks
  <1>2. ASSUME NEW b \in Nat
        PROVE  b % SeqCount \in Count
    BY FastPacketAssumption DEF Count
  <1>3. QED
    BY <1>1, <1>2

-----------------------------------------------------------------------------
(* What a slot holds was written by frames of its own (pgn, src, seq).     *)

Sound(slot) ==
    \A i \in slot.frames :
        /\ slot.data[i] \in Bucket
        /\ slot.data[i].key = slot.key
        /\ slot.data[i].burst % SeqCount = slot.seq

SlotsSound == \A s \in Slot : slots[s].used => Sound(slots[s])

\* A frame of (k, q) is pushed: one slot s now assembles (k, q), the others
\* are as they were, and none of them assembles it too.
LEMMA PushEffect ==
    ASSUME TypeOK, OneSlotPerBurst, SlotsSound,
           NEW k \in Key, NEW q \in Count, NEW i \in Index,
           NEW size \in Size, NEW tag \in Bucket,
           tag.key = k, tag.burst % SeqCount = q,
           Push(k, q, i, size, tag)
    PROVE  \E s \in Slot : \E new \in SlotType :
              /\ slots' = [slots EXCEPT ![s] = new]
              /\ new.key = k /\ new.seq = q
              /\ new.used => new.frames # {} /\ new.frames # new.all
              /\ Sound(new)
              /\ \A t \in Slot \ {s} :
                    ~(slots[t].used /\ slots[t].key = k /\ slots[t].seq = q)
              /\ next_age' \in Nat
              /\ NoCrossTalk'
  <1> DEFINE found == Found(k, q) # {}
             s     == IF found THEN Min_(Found(k, q)) ELSE ClaimedSlot
             slot  == IF found THEN slots[s] ELSE EmptySlot(k, q)
             held  == IF Restarts(slot.frames, i, size) THEN {} ELSE slot.frames
             frames == held \cup {i}
             all   == IF i = 0 THEN Mask(size) ELSE slot.all
             data  == [slot.data EXCEPT ![i] = tag]
             new   == After(slot, frames, all, data)
  <1>1. s \in Slot /\ (found => s \in Found(k, q))
    <2>1. Found(k, q) \subseteq Nat /\ Found(k, q) \subseteq Slot
      BY FastPacketAssumption DEF Found, Slot
    <2>2. QED
      BY <2>1, MinIsMember, ClaimedIsSlot
  <1>2. EmptySlot(k, q) \in SlotType
    BY DEF EmptySlot, SlotType, TypeOK
  <1>3. slot \in SlotType /\ slot.key = k /\ slot.seq = q /\ Sound(slot)
    <2>1. CASE found
      BY <1>1, <2>1 DEF Found, TypeOK, SlotsSound
    <2>2. CASE ~found
      <3>1. slot = EmptySlot(k, q)
        BY <2>2
      <3>2. QED
        BY <3>1, <1>2 DEF EmptySlot, Sound
    <2>3. QED
      BY <2>1, <2>2
  <1> HIDE DEF slot, s, found
  <1>4. /\ frames \in SUBSET Index /\ frames # {}
        /\ all \in SUBSET Index
        /\ data \in [Index -> Bucket \cup {Nobody}]
    BY <1>3, IndexTypes DEF SlotType
  <1>5. /\ new \in SlotType
        /\ new.key = k /\ new.seq = q /\ new.data = data
        /\ new.used => new.frames = frames /\ frames # all /\ new.all = all
        /\ new.frames \subseteq frames
    BY <1>3, <1>4 DEF After, SlotType
  <1>6. \A x \in frames : /\ data[x] \in Bucket
                          /\ data[x].key = k
                          /\ data[x].burst % SeqCount = q
    <2> SUFFICES ASSUME NEW x \in frames
                 PROVE  /\ data[x] \in Bucket
                        /\ data[x].key = k
                        /\ data[x].burst % SeqCount = q
      OBVIOUS
    <2>1. CASE x = i
      BY <1>3, <2>1 DEF SlotType
    <2>2. CASE x # i
      <3>1. x \in slot.frames
        BY <2>2
      <3>2. data[x] = slot.data[x]
        BY <1>3, <1>4, <2>2 DEF SlotType
      <3>3. QED
        BY <1>3, <3>1, <3>2 DEF Sound
    <2>3. QED
      BY <2>1, <2>2
  <1>7. Sound(new)
    BY <1>5, <1>6 DEF Sound
  <1>8. \A t \in Slot \ {s} :
           ~(slots[t].used /\ slots[t].key = k /\ slots[t].seq = q)
    BY <1>1 DEF Found, OneSlotPerBurst, found
  <1>9. /\ slots' = [slots EXCEPT ![s] = new]
        /\ next_age' = (IF found THEN next_age ELSE next_age + 1)
        /\ out' = IF frames = all THEN [key |-> k, parts |-> [x \in all |-> data[x]]]
                                  ELSE NoPayload
    BY DEF Push, slot, s, found
  <1>10. next_age' \in Nat
    BY <1>9 DEF TypeOK
  <1>11. NoCrossTalk'
    <2> SUFFICES ASSUME out' # NoPayload,
                        NEW x \in DOMAIN out'.parts, NEW y \in DOMAIN out'.parts
                 PROVE  /\ out'.parts[x] \in Bucket
                        /\ out'.parts[x].key = out'.key
                        /\ out'.parts[x].burst % SeqCount = out'.parts[y].burst % SeqCount
      BY DEF NoCrossTalk
    <2>1. frames = all /\ out' = [key |-> k, parts |-> [z \in all |-> data[z]]]
      BY <1>9
    <2>2. /\ x \in frames /\ y \in frames /\ out'.key = k
          /\ out'.parts[x] = data[x] /\ out'.parts[y] = data[y]
      BY <2>1
    <2>3. QED
      BY <1>6, <2>2
  <1>12. QED
    BY <1>1, <1>5, <1>4, <1>7, <1>8, <1>9, <1>10, <1>11

-----------------------------------------------------------------------------
(* The inductive invariant.                                                *)

Assembled == TypeOK /\ OneSlotPerBurst /\ SlotsSound /\ NoCrossTalk

LEMMA AssembledInit == Init => Assembled
  <1> SUFFICES ASSUME Init PROVE Assembled
    OBVIOUS
  <1>1. (CHOOSE k \in Key : TRUE) \in Key
    BY FastPacketAssumption
  <1>2. 0 \in Count /\ 1 \in Size /\ 0 \in 0 .. MaxBursts /\ 0 \in 0 .. MaxLost
    BY FastPacketAssumption DEF Count, Size
  <1>3. slots \in [Slot -> SlotType]
    BY <1>1, <1>2 DEF Init, SlotType
  <1>4. \A s \in Slot : ~slots[s].used
    BY DEF Init
  <1>5. sending \in [Key -> [burst : 0 .. MaxBursts, size : Size,
                            todo : SUBSET Index, whole : BOOLEAN]]
    BY <1>2 DEF Init
  <1>6. \A k \in Key : Idle(k)
    BY DEF Init, Idle
  <1>7. next_age \in Nat /\ bus \in Buses /\ intact \in [Key -> 0 .. MaxBursts] /\ lost \in 0 .. MaxLost
    BY <1>2 DEF Init
  <1>8. TypeOK
    BY <1>3, <1>4, <1>5, <1>6, <1>7 DEF TypeOK
  <1>9. OneSlotPerBurst /\ SlotsSound
    BY <1>4 DEF OneSlotPerBurst, SlotsSound
  <1>10. NoCrossTalk
    BY DEF Init, NoCrossTalk
  <1>11. QED
    BY <1>8, <1>9, <1>10 DEF Assembled

LEMMA AssembledBegin ==
    ASSUME Assembled, NEW k \in Key, Begin(k)
    PROVE  Assembled'
  <1> USE DEF Assembled
  <1>1. PICK size \in bus.sizes :
          sending' = [sending EXCEPT ![k] = [burst |-> @.burst + 1, size  |-> size,
                                             todo  |-> Chunks(size), whole |-> TRUE]]
    BY DEF Begin
  <1>2. size \in Size /\ Chunks(size) \in SUBSET Index
    BY FastPacketAssumption, IndexTypes DEF TypeOK, Bus
  <1>3. sending[k].burst + 1 \in 0 .. MaxBursts /\ sending[k].burst + 1 # 0
    BY FastPacketAssumption DEF Begin, TypeOK
  <1>4. sending' \in [Key -> [burst : 0 .. MaxBursts, size : Size,
                             todo : SUBSET Index, whole : BOOLEAN]]
    BY <1>1, <1>2, <1>3 DEF TypeOK
  <1>5. \A j \in Key : sending'[j].burst = 0 => Idle(j)'
    BY <1>1, <1>3 DEF TypeOK, Idle
  <1>6. UNCHANGED <<slots, next_age, out, bus, intact, lost>>
    BY DEF Begin
  <1>7. TypeOK'
    BY <1>4, <1>5, <1>6 DEF TypeOK
  <1>8. OneSlotPerBurst' /\ SlotsSound' /\ NoCrossTalk'
    BY <1>6 DEF OneSlotPerBurst, SlotsSound, NoCrossTalk, Sound
  <1>9. QED
    BY <1>7, <1>8

LEMMA AssembledLose ==
    ASSUME Assembled, NEW k \in Key, Lose(k)
    PROVE  Assembled'
  <1> USE DEF Assembled
  <1>1. PICK i \in Upcoming(k) :
          sending' = [sending EXCEPT ![k].todo  = @ \ Missing(k, i),
                                     ![k].whole = FALSE]
    BY DEF Lose
  <1>2. sending' \in [Key -> [burst : 0 .. MaxBursts, size : Size,
                             todo : SUBSET Index, whole : BOOLEAN]]
    BY <1>1 DEF TypeOK
  <1>3. \A j \in Key : sending'[j].burst = 0 => Idle(j)'
    BY <1>1 DEF TypeOK, Idle
  <1>4. lost' \in 0 .. MaxLost
    BY FastPacketAssumption DEF Lose, TypeOK
  <1>5. UNCHANGED <<slots, next_age, out, bus, intact>>
    BY DEF Lose
  <1>6. TypeOK'
    BY <1>2, <1>3, <1>4, <1>5 DEF TypeOK
  <1>7. OneSlotPerBurst' /\ SlotsSound' /\ NoCrossTalk'
    BY <1>5 DEF OneSlotPerBurst, SlotsSound, NoCrossTalk, Sound
  <1>8. QED
    BY <1>6, <1>7

LEMMA AssembledArrive ==
    ASSUME Assembled, NEW k \in Key, Arrive(k)
    PROVE  Assembled'
  <1> DEFINE b == sending[k].burst
             size == sending[k].size
             q == b % SeqCount
             tag == [key |-> k, burst |-> b]
  <1>1. PICK i \in Upcoming(k) :
          /\ Push(k, q, i, size, tag)
          /\ sending' = [sending EXCEPT ![k].todo = @ \ {i}]
          /\ intact'  = IF IsBurst(out', k, b, size) THEN [intact EXCEPT ![k] = b] ELSE intact
          /\ UNCHANGED <<bus, lost>>
    BY DEF Arrive
  <1>2. i \in sending[k].todo
    BY <1>1, FastPacketAssumption DEF Upcoming, Assembled, TypeOK, Bus
  <1>3. i \in Index /\ size \in Size /\ b \in 0 .. MaxBursts /\ b # 0
    BY <1>2 DEF Assembled, TypeOK, Idle
  <1>4. b \in 1 .. MaxBursts /\ b \in Nat
    BY <1>3, FastPacketAssumption
  <1>5. q \in Count
    BY <1>4, IndexTypes
  <1>6. tag \in Bucket /\ tag.key = k /\ tag.burst % SeqCount = q
    BY <1>4 DEF Bucket
  <1>7. TypeOK /\ OneSlotPerBurst /\ SlotsSound
    BY DEF Assembled
  <1>8. PICK s \in Slot : \E new \in SlotType :
              /\ slots' = [slots EXCEPT ![s] = new]
              /\ new.key = k /\ new.seq = q
              /\ new.used => new.frames # {} /\ new.frames # new.all
              /\ Sound(new)
              /\ \A t \in Slot \ {s} :
                    ~(slots[t].used /\ slots[t].key = k /\ slots[t].seq = q)
              /\ next_age' \in Nat
              /\ NoCrossTalk'
    <2> HIDE DEF q, tag, size
    <2> QED
      BY <1>1, <1>3, <1>5, <1>6, <1>7, PushEffect
  <1>9. PICK new \in SlotType :
              /\ slots' = [slots EXCEPT ![s] = new]
              /\ new.key = k /\ new.seq = q
              /\ new.used => new.frames # {} /\ new.frames # new.all
              /\ Sound(new)
              /\ \A t \in Slot \ {s} :
                    ~(slots[t].used /\ slots[t].key = k /\ slots[t].seq = q)
              /\ next_age' \in Nat
              /\ NoCrossTalk'
    BY <1>8
  <1> HIDE DEF q, tag, b, size
  <1>10. \A t \in Slot : slots'[t] = IF t = s THEN new ELSE slots[t]
    BY <1>7, <1>9 DEF TypeOK
  <1>11. TypeOK'
    <2>1. slots' \in [Slot -> SlotType]
      BY <1>7, <1>9 DEF TypeOK
    <2>2. \A t \in Slot : slots'[t].used => slots'[t].frames # {} /\ slots'[t].frames # slots'[t].all
      BY <1>7, <1>9, <1>10 DEF TypeOK
    <2>3. intact' \in [Key -> 0 .. MaxBursts] /\ lost' \in 0 .. MaxLost /\ bus' \in Buses
      BY <1>1, <1>3, <1>7 DEF TypeOK
    <2>4. sending' \in [Key -> [burst : 0 .. MaxBursts, size : Size,
                                todo : SUBSET Index, whole : BOOLEAN]]
      BY <1>1, <1>7 DEF TypeOK
    <2>5. \A j \in Key : sending'[j].burst = 0 => Idle(j)'
      BY <1>1, <1>7 DEF TypeOK, Idle
    <2>6. QED
      BY <2>1, <2>2, <2>3, <2>4, <2>5, <1>9 DEF TypeOK
  <1>12. SlotsSound'
    BY <1>7, <1>9, <1>10 DEF SlotsSound, Sound
  <1>13. OneSlotPerBurst'
    <2> SUFFICES ASSUME NEW t \in Slot, NEW u \in Slot,
                        slots'[t].used, slots'[u].used,
                        slots'[t].key = slots'[u].key, slots'[t].seq = slots'[u].seq,
                        t # u
                 PROVE  FALSE
      BY DEF OneSlotPerBurst
    <2>1. CASE t = s
      <3>1. u # s /\ slots'[u] = slots[u]
        BY <1>10, <2>1
      <3>2. slots[u].used /\ slots[u].key = k /\ slots[u].seq = q
        BY <3>1, <2>1, <1>9, <1>10
      <3>3. QED
        BY <3>1, <3>2, <1>9
    <2>2. CASE u = s
      <3>1. t # s /\ slots'[t] = slots[t]
        BY <1>10, <2>2
      <3>2. slots[t].used /\ slots[t].key = k /\ slots[t].seq = q
        BY <3>1, <2>2, <1>9, <1>10
      <3>3. QED
        BY <3>1, <3>2, <1>9
    <2>3. CASE t # s /\ u # s
      BY <1>7, <1>10, <2>3 DEF OneSlotPerBurst
    <2>4. QED
      BY <2>1, <2>2, <2>3
  <1>14. QED
    BY <1>9, <1>11, <1>12, <1>13 DEF Assembled

LEMMA AssembledStep == Assembled /\ [Next]_vars => Assembled'
  <1> SUFFICES ASSUME Assembled, [Next]_vars PROVE Assembled'
    OBVIOUS
  <1>1. ASSUME NEW k \in Key, Begin(k) \/ Arrive(k) \/ Lose(k)
        PROVE  Assembled'
    BY <1>1, AssembledBegin, AssembledArrive, AssembledLose
  <1>2. CASE UNCHANGED vars
    BY <1>2 DEF Assembled, TypeOK, Idle, OneSlotPerBurst, SlotsSound, Sound,
                NoCrossTalk, vars
  <1>3. QED
    BY <1>1, <1>2 DEF Next

LEMMA AlwaysAssembled == Spec => []Assembled
  BY AssembledInit, AssembledStep, PTL DEF Spec

-----------------------------------------------------------------------------
(* The theorems.                                                           *)

\* The state of the reassembler and of the senders is well typed, and a slot
\* in use always waits for a frame: push frees a slot that holds everything,
\* so a finished message never blocks one of the REASSEMBLY_BUFFER_SIZE slots.
THEOREM FastPacketTypes == Spec => []TypeOK
  <1>1. Assembled => TypeOK
    BY DEF Assembled
  <1>2. QED
    BY <1>1, AlwaysAssembled, PTL

\* find_slot never has a choice: however slots are freed, evicted and claimed
\* again, no two of them assemble the same (pgn, src, seq).
THEOREM SlotsAreUnique == Spec => []OneSlotPerBurst
  <1>1. Assembled => OneSlotPerBurst
    BY DEF Assembled
  <1>2. QED
    BY <1>1, AlwaysAssembled, PTL

\* An emitted payload is complete and holds frames of one sender, one PGN and
\* one sequence count only, whatever is lost, reordered or evicted.
THEOREM PayloadsAreOfOneSender == Spec => []NoCrossTalk
  <1>1. Assembled => NoCrossTalk
    BY DEF Assembled
  <1>2. QED
    BY <1>1, AlwaysAssembled, PTL

-----------------------------------------------------------------------------
(* Under conditions push recovers from, with a slot for every sender and   *)
(* sequence count: every payload is a burst, every whole burst a payload.  *)

Recovers == Roomy /\ \A b \in Buses : Recoverable(b)

\* The frames of k's current burst that arrived, as long as more are to come.
Arrived(k) ==
    (IF sending[k].whole THEN Mask(sending[k].size) ELSE Mask(sending[k].size) \ {0})
    \ sending[k].todo

Underway(k) == sending[k].todo # {} /\ Arrived(k) # {}

\* The slot assembles the current burst of k.
Assembles(slot, k) ==
    slot.used /\ slot.key = k /\ slot.seq = sending[k].burst % SeqCount

Collected(slot, k) ==
    /\ slot.frames = Arrived(k)
    /\ slot.all = IF 0 \in Arrived(k) THEN Mask(sending[k].size) ELSE {}
    /\ \A i \in slot.frames : slot.data[i] = [key |-> k, burst |-> sending[k].burst]

\* What a burst that did not arrive whole leaves behind: frame 0 restarts it.
Leftover(slot) ==
    /\ bus.loses # "none"
    /\ bus.loses = "tail" => 0 \in slot.frames
    /\ bus.loses = "head" => /\ slot.all = {}
                             /\ \A size \in bus.sizes : slot.frames = Mask(size) \ {0}

\* What is left to come of k's burst.
Coming(k) ==
    /\ sending[k].size \in bus.sizes
    /\ sending[k].todo \subseteq Mask(sending[k].size)
    /\ sending[k].whole \/ (bus.loses = "head" /\ 0 \notin sending[k].todo)
    /\ bus.order = "sent" /\ 0 \in sending[k].todo => sending[k].todo = Mask(sending[k].size)
    /\ bus.order = "zero_not_last" /\ sending[k].todo = {0} => Mask(sending[k].size) = {0}

SlotsFit ==
    \A s \in Slot : slots[s].used =>
        LET k == slots[s].key IN
        IF Underway(k) /\ Assembles(slots[s], k) THEN Collected(slots[s], k)
                                                 ELSE Leftover(slots[s])

UnderwayHasSlot == \A k \in Key : Underway(k) => \E s \in Slot : Assembles(slots[s], k)

AllComing == \A k \in Key : sending[k].todo # {} => Coming(k)

Recovered ==
    /\ Assembled
    /\ SlotsFit
    /\ UnderwayHasSlot
    /\ AllComing
    /\ NeverMixed
    /\ WholeBurstsEmitted

\* With a slot for everyone, claim_slot finds one that is not in use.
LEMMA FreeSlot ==
    ASSUME Roomy, TypeOK, OneSlotPerBurst, NEW k \in Key, NEW q \in Count, Found(k, q) = {}
    PROVE  Unused # {} /\ ClaimedSlot \in Unused
  <1> DEFINE keys == (Key \X Count) \ {<<k, q>>}
             f == [s \in Slot |-> <<slots[s].key, slots[s].seq>>]
  <1>1. IsFiniteSet(Count) /\ Cardinality(Count) = SeqCount
    BY FS_Interval, FastPacketAssumption DEF Count
  <1>2. IsFiniteSet(Slot) /\ Cardinality(Slot) = Slots
    BY FS_Interval, FastPacketAssumption DEF Slot
  <1>3. IsFiniteSet(Key \X Count) /\ Cardinality(Key \X Count) = Cardinality(Key) * SeqCount
    BY <1>1, FS_Product DEF Roomy
  <1>4. <<k, q>> \in Key \X Count
    OBVIOUS
  <1>5. IsFiniteSet(keys) /\ Cardinality(keys) = Cardinality(Key \X Count) - 1
    BY <1>3, <1>4, FS_RemoveElement
  <1>6. Cardinality(Key) \in Nat
    BY FS_CardinalityType DEF Roomy
  <1>7. Cardinality(keys) < Cardinality(Slot)
    BY <1>2, <1>3, <1>5, <1>6, FastPacketAssumption DEF Roomy
  <1>8. Unused # {}
    <2> SUFFICES ASSUME Unused = {} PROVE FALSE
      OBVIOUS
    <2>1. \A s \in Slot : slots[s].used
      BY DEF Unused
    <2>2. f \in [Slot -> keys]
      BY <2>1 DEF TypeOK, SlotType, Found
    <2>3. PICK s \in Slot, t \in Slot : s # t /\ f[s] = f[t]
      <3> HIDE DEF f, keys
      <3> QED
        BY <1>2, <1>5, <1>7, <2>2, FS_PigeonHole
    <2>4. QED
      BY <2>1, <2>3 DEF OneSlotPerBurst
  <1>9. Unused \subseteq Nat
    BY FastPacketAssumption DEF Unused, Slot
  <1>10. QED
    BY <1>8, <1>9, MinIsMember DEF ClaimedSlot

\* push works on slot s, whose content is slot (what a free one is given): it
\* keeps the frames kept, adds frame i and then waits for all.
PushedInto(s, slot, kept, all, k, q, i, size, tag) ==
    /\ s \in Slot
    /\ \/ slot = slots[s] /\ slot.used /\ slot.key = k /\ slot.seq = q
       \/ slot = EmptySlot(k, q) /\ ~slots[s].used /\ Found(k, q) = {}
    /\ kept = IF Restarts(slot.frames, i, size) THEN {} ELSE slot.frames
    /\ all = IF i = 0 THEN Mask(size) ELSE slot.all
    /\ slots' = [slots EXCEPT ![s] =
                    After(slot, kept \cup {i}, all, [slot.data EXCEPT ![i] = tag])]
    /\ out' = IF kept \cup {i} = all
              THEN [key |-> k, parts |-> [x \in all |-> [slot.data EXCEPT ![i] = tag][x]]]
              ELSE NoPayload

LEMMA PushInPlace ==
    ASSUME Roomy, TypeOK, OneSlotPerBurst,
           NEW k \in Key, NEW q \in Count, NEW i, NEW size, NEW tag,
           Push(k, q, i, size, tag)
    PROVE  \E s, slot, kept, all : PushedInto(s, slot, kept, all, k, q, i, size, tag)
  <1> DEFINE found == Found(k, q) # {}
             s     == IF found THEN Min_(Found(k, q)) ELSE ClaimedSlot
             slot  == IF found THEN slots[s] ELSE EmptySlot(k, q)
             kept  == IF Restarts(slot.frames, i, size) THEN {} ELSE slot.frames
             all   == IF i = 0 THEN Mask(size) ELSE slot.all
  <1>1. /\ s \in Slot
        /\ \/ slot = slots[s] /\ slot.used /\ slot.key = k /\ slot.seq = q
           \/ slot = EmptySlot(k, q) /\ ~slots[s].used /\ Found(k, q) = {}
    <2>1. CASE found
      <3>1. Found(k, q) \subseteq Nat
        BY FastPacketAssumption DEF Found, Slot
      <3>2. s \in Found(k, q)
        BY <2>1, <3>1, MinIsMember
      <3>3. QED
        BY <2>1, <3>2 DEF Found
    <2>2. CASE ~found
      BY <2>2, FreeSlot DEF Unused
    <2>3. QED
      BY <2>1, <2>2
  <1>2. /\ slots' = [slots EXCEPT ![s] =
                       After(slot, kept \cup {i}, all, [slot.data EXCEPT ![i] = tag])]
        /\ out' = IF kept \cup {i} = all
                 THEN [key |-> k, parts |-> [x \in all |-> [slot.data EXCEPT ![i] = tag][x]]]
                 ELSE NoPayload
    BY DEF Push
  <1>3. /\ kept = IF Restarts(slot.frames, i, size) THEN {} ELSE slot.frames
        /\ all = IF i = 0 THEN Mask(size) ELSE slot.all
    OBVIOUS
  <1> HIDE DEF s, slot, kept, all
  <1>4. PushedInto(s, slot, kept, all, k, q, i, size, tag)
    BY <1>1, <1>2, <1>3 DEF PushedInto
  <1>5. QED
    BY <1>4

LEMMA RecoveredInit == Recovers /\ Init => Recovered
  <1> SUFFICES ASSUME Recovers, Init PROVE Recovered
    OBVIOUS
  <1>1. Assembled
    BY AssembledInit
  <1>2. /\ \A s \in Slot : ~slots[s].used
        /\ \A k \in Key : /\ sending[k].todo = {} /\ sending[k].burst = 0
                          /\ intact[k] = 0 /\ ~sending[k].whole
        /\ out = NoPayload
    BY DEF Init
  <1>3. SlotsFit /\ UnderwayHasSlot /\ AllComing
    BY <1>2 DEF SlotsFit, UnderwayHasSlot, AllComing, Underway
  <1>4. NeverMixed /\ WholeBurstsEmitted
    BY <1>2 DEF NeverMixed, WholeBurstsEmitted
  <1>5. QED
    BY <1>1, <1>3, <1>4 DEF Recovered

\* Nothing of k's current burst is in a slot: the slots of the other keys, which
\* are untouched, fit as before.
LEMMA FitsAsBefore ==
    ASSUME Recovered, NEW k \in Key, UNCHANGED <<slots, bus>>,
           \A j \in Key \ {k} : sending'[j] = sending[j],
           ~Underway(k)',
           \A s \in Slot : slots[s].used /\ slots[s].key = k => Leftover(slots[s])
    PROVE  SlotsFit' /\ UnderwayHasSlot'
  <1>1. SlotsFit'
    <2> SUFFICES ASSUME NEW s \in Slot, slots'[s].used
                 PROVE  IF Underway(slots[s].key)' /\ Assembles(slots[s], slots[s].key)'
                        THEN Collected(slots[s], slots[s].key)' ELSE Leftover(slots[s])'
      BY DEF SlotsFit
    <2>1. CASE slots[s].key = k
      BY <2>1 DEF Leftover
    <2>2. CASE slots[s].key # k
      <3>1. slots[s].key \in Key \ {k}
        BY <2>2 DEF Recovered, Assembled, TypeOK, SlotType
      <3>2. QED
        BY <3>1 DEF Recovered, SlotsFit, Underway, Assembles, Collected, Arrived, Leftover
    <2>3. QED
      BY <2>1, <2>2
  <1>2. UnderwayHasSlot'
    BY DEF Recovered, UnderwayHasSlot, Underway, Assembles, Arrived
  <1>3. QED
    BY <1>1, <1>2

\* The types give every slot a mask of indices and every mask frame 0.
LEMMA MaskHasZero == \A size \in Size : 0 \in Mask(size) /\ Mask(size) = Chunks(size)
  <1>1. \A size \in Size : size \div 7 \in Nat
    BY FastPacketAssumption DEF Size
  <1>2. QED
    BY <1>1, SenderAndReceiverAgree DEF Mask

LEMMA RecoveredBegin ==
    ASSUME Recovers, Recovered, NEW k \in Key, Begin(k)
    PROVE  Recovered'
  <1>1. Assembled'
    BY AssembledBegin DEF Recovered
  <1>2. PICK size \in bus.sizes :
          sending' = [sending EXCEPT ![k] = [burst |-> @.burst + 1, size  |-> size,
                                             todo  |-> Chunks(size), whole |-> TRUE]]
    BY DEF Begin
  <1>3. size \in Size
    BY FastPacketAssumption DEF Recovered, Assembled, TypeOK, Bus
  <1>4. /\ sending'[k].todo = Mask(size) /\ sending'[k].size = size /\ sending'[k].whole
        /\ \A j \in Key \ {k} : sending'[j] = sending[j]
    BY <1>2, <1>3, MaskHasZero DEF Recovered, Assembled, TypeOK
  <1>5. UNCHANGED <<slots, next_age, out, bus, intact, lost>>
    BY DEF Begin
  <1>6. ~Underway(k)'
    BY <1>4 DEF Underway, Arrived
  <1>7. \A s \in Slot : slots[s].used /\ slots[s].key = k => Leftover(slots[s])
    BY DEF Recovered, SlotsFit, Underway, Begin, Idle
  <1>8. SlotsFit' /\ UnderwayHasSlot'
    BY <1>4, <1>5, <1>6, <1>7, FitsAsBefore
  <1>9. AllComing'
    <2>1. Coming(k)'
      BY <1>3, <1>4, <1>5 DEF Coming
    <2>2. QED
      BY <1>4, <1>5, <2>1 DEF Recovered, AllComing, Coming
  <1>10. NeverMixed'
    BY <1>5 DEF Recovered, NeverMixed
  <1>11. WholeBurstsEmitted'
    <2>1. ~Idle(k)'
      BY <1>3, <1>4, MaskHasZero DEF Idle
    <2>2. QED
      BY <1>4, <1>5, <2>1 DEF Recovered, WholeBurstsEmitted, Idle
  <1>12. QED
    BY <1>1, <1>8, <1>9, <1>10, <1>11 DEF Recovered

LEMMA RecoveredLose ==
    ASSUME Recovers, Recovered, NEW k \in Key, Lose(k)
    PROVE  Recovered'
  <1> DEFINE size == sending[k].size
             todo == sending[k].todo
  <1>1. Assembled'
    BY AssembledLose DEF Recovered
  <1>2. PICK i \in Upcoming(k) :
          /\ Missing(k, i) # {}
          /\ sending' = [sending EXCEPT ![k].todo  = @ \ Missing(k, i), ![k].whole = FALSE]
    BY DEF Lose
  <1>3. /\ sending'[k].todo = todo \ Missing(k, i) /\ sending'[k].size = size
        /\ ~sending'[k].whole
        /\ \A j \in Key \ {k} : sending'[j] = sending[j]
    BY <1>2 DEF Recovered, Assembled, TypeOK
  <1>4. UNCHANGED <<slots, next_age, out, bus, intact>>
    BY DEF Lose
  <1>5. Recoverable(bus) /\ bus \in Bus
    BY FastPacketAssumption DEF Recovers, Recovered, Assembled, TypeOK
  <1>6. bus.loses # "none"
    BY <1>2 DEF Missing
  <1>7. bus.order = "sent" /\ bus.loses \in {"tail", "head"}
    BY <1>5, <1>6 DEF Recoverable
  <1>8. i \in todo /\ \A j \in todo : i <= j
    BY <1>2, <1>7 DEF Upcoming
  <1>9. size \in Size /\ todo \subseteq Index
    BY DEF Recovered, Assembled, TypeOK
  <1>10. Coming(k)
    BY <1>8 DEF Recovered, AllComing
  <1>11. /\ \A s \in Slot : slots[s].used /\ slots[s].key = k => Leftover(slots[s])
         /\ ~Underway(k)'
         /\ sending'[k].todo # {} => Coming(k)'
    <2>1. CASE bus.loses = "tail"
      <3>1. Missing(k, i) = todo
        BY <2>1, <1>8 DEF Missing
      <3>2. sending'[k].todo = {}
        BY <3>1, <1>3
      <3>3. Underway(k) => 0 \in Arrived(k)
        <4>1. sending[k].whole
          BY <1>10, <2>1 DEF Coming
        <4>2. Underway(k) => todo # Mask(size)
          BY <4>1 DEF Underway, Arrived
        <4>3. Underway(k) => 0 \notin todo
          BY <4>2, <1>7, <1>10 DEF Coming
        <4>4. QED
          BY <4>1, <4>3, <1>9, MaskHasZero DEF Arrived
      <3>4. \A s \in Slot : slots[s].used /\ slots[s].key = k => Leftover(slots[s])
        BY <2>1, <3>3 DEF Recovered, SlotsFit, Collected, Leftover
      <3>5. QED
        BY <3>2, <3>4 DEF Underway
    <2>2. CASE bus.loses = "head"
      <3>1. Missing(k, i) = {0} /\ i = 0
        BY <2>2, <1>2 DEF Missing
      <3>2. todo = Mask(size) /\ sending[k].whole
        BY <3>1, <1>7, <1>8, <1>10 DEF Coming
      <3>3. ~Underway(k)
        BY <3>2 DEF Underway, Arrived
      <3>4. \A s \in Slot : slots[s].used /\ slots[s].key = k => Leftover(slots[s])
        BY <3>3 DEF Recovered, SlotsFit
      <3>5. sending'[k].todo = Mask(size) \ {0}
        BY <3>1, <3>2, <1>3
      <3>6. ~Underway(k)'
        BY <3>5, <1>3 DEF Underway, Arrived
      <3>7. Coming(k)'
        BY <3>5, <1>3, <1>4, <1>7, <1>10, <2>2 DEF Coming
      <3>8. QED
        BY <3>4, <3>6, <3>7
    <2>3. QED
      BY <2>1, <2>2, <1>7
  <1>12. SlotsFit' /\ UnderwayHasSlot'
    BY <1>3, <1>4, <1>11, FitsAsBefore
  <1>13. AllComing'
    BY <1>3, <1>4, <1>11 DEF Recovered, AllComing, Coming
  <1>14. NeverMixed' /\ WholeBurstsEmitted'
    BY <1>3, <1>4 DEF Recovered, NeverMixed, WholeBurstsEmitted, Idle
  <1>15. QED
    BY <1>1, <1>12, <1>13, <1>14 DEF Recovered

\* Frame i of k's current burst is pushed.
PushedFrame(k, i, s, slot, kept, all) ==
    PushedInto(s, slot, kept, all, k, sending[k].burst % SeqCount, i, sending[k].size,
               [key |-> k, burst |-> sending[k].burst])

\* push keeps exactly the frames of this burst that arrived before.
KeptTheBurst(k, i, slot, kept) ==
    /\ i \in sending[k].todo /\ Coming(k) /\ i \notin Arrived(k)
    /\ kept = Arrived(k)
    /\ i # 0 => slot.all = IF 0 \in Arrived(k) THEN Mask(sending[k].size) ELSE {}
    /\ slot \in SlotType
    /\ \A x \in kept : slot.data[x] = [key |-> k, burst |-> sending[k].burst]

LEMMA KeepsTheBurst ==
    ASSUME Recovers, Recovered, NEW k \in Key, NEW i \in Upcoming(k),
           NEW s, NEW slot, NEW kept, NEW all, PushedFrame(k, i, s, slot, kept, all)
    PROVE  KeptTheBurst(k, i, slot, kept)
  <1> USE DEF PushedFrame, KeptTheBurst
  <1> DEFINE size == sending[k].size
             todo == sending[k].todo
             q == sending[k].burst % SeqCount
  <1>1. Recoverable(bus) /\ bus \in Bus
    BY FastPacketAssumption DEF Recovers, Recovered, Assembled, TypeOK
  <1>2. \/ bus.order = "sent" /\ bus.loses \in {"none", "tail", "head"}
        \/ bus.order = "zero_not_last" /\ bus.loses = "none"
    BY <1>1 DEF Recoverable, Bus
  <1>3. /\ i \in todo
        /\ bus.order = "sent" => \A j \in todo : i <= j
        /\ bus.order = "zero_not_last" => todo \ {i} # {0}
    BY <1>2 DEF Upcoming
  <1>4. Coming(k)
    BY <1>3 DEF Recovered, AllComing
  <1>5. size \in Size /\ todo \subseteq Index /\ i \in Index
    BY <1>3 DEF Recovered, Assembled, TypeOK
  <1>6. 0 \in Mask(size) /\ Mask(size) \in SUBSET Index
    BY <1>5, MaskHasZero, IndexTypes
  <1>7. i \notin Arrived(k)
    BY <1>3 DEF Arrived
  <1>8. i = 0 => /\ sending[k].whole
                 /\ bus.order = "sent" => Arrived(k) = {}
                 /\ bus.order = "zero_not_last" => Mask(size) = {0} \/ todo # {0}
    BY <1>3, <1>4 DEF Coming, Arrived
  <1>9. EmptySlot(k, q) \in SlotType
    <2>1. sending[k].burst \in Nat
      BY FastPacketAssumption DEF Recovered, Assembled, TypeOK
    <2>2. q \in Count
      BY <2>1, IndexTypes
    <2>3. QED
      BY <2>2 DEF EmptySlot, SlotType, Recovered, Assembled, TypeOK
  <1>10. /\ kept = IF Restarts(slot.frames, i, size) THEN {} ELSE slot.frames
         /\ s \in Slot
         /\ \/ slot = slots[s] /\ slot.used /\ slot.key = k /\ slot.seq = q
            \/ slot = EmptySlot(k, q) /\ Found(k, q) = {}
    BY DEF PushedInto
  <1>11. slot \in SlotType
    BY <1>9, <1>10 DEF Recovered, Assembled, TypeOK
  <1>12. CASE Underway(k)
    <2>1. Found(k, q) # {}
      BY <1>12 DEF Recovered, UnderwayHasSlot, Assembles, Found
    <2>2. slot = slots[s] /\ Assembles(slot, k)
      BY <1>10, <2>1 DEF Assembles
    <2>3. Collected(slot, k)
      BY <1>10, <1>12, <2>2 DEF Recovered, SlotsFit, Assembles
    <2>4. Arrived(k) # {} /\ slot.frames = Arrived(k)
      BY <1>12, <2>3 DEF Underway, Collected
    <2>5. ~Restarts(slot.frames, i, size)
      <3>1. CASE i # 0
        BY <3>1, <2>4, <1>7 DEF Restarts
      <3>2. CASE i = 0
        <4>1. bus.order = "zero_not_last" /\ sending[k].whole
          BY <3>2, <1>8, <2>4, <1>2
        <4>2. Arrived(k) = Mask(size) \ todo
          BY <4>1 DEF Arrived
        <4>3. Mask(size) \subseteq Arrived(k) \cup {0} => todo = {0}
          BY <4>2, <1>3, <1>4, <3>2 DEF Coming
        <4>4. QED
          BY <4>1, <4>3, <1>7, <1>8, <2>4, <3>2 DEF Restarts
      <3>3. QED
        BY <3>1, <3>2
    <2>6. QED
      BY <1>3, <1>4, <1>7, <1>10, <1>11, <2>3, <2>4, <2>5 DEF Collected
  <1>13. CASE ~Underway(k)
    <2>1. Arrived(k) = {}
      BY <1>13, <1>3 DEF Underway
    <2>2. CASE slot = EmptySlot(k, q)
      BY <2>1, <2>2, <1>3, <1>4, <1>7, <1>10, <1>11 DEF EmptySlot
    <2>3. CASE slot = slots[s] /\ slot.used /\ slot.key = k
      <3>1. Leftover(slot)
        BY <1>10, <1>13, <2>3 DEF Recovered, SlotsFit
      <3>2. bus.order = "sent" /\ bus.loses \in {"tail", "head"}
        BY <3>1, <1>2 DEF Leftover
      <3>3. slot.frames # {}
        BY <1>10, <2>3 DEF Recovered, Assembled, TypeOK
      <3>4. sending[k].whole => i = 0
        <4> SUFFICES ASSUME sending[k].whole PROVE i = 0
          OBVIOUS
        <4>1. 0 \in todo
          BY <2>1, <1>6 DEF Arrived
        <4>2. i <= 0
          BY <4>1, <3>2, <1>3
        <4>3. i \in Nat
          BY <1>5, FastPacketAssumption DEF Index
        <4>4. QED
          BY <4>2, <4>3
      <3>5. CASE bus.loses = "tail"
        <4>1. i = 0
          BY <3>4, <3>5, <1>4 DEF Coming
        <4>2. Restarts(slot.frames, i, size)
          BY <3>1, <3>5, <4>1 DEF Leftover, Restarts
        <4>3. QED
          BY <1>3, <1>4, <1>7, <1>10, <1>11, <2>1, <4>1, <4>2
      <3>6. CASE bus.loses = "head"
        <4>1. slot.all = {} /\ slot.frames = Mask(size) \ {0}
          BY <3>1, <3>6, <1>4 DEF Leftover, Coming
        <4>2. Restarts(slot.frames, i, size)
          <5>1. CASE i = 0
            BY <5>1, <4>1, <3>3 DEF Restarts
          <5>2. CASE i # 0
            BY <5>2, <4>1, <1>3, <1>4 DEF Restarts, Coming
          <5>3. QED
            BY <5>1, <5>2
        <4>3. QED
          BY <1>3, <1>4, <1>7, <1>10, <1>11, <2>1, <4>1, <4>2
      <3>7. QED
        BY <3>2, <3>5, <3>6
    <2>4. QED
      BY <1>10, <2>2, <2>3
  <1>14. QED
    BY <1>12, <1>13

LEMMA RecoveredArrive ==
    ASSUME Recovers, Recovered, NEW k \in Key, Arrive(k)
    PROVE  Recovered'
  <1> DEFINE b == sending[k].burst
             size == sending[k].size
             todo == sending[k].todo
             q == b % SeqCount
             tag == [key |-> k, burst |-> b]
  <1>1. Assembled'
    BY AssembledArrive DEF Recovered
  <1>2. PICK i \in Upcoming(k) :
          /\ Push(k, q, i, size, tag)
          /\ sending' = [sending EXCEPT ![k].todo = @ \ {i}]
          /\ intact'  = IF IsBurst(out', k, b, size) THEN [intact EXCEPT ![k] = b] ELSE intact
          /\ UNCHANGED <<bus, lost>>
    BY DEF Arrive
  <1>3. size \in Size /\ q \in Count /\ todo \subseteq Index
    <2>1. b \in Nat
      BY FastPacketAssumption DEF Recovered, Assembled, TypeOK
    <2>2. QED
      BY <2>1, IndexTypes DEF Recovered, Assembled, TypeOK
  <1>4. \E s, slot, kept, all : PushedInto(s, slot, kept, all, k, q, i, size, tag)
    <2> HIDE DEF q, size, tag
    <2> QED
      BY <1>2, <1>3, PushInPlace DEF Recovers, Recovered, Assembled
  <1>5. PICK s, slot, kept, all : PushedInto(s, slot, kept, all, k, q, i, size, tag)
    BY <1>4
  <1>6. /\ i \in todo /\ Coming(k) /\ i \notin Arrived(k)
        /\ kept = Arrived(k)
        /\ i # 0 => slot.all = IF 0 \in Arrived(k) THEN Mask(size) ELSE {}
        /\ slot \in SlotType
        /\ \A x \in kept : slot.data[x] = tag
    <2>1. PushedFrame(k, i, s, slot, kept, all)
      BY <1>5 DEF PushedFrame
    <2>2. KeptTheBurst(k, i, slot, kept)
      BY <2>1, KeepsTheBurst
    <2>3. QED
      BY <2>2 DEF KeptTheBurst
  <1>7. 0 \in Mask(size) /\ Mask(size) \in SUBSET Index /\ Chunks(size) = Mask(size)
    BY <1>3, MaskHasZero, IndexTypes
  <1> DEFINE frames == kept \cup {i}
             data == [slot.data EXCEPT ![i] = tag]
             new == After(slot, frames, all, data)
  <1>8. /\ s \in Slot
        /\ slots' = [slots EXCEPT ![s] = new]
        /\ out' = IF frames = all THEN [key |-> k, parts |-> [x \in all |-> data[x]]] ELSE NoPayload
        /\ all = IF i = 0 THEN Mask(size) ELSE slot.all
        /\ \/ slot = slots[s] /\ slot.used /\ slot.key = k /\ slot.seq = q
           \/ slot = EmptySlot(k, q) /\ ~slots[s].used /\ Found(k, q) = {}
    BY <1>5 DEF PushedInto
  <1>9. /\ sending'[k].todo = todo \ {i} /\ sending'[k].size = size /\ sending'[k].burst = b
        /\ sending'[k].whole = sending[k].whole
        /\ \A j \in Key \ {k} : sending'[j] = sending[j]
    BY <1>2 DEF Recovered, Assembled, TypeOK
  <1>10. Arrived(k)' = frames
    BY <1>6, <1>9 DEF Arrived, Coming
  <1>11. all = IF 0 \in frames THEN Mask(size) ELSE {}
    BY <1>6, <1>8
  <1>12. \A x \in frames : data[x] = tag
    <2>1. slot.data \in [Index -> Bucket \cup {Nobody}] /\ i \in Index
      BY <1>3, <1>6 DEF SlotType
    <2>2. QED
      BY <1>6, <2>1
  <1>13. 0 \in frames <=> sending[k].whole /\ 0 \notin sending'[k].todo
    BY <1>7, <1>9, <1>10 DEF Arrived
  <1>14. frames = all <=> sending[k].whole /\ sending'[k].todo = {}
    <2>1. sending'[k].todo \subseteq Mask(size)
      BY <1>6, <1>9 DEF Coming
    <2>2. sending[k].whole => frames = Mask(size) \ sending'[k].todo
      BY <1>9, <1>10 DEF Arrived
    <2>3. frames # {}
      OBVIOUS
    <2> HIDE DEF frames
    <2>4. CASE frames = all
      BY <2>4, <2>1, <2>2, <2>3, <1>11, <1>13
    <2>5. CASE sending[k].whole /\ sending'[k].todo = {}
      BY <2>5, <2>2, <1>11, <1>13
    <2>6. QED
      BY <2>4, <2>5
  <1>15. slots \in [Slot -> SlotType]
    BY DEF Recovered, Assembled, TypeOK
  <1>16. \A t \in Slot : slots'[t] = IF t = s THEN new ELSE slots[t]
    BY <1>8, <1>15
  <1>17. /\ new.key = k /\ new.seq = q /\ new.data = data
         /\ new.used = (frames # all)
         /\ new.used => new.frames = frames /\ new.all = all
    <2>1. slot.key = k /\ slot.seq = q
      BY <1>8 DEF EmptySlot
    <2> HIDE DEF frames, data
    <2>2. QED
      BY <1>6, <2>1 DEF After, SlotType
  <1>18. \A t \in Slot \ {s} : ~(slots[t].used /\ slots[t].key = k /\ slots[t].seq = q)
    BY <1>8 DEF Found, Recovered, Assembled, OneSlotPerBurst
  <1>19. bus' = bus
    BY <1>2
  <1> HIDE DEF new, frames, data, q, b, tag, size, todo
  <1>20. ASSUME NEW t \in Slot, slots'[t].used
         PROVE  IF Underway(slots[t].key)' /\ Assembles(slots[t], slots[t].key)'
                THEN Collected(slots[t], slots[t].key)' ELSE Leftover(slots[t])'
    <2>1. CASE t = s
      <3>1. /\ new.used /\ slots'[t] = new /\ slots'[t].key = k
            /\ frames # all /\ new.frames = frames /\ new.all = all
        BY <2>1, <1>16, <1>17, <1>20
      <3>2. CASE sending'[k].todo # {}
        <4>1. Underway(k)' /\ Arrived(k)' = frames
          <5>1. frames # {}
            BY DEF frames
          <5>2. QED
            BY <5>1, <3>2, <1>10 DEF Underway
        <4>2. Collected(slots[t], k)'
          <5>1. \A x \in new.frames : new.data[x] = [key |-> k, burst |-> sending'[k].burst]
            BY <3>1, <1>9, <1>12, <1>17 DEF tag
          <5>2. QED
            BY <3>1, <4>1, <5>1, <1>9, <1>11 DEF Collected
        <4>3. Assembles(slots[t], k)'
          BY <3>1, <1>9, <1>17 DEF Assembles, q
        <4>4. QED
          BY <3>1, <4>1, <4>2, <4>3
      <3>3. CASE sending'[k].todo = {}
        <4>1. ~sending[k].whole
          BY <3>1, <3>3, <1>14
        <4>2. bus.loses = "head" /\ Recoverable(bus) /\ bus \in Bus /\ size \in bus.sizes
          BY <4>1, <1>6, FastPacketAssumption
          DEF Coming, Recovers, Recovered, Assembled, TypeOK, size
        <4>3. frames = Mask(size) \ {0} /\ all = {}
          BY <4>1, <3>3, <1>9, <1>10, <1>11, <1>13 DEF Arrived
        <4>4. \A other \in bus.sizes : other = size
          BY <4>2 DEF Recoverable
        <4>5. Leftover(slots[t])'
          BY <3>1, <4>2, <4>3, <4>4, <1>19 DEF Leftover
        <4>6. ~Underway(k)'
          BY <3>3 DEF Underway
        <4>7. QED
          BY <3>1, <4>5, <4>6
      <3>4. QED
        BY <3>2, <3>3
    <2>2. CASE t # s /\ slots[t].key = k
      <3>1. slots'[t] = slots[t] /\ slots[t].used
        BY <2>2, <1>16, <1>20
      <3>2. slots[t].seq # q
        BY <2>2, <3>1, <1>18
      <3>3. ~Assembles(slots[t], k) /\ ~Assembles(slots[t], k)'
        BY <3>1, <3>2, <1>9 DEF Assembles, q, b
      <3>4. Leftover(slots[t])
        BY <2>2, <3>1, <3>3 DEF Recovered, SlotsFit
      <3>5. Leftover(slots[t])'
        BY <3>1, <3>4, <1>19 DEF Leftover
      <3>6. QED
        BY <2>2, <3>1, <3>3, <3>5
    <2>3. CASE slots[t].key # k /\ t # s
      <3>1. slots'[t] = slots[t] /\ slots[t].key \in Key \ {k} /\ slots[t].used
        BY <2>3, <1>15, <1>16, <1>20 DEF SlotType
      <3>2. QED
        BY <3>1, <1>9, <1>19
        DEF Recovered, SlotsFit, Underway, Assembles, Collected, Arrived, Leftover
    <2>4. QED
      BY <2>1, <2>2, <2>3
  <1>21. SlotsFit'
    BY <1>20 DEF SlotsFit
  <1>22. UnderwayHasSlot'
    <2> SUFFICES ASSUME NEW j \in Key, Underway(j)'
                 PROVE  \E t \in Slot : Assembles(slots[t], j)'
      BY DEF UnderwayHasSlot
    <2>1. CASE j = k
      <3>1. sending'[k].todo # {}
        BY <2>1 DEF Underway
      <3>2. new.used
        BY <3>1, <1>14, <1>17
      <3>3. Assembles(slots[s], j)'
        BY <2>1, <3>2, <1>8, <1>9, <1>16, <1>17 DEF Assembles, q
      <3>4. QED
        BY <3>3, <1>8
    <2>2. CASE j # k
      <3>1. Underway(j)
        BY <2>2, <1>9 DEF Underway, Arrived
      <3>2. PICK t \in Slot : Assembles(slots[t], j)
        BY <3>1 DEF Recovered, UnderwayHasSlot
      <3>3. t # s
        BY <3>2, <2>2, <1>8 DEF Assembles
      <3>4. Assembles(slots[t], j)'
        BY <3>2, <3>3, <2>2, <1>9, <1>16 DEF Assembles
      <3>5. QED
        BY <3>4
    <2>3. QED
      BY <2>1, <2>2
  <1>23. AllComing'
    <2> SUFFICES ASSUME NEW j \in Key, sending'[j].todo # {}
                 PROVE  Coming(j)'
      BY DEF AllComing
    <2>1. CASE j # k
      BY <2>1, <1>9, <1>19 DEF Recovered, AllComing, Coming
    <2>2. CASE j = k
      <3>1. bus.order = "sent" => 0 \notin sending'[k].todo
        <4> SUFFICES ASSUME bus.order = "sent", 0 \in sending'[k].todo PROVE FALSE
          OBVIOUS
        <4>1. \A x \in todo : i <= x
          BY DEF Upcoming, todo
        <4>2. 0 \in todo /\ i # 0
          BY <1>9
        <4>3. i \in Nat
          BY <1>3, <1>6, FastPacketAssumption DEF Index
        <4>4. QED
          BY <4>1, <4>2, <4>3
      <3>2. bus.order = "zero_not_last" => sending'[k].todo # {0}
        BY <1>9 DEF Upcoming, todo
      <3>3. QED
        BY <2>2, <3>1, <3>2, <1>6, <1>9, <1>19 DEF Coming, size, todo
    <2>3. QED
      BY <2>1, <2>2
  <1>24. out' # NoPayload =>
            /\ sending[k].whole /\ sending'[k].todo = {} /\ all = Mask(size)
            /\ out' = [key |-> k, parts |-> [x \in Mask(size) |-> tag]]
    <2> SUFFICES ASSUME out' # NoPayload
                 PROVE  /\ sending[k].whole /\ sending'[k].todo = {} /\ all = Mask(size)
                        /\ out' = [key |-> k, parts |-> [x \in Mask(size) |-> tag]]
      OBVIOUS
    <2>1. frames = all /\ out' = [key |-> k, parts |-> [x \in all |-> data[x]]]
      BY <1>8 DEF frames, data
    <2>2. sending[k].whole /\ sending'[k].todo = {} /\ all = Mask(size)
      BY <2>1, <1>11, <1>13, <1>14
    <2>3. [x \in all |-> data[x]] = [x \in Mask(size) |-> tag]
      BY <2>1, <2>2, <1>12
    <2>4. QED
      BY <2>1, <2>2, <2>3
  <1>25. NeverMixed'
    BY <1>24 DEF NeverMixed
  <1>26. sending[k].whole /\ sending'[k].todo = {} => intact'[k] = b
    <2> SUFFICES ASSUME sending[k].whole, sending'[k].todo = {} PROVE intact'[k] = b
      OBVIOUS
    <2>1. frames = all /\ all = Mask(size)
      BY <1>11, <1>13, <1>14
    <2>2. out' = [key |-> k, parts |-> [x \in all |-> data[x]]]
      BY <1>8, <2>1 DEF frames, data
    <2>3. [x \in all |-> data[x]] = [x \in Chunks(size) |-> [key |-> k, burst |-> b]]
      BY <2>1, <1>7, <1>12 DEF tag
    <2>4. IsBurst(out', k, b, size)
      BY <2>2, <2>3 DEF IsBurst
    <2>5. QED
      BY <2>4, <1>2 DEF Recovered, Assembled, TypeOK, size, b
  <1>27. \A j \in Key \ {k} : intact'[j] = intact[j]
    BY <1>2 DEF Recovered, Assembled, TypeOK
  <1>28. WholeBurstsEmitted'
    BY <1>9, <1>26, <1>27 DEF Recovered, WholeBurstsEmitted, Idle, b
  <1>29. QED
    BY <1>1, <1>21, <1>22, <1>23, <1>25, <1>28 DEF Recovered

LEMMA RecoveredStep == Recovers /\ Recovered /\ [Next]_vars => Recovered'
  <1> SUFFICES ASSUME Recovers, Recovered, [Next]_vars PROVE Recovered'
    OBVIOUS
  <1>1. ASSUME NEW k \in Key, Begin(k) \/ Arrive(k) \/ Lose(k)
        PROVE  Recovered'
    BY <1>1, RecoveredBegin, RecoveredArrive, RecoveredLose
  <1>2. CASE UNCHANGED vars
    <2>1. Assembled'
      BY <1>2, AssembledStep DEF Recovered
    <2>2. SlotsFit' /\ UnderwayHasSlot'
      BY <1>2 DEF Recovered, SlotsFit, UnderwayHasSlot, Underway, Assembles, Collected,
                  Arrived, Leftover, vars
    <2>3. AllComing'
      BY <1>2 DEF Recovered, AllComing, Coming, vars
    <2>4. NeverMixed' /\ WholeBurstsEmitted'
      BY <1>2 DEF Recovered, NeverMixed, WholeBurstsEmitted, Idle, vars
    <2>5. QED
      BY <2>1, <2>2, <2>3, <2>4 DEF Recovered
  <1>3. QED
    BY <1>1, <1>2 DEF Next

\* Under the conditions push recovers from, and with a slot for every sender and
\* sequence count, no payload combines two bursts, however often the sequence
\* counter wraps over what lost frames left behind (reassembly.rs:852).
THEOREM BurstsAreNeverMixed ==
    ASSUME Roomy, \A b \in Buses : Recoverable(b)
    PROVE  Spec => []NeverMixed
  <1>1. Recovers
    BY DEF Recovers
  <1>2. Init => Recovered
    BY <1>1, RecoveredInit
  <1>3. Recovered /\ [Next]_vars => Recovered'
    BY <1>1, RecoveredStep
  <1>4. Recovered => NeverMixed
    BY DEF Recovered
  <1>5. QED
    BY <1>2, <1>3, <1>4, PTL DEF Spec

\* Under the same conditions a burst that arrives whole is emitted whole with its
\* last frame: a lost frame costs no message but its own (reassembly.rs:820).
THEOREM WholeBurstsComeOut ==
    ASSUME Roomy, \A b \in Buses : Recoverable(b)
    PROVE  Spec => []WholeBurstsEmitted
  <1>1. Recovers
    BY DEF Recovers
  <1>2. Init => Recovered
    BY <1>1, RecoveredInit
  <1>3. Recovered /\ [Next]_vars => Recovered'
    BY <1>1, RecoveredStep
  <1>4. Recovered => WholeBurstsEmitted
    BY DEF Recovered
  <1>5. QED
    BY <1>2, <1>3, <1>4, PTL DEF Spec
=============================================================================
