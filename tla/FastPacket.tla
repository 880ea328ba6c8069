----------------------------- MODULE FastPacket -----------------------------
(***************************************************************************)
(* Fast-packet reassembly: Reassembler::push of                            *)
(* canboat-core/src/reassembly.rs.                                         *)
(*                                                                         *)
(* A payload of more than 8 bytes crosses the bus as a burst of frames     *)
(* that carry a frame index and a sequence counter; frame 0 declares the   *)
(* size.  The reassembler collects the frames of one (pgn, src, seq) in a  *)
(* slot and emits the payload when the slot holds every declared index.    *)
(*                                                                         *)
(* A key stands for one (pgn, src).  Its sender cuts payloads into bursts  *)
(* as Bus::send_pgn of device/socketcan.rs does, the sequence counter      *)
(* wraps after SeqCount of them, and the bus may lose or reorder frames.   *)
(* A bucket of payload bytes is represented by the burst that wrote it, so *)
(* a payload is mixed exactly when its buckets are of different bursts.    *)
(***************************************************************************)
EXTENDS Integers, FiniteSets

CONSTANTS
    Key,         \* the (pgn, src) pairs that send fast packets
    SeqCount,    \* the sequence counter wraps after this many bursts (8)
    Slots,       \* REASSEMBLY_BUFFER_SIZE
    MaxIndex,    \* FASTPACKET_MAX_INDEX
    Buses,       \* the conditions under which frames travel, see Bus
    MaxBursts,   \* bound on the bursts a key sends
    MaxLost      \* bound on the losses

Slot  == 1 .. Slots
Count == 0 .. SeqCount - 1
Index == 0 .. MaxIndex

\* FASTPACKET_MAX_SIZE: 6 bytes in frame 0, 7 in each of the others.
Size  == 1 .. 6 + MaxIndex * 7

\* Which frames get lost, how those of a burst arrive, and payload sizes.
Bus == [loses : {"none", "tail", "head", "any"},
        order : {"sent", "zero_not_last", "any"},
        sizes : SUBSET Size]

\* What push recovers from: bursts cut short, bursts of one size that lack their
\* first frame, reordered bursts whose frame 0 is not the last to arrive.
Recoverable(b) ==
    /\ b \in Bus
    /\ \/ b.loses = "tail" /\ b.order = "sent"
       \/ b.loses = "head" /\ b.order = "sent" /\ \A m, n \in b.sizes : m = n
       \/ b.loses = "none" /\ b.order # "any"

\* No sender needs the slot of another: push never has to evict one.
Roomy == IsFiniteSet(Key) /\ Cardinality(Key) * SeqCount <= Slots

ASSUME FastPacketAssumption ==
    /\ SeqCount \in Nat \ {0}
    /\ Slots \in Nat \ {0}
    /\ MaxIndex \in Nat
    /\ Buses \subseteq Bus
    /\ Key # {}
    /\ MaxBursts \in Nat
    /\ MaxLost \in Nat

VARIABLES
    slots,      \* slots[s]: what the reassembler has collected
    next_age,   \* how many slots were ever claimed
    out,        \* the payload emitted last, or NoPayload
    bus,        \* the conditions of this behaviour
    sending,    \* sending[k]: the burst k is transmitting
    intact,     \* intact[k]: the last burst of k emitted whole and unmixed
    lost        \* losses so far

vars == <<slots, next_age, out, bus, sending, intact, lost>>

\* Who wrote a bucket: frame i of burst b of key k.  Nobody before that.
Bucket  == [key : Key, burst : 1 .. MaxBursts]
Nobody  == [burst |-> 0]
NoPayload == [key |-> "none"]

\* The first payload byte of bucket i.
Offset(i) == IF i = 0 THEN 0 ELSE 6 + (i - 1) * 7

\* The frames the sender's loop emits: one while payload bytes remain.
Chunks(size) == {i \in Index : Offset(i) < size}

\* The frames the receiver waits for (all_frames; {} stands for "unknown").
Mask(size) == 0 .. size \div 7

SlotType == [used : BOOLEAN, key : Key, seq : Count, frames : SUBSET Index,
             all : SUBSET Index, data : [Index -> Bucket \cup {Nobody}], age : Nat]

Min_(S) == CHOOSE x \in S : \A y \in S : x <= y

-----------------------------------------------------------------------------
(* The reassembler.                                                        *)

\* Mutants: the counter is not part of the key; a slot is not found before its
\* frame 0 was seen.
FoundAnySeq(k, q) == {s \in Slot : slots[s].used /\ slots[s].key = k}
FoundStarted(k, q) ==
    {s \in Slot : slots[s].used /\ slots[s].key = k /\ slots[s].seq = q /\ slots[s].all # {}}

\* find_slot: the slot that assembles (k, q), if any.
Found(k, q) == {s \in Slot : slots[s].used /\ slots[s].key = k /\ slots[s].seq = q}

Unused == {s \in Slot : ~slots[s].used}

\* The slot claimed longest ago, which is evicted when all are in use.
OldestSlot == CHOOSE s \in Slot : \A t \in Slot : slots[s].age <= slots[t].age

\* claim_slot: the first unused slot, else the oldest.
ClaimedSlot == IF Unused # {} THEN Min_(Unused) ELSE OldestSlot

\* A slot as claim_slot leaves it, still without its age.
EmptySlot(k, q) ==
    [used |-> TRUE, key |-> k, seq |-> q, frames |-> {}, all |-> {},
     data |-> [i \in Index |-> Nobody], age |-> next_age]

\* Mutants: no rule for frame 0, or every frame 0 restarts.
RestartsOnDuplicate(held, i, size) == i \in held
RestartsOnEveryZero(held, i, size) == i \in held \/ i = 0

\* Whether frame i means that what the slot holds is of an earlier burst: the
\* index is there already, or frame 0 would complete at once with held frames.
Restarts(held, i, size) ==
    \/ i \in held
    \/ i = 0 /\ held # {} /\ Mask(size) # {0} /\ Mask(size) \subseteq held \cup {0}

\* The slot after a frame: with what it holds now, or free when that is all.
After(slot, frames, all, data) ==
    [slot EXCEPT !.used   = (frames # all),
                 !.frames = IF frames = all THEN {} ELSE frames,
                 !.all    = all,
                 !.data   = data]

\* push of frame i of a payload of that size; tag is what its bucket then holds.
Push(k, q, i, size, tag) ==
    LET found  == Found(k, q) # {}
        s      == IF found THEN Min_(Found(k, q)) ELSE ClaimedSlot
        slot   == IF found THEN slots[s] ELSE EmptySlot(k, q)
        kept   == IF Restarts(slot.frames, i, size) THEN {} ELSE slot.frames
        frames == kept \cup {i}
        all    == IF i = 0 THEN Mask(size) ELSE slot.all
        data   == [slot.data EXCEPT ![i] = tag]
    IN
    /\ slots' = [slots EXCEPT ![s] = After(slot, frames, all, data)]
    /\ next_age' = IF found THEN next_age ELSE next_age + 1
    /\ out' = IF frames = all THEN [key |-> k, parts |-> [x \in all |-> data[x]]]
                              ELSE NoPayload

\* The payload is burst b of k, from its first frame to its last.
IsBurst(payload, k, b, size) ==
    payload = [key |-> k, parts |-> [x \in Chunks(size) |-> [key |-> k, burst |-> b]]]

-----------------------------------------------------------------------------
(* The senders and the bus between them and the reassembler.               *)

Idle(k) == sending[k].todo = {}

\* The frames of the current burst that may come next.
Upcoming(k) ==
    LET todo == sending[k].todo IN
    CASE bus.order = "sent"          -> {i \in todo : \A j \in todo : i <= j}
      [] bus.order = "zero_not_last" -> {i \in todo : todo \ {i} # {0}}
      [] bus.order = "any"           -> todo

\* What goes missing when frame i does: the frame, or with it the whole tail.
Missing(k, i) ==
    CASE bus.loses = "none" -> {}
      [] bus.loses = "tail" -> {j \in sending[k].todo : i <= j}
      [] bus.loses = "head" -> {i} \cap {0}
      [] bus.loses = "any"  -> {i}

Init ==
    /\ slots    = [s \in Slot |-> [used |-> FALSE, key |-> CHOOSE k \in Key : TRUE,
                                   seq |-> 0, frames |-> {}, all |-> {},
                                   data |-> [i \in Index |-> Nobody], age |-> 0]]
    /\ next_age = 0
    /\ out      = NoPayload
    /\ bus \in Buses
    /\ sending  = [k \in Key |-> [burst |-> 0, size |-> 1, todo |-> {}, whole |-> FALSE]]
    /\ intact   = [k \in Key |-> 0]
    /\ lost     = 0

\* k starts its next burst.
Begin(k) ==
    /\ Idle(k)
    /\ sending[k].burst < MaxBursts
    /\ \E size \in bus.sizes :
          sending' = [sending EXCEPT ![k] = [burst |-> @.burst + 1, size  |-> size,
                                             todo  |-> Chunks(size), whole |-> TRUE]]
    /\ UNCHANGED <<slots, next_age, out, bus, intact, lost>>

\* A frame of k arrives and is pushed.
Arrive(k) ==
    LET b    == sending[k].burst
        size == sending[k].size
    IN
    \E i \in Upcoming(k) :
        /\ Push(k, b % SeqCount, i, size, [key |-> k, burst |-> b])
        /\ sending' = [sending EXCEPT ![k].todo = @ \ {i}]
        /\ intact'  = IF IsBurst(out', k, b, size) THEN [intact EXCEPT ![k] = b] ELSE intact
        /\ UNCHANGED <<bus, lost>>

\* The bus loses a frame of k.
Lose(k) ==
    /\ lost < MaxLost
    /\ lost' = lost + 1
    /\ \E i \in Upcoming(k) :
          /\ Missing(k, i) # {}
          /\ sending' = [sending EXCEPT ![k].todo  = @ \ Missing(k, i),
                                        ![k].whole = FALSE]
    /\ UNCHANGED <<slots, next_age, out, bus, intact>>

Next == \E k \in Key : Begin(k) \/ Arrive(k) \/ Lose(k)

Spec == Init /\ [][Next]_vars

-----------------------------------------------------------------------------
(* Properties.                                                             *)

\* Types, and: a slot in use waits for something (push frees it otherwise).
TypeOK ==
    /\ slots \in [Slot -> SlotType]
    /\ next_age \in Nat
    /\ intact \in [Key -> 0 .. MaxBursts]
    /\ lost \in 0 .. MaxLost
    /\ bus \in Buses
    /\ sending \in [Key -> [burst : 0 .. MaxBursts, size : Size,
                            todo : SUBSET Index, whole : BOOLEAN]]
    /\ \A k \in Key : sending[k].burst = 0 => Idle(k)
    /\ \A s \in Slot : slots[s].used => slots[s].frames # {} /\ slots[s].frames # slots[s].all

\* At most one slot assembles a given (pgn, src, seq), however slots were
\* freed, evicted and claimed again.
OneSlotPerBurst ==
    \A s, t \in Slot :
        /\ slots[s].used /\ slots[t].used
        /\ slots[s].key = slots[t].key /\ slots[s].seq = slots[t].seq
        => s = t

\* Whatever is lost, reordered or evicted, an emitted payload has every bucket
\* written, and written by frames of its own key with one sequence count:
\* senders, PGNs and neighbouring bursts are never combined.
NoCrossTalk ==
    out # NoPayload =>
        \A i, j \in DOMAIN out.parts :
            /\ out.parts[i] \in Bucket
            /\ out.parts[i].key = out.key
            /\ out.parts[i].burst % SeqCount = out.parts[j].burst % SeqCount

\* "Frame 0 always starts a fresh message - it must never combine with buckets
\* left over from an earlier burst" (reassembly.rs:852): no part of a payload is
\* older than its frame 0.
ZeroStartsFresh ==
    out # NoPayload =>
        \A i \in DOMAIN out.parts : out.parts[i].burst >= out.parts[0].burst

\* A payload is of one burst: its frame 0 is not combined with what an earlier
\* burst left, nor are the frames after it with those of a later one (push).
NeverMixed ==
    out # NoPayload =>
        \A i, j \in DOMAIN out.parts : out.parts[i].burst = out.parts[j].burst

\* A burst that arrives whole is emitted whole with its last frame: "a lost
\* tail frame must cost exactly one message" (reassembly.rs:820), and "the
\* next message must still come out intact" (reassembly.rs:776).
WholeBurstsEmitted ==
    \A k \in Key :
        Idle(k) /\ sending[k].whole => intact[k] = sending[k].burst
=============================================================================
