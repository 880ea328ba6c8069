-------------------------- MODULE OverridesProofs --------------------------
(***************************************************************************)
(* What holds of Overrides for any devices, addresses, PGNs, intervals and *)
(* control clients, however they move, refuse, crash and cross.            *)
(***************************************************************************)
EXTENDS Overrides, WellFoundedInduction, TLAPS

Requests == [name : Names, dst : Srcs, pgn : Pgns, interval : Intervals]
Claims == [kind : {"claim"}, src : Srcs, name : Names]
Naks == [kind : {"nak"}, src : Srcs, pgn : Pgns]
Rules == [Names -> [Pgns -> Intervals \union {None}]]

\* What the constants are: addresses are numbers, the name for "no value" is not
\* a value, the two names for a file without rules are not rules, and the
\* pipeline is not one of the clients.
Distinct ==
    /\ Srcs \subseteq Nat
    /\ None \notin Names \union Srcs \union Intervals
    /\ {Missing, Torn} \intersect Rules = {} /\ Missing # Torn
    /\ Pipe \notin Clients
    /\ MaxCrashes \in Nat

-----------------------------------------------------------------------------
(* The invariant.                                                          *)

Typed ==
    /\ src_name \in [Srcs -> Names \union {None}]
    /\ rules \in Rules /\ applied \in Rules
    /\ replayed \in [Names -> Srcs \union {None}]
    /\ file \in Rules \union {Missing, Torn}
    /\ engine \in {"off", "on", "disabled"} /\ unsaved \in BOOLEAN
    /\ held \in [Threads -> SUBSET Requests]
    /\ to_bus \in Seq(Requests) /\ to_pipe \in Seq(Claims \union Naks)
    /\ addr \in [Names -> Srcs]
    /\ \A m, n \in Names : addr[m] = addr[n] => m = n

\* Unless a save failed, or tore the file, the file says what the rules are.
FileSays == ~unsaved /\ file # Torn => file = rules \/ (file = Missing /\ rules = NoRules)

Queue == 1 .. Len(to_pipe)
Bus == 1 .. Len(to_bus)
AtPlace(i, n) == to_pipe[i].kind = "claim" /\ to_pipe[i].src = addr[n]
Of(i, n) == to_pipe[i].kind = "claim" /\ to_pipe[i].name = n
Arrival(i, n) == to_pipe[i] = ClaimMsg(n, addr[n])
Arriving(n) == \E i \in Queue : Arrival(i, n)

\* The last word about a device, and about the place where it is, is its claim
\* of that place.
Followed ==
    \A n \in Names : \A i \in Queue :
        AtPlace(i, n) \/ Of(i, n) => \E j \in Queue : i <= j /\ Arrival(j, n)

\* Nobody else is thought to be where a device is, unless its claim comes.
Placed == \A n \in Names : src_name[addr[n]] \in {n, None} \/ Arriving(n)

\* What was sent was sent to an address with a device.
Learned == \A n \in Names : replayed[n] # None => src_name[replayed[n]] # None

\* A device that is not where its overrides went will be heard of, or they count
\* as lost.
Missed ==
    \A n \in Names :
        replayed[n] \in {None, addr[n]} \/ Arriving(n) \/ \A p \in Pgns : <<n, p>> \in excused

\* Of what is not excused there is one request on its way at most.
For(f, n, p) == f.name = n /\ f.pgn = p
Alone(n, p) ==
    /\ \A t, u \in Threads : \A f \in held[t], g \in held[u] : For(f, n, p) /\ For(g, n, p) => t = u /\ f = g
    /\ \A i, j \in Bus : For(to_bus[i], n, p) /\ For(to_bus[j], n, p) => i = j
    /\ \A t \in Threads : \A f \in held[t], i \in Bus : ~(For(f, n, p) /\ For(to_bus[i], n, p))
AtMostOne == \A n \in Names, p \in Pgns : <<n, p>> \notin excused => Alone(n, p)

\* The pipeline has yet to hear that the device was elsewhere.
Leaves(n) == \E i \in Queue : Of(i, n) /\ to_pipe[i].src # addr[n]

\* The pipeline has yet to hear that the device refuses, and will know who it is.
Refusal(i, n, p) ==
    /\ to_pipe[i] = NakMsg(addr[n], p)
    /\ \A k \in Queue : k < i /\ AtPlace(k, n) => \E j \in Queue : k <= j /\ j < i /\ Arrival(j, n)
    /\ src_name[addr[n]] = n \/ \E j \in Queue : j < i /\ Arrival(j, n)
Refuses(n, p) == \E i \in Queue : Refusal(i, n, p)

Asked(n, p) == Request(n, addr[n], p, rules[n][p]) \in Pending
Obeys(n, p) == applied[n][p] = rules[n][p] /\ \A f \in Pending : For(f, n, p) => f.interval = rules[n][p]
Underway(n, p) == Leaves(n) \/ Refuses(n, p) \/ Asked(n, p) \/ Obeys(n, p)

\* What is stored for a device and was sent to where it is, is done or will be,
\* or the store will learn better.
Settling ==
    \A n \in Names, p \in Pgns :
        replayed[n] = addr[n] /\ rules[n][p] # None /\ <<n, p>> \notin excused => Underway(n, p)

IInv ==
    /\ Typed /\ FileSays /\ Followed /\ AtMostOne
    /\ engine = "on" => Placed /\ Learned /\ Missed /\ Settling

-----------------------------------------------------------------------------
(* Sequences and numbers.                                                  *)

\* A nonempty set of natural numbers has a least element.
LEMMA LeastExists ==
    ASSUME NEW S, S \subseteq Nat, S # {}
    PROVE  \E x \in S : \A y \in S : x <= y
  <1>1. PICK x \in S : \A y \in S : ~(<<y, x>> \in OpToRel(<, Nat))
    BY NatLessThanWellFounded, WFMin
  <1>2. ASSUME NEW y \in S
        PROVE  x <= y
    <2>1. x \in Nat /\ y \in Nat
      OBVIOUS
    <2>2. y < x => <<y, x>> \in OpToRel(<, Nat)
      BY <2>1 DEF OpToRel
    <2>3. ~(y < x)
      BY <1>1, <2>2
    <2>4. QED
      BY <2>1, <2>3
  <1>3. QED
    BY <1>2

LEMMA TailIndex ==
    ASSUME NEW S, NEW s \in Seq(S), s # <<>>
    PROVE  /\ Tail(s) \in Seq(S) /\ Head(s) = s[1] /\ Head(s) \in S /\ 1 \in 1 .. Len(s)
           /\ Len(s) \in Nat /\ Len(Tail(s)) = Len(s) - 1
           /\ \A i \in 1 .. Len(Tail(s)) : i + 1 \in 1 .. Len(s) /\ Tail(s)[i] = s[i + 1]
           /\ \A i \in 1 .. Len(s) : i # 1 => i - 1 \in 1 .. Len(Tail(s)) /\ Tail(s)[i - 1] = s[i]
  OBVIOUS

LEMMA AppendIndex ==
    ASSUME NEW S, NEW s \in Seq(S), NEW x \in S
    PROVE  /\ Append(s, x) \in Seq(S)
           /\ Len(s) \in Nat /\ Len(Append(s, x)) = Len(s) + 1
           /\ \A i \in 1 .. Len(s) : i \in 1 .. Len(Append(s, x)) /\ Append(s, x)[i] = s[i] /\ i <= Len(s) + 1
           /\ \A i \in 1 .. Len(Append(s, x)) : i \in 1 .. Len(s) \/ i = Len(s) + 1
           /\ Len(s) + 1 \in 1 .. Len(Append(s, x)) /\ Append(s, x)[Len(s) + 1] = x
  OBVIOUS

LEMMA Pendings ==
    \A f : f \in Pending <=> (\E t \in Threads : f \in held[t]) \/ (\E i \in Bus : f = to_bus[i])
  BY DEF Pending, Bus

LEMMA PendingsNext ==
    \A f : f \in Pending' <=> (\E t \in Threads : f \in held'[t]) \/ (\E i \in 1 .. Len(to_bus') : f = to_bus'[i])
  BY DEF Pending

\* A message of the queue is a claim or a refusal.
LEMMA Messages ==
    ASSUME Typed, NEW i \in Queue
    PROVE  /\ to_pipe[i] \in Claims \union Naks
           /\ to_pipe[i].kind = "claim" => /\ to_pipe[i].src \in Srcs /\ to_pipe[i].name \in Names
                                           /\ to_pipe[i] = ClaimMsg(to_pipe[i].name, to_pipe[i].src)
  <1>1. to_pipe[i] \in Claims \union Naks
    BY DEF Typed, Queue
  <1>2. QED
    BY <1>1 DEF Claims, Naks, ClaimMsg

-----------------------------------------------------------------------------
(* The queue of the pipeline.                                              *)

\* The pipeline takes a message: which claims are still to come.
LEMMA QueuePops ==
    ASSUME Typed, Followed, to_pipe # <<>>, to_pipe' = Tail(to_pipe), addr' = addr
    PROVE  /\ Followed'
           /\ \A n \in Names :
                /\ Arriving(n) => Arriving(n)' \/ Head(to_pipe) = ClaimMsg(n, addr[n])
                /\ AtPlace(1, n) \/ Of(1, n) => Arriving(n)' \/ Head(to_pipe) = ClaimMsg(n, addr[n])
  <1>1. /\ Head(to_pipe) = to_pipe[1] /\ Len(to_pipe) \in Nat /\ 1 \in Queue
        /\ \A i \in Queue' : i + 1 \in Queue /\ to_pipe'[i] = to_pipe[i + 1]
        /\ \A i \in Queue : i # 1 => i - 1 \in Queue' /\ to_pipe'[i - 1] = to_pipe[i]
    BY TailIndex DEF Typed, Queue
  <1>2. (\A i \in Queue : i \in Nat /\ i >= 1) /\ (\A i \in Queue' : i \in Nat /\ i >= 1)
    BY DEF Queue
  <1>3. ASSUME NEW n \in Names, NEW i \in Queue', AtPlace(i, n)' \/ Of(i, n)'
        PROVE  \E j \in Queue' : i <= j /\ Arrival(j, n)'
    <2>1. AtPlace(i + 1, n) \/ Of(i + 1, n)
      BY <1>1, <1>3 DEF AtPlace, Of
    <2>2. PICK j \in Queue : i + 1 <= j /\ Arrival(j, n)
      BY <1>1, <2>1 DEF Followed
    <2>3. j # 1 /\ i <= j - 1
      <3>1. i \in Nat /\ i >= 1 /\ j \in Nat /\ i + 1 <= j
        BY <1>2, <2>2
      <3>2. QED
        BY <3>1
    <2>4. j - 1 \in Queue' /\ to_pipe'[j - 1] = to_pipe[j]
      BY <1>1, <2>3
    <2>5. Arrival(j - 1, n)'
      BY <2>2, <2>4 DEF Arrival
    <2>6. QED
      BY <2>3, <2>4, <2>5
  <1>4. ASSUME NEW n \in Names, NEW j \in Queue, Arrival(j, n)
        PROVE  Arriving(n)' \/ Head(to_pipe) = ClaimMsg(n, addr[n])
    <2>1. CASE j = 1
      BY <1>1, <1>4, <2>1 DEF Arrival
    <2>2. CASE j # 1
      <3>1. j - 1 \in Queue' /\ to_pipe'[j - 1] = to_pipe[j]
        BY <1>1, <2>2
      <3>2. Arrival(j - 1, n)'
        BY <1>4, <3>1 DEF Arrival, ClaimMsg
      <3>3. QED
        BY <3>1, <3>2 DEF Arriving
    <2>3. QED
      BY <2>1, <2>2
  <1>5. QED
    BY <1>1, <1>3, <1>4 DEF Followed, Arriving

\* A message comes, or none: what is there stays where it is.
Grows(m) == to_pipe' = Append(to_pipe, m)
LEMMA QueueGrows ==
    ASSUME Typed, NEW m \in Claims \union Naks, Grows(m) \/ UNCHANGED to_pipe
    PROVE  /\ to_pipe' \in Seq(Claims \union Naks)
           /\ \A i \in Queue : i \in Queue' /\ to_pipe'[i] = to_pipe[i]
           /\ Queue \subseteq Nat
           /\ \A i \in Queue', j \in Queue : i < j => i \in Queue
           /\ Grows(m) => /\ \A i \in Queue' : i \in Queue \/ i = Len(to_pipe')
                          /\ \A i \in Queue' : i <= Len(to_pipe')
                          /\ \A i \in Queue : i < Len(to_pipe')
                          /\ Len(to_pipe') \in Queue' /\ to_pipe'[Len(to_pipe')] = m
  <1>1. CASE Grows(m)
    <2>1. /\ Len(to_pipe) \in Nat /\ Len(to_pipe') = Len(to_pipe) + 1 /\ to_pipe' \in Seq(Claims \union Naks)
          /\ \A i \in 1 .. Len(to_pipe) : to_pipe'[i] = to_pipe[i]
          /\ to_pipe'[Len(to_pipe) + 1] = m
      BY <1>1, AppendIndex DEF Grows, Typed
    <2>2. QED
      BY <2>1 DEF Queue
  <1>2. CASE UNCHANGED to_pipe /\ ~Grows(m)
    <2>1. Len(to_pipe) \in Nat
      BY DEF Typed
    <2>2. QED
      BY <1>2, <2>1 DEF Queue, Typed
  <1>3. QED
    BY <1>1, <1>2

-----------------------------------------------------------------------------
(* What a step does not touch stays underway.                              *)

\* No step but the ones below changes what concerns PGN p of device n.
Calm(n, p) ==
    /\ addr'[n] = addr[n] /\ rules'[n][p] = rules[n][p] /\ applied'[n][p] = applied[n][p]
    /\ \A f : For(f, n, p) => (f \in Pending' <=> f \in Pending)

LEMMA CalmRequests ==
    ASSUME NEW n, NEW p, Calm(n, p)
    PROVE  (Asked(n, p) => Asked(n, p)') /\ (Obeys(n, p) => Obeys(n, p)')
  <1>1. For(Request(n, addr[n], p, rules[n][p]), n, p)
    BY DEF For, Request
  <1>2. Asked(n, p) => Asked(n, p)'
    BY <1>1 DEF Asked, Calm
  <1>3. Obeys(n, p) => Obeys(n, p)'
    BY DEF Obeys, Calm
  <1>4. QED
    BY <1>2, <1>3

\* What the pipeline has yet to hear it will hear, whatever comes after it.
LEMMA WordGrows ==
    ASSUME Typed, NEW m \in Claims \union Naks, Grows(m) \/ UNCHANGED to_pipe,
           NEW n, NEW p, addr'[n] = addr[n], src_name' = src_name
    PROVE  (Leaves(n) => Leaves(n)') /\ (Refuses(n, p) => Refuses(n, p)')
  <1>1. /\ \A i \in Queue : i \in Queue' /\ to_pipe'[i] = to_pipe[i]
        /\ \A i \in Queue', j \in Queue : i < j => i \in Queue
    BY QueueGrows
  <1>2. Leaves(n) => Leaves(n)'
    BY <1>1 DEF Leaves, Of
  <1>3. ASSUME NEW i \in Queue, Refusal(i, n, p)
        PROVE  Refusal(i, n, p)'
    <2>1. to_pipe'[i] = NakMsg(addr'[n], p)
      BY <1>1, <1>3 DEF Refusal
    <2>2. ASSUME NEW k \in Queue', k < i, AtPlace(k, n)'
          PROVE  \E j \in Queue' : k <= j /\ j < i /\ Arrival(j, n)'
      <3>1. k \in Queue /\ AtPlace(k, n)
        BY <1>1, <2>2 DEF AtPlace
      <3>2. PICK j \in Queue : k <= j /\ j < i /\ Arrival(j, n)
        BY <1>3, <2>2, <3>1 DEF Refusal
      <3>3. QED
        BY <1>1, <3>2 DEF Arrival
    <2>3. src_name'[addr'[n]] = n \/ \E j \in Queue' : j < i /\ Arrival(j, n)'
      BY <1>1, <1>3 DEF Refusal, Arrival
    <2>4. QED
      BY <2>1, <2>2, <2>3 DEF Refusal
  <1>4. QED
    BY <1>1, <1>2, <1>3 DEF Refuses

LEMMA CalmGrows ==
    ASSUME Typed, NEW m \in Claims \union Naks, Grows(m) \/ UNCHANGED to_pipe,
           NEW n, NEW p, Calm(n, p), src_name' = src_name, Underway(n, p)
    PROVE  Underway(n, p)'
  <1>1. addr'[n] = addr[n]
    BY DEF Calm
  <1>2. QED
    BY <1>1, WordGrows, CalmRequests DEF Underway

LEMMA CalmStays ==
    ASSUME Typed, UNCHANGED to_pipe, NEW n, NEW p, Calm(n, p), src_name' = src_name, Underway(n, p)
    PROVE  Underway(n, p)'
  <1>1. /\ Queue' = Queue /\ addr'[n] = addr[n]
        /\ \A i : (Of(i, n)' <=> Of(i, n)) /\ (AtPlace(i, n)' <=> AtPlace(i, n)) /\ (Arrival(i, n)' <=> Arrival(i, n))
    BY DEF Calm, Queue, Of, AtPlace, Arrival
  <1>2. Leaves(n) => Leaves(n)'
    BY <1>1 DEF Leaves
  <1>3. Refuses(n, p) => Refuses(n, p)'
    BY <1>1 DEF Refuses, Refusal
  <1>4. QED
    BY <1>2, <1>3, CalmRequests DEF Underway

LEMMA CalmPops ==
    ASSUME Typed, Followed, to_pipe # <<>>, to_pipe' = Tail(to_pipe), addr' = addr,
           NEW n \in Names, NEW p, Calm(n, p), Underway(n, p),
           Of(1, n) => Arrival(1, n), ~Refusal(1, n, p),
           AtPlace(1, n) => src_name'[addr[n]] = to_pipe[1].name,
           ~AtPlace(1, n) => src_name'[addr[n]] = src_name[addr[n]]
    PROVE  Underway(n, p)'
  <1>1. /\ Len(to_pipe) \in Nat /\ 1 \in Queue
        /\ \A i \in Queue' : i + 1 \in Queue /\ to_pipe'[i] = to_pipe[i + 1]
        /\ \A i \in Queue : i # 1 => i - 1 \in Queue' /\ to_pipe'[i - 1] = to_pipe[i]
    BY TailIndex DEF Typed, Queue
  <1>2. (\A i \in Queue : i \in Nat /\ i >= 1) /\ (\A i \in Queue' : i \in Nat /\ i >= 1)
    BY DEF Queue
  <1>3. CASE Leaves(n)
    <2>1. PICK i \in Queue : Of(i, n) /\ to_pipe[i].src # addr[n]
      BY <1>3 DEF Leaves
    <2>2. i # 1
      BY <2>1 DEF Arrival, ClaimMsg
    <2>3. i - 1 \in Queue' /\ to_pipe'[i - 1] = to_pipe[i]
      BY <1>1, <2>2
    <2>4. QED
      BY <2>1, <2>3 DEF Underway, Leaves, Of
  <1>4. CASE Refuses(n, p)
    <2>1. PICK i \in Queue : Refusal(i, n, p)
      BY <1>4 DEF Refuses
    <2>2. i # 1 /\ i - 1 \in Queue' /\ to_pipe'[i - 1] = NakMsg(addr'[n], p)
      BY <1>1, <2>1 DEF Refusal
    <2>3. ASSUME NEW j \in Queue, Arrival(j, n), j # 1
          PROVE  j - 1 \in Queue' /\ Arrival(j - 1, n)'
      BY <1>1, <2>3 DEF Arrival
    <2>4. ASSUME NEW k \in Queue', k < i - 1, AtPlace(k, n)'
          PROVE  \E j \in Queue' : k <= j /\ j < i - 1 /\ Arrival(j, n)'
      <3>1. k + 1 \in Queue /\ AtPlace(k + 1, n)
        BY <1>1, <2>4 DEF AtPlace
      <3>0. k \in Nat /\ i \in Nat /\ k < i - 1 => k + 1 < i
        OBVIOUS
      <3>2. PICK j \in Queue : k + 1 <= j /\ j < i /\ Arrival(j, n)
        BY <1>2, <2>1, <2>4, <3>0, <3>1 DEF Refusal
      <3>3. k \in Nat /\ k >= 1 /\ j \in Nat /\ i \in Nat
        BY <1>2, <2>1
      <3>4. j # 1 /\ k <= j - 1 /\ j - 1 < i - 1
        BY <3>2, <3>3
      <3>5. QED
        BY <2>3, <3>2, <3>4
    <2>5. src_name'[addr'[n]] = n \/ \E j \in Queue' : j < i - 1 /\ Arrival(j, n)'
      <3>1. ASSUME NEW j \in Queue, j < i, Arrival(j, n), j # 1
            PROVE  \E x \in Queue' : x < i - 1 /\ Arrival(x, n)'
        <4>1. j - 1 < i - 1
          BY <1>2, <2>1, <3>1
        <4>2. QED
          BY <2>3, <3>1, <4>1
      <3>2. CASE AtPlace(1, n)
        <4>1. 1 < i
          BY <1>2, <2>1, <2>2
        <4>2. PICK j \in Queue : 1 <= j /\ j < i /\ Arrival(j, n)
          BY <1>1, <2>1, <3>2, <4>1 DEF Refusal
        <4>3. j = 1 => src_name'[addr'[n]] = n
          BY <3>2, <4>2 DEF Arrival, ClaimMsg
        <4>4. QED
          BY <3>1, <4>2, <4>3
      <3>3. CASE ~AtPlace(1, n)
        <4>1. ~Arrival(1, n)
          BY <3>3 DEF Arrival, AtPlace, ClaimMsg
        <4>2. QED
          BY <2>1, <3>1, <3>3, <4>1 DEF Refusal
      <3>4. QED
        BY <3>2, <3>3
    <2>6. Refusal(i - 1, n, p)'
      BY <2>2, <2>4, <2>5 DEF Refusal
    <2>7. QED
      BY <2>2, <2>6 DEF Underway, Refuses
  <1>5. QED
    BY <1>3, <1>4, CalmRequests DEF Underway

-----------------------------------------------------------------------------
(* Requests on their way.                                                  *)

\* A thread makes requests: what they are for is excused, or they are alone.
LEMMA MadeAlone ==
    ASSUME Typed, AtMostOne, NEW t \in Threads, held[t] = {}, NEW n \in Names, NEW fs \in SUBSET Requests, NEW ps,
           \A f \in fs : f.name = n, \A f, g \in fs : f.pgn = g.pgn => f = g,
           Made(t, n, fs, ps), to_bus' = to_bus
    PROVE  /\ AtMostOne'
           /\ held' \in [Threads -> SUBSET Requests]
           /\ \A f : f \in Pending' <=> f \in Pending \/ f \in fs
           /\ \A k, p : <<k, p>> \notin excused' =>
                <<k, p>> \notin excused \/ \E f \in fs : For(f, k, p)
  <1>1. held' = [held EXCEPT ![t] = fs] /\ held \in [Threads -> SUBSET Requests]
    BY DEF Made, Typed
  <1>2. \A f : f \in Pending' <=> f \in Pending \/ f \in fs
    BY <1>1, Pendings, PendingsNext DEF Bus
  <1>3. ASSUME NEW k, NEW p, <<k, p>> \notin excused'
        PROVE  /\ (<<k, p>> \notin excused /\ \A f \in fs : ~For(f, k, p))
                  \/ \E f \in fs : For(f, k, p) /\ \A g \in Pending : ~For(g, k, p)
    <2>1. CASE \E f \in fs : For(f, k, p)
      <3>1. PICK f \in fs : For(f, k, p)
        BY <2>1
      <3>2. <<k, p>> = <<n, f.pgn>>
        BY <3>1 DEF For
      <3>3. ~Raced(n, p)
        BY <1>3, <3>2 DEF Made
      <3>4. QED
        BY <3>1, <3>2, <3>3 DEF Raced, For
    <2>2. CASE \A f \in fs : ~For(f, k, p)
      <3>1. \A f \in fs : <<k, p>> # <<n, f.pgn>>
        BY <2>2 DEF For
      <3>2. QED
        BY <1>3, <2>2, <3>1 DEF Made
    <2>3. QED
      BY <2>1, <2>2
  <1>4. ASSUME NEW k \in Names, NEW p \in Pgns, <<k, p>> \notin excused'
        PROVE  Alone(k, p)'
    <2>1. CASE <<k, p>> \notin excused /\ \A f \in fs : ~For(f, k, p)
      <3>1. Alone(k, p)
        BY <2>1 DEF AtMostOne
      <3>2. \A u \in Threads : \A f \in held'[u] : For(f, k, p) => f \in held[u]
        BY <1>1, <2>1
      <3>3. QED
        BY <3>1, <3>2 DEF Alone, Bus
    <2>2. CASE \E f \in fs : For(f, k, p) /\ \A g \in Pending : ~For(g, k, p)
      <3>1. \A u \in Threads : \A f \in held'[u] : For(f, k, p) => u = t /\ f \in fs
        BY <1>1, <2>2, Pendings
      <3>2. \A i \in Bus : ~For(to_bus[i], k, p)
        BY <2>2, Pendings
      <3>3. \A f, g \in fs : For(f, k, p) /\ For(g, k, p) => f = g
        BY DEF For
      <3>4. QED
        BY <3>1, <3>2, <3>3 DEF Alone, Bus
    <2>3. QED
      BY <1>3, <1>4, <2>1, <2>2
  <1>5. QED
    BY <1>1, <1>2, <1>3, <1>4 DEF AtMostOne

-----------------------------------------------------------------------------
(* The pipeline's steps.                                                   *)

LEMMA ReplaySays ==
    ASSUME Distinct, Typed, NEW n \in Names, NEW s \in Srcs
    PROVE  /\ Replay(n, s) \in SUBSET Requests
           /\ \A f \in Replay(n, s) : f.name = n
           /\ \A f, g \in Replay(n, s) : f.pgn = g.pgn => f = g
           /\ replayed[n] = s => Replay(n, s) = {}
           /\ replayed[n] # s => \A p \in Pgns : rules[n][p] # None => Request(n, s, p, rules[n][p]) \in Replay(n, s)
  <1>1. \A p \in Pgns : rules[n][p] \in Intervals \union {None}
    BY DEF Typed, Rules
  <1>2. ASSUME NEW f \in Replay(n, s)
        PROVE  /\ f \in Requests /\ f.name = n
               /\ f = Request(n, s, f.pgn, rules[n][f.pgn])
    <2>1. PICK p \in Pgns : rules[n][p] # None /\ f = Request(n, s, p, rules[n][p])
      BY DEF Replay
    <2>2. QED
      BY <1>1, <2>1 DEF Request, Requests
  <1>3. \A f, g \in Replay(n, s) : f.pgn = g.pgn => f = g
    BY <1>2
  <1>4. replayed[n] = s => Replay(n, s) = {}
    BY DEF Replay
  <1>5. replayed[n] # s => \A p \in Pgns : rules[n][p] # None => Request(n, s, p, rules[n][p]) \in Replay(n, s)
    BY DEF Replay
  <1>6. QED
    BY <1>2, <1>3, <1>4, <1>5

LEMMA NoteClaimStep ==
    ASSUME Distinct, IInv, NoteClaim
    PROVE  IInv'
  <1> DEFINE n == Head(to_pipe).name
             s == Head(to_pipe).src
  <1>1. /\ Typed /\ FileSays /\ Followed /\ AtMostOne /\ engine = "on"
        /\ Placed /\ Learned /\ Missed /\ Settling
    BY DEF IInv, NoteClaim
  <1>2. /\ to_pipe # <<>> /\ to_pipe' = Tail(to_pipe) /\ held[Pipe] = {}
        /\ UNCHANGED <<rules, file, engine, unsaved, to_bus, addr, applied>>
        /\ src_name' = [src_name EXCEPT ![s] = n] /\ replayed' = [replayed EXCEPT ![n] = s]
        /\ Made(Pipe, n, Replay(n, s), {}) /\ Head(to_pipe).kind = "claim"
    BY DEF NoteClaim, devs
  <1>3. /\ n \in Names /\ s \in Srcs /\ to_pipe[1] = ClaimMsg(n, s) /\ Head(to_pipe) = to_pipe[1]
        /\ to_pipe' \in Seq(Claims \union Naks)
    <2>1. 1 \in Queue /\ Head(to_pipe) = to_pipe[1] /\ to_pipe' \in Seq(Claims \union Naks)
      BY <1>1, <1>2, TailIndex DEF Typed, Queue
    <2>2. QED
      BY <1>1, <1>2, <2>1, Messages
  <1> HIDE DEF n, s
  <1>4. \A k \in Names : (AtPlace(1, k) <=> s = addr[k]) /\ (Of(1, k) <=> n = k)
                         /\ (Arrival(1, k) <=> n = k /\ s = addr[k])
    BY <1>3 DEF AtPlace, Of, Arrival, ClaimMsg
  <1>5. /\ Followed'
        /\ \A k \in Names : /\ Arriving(k) => Arriving(k)' \/ Arrival(1, k)
                            /\ AtPlace(1, k) \/ Of(1, k) => Arriving(k)' \/ Arrival(1, k)
    BY <1>1, <1>2, <1>3, QueuePops DEF Arrival
  <1>6. /\ AtMostOne' /\ held' \in [Threads -> SUBSET Requests]
        /\ \A f : f \in Pending' <=> f \in Pending \/ f \in Replay(n, s)
        /\ \A k, p : <<k, p>> \notin excused' =>
             <<k, p>> \notin excused \/ \E f \in Replay(n, s) : For(f, k, p)
    <2>1. Pipe \in Threads
      BY DEF Threads
    <2>2. QED
      BY <1>1, <1>2, <1>3, <2>1, ReplaySays, MadeAlone
  <1>7. /\ src_name' \in [Srcs -> Names \union {None}] /\ src_name'[s] = n
        /\ \A r \in Srcs : r # s => src_name'[r] = src_name[r]
        /\ replayed' \in [Names -> Srcs \union {None}] /\ replayed'[n] = s
        /\ \A k \in Names : k # n => replayed'[k] = replayed[k]
    BY <1>1, <1>2, <1>3 DEF Typed
  <1>8. Typed'
    BY <1>1, <1>2, <1>3, <1>6, <1>7 DEF Typed
  <1>9. FileSays'
    BY <1>1, <1>2 DEF FileSays
  <1>10. addr \in [Names -> Srcs] /\ None \notin Names \union Srcs
    BY <1>1 DEF Typed, Distinct
  <1>11. Placed'
    BY <1>1, <1>2, <1>4, <1>5, <1>7, <1>10 DEF Placed
  <1>12. Learned'
    <2>1. ASSUME NEW k \in Names, replayed'[k] # None
          PROVE  src_name'[replayed'[k]] # None
      <3>1. CASE replayed'[k] = s
        BY <1>3, <1>7, <1>10, <3>1
      <3>2. CASE replayed'[k] # s
        <4>1. k # n /\ replayed'[k] = replayed[k] /\ replayed'[k] \in Srcs
          BY <1>7, <2>1, <3>2
        <4>2. QED
          BY <1>1, <1>7, <2>1, <3>2, <4>1 DEF Learned
      <3>3. QED
        BY <3>1, <3>2
    <2>2. QED
      BY <2>1 DEF Learned
  <1>13. ASSUME NEW k \in Names, k # n, NEW p
         PROVE  <<k, p>> \in excused' <=> <<k, p>> \in excused
    <2>1. \A q : <<k, p>> # <<n, q>>
      BY <1>13
    <2>2. QED
      BY <1>2, <2>1 DEF Made
  <1>14. Missed'
    <2>1. ASSUME NEW k \in Names
          PROVE  replayed'[k] \in {None, addr[k]} \/ Arriving(k)' \/ \A p \in Pgns : <<k, p>> \in excused'
      <3>1. CASE k = n
        BY <1>4, <1>5, <1>7, <3>1
      <3>2. CASE k # n
        BY <1>1, <1>4, <1>5, <1>7, <1>13, <3>2 DEF Missed
      <3>3. QED
        BY <3>1, <3>2
    <2>2. QED
      BY <1>2, <2>1 DEF Missed
  <1>15. ASSUME NEW k \in Names, NEW p \in Pgns, replayed'[k] = addr[k], rules[k][p] # None, <<k, p>> \notin excused'
         PROVE  Underway(k, p)'
    <2>1. ASSUME \A f \in Replay(n, s) : ~For(f, k, p), Of(1, k) => Arrival(1, k), replayed[k] = addr[k]
          PROVE  Underway(k, p)'
      <3>1. Calm(k, p)
        BY <1>2, <1>6, <2>1 DEF Calm
      <3>2. Underway(k, p)
        BY <1>1, <1>6, <1>15, <2>1 DEF Settling
      <3>3. ~Refusal(1, k, p)
        BY <1>3 DEF Refusal, ClaimMsg, NakMsg
      <3>4. /\ AtPlace(1, k) => src_name'[addr[k]] = to_pipe[1].name
            /\ ~AtPlace(1, k) => src_name'[addr[k]] = src_name[addr[k]]
        BY <1>3, <1>4, <1>7, <1>10 DEF ClaimMsg
      <3>5. QED
        BY <1>1, <1>2, <2>1, <3>1, <3>2, <3>3, <3>4, CalmPops
    <2>2. CASE k # n
      <3>1. \A f \in Replay(n, s) : ~For(f, k, p)
        BY <1>1, <1>3, <2>2, ReplaySays DEF For
      <3>2. QED
        BY <1>4, <1>7, <1>15, <2>1, <2>2, <3>1
    <2>3. CASE k = n /\ replayed[n] = s
      <3>1. Replay(n, s) = {}
        BY <1>1, <1>3, <2>3, ReplaySays
      <3>2. QED
        BY <1>4, <1>7, <1>15, <2>1, <2>3, <3>1
    <2>4. CASE k = n /\ replayed[n] # s
      <3>1. Request(k, s, p, rules[k][p]) \in Replay(n, s)
        BY <1>1, <1>3, <1>15, <2>4, ReplaySays
      <3>2. s = addr[k] /\ addr' = addr /\ rules' = rules
        BY <1>2, <1>7, <1>15, <2>4
      <3>3. Asked(k, p)'
        BY <1>6, <3>1, <3>2 DEF Asked
      <3>4. QED
        BY <2>4, <3>3 DEF Underway
    <2>5. QED
      BY <2>2, <2>3, <2>4
  <1>16. Settling'
    BY <1>2, <1>15 DEF Settling
  <1>17. QED
    BY <1>5, <1>6, <1>8, <1>9, <1>11, <1>12, <1>14, <1>16 DEF IInv

LEMMA SaveSays ==
    ASSUME Distinct, Typed, FileSays, rules' \in Rules, Save, engine = "on"
    PROVE  /\ file' \in Rules \union {Missing, Torn} /\ unsaved' \in BOOLEAN
           /\ engine' \in {"on", "off"} /\ FileSays'
  <1>1. \A r \in Rules : r # Torn
    BY DEF Distinct
  <1>2. CASE file' = rules' /\ unsaved' = FALSE /\ UNCHANGED <<engine, crashes>>
    BY <1>1, <1>2 DEF FileSays
  <1>3. CASE unsaved' = TRUE /\ file' \in {file, Torn} /\ UNCHANGED engine
    BY <1>3 DEF FileSays, Typed
  <1>4. CASE file' = Torn /\ engine' = "off" /\ UNCHANGED unsaved
    BY <1>4 DEF FileSays, Typed
  <1>5. QED
    BY <1>2, <1>3, <1>4 DEF Save

LEMMA RemoveSays ==
    ASSUME Distinct, Typed, FileSays, engine = "on", NEW n \in Names \union {None}, NEW p \in Pgns, Remove(n, p)
    PROVE  /\ rules' \in Rules
           /\ file' \in Rules \union {Missing, Torn} /\ unsaved' \in BOOLEAN
           /\ engine' \in {"on", "off"} /\ FileSays'
           /\ \A k \in Names, q \in Pgns : rules'[k][q] \in {rules[k][q], None}
           /\ n # None => rules'[n][p] = None
  <1>1. CASE n # None /\ rules[n][p] # None
    <2>1. n \in Names /\ rules' = [rules EXCEPT ![n][p] = None] /\ Save
      BY <1>1 DEF Remove
    <2>2. rules' \in Rules
      BY <2>1 DEF Typed, Rules
    <2>3. /\ \A k \in Names, q \in Pgns : rules'[k][q] \in {rules[k][q], None}
          /\ rules'[n][p] = None
      BY <2>1 DEF Typed, Rules
    <2>4. QED
      BY <2>1, <2>2, <2>3, SaveSays
  <1>2. CASE ~(n # None /\ rules[n][p] # None)
    <2>1. UNCHANGED <<rules, file, engine, unsaved>>
      BY <1>2 DEF Remove
    <2>2. QED
      BY <1>2, <2>1 DEF Typed, FileSays
  <1>3. QED
    BY <1>1, <1>2

LEMMA NoteNakStep ==
    ASSUME Distinct, IInv, NoteNak
    PROVE  IInv'
  <1> DEFINE s == Head(to_pipe).src
             p0 == Head(to_pipe).pgn
  <1>1. /\ Typed /\ FileSays /\ Followed /\ AtMostOne /\ engine = "on"
        /\ Placed /\ Learned /\ Missed /\ Settling
    BY DEF IInv, NoteNak
  <1>2. /\ to_pipe # <<>> /\ to_pipe' = Tail(to_pipe) /\ Head(to_pipe).kind = "nak"
        /\ UNCHANGED <<src_name, replayed, held, to_bus, addr, applied, excused>>
        /\ Remove(src_name[s], p0)
    BY DEF NoteNak, devs
  <1>3. /\ s \in Srcs /\ p0 \in Pgns /\ Head(to_pipe) = to_pipe[1] /\ to_pipe[1] = NakMsg(s, p0)
        /\ to_pipe' \in Seq(Claims \union Naks) /\ src_name[s] \in Names \union {None}
    <2>1. 1 \in Queue /\ Head(to_pipe) = to_pipe[1] /\ to_pipe' \in Seq(Claims \union Naks)
      BY <1>1, <1>2, TailIndex DEF Typed, Queue
    <2>2. to_pipe[1] \in Claims \union Naks /\ to_pipe[1].kind = "nak"
      BY <1>1, <1>2, <2>1, Messages
    <2>3. s \in Srcs /\ p0 \in Pgns /\ to_pipe[1] = NakMsg(s, p0)
      BY <2>1, <2>2 DEF Claims, Naks, NakMsg
    <2>4. QED
      BY <1>1, <2>1, <2>3 DEF Typed
  <1> HIDE DEF s, p0
  <1>4. /\ rules' \in Rules
        /\ file' \in Rules \union {Missing, Torn} /\ unsaved' \in BOOLEAN
        /\ engine' \in {"on", "off"} /\ FileSays'
        /\ \A k \in Names, q \in Pgns : rules'[k][q] \in {rules[k][q], None}
        /\ src_name[s] # None => rules'[src_name[s]][p0] = None
    BY <1>1, <1>2, <1>3, RemoveSays
  <1>5. /\ Followed'
        /\ \A k \in Names : Arriving(k) => Arriving(k)'
    <2>1. \A k \in Names : Head(to_pipe) # ClaimMsg(k, addr[k])
      BY <1>3 DEF NakMsg, ClaimMsg
    <2>2. QED
      BY <1>1, <1>2, <2>1, QueuePops
  <1>6. Typed'
    BY <1>1, <1>2, <1>3, <1>4 DEF Typed
  <1>7. AtMostOne'
    BY <1>1, <1>2 DEF AtMostOne, Alone, Bus
  <1>8. Placed' /\ Learned' /\ Missed'
    BY <1>1, <1>2, <1>5 DEF Placed, Learned, Missed
  <1>9. ASSUME NEW k \in Names, NEW p \in Pgns, replayed[k] = addr[k], rules'[k][p] # None, <<k, p>> \notin excused
        PROVE  Underway(k, p)'
    <2>1. rules'[k][p] = rules[k][p]
      BY <1>4, <1>9
    <2>2. Underway(k, p)
      BY <1>1, <1>9, <2>1 DEF Settling
    <2>3. Calm(k, p)
      BY <1>2, <2>1, Pendings, PendingsNext DEF Calm, Bus
    <2>4. ~Of(1, k) /\ ~AtPlace(1, k)
      BY <1>3 DEF Of, AtPlace, NakMsg
    <2>5. ~Refusal(1, k, p)
      <3>1. SUFFICES ASSUME Refusal(1, k, p)
                     PROVE  FALSE
        OBVIOUS
      <3>2. s = addr[k] /\ p0 = p
        BY <1>3, <3>1 DEF Refusal, NakMsg
      <3>3. \A j \in Queue : ~(j < 1)
        BY DEF Queue
      <3>4. src_name[s] = k
        BY <3>1, <3>2, <3>3 DEF Refusal
      <3>5. QED
        BY <1>4, <1>9, <3>2, <3>4 DEF Distinct
    <2>6. QED
      BY <1>1, <1>2, <2>2, <2>3, <2>4, <2>5, CalmPops
  <1>10. Settling'
    BY <1>2, <1>9 DEF Settling
  <1>11. QED
    BY <1>4, <1>5, <1>6, <1>7, <1>8, <1>10 DEF IInv

LEMMA UnheardStep ==
    ASSUME Distinct, IInv, Unheard
    PROVE  IInv'
  <1>1. /\ Typed /\ FileSays /\ Followed /\ AtMostOne /\ engine' # "on"
        /\ to_pipe # <<>> /\ to_pipe' = Tail(to_pipe)
        /\ UNCHANGED <<src_name, rules, replayed, file, engine, unsaved, addr, applied, held, to_bus, excused>>
    BY DEF IInv, Unheard, store, devs
  <1>2. to_pipe' \in Seq(Claims \union Naks)
    BY <1>1, TailIndex DEF Typed
  <1>3. Typed' /\ FileSays'
    BY <1>1, <1>2 DEF Typed, FileSays
  <1>4. Followed'
    BY <1>1, QueuePops
  <1>5. AtMostOne'
    BY <1>1 DEF AtMostOne, Alone, Bus
  <1>6. QED
    BY <1>1, <1>3, <1>4, <1>5 DEF IInv

-----------------------------------------------------------------------------
(* The clients' steps.                                                     *)

LEMMA ApplySetStep ==
    ASSUME Distinct, IInv, NEW c \in Clients, NEW s \in Srcs, NEW p0 \in Pgns, NEW v \in Intervals,
           ApplySet(c, s, p0, v)
    PROVE  IInv'
  <1> DEFINE n == src_name[s]
             ps == IF replayed[src_name[s]] = s /\ addr[src_name[s]] = s THEN {} ELSE Pgns
  <1>1. /\ Typed /\ FileSays /\ Followed /\ AtMostOne /\ engine = "on"
        /\ Placed /\ Learned /\ Missed /\ Settling
    BY DEF IInv, ApplySet
  <1>2. /\ held[c] = {} /\ n # None
        /\ rules' = [rules EXCEPT ![n][p0] = v] /\ replayed' = [replayed EXCEPT ![n] = s]
        /\ Save /\ Made(c, n, {Request(n, s, p0, v)}, ps)
        /\ UNCHANGED <<src_name, to_bus, to_pipe, addr, applied>>
    BY DEF ApplySet, devs
  <1>3. n \in Names /\ Request(n, s, p0, v) \in Requests
    BY <1>1, <1>2 DEF Typed, Request, Requests
  <1>4. src_name[s] = n
    OBVIOUS
  <1>5. ps = IF replayed[n] = s /\ addr[n] = s THEN {} ELSE Pgns
    OBVIOUS
  <1> HIDE DEF n, ps
  <1>6. /\ rules' \in Rules /\ replayed' \in [Names -> Srcs \union {None}]
        /\ rules'[n][p0] = v /\ \A k \in Names, q \in Pgns : k # n \/ q # p0 => rules'[k][q] = rules[k][q]
        /\ replayed'[n] = s /\ \A k \in Names : k # n => replayed'[k] = replayed[k]
    BY <1>1, <1>2, <1>3 DEF Typed, Rules
  <1>7. /\ file' \in Rules \union {Missing, Torn} /\ unsaved' \in BOOLEAN
        /\ engine' \in {"on", "off"} /\ FileSays'
    BY <1>1, <1>2, <1>6, SaveSays
  <1> DEFINE fs == {Request(n, s, p0, v)}
  <1>8. /\ fs \in SUBSET Requests /\ c \in Threads
        /\ \A f \in fs : f.name = n /\ \A g \in fs : f.pgn = g.pgn => f = g
    BY <1>3 DEF Request, Threads
  <1>9. /\ AtMostOne' /\ held' \in [Threads -> SUBSET Requests]
        /\ \A f : f \in Pending' <=> f \in Pending \/ f \in fs
        /\ \A k, p : <<k, p>> \notin excused' =>
             <<k, p>> \notin excused \/ \E f \in fs : For(f, k, p)
    BY <1>1, <1>2, <1>3, <1>8, MadeAlone
  <1>10. ASSUME NEW k, NEW p
         PROVE  /\ k # n \/ p # p0 => (<<k, p>> \in excused => <<k, p>> \in excused')
                /\ p \in Pgns /\ ~(replayed[n] = s /\ addr[n] = s) => <<n, p>> \in excused'
    BY <1>2, <1>5 DEF Made, For, Request
  <1>11. Typed'
    BY <1>1, <1>2, <1>6, <1>7, <1>9 DEF Typed
  <1>12. Followed' /\ Placed'
    BY <1>1, <1>2 DEF Followed, Placed, Queue, AtPlace, Of, Arriving, Arrival
  <1>13. Learned'
    BY <1>1, <1>2, <1>4, <1>6 DEF Learned
  <1>14. Missed'
    <2>1. ASSUME NEW k \in Names, k # n
          PROVE  replayed'[k] \in {None, addr[k]} \/ Arriving(k)' \/ \A p \in Pgns : <<k, p>> \in excused'
      BY <1>1, <1>2, <1>6, <1>10, <2>1 DEF Missed, Arriving, Arrival, Queue
    <2>2. replayed'[n] \in {None, addr[n]} \/ \A p \in Pgns : <<n, p>> \in excused'
      BY <1>6, <1>10
    <2>3. QED
      BY <1>2, <2>1, <2>2 DEF Missed
  <1>15. ASSUME NEW k \in Names, NEW p \in Pgns, replayed'[k] = addr[k], rules'[k][p] # None, <<k, p>> \notin excused'
         PROVE  Underway(k, p)'
    <2>1. CASE k = n /\ p = p0
      <3>1. s = addr[k] /\ addr' = addr /\ rules'[k][p] = v
        BY <1>2, <1>6, <1>15, <2>1
      <3>2. Request(k, s, p, v) \in Pending'
        BY <1>9, <2>1
      <3>3. Asked(k, p)'
        BY <3>1, <3>2 DEF Asked
      <3>4. QED
        BY <3>3 DEF Underway
    <2>2. CASE k # n \/ p # p0
      <3>1. replayed[k] = addr[k]
        BY <1>6, <1>10, <1>15
      <3>2. <<k, p>> \notin excused /\ rules'[k][p] = rules[k][p]
        BY <1>6, <1>10, <1>15, <2>2
      <3>3. Underway(k, p)
        BY <1>1, <1>15, <3>1, <3>2 DEF Settling
      <3>4. ~For(Request(n, s, p0, v), k, p)
        BY <2>2 DEF For, Request
      <3>5. Calm(k, p)
        BY <1>2, <1>9, <3>2, <3>4 DEF Calm
      <3>6. QED
        BY <1>1, <1>2, <3>3, <3>5, CalmStays
    <2>3. QED
      BY <2>1, <2>2
  <1>16. Settling'
    BY <1>2, <1>15 DEF Settling
  <1>17. QED
    BY <1>7, <1>9, <1>11, <1>12, <1>13, <1>14, <1>16 DEF IInv

LEMMA ApplyDeleteStep ==
    ASSUME Distinct, IInv, NEW c \in Clients, NEW s \in Srcs, NEW p0 \in Pgns, ApplyDelete(c, s, p0)
    PROVE  IInv'
  <1>1. /\ Typed /\ FileSays /\ Followed /\ AtMostOne /\ engine = "on"
        /\ Placed /\ Learned /\ Missed /\ Settling
    BY DEF IInv, ApplyDelete
  <1>2. /\ Remove(src_name[s], p0)
        /\ UNCHANGED <<src_name, replayed, held, to_bus, to_pipe, addr, applied, excused>>
    BY DEF ApplyDelete, devs
  <1>3. src_name[s] \in Names \union {None}
    BY <1>1 DEF Typed
  <1>4. /\ rules' \in Rules
        /\ file' \in Rules \union {Missing, Torn} /\ unsaved' \in BOOLEAN
        /\ engine' \in {"on", "off"} /\ FileSays'
        /\ \A k \in Names, q \in Pgns : rules'[k][q] \in {rules[k][q], None}
    BY <1>1, <1>2, <1>3, RemoveSays
  <1>5. Typed'
    BY <1>1, <1>2, <1>4 DEF Typed
  <1>6. Followed' /\ Placed' /\ Learned' /\ Missed'
    BY <1>1, <1>2 DEF Followed, Placed, Learned, Missed, Queue, AtPlace, Of, Arriving, Arrival
  <1>7. AtMostOne'
    BY <1>1, <1>2 DEF AtMostOne, Alone, Bus
  <1>8. ASSUME NEW k \in Names, NEW p \in Pgns, replayed[k] = addr[k], rules'[k][p] # None, <<k, p>> \notin excused
        PROVE  Underway(k, p)'
    <2>1. rules'[k][p] = rules[k][p]
      BY <1>4, <1>8
    <2>2. Underway(k, p)
      BY <1>1, <1>8, <2>1 DEF Settling
    <2>3. Calm(k, p)
      BY <1>2, <2>1, Pendings, PendingsNext DEF Calm, Bus
    <2>4. QED
      BY <1>1, <1>2, <2>2, <2>3, CalmStays
  <1>9. Settling'
    BY <1>2, <1>8 DEF Settling
  <1>10. QED
    BY <1>4, <1>5, <1>6, <1>7, <1>9 DEF IInv

LEMMA SendFrameStep ==
    ASSUME Distinct, IInv, NEW t \in Threads, SendFrame(t)
    PROVE  IInv'
  <1>1. /\ Typed /\ FileSays /\ Followed /\ AtMostOne /\ engine = "on"
        /\ Placed /\ Learned /\ Missed /\ Settling
    BY DEF IInv, SendFrame
  <1>2. PICK f \in held[t] : held' = [held EXCEPT ![t] = held[t] \ {f}] /\ to_bus' = Append(to_bus, f)
    BY DEF SendFrame
  <1>3. UNCHANGED <<src_name, rules, replayed, file, engine, unsaved, to_pipe, addr, applied, excused>>
    BY DEF SendFrame, store, devs
  <1>4. /\ held \in [Threads -> SUBSET Requests] /\ f \in Requests
        /\ held'[t] = held[t] \ {f} /\ \A u \in Threads : u # t => held'[u] = held[u]
        /\ held' \in [Threads -> SUBSET Requests]
    BY <1>1, <1>2 DEF Typed
  <1>5. /\ to_bus' \in Seq(Requests)
        /\ \A i \in Bus : i \in Bus' /\ to_bus'[i] = to_bus[i]
        /\ \A i \in Bus' : i \in Bus \/ (i = Len(to_bus) + 1 /\ to_bus'[i] = f)
        /\ Len(to_bus) + 1 \in Bus' /\ to_bus'[Len(to_bus) + 1] = f
    BY <1>1, <1>2, <1>4, AppendIndex DEF Typed, Bus
  <1>6. Typed' /\ FileSays'
    BY <1>1, <1>3, <1>4, <1>5 DEF Typed, FileSays
  <1>7. Followed' /\ Placed' /\ Learned' /\ Missed'
    BY <1>1, <1>3 DEF Followed, Placed, Learned, Missed, Queue, AtPlace, Of, Arriving, Arrival
  <1>8. ASSUME NEW n \in Names, NEW p \in Pgns, <<n, p>> \notin excused
        PROVE  Alone(n, p)'
    <2>1. Alone(n, p)
      BY <1>1, <1>8 DEF AtMostOne
    <2>2. \A u \in Threads : held'[u] \subseteq held[u]
      BY <1>4
    <2>3. \A u, w \in Threads : \A g \in held'[u], h \in held'[w] : For(g, n, p) /\ For(h, n, p) => u = w /\ g = h
      BY <2>1, <2>2 DEF Alone
    <2>4. For(f, n, p) => /\ \A u \in Threads : \A g \in held'[u] : ~For(g, n, p)
                          /\ \A i \in Bus : ~For(to_bus[i], n, p)
      BY <1>4, <2>1, <2>2 DEF Alone
    <2>5. \A i, j \in Bus' : For(to_bus'[i], n, p) /\ For(to_bus'[j], n, p) => i = j
      BY <1>5, <2>1, <2>4 DEF Alone
    <2>6. \A u \in Threads : \A g \in held'[u], i \in Bus' : ~(For(g, n, p) /\ For(to_bus'[i], n, p))
      BY <1>5, <2>1, <2>2, <2>4 DEF Alone
    <2>7. QED
      BY <2>3, <2>5, <2>6 DEF Alone
  <1>9. AtMostOne'
    BY <1>3, <1>8 DEF AtMostOne
  <1>10. \A g : g \in Pending' <=> g \in Pending
    <2>1. \A g : (\E u \in Threads : g \in held[u]) => (\E u \in Threads : g \in held'[u]) \/ g = f
      BY <1>4
    <2>2. \A g : (\E u \in Threads : g \in held'[u]) => (\E u \in Threads : g \in held[u])
      BY <1>4
    <2>3. \A g : (\E i \in Bus' : g = to_bus'[i]) <=> (\E i \in Bus : g = to_bus[i]) \/ g = f
      BY <1>5
    <2>4. QED
      BY <1>2, <2>1, <2>2, <2>3, Pendings, PendingsNext DEF Bus
  <1>11. ASSUME NEW k \in Names, NEW p \in Pgns, replayed[k] = addr[k], rules[k][p] # None, <<k, p>> \notin excused
         PROVE  Underway(k, p)'
    <2>1. Underway(k, p)
      BY <1>1, <1>11 DEF Settling
    <2>2. Calm(k, p)
      BY <1>3, <1>10 DEF Calm
    <2>3. QED
      BY <1>1, <1>3, <2>1, <2>2, CalmStays
  <1>12. Settling'
    BY <1>3, <1>11 DEF Settling
  <1>13. QED
    BY <1>6, <1>7, <1>9, <1>12 DEF IInv

-----------------------------------------------------------------------------
(* The server and the devices.                                             *)

LEMMA CrashStep ==
    ASSUME Distinct, IInv, Crash
    PROVE  IInv'
  <1>1. /\ Typed /\ FileSays /\ Followed /\ AtMostOne /\ engine' = "off"
        /\ UNCHANGED <<src_name, rules, replayed, file, unsaved, held, to_bus, to_pipe, addr, applied, excused>>
    BY DEF IInv, Crash, air, devs
  <1>2. Typed' /\ FileSays'
    BY <1>1 DEF Typed, FileSays
  <1>3. Followed' /\ AtMostOne'
    BY <1>1 DEF Followed, Queue, AtPlace, Of, Arrival, AtMostOne, Alone, Bus
  <1>4. QED
    BY <1>1, <1>2, <1>3 DEF IInv

LEMMA StartStep ==
    ASSUME Distinct, IInv, Start
    PROVE  IInv' /\ RestartLosesNothing
  <1>1. /\ Typed /\ FileSays /\ AtMostOne /\ engine = "off" /\ Load
        /\ src_name' = [x \in Srcs |-> None] /\ replayed' = [x \in Names |-> None]
        /\ held' = [t \in Threads |-> {}] /\ to_pipe' = <<>>
        /\ UNCHANGED <<file, unsaved, to_bus, addr, applied, excused>>
    BY DEF IInv, Start, devs
  <1>2. NoRules \in Rules
    BY DEF NoRules, Rules
  <1>3. /\ rules' \in Rules /\ engine' \in {"on", "disabled"}
        /\ ~unsaved /\ file # Torn => file = rules' \/ (file = Missing /\ rules' = NoRules)
        /\ engine' = "on" /\ ~unsaved => rules' = rules
    <2>1. CASE file = Missing
      BY <1>1, <1>2, <2>1 DEF Load, FileSays, Distinct, Typed
    <2>2. CASE file = Torn
      BY <1>1, <2>2 DEF Load, Distinct, Typed
    <2>3. CASE file \notin {Missing, Torn}
      BY <1>1, <2>3 DEF Load, Typed, FileSays
    <2>4. QED
      BY <2>1, <2>2, <2>3
  <1>4. Typed'
    BY <1>1, <1>3 DEF Typed
  <1>5. FileSays'
    BY <1>1, <1>3 DEF FileSays
  <1>6. Queue' = {}
    BY <1>1 DEF Queue
  <1>7. Followed' /\ AtMostOne'
    BY <1>1, <1>6 DEF Followed, AtMostOne, Alone, Bus
  <1>8. \A n \in Names : addr[n] \in Srcs /\ replayed'[n] = None /\ src_name'[addr[n]] = None
    BY <1>1 DEF Typed
  <1>9. Placed' /\ Learned' /\ Missed' /\ Settling'
    BY <1>1, <1>8 DEF Placed, Learned, Missed, Settling, Distinct
  <1>10. QED
    BY <1>3, <1>4, <1>5, <1>7, <1>9 DEF IInv, RestartLosesNothing

LEMMA DeliverStep ==
    ASSUME Distinct, IInv, Deliver
    PROVE  IInv'
  <1> DEFINE f == Head(to_bus)
             at == {n \in Names : addr[n] = f.dst}
             m == NakMsg(f.dst, f.pgn)
  <1>1. /\ Typed /\ FileSays /\ Followed /\ AtMostOne
        /\ engine = "on" => Placed /\ Learned /\ Missed /\ Settling
    BY DEF IInv
  <1>2. /\ to_bus # <<>> /\ to_bus' = Tail(to_bus)
        /\ applied' = [n \in Names |-> IF n \in at /\ f.interval \notin Refused
                                       THEN [applied[n] EXCEPT ![f.pgn] = f.interval] ELSE applied[n]]
        /\ to_pipe' = IF at # {} /\ f.interval \in Refused THEN Append(to_pipe, m) ELSE to_pipe
        /\ excused' = excused \union {<<n, f.pgn>> : n \in at \ {f.name}}
        /\ UNCHANGED <<src_name, rules, replayed, file, engine, unsaved, held, addr>>
    BY DEF Deliver, store
  <1>3. /\ f \in Requests /\ 1 \in Bus /\ f = to_bus[1] /\ to_bus' \in Seq(Requests)
        /\ \A i \in Bus' : i + 1 \in Bus /\ to_bus'[i] = to_bus[i + 1]
        /\ \A i \in Bus : i # 1 => i - 1 \in Bus' /\ to_bus'[i - 1] = to_bus[i]
        /\ \A i \in Bus' : i \in Nat /\ i >= 1
    BY <1>1, <1>2, TailIndex DEF Typed, Bus
  <1>4. /\ f.name \in Names /\ f.dst \in Srcs /\ f.pgn \in Pgns /\ f.interval \in Intervals
        /\ m \in Claims \union Naks
    BY <1>3 DEF Requests, Naks, NakMsg
  <1>5. \A n \in Names : n \in at <=> addr[n] = f.dst
    OBVIOUS
  <1> HIDE DEF f, at
  <1>6. Grows(m) \/ UNCHANGED to_pipe
    BY <1>2 DEF Grows
  <1>7. /\ to_pipe' \in Seq(Claims \union Naks)
        /\ \A i \in Queue : i \in Queue' /\ to_pipe'[i] = to_pipe[i]
        /\ \A i \in Queue' : i \in Queue \/ to_pipe'[i] = m
    <2>1. CASE Grows(m)
      BY <1>1, <1>4, <2>1, QueueGrows
    <2>2. CASE UNCHANGED to_pipe
      BY <1>1, <2>2 DEF Queue, Typed
    <2>3. QED
      BY <1>6, <2>1, <2>2
  <1>8. /\ applied' \in Rules
        /\ \A n \in Names, p \in Pgns : applied'[n][p] = IF addr[n] = f.dst /\ f.interval \notin Refused /\ p = f.pgn
                                                         THEN f.interval ELSE applied[n][p]
    BY <1>1, <1>2, <1>4, <1>5 DEF Typed, Rules
  <1>9. Typed' /\ FileSays'
    BY <1>1, <1>2, <1>3, <1>7, <1>8 DEF Typed, FileSays
  <1>10. \A i, n : /\ m.kind = "nak"
                   /\ i \in Queue => (AtPlace(i, n)' <=> AtPlace(i, n)) /\ (Of(i, n)' <=> Of(i, n))
                                     /\ (Arrival(i, n)' <=> Arrival(i, n))
    BY <1>2, <1>7 DEF AtPlace, Of, Arrival, NakMsg
  <1>11. Followed'
    <2>1. ASSUME NEW n \in Names, NEW i \in Queue', AtPlace(i, n)' \/ Of(i, n)'
          PROVE  \E j \in Queue' : i <= j /\ Arrival(j, n)'
      <3>1. i \in Queue
        BY <1>7, <1>10, <2>1 DEF AtPlace, Of
      <3>2. PICK j \in Queue : i <= j /\ Arrival(j, n)
        BY <1>1, <1>10, <2>1, <3>1 DEF Followed
      <3>3. QED
        BY <1>7, <1>10, <3>2
    <2>2. QED
      BY <2>1 DEF Followed
  <1>12. ASSUME NEW n \in Names, NEW p \in Pgns, <<n, p>> \notin excused'
         PROVE  /\ <<n, p>> \notin excused /\ Alone(n, p) /\ Alone(n, p)'
                /\ addr[n] = f.dst /\ p = f.pgn => n = f.name
    <2>1. <<n, p>> \notin excused /\ Alone(n, p)
      BY <1>1, <1>2, <1>12 DEF AtMostOne
    <2>2. \A i, j \in Bus' : For(to_bus'[i], n, p) /\ For(to_bus'[j], n, p) => i = j
      <3>1. ASSUME NEW i \in Bus', NEW j \in Bus', For(to_bus'[i], n, p), For(to_bus'[j], n, p)
            PROVE  i = j
        <4>1. i + 1 = j + 1
          BY <1>3, <2>1, <3>1 DEF Alone
        <4>2. i \in Nat /\ j \in Nat
          BY <1>3
        <4>3. QED
          BY <4>1, <4>2
      <3>2. QED
        BY <3>1
    <2>3. \A t \in Threads : \A g \in held[t], i \in Bus' : ~(For(g, n, p) /\ For(to_bus'[i], n, p))
      BY <1>3, <2>1 DEF Alone
    <2>4. Alone(n, p)'
      BY <1>2, <2>1, <2>2, <2>3 DEF Alone
    <2>5. addr[n] = f.dst /\ p = f.pgn => n = f.name
      BY <1>2, <1>5, <1>12
    <2>6. QED
      BY <2>1, <2>4, <2>5
  <1>13. AtMostOne'
    BY <1>12 DEF AtMostOne
  <1>14. \A n \in Names : Arriving(n) => Arriving(n)'
    BY <1>7, <1>10 DEF Arriving
  <1>15. engine = "on" => Placed' /\ Learned' /\ Missed'
    BY <1>1, <1>2, <1>14 DEF Placed, Learned, Missed
  <1>16. /\ \A g : g \in Pending' => g \in Pending
         /\ \A g : g \in Pending /\ g # f => g \in Pending'
    <2>1. \A g : (\E i \in Bus' : g = to_bus'[i]) => (\E i \in Bus : g = to_bus[i])
      BY <1>3
    <2>2. \A g : (\E i \in Bus : g = to_bus[i]) => (\E i \in Bus' : g = to_bus'[i]) \/ g = f
      BY <1>3
    <2>3. QED
      BY <1>2, <2>1, <2>2, Pendings, PendingsNext DEF Bus
  <1>17. ASSUME engine = "on", NEW k \in Names, NEW p \in Pgns,
                replayed[k] = addr[k], rules[k][p] # None, <<k, p>> \notin excused'
         PROVE  Underway(k, p)'
    <2>1. Underway(k, p)
      BY <1>1, <1>12, <1>17 DEF Settling
    <2>2. CASE ~For(f, k, p)
      <3>1. applied'[k][p] = applied[k][p]
        BY <1>8, <1>12, <1>17, <2>2 DEF For
      <3>2. Calm(k, p)
        BY <1>2, <1>16, <2>2, <3>1 DEF Calm
      <3>3. QED
        BY <1>1, <1>2, <1>4, <1>6, <2>1, <3>2, CalmGrows
    <2>3. CASE For(f, k, p) /\ (Leaves(k) \/ Refuses(k, p))
      BY <1>1, <1>2, <1>4, <1>6, <2>3, WordGrows DEF Underway
    <2>4. CASE For(f, k, p) /\ Asked(k, p)
      <3>1. Alone(k, p) /\ k = f.name /\ p = f.pgn
        BY <1>12, <1>17, <2>4 DEF For
      <3>2. ASSUME NEW g \in Pending, For(g, k, p)
            PROVE  g = f /\ (\A t \in Threads : g \notin held[t]) /\ (\A i \in Bus : g = to_bus[i] => i = 1)
        BY <1>3, <2>4, <3>1, <3>2, Pendings DEF Alone
      <3>3. f = Request(k, addr[k], p, rules[k][p])
        BY <2>4, <3>2 DEF Asked, For, Request
      <3>4. f.dst = addr[k] /\ f.interval = rules[k][p] /\ k \in at
        BY <1>5, <3>3 DEF Request
      <3>5. CASE f.interval \notin Refused
        <4>1. applied'[k][p] = rules'[k][p]
          BY <1>2, <1>8, <3>1, <3>4, <3>5
        <4>2. \A g \in Pending' : For(g, k, p) => g.interval = rules'[k][p]
          BY <1>2, <1>16, <3>2, <3>4
        <4>3. QED
          BY <4>1, <4>2 DEF Underway, Obeys
      <3>6. CASE f.interval \in Refused
        <4>1. Grows(m) /\ m = NakMsg(addr[k], p)
          BY <1>2, <3>1, <3>4, <3>6 DEF Grows
        <4>0. PICK last : last = Len(to_pipe')
          OBVIOUS
        <4>2. /\ \A i \in Queue' : i \in Queue \/ i = last
              /\ \A i \in Queue : i < last
              /\ last \in Queue' /\ to_pipe'[last] = m
          BY <1>1, <1>4, <4>0, <4>1, QueueGrows
        <4>3. ASSUME NEW i \in Queue', i < last, AtPlace(i, k)'
              PROVE  \E j \in Queue' : i <= j /\ j < last /\ Arrival(j, k)'
          <5>1. i \in Queue
            BY <1>7, <1>10, <4>3 DEF AtPlace
          <5>2. PICK j \in Queue : i <= j /\ Arrival(j, k)
            BY <1>1, <1>10, <4>3, <5>1 DEF Followed
          <5>3. QED
            BY <1>7, <1>10, <4>2, <5>2
        <4>4. src_name[addr[k]] # None
          BY <1>1, <1>17 DEF Learned, Typed, Distinct
        <4>5. src_name'[addr'[k]] = k \/ \E j \in Queue' : j < last /\ Arrival(j, k)'
          BY <1>1, <1>2, <1>7, <1>10, <1>17, <4>2, <4>4 DEF Placed, Arriving
        <4>6. Refusal(last, k, p)'
          BY <1>2, <4>1, <4>2, <4>3, <4>5 DEF Refusal
        <4>7. QED
          BY <4>2, <4>6 DEF Underway, Refuses
      <3>7. QED
        BY <3>5, <3>6
    <2>5. CASE For(f, k, p) /\ Obeys(k, p)
      <3>1. f \in Pending
        BY <1>3, Pendings
      <3>2. f.interval = rules[k][p]
        BY <2>5, <3>1 DEF Obeys
      <3>3. applied'[k][p] = rules'[k][p]
        BY <1>2, <1>8, <2>5, <3>2 DEF Obeys
      <3>4. \A g \in Pending' : For(g, k, p) => g.interval = rules'[k][p]
        BY <1>2, <1>16, <2>5 DEF Obeys
      <3>5. QED
        BY <3>3, <3>4 DEF Underway, Obeys
    <2>6. QED
      BY <2>1, <2>2, <2>3, <2>4, <2>5 DEF Underway
  <1>18. engine = "on" => Settling'
    BY <1>2, <1>17 DEF Settling
  <1>19. QED
    BY <1>2, <1>9, <1>11, <1>13, <1>15, <1>18 DEF IInv

LEMMA ClaimStep ==
    ASSUME Distinct, IInv, NEW n \in Names, NEW s \in Srcs, NEW reset \in BOOLEAN, Claim(n, s, reset)
    PROVE  IInv'
  <1> DEFINE m == ClaimMsg(n, s)
  <1>1. /\ Typed /\ FileSays /\ Followed /\ AtMostOne
        /\ engine = "on" => Placed /\ Learned /\ Missed /\ Settling
    BY DEF IInv
  <1>2. /\ \A k \in Names : k # n => addr[k] # s
        /\ addr' = [addr EXCEPT ![n] = s] /\ to_pipe' = Append(to_pipe, m)
        /\ applied' = IF reset THEN [applied EXCEPT ![n] = NoRules[n]] ELSE applied
        /\ excused' = excused \union (IF reset /\ s = addr[n] THEN {n} \X Pgns ELSE {})
        /\ UNCHANGED <<src_name, rules, replayed, file, engine, unsaved, held, to_bus>>
    BY DEF Claim, store
  <1>3. /\ m \in Claims \union Naks /\ Grows(m) /\ m.kind = "claim" /\ m.src = s /\ m.name = n
    BY <1>2 DEF Claims, ClaimMsg, Grows
  <1>4. PICK last : last = Len(to_pipe')
    OBVIOUS
  <1>5. /\ to_pipe' \in Seq(Claims \union Naks)
        /\ \A i \in Queue : i \in Queue' /\ to_pipe'[i] = to_pipe[i]
        /\ \A i \in Queue' : i \in Queue \/ i = last
        /\ \A i \in Queue' : i <= last
        /\ last \in Queue' /\ to_pipe'[last] = m
    BY <1>1, <1>3, <1>4, QueueGrows
  <1>6. /\ addr' \in [Names -> Srcs] /\ addr'[n] = s
        /\ \A k \in Names : k # n => addr'[k] = addr[k]
        /\ \A j, k \in Names : addr'[j] = addr'[k] => j = k
    BY <1>1, <1>2 DEF Typed
  <1>7. applied' \in Rules /\ \A k \in Names : k # n \/ ~reset => applied'[k] = applied[k]
    BY <1>1, <1>2 DEF Typed, Rules, NoRules
  <1>8. Typed' /\ FileSays'
    BY <1>1, <1>2, <1>5, <1>6, <1>7 DEF Typed, FileSays
  <1>9. Arrival(last, n)'
    BY <1>5, <1>6 DEF Arrival
  <1>10. ASSUME NEW k \in Names, k # n, NEW i \in Queue
         PROVE  (AtPlace(i, k)' <=> AtPlace(i, k)) /\ (Arrival(i, k)' <=> Arrival(i, k))
    BY <1>5, <1>6, <1>10 DEF AtPlace, Arrival
  <1>11. Followed'
    <2>1. ASSUME NEW k \in Names, NEW i \in Queue', AtPlace(i, k)' \/ Of(i, k)'
          PROVE  \E j \in Queue' : i <= j /\ Arrival(j, k)'
      <3>1. CASE k = n
        BY <1>5, <1>9, <3>1
      <3>2. CASE k # n
        <4>1. ~(AtPlace(last, k)' \/ Of(last, k)')
          BY <1>2, <1>3, <1>5, <1>6, <3>2 DEF AtPlace, Of
        <4>2. i \in Queue
          BY <1>5, <2>1, <4>1
        <4>3. AtPlace(i, k) \/ Of(i, k)
          BY <1>5, <1>10, <2>1, <3>2, <4>2 DEF Of
        <4>4. PICK j \in Queue : i <= j /\ Arrival(j, k)
          BY <1>1, <4>2, <4>3 DEF Followed
        <4>5. QED
          BY <1>5, <1>10, <3>2, <4>4
      <3>3. QED
        BY <3>1, <3>2
    <2>2. QED
      BY <2>1 DEF Followed
  <1>12. AtMostOne'
    BY <1>1, <1>2 DEF AtMostOne, Alone, Bus
  <1>13. Arriving(n)' /\ \A k \in Names : k # n /\ Arriving(k) => Arriving(k)'
    BY <1>5, <1>9, <1>10 DEF Arriving
  <1>14. engine = "on" => Placed' /\ Learned' /\ Missed'
    <2>1. SUFFICES ASSUME engine = "on"
                   PROVE  Placed' /\ Learned' /\ Missed'
      OBVIOUS
    <2>2. Placed'
      BY <1>1, <1>2, <1>6, <1>13, <2>1 DEF Placed
    <2>3. Learned'
      BY <1>1, <1>2, <2>1 DEF Learned
    <2>4. Missed'
      BY <1>1, <1>2, <1>6, <1>13, <2>1 DEF Missed
    <2>5. QED
      BY <2>2, <2>3, <2>4
  <1>15. ASSUME engine = "on", NEW k \in Names, NEW p \in Pgns,
                replayed[k] = addr'[k], rules[k][p] # None, <<k, p>> \notin excused'
         PROVE  Underway(k, p)'
    <2>1. <<k, p>> \notin excused
      BY <1>2, <1>15
    <2>2. ASSUME addr'[k] = addr[k], applied'[k][p] = applied[k][p]
          PROVE  Underway(k, p)'
      <3>1. Underway(k, p)
        BY <1>1, <1>15, <2>1, <2>2 DEF Settling
      <3>2. \A g : g \in Pending' <=> g \in Pending
        BY <1>2, Pendings, PendingsNext DEF Bus
      <3>3. Calm(k, p)
        BY <1>2, <2>2, <3>2 DEF Calm
      <3>4. QED
        BY <1>1, <1>2, <1>3, <3>1, <3>3, CalmGrows
    <2>3. CASE k # n
      BY <1>6, <1>7, <2>2, <2>3
    <2>4. CASE k = n /\ s = addr[n]
      <3>1. ~reset
        BY <1>2, <1>15, <2>4
      <3>2. QED
        BY <1>6, <1>7, <2>2, <2>4, <3>1
    <2>5. CASE k = n /\ s # addr[n]
      <3>1. replayed[n] # addr[n] /\ replayed[n] # None
        BY <1>6, <1>15, <2>5 DEF Distinct
      <3>2. Arriving(n)
        BY <1>1, <1>15, <2>1, <2>5, <3>1 DEF Missed
      <3>3. PICK i \in Queue : Arrival(i, n)
        BY <3>2 DEF Arriving
      <3>4. Of(i, n)' /\ to_pipe'[i].src # addr'[n]
        BY <1>5, <1>6, <2>5, <3>3 DEF Arrival, Of, ClaimMsg
      <3>5. QED
        BY <1>5, <2>5, <3>3, <3>4 DEF Underway, Leaves
    <2>6. QED
      BY <2>3, <2>4, <2>5
  <1>16. engine = "on" => Settling'
    BY <1>2, <1>15 DEF Settling
  <1>17. QED
    BY <1>2, <1>8, <1>11, <1>12, <1>14, <1>16 DEF IInv

-----------------------------------------------------------------------------
(* The store and its devices.                                              *)

LEMMA InitIInv ==
    ASSUME Distinct, Init
    PROVE  IInv
  <1>1. NoRules \in Rules
    BY DEF NoRules, Rules
  <1>2. Typed
    <2>1. /\ addr \in [Names -> Srcs] /\ \A m, n \in Names : addr[m] = addr[n] => m = n
          /\ src_name = [x \in Srcs |-> None] /\ replayed = [x \in Names |-> None]
          /\ rules = NoRules /\ applied = NoRules /\ file = Missing
          /\ engine = "on" /\ unsaved = FALSE /\ to_bus = <<>> /\ to_pipe = <<>>
      BY DEF Init
    <2>2. held \in [Threads -> SUBSET Requests]
      BY DEF Init
    <2>3. /\ src_name \in [Srcs -> Names \union {None}] /\ replayed \in [Names -> Srcs \union {None}]
          /\ to_bus \in Seq(Requests) /\ to_pipe \in Seq(Claims \union Naks)
      BY <2>1
    <2>4. QED
      BY <1>1, <2>1, <2>2, <2>3 DEF Typed
  <1>3. FileSays
    BY DEF Init, FileSays, Distinct
  <1>4. Queue = {} /\ Bus = {}
    BY DEF Init, Queue, Bus
  <1>5. \A n \in Names : addr[n] \in Srcs /\ replayed[n] = None /\ src_name[addr[n]] = None
    BY <1>2 DEF Init, Typed
  <1>6. Followed /\ AtMostOne
    BY <1>4 DEF Followed, AtMostOne, Alone, Init
  <1>7. Placed /\ Learned /\ Missed /\ Settling
    BY <1>5 DEF Placed, Learned, Missed, Settling, Distinct
  <1>8. QED
    BY <1>2, <1>3, <1>6, <1>7 DEF IInv

LEMMA NextIInv ==
    ASSUME Distinct, IInv, [Next]_vars
    PROVE  IInv' /\ (engine = "off" /\ engine' = "on" /\ ~unsaved => rules' = rules)
  <1>1. CASE UNCHANGED vars
    <2>1. UNCHANGED <<src_name, rules, replayed, file, engine, unsaved, addr, applied, held, to_bus, to_pipe, excused>>
      BY <1>1 DEF vars, store, devs, air
    <2>2. Typed' /\ FileSays'
      BY <2>1 DEF IInv, Typed, FileSays
    <2>3. Followed' /\ AtMostOne' /\ (engine = "on" => Placed' /\ Learned' /\ Missed')
      BY <2>1 DEF IInv, Followed, AtMostOne, Alone, Bus, Queue, AtPlace, Of, Arrival, Arriving, Placed, Learned, Missed
    <2>4. ASSUME engine = "on", NEW k \in Names, NEW p \in Pgns,
                 replayed[k] = addr[k], rules[k][p] # None, <<k, p>> \notin excused
          PROVE  Underway(k, p)'
      <3>1. Calm(k, p)
        BY <2>1, Pendings, PendingsNext DEF Calm, Bus
      <3>2. QED
        BY <2>1, <2>4, <3>1, CalmStays DEF IInv, Settling
    <2>5. engine = "on" => Settling'
      BY <2>1, <2>4 DEF Settling
    <2>6. QED
      BY <2>1, <2>2, <2>3, <2>5 DEF IInv
  <1>2. CASE NoteClaim
    BY <1>2, NoteClaimStep DEF NoteClaim
  <1>3. CASE NoteNak
    BY <1>3, NoteNakStep DEF NoteNak
  <1>4. CASE Unheard
    BY <1>4, UnheardStep DEF Unheard, store
  <1>5. ASSUME NEW c \in Clients, NEW s \in Srcs, NEW p \in Pgns, NEW v \in Intervals, ApplySet(c, s, p, v)
        PROVE  IInv' /\ engine = "on"
    BY <1>5, ApplySetStep DEF ApplySet
  <1>6. ASSUME NEW c \in Clients, NEW s \in Srcs, NEW p \in Pgns, ApplyDelete(c, s, p)
        PROVE  IInv' /\ engine = "on"
    BY <1>6, ApplyDeleteStep DEF ApplyDelete
  <1>7. ASSUME NEW t \in Threads, SendFrame(t)
        PROVE  IInv' /\ engine = "on"
    BY <1>7, SendFrameStep DEF SendFrame
  <1>8. CASE Crash
    BY <1>8, CrashStep DEF Crash
  <1>9. CASE Start
    BY <1>9, StartStep DEF RestartLosesNothing
  <1>10. CASE Deliver
    BY <1>10, DeliverStep DEF Deliver, store
  <1>11. ASSUME NEW n \in Names, NEW s \in Srcs, NEW reset \in BOOLEAN, Claim(n, s, reset)
         PROVE  IInv' /\ engine' = engine
    BY <1>11, ClaimStep DEF Claim, store
  <1>12. QED
    BY <1>1, <1>2, <1>3, <1>4, <1>5, <1>6, <1>7, <1>8, <1>9, <1>10, <1>11 DEF Next

\* Once nothing is on its way, what is stored for a device that is where its
\* overrides were sent is what it does (note_address_claim, apply_set_frame,
\* note_nak).
LEMMA SettledIsApplied ==
    ASSUME Distinct, IInv
    PROVE  StoredIsApplied
  <1> SUFFICES ASSUME Quiet, NEW n \in Names, NEW p \in Pgns, rules[n][p] # None, <<n, p>> \notin excused,
                      replayed[n] = addr[n]
               PROVE  applied[n][p] = rules[n][p]
    BY DEF StoredIsApplied
  <1>1. Underway(n, p) /\ Queue = {}
    BY DEF IInv, Settling, Quiet, Queue
  <1>2. QED
    BY <1>1 DEF Underway, Leaves, Refuses, Asked, Obeys, Quiet

\* A device known at several addresses is reported at one of them.
LEMMA ReportedWhereKnown ==
    ASSUME Distinct, NEW n \in Names, Known(n)
    PROVE  NameSrc(n) \in Srcs /\ src_name[NameSrc(n)] = n
  <1>1. PICK s \in {r \in Srcs : src_name[r] = n} : \A r \in {q \in Srcs : src_name[q] = n} : s <= r
    BY LeastExists DEF Known, Distinct
  <1>2. QED
    BY <1>1 DEF NameSrc

LEMMA RowsAreOverrides ==
    ASSUME Distinct, Typed
    PROVE  RowsAddressOverrides
  <1> DEFINE shown == {<<src_name[r.src], r.pgn, r.interval>> : r \in ReportRows}
             known == {<<n, p, rules[n][p]>> : n \in {m \in Names : Known(m)}, p \in Pgns}
                      \ {<<n, p, None>> : n \in Names, p \in Pgns}
  <1>1. ASSUME NEW x \in shown
        PROVE  x \in known
    <2>1. PICK r \in ReportRows : x = <<src_name[r.src], r.pgn, r.interval>>
      OBVIOUS
    <2>2. PICK n \in Names, p \in Pgns : /\ Known(n) /\ rules[n][p] # None
                                         /\ r = [src |-> NameSrc(n), pgn |-> p, interval |-> rules[n][p]]
      BY DEF ReportRows
    <2>3. x = <<n, p, rules[n][p]>>
      BY <2>1, <2>2, ReportedWhereKnown
    <2>4. QED
      BY <2>2, <2>3
  <1>2. ASSUME NEW x \in known
        PROVE  x \in shown
    <2>1. PICK n \in Names, p \in Pgns : Known(n) /\ x = <<n, p, rules[n][p]>>
      OBVIOUS
    <2>2. rules[n][p] # None
      BY <2>1
    <2>3. [src |-> NameSrc(n), pgn |-> p, interval |-> rules[n][p]] \in ReportRows
      BY <2>1, <2>2 DEF ReportRows
    <2>4. x = <<src_name[NameSrc(n)], p, rules[n][p]>>
      BY <2>1, ReportedWhereKnown
    <2>5. QED
      BY <2>3, <2>4
  <1>3. shown = known
    BY <1>1, <1>2
  <1>4. QED
    BY <1>3 DEF RowsAddressOverrides

\* Whatever crosses, moves, refuses or crashes: what is stored is what the devices
\* do, what is reported can be sent back, and a server that starts with
\* overrides starts with all of them (note_address_claim, apply_set_frame,
\* report_frames, load).
THEOREM OverridesAreKept ==
    ASSUME Distinct
    PROVE  Spec => [](StoredIsApplied /\ RowsAddressOverrides) /\ [][RestartLosesNothing]_vars
  <1>1. Init => IInv
    BY InitIInv
  <1>2. IInv /\ [Next]_vars => IInv'
    BY NextIInv
  <1>3. IInv => StoredIsApplied /\ RowsAddressOverrides
    BY SettledIsApplied, RowsAreOverrides DEF IInv
  <1>4. IInv /\ [Next]_vars => [RestartLosesNothing]_vars
    BY NextIInv DEF RestartLosesNothing
  <1>5. QED
    BY <1>1, <1>2, <1>3, <1>4, PTL DEF Spec
=============================================================================
