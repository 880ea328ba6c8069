--------------------------- MODULE PipelineProofs ---------------------------
(***************************************************************************)
(* What holds of Pipeline for any ports, clients, batches and frames, with *)
(* a device and without.                                                   *)
(***************************************************************************)
EXTENDS Pipeline, SequenceTheorems, TLAPS

\* The raw port is one of the ports.
RawIsPort == RawPort \in Ports

FrameType == [id : Nat, kind : Kinds \union {"synth"}]
Phases == {"new", "subscribed", "greeted", "open", "gone"}

-----------------------------------------------------------------------------
(* The invariant.                                                          *)

HubsTyped ==
    /\ pending \in [Ports -> Seq(Nat)] /\ said \in [Ports -> Seq(Nat)]
    /\ subscribers \in [Ports -> SUBSET PipeClients] /\ chan \in [PipeClients -> Seq(Nat)]

Typed ==
    /\ HubsTyped
    /\ frames \in Seq(FrameType) /\ pending_synth \in Seq(FrameType)
    /\ with_device \in BOOLEAN /\ pre_coalesced \in BOOLEAN
    /\ got \in [PipeClients -> Seq(Nat)]
    /\ port \in [PipeClients -> Ports] /\ phase \in [PipeClients -> Phases]
    /\ since \in [PipeClients -> Nat]
    /\ on_bus \in Seq(Nat) /\ count \in Nat

\* A batch is the last of what was due on its port, and is kept for somebody.
HubSound(p) ==
    /\ subscribers[p] = {} => pending[p] = <<>>
    /\ \E k \in 0 .. Len(said[p]) : pending[p] = Due(p, k)

\* A client in a hub gets all from some line on that was due before it came.
Listens(c) ==
    /\ c \in subscribers[port[c]]
    /\ since[c] <= Len(said[port[c]])
    /\ \E k \in 0 .. since[c] : OnItsWay(c) = Due(port[c], k)

ClientSound(c) ==
    /\ phase[c] \in {"new", "greeted"} => c \notin subscribers[port[c]] /\ chan[c] = <<>>
    /\ phase[c] \in {"new", "subscribed"} => got[c] = <<>>
    /\ phase[c] = "subscribed" => port[c] \in StreamPorts
    /\ phase[c] = "greeted" => port[c] \notin StreamPorts /\ got[c] = <<HEADER>>
    /\ phase[c] = "open" => got[c] # <<>> /\ Head(got[c]) = HEADER
    /\ phase[c] \in {"subscribed", "open"} => Listens(c)

StreamsSound == (\A p \in Ports : HubSound(p)) /\ (\A c \in PipeClients : ClientSound(c))

\* A line stands somewhere in a stream, and nowhere twice.
In(s, x) == \E i \in 1 .. Len(s) : s[i] = x
Single(s) == \A i, j \in 1 .. Len(s) : s[i] = s[j] => i = j

\* Of every frame the server can still say where it is: written, synthesised or
\* to come.  What it sent itself is in one of these places.
Traced(written, synth, coming, sent, n) ==
    /\ Single(written) /\ Single(synth) /\ Single(coming)
    /\ \A x : In(written, x) => x <= n /\ ~In(synth, x) /\ ~In(coming, x)
    /\ \A x : In(synth, x) => x <= n /\ ~In(coming, x)
    /\ \A x : In(coming, x) => x <= n
    /\ \A x : In(sent, x) => In(written, x) \/ In(synth, x) \/ In(coming, x)

\* With a device every frame is a whole message, so none is held back.
EchoSound ==
    /\ with_device => pre_coalesced
    /\ on_bus # <<>> => with_device
    /\ \A i \in 1 .. Len(pending_synth) : pending_synth[i].kind = "synth"
    /\ Traced(said[RawPort], Ids(pending_synth), Ids(frames), on_bus, count)

IInv == Typed /\ StreamsSound /\ EchoSound

-----------------------------------------------------------------------------
(* Sequences.                                                              *)

\* What is left of a sequence from some place on.
LEMMA Rest ==
    ASSUME NEW s \in Seq(Nat), NEW k \in 0 .. Len(s)
    PROVE  /\ SubSeq(s, k + 1, Len(s)) \in Seq(Nat)
           /\ Len(SubSeq(s, k + 1, Len(s))) = Len(s) - k
           /\ \A i \in 1 .. Len(s) - k : SubSeq(s, k + 1, Len(s))[i] = s[k + i]
  <1>1. Len(s) \in Nat /\ \A i \in 1 .. Len(s) : s[i] \in Nat
    BY LenProperties, ElementOfSeq
  <1>2. PICK n \in Nat : n = Len(s)
    BY <1>1
  <1>3. k \in Nat /\ k <= n /\ k + 1 \in Int /\ n \in Int
    BY <1>2
  <1>4. \A i \in k + 1 .. n : s[i] \in Nat
    BY <1>1, <1>2, <1>3
  <1>5. /\ SubSeq(s, k + 1, n) \in Seq(Nat)
        /\ Len(SubSeq(s, k + 1, n)) = IF k + 1 <= n THEN n - (k + 1) + 1 ELSE 0
        /\ \A i \in 1 .. n - (k + 1) + 1 : SubSeq(s, k + 1, n)[i] = s[k + 1 + i - 1]
    BY <1>3, <1>4, SubSeqProperties
  <1>6. n - (k + 1) + 1 = n - k /\ (IF k + 1 <= n THEN n - (k + 1) + 1 ELSE 0) = n - k
    BY <1>3
  <1>7. \A i \in 1 .. n - k : k + 1 + i - 1 = k + i
    BY <1>3
  <1>8. QED
    BY <1>2, <1>5, <1>6, <1>7

\* What is due grows at its end as what was said does.
LEMMA DueGrows ==
    ASSUME NEW s \in Seq(Nat), NEW t \in Seq(Nat), NEW k \in 0 .. Len(s)
    PROVE  SubSeq(s \o t, k + 1, Len(s \o t)) = SubSeq(s, k + 1, Len(s)) \o t
  <1> DEFINE a == SubSeq(s \o t, k + 1, Len(s \o t))
             b == SubSeq(s, k + 1, Len(s))
  <1>1. /\ s \o t \in Seq(Nat) /\ Len(s \o t) = Len(s) + Len(t) /\ Len(s) \in Nat /\ Len(t) \in Nat
        /\ \A i \in 1 .. Len(s) + Len(t) : (s \o t)[i] = IF i <= Len(s) THEN s[i] ELSE t[i - Len(s)]
    BY ConcatProperties, LenProperties
  <1>2. k \in 0 .. Len(s \o t) /\ k \in Nat /\ k <= Len(s)
    BY <1>1
  <1>3. a \in Seq(Nat) /\ Len(a) = Len(s \o t) - k /\ \A i \in 1 .. Len(s \o t) - k : a[i] = (s \o t)[k + i]
    BY <1>1, <1>2, Rest
  <1>4. b \in Seq(Nat) /\ Len(b) = Len(s) - k /\ \A i \in 1 .. Len(s) - k : b[i] = s[k + i]
    BY Rest
  <1> HIDE DEF a, b
  <1>5. /\ b \o t \in Seq(Nat) /\ Len(b \o t) = Len(b) + Len(t)
        /\ \A i \in 1 .. Len(b) + Len(t) : (b \o t)[i] = IF i <= Len(b) THEN b[i] ELSE t[i - Len(b)]
    BY <1>4, ConcatProperties
  <1>6. Len(a) = Len(b \o t)
    BY <1>1, <1>2, <1>3, <1>4, <1>5
  <1>7. ASSUME NEW i \in 1 .. Len(a)
        PROVE  a[i] = (b \o t)[i]
    <2>1. i \in Nat /\ i >= 1 /\ i <= Len(s) + Len(t) - k /\ k + i \in 1 .. Len(s) + Len(t)
      BY <1>1, <1>2, <1>3
    <2>2. a[i] = IF k + i <= Len(s) THEN s[k + i] ELSE t[k + i - Len(s)]
      BY <1>1, <1>2, <1>3, <2>1
    <2>3. (b \o t)[i] = IF i <= Len(s) - k THEN b[i] ELSE t[i - (Len(s) - k)]
      <3>1. Len(b) = Len(s) - k /\ i \in 1 .. Len(b) + Len(t)
        BY <1>1, <1>2, <1>4, <2>1
      <3>2. QED
        BY ONLY <1>5, <3>1
    <2>4. (k + i <= Len(s) <=> i <= Len(s) - k) /\ k + i - Len(s) = i - (Len(s) - k)
      BY <1>1, <1>2, <2>1
    <2>5. i <= Len(s) - k => b[i] = s[k + i]
      <3>1. i <= Len(s) - k => i \in 1 .. Len(s) - k
        BY <1>1, <1>2, <2>1
      <3>2. QED
        BY ONLY <1>4, <3>1
    <2>6. QED
      BY <2>2, <2>3, <2>4, <2>5
  <1>8. QED
    BY <1>3, <1>5, <1>6, <1>7, SeqEqual DEF a, b

\* A sequence taken apart is itself.
LEMMA Split ==
    ASSUME NEW s \in Seq(Nat), NEW n \in 0 .. Len(s)
    PROVE  /\ SubSeq(s, 1, n) \in Seq(Nat) /\ SubSeq(s, n + 1, Len(s)) \in Seq(Nat)
           /\ SubSeq(s, 1, n) \o SubSeq(s, n + 1, Len(s)) = s
  <1> DEFINE front == SubSeq(s, 1, n)
             rest == SubSeq(s, n + 1, Len(s))
  <1>1. Len(s) \in Nat /\ \A i \in 1 .. Len(s) : s[i] \in Nat
    BY LenProperties, ElementOfSeq
  <1>2. n \in Nat /\ n \in Int /\ 1 \in Int /\ \A i \in 1 .. n : s[i] \in Nat
    BY <1>1
  <1>3. front \in Seq(Nat)
    BY <1>2, SubSeqProperties
  <1>4. rest \in Seq(Nat)
    BY Rest
  <1>5. 1 \in 1 .. Len(s) + 1 /\ n \in 1 - 1 .. Len(s) /\ Len(s) \in n .. Len(s)
    BY <1>1
  <1>6. front \o rest = SubSeq(s, 1, Len(s))
    BY <1>5, ConcatAdjacentSubSeq
  <1>7. SubSeq(s, 1, Len(s)) = s
    BY SubSeqFull
  <1> HIDE DEF front, rest
  <1>8. front \o rest = s
    BY <1>6, <1>7, Zenon
  <1>9. QED
    BY <1>3, <1>4, <1>8, Zenon DEF front, rest

\* Brackets do not matter.
Associates(s, t, u) == (s \o t) \o u = s \o (t \o u)

LEMMA Associativity ==
    ASSUME NEW S, NEW s \in Seq(S), NEW t \in Seq(S), NEW u \in Seq(S)
    PROVE  Associates(s, t, u)
  BY ConcatAssociative DEF Associates

Regroups(s, t, u, v) ==
    /\ ((s \o t) \o u) \o v = (s \o t) \o (u \o v)
    /\ (s \o (t \o (u \o v))) \o <<>> = (s \o t) \o (u \o v)

LEMMA Regrouping ==
    ASSUME NEW s \in Seq(Nat), NEW t \in Seq(Nat), NEW u \in Seq(Nat), NEW v \in Seq(Nat)
    PROVE  Regroups(s, t, u, v)
  <1>1. s \o t \in Seq(Nat) /\ u \o v \in Seq(Nat) /\ (s \o t) \o (u \o v) \in Seq(Nat)
    BY ConcatProperties
  <1>2. Associates(s \o t, u, v) /\ Associates(s, t, u \o v)
    BY <1>1, Associativity
  <1>3. ((s \o t) \o (u \o v)) \o <<>> = (s \o t) \o (u \o v)
    BY <1>1, ConcatEmptySeq
  <1>4. QED
    BY <1>2, <1>3 DEF Associates, Regroups

\* The rest of what comes after a first is the rest of it all.
LEMMA TailOfConcat ==
    ASSUME NEW s \in Seq(Nat), s # <<>>, NEW t \in Seq(Nat)
    PROVE  /\ Tail(s \o t) = Tail(s) \o t /\ s \o t # <<>> /\ Head(s \o t) = Head(s)
           /\ Tail(s) \in Seq(Nat) /\ s \o t \in Seq(Nat)
  OBVIOUS

-----------------------------------------------------------------------------
(* Streams without repetition.                                             *)

LEMMA SingleAppend ==
    ASSUME NEW s \in Seq(Nat), NEW x \in Nat, Single(s), ~In(s, x)
    PROVE  Single(Append(s, x))
  <1>1. /\ Len(s) \in Nat /\ Len(Append(s, x)) = Len(s) + 1
        /\ \A i \in 1 .. Len(s) : Append(s, x)[i] = s[i]
        /\ Append(s, x)[Len(s) + 1] = x
        /\ \A i \in 1 .. Len(Append(s, x)) : i \in 1 .. Len(s) \/ i = Len(s) + 1
    OBVIOUS
  <1>2. QED
    BY <1>1 DEF Single, In

LEMMA InAppend ==
    ASSUME NEW s \in Seq(Nat), NEW x \in Nat, NEW y
    PROVE  In(Append(s, x), y) <=> In(s, y) \/ y = x
  <1>1. /\ Len(s) \in Nat /\ Len(Append(s, x)) = Len(s) + 1
        /\ \A i \in 1 .. Len(s) : i \in 1 .. Len(Append(s, x)) /\ Append(s, x)[i] = s[i]
        /\ Len(s) + 1 \in 1 .. Len(Append(s, x)) /\ Append(s, x)[Len(s) + 1] = x
        /\ \A i \in 1 .. Len(Append(s, x)) : i \in 1 .. Len(s) \/ i = Len(s) + 1
    OBVIOUS
  <1>2. QED
    BY <1>1 DEF In

LEMMA TailParts ==
    ASSUME NEW s \in Seq(Nat), s # <<>>, Single(s), NEW y
    PROVE  /\ Single(Tail(s)) /\ In(s, Head(s)) /\ Head(s) \in Nat
           /\ In(Tail(s), y) <=> In(s, y) /\ y # Head(s)
  <1>1. /\ Len(s) \in Nat /\ Len(Tail(s)) = Len(s) - 1 /\ 1 \in 1 .. Len(s) /\ Head(s) = s[1] /\ s[1] \in Nat
        /\ \A i \in 1 .. Len(Tail(s)) : i \in Nat /\ i + 1 \in 1 .. Len(s) /\ i + 1 # 1 /\ Tail(s)[i] = s[i + 1]
        /\ \A i \in 1 .. Len(s) : i # 1 => i - 1 \in 1 .. Len(Tail(s)) /\ Tail(s)[i - 1] = s[i]
    OBVIOUS
  <1>2. ASSUME NEW i \in 1 .. Len(Tail(s)), NEW j \in 1 .. Len(Tail(s)), Tail(s)[i] = Tail(s)[j]
        PROVE  i = j
    <2>1. i + 1 = j + 1
      BY <1>1, <1>2 DEF Single
    <2>2. QED
      BY <1>1, <2>1
  <1>3. In(Tail(s), y) => In(s, y) /\ y # Head(s)
    BY <1>1 DEF In, Single
  <1>4. In(s, y) /\ y # Head(s) => In(Tail(s), y)
    BY <1>1 DEF In
  <1>5. QED
    BY <1>1, <1>2, <1>3, <1>4 DEF Single, In

LEMMA Joined ==
    ASSUME NEW s \in Seq(Nat), NEW t \in Seq(Nat), Single(s), Single(t), \A x : ~(In(s, x) /\ In(t, x))
    PROVE  Single(s \o t) /\ \A x : In(s \o t, x) <=> In(s, x) \/ In(t, x)
  <1>1. /\ Len(s \o t) = Len(s) + Len(t) /\ Len(s) \in Nat /\ Len(t) \in Nat
        /\ \A i \in 1 .. Len(s \o t) : (s \o t)[i] = IF i <= Len(s) THEN s[i] ELSE t[i - Len(s)]
    BY ConcatProperties, LenProperties
  <1>2. \A i \in 1 .. Len(s \o t) : \/ i \in 1 .. Len(s) /\ (s \o t)[i] = s[i]
                                    \/ i - Len(s) \in 1 .. Len(t) /\ (s \o t)[i] = t[i - Len(s)] /\ i \in Nat
    BY <1>1
  <1>3. Single(s \o t)
    <2> SUFFICES ASSUME NEW i \in 1 .. Len(s \o t), NEW j \in 1 .. Len(s \o t), (s \o t)[i] = (s \o t)[j]
                 PROVE  i = j
      BY DEF Single
    <2>1. CASE i - Len(s) \in 1 .. Len(t) /\ (s \o t)[i] = t[i - Len(s)] /\ j - Len(s) \in 1 .. Len(t) /\ (s \o t)[j] = t[j - Len(s)]
      <3>1. i - Len(s) = j - Len(s)
        BY <2>1 DEF Single
      <3>2. QED
        BY <1>1, <3>1
    <2>2. QED
      BY <1>2, <2>1 DEF Single, In
  <1>4. ASSUME NEW x, In(s, x)
        PROVE  In(s \o t, x)
    BY <1>1, <1>4 DEF In
  <1>5. ASSUME NEW x, In(t, x)
        PROVE  In(s \o t, x)
    <2>1. PICK i \in 1 .. Len(t) : t[i] = x
      BY <1>5 DEF In
    <2>2. i + Len(s) \in 1 .. Len(s \o t) /\ ~(i + Len(s) <= Len(s)) /\ i + Len(s) - Len(s) = i
      BY <1>1
    <2>3. (s \o t)[i + Len(s)] = x
      BY <1>1, <2>1, <2>2
    <2>4. QED
      BY <2>2, <2>3 DEF In
  <1>6. \A x : In(s \o t, x) => In(s, x) \/ In(t, x)
    BY <1>2 DEF In
  <1>7. QED
    BY <1>3, <1>4, <1>5, <1>6

-----------------------------------------------------------------------------
(* Where a frame is, as it goes on.                                        *)

LEMMA SynthIsWritten ==
    ASSUME NEW S \in Seq(Nat), NEW P \in Seq(Nat), NEW F \in Seq(Nat), NEW B \in Seq(Nat), NEW n \in Nat,
           Traced(S, P, F, B, n), P # <<>>
    PROVE  Traced(Append(S, Head(P)), Tail(P), F, B, n)
  <1>1. Head(P) \in Nat /\ In(P, Head(P)) /\ Single(Tail(P)) /\ \A x : In(Tail(P), x) <=> In(P, x) /\ x # Head(P)
    BY TailParts DEF Traced
  <1>2. Single(Append(S, Head(P))) /\ \A x : In(Append(S, Head(P)), x) <=> In(S, x) \/ x = Head(P)
    BY <1>1, SingleAppend, InAppend DEF Traced
  <1>3. QED
    BY <1>1, <1>2 DEF Traced

LEMMA FrameIsWritten ==
    ASSUME NEW S \in Seq(Nat), NEW P \in Seq(Nat), NEW F \in Seq(Nat), NEW B \in Seq(Nat), NEW n \in Nat,
           Traced(S, P, F, B, n), F # <<>>
    PROVE  Traced(Append(S, Head(F)), P, Tail(F), B, n)
  <1>1. Head(F) \in Nat /\ In(F, Head(F)) /\ Single(Tail(F)) /\ \A x : In(Tail(F), x) <=> In(F, x) /\ x # Head(F)
    BY TailParts DEF Traced
  <1>2. Single(Append(S, Head(F))) /\ \A x : In(Append(S, Head(F)), x) <=> In(S, x) \/ x = Head(F)
    BY <1>1, SingleAppend, InAppend DEF Traced
  <1>3. QED
    BY <1>1, <1>2 DEF Traced

LEMMA FrameIsKept ==
    ASSUME NEW S \in Seq(Nat), NEW P \in Seq(Nat), NEW F \in Seq(Nat), NEW n \in Nat,
           Traced(S, P, F, <<>>, n), F # <<>>
    PROVE  Traced(S, P, Tail(F), <<>>, n)
  <1>1. Single(Tail(F)) /\ \A x : In(Tail(F), x) <=> In(F, x) /\ x # Head(F)
    BY TailParts DEF Traced
  <1>2. \A x : ~In(<<>>, x)
    BY DEF In
  <1>3. QED
    BY <1>1, <1>2 DEF Traced

LEMMA FrameComes ==
    ASSUME NEW S \in Seq(Nat), NEW P \in Seq(Nat), NEW F \in Seq(Nat), NEW B \in Seq(Nat), NEW n \in Nat,
           Traced(S, P, F, B, n)
    PROVE  /\ Traced(S, P, Append(F, n + 1), B, n + 1)
           /\ Traced(S, P, Append(F, n + 1), Append(B, n + 1), n + 1)
  <1>1. n + 1 \in Nat /\ ~(n + 1 <= n)
    OBVIOUS
  <1>2. /\ \A x : In(S, x) => x \in Nat
        /\ \A x : In(P, x) => x \in Nat
        /\ \A x : In(F, x) => x \in Nat
    BY ElementOfSeq DEF In
  <1>3. \A x : In(S, x) \/ In(P, x) \/ In(F, x) => x <= n + 1 /\ x # n + 1
    BY <1>1, <1>2 DEF Traced
  <1>4. Single(Append(F, n + 1)) /\ \A x : In(Append(F, n + 1), x) <=> In(F, x) \/ x = n + 1
    BY <1>1, <1>3, SingleAppend, InAppend DEF Traced
  <1>5. \A x : In(Append(B, n + 1), x) <=> In(B, x) \/ x = n + 1
    BY <1>1, InAppend
  <1>6. n + 1 <= n + 1
    OBVIOUS
  <1>7. QED
    BY <1>3, <1>4, <1>5, <1>6 DEF Traced

LEMMA SynthComes ==
    ASSUME NEW S \in Seq(Nat), NEW F \in Seq(Nat), NEW B \in Seq(Nat), NEW n \in Nat,
           Traced(S, <<>>, F, B, n)
    PROVE  Traced(S, <<n + 1>>, F, Append(B, n + 1), n + 1)
  <1>1. n + 1 \in Nat /\ n + 1 <= n + 1 /\ ~(n + 1 <= n)
    OBVIOUS
  <1>2. (\A x : In(S, x) => x \in Nat) /\ (\A x : In(F, x) => x \in Nat)
    BY ElementOfSeq DEF In
  <1>3. \A x : In(S, x) \/ In(F, x) => x <= n + 1 /\ x # n + 1
    BY <1>1, <1>2 DEF Traced
  <1>4. Single(<<n + 1>>) /\ (\A x : In(<<n + 1>>, x) <=> x = n + 1) /\ \A x : ~In(<<>>, x)
    BY DEF Single, In
  <1>5. \A x : In(Append(B, n + 1), x) <=> In(B, x) \/ x = n + 1
    BY <1>1, InAppend
  <1>6. QED
    BY <1>1, <1>3, <1>4, <1>5 DEF Traced

\* The ids of the frames that wait.
LEMMA IdsOf ==
    ASSUME NEW fs \in Seq(FrameType)
    PROVE  /\ Ids(fs) \in Seq(Nat)
           /\ \A f \in FrameType : Ids(Append(fs, f)) = Append(Ids(fs), f.id)
           /\ fs # <<>> => /\ Ids(fs) # <<>> /\ Ids(Tail(fs)) = Tail(Ids(fs))
                          /\ Head(Ids(fs)) = Head(fs).id /\ Head(fs) \in FrameType /\ Tail(fs) \in Seq(FrameType)
  <1>1. Len(fs) \in Nat /\ \A i \in 1 .. Len(fs) : fs[i] \in FrameType /\ fs[i].id \in Nat
    <2>1. Len(fs) \in Nat /\ \A i \in 1 .. Len(fs) : fs[i] \in FrameType
      BY ElementOfSeq, LenProperties
    <2>2. \A f \in FrameType : f.id \in Nat
      BY DEF FrameType
    <2>3. QED
      BY <2>1, <2>2
  <1>2. Ids(fs) \in Seq(Nat) /\ Len(Ids(fs)) = Len(fs) /\ \A i \in 1 .. Len(fs) : Ids(fs)[i] = fs[i].id
    BY <1>1 DEF Ids
  <1>3. ASSUME NEW f \in FrameType
        PROVE  Ids(Append(fs, f)) = Append(Ids(fs), f.id)
    <2>1. /\ Append(fs, f) \in Seq(FrameType) /\ Len(Append(fs, f)) = Len(fs) + 1
          /\ \A i \in 1 .. Len(fs) : Append(fs, f)[i] = fs[i]
          /\ Append(fs, f)[Len(fs) + 1] = f /\ f.id \in Nat
      BY DEF FrameType
    <2>2. /\ Append(Ids(fs), f.id) \in Seq(Nat) /\ Len(Append(Ids(fs), f.id)) = Len(fs) + 1
          /\ \A i \in 1 .. Len(fs) : Append(Ids(fs), f.id)[i] = fs[i].id
          /\ Append(Ids(fs), f.id)[Len(fs) + 1] = f.id
      BY <1>2, <2>1, AppendProperties
    <2>3. /\ Ids(Append(fs, f)) \in Seq(Nat) /\ Len(Ids(Append(fs, f))) = Len(fs) + 1
          /\ \A i \in 1 .. Len(fs) + 1 : Ids(Append(fs, f))[i] = Append(fs, f)[i].id
      <3>1. \A i \in 1 .. Len(fs) + 1 : Append(fs, f)[i].id \in Nat
        BY <1>1, <2>1
      <3>2. QED
        BY <1>1, <2>1, <3>1 DEF Ids
    <2>4. \A i \in 1 .. Len(fs) + 1 : Ids(Append(fs, f))[i] = Append(Ids(fs), f.id)[i]
      <3>1. ASSUME NEW i \in 1 .. Len(fs) + 1
            PROVE  i \in 1 .. Len(fs) \/ i = Len(fs) + 1
        BY <1>1
      <3>2. ASSUME NEW i \in 1 .. Len(fs)
            PROVE  Ids(Append(fs, f))[i] = Append(Ids(fs), f.id)[i]
        <4>1. i \in 1 .. Len(fs) + 1
          BY <1>1
        <4>2. QED
          BY <2>1, <2>2, <2>3, <4>1
      <3>3. Len(fs) + 1 \in 1 .. Len(fs) + 1
        BY <1>1
      <3>4. Ids(Append(fs, f))[Len(fs) + 1] = Append(Ids(fs), f.id)[Len(fs) + 1]
        BY <2>1, <2>2, <2>3, <3>3
      <3>5. QED
        BY <3>1, <3>2, <3>4
    <2>5. QED
      BY <2>2, <2>3, <2>4, SeqEqual
  <1>4. ASSUME fs # <<>>
        PROVE  /\ Ids(fs) # <<>> /\ Ids(Tail(fs)) = Tail(Ids(fs))
               /\ Head(Ids(fs)) = Head(fs).id /\ Head(fs) \in FrameType /\ Tail(fs) \in Seq(FrameType)
    <2>1. /\ Tail(fs) \in Seq(FrameType) /\ Len(Tail(fs)) = Len(fs) - 1 /\ Head(fs) = fs[1] /\ 1 \in 1 .. Len(fs)
          /\ \A i \in 1 .. Len(fs) - 1 : i + 1 \in 1 .. Len(fs) /\ Tail(fs)[i] = fs[i + 1]
      BY <1>1, <1>4, HeadTailProperties
    <2>2. Ids(fs) # <<>>
      BY <1>2, <2>1
    <2>3. /\ Tail(Ids(fs)) \in Seq(Nat) /\ Len(Tail(Ids(fs))) = Len(fs) - 1 /\ Head(Ids(fs)) = Ids(fs)[1]
          /\ \A i \in 1 .. Len(fs) - 1 : Tail(Ids(fs))[i] = Ids(fs)[i + 1]
      BY <1>2, <2>2, HeadTailProperties
    <2>4. /\ Ids(Tail(fs)) \in Seq(Nat) /\ Len(Ids(Tail(fs))) = Len(fs) - 1
          /\ \A i \in 1 .. Len(fs) - 1 : Ids(Tail(fs))[i] = Tail(fs)[i].id
      <3>1. \A i \in 1 .. Len(fs) - 1 : Tail(fs)[i].id \in Nat
        BY <1>1, <2>1
      <3>2. QED
        BY <1>1, <2>1, <3>1 DEF Ids
    <2>5. \A i \in 1 .. Len(fs) - 1 : Ids(Tail(fs))[i] = Tail(Ids(fs))[i]
      BY <1>2, <2>1, <2>3, <2>4
    <2>6. Ids(Tail(fs)) = Tail(Ids(fs))
      BY <2>3, <2>4, <2>5, SeqEqual
    <2>7. QED
      BY <1>1, <1>2, <2>1, <2>2, <2>3, <2>6
  <1>5. QED
    BY <1>2, <1>3, <1>4

-----------------------------------------------------------------------------
(* What a step of the pipeline does to one port: it adds some lines to     *)
(* what was due, and batches them, or sends all there is.                  *)

Full(p, added) == pending[p] \o (IF HasSubscribers(p) THEN added ELSE <<>>)

Batches(p, added) ==
    /\ pending'[p] = Full(p, added) /\ subscribers'[p] = subscribers[p]
    /\ \A c \in PipeClients : port[c] = p => chan'[c] = chan[c]

Sends(p, added) ==
    /\ Full(p, added) # <<>> /\ pending'[p] = <<>>
    /\ subscribers'[p] = {c \in subscribers[p] : phase[c] # "gone"}
    /\ \A c \in PipeClients : port[c] = p =>
          chan'[c] = IF c \in subscribers[p] /\ phase[c] # "gone" THEN chan[c] \o Full(p, added) ELSE chan[c]

Delivers(p, added) == said'[p] = said[p] \o added /\ (Batches(p, added) \/ Sends(p, added))

\* A batch is still the last of what was due.
LEMMA HubStaysSound ==
    ASSUME Typed, NEW p \in Ports, NEW added \in Seq(Nat), HubSound(p), Delivers(p, added)
    PROVE  HubSound(p)'
  <1>1. said[p] \in Seq(Nat) /\ pending[p] \in Seq(Nat) /\ said'[p] = said[p] \o added /\ said'[p] \in Seq(Nat)
    BY ConcatProperties DEF Typed, HubsTyped, Delivers
  <1>2. PICK k \in 0 .. Len(said[p]) : pending[p] = Due(p, k)
    BY DEF HubSound
  <1>3. Len(said[p]) \in Nat /\ Len(said'[p]) \in Nat /\ Len(said[p]) <= Len(said'[p])
    BY <1>1, ConcatProperties, LenProperties
  <1>4. SubSeq(said'[p], Len(said'[p]) + 1, Len(said'[p])) = <<>> /\ Len(said'[p]) \in 0 .. Len(said'[p])
    BY <1>3, SubSeqEmpty
  <1>5. pending'[p] = <<>> => HubSound(p)'
    BY <1>4 DEF HubSound, Due
  <1>6. CASE Batches(p, added) /\ subscribers[p] # {}
    <2>1. pending'[p] = pending[p] \o added
      BY <1>6 DEF Batches, Full, HasSubscribers
    <2>2. pending'[p] = SubSeq(said'[p], k + 1, Len(said'[p]))
      BY <1>1, <1>2, <2>1, DueGrows DEF Due
    <2>3. k \in 0 .. Len(said'[p])
      BY <1>3
    <2>4. QED
      BY <1>6, <2>2, <2>3 DEF HubSound, Due, Batches
  <1>7. CASE Batches(p, added) /\ subscribers[p] = {}
    <2>1. pending[p] = <<>>
      BY <1>7 DEF HubSound
    <2>2. pending'[p] = <<>>
      BY <1>7, <2>1 DEF Batches, Full, HasSubscribers
    <2>3. QED
      BY <1>5, <2>2
  <1>8. CASE Sends(p, added)
    BY <1>5, <1>8 DEF Sends
  <1>9. QED
    BY <1>6, <1>7, <1>8 DEF Delivers

\* A client in the hub gets what was added, behind what is on its way.
LEMMA ClientStaysSound ==
    ASSUME Typed, NEW c \in PipeClients, NEW added \in Seq(Nat), ClientSound(c), Delivers(port[c], added),
           UNCHANGED clients
    PROVE  ClientSound(c)'
  <1> DEFINE p == port[c]
  <1>1. /\ p \in Ports /\ said[p] \in Seq(Nat) /\ pending[p] \in Seq(Nat) /\ chan[c] \in Seq(Nat)
        /\ got[c] \in Seq(Nat) /\ since[c] \in Nat
    BY DEF Typed, HubsTyped
  <1>2. port' = port /\ phase' = phase /\ got' = got /\ since' = since
    BY DEF clients
  <1>3. said'[p] = said[p] \o added /\ said'[p] \in Seq(Nat)
    BY <1>1, ConcatProperties DEF Delivers
  <1>4. ASSUME c \notin subscribers[p]
        PROVE  c \notin subscribers'[p] /\ chan'[c] = chan[c]
    BY <1>4 DEF Delivers, Batches, Sends
  <1>5. ASSUME phase[c] \in {"subscribed", "open"}
        PROVE  Listens(c)'
    <2>1. c \in subscribers[p] /\ since[c] <= Len(said[p]) /\ phase[c] # "gone"
      BY <1>5 DEF ClientSound, Listens
    <2>2. PICK k \in 0 .. since[c] : OnItsWay(c) = Due(p, k)
      BY <1>5 DEF ClientSound, Listens
    <2>3. Len(said[p]) \in Nat /\ Len(said'[p]) = Len(said[p]) + Len(added) /\ Len(added) \in Nat
      BY <1>1, <1>3, ConcatProperties, LenProperties
    <2>4. since'[c] <= Len(said'[p]) /\ k \in 0 .. Len(said[p])
      BY <1>1, <1>2, <2>1, <2>3
    <2>5. Due(p, k) \o added = SubSeq(said'[p], k + 1, Len(said'[p]))
      <3>1. SubSeq(said[p] \o added, k + 1, Len(said[p] \o added)) = SubSeq(said[p], k + 1, Len(said[p])) \o added
        BY <1>1, <2>4, DueGrows
      <3>2. QED
        BY <1>3, <3>1 DEF Due
    <2>6. Written(c) \in Seq(Nat)
      BY <1>1 DEF Written
    <2>7. Full(p, added) = pending[p] \o added
      BY <2>1 DEF Full, HasSubscribers
    <2>8. /\ c \in subscribers'[p]
          /\ \/ chan'[c] = chan[c] /\ pending'[p] = pending[p] \o added
             \/ chan'[c] = chan[c] \o (pending[p] \o added) /\ pending'[p] = <<>>
      BY <2>1, <2>7 DEF Delivers, Batches, Sends
    <2>9. (Written(c) \o chan'[c]) \o pending'[p] = OnItsWay(c) \o added
      <3>1. Regroups(Written(c), chan[c], pending[p], added)
        BY <1>1, <2>6, Regrouping
      <3>2. QED
        BY <2>8, <3>1 DEF OnItsWay, Regroups
    <2>10. OnItsWay(c)' = SubSeq(said'[p], k + 1, Len(said'[p]))
      BY <1>2, <2>2, <2>5, <2>9 DEF OnItsWay, Written
    <2>11. QED
      BY <1>2, <2>2, <2>4, <2>8, <2>10 DEF Listens, Due
  <1>6. QED
    BY <1>2, <1>4, <1>5 DEF ClientSound

-----------------------------------------------------------------------------
(* What the pipeline does is a delivery on each port.                      *)

LEMMA StreamsAreKept ==
    ASSUME Typed, StreamsSound, UNCHANGED clients,
           NEW added \in [Ports -> Seq(Nat)], \A p \in Ports : Delivers(p, added[p])
    PROVE  StreamsSound'
  <1>1. \A c \in PipeClients : port[c] \in Ports
    BY DEF Typed
  <1>2. ASSUME NEW p \in Ports
        PROVE  HubSound(p)'
    BY HubStaysSound DEF StreamsSound
  <1>3. ASSUME NEW c \in PipeClients
        PROVE  ClientSound(c)'
    BY <1>1, ClientStaysSound DEF StreamsSound
  <1>4. QED
    BY <1>2, <1>3 DEF StreamsSound

-----------------------------------------------------------------------------
(* What the pipeline does is a delivery on each port.                      *)

LEMMA BroadcastDelivers ==
    ASSUME Typed, NEW p \in Ports, NEW added \in Seq(Nat), NEW b, Broadcast(b), said'[p] = said[p] \o added,
           \/ b[p] = <<>> /\ pending'[p] = Full(p, added)
           \/ b[p] = Full(p, added) /\ b[p] # <<>> /\ pending'[p] = <<>>
    PROVE  Delivers(p, added)
  <1>1. subscribers'[p] = {c \in subscribers[p] : b[p] = <<>> \/ phase[c] # "gone"}
    BY DEF Broadcast
  <1>2. \A c \in PipeClients : port[c] = p =>
          chan'[c] = IF c \in subscribers[p] /\ phase[c] # "gone" /\ b[p] # <<>> THEN chan[c] \o b[p] ELSE chan[c]
    BY DEF Broadcast
  <1>3. CASE b[p] = <<>> /\ pending'[p] = Full(p, added)
    <2>1. subscribers'[p] = subscribers[p]
      BY <1>1, <1>3
    <2>2. QED
      BY <1>2, <1>3, <2>1 DEF Delivers, Batches
  <1>4. CASE b[p] = Full(p, added) /\ b[p] # <<>> /\ pending'[p] = <<>>
    <2>1. subscribers'[p] = {c \in subscribers[p] : phase[c] # "gone"}
      BY <1>1, <1>4
    <2>2. QED
      BY <1>2, <1>4, <2>1 DEF Delivers, Sends
  <1>5. QED
    BY <1>3, <1>4

LEMMA BroadcastIsTyped ==
    ASSUME Typed, NEW b \in [Ports -> Seq(Nat)], Broadcast(b)
    PROVE  subscribers' \in [Ports -> SUBSET PipeClients] /\ chan' \in [PipeClients -> Seq(Nat)]
  <1>1. ASSUME NEW c \in PipeClients
        PROVE  chan[c] \in Seq(Nat) /\ chan[c] \o b[port[c]] \in Seq(Nat)
    <2>1. chan[c] \in Seq(Nat) /\ b[port[c]] \in Seq(Nat)
      BY DEF Typed, HubsTyped
    <2>2. QED
      BY <2>1, ConcatProperties
  <1>2. chan' \in [PipeClients -> Seq(Nat)]
    BY <1>1 DEF Broadcast
  <1>3. subscribers' \in [Ports -> SUBSET PipeClients]
    BY DEF Broadcast, Typed, HubsTyped
  <1>4. QED
    BY <1>2, <1>3

\* A flush of some ports adds nothing.
LEMMA FlushKeeps ==
    ASSUME Typed, StreamsSound, UNCHANGED clients, NEW out \in SUBSET Ports,
           Broadcast([p \in Ports |-> IF p \in out THEN pending[p] ELSE <<>>]),
           pending' = [p \in Ports |-> IF p \in out THEN <<>> ELSE pending[p]], UNCHANGED said
    PROVE  HubsTyped' /\ StreamsSound'
  <1> DEFINE b == [p \in Ports |-> IF p \in out THEN pending[p] ELSE <<>>]
             added == [p \in Ports |-> <<>>]
  <1>1. /\ <<>> \in Seq(Nat) /\ added \in [Ports -> Seq(Nat)]
        /\ \A p \in Ports : pending[p] \in Seq(Nat) /\ said[p] \in Seq(Nat)
    BY DEF Typed, HubsTyped
  <1>2. b \in [Ports -> Seq(Nat)] /\ pending' \in [Ports -> Seq(Nat)]
    BY <1>1
  <1>3. ASSUME NEW p \in Ports
        PROVE  Delivers(p, <<>>)
    <2>1. Full(p, <<>>) = pending[p] /\ said[p] \o <<>> = said[p]
      BY <1>1, ConcatEmptySeq DEF Full
    <2>2. \/ b[p] = <<>> /\ pending'[p] = Full(p, <<>>)
          \/ b[p] = Full(p, <<>>) /\ b[p] # <<>> /\ pending'[p] = <<>>
      BY <2>1
    <2>3. QED
      BY <1>1, <2>1, <2>2, BroadcastDelivers
  <1>4. StreamsSound'
    BY <1>1, <1>3, StreamsAreKept
  <1>5. QED
    BY <1>2, <1>4, BroadcastIsTyped DEF HubsTyped, Typed

\* push, then flush_due: one line more on each of the ports.
LEMMA OutKeeps ==
    ASSUME Typed, StreamsSound, UNCHANGED clients, NEW ps \in SUBSET Ports, NEW line \in Nat, NEW due,
           Out(ps, line, due)
    PROVE  HubsTyped' /\ StreamsSound' /\ \A p \in ps : said'[p] = Append(said[p], line)
  <1> DEFINE to == {p \in ps : HasSubscribers(p)}
             full == [p \in Ports |-> IF p \in to THEN Pushed(p, line) ELSE pending[p]]
             age == [p \in Ports |-> IF p \in to /\ pending[p] = <<>> THEN 0 ELSE oldest[p]]
             goes(p) == full[p] # <<>> /\ ((p \in to /\ Len(full[p]) >= BatchLines) \/ (due /\ age[p] >= BatchAge))
             b == [p \in Ports |-> IF goes(p) THEN full[p] ELSE <<>>]
             added == [p \in Ports |-> IF p \in ps THEN <<line>> ELSE <<>>]
  <1>1. /\ Broadcast(b) /\ pending' = [p \in Ports |-> IF goes(p) THEN <<>> ELSE full[p]]
        /\ said' = [p \in Ports |-> IF p \in ps THEN Append(said[p], line) ELSE said[p]]
    BY DEF Out
  <1>2. /\ <<>> \in Seq(Nat) /\ <<line>> \in Seq(Nat) /\ added \in [Ports -> Seq(Nat)]
        /\ \A p \in Ports : pending[p] \in Seq(Nat) /\ said[p] \in Seq(Nat)
    BY DEF Typed, HubsTyped
  <1>3. ASSUME NEW p \in Ports
        PROVE  /\ full[p] = Full(p, added[p]) /\ full[p] \in Seq(Nat)
               /\ said'[p] = said[p] \o added[p] /\ said'[p] \in Seq(Nat)
    <2>1. /\ Append(pending[p], line) = pending[p] \o <<line>> /\ Append(pending[p], line) \in Seq(Nat)
          /\ Append(said[p], line) = said[p] \o <<line>> /\ Append(said[p], line) \in Seq(Nat)
      <3>1. pending[p] \in Seq(Nat) /\ said[p] \in Seq(Nat)
        BY <1>2
      <3>2. /\ Append(pending[p], line) = pending[p] \o <<line>>
            /\ Append(said[p], line) = said[p] \o <<line>>
        BY <3>1, AppendIsConcat
      <3>3. Append(pending[p], line) \in Seq(Nat) /\ Append(said[p], line) \in Seq(Nat)
        BY <3>1, AppendProperties
      <3>4. QED
        BY <3>2, <3>3, Zenon
    <2>2. pending[p] \o <<>> = pending[p] /\ said[p] \o <<>> = said[p]
      BY <1>2, ConcatEmptySeq
    <2>3. said'[p] = IF p \in ps THEN Append(said[p], line) ELSE said[p]
      BY <1>1
    <2>4. full[p] = Full(p, added[p]) /\ full[p] \in Seq(Nat)
      <3>1. CASE p \in ps
        BY <1>2, <2>1, <2>2, <3>1 DEF Full, Pushed
      <3>2. CASE p \notin ps
        BY <1>2, <2>2, <3>2 DEF Full
      <3>3. QED
        BY <3>1, <3>2
    <2>5. QED
      BY <1>2, <2>1, <2>2, <2>3, <2>4
  <1> HIDE DEF to, full, age
  <1>4. b \in [Ports -> Seq(Nat)] /\ pending' \in [Ports -> Seq(Nat)]
    BY <1>1, <1>2, <1>3
  <1>5. said' \in [Ports -> Seq(Nat)]
    BY <1>1, <1>3
  <1>6. ASSUME NEW p \in Ports
        PROVE  Delivers(p, added[p])
    <2>1. \/ b[p] = <<>> /\ pending'[p] = full[p]
          \/ b[p] = full[p] /\ b[p] # <<>> /\ pending'[p] = <<>>
      BY <1>1
    <2>2. added[p] \in Seq(Nat)
      BY <1>2
    <2> HIDE DEF b, added
    <2>3. QED
      BY <1>1, <1>3, <2>1, <2>2, BroadcastDelivers
  <1>7. \A p \in ps : said'[p] = Append(said[p], line)
    BY <1>1
  <1> HIDE DEF b, added
  <1>8. StreamsSound'
    BY <1>2, <1>6, StreamsAreKept
  <1>9. QED
    BY <1>1, <1>4, <1>5, <1>7, <1>8, BroadcastIsTyped DEF HubsTyped

-----------------------------------------------------------------------------
(* The steps of the loop.                                                  *)

LEMMA StreamsRest ==
    StreamsSound /\ UNCHANGED <<hubs, chan, clients>> => StreamsSound'
  BY DEF StreamsSound, HubSound, ClientSound, Listens, OnItsWay, Written, Due, hubs, clients

LEMMA HandleKeeps ==
    ASSUME RawIsPort, Typed, StreamsSound, UNCHANGED clients, NEW f \in FrameType, Handle(f)
    PROVE  /\ HubsTyped' /\ StreamsSound'
           /\ pre_coalesced' \in BOOLEAN /\ (pre_coalesced => pre_coalesced' /\ ~Incomplete(f))
           /\ Incomplete(f) => UNCHANGED said
           /\ ~Incomplete(f) => said'[RawPort] = Append(said[RawPort], f.id)
  <1>1. pre_coalesced' \in BOOLEAN /\ (pre_coalesced => pre_coalesced' /\ ~Incomplete(f))
    BY DEF Handle, Locks, Incomplete, Typed
  <1>2. CASE Incomplete(f)
    <2>1. UNCHANGED <<hubs, chan>>
      BY <1>2 DEF Handle
    <2>2. StreamsSound'
      BY <2>1, StreamsRest
    <2>3. QED
      BY <1>1, <1>2, <2>1, <2>2 DEF hubs, Typed, HubsTyped
  <1>3. CASE ~Incomplete(f)
    <2>1. f.id \in Nat /\ {RawPort} \in SUBSET Ports /\ Ports \in SUBSET Ports /\ RawPort \in Ports
      BY DEF FrameType, RawIsPort
    <2>2. Out({RawPort}, f.id, FALSE) \/ Out(Ports, f.id, TRUE)
      BY <1>3 DEF Handle
    <2>3. HubsTyped' /\ StreamsSound' /\ said'[RawPort] = Append(said[RawPort], f.id)
      BY <2>1, <2>2, OutKeeps
    <2>4. QED
      BY <1>1, <1>3, <2>3
  <1>4. QED
    BY <1>2, <1>3

\* What the pipeline knows as sequences of numbers.
LEMMA TracedParts ==
    ASSUME RawIsPort, Typed
    PROVE  /\ said[RawPort] \in Seq(Nat) /\ Ids(pending_synth) \in Seq(Nat) /\ Ids(frames) \in Seq(Nat)
           /\ on_bus \in Seq(Nat) /\ count \in Nat
  BY IdsOf DEF Typed, HubsTyped, RawIsPort

LEMMA NoIds == Ids(<<>>) = <<>>
  BY DEF Ids

LEMMA HandleSynthKeeps ==
    ASSUME RawIsPort, IInv, HandleSynth
    PROVE  IInv'
  <1> DEFINE f == Head(pending_synth)
  <1>1. pending_synth \in Seq(FrameType) /\ pending_synth # <<>>
    BY DEF IInv, Typed, HandleSynth
  <1>2. /\ Ids(pending_synth) # <<>> /\ Ids(Tail(pending_synth)) = Tail(Ids(pending_synth))
        /\ Head(Ids(pending_synth)) = f.id /\ f \in FrameType /\ Tail(pending_synth) \in Seq(FrameType)
    BY <1>1, IdsOf
  <1>3. f.kind = "synth" /\ \A i \in 1 .. Len(Tail(pending_synth)) : Tail(pending_synth)[i].kind = "synth"
    <2>1. /\ Len(pending_synth) \in Nat /\ 1 \in 1 .. Len(pending_synth) /\ f = pending_synth[1]
          /\ \A i \in 1 .. Len(Tail(pending_synth)) :
                i + 1 \in 1 .. Len(pending_synth) /\ Tail(pending_synth)[i] = pending_synth[i + 1]
      BY <1>1
    <2>2. QED
      BY <2>1 DEF IInv, EchoSound
  <1>4. pending_synth' = Tail(pending_synth)
    <2>1. Synthesised(f) = <<>>
      BY <1>3 DEF Synthesised
    <2>2. QED
      BY <1>2, <2>1, ConcatEmptySeq DEF HandleSynth
  <1>5. /\ UNCHANGED clients /\ Handle(f)
        /\ UNCHANGED <<frames, with_device, port, phase, got, since, on_bus, count>>
    BY DEF HandleSynth, clients
  <1>6. ~Incomplete(f)
    BY <1>3 DEF Incomplete
  <1> HIDE DEF f
  <1>7. /\ HubsTyped' /\ StreamsSound' /\ pre_coalesced' \in BOOLEAN /\ (pre_coalesced => pre_coalesced')
        /\ said'[RawPort] = Append(said[RawPort], f.id)
    BY <1>2, <1>5, <1>6, HandleKeeps DEF IInv
  <1>8. Typed'
    BY <1>2, <1>4, <1>5, <1>7 DEF IInv, Typed
  <1>9. Traced(said'[RawPort], Ids(pending_synth'), Ids(frames), on_bus, count)
    BY <1>2, <1>4, <1>7, TracedParts, SynthIsWritten DEF IInv, EchoSound
  <1>10. EchoSound'
    <2>1. Traced(said[RawPort], Ids(pending_synth), Ids(frames), on_bus, count)'
      BY <1>5, <1>9
    <2>2. QED
      BY <1>3, <1>4, <1>5, <1>7, <2>1 DEF IInv, EchoSound
  <1>11. QED
    BY <1>7, <1>8, <1>10 DEF IInv

LEMMA HandleFrameKeeps ==
    ASSUME RawIsPort, IInv, HandleFrame
    PROVE  IInv'
  <1>1. PICK f, synth :
          /\ f = Head(frames) /\ synth = IF Incomplete(f) THEN <<>> ELSE Synthesised(f)
          /\ Handle(f) /\ pending_synth' = synth
          /\ on_bus' = on_bus \o [i \in 1 .. Len(synth) |-> synth[i].id] /\ count' = count + Len(synth)
          /\ frames' = Tail(frames) /\ pending_synth = <<>> /\ frames # <<>>
    BY DEF HandleFrame
  <1>2. frames \in Seq(FrameType) /\ frames # <<>>
    BY <1>1 DEF IInv, Typed
  <1>3. /\ Ids(frames) # <<>> /\ Ids(Tail(frames)) = Tail(Ids(frames))
        /\ Head(Ids(frames)) = f.id /\ f \in FrameType /\ Tail(frames) \in Seq(FrameType)
    BY <1>1, <1>2, IdsOf
  <1>4. UNCHANGED clients /\ UNCHANGED <<with_device, port, phase, got, since>>
    BY DEF HandleFrame, clients
  <1>5. /\ HubsTyped' /\ StreamsSound' /\ pre_coalesced' \in BOOLEAN
        /\ (pre_coalesced => pre_coalesced' /\ ~Incomplete(f))
        /\ Incomplete(f) => UNCHANGED said
        /\ ~Incomplete(f) => said'[RawPort] = Append(said[RawPort], f.id)
    BY <1>1, <1>3, <1>4, HandleKeeps DEF IInv
  <1>6. \/ synth = <<>> /\ Ids(synth) = <<>>
        \/ with_device /\ ~Incomplete(f) /\ synth = <<Frame(count + 1, "synth")>> /\ Ids(synth) = <<count + 1>>
    <2>1. synth = <<>> \/ (with_device /\ ~Incomplete(f) /\ synth = <<Frame(count + 1, "synth")>>)
      BY <1>1 DEF Synthesised
    <2>2. Ids(<<>>) = <<>> /\ Ids(<<Frame(count + 1, "synth")>>) = <<count + 1>>
      <3>1. Frame(count + 1, "synth").id = count + 1
        BY DEF Frame
      <3>2. QED
        BY <3>1 DEF Ids
    <2>3. QED
      BY <2>1, <2>2
  <1>7. on_bus' = on_bus \o Ids(synth) /\ Ids(pending_synth) = <<>> /\ Ids(pending_synth') = Ids(synth)
    BY <1>1, NoIds DEF Ids
  <1>8. /\ said[RawPort] \in Seq(Nat) /\ Ids(frames) \in Seq(Nat) /\ on_bus \in Seq(Nat) /\ count \in Nat
        /\ <<>> \in Seq(Nat)
    BY TracedParts DEF IInv
  <1>9. Traced(said[RawPort], <<>>, Ids(frames), on_bus, count) /\ (with_device => pre_coalesced)
        /\ (on_bus # <<>> => with_device)
    BY <1>7 DEF IInv, EchoSound
  <1>10. /\ synth \in Seq(FrameType) /\ on_bus' \in Seq(Nat) /\ count' \in Nat
         /\ (on_bus' # <<>> => with_device) /\ \A i \in 1 .. Len(synth) : synth[i].kind = "synth"
    <2>1. CASE synth = <<>>
      <3>1. on_bus' = on_bus /\ count' = count
        BY <1>1, <1>6, <1>7, <1>8, <2>1, NoIds, ConcatEmptySeq
      <3>2. QED
        BY <1>8, <1>9, <2>1, <3>1
    <2>2. CASE with_device /\ synth = <<Frame(count + 1, "synth")>> /\ Ids(synth) = <<count + 1>>
      <3>1. Frame(count + 1, "synth") \in FrameType /\ Frame(count + 1, "synth").kind = "synth" /\ count + 1 \in Nat
        BY <1>8 DEF Frame, FrameType
      <3>2. on_bus \o <<count + 1>> \in Seq(Nat)
        BY <1>8
      <3>3. PICK first \in FrameType : first.kind = "synth" /\ synth = <<first>>
        BY <2>2, <3>1
      <3>4. synth \in Seq(FrameType) /\ Len(synth) = 1 /\ \A i \in 1 .. Len(synth) : synth[i].kind = "synth"
        BY <3>3
      <3>5. count' \in Nat
        BY <1>1, <3>1, <3>4
      <3>6. on_bus' \in Seq(Nat)
        BY <1>7, <2>2, <3>2
      <3>7. QED
        BY <2>2, <3>4, <3>5, <3>6
    <2>3. QED
      BY <1>6, <2>1, <2>2
  <1>11. Typed'
    BY <1>1, <1>3, <1>4, <1>5, <1>10 DEF IInv, Typed
  <1>12. Traced(said'[RawPort], Ids(synth), Ids(frames'), on_bus', count')
    <2>1. CASE Incomplete(f)
      <3>1. on_bus = <<>> /\ synth = <<>>
        BY <1>1, <1>5, <1>9, <2>1
      <3>2. on_bus' = <<>> /\ count' = count /\ said' = said /\ Ids(synth) = <<>>
        BY <1>1, <1>5, <1>7, <1>8, <2>1, <3>1, NoIds, ConcatEmptySeq
      <3>3. Traced(said[RawPort], <<>>, Tail(Ids(frames)), <<>>, count)
        BY <1>3, <1>8, <1>9, <3>1, FrameIsKept
      <3>4. QED
        BY <1>1, <1>3, <3>2, <3>3
    <2>2. CASE ~Incomplete(f)
      <3>1. Traced(said'[RawPort], <<>>, Ids(frames'), on_bus, count)
        BY <1>1, <1>3, <1>5, <1>8, <1>9, <2>2, FrameIsWritten
      <3>2. CASE synth = <<>>
        <4>1. on_bus' = on_bus /\ count' = count /\ Ids(synth) = <<>>
          BY <1>1, <1>7, <1>8, <3>2, NoIds, ConcatEmptySeq
        <4>2. QED
          BY <3>1, <4>1
      <3>3. CASE synth = <<Frame(count + 1, "synth")>> /\ Ids(synth) = <<count + 1>>
        <4>1. on_bus' = Append(on_bus, count + 1) /\ count' = count + 1
          <5>1. Len(synth) = 1 /\ count + 1 \in Nat
            BY <1>8, <3>3
          <5>2. QED
            BY <1>1, <1>7, <1>8, <3>3, <5>1, AppendIsConcat
        <4>2. said'[RawPort] \in Seq(Nat) /\ Ids(frames') \in Seq(Nat)
          BY <1>1, <1>3, <1>5, IdsOf DEF HubsTyped, RawIsPort
        <4>3. QED
          BY <1>8, <3>1, <3>3, <4>1, <4>2, SynthComes
      <3>4. QED
        BY <1>6, <3>2, <3>3
    <2>3. QED
      BY <2>1, <2>2
  <1>13. EchoSound'
    <2>1. Traced(said[RawPort], Ids(pending_synth), Ids(frames), on_bus, count)'
      BY <1>1, <1>12
    <2>2. QED
      BY <1>1, <1>4, <1>5, <1>9, <1>10, <2>1 DEF EchoSound
  <1>14. QED
    BY <1>5, <1>11, <1>13 DEF IInv

\* A quiet bus, and the end: what is batched goes out.
LEMMA FlushesKeep ==
    ASSUME RawIsPort, IInv, Timeout \/ Return
    PROVE  IInv'
  <1>1. UNCHANGED <<frames, with_device, pre_coalesced, pending_synth, said, port, phase, got, since, on_bus, count>>
        /\ UNCHANGED clients
    BY DEF Timeout, Return, FlushDue, clients
  <1>2. PICK out \in SUBSET Ports :
          /\ Broadcast([p \in Ports |-> IF p \in out THEN pending[p] ELSE <<>>])
          /\ pending' = [p \in Ports |-> IF p \in out THEN <<>> ELSE pending[p]]
    <2>1. CASE Timeout
      <3> DEFINE due == {p \in Ports : pending[p] # <<>> /\ oldest[p] >= BatchAge}
      <3>1. /\ Broadcast([p \in Ports |-> IF pending[p] # <<>> /\ oldest[p] >= BatchAge THEN pending[p] ELSE <<>>])
            /\ pending' = [p \in Ports |-> IF pending[p] # <<>> /\ oldest[p] >= BatchAge THEN <<>> ELSE pending[p]]
        BY <2>1 DEF Timeout, FlushDue
      <3>2. /\ [p \in Ports |-> IF pending[p] # <<>> /\ oldest[p] >= BatchAge THEN pending[p] ELSE <<>>]
               = [p \in Ports |-> IF p \in due THEN pending[p] ELSE <<>>]
            /\ [p \in Ports |-> IF pending[p] # <<>> /\ oldest[p] >= BatchAge THEN <<>> ELSE pending[p]]
               = [p \in Ports |-> IF p \in due THEN <<>> ELSE pending[p]]
        OBVIOUS
      <3>3. QED
        BY <3>1, <3>2
    <2>2. CASE Return
      <3>1. Broadcast(pending) /\ pending' = [p \in Ports |-> <<>>]
        BY <2>2 DEF Return
      <3>2. /\ pending = [p \in Ports |-> IF p \in Ports THEN pending[p] ELSE <<>>]
            /\ [p \in Ports |-> <<>>] = [p \in Ports |-> IF p \in Ports THEN <<>> ELSE pending[p]]
        BY DEF IInv, Typed, HubsTyped
      <3>3. QED
        BY <3>1, <3>2
    <2>3. QED
      BY <2>1, <2>2
  <1>3. HubsTyped' /\ StreamsSound'
    BY <1>1, <1>2, FlushKeeps DEF IInv
  <1>4. QED
    BY <1>1, <1>3 DEF IInv, Typed, EchoSound

-----------------------------------------------------------------------------
(* Where frames come from.                                                 *)

LEMMA ArrivalsKeep ==
    ASSUME RawIsPort, IInv, ForwardPlainLine \/ \E k \in Kinds : Receive(k)
    PROVE  IInv'
  <1>1. PICK k \in Kinds : frames' = Append(frames, Frame(count + 1, k))
    <2>1. "whole" \in Kinds
      BY DEF Kinds
    <2>2. QED
      BY <2>1 DEF ForwardPlainLine, Receive
  <1>2. /\ count' = count + 1 /\ UNCHANGED <<with_device, pre_coalesced, pending_synth, hubs, chan, clients>>
        /\ on_bus' = on_bus \/ (with_device /\ on_bus' = Append(on_bus, count + 1))
    BY DEF ForwardPlainLine, Receive
  <1>3. /\ frames \in Seq(FrameType) /\ on_bus \in Seq(Nat) /\ count \in Nat
        /\ Frame(count + 1, k) \in FrameType /\ Frame(count + 1, k).id = count + 1
    BY DEF IInv, Typed, Frame, FrameType
  <1>4. Ids(frames') = Append(Ids(frames), count + 1)
    BY <1>1, <1>3, IdsOf
  <1>5. frames' \in Seq(FrameType) /\ on_bus' \in Seq(Nat) /\ count' \in Nat
    <2>1. frames' \in Seq(FrameType)
      BY <1>1, <1>3, AppendProperties
    <2>2. on_bus' \in Seq(Nat)
      <3>1. count + 1 \in Nat /\ Append(on_bus, count + 1) \in Seq(Nat)
        BY <1>3
      <3>2. QED
        BY <1>2, <1>3, <3>1
    <2>3. QED
      BY <1>2, <1>3, <2>1, <2>2
  <1>6. Typed' /\ StreamsSound'
    BY <1>2, <1>5, StreamsRest DEF IInv, Typed, HubsTyped, hubs, clients
  <1>7. Traced(said[RawPort], Ids(pending_synth), Ids(frames'), on_bus', count + 1)
    <2>1. Traced(said[RawPort], Ids(pending_synth), Ids(frames), on_bus, count)
      BY DEF IInv, EchoSound
    <2>2. QED
      BY <1>2, <1>4, <2>1, TracedParts, FrameComes DEF IInv
  <1>8. EchoSound'
    <2>1. Traced(said[RawPort], Ids(pending_synth), Ids(frames), on_bus, count)'
      BY <1>2, <1>7 DEF hubs
    <2>2. QED
      BY <1>2, <2>1 DEF IInv, EchoSound
  <1>9. QED
    BY <1>6, <1>8 DEF IInv

-----------------------------------------------------------------------------
(* The clients.                                                            *)

LEMMA SubscribeKeeps ==
    ASSUME NEW c \in PipeClients, IInv, Subscribe(c)
    PROVE  Typed' /\ StreamsSound'
  <1> DEFINE p == port[c]
  <1>1. /\ InHub(c) /\ subscribers' = [subscribers EXCEPT ![p] = @ \union {c}]
        /\ since' = [since EXCEPT ![c] = Len(said[p])]
        /\ phase' = [phase EXCEPT ![c] = IF p \in StreamPorts THEN "subscribed" ELSE "open"]
        /\ UNCHANGED <<frames, with_device, pre_coalesced, pending_synth, pending, said, chan, port, got, on_bus, count>>
    BY DEF Subscribe
  <1>2. /\ subscribers \in [Ports -> SUBSET PipeClients] /\ since \in [PipeClients -> Nat]
        /\ phase \in [PipeClients -> Phases] /\ port \in [PipeClients -> Ports] /\ p \in Ports
        /\ said[p] \in Seq(Nat) /\ pending[p] \in Seq(Nat) /\ Len(said[p]) \in Nat
    BY DEF IInv, Typed, HubsTyped
  <1>3. /\ subscribers' \in [Ports -> SUBSET PipeClients]
        /\ since' \in [PipeClients -> Nat] /\ phase' \in [PipeClients -> Phases]
    BY <1>1, <1>2 DEF Phases
  <1>4. Typed'
    BY <1>1, <1>3 DEF IInv, Typed, HubsTyped
  <1>5. ASSUME NEW q \in Ports
        PROVE  HubSound(q)'
    <2>1. HubSound(q)
      BY DEF IInv, StreamsSound
    <2>2. subscribers'[q] = {} => subscribers[q] = {}
      BY <1>1, <1>2
    <2>3. QED
      BY <1>1, <2>1, <2>2 DEF HubSound, Due
  <1>6. ASSUME NEW d \in PipeClients, d # c
        PROVE  ClientSound(d)'
    <2>1. ClientSound(d) /\ port[d] \in Ports
      BY <1>2 DEF IInv, StreamsSound
    <2>2. d \in subscribers'[port[d]] <=> d \in subscribers[port[d]]
      BY <1>1, <1>2, <1>6, <2>1
    <2>3. phase'[d] = phase[d] /\ since'[d] = since[d]
      BY <1>1, <1>2, <1>6
    <2>4. QED
      BY <1>1, <2>1, <2>2, <2>3 DEF ClientSound, Listens, OnItsWay, Written, Due
  <1>7. ClientSound(c)'
    <2>1. phase[c] = IF p \in StreamPorts THEN "new" ELSE "greeted"
      BY <1>1 DEF InHub
    <2>2. chan[c] = <<>> /\ got[c] = (IF p \in StreamPorts THEN <<>> ELSE <<HEADER>>)
      BY <2>1 DEF IInv, StreamsSound, ClientSound
    <2>3. Written(c) = <<>> /\ (p \notin StreamPorts => got[c] # <<>> /\ Head(got[c]) = HEADER)
      BY <2>2 DEF Written
    <2>4. OnItsWay(c)' = pending[p]
      <3>1. <<>> \o <<>> = <<>> /\ <<>> \o pending[p] = pending[p]
        BY <1>2, ConcatEmptySeq
      <3>2. QED
        BY <1>1, <2>2, <2>3, <3>1 DEF OnItsWay, Written
    <2>5. PICK k \in 0 .. Len(said[p]) : pending[p] = Due(p, k)
      BY <1>2 DEF IInv, StreamsSound, HubSound
    <2>6. /\ c \in subscribers'[p] /\ since'[c] = Len(said[p])
          /\ phase'[c] = IF p \in StreamPorts THEN "subscribed" ELSE "open"
      BY <1>1, <1>2
    <2>7. Listens(c)'
      BY <1>1, <1>2, <2>4, <2>5, <2>6 DEF Listens, Due
    <2>8. QED
      BY <1>1, <2>2, <2>3, <2>6, <2>7 DEF ClientSound
  <1>8. QED
    BY <1>4, <1>5, <1>6, <1>7 DEF StreamsSound

LEMMA GreetKeeps ==
    ASSUME NEW c \in PipeClients, IInv, Greet(c)
    PROVE  Typed' /\ StreamsSound'
  <1>1. /\ phase[c] = (IF port[c] \in StreamPorts THEN "subscribed" ELSE "new")
        /\ got' = [got EXCEPT ![c] = <<HEADER>>]
        /\ phase' = [phase EXCEPT ![c] = IF port[c] \in StreamPorts THEN "open" ELSE "greeted"]
        /\ UNCHANGED <<frames, with_device, pre_coalesced, pending_synth, hubs, chan, port, since, on_bus, count>>
    BY DEF Greet
  <1>2. /\ got \in [PipeClients -> Seq(Nat)] /\ phase \in [PipeClients -> Phases] /\ <<HEADER>> \in Seq(Nat)
        /\ port \in [PipeClients -> Ports]
    BY DEF IInv, Typed, HEADER
  <1>3. got' \in [PipeClients -> Seq(Nat)] /\ phase' \in [PipeClients -> Phases]
    BY <1>1, <1>2 DEF Phases
  <1>4. Typed'
    BY <1>1, <1>3 DEF IInv, Typed, HubsTyped, hubs
  <1>5. ASSUME NEW q \in Ports
        PROVE  HubSound(q)'
    BY <1>1 DEF IInv, StreamsSound, HubSound, Due, hubs
  <1>6. ASSUME NEW d \in PipeClients, d # c
        PROVE  ClientSound(d)'
    <2>1. ClientSound(d)
      BY DEF IInv, StreamsSound
    <2>2. phase'[d] = phase[d] /\ got'[d] = got[d]
      BY <1>1, <1>2, <1>6
    <2>3. QED
      BY <1>1, <2>1, <2>2 DEF ClientSound, Listens, OnItsWay, Written, Due, hubs
  <1>7. ClientSound(c)'
    <2>1. ClientSound(c) /\ got[c] = <<>>
      BY <1>1 DEF IInv, StreamsSound, ClientSound
    <2>2. /\ got'[c] = <<HEADER>> /\ got'[c] # <<>> /\ Head(got'[c]) = HEADER /\ Tail(got'[c]) = <<>>
          /\ phase'[c] = IF port[c] \in StreamPorts THEN "open" ELSE "greeted"
      BY <1>1, <1>2
    <2>3. OnItsWay(c)' = OnItsWay(c)
      BY <1>1, <2>1, <2>2 DEF OnItsWay, Written, hubs
    <2>4. port[c] \in StreamPorts => Listens(c)'
      <3>1. port[c] \in StreamPorts => Listens(c)
        BY <1>1, <2>1 DEF ClientSound
      <3>2. QED
        BY <1>1, <2>3, <3>1 DEF Listens, Due, hubs
    <2>5. port[c] \notin StreamPorts => c \notin subscribers[port[c]] /\ chan[c] = <<>>
      BY <1>1, <2>1 DEF ClientSound
    <2>6. QED
      BY <1>1, <2>2, <2>4, <2>5 DEF ClientSound, hubs
  <1>8. QED
    BY <1>4, <1>5, <1>6, <1>7 DEF StreamsSound

LEMMA WriteKeeps ==
    ASSUME NEW c \in PipeClients, IInv, Write(c)
    PROVE  Typed' /\ StreamsSound'
  <1>1. /\ phase[c] = "open" /\ chan[c] # <<>>
        /\ UNCHANGED <<frames, with_device, pre_coalesced, pending_synth, hubs, port, phase, since, on_bus, count>>
    BY DEF Write
  <1>2. /\ got \in [PipeClients -> Seq(Nat)] /\ chan \in [PipeClients -> Seq(Nat)] /\ Len(chan[c]) \in Nat
        /\ port[c] \in Ports /\ pending[port[c]] \in Seq(Nat)
    BY DEF IInv, Typed, HubsTyped
  <1>3. PICK n \in 0 .. Len(chan[c]) :
          /\ got' = [got EXCEPT ![c] = @ \o SubSeq(chan[c], 1, n)]
          /\ chan' = [chan EXCEPT ![c] = SubSeq(chan[c], n + 1, Len(chan[c]))]
    <2>1. \A n \in Taken(c) : n \in 0 .. Len(chan[c])
      BY <1>2 DEF Taken
    <2>2. QED
      BY <2>1 DEF Write
  <1>4. /\ SubSeq(chan[c], 1, n) \in Seq(Nat) /\ SubSeq(chan[c], n + 1, Len(chan[c])) \in Seq(Nat)
        /\ SubSeq(chan[c], 1, n) \o SubSeq(chan[c], n + 1, Len(chan[c])) = chan[c]
    BY <1>2, Split
  <1>5. PICK first, rest \in Seq(Nat) :
          /\ first \o rest = chan[c]
          /\ got' = [got EXCEPT ![c] = @ \o first] /\ chan' = [chan EXCEPT ![c] = rest]
    BY <1>3, <1>4
  <1>6. got[c] \o first \in Seq(Nat) /\ got[c] \in Seq(Nat)
    BY <1>2, ConcatProperties
  <1>7. got' \in [PipeClients -> Seq(Nat)] /\ chan' \in [PipeClients -> Seq(Nat)]
    BY <1>2, <1>5, <1>6
  <1>8. Typed'
    BY <1>1, <1>7 DEF IInv, Typed, HubsTyped, hubs
  <1>9. ASSUME NEW q \in Ports
        PROVE  HubSound(q)'
    BY <1>1 DEF IInv, StreamsSound, HubSound, Due, hubs
  <1>10. ASSUME NEW d \in PipeClients, d # c
         PROVE  ClientSound(d)'
    <2>1. ClientSound(d)
      BY DEF IInv, StreamsSound
    <2>2. chan'[d] = chan[d] /\ got'[d] = got[d]
      BY <1>2, <1>5, <1>10
    <2>3. QED
      BY <1>1, <2>1, <2>2 DEF ClientSound, Listens, OnItsWay, Written, Due, hubs
  <1>11. ClientSound(c)'
    <2>1. got[c] # <<>> /\ Head(got[c]) = HEADER /\ Listens(c)
      BY <1>1 DEF IInv, StreamsSound, ClientSound
    <2>2. got'[c] = got[c] \o first /\ chan'[c] = rest
      BY <1>2, <1>5
    <2>3. /\ Tail(got'[c]) = Tail(got[c]) \o first /\ got'[c] # <<>> /\ Head(got'[c]) = HEADER
          /\ Tail(got[c]) \in Seq(Nat)
      <3>1. PICK g \in Seq(Nat) : g = got[c]
        BY <1>6
      <3>2. g # <<>>
        BY <2>1, <3>1
      <3>3. /\ Tail(g \o first) = Tail(g) \o first /\ g \o first # <<>> /\ Head(g \o first) = Head(g)
            /\ Tail(g) \in Seq(Nat)
        BY <3>2, TailOfConcat
      <3>4. QED
        BY <2>1, <2>2, <3>1, <3>3
    <2>4. (Tail(got[c]) \o first) \o rest = Tail(got[c]) \o chan[c]
      <3>1. Associates(Tail(got[c]), first, rest)
        BY <2>3, Associativity
      <3>2. QED
        BY <1>5, <3>1 DEF Associates
    <2>5. OnItsWay(c)' = OnItsWay(c)
      BY <1>1, <2>1, <2>2, <2>3, <2>4 DEF OnItsWay, Written, hubs
    <2>6. Listens(c)'
      BY <1>1, <2>1, <2>5 DEF Listens, Due, hubs
    <2>7. QED
      BY <1>1, <2>3, <2>6 DEF ClientSound
  <1>12. QED
    BY <1>8, <1>9, <1>10, <1>11 DEF StreamsSound

LEMMA LeaveKeeps ==
    ASSUME NEW c \in PipeClients, IInv, Leave(c)
    PROVE  Typed' /\ StreamsSound'
  <1>1. /\ phase' = [phase EXCEPT ![c] = "gone"] /\ chan' = [chan EXCEPT ![c] = <<>>]
        /\ UNCHANGED <<frames, with_device, pre_coalesced, pending_synth, hubs, port, got, since, on_bus, count>>
    BY DEF Leave
  <1>2. chan \in [PipeClients -> Seq(Nat)] /\ phase \in [PipeClients -> Phases] /\ <<>> \in Seq(Nat)
    BY DEF IInv, Typed, HubsTyped
  <1>3. chan' \in [PipeClients -> Seq(Nat)] /\ phase' \in [PipeClients -> Phases] /\ phase'[c] = "gone"
    BY <1>1, <1>2 DEF Phases
  <1>4. Typed'
    BY <1>1, <1>3 DEF IInv, Typed, HubsTyped, hubs
  <1>5. ASSUME NEW q \in Ports
        PROVE  HubSound(q)'
    BY <1>1 DEF IInv, StreamsSound, HubSound, Due, hubs
  <1>6. ASSUME NEW d \in PipeClients, d # c
        PROVE  ClientSound(d)'
    <2>1. ClientSound(d)
      BY DEF IInv, StreamsSound
    <2>2. chan'[d] = chan[d] /\ phase'[d] = phase[d]
      BY <1>1, <1>2, <1>6
    <2>3. QED
      BY <1>1, <2>1, <2>2 DEF ClientSound, Listens, OnItsWay, Written, Due, hubs
  <1>7. ClientSound(c)'
    BY <1>3 DEF ClientSound
  <1>8. QED
    BY <1>4, <1>5, <1>6, <1>7 DEF StreamsSound

-----------------------------------------------------------------------------
(* Every step.                                                             *)

LEMMA InitIInv ==
    ASSUME RawIsPort, Init
    PROVE  IInv
  <1>1. <<>> \in Seq(Nat) /\ <<>> \in Seq(FrameType) /\ Len(<<>>) = 0
    OBVIOUS
  <1>2. Typed
    BY <1>1 DEF Init, Typed, HubsTyped, Phases
  <1>3. StreamsSound
    <2>1. ASSUME NEW p \in Ports
          PROVE  HubSound(p)
      <3>1. pending[p] = <<>> /\ said[p] = <<>>
        BY DEF Init
      <3>2. Due(p, 0) = <<>> /\ 0 \in 0 .. Len(said[p])
        BY <1>1, <3>1, SubSeqEmpty DEF Due
      <3>3. QED
        BY <3>1, <3>2 DEF HubSound
    <2>2. ASSUME NEW c \in PipeClients
          PROVE  ClientSound(c)
      BY DEF ClientSound, Init
    <2>3. QED
      BY <2>1, <2>2 DEF StreamsSound
  <1>4. EchoSound
    <2>1. said[RawPort] = <<>> /\ Ids(pending_synth) = <<>> /\ Ids(frames) = <<>> /\ on_bus = <<>>
      BY NoIds DEF Init, RawIsPort
    <2>2. Single(<<>>) /\ \A x : ~In(<<>>, x)
      BY DEF Single, In
    <2>3. QED
      BY <1>1, <2>1, <2>2 DEF EchoSound, Traced, Init
  <1>5. QED
    BY <1>2, <1>3, <1>4 DEF IInv

LEMMA NextIInv ==
    ASSUME RawIsPort, IInv, [Next]_plVars
    PROVE  IInv'
  <1>1. CASE Loop
    BY <1>1, HandleSynthKeeps, HandleFrameKeeps, FlushesKeep DEF Loop
  <1>2. CASE UNCHANGED <<frames, with_device, pending_synth, pending, subscribers, said, chan, clients, on_bus, count>>
             /\ pre_coalesced' \in BOOLEAN /\ (pre_coalesced => pre_coalesced')
    <2>1. StreamsSound'
      BY <1>2 DEF IInv, StreamsSound, HubSound, ClientSound, Listens, OnItsWay, Written, Due, clients
    <2>2. QED
      BY <1>2, <2>1 DEF IInv, Typed, HubsTyped, EchoSound, clients
  <1>3. CASE Tick \/ Close \/ Header \/ UNCHANGED plVars
    <2>1. pre_coalesced \in BOOLEAN
      BY DEF IInv, Typed
    <2>2. UNCHANGED <<frames, with_device, pending_synth, pending, subscribers, said, chan, clients, on_bus, count>>
          /\ (pre_coalesced' = pre_coalesced \/ pre_coalesced' = TRUE)
      BY <1>3 DEF Tick, Close, Header, plVars, hubs
    <2>3. QED
      BY <1>2, <2>1, <2>2
  <1>4. CASE ForwardPlainLine \/ \E k \in Kinds : Receive(k)
    BY <1>4, ArrivalsKeep
  <1>5. ASSUME NEW c \in PipeClients, Client(c) \/ Subscribe(c) \/ Leave(c)
        PROVE  IInv'
    <2>1. Typed' /\ StreamsSound'
      BY <1>5, SubscribeKeeps, GreetKeeps, WriteKeeps, LeaveKeeps DEF Client
    <2>2. UNCHANGED <<frames, with_device, pre_coalesced, pending_synth, said, on_bus, count>>
      BY <1>5 DEF Client, Subscribe, Greet, Write, Leave, hubs
    <2>3. QED
      BY <2>1, <2>2 DEF IInv, EchoSound
  <1>6. QED
    BY <1>1, <1>3, <1>4, <1>5 DEF Next

-----------------------------------------------------------------------------
(* The properties.                                                         *)

LEMMA StreamsAreIntact ==
    ASSUME IInv
    PROVE  StreamIntact
  BY DEF IInv, StreamsSound, ClientSound, Listens, StreamIntact

LEMMA EchoesComeOnce ==
    ASSUME RawIsPort, IInv
    PROVE  EchoedOnce
  <1> DEFINE S == said[RawPort]
             P == Ids(pending_synth)
             F == Ids(frames)
  <1>1. S \in Seq(Nat) /\ P \in Seq(Nat) /\ F \in Seq(Nat) /\ on_bus \in Seq(Nat)
    BY TracedParts DEF IInv
  <1>2. Traced(S, P, F, on_bus, count)
    BY DEF IInv, EchoSound
  <1> HIDE DEF S, P, F
  <1>3. S \o P \in Seq(Nat) /\ Single(S \o P) /\ \A x : In(S \o P, x) <=> In(S, x) \/ In(P, x)
    BY <1>1, <1>2, Joined, ConcatProperties DEF Traced
  <1>4. Single((S \o P) \o F) /\ \A x : In((S \o P) \o F, x) <=> In(S, x) \/ In(P, x) \/ In(F, x)
    BY <1>1, <1>2, <1>3, Joined DEF Traced
  <1>5. PICK all : all = (S \o P) \o F
    OBVIOUS
  <1>6. ASSUME NEW i \in 1 .. Len(on_bus)
        PROVE  \E j \in 1 .. Len(all) : \A m \in 1 .. Len(all) : all[m] = on_bus[i] <=> m = j
    <2>1. In(all, on_bus[i])
      BY <1>2, <1>4, <1>5 DEF Traced, In
    <2>2. Single(all)
      BY <1>4, <1>5
    <2>3. QED
      BY <2>1, <2>2 DEF In, Single
  <1>7. QED
    BY <1>5, <1>6 DEF EchoedOnce, ComingBack, S, P, F

\* Whatever comes, in whatever batches, and whoever connects, reads, lags or
\* leaves when: a client gets what was due from some line on, in order and once,
\* after the header; and what the server puts on the bus comes back once
\* (push, flush, broadcast, run_stream_client, forward_plain_line).
THEOREM StreamsAreWhole ==
    ASSUME RawIsPort
    PROVE  Spec => [](StreamIntact /\ EchoedOnce)
  <1>1. Init => IInv
    BY InitIInv
  <1>2. IInv /\ [Next]_plVars => IInv'
    BY NextIInv
  <1>3. IInv => StreamIntact /\ EchoedOnce
    BY StreamsAreIntact, EchoesComeOnce
  <1>4. QED
    BY <1>1, <1>2, <1>3, PTL DEF Spec
=============================================================================
