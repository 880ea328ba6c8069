------------------------------- MODULE Quirks --------------------------------
(***************************************************************************)
(* The quirks of canboat-bridge/src/server/quirks: scx20 answers for a     *)
(* compass that forgets to, wmm speaks a magnetic variation of its own and *)
(* asks older ones to be silent, motion is a virtual device that claims an *)
(* address and retells a compass's rates.  With them the part of           *)
(* pipeline.rs that hands them every decoded frame, stamps canboat's own   *)
(* address on what they make and feeds it back into its own loop.          *)
(*                                                                         *)
(* Time is counted in ticks, `now` the Instant of the call; nothing        *)
(* happens in a quirk but in a call, whatever deadline has passed.         *)
(***************************************************************************)
EXTENDS Integers, Sequences

CONSTANTS
    None,
    Second,           \* MIN_SYNTH_GAP and EMIT_INTERVAL
    Hour,             \* COMPUTE_INTERVAL
    Window,           \* SCAN_TIMEOUT_MS and CLAIM_TIMEOUT_MS
    Twin, Scx,        \* NAMEs of the virtual device and of the compasses
    Canboat, Peers,   \* NAMEs of canboat itself and of others, the lower wins
    PREFERRED_ADDRESS,
    QuirkSets,        \* the sets of quirks that are configured
    MaxHeard, MaxMoves, MaxNow  \* bounds on the frames, on own's moves and on the clock

Addrs  == 0 .. 2
Null   == 254   \* ADDR_NULL
Global == 255   \* ADDR_GLOBAL
Frame(pgn, src, dst, what) == [pgn |-> pgn, src |-> src, dst |-> dst, what |-> what]

VARIABLES
    kinds,          \* the quirks that are enabled
    own,            \* the address canboat's worker holds, None without
    pending_synth,  \* what the quirks made, to be handled like the bus's
    learned,        \* Scx20: when it last answered for an address it learned
    wmm,            \* WmmQuirk
    motion,         \* Motion and its AddressClaim
    now, bus, moves, \* the clock, how much the bus has said, how often own moved
    told,           \* history: when an answer was last made for an address
    spoken,         \* history: when the last variation went out
    begged,         \* history: how often a source was asked to be silent
    announced,      \* history: the address of the twin's last announcement
    earliest, retold,  \* history: the first compass that could be retold, those that were
    taken           \* history: the addresses that others have claimed

vars == <<kinds, own, pending_synth, learned, wmm, motion, now, bus, moves, told, spoken, begged,
          announced, earliest, retold, taken>>

\* What a call leaves of a quirk, and the frames it returns.
Done(q, out) == [state |-> q, out |-> out]
-----------------------------------------------------------------------------
(* Scx20.                                                                  *)

\* Mutant: a claim heard again makes the next answer due at once.
LearnAgain(known, d) ==
    IF d.pgn = "claim" /\ d.what = Scx THEN [known EXCEPT ![d.src] = now - Second] ELSE known

\* An unknown unit is due at once; a known one keeps its stamp.
Learn(known, d) ==
    IF d.pgn = "claim" /\ d.what = Scx /\ known[d.src] = None
    THEN [known EXCEPT ![d.src] = now - Second] ELSE known

\* The units that a request for Product Information reaches and that are due.
Targets(d) ==
    {a \in Addrs : /\ d.pgn = "request" /\ d.what = "product"
                   /\ d.dst \in {a, Global}
                   /\ learned[a] # None
                   /\ now - learned[a] >= Second}

\* The answers, in the order of their addresses.
Fabricated(targets) ==
    LET answer(a) == IF a \in targets THEN <<Frame("product", a, Global, "scx20")>> ELSE <<>>
    IN answer(0) \o answer(1) \o answer(2)

Scx20(d) == Done([a \in Addrs |-> IF a \in Targets(d) THEN now ELSE Learn(learned, d)[a]], Fabricated(Targets(d)))
-----------------------------------------------------------------------------
(* WmmQuirk.                                                               *)

Observed(w, d) ==
    CASE d.pgn = "position" -> [w EXCEPT !.pos = TRUE]
      [] d.pgn = "date" -> [w EXCEPT !.date = d.what]
      [] OTHER -> w

\* An older model, of a source that has not been asked in this session.
StopDue(w, d) == d.pgn = "variation" /\ d.what = "older" /\ d.src \notin w.asked
Asked(w, d) == IF StopDue(w, d) THEN [w EXCEPT !.asked = @ \cup {d.src}] ELSE w

EmitDue(w) == w.pos /\ (w.emitted = None \/ now - w.emitted >= Second)

\* A value that was good is kept when the date of the next is beyond the model.
Computed(w) ==
    IF ~w.cached \/ w.computed = None \/ now - w.computed >= Hour
    THEN [w EXCEPT !.cached = @ \/ w.date # "beyond", !.computed = now] ELSE w

\* Mutant: the time of the emission is forgotten.
StampedNever(w) == w
Stamped(w) == [w EXCEPT !.emitted = now]

Wmm(d) ==
    LET seen == Asked(Observed(wmm, d), d)
        value == IF EmitDue(seen) THEN Computed(seen) ELSE seen
        emits == EmitDue(seen) /\ value.cached
    IN Done(IF emits THEN Stamped(value) ELSE value,
            (IF StopDue(wmm, d) THEN <<Frame("stop", Global, d.src, "wmm")>> ELSE <<>>)
              \o (IF emits THEN <<Frame("variation", Global, Global, "own")>> ELSE <<>>))
-----------------------------------------------------------------------------
(* Motion.  Its AddressClaim is the node of module AddressClaim that hears  *)
(* itself, here in the calls that the quirk makes.                         *)

ClaimOf(a) == Frame("claim", a, Global, Twin)
GoFor(m, a) == Done([m EXCEPT !.state = "Pending", !.address = a, !.deadline = now + Window], <<ClaimOf(a)>>)
Retreat(m) ==
    LET free == Addrs \ m.used
    IN IF free = {} THEN Done([m EXCEPT !.state = "Failed", !.address = Null], <<ClaimOf(Null)>>)
       ELSE GoFor(m, CHOOSE a \in free : \A b \in free : a <= b)

Address(m) == IF m.state = "Claimed" THEN m.address ELSE None

Started(m) ==
    IF m.state # "Idle" THEN Done(m, <<>>)
    ELSE Done([m EXCEPT !.state = "Scanning", !.deadline = now + Window],
              <<Frame("request", Null, Global, "claim")>>)

\* Mutant: the echo of its own claim is one more device.
OursNever(d) == FALSE
Ours(d) == d.what = Twin

OnClaim(m, d) ==
    LET wary == [m EXCEPT !.used = @ \cup {d.src}]
    IN IF d.src \notin Addrs \/ Ours(d) THEN Done(m, <<>>)
       ELSE IF m.state = "Scanning" \/ d.src # m.address THEN Done(wary, <<>>)
       ELSE IF Twin < d.what THEN GoFor(m, m.address)
       ELSE Retreat(wary)

ProductInfo(m) ==
    IF Address(m) = None THEN <<>> ELSE <<Frame("product", m.address, Global, "twin")>>

HandleRequest(m, d) ==
    CASE d.dst \notin {Address(m), Global} -> <<>>
      [] d.what = "claim" -> IF m.state \in {"Claimed", "Pending"} THEN <<ClaimOf(m.address)>> ELSE <<>>
      [] d.what = "product" -> ProductInfo(m)
      [] OTHER -> IF Address(m) = None THEN <<>>
                  ELSE [i \in 1 .. 2 |-> Frame("lists", m.address, Global, "twin")]

\* What can be retold: Furuno's layout in full, once an address is owned.
Retellable(m, d) == d.pgn = "sixdof" /\ d.what = "furuno" /\ Address(m) \notin {None, d.src}

\* Mutant: the last compass is retold.
LatchedLast(m, d) == IF Retellable(m, d) THEN [m EXCEPT !.rate_source = d.src] ELSE m
Latched(m, d) ==
    IF Retellable(m, d) /\ m.rate_source = None THEN [m EXCEPT !.rate_source = d.src] ELSE m

Retold(m, d) == Retellable(m, d) /\ m.rate_source = d.src

Received(m, d) ==
    CASE d.pgn = "claim" -> OnClaim(m, d)
      [] d.pgn = "request" -> Done(m, HandleRequest(m, d))
      [] d.pgn = "sixdof" -> Done(Latched(m, d),
             IF Retold(Latched(m, d), d) THEN <<Frame("rates", m.address, Global, "twin")>> ELSE <<>>)
      [] OTHER -> Done(m, <<>>)

Ticked(m) ==
    IF m.state = "Scanning" /\ now >= m.deadline
      THEN IF PREFERRED_ADDRESS \in m.used THEN Retreat(m) ELSE GoFor(m, PREFERRED_ADDRESS)
    ELSE IF m.state = "Pending" /\ now >= m.deadline THEN Done([m EXCEPT !.state = "Claimed"], <<>>)
    ELSE Done(m, <<>>)

\* Mutant: only the first address is announced.
AnnouncesFirst(before, after) == announced = None /\ before.state # "Claimed" /\ after.state = "Claimed"
Announces(before, after) == before.state # "Claimed" /\ after.state = "Claimed"

Motion(d) ==
    LET started == Started(motion)
        received == Received(started.state, d)
        ticked == Ticked(received.state)
    IN Done(ticked.state, started.out \o received.out \o ticked.out
              \o (IF Announces(started.state, ticked.state) THEN ProductInfo(ticked.state) ELSE <<>>))
-----------------------------------------------------------------------------
(* The pipeline.                                                           *)

\* "Send as my own node": the sources that the pipeline takes for canboat's.
Stamp(f) == IF f.src \in {0, Global} /\ own # None THEN [f EXCEPT !.src = own] ELSE f

Enabled(kind, done, before) == IF kind \in kinds THEN done ELSE Done(before, <<>>)

\* The histories of what the quirks returned and of what they could retell.
Histories(d, scx, var, mot) ==
    /\ told' = [a \in Addrs |-> IF \E i \in DOMAIN scx : scx[i].src = a THEN now ELSE told[a]]
    /\ spoken' = IF \E i \in DOMAIN var : var[i].pgn = "variation" THEN now ELSE spoken
    /\ begged' = [a \in Addrs |-> IF \E i \in DOMAIN var : var[i].pgn = "stop" /\ var[i].dst = a
                                  THEN begged[a] + 1 ELSE begged[a]]
    /\ announced' = IF \E i \in DOMAIN mot : mot[i].pgn = "product"
                    THEN Stamp(mot[CHOOSE i \in DOMAIN mot : mot[i].pgn = "product"]).src ELSE announced
    /\ earliest' = IF "motion" \in kinds /\ earliest = None /\ Retellable(motion, d) THEN d.src ELSE earliest
    /\ retold' = IF \E i \in DOMAIN mot : mot[i].pgn = "rates" THEN retold \cup {d.src} ELSE retold
    /\ taken' = IF d.pgn = "claim" /\ d.what # Twin THEN taken \cup {d.src} ELSE taken

\* Quirks::process_decoded, and what the loop does with what it returns.
Process(d, rest) ==
    LET s == Enabled("scx20", Scx20(d), learned)
        w == Enabled("wmm", Wmm(d), wmm)
        m == Enabled("motion", Motion(d), motion)
        synth == s.out \o w.out \o m.out
    IN /\ learned' = s.state /\ wmm' = w.state /\ motion' = m.state
       /\ pending_synth' = rest \o [i \in DOMAIN synth |-> Stamp(synth[i])]
       /\ Histories(d, s.out, w.out, m.out)

FedBack ==
    /\ pending_synth # <<>>
    /\ Process(Head(pending_synth), Tail(pending_synth))
    /\ UNCHANGED <<kinds, own, now, bus, moves>>

\* What the bus may say that one of the quirks listens to.
Claims == {Frame("claim", a, Global, n) : a \in Addrs, n \in Peers \cup {Scx, Canboat}}
Requests == {Frame("request", Null, a, w) : a \in Addrs \cup {Global}, w \in {"claim", "product", "lists"}}
Said ==
    (IF kinds \cap {"scx20", "motion"} # {} THEN Claims \cup Requests ELSE {})
    \cup (IF "wmm" \in kinds THEN {Frame("position", 1, Global, "here"), Frame("date", 1, Global, "beyond"),
             Frame("date", 1, Global, "today")} \cup {Frame("variation", a, Global, w) : a \in Addrs, w \in {"older", "newer"}} ELSE {})
    \cup (IF "motion" \in kinds THEN {Frame("sixdof", a, Global, w) : a \in Addrs, w \in {"furuno", "other"}} ELSE {})

Hear ==
    /\ pending_synth = <<>> /\ bus < MaxHeard
    /\ bus' = bus + 1
    /\ \E d \in Said :
         /\ (d.pgn = "claim" /\ d.what = Canboat) => d.src = own
         /\ Process(d, <<>>)
    /\ UNCHANGED <<kinds, own, now, moves>>

\* Canboat's worker takes an address; its claim is heard a little later.
Move ==
    /\ "motion" \in kinds /\ moves < MaxMoves
    /\ moves' = moves + 1
    /\ own' \in Addrs \ {own}
    /\ UNCHANGED <<kinds, pending_synth, learned, wmm, motion, now, bus, told, spoken, begged, announced, earliest, retold, taken>>

Wait ==
    /\ now < MaxNow
    /\ now' = now + 1
    /\ UNCHANGED <<kinds, own, pending_synth, learned, wmm, motion, bus, moves, told, spoken, begged, announced, earliest, retold, taken>>

Init ==
    /\ kinds \in QuirkSets
    /\ own \in {None, 1}
    /\ pending_synth = <<>>
    /\ learned = [a \in Addrs |-> None]
    /\ wmm = [pos |-> FALSE, date |-> "host", cached |-> FALSE, computed |-> None, emitted |-> None, asked |-> {}]
    /\ motion = [state |-> "Idle", address |-> PREFERRED_ADDRESS, deadline |-> 0, used |-> {}, rate_source |-> None]
    /\ now = 0 /\ bus = 0 /\ moves = 0
    /\ told = [a \in Addrs |-> None] /\ begged = [a \in Addrs |-> 0]
    /\ spoken = None /\ announced = None /\ earliest = None /\ retold = {} /\ taken = {}

Next == FedBack \/ Hear \/ Move \/ Wait
-----------------------------------------------------------------------------
(* Properties.                                                             *)

\* Types.
TypeOK ==
    /\ own \in Addrs \cup {None}
    /\ \A a \in Addrs : learned[a] = None \/ learned[a] \in -Second .. MaxNow
    /\ motion.state \in {"Idle", "Scanning", "Pending", "Claimed", "Failed"}
    /\ motion.address \in Addrs \cup {Null} /\ motion.used \subseteq Addrs
    /\ retold \subseteq Addrs

\* An address that the twin owns was announced with its Product Information
\* under that address, each time that arbitration moved it ("the moment we take
\* ownership", motion.rs:215), unless it is 0, which the pipeline takes for
\* canboat's own.
OwnedIsAnnounced == motion.state = "Claimed" /\ motion.address # 0 => announced = motion.address

\* The twin gives up only when others have claimed every address: its own claim,
\* which comes back to it, never counts ("treating it as a conflict would make us
\* lose to ourselves and walk through every address", address_claim.rs:154).
GivesUpWhenFull == motion.state = "Failed" => Addrs \subseteq taken

\* The rates that are retold are those of the first compass that could be, and
\* of no other, wherever the twin moves.
RatesOfOneUnit == retold \subseteq {earliest}

\* At most one answer a second for a unit, one variation a second, and a
\* source is asked to be silent once, whatever is claimed or said in between.
Throttled ==
    /\ \A a \in Addrs : told'[a] # told[a] /\ told[a] # None => told'[a] - told[a] >= Second
    /\ spoken' # spoken /\ spoken # None => spoken' - spoken >= Second
    /\ \A a \in Addrs : begged'[a] <= 1

\* "No risk of an infinite synthesis loop" (pipeline.rs:311): what is fed back
\* runs out.
Drained == pending_synth = <<>>
==============================================================================
