--------------------------- MODULE RequestEngine ---------------------------
(***************************************************************************)
(* Which device is asked for its claim or its product information, and     *)
(* when (n2kd/request_engine.rs).  The request thread wakes at every tick; *)
(* the pipeline's thread notes what the devices send, also between the     *)
(* choice of a device and its stamp, for which the lock is taken anew.     *)
(* A time is kept as its age in ticks, up to Interval, which is "never".   *)
(***************************************************************************)
EXTENDS Naturals, Sequences

CONSTANTS
    Last,       \* the addresses are 0 .. Last
    Answering,  \* the addresses whose device answers, now and then
    Spacing,    \* DEVICE_REQUEST_SPACING, in ticks
    Interval    \* DEVICE_REQUEST_INTERVAL, in ticks

Src == 0 .. Last
Kinds == {"claim", "product"}
Ages == 0 .. Interval
Older(a, top) == IF a < top THEN a + 1 ELSE top

VARIABLES
    seen,       \* addresses some frame came from
    received,   \* kind -> address -> age of the last answer
    requested,  \* kind -> address -> age of the stamp
    cursor,     \* kind -> where the search for the next device begins
    since,      \* kind -> age of the last request to any device
    pc,         \* where the request thread is
    found,      \* the device chosen and not yet stamped
    asked       \* kind -> address -> age of the last request on the bus

noted == <<seen, received>>
thread == <<cursor, since, pc, found>>
reVars == <<noted, requested, thread, asked>>

PcOrder == [sleep |-> "claim", claim |-> "product", product |-> "sleep"]
Stamping == [claim |-> "stamp claim", product |-> "stamp product"]
NoDevice == Last + 1

TypeOK ==
    /\ seen \subseteq Src
    /\ received \in [Kinds -> [Src -> Ages]] /\ requested \in [Kinds -> [Src -> Ages]]
    /\ asked \in [Kinds -> [Src -> Ages]]
    /\ cursor \in [Kinds -> Src] /\ since \in [Kinds -> 0 .. Spacing]
    /\ pc \in {"sleep"} \union Kinds \union {Stamping[k] : k \in Kinds}
    /\ found \in Src \union {NoDevice}

Init ==
    LET never == [k \in Kinds |-> [s \in Src |-> Interval]] IN
    /\ seen = {} /\ received = never /\ requested = never /\ asked = never
    /\ cursor = [k \in Kinds |-> 0] /\ since = [k \in Kinds |-> Spacing]
    /\ pc = "sleep" /\ found = NoDevice

---------------------------------------------------------------------------
\* A frame of s: an answer to a request of kind k, or other traffic.
NoteSeen(s) ==
    /\ seen' = seen \union {s}
    /\ \/ s \in Answering /\ \E k \in Kinds : received' = [received EXCEPT ![k][s] = 0]
       \/ received' = received
    /\ UNCHANGED <<requested, thread, asked>>

DueUnlessAsked(k, s) == s \in seen /\ requested[k][s] = Interval
Due(k, s) == s \in seen /\ received[k][s] = Interval /\ requested[k][s] = Interval

\* The addresses in the order of the search, from the cursor on.
After(k, n) == (cursor[k] + n) % (Last + 1)

\* next_due, as far as the lock is held for reading.
Choose(k) ==
    /\ pc = k
    /\ \/ /\ since[k] >= Spacing
          /\ \E n \in 0 .. Last :
                /\ Due(k, After(k, n)) /\ \A m \in 0 .. n - 1 : ~Due(k, After(k, m))
                /\ found' = After(k, n)
          /\ pc' = Stamping[k]
       \/ /\ since[k] < Spacing \/ \A s \in Src : ~Due(k, s)
          /\ pc' = PcOrder[k] /\ UNCHANGED found
    /\ UNCHANGED <<noted, requested, cursor, since, asked>>


AdvancedNot(s) == 0
AdvancedUnwrapped(s) == s + 1
\* The cursor after s was chosen.
Advanced(s) == (s + 1) % (Last + 1)

\* The rest of next_due, and the request; the product slot asks for the
\* product and the configuration information.
Stamp(k) ==
    /\ pc = Stamping[k]
    /\ requested' = [requested EXCEPT ![k][found] = 0]
    /\ cursor' = [cursor EXCEPT ![k] = Advanced(found)]
    /\ asked' = [asked EXCEPT ![k][found] = 0] /\ since' = [since EXCEPT ![k] = 0]
    /\ found' = NoDevice /\ pc' = PcOrder[k]
    /\ UNCHANGED noted

\* Half a second passes, and the thread wakes up.
Tick ==
    /\ pc = "sleep" /\ pc' = PcOrder[pc]
    /\ since' = [k \in Kinds |-> Older(since[k], Spacing)]
    /\ LET aged(f) == [k \in Kinds |-> [s \in Src |-> Older(f[k][s], Interval)]] IN
        received' = aged(received) /\ requested' = aged(requested) /\ asked' = aged(asked)
    /\ UNCHANGED <<seen, cursor, found>>

Thread == Tick \/ \E k \in Kinds : Choose(k) \/ Stamp(k)
Next == Thread \/ \E s \in Src : NoteSeen(s)
Spec == Init /\ [][Next]_reVars /\ WF_reVars(Thread)

---------------------------------------------------------------------------
\* No device is asked for the same thing again within the interval, nor while
\* the answer it gave is younger than that, but for an answer that came in
\* between the choice and the stamp; and requests of a kind keep their spacing.
AskedRarely ==
    \A k \in Kinds, s \in Src : asked'[k][s] = 0 /\ asked[k][s] # 0 =>
        /\ asked[k][s] = Interval /\ since[k] = Spacing
        /\ received[k][s] \in {0, Interval}

\* However many devices never answer, each that was seen is asked again (this is
\* so time after time), or has answered within the interval (the round robin of next_due).
Served(k, s) == asked[k][s] = 0 \/ received[k][s] < Interval
=============================================================================
