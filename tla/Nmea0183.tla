----------------------------- MODULE Nmea0183 -----------------------------
(***************************************************************************)
(* The NMEA 0183 output of the server: which sentences a decoded record    *)
(* yields (n2kd/decoded.rs), one record per source, class and second       *)
(* (nmea0183.rs), and the filter that mutes devices by NAME                *)
(* (nmea_filter.rs), edited over its control port by source address.  The  *)
(* rules are written to a file after every edit; a write that fails is only *)
(* logged, and the edit stays in force until the server stops.             *)
(* A record is its variant and what of its fields the handlers test.       *)
(***************************************************************************)
EXTENDS Naturals, FiniteSets

CONSTANTS
    Names, Srcs, None,
    Missing, Torn,  \* no file; a file that does not parse
    Records,    \* the records devices send: [id, ok, ref, extra]
    Second,     \* one second, in ticks
    MaxSteps    \* claims aside

VARIABLES
    src_name,   \* the NAME learned at each address
    rules,      \* NAME -> [muted, muted_sentences], or None
    observed,   \* address -> formatters it was seen to produce
    file,       \* what the file on disk holds
    filtering,  \* the server has a filter: the file it started with was not torn
    last_passed,\* address -> rate class -> age in ticks, Second for long ago
    sog_cog,    \* [src, age] of the last course and speed
    addr,       \* where each device is
    intent,     \* what the user wants muted, by NAME
    saved,      \* the part of it that the file holds
    out,        \* the last record: [name, src, id, sentences, speed]
    steps

filter == <<src_name, rules, observed, file, filtering>>
limiter == <<last_passed, sog_cog>>
wish == <<intent, saved>>
nVars == <<filter, limiter, addr, wish, out, steps>>

ALL == "ALL"
Classes == {r.id : r \in Records}
NoRule == [muted |-> FALSE, muted_sentences |-> {}]

---------------------------------------------------------------------------
\* Each handler of decoded.rs: the sentences of a record.  ok: the fields it
\* cannot do without are available; ref: its reference or source field;
\* extra: heading with both deviation and variation.
VesselHeading(r) ==
    IF ~r.ok THEN {}
    ELSE IF r.ref = 1 /\ r.extra THEN {"HDG"}
    ELSE IF r.ref = 0 THEN {"HDT"} ELSE IF r.ref = 1 THEN {"HDM"} ELSE {}
WindData(r) == IF r.ok /\ r.ref \in {2, 3} THEN {"MWV"} ELSE {}
SogCog(r) == IF r.ok THEN {"VTG"} ELSE {}
Rudder(r) == IF r.ok THEN {"RSA"} ELSE {}
WaterSpeed(r) == IF r.ok THEN {"VHW"} ELSE {}
WaterDepth(r) == IF r.ok THEN {"DPT"} ELSE {}
DistanceLog(r) == IF r.ok THEN {"VLW"} ELSE {}
Environmental(r) == IF r.ok /\ r.ref = 0 THEN {"MTW"} ELSE {}
GpsDop(r) == {"GSA"}
Position(r) == IF r.ok THEN {"GLL", "RMC"} ELSE {}

Converted(r) ==
    CASE r.id = "rudder" -> Rudder(r)
      [] r.id = "vesselHeading" -> VesselHeading(r)
      [] r.id = "speed" -> WaterSpeed(r)
      [] r.id = "waterDepth" -> WaterDepth(r)
      [] r.id = "distanceLog" -> DistanceLog(r)
      [] r.id = "cogSogRapidUpdate" -> SogCog(r)
      [] r.id = "gnssPositionData" -> Position(r)
      [] r.id = "gnssDops" -> GpsDop(r)
      [] r.id = "windData" -> WindData(r)
      [] r.id = "environmentalParameters" -> Environmental(r)
      [] OTHER -> {}

Passes(s, class) == last_passed[s][class] >= Second

PassMarkNone(s, class) == last_passed
\* The slot is taken whether or not the handler then has a sentence.
PassMark(s, class) == [last_passed EXCEPT ![s][class] = 0]

\* The course and speed a position record quotes, whoever sent it.
Recent == sog_cog.src # None /\ sog_cog.age < Second

---------------------------------------------------------------------------
\* The filter.

\* decide: what of the sentences fs of address s gets through.
Kept(s, fs) ==
    IF \A n \in Names : rules[n] = None THEN fs
    ELSE IF src_name[s] = None THEN {}
    ELSE IF rules[src_name[s]] = None THEN fs
    ELSE IF rules[src_name[s]].muted THEN {}
    ELSE fs \ rules[src_name[s]].muted_sentences

DropsAll(s) == Kept(s, {ALL}) = {}

RowMutedByRule(s, f) ==
    src_name[s] # None /\ rules[src_name[s]] # None
    /\ (rules[src_name[s]].muted \/ f \in rules[src_name[s]].muted_sentences)
\* A row of the report says muted.
RowMuted(s, f) == DropsAll(s) \/ (f # ALL /\ Kept(s, {f}) = {})

ReportRows ==
    UNION {{[src |-> s, sentence |-> f, muted |-> RowMuted(s, f)] : f \in observed[s] \union {ALL}}
             : s \in {t \in Srcs : observed[t] # {}}}

RuleOf(n) == IF rules[n] = None THEN NoRule ELSE rules[n]
Edited(rule, f, b) ==
    IF f = ALL THEN [rule EXCEPT !.muted = b]
    ELSE IF b THEN [rule EXCEPT !.muted_sentences = @ \union {f}]
    ELSE [rule EXCEPT !.muted_sentences = @ \ {f}]
TidiedByMuted(rule) == IF ~rule.muted THEN None ELSE rule
Untidied(rule) == rule
\* A rule that no longer mutes anything is dropped.
Tidied(rule) == IF rule = NoRule THEN None ELSE rule

\* Mutant: the rules are written before the edit.
SaveTooEarly ==
    \/ file' = rules /\ saved' = intent'
    \/ UNCHANGED <<file, saved>>
    \/ file' = Torn /\ saved' = {}

\* save, written in place: it succeeds, fails with the file as it was, or leaves
\* part of it.
Save ==
    \/ file' = rules' /\ saved' = intent'
    \/ UNCHANGED <<file, saved>>
    \/ file' = Torn /\ saved' = {}

NoRules == [n \in Names |-> None]

\* load: without a file there are no rules, with a torn one there is no filter,
\* which lets everything out and learns nothing.
Load ==
    /\ rules' = IF file \in {Missing, Torn} THEN NoRules ELSE file
    /\ filtering' = (file # Torn)

---------------------------------------------------------------------------
TypeOK ==
    /\ src_name \in [Srcs -> Names \union {None}]
    /\ \A n \in Names : rules[n] # None => rules[n].muted \in BOOLEAN
    /\ file \notin {Missing, Torn} => \A n \in Names : file[n] # None => file[n].muted \in BOOLEAN
    /\ filtering \in BOOLEAN /\ (~filtering => rules = NoRules)
    /\ \A s \in Srcs, c \in Classes : last_passed[s][c] \in 0 .. Second
    /\ sog_cog.age \in 0 .. Second

Init ==
    /\ src_name = [s \in Srcs |-> None] /\ observed = [s \in Srcs |-> {}]
    /\ rules = NoRules /\ file = Missing /\ filtering = TRUE
    /\ last_passed = [s \in Srcs |-> [c \in Classes |-> Second]]
    /\ sog_cog = [src |-> None, age |-> Second]
    /\ addr = CHOOSE f \in [Names -> Srcs] : \A m, n \in Names : f[m] = f[n] => m = n
    /\ intent = {} /\ saved = {} /\ out = None
    /\ steps = 0

\* The pipeline converts a record of device n and filters what it yields.
Record(n, r) ==
    LET s == addr[n]
        passes == Passes(s, r.id)
        fs == IF passes THEN Converted(r) ELSE {}
        speed == IF "RMC" \in fs /\ Recent THEN sog_cog.age ELSE None
    IN
    /\ steps < MaxSteps /\ steps' = steps + 1
    /\ last_passed' = IF passes THEN PassMark(s, r.id) ELSE last_passed
    /\ sog_cog' = IF fs = {"VTG"} THEN [src |-> s, age |-> 0] ELSE sog_cog
    /\ observed' = IF filtering THEN [observed EXCEPT ![s] = @ \union fs] ELSE observed
    /\ out' = [name |-> n, src |-> s, id |-> r.id, sentences |-> Kept(s, fs), speed |-> speed]
    /\ UNCHANGED <<src_name, rules, file, filtering, addr, wish>>

\* A claim is heard; a device that moves may not be heard claiming.
NoteClaim(n) ==
    /\ filtering
    /\ src_name' = [src_name EXCEPT ![addr[n]] = n]
    /\ out' = None
    /\ UNCHANGED <<rules, observed, file, filtering, limiter, addr, wish, steps>>

Move(n, s) ==
    /\ steps < MaxSteps /\ steps' = steps + 1
    /\ \A m \in Names : addr[m] # s
    /\ addr' = [addr EXCEPT ![n] = s] /\ out' = None
    /\ UNCHANGED <<filter, limiter, wish>>

\* A Set over the control port.
Set(s, f, b) ==
    /\ steps < MaxSteps /\ steps' = steps + 1
    /\ src_name[s] # None
    /\ LET n == src_name[s] IN
        /\ rules' = [rules EXCEPT ![n] = Tidied(Edited(RuleOf(n), f, b))]
        /\ intent' = IF b THEN intent \union {<<n, f>>} ELSE intent \ {<<n, f>>}
    /\ Save /\ out' = None
    /\ UNCHANGED <<src_name, observed, filtering, limiter, addr>>

\* The server is restarted or dies, in a save too (then the edit is in the file
\* whole, not at all, or in part).  What it holds the user to is what was saved.
Restart ==
    /\ steps < MaxSteps /\ steps' = steps + 1
    /\ src_name' = [s \in Srcs |-> None] /\ observed' = [s \in Srcs |-> {}]
    /\ Load /\ intent' = saved /\ out' = None
    /\ last_passed' = [s \in Srcs |-> [c \in Classes |-> Second]]
    /\ sog_cog' = [src |-> None, age |-> Second]
    /\ UNCHANGED <<file, addr, saved>>

Tick ==
    /\ steps < MaxSteps /\ steps' = steps + 1
    /\ LET older(a) == IF a < Second THEN a + 1 ELSE a IN
        /\ last_passed' = [s \in Srcs |-> [c \in Classes |-> older(last_passed[s][c])]]
        /\ sog_cog' = [sog_cog EXCEPT !.age = older(@)]
    /\ out' = None
    /\ UNCHANGED <<filter, addr, wish>>

Formatters == UNION {Converted(r) : r \in Records}
Next ==
    \/ Restart \/ Tick
    \/ \E n \in Names :
        \/ NoteClaim(n)
        \/ \E r \in Records : Record(n, r)
        \/ \E s \in Srcs : Move(n, s)
    \/ \E s \in Srcs, f \in Formatters \union {ALL}, b \in BOOLEAN : Set(s, f, b)

Spec == Init /\ [][Next]_nVars

---------------------------------------------------------------------------
\* A sentence the user muted for a device does not get out, at whatever address
\* the device is, once its claim there has been heard (set, decide, apply).
\* Restarts included, for the edits of the last save that succeeded (`intent` is
\* what the user asked for, and after a restart what of it was saved): an edit
\* that could not be saved is forgotten (:308), and so is all when the file was
\* left torn.
MutedIsSilent ==
    out # None /\ src_name[out.src] = out.name =>
        \A f \in out.sentences : <<out.name, f>> \notin intent /\ <<out.name, ALL>> \notin intent

\* Nothing else is muted: with nothing muted at all, every address is heard, and
\* a named device loses only what was muted for it (decide).  The first half is
\* what the code does and its comment in decide says, "a true no-op"; the docs at
\* nmea_filter.rs:16-21, :172-174 and :285 say otherwise, that a source without a
\* NAME produces no 0183 at all, "a missing file" or not.
UnmutedIsHeard ==
    \A s \in Srcs, f \in Formatters :
        /\ intent = {} => Kept(s, {f}) = {f}
        /\ src_name[s] # None /\ {<<src_name[s], f>>, <<src_name[s], ALL>>} \cap intent = {}
           => Kept(s, {f}) = {f}

\* The rows of the report that are about a device as a whole.
AllRows == {[src |-> s, sentence |-> ALL, muted |-> b] : s \in Srcs, b \in BOOLEAN}
\* A row of the report says muted exactly when the sentence does not get out
\* (report against apply), also for an address without a NAME.
ReportIsTrue ==
    \A row \in ReportRows \ AllRows :
        row.muted <=> Kept(row.src, {row.sentence}) = {}

\* A source gets one record of a class through in a second (should_drop_fast),
\* and a position never quotes a speed that is older (recent_sog_cog).
OncePerSecond ==
    out' # None /\ out'.sentences # {} =>
        /\ last_passed[out'.src][out'.id] >= Second
        /\ last_passed'[out'.src][out'.id] = 0
        /\ out'.speed # None => out'.speed < Second
=============================================================================
