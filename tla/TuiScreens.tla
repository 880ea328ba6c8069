----------------------------- MODULE TuiScreens -----------------------------
(***************************************************************************)
(* The terminal user interface of canboat (tui/ui.rs, with the part of     *)
(* tui/menu.rs that decides which item may fire, and the event loop and    *)
(* the commands of tui/mod.rs): which screen is shown, which dialog is     *)
(* open over it, where the cursors stand, and what a key does.             *)
(*                                                                         *)
(* The loop of mod.rs waits for a key or a tick, lets handle_key read the  *)
(* bus model under its lock, carries out the command the key may have      *)
(* recorded, and repaints; the connection tasks change the bus model       *)
(* between any two of these.  `turn` is the place in that loop.  App is one  *)
(* record, a handler is an operator from one App to the next, and a text   *)
(* the user types is chosen when Enter takes it.                           *)
(*                                                                         *)
(* A cursor is the row counted from 1, 0 when nothing is selected.  Those  *)
(* of the views that select row 0 whenever they are opened live in the     *)
(* screen; Devices and the timeline keep theirs while another is shown.    *)
(***************************************************************************)
EXTENDS Integers, Sequences, FiniteSets

CONSTANTS
  Keys,          \* the (pgn, src) a record can carry
  Rates,         \* the overrides the server can report: [src, pgn, off]
  MuteRows,      \* the rows of the NMEA 0183 filter: [src, sentence]
  PgnList,       \* PGN 126464, the list of what a device transmits
  Advertised,    \* source -> the PGNs its list names
  MaxHistory,    \* bound: records of one session
  MaxEvents,     \* bound: errors, reports and connection changes in all
  MaxKeys,       \* bound: keys that a menu or a screen took
  None

VARIABLES
  session,   \* Status and save_progress: mode, which source, flags,
             \* the saves that are spawned and those that run
  history,   \* AppState::history, the key of each record
  rates,     \* AppState::overrides
  mutes,     \* AppState::nmea0183, row -> muted
  app,       \* App
  turn,        \* the event loop: "wait", "command", "draw", "ended"
  events,    \* events used of MaxEvents
  pressed    \* keys used of MaxKeys

data == <<session, history, rates, mutes>>
tuiVars == <<session, history, rates, mutes, app, turn, events, pressed>>

AnySrc == {k.src : k \in Keys}
AnyPgn == {k.pgn : k \in Keys}
Below(a, b) == a < b

-----------------------------------------------------------------------------
(* What the lists of the bus model show (state.rs, detail_rows).           *)

\* The members of a set in order: the i-th is the one with i - 1 before it.
Sorted(S, Before(_, _)) ==
  [i \in 1..Cardinality(S) |->
     CHOOSE x \in S : Cardinality({y \in S : Before(y, x)}) = i - 1]

Seen == {history[i] : i \in 1..Len(history)}
HistoryOf(k) == Sorted({i \in 1..Len(history) : history[i] = k}, Below)
DeviceList == Sorted({k.src : k \in Seen}, Below)
Count(p) == Cardinality({i \in 1..Len(history) : history[i].pgn = p})
PgnLoadRows == Sorted({k.pgn : k \in Seen},
                      LAMBDA p, q : Count(p) > Count(q)
                                    \/ (Count(p) = Count(q) /\ p < q))
OverrideRows(R) == Sorted(R, LAMBDA a, b : a.src < b.src
                                  \/ (a.src = b.src /\ a.pgn < b.pgn))
FilterRows == Sorted(DOMAIN mutes, LAMBDA a, b : a.src < b.src
                           \/ (a.src = b.src /\ a.sentence < b.sentence))

\* The PGNs seen from src, the silenced ones and the advertised ones.
DetailRows(R, src) ==
  LET live == {k.pgn : k \in {k \in Seen : k.src = src}}
      silenced == {o.pgn : o \in {o \in R : o.src = src /\ o.off}}
      offered == IF PgnList \in live THEN Advertised[src] ELSE {}
      pgns == Sorted(live \union silenced \union offered, Below)
  IN [i \in DOMAIN pgns |-> [pgn |-> pgns[i], live |-> pgns[i] \in live]]

RowVisible(i) ==
  /\ app.pgns # None => history[i].pgn \in app.pgns
  /\ app.srcs # None => history[i].src \in app.srcs
Visible == Sorted({i \in 1..Len(history) : RowVisible(i)}, Below)

At(rows, i) == IF i \in 1..Len(rows) THEN rows[i] ELSE None

-----------------------------------------------------------------------------
(* App::new, reset_views and the small movements.                          *)

Devices == [at |-> "devices"]
TimeView == [at |-> "time"]

Init ==
  /\ session \in [mode : {"live", "log"}, id : {1}, loaded : {FALSE},
                  streaming : {FALSE}, error : {None}, saving : {FALSE}, spawned : {0}, running : {0}]
                 \union [mode : {"log"}, id : {0}, loaded : {TRUE},
                         streaming : {FALSE}, error : {None}, saving : {FALSE}, spawned : {0}, running : {0}]
  /\ history = <<>> /\ rates = {} /\ mutes = <<>>
  /\ app = [screen |-> Devices, devices |-> 1, time |-> 1,
            menu |-> None, help |-> FALSE, connect |-> FALSE,
            browser |-> IF session.id = 0 THEN "load" ELSE None,
            override |-> None, prompt |-> None, sources |-> None,
            query |-> None, pgns |-> None, srcs |-> None,
            splash |-> TRUE, dismissed |-> FALSE, acked |-> None,
            command |-> None, forget |-> None, out |-> None, quit |-> FALSE]
  /\ turn = "wait" /\ events = 0 /\ pressed = 0

ResetViews(a) ==
  [a EXCEPT !.screen = Devices, !.devices = 1, !.time = 1, !.pgns = None,
            !.srcs = None, !.query = None, !.menu = None, !.prompt = None,
            !.sources = None]

Navigate(row, n, step) ==
  IF n = 0 THEN 0
  ELSE LET cur == IF row = 0 THEN 0 ELSE row - 1 IN ((cur + step) % n) + 1

Goto(a, screen) == [a EXCEPT !.screen = screen]
Live == session.mode = "live"

\* Writer::send: FALSE when the connection's task has gone.
Sent(a, line, ok) == IF ok THEN [a EXCEPT !.out = line] ELSE a
Line(what, src, arg) ==
  [to |-> session.id, what |-> what, src |-> src, arg |-> arg]

-----------------------------------------------------------------------------
(* What a key, a menu item and Enter share.                                *)

OpenEntry(a, src, pgn, pos) ==
  Goto(a, [at |-> "entry", src |-> src, pgn |-> pgn, pos |-> pos,
           back |-> a.screen])

\* Mutant: the cursor counts the records, whatever the filters hide.
DrillIntoTimeRaw(a) ==
  LET i == IF a.time \in 1..Len(history) THEN a.time ELSE None IN
  IF i = None THEN a
  ELSE OpenEntry(a, history[i].src, history[i].pgn,
                 CHOOSE p \in DOMAIN HistoryOf(history[i]) : HistoryOf(history[i])[p] = i)

DrillIntoTime(a) ==
  LET i == At(Visible, a.time) IN
  IF i = None THEN a
  ELSE OpenEntry(a, history[i].src, history[i].pgn,
                 CHOOSE p \in DOMAIN HistoryOf(history[i]) : HistoryOf(history[i])[p] = i)

\* A row of count 0 has nothing to show.
DrillIntoDetail(a, src) ==
  LET row == At(DetailRows(rates, src), a.screen.row) IN
  IF row = None \/ ~row.live THEN a
  ELSE OpenEntry(a, src, row.pgn,
                 Len(HistoryOf([pgn |-> row.pgn, src |-> src])))

OpenDevice(a) ==
  LET src == At(DeviceList, a.devices) IN
  IF src = None THEN a ELSE Goto(a, [at |-> "device", src |-> src, row |-> 1])

DrillIntoTop(a) ==
  LET p == At(PgnLoadRows, a.screen.row) IN
  IF p = None THEN a
  ELSE [a EXCEPT !.pgns = {p}, !.time = 1, !.screen = TimeView]

EditRate(a) ==
  LET o == At(OverrideRows(rates), a.screen.row) IN
  IF o = None THEN a
  ELSE [a EXCEPT !.override = [src |-> o.src, pgn |-> o.pgn]]

DeleteRate(a, ok) ==
  LET o == At(OverrideRows(rates), a.screen.row) IN
  IF o = None THEN a
  ELSE [Sent(a, Line("delete", o.src, o.pgn), ok) EXCEPT
          !.forget = IF ok THEN [src |-> o.src, pgn |-> o.pgn] ELSE @]

ToggleMute(a, ok) ==
  LET r == At(FilterRows, a.screen.row) IN
  IF r = None THEN a ELSE Sent(a, Line("mute", r.src, ~mutes[r]), ok)

IsoRequest(a, ok) == Sent(a, Line("request", a.screen.src, PgnList), ok)

OverrideDialog(a) ==
  LET row == At(DetailRows(rates, a.screen.src), a.screen.row) IN
  IF row = None THEN a
  ELSE [a EXCEPT !.override = [src |-> a.screen.src, pgn |-> row.pgn]]

SourcesDialog(a) ==
  LET listed == {k.src : k \in Seen} IN
  [a EXCEPT !.sources = [listed |-> listed,
      selected |-> IF a.srcs = None THEN listed ELSE a.srcs]]

GoBack(a) == Goto(a, IF a.screen.at = "entry" THEN a.screen.back ELSE Devices)

\* Enter: Device > Open Entry, and the accelerator on each screen.
ActivateSelection(a, ok) ==
  CASE a.screen.at = "devices" -> OpenDevice(a)
    [] a.screen.at = "device" -> DrillIntoDetail(a, a.screen.src)
    [] a.screen.at = "time" -> DrillIntoTime(a)
    [] a.screen.at = "nmea" -> ToggleMute(a, ok)
    [] a.screen.at = "overrides" -> EditRate(a)
    [] OTHER -> a

\* jump_search: dir is 0 for the first match from the cursor on.
JumpSearch(a, dir) ==
  LET Hits(q) == {v \in 1..Len(Visible) : history[Visible[v]].pgn = q}
      cur == IF a.time = 0 THEN 1 ELSE a.time
      Least(S) == CHOOSE v \in S : \A w \in S : v <= w
      Greatest(S) == CHOOSE v \in S : \A w \in S : v >= w
      Pick(hits) ==
        LET ahead == {v \in hits : IF dir = 0 THEN v >= cur
                                   ELSE IF dir = 1 THEN v > cur ELSE v < cur}
        IN IF dir = -1 THEN Greatest(IF ahead = {} THEN hits ELSE ahead)
           ELSE Least(IF ahead = {} THEN hits ELSE ahead)
  IN IF a.query = None \/ Hits(a.query) = {} THEN a
     ELSE [a EXCEPT !.time = Pick(Hits(a.query))]

-----------------------------------------------------------------------------
(* The menus.  The highlight is left out: Enter fires the item it is on,   *)
(* a hotkey the item it names, and either only when the item is enabled.   *)

OnDetail == app.screen.at = "device"
OnTime == app.screen.at = "time"
Idle == ~session.saving

Enabled(title) ==
  CASE title = "file" ->
         {"quit"} \union (IF Idle THEN {"connect", "load"} ELSE {})
                  \union (IF Idle /\ history # <<>> /\ session.loaded
                          THEN {"save"} ELSE {})
    [] title = "view" ->
         {"devices", "timeline", "top"}
           \union (IF Live THEN {"nmea", "overrides"} ELSE {})
           \union (IF app.screen # Devices THEN {"back"} ELSE {})
    [] title = "device" ->
         (IF OnDetail THEN {"open"} ELSE {})
           \union (IF OnDetail /\ Live THEN {"request", "interval"} ELSE {})
    [] title = "search" ->
         IF OnTime THEN {"find", "next", "previous", "pgns", "sources"} ELSE {}
    [] title = "help" -> {"help"}
Titles == {"file", "view", "device", "search", "help"}

RunMenuAction(a, item, ok) ==
  CASE item = "quit" -> [a EXCEPT !.quit = TRUE]
    [] item = "connect" -> [a EXCEPT !.connect = TRUE]
    [] item = "load" -> [a EXCEPT !.browser = "load"]
    [] item = "save" -> [a EXCEPT !.browser = "save"]
    [] item = "devices" -> Goto(a, Devices)
    [] item = "timeline" -> Goto(a, TimeView)
    [] item = "top" -> Goto(a, [at |-> "top", row |-> 1])
    [] item \in {"nmea", "overrides"} ->
         IF Live THEN Goto(a, [at |-> item, row |-> 1]) ELSE a
    [] item = "back" -> GoBack(a)
    [] item = "open" -> ActivateSelection(a, ok)
    [] item = "request" -> IF OnDetail /\ Live THEN IsoRequest(a, ok) ELSE a
    [] item = "interval" -> IF OnDetail /\ Live THEN OverrideDialog(a) ELSE a
    [] item = "find" -> [a EXCEPT !.prompt = "search"]
    [] item = "next" -> JumpSearch(a, 1)
    [] item = "previous" -> JumpSearch(a, -1)
    [] item = "pgns" -> [a EXCEPT !.prompt = "filter"]
    [] item = "sources" -> SourcesDialog(a)
    [] item = "help" -> [a EXCEPT !.help = TRUE]

-----------------------------------------------------------------------------
(* handle_key: one action per place a key can go to, in the order in which *)
(* they claim it.                                                          *)

Unacknowledged == session.error # None /\ session.error # app.acked
Focus ==
  CASE app.splash -> "splash"
    [] ~app.splash /\ Unacknowledged -> "error"
    [] ~app.splash /\ ~Unacknowledged /\ ~app.dismissed -> "connecting"
    [] OTHER ->
         CASE app.help -> "help"
           [] ~app.help /\ app.menu # None -> "menu"
           [] ~app.help /\ app.menu = None /\ app.browser # None -> "browser"
           [] OTHER -> IF app.connect THEN "connect"
                       ELSE IF app.override # None THEN "override"
                       ELSE IF app.prompt # None THEN "prompt"
                       ELSE IF app.sources # None THEN "sources" ELSE "screen"

\* The app without what the last key sent.
Quiet == [app EXCEPT !.out = None]

Press(focus, a) ==
  /\ turn = "wait" /\ Focus = focus
  /\ pressed' = IF focus \in {"menu", "screen"} THEN pressed + 1 ELSE pressed
  /\ pressed' <= MaxKeys
  /\ app' = a
  /\ turn' = IF a.quit THEN "ended" ELSE IF a.command # None THEN "command" ELSE "draw"
  /\ UNCHANGED <<data, events>>

CtrlC == \E focus \in {Focus} : Press(focus, [Quiet EXCEPT !.quit = TRUE])
SkipSplash == Press("splash", [Quiet EXCEPT !.splash = FALSE])
Acknowledge == Press("error", [Quiet EXCEPT !.acked = session.error])
DismissConnecting == Press("connecting", [Quiet EXCEPT !.dismissed = TRUE])
DismissHelp == Press("help", [Quiet EXCEPT !.help = FALSE])

MenuSwitch(title) == Press("menu", [Quiet EXCEPT !.menu = title])
MenuClose == Press("menu", [Quiet EXCEPT !.menu = None])
MenuFire(item, ok) ==
  /\ app.menu # None /\ item \in Enabled(app.menu)
  /\ Press("menu", RunMenuAction([Quiet EXCEPT !.menu = None], item, ok))

\* Esc, and Enter on a file to load or with a name to save under.
BrowserCancel == Press("browser", [Quiet EXCEPT !.browser = None])
BrowserConfirm ==
  Press("browser", [Quiet EXCEPT !.browser = None, !.command = app.browser])

\* Enter with an endpoint, or with nothing: cancelled.
ConnectCancel == Press("connect", [Quiet EXCEPT !.connect = FALSE])
ConnectConfirm == Press("connect", [Quiet EXCEPT !.connect = FALSE, !.command = "connect"])

\* Enter with a number sends it, and the dialog closes even if nobody is there
\* to take it; with anything else the dialog stays.
OverrideCancel == Press("override", [Quiet EXCEPT !.override = None])
OverrideInvalid == Press("override", Quiet)
OverrideConfirm(ok) ==
  /\ app.override # None
  /\ Press("override", [Sent(Quiet, Line("set", app.override.src, app.override.pgn), ok)
                          EXCEPT !.override = None])

\* Mutant: a text without a number in it filters everything out.
ApplyFilterAny(a, list) == [a EXCEPT !.prompt = None, !.pgns = list, !.time = 1]

\* The `f` prompt: nothing typed clears the filter; so does a text without a
\* number in it.
ApplyFilter(a, list) ==
  [a EXCEPT !.prompt = None, !.pgns = IF list = {} THEN None ELSE list, !.time = 1]

PromptCancel == Press("prompt", [Quiet EXCEPT !.prompt = None])
PromptClear ==
  Press("prompt", IF app.prompt = "search" THEN [Quiet EXCEPT !.prompt = None, !.query = None]
                  ELSE [Quiet EXCEPT !.prompt = None, !.pgns = None])
PromptSearch(q) ==
  /\ app.prompt = "search"
  /\ Press("prompt", JumpSearch([Quiet EXCEPT !.prompt = None, !.query = q], 0))
PromptFilter(list) == app.prompt = "filter" /\ Press("prompt", ApplyFilter(Quiet, list))

\* Mutant: what is checked is taken as it is.
ApplySourcesRaw(a) == [a EXCEPT !.sources = None, !.srcs = a.sources.selected, !.time = 1]

\* All of them, or none, is no filter.
ApplySources(a) ==
  LET all == a.sources.listed \subseteq a.sources.selected IN
  [a EXCEPT !.sources = None, !.time = 1,
            !.srcs = IF all \/ a.sources.selected = {} THEN None ELSE a.sources.selected]

SourcesCancel == Press("sources", [Quiet EXCEPT !.sources = None])
SourcesToggle(src) ==
  /\ app.sources # None /\ src \in app.sources.listed
  /\ Press("sources", [Quiet EXCEPT !.sources.selected =
                         IF src \in @ THEN @ \ {src} ELSE @ \union {src}])
SourcesAll ==
  /\ app.sources # None
  /\ Press("sources", [Quiet EXCEPT !.sources.selected =
       IF Cardinality(@) = Cardinality(app.sources.listed) THEN {} ELSE app.sources.listed])
SourcesConfirm == app.sources # None /\ Press("sources", ApplySources(Quiet))

\* F10 and Alt with a letter; F1; and the keys of every screen.
OpenMenu(title) == Press("screen", [Quiet EXCEPT !.menu = title])
OpenHelp == Press("screen", [Quiet EXCEPT !.help = TRUE])
QuitKey == Press("screen", [Quiet EXCEPT !.quit = TRUE])
ToTimeline == Press("screen", Goto(Quiet, TimeView))
ToTop == Press("screen", Goto(Quiet, [at |-> "top", row |-> 1]))

\* What is listed on the screen, and the cursor in it.
Length(R, a) ==
  CASE a.screen.at = "devices" -> Len(DeviceList)
    [] a.screen.at = "device" -> Len(DetailRows(R, a.screen.src))
    [] a.screen.at = "time" -> Len(Visible)
    [] a.screen.at = "top" -> Len(PgnLoadRows)
    [] a.screen.at = "nmea" -> Len(FilterRows)
    [] a.screen.at = "overrides" -> Len(OverrideRows(R))
Row(a) == CASE a.screen.at = "devices" -> a.devices
            [] a.screen.at = "time" -> a.time
            [] OTHER -> a.screen.row
PutRow(a, row) == CASE a.screen.at = "devices" -> [a EXCEPT !.devices = row]
                    [] a.screen.at = "time" -> [a EXCEPT !.time = row]
                    [] OTHER -> [a EXCEPT !.screen.row = row]

Arrow(step) ==
  /\ app.screen.at # "entry"
  /\ Press("screen", PutRow(Quiet, Navigate(Row(app), Length(rates, app), step)))
EntryStep(step) ==
  /\ app.screen.at = "entry"
  /\ Press("screen", [Quiet EXCEPT !.screen.pos = IF step < 0 /\ @ = 1 THEN 1 ELSE @ + step])

\* Enter, Space, `e`: as the menu, and on PGN Load the timeline of that PGN.
EnterKey(ok) ==
  /\ app.screen.at # "entry"
  /\ Press("screen", IF app.screen.at = "top" THEN DrillIntoTop(Quiet)
                     ELSE ActivateSelection(Quiet, ok))
EscKey == app.screen # Devices /\ Press("screen", GoBack(Quiet))
\* `d` everywhere but on Devices, a device, an entry and the overrides.
DevicesKey == app.screen.at \in {"top", "time", "nmea"} /\ Press("screen", Goto(Quiet, Devices))
LiveKey(view) == /\ app.screen = Devices /\ Live
                 /\ Press("screen", Goto(Quiet, [at |-> view, row |-> 1]))
DeleteKey(ok) == app.screen.at = "overrides" /\ Press("screen", DeleteRate(Quiet, ok))
RequestKey(ok) == OnDetail /\ Live /\ Press("screen", IsoRequest(Quiet, ok))
IntervalKey == OnDetail /\ Live /\ Press("screen", OverrideDialog(Quiet))
PromptKey(kind) == OnTime /\ Press("screen", [Quiet EXCEPT !.prompt = kind])
SourcesKey == OnTime /\ Press("screen", SourcesDialog(Quiet))
NextKey(dir) == OnTime /\ Press("screen", JumpSearch(Quiet, dir))

-----------------------------------------------------------------------------
(* The rest of the loop: the timer, execute_command and the repaint.       *)

\* No key: the timer, or an event that is none.
Tick == turn = "wait" /\ turn' = "draw" /\ app' = Quiet /\ UNCHANGED <<data, events, pressed>>
\* The terminal has no more events, or takes no more output.
TerminalEnds == turn \in {"wait", "draw"} /\ turn' = "ended" /\ UNCHANGED <<data, app, events, pressed>>

NewSession(mode, loaded) ==
  [mode |-> mode, id |-> session.id + 1, loaded |-> loaded, streaming |-> FALSE,
   error |-> None, saving |-> FALSE, spawned |-> 0, running |-> 0]

\* The old tasks are aborted, the bus model is a new one.
Swap(mode) ==
  /\ ~session.saving
  /\ session' = NewSession(mode, FALSE)
  /\ history' = <<>> /\ rates' = {} /\ mutes' = <<>>
  /\ app' = [ResetViews(app) EXCEPT !.command = None, !.dismissed = (mode = "log")]
Save ==
  /\ session' = IF session.loaded /\ ~session.saving
                THEN [session EXCEPT !.spawned = @ + 1] ELSE session
  /\ app' = [app EXCEPT !.command = None]
  /\ UNCHANGED <<history, rates, mutes>>
RefuseSwap ==
  /\ session.saving
  /\ app' = [app EXCEPT !.command = None]
  /\ UNCHANGED data

Command ==
  /\ turn = "command" /\ turn' = "draw"
  /\ CASE app.command = "connect" -> Swap("live") \/ RefuseSwap
       [] app.command = "load" -> Swap("log") \/ RefuseSwap
       [] app.command = "save" -> Save
  /\ UNCHANGED <<events, pressed>>

\* Mutant: a list that has shrunk under its cursor.
FixNot(row, n) == IF n = 0 THEN 0 ELSE IF row = 0 THEN 1 ELSE row
Fix(row, n) == IF n = 0 THEN 0 ELSE IF row = 0 THEN 1 ELSE IF row > n THEN n ELSE row

\* Mutant: the position in an entry's history is not looked at.
ClampNot(a) == a
\* A step past the last record of the entry is taken back.
Clamp(a) ==
  IF a.screen.at # "entry" THEN a
  ELSE LET n == Len(HistoryOf([pgn |-> a.screen.pgn, src |-> a.screen.src]))
       IN IF n > 0 /\ a.screen.pos > n THEN [a EXCEPT !.screen.pos = n] ELSE a

\* The overlay goes when there is nothing to connect to, or all is well.
Dismiss(a) ==
  IF ~Live \/ (session.loaded /\ session.streaming /\ session.error = None)
  THEN [a EXCEPT !.dismissed = TRUE] ELSE a

\* The lists keep a row selected, inside of them.
Render(a, R) == IF a.screen.at = "entry" THEN a ELSE PutRow(a, Fix(Row(a), Length(R, a)))

Draw ==
  LET R == {o \in rates : app.forget = None \/ [src |-> o.src, pgn |-> o.pgn] # app.forget}
      shown == Dismiss(Clamp([app EXCEPT !.forget = None]))
  IN /\ turn = "draw" /\ turn' = "wait" /\ rates' = R
     /\ app' \in IF shown.splash THEN {shown, [shown EXCEPT !.splash = FALSE]} ELSE {Render(shown, R)}
     /\ UNCHANGED <<session, history, mutes, events, pressed>>

-----------------------------------------------------------------------------
(* The tasks of the session, between any two steps of the loop.            *)

Happens == turn # "ended" /\ events < MaxEvents /\ events' = events + 1 /\ UNCHANGED <<app, turn, pressed>>

Record(k) ==
  /\ Happens /\ Len(history) < MaxHistory
  /\ session.id > 0 /\ (Live \/ ~session.loaded)
  /\ history' = Append(history, k)
  /\ UNCHANGED <<session, rates, mutes>>
StatusChange(s) == Happens /\ session.id > 0 /\ session' = s /\ UNCHANGED <<history, rates, mutes>>
Loaded == ~session.loaded /\ StatusChange([session EXCEPT !.loaded = TRUE])
Stream(up) == Live /\ session.streaming # up /\ StatusChange([session EXCEPT !.streaming = up])
Error == session.error = None /\ StatusChange([session EXCEPT !.error = "broken"])
Report(o) ==
  /\ Happens /\ Live
  /\ rates' = {x \in rates : x.src # o.src \/ x.pgn # o.pgn} \union {o}
  /\ UNCHANGED <<session, history, mutes>>
\* The server has not reported it for a while.
Expire(o) ==
  /\ turn # "ended" /\ o \in rates /\ rates' = rates \ {o}
  /\ UNCHANGED <<session, history, mutes, app, turn, events, pressed>>
\* The row for all of a device comes with its first sentence.
Header(r) == [src |-> r.src, sentence |-> 0]
MuteReport(r, muted) ==
  /\ Happens /\ Live
  /\ mutes' = [x \in DOMAIN mutes \union {r, Header(r)} |->
                 IF x = r THEN muted ELSE IF x \in DOMAIN mutes THEN mutes[x] ELSE FALSE]
  /\ UNCHANGED <<session, history, rates>>
\* The first of two saves to end takes the progress bar away.
SaveStarts ==
  /\ session.spawned > 0 /\ turn # "ended"
  /\ session' = [session EXCEPT !.spawned = @ - 1, !.running = @ + 1, !.saving = TRUE]
  /\ UNCHANGED <<history, rates, mutes, app, turn, events, pressed>>
SaveEnds(e) ==
  /\ session.running > 0 /\ turn # "ended"
  /\ session' = [session EXCEPT !.running = @ - 1, !.saving = FALSE, !.error = e]
  /\ UNCHANGED <<history, rates, mutes, app, turn, events, pressed>>

Keypress ==
  \/ CtrlC \/ SkipSplash \/ Acknowledge \/ DismissConnecting \/ DismissHelp
  \/ \E title \in Titles : MenuSwitch(title) \/ OpenMenu(title)
  \/ MenuClose \/ \E ok \in BOOLEAN : \E item \in IF app.menu = None THEN {} ELSE Enabled(app.menu) : MenuFire(item, ok)
  \/ BrowserCancel \/ BrowserConfirm \/ ConnectCancel \/ ConnectConfirm
  \/ OverrideCancel \/ OverrideInvalid \/ \E ok \in BOOLEAN : OverrideConfirm(ok)
  \/ PromptCancel \/ PromptClear \/ \E q \in AnyPgn : PromptSearch(q)
  \/ \E list \in {{}, AnyPgn} \union {{p} : p \in AnyPgn} : PromptFilter(list)
  \/ SourcesCancel \/ SourcesAll \/ SourcesConfirm \/ \E src \in AnySrc : SourcesToggle(src)
  \/ OpenHelp \/ QuitKey \/ ToTimeline \/ ToTop
  \/ \E step \in {-1, 1} : Arrow(step) \/ EntryStep(step) \/ NextKey(step)
  \/ \E ok \in BOOLEAN : EnterKey(ok) \/ DeleteKey(ok) \/ RequestKey(ok)
  \/ EscKey \/ DevicesKey \/ LiveKey("nmea") \/ LiveKey("overrides")
  \/ IntervalKey \/ SourcesKey \/ PromptKey("search") \/ PromptKey("filter")

Tasks ==
  \/ \E k \in Keys : Record(k)
  \/ Loaded \/ Stream(TRUE) \/ Stream(FALSE) \/ Error
  \/ \E o \in Rates : Report(o) \/ Expire(o)
  \/ \E r \in MuteRows, muted \in BOOLEAN : MuteReport(r, muted)
  \/ SaveStarts \/ SaveEnds(None) \/ SaveEnds("save")

Next == Keypress \/ Tick \/ TerminalEnds \/ Command \/ Draw \/ Tasks
Spec == Init /\ [][Next]_tuiVars

-----------------------------------------------------------------------------
(* What holds.                                                             *)

Drawn == turn = "wait" /\ ~app.splash
Dialogs == (IF app.browser # None THEN {"browser"} ELSE {}) \union (IF app.connect THEN {"connect"} ELSE {})
           \union (IF app.override # None THEN {"override"} ELSE {}) \union (IF app.prompt # None THEN {"prompt"} ELSE {})
           \union (IF app.sources # None THEN {"sources"} ELSE {}) \union (IF app.menu # None THEN {"menu"} ELSE {})
           \union (IF app.help THEN {"help"} ELSE {})

\* Type invariant (App: the cursors, and the session it shows).
TypeOK ==
  /\ session.mode \in {"live", "log"} /\ session.id \in Nat
  /\ history \in Seq(Keys) /\ rates \subseteq Rates /\ DOMAIN mutes \subseteq MuteRows
  /\ app.screen.at \in {"devices", "device", "entry", "time", "top", "nmea", "overrides"}
  /\ app.devices \in Nat /\ app.time \in Nat
  /\ turn \in {"wait", "command", "draw", "ended"}

\* "Open dialogs capture all input ... so the menu (or Help) can't open behind
\* them": two are never open, and none is when a command is carried out
\* (handle_key, ui.rs:1183).
OneDialog == Cardinality(Dialogs) <= 1 /\ (app.command # None => Dialogs = {})

\* What writes to the bus is shown, and sent, only with a live connection, and
\* only to the one that is shown: neither outlives a Load (reset_views).
OnlyLive ==
  /\ app.screen.at \in {"nmea", "overrides"} => Live
  /\ app.override # None => Live
  /\ app.out # None => Live /\ app.out.to = session.id

\* The record on the screen is one of this session, and the position in its
\* history is one it has (draw's clamp); so is the place to go back to.
EntryIsThere ==
  app.screen.at = "entry" =>
    LET n == Len(HistoryOf([pgn |-> app.screen.pgn, src |-> app.screen.src]))
    IN /\ n > 0 /\ app.screen.back.at \in {"device", "time"}
       /\ turn = "wait" => app.screen.pos \in 1..n

\* A filter always lets something through, or there is none (filter_pgns:
\* "Some([]) is never produced"), and never has every source that is listed.
FiltersMean ==
  /\ app.pgns # {} /\ app.srcs # {}
  /\ app.srcs # None => \E src \in AnySrc : src \notin app.srcs

ScreenIsTrue == OneDialog /\ OnlyLive /\ EntryIsThere /\ FiltersMean

\* A repaint leaves a row selected exactly when there is one (the list views);
\* from the timeline Enter opens the very record under the cursor, with the
\* filters that are set (drill_into_time_selection); a repaint of an unchanged
\* list moves no cursor.
KeysKeepTheirWord ==
  /\ Draw /\ ~app.splash /\ app.screen.at # "entry" =>
       /\ (Row(app') = 0) <=> (Length(rates', app) = 0)
       /\ Row(app') <= Length(rates', app)
       /\ Row(app) \in 1..Length(rates', app) => Row(app') = Row(app)
  /\ app.screen.at = "time" /\ app'.screen.at = "entry" =>
       /\ app.time \in 1..Len(Visible)
       /\ HistoryOf([pgn |-> app'.screen.pgn, src |-> app'.screen.src])[app'.screen.pos] = Visible[app.time]
=============================================================================
