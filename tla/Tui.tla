-------------------------------- MODULE Tui --------------------------------
(***************************************************************************)
(* The display of a run: the callbacks of ltf_tui.c, the calls of          *)
(* picotui.c that they make, and the terminal that these write to.  The    *)
(* lower rows hold a panel that is drawn again after every write; what is  *)
(* logged scrolls in a region above it, and a write goes on where the last *)
(* one ended, which only picotui remembers.  A resize may come between any *)
(* two calls.                                                              *)
(*                                                                         *)
(* The terminal is external: rows, a cursor, a scroll region, and the      *)
(* lines that scrolled out above.  A piece of text is one column wide, and *)
(* a line fits; colours and blanks are left out.  The panel has a row for each of *)
(* its parts (rows 0-7, 8-11 and 12-14 of the 15 in the code).             *)
(***************************************************************************)
EXTENDS Integers, Sequences, FiniteSets, SequencesExt

CONSTANTS
  Heights,     \* numbers of rows that the terminal may have
  Columns,     \* its columns, as many as its longest line has, and one more
  MaxTests, MaxLogs, MaxResizes

TuiConstantsOK ==
  /\ Heights \subseteq Nat \ {0, 1} /\ Columns \in Nat \ {0}
  /\ MaxTests \in Nat /\ MaxLogs \in Nat /\ MaxResizes \in Nat

VARIABLES
  term,     \* the terminal
  ui,       \* pico_t
  calls,    \* the calls that the running callback still makes
  phase,    \* where the run is
  tests,    \* the run record: the states of its tests
  logs,     \* bound: what was logged so far
  resizes,  \* bound: how often the terminal was resized
  cramped,  \* history: the terminal had no room for two rows above the panel
  written   \* history: the lines written above the panel since the last resize,
            \*   of which the last one goes on

tuiVars == <<term, ui, calls, phase, tests, logs, resizes, cramped, written>>

Panel == 3        \* pico_init(15, ...)
NL    == <<"\n">>
Blank == <<" ">>
Junk  == <<"?">>  \* what a resize makes of a row: terminals differ

-----------------------------------------------------------------------------
(* The terminal.  Rows and columns count from 0; the region begins at 0.   *)

Least(a, b)    == IF a < b THEN a ELSE b
Greatest(a, b) == IF a > b THEN a ELSE b

Cup(t, row, col) == [t EXCEPT !.row = Least(row, t.rows - 1), !.col = col]

\* A region of a single line is ignored; another one sends the cursor home.
Csr(t, bot) ==
  IF bot > 0 THEN [t EXCEPT !.bot = Least(bot, t.rows - 1), !.row = 0, !.col = 0] ELSE t

El(t) == [t EXCEPT !.lines[t.row] = SubSeq(@, 1, t.col)]

LineFeed(t) ==
  IF t.row = t.bot
    THEN [t EXCEPT !.col = 0,
                   !.above = Append(@, t.lines[0]),
                   !.lines = [r \in 0 .. t.rows - 1 |->
                                IF r < t.bot THEN @[r + 1] ELSE IF r = t.bot THEN << >> ELSE @[r]]]
    ELSE [t EXCEPT !.col = 0, !.row = Least(@ + 1, t.rows - 1)]

Put(t, piece) ==
  [t EXCEPT !.lines[t.row] = [i \in 1 .. Greatest(Len(@), t.col + 1) |->
                                IF i = t.col + 1 THEN piece
                                ELSE IF i <= Len(@) THEN @[i] ELSE Blank],
            !.col = @ + 1]

Piece(t, p) == IF p = NL THEN LineFeed(t) ELSE Put(t, p)

\* write_str
Write(t, text) ==
  LET after[n \in 0 .. Len(text)] ==
        IF n = 0 THEN t ELSE Piece(after[n - 1], text[n])
  IN  after[Len(text)]

-----------------------------------------------------------------------------
(* picotui: operators on w, a terminal t with its pico_t u.                *)

Sized(rows) == [alive |-> TRUE, sz |-> rows, ui_rows |-> Panel, stream_anchor_set |-> FALSE,
                stream_cur_col |-> 0, resized |-> FALSE]

StreamBottomRow(u) == Greatest(0, u.sz - u.ui_rows - 1)
PanelTop(u)        == Greatest(0, u.sz - u.ui_rows)

\* advance_col_text
Advance(col, text) ==
  LET after[n \in 0 .. Len(text)] ==
        IF n = 0 THEN col ELSE IF text[n] = NL THEN 0 ELSE after[n - 1] + 1
  IN  after[Len(text)]

Amount(s) == Cardinality({i \in DOMAIN tests : tests[i] = s})

\* What the panel shows of the record in each row.
Shows(row) ==
  CASE row = 0 -> <<"LTF">>
    [] row = 1 -> <<"progress", Len(tests)>>
    [] row = 2 -> <<"summary", Amount("passed"), Amount("failed")>>

\* pico_ui_clear_line and pico_ui_puts_yx
PutPanel(w, row) ==
  LET r       == PanelTop(w.u) + row
      cleared == IF r >= w.u.sz THEN w.t ELSE El(Cup(w.t, r, 0)) IN
  [w EXCEPT !.t = Put(Cup(cleared, Least(r, w.u.sz - 1), 0), Shows(row))]

\* render_progress and render_ui
RenderProgress(w) == PutPanel(PutPanel(w, 1), 2)
Render(w)         == RenderProgress(PutPanel(w, 0))

\* clear_ui_region
ClearPanel(w) ==
  LET after[n \in 0 .. w.u.ui_rows] ==
        IF n = 0 THEN w.t ELSE El(Cup(after[n - 1], PanelTop(w.u) + n - 1, 0))
  IN  [w EXCEPT !.t = after[w.u.ui_rows]]

\* pico_redraw_ui
Redraw(w) == Render(ClearPanel(w))

\* reprogram_region_and_redraw
Reprogram(w) ==
  LET u == [w.u EXCEPT !.sz = w.t.rows,
                       !.ui_rows = Least(Greatest(1, @), Greatest(1, w.t.rows - 1))]
      t == Csr(Csr(w.t, w.u.sz - 1), StreamBottomRow(u))
      r == Redraw([t |-> t, u |-> u])
  IN [r EXCEPT !.t = Cup(@, StreamBottomRow(u), 0), !.u.stream_anchor_set = FALSE]

\* handle_resize_if_needed
HandleResize(w) == IF w.u.resized THEN Reprogram([w EXCEPT !.u.resized = FALSE]) ELSE w

\* pico_attach
Attach(w) ==
  LET room == [i \in 1 .. w.u.ui_rows |-> NL]
      r    == Redraw([w EXCEPT !.t = Write(Cup(@, w.u.sz - 1, 0), room)])
  IN [r EXCEPT !.t = Cup(Csr(@, StreamBottomRow(w.u)), StreamBottomRow(w.u), 0)]

\* ensure_stream_anchor: where the last write ended, or at the start of the row.
StreamCol(u) == IF u.stream_anchor_set THEN u.stream_cur_col ELSE 0

\* Mutant: the column is not remembered.
WriteStreamAtStart(w, text) ==
  [w EXCEPT !.t = Write(Cup(@, StreamBottomRow(w.u), 0), text),
            !.u.stream_anchor_set = TRUE]

\* pico_print and pico_printf up to the render: on from where the last one ended.
WriteStream(w, text) ==
  LET col == StreamCol(w.u) IN
  [w EXCEPT !.t = Write(Cup(@, StreamBottomRow(w.u), col), text),
            !.u.stream_anchor_set = TRUE,
            !.u.stream_cur_col = Advance(col, text)]

\* pico_println up to the render: always from the start of the row.
WriteLine(w, text) ==
  [w EXCEPT !.t = Write(Cup(@, StreamBottomRow(w.u), 0), Append(text, NL)),
            !.u.stream_anchor_set = FALSE]

\* pico_print_block up to the render: a block that ends its line gives up the place;
\* of another one the last line is counted from the column the block began in.
WriteBlock(w, text) ==
  LET col  == StreamCol(w.u)
      ends == text # << >> /\ Last(text) = NL IN
  [w EXCEPT !.t = Write(Cup(@, StreamBottomRow(w.u), col), text),
            !.u.stream_anchor_set = ~ends,
            !.u.stream_cur_col = IF ends THEN col ELSE col + Advance(0, text)]

\* pico_shutdown
Shutdown(w) == [w EXCEPT !.t = Cup(Csr(@, w.u.sz - 1), w.u.sz - 1, 0)]

-----------------------------------------------------------------------------
(* The calls of a callback.  A write is followed by a render, and a block  *)
(* by an empty line.                                                       *)

Call(name, text) == [name |-> name, text |-> text]
Draw             == Call("render", << >>)
Say(text)        == Call("print", text)
SayLine(text)    == Call("println", text)
SayBlock(text)   == Call("block", text)

Become(w) == term' = w.t /\ ui' = w.u

\* A text as its writer means it: on in the open line, a new one after a line feed.
Add(lines, p) ==
  IF p = NL THEN Append(lines, << >>)
            ELSE [lines EXCEPT ![Len(lines)] = Append(@, p)]

Continued(lines, text) ==
  LET after[n \in 0 .. Len(text)] ==
        IF n = 0 THEN lines ELSE Add(after[n - 1], text[n])
  IN  after[Len(text)]

\* The next call is this one, and what it finds once it saw a resize.
Calling(name) == calls # << >> /\ Head(calls).name = name /\ ui.alive
Text          == Head(calls).text
Seen          == HandleResize([t |-> term, u |-> ui])

CallDone(then, wrote) ==
  /\ calls' = then \o Tail(calls)
  /\ written' = Continued(written, wrote)
  /\ UNCHANGED <<phase, tests, logs, resizes, cramped>>

PicoPrint ==
  /\ Calling("print")
  /\ Become(WriteStream(Seen, Text))
  /\ CallDone(<<Draw>>, Text)

\* It tells nothing new where the open line begins with its text.
PicoPrintln ==
  /\ Calling("println")
  /\ Become(WriteLine(Seen, Text))
  /\ CallDone(<<Draw>>, IF IsPrefix(Text, Last(written)) THEN <<NL>> ELSE Append(Text, NL))

PicoPrintBlock ==
  /\ Calling("block")
  /\ Become(WriteBlock(Seen, Text))
  /\ CallDone(<<Draw, SayLine(<< >>)>>, Text)

DrawPanel ==
  /\ Calling("render")
  /\ Become(Render(Seen))
  /\ CallDone(<< >>, << >>)

DrawProgress ==
  /\ Calling("progress")
  /\ Become(RenderProgress(Seen))
  /\ CallDone(<< >>, << >>)

\* ltf_tui_deinit: the lines after the panel make room for what the shell prints.
Deinit ==
  /\ LET w == Shutdown([t |-> term, u |-> ui]) IN
     /\ term' = [Write(w.t, <<NL, NL>>) EXCEPT !.visible = TRUE]
     /\ ui' = [w.u EXCEPT !.alive = FALSE]
  /\ UNCHANGED <<tests, logs, resizes, cramped, written>>

-----------------------------------------------------------------------------
Cramped(rows) == rows < Panel + 2

Init ==
  /\ \E rows \in Heights :
       /\ term = [rows |-> rows, lines |-> [r \in 0 .. rows - 1 |-> << >>], above |-> << >>,
                  bot |-> rows - 1, row |-> 0, col |-> 0, visible |-> TRUE]
       /\ ui = [Sized(rows) EXCEPT !.alive = FALSE]
       /\ cramped = Cramped(rows)
  /\ calls = << >> /\ phase = "start" /\ tests = << >>
  /\ logs = 0 /\ resizes = 0 /\ written = << << >> >>

\* ltf_tui_init
Start ==
  /\ phase = "start"
  /\ phase' = "run"
  /\ UNCHANGED <<calls, tests, logs, resizes, cramped, written>>
  /\ LET w == Attach([t |-> term, u |-> Sized(term.rows)]) IN
     Become([w EXCEPT !.t.visible = FALSE])

Idle    == phase = "run" /\ calls = << >>
Running == tests # << >> /\ Last(tests) = "running"

Callback(todo) == calls' = todo /\ UNCHANGED <<term, ui, phase, resizes, cramped, written>>

\* All columns but one are printed one by one; the last write begins in the first
\* column again, and ends the line.
Dash == << <<"-">> >>
Rule == [i \in 1 .. Columns |-> IF i < Columns THEN Say(Dash) ELSE SayLine(Dash)]
LTF  == Say(<< <<"[LTF]">> >>)

TestStarted ==
  /\ Idle /\ ~Running /\ Len(tests) < MaxTests
  /\ tests' = Append(tests, "running")
  /\ Callback(<<Draw>> \o Rule \o <<LTF, Say(<< <<"test", Len(tests')>>, NL>>)>>)
  /\ UNCHANGED logs

\* The reasons of a test, with numbers before them where there are several.
Reason(i) == SayBlock(<< <<"reason", i>> >>)
Listed(reasons) ==
  IF reasons = 1 THEN <<Reason(1)>>
  ELSE [k \in 1 .. 2 * reasons |->
          IF k % 2 = 1 THEN Say(<< <<"number", (k + 1) \div 2>> >>) ELSE Reason(k \div 2)]

\* No heading where there is no reason.
TestFinished(status, reasons) ==
  /\ Idle /\ Running
  /\ status = "passed" => reasons = 0
  /\ tests' = [tests EXCEPT ![Len(tests)] = status]
  /\ Callback(<<Draw>> \o (IF reasons = 0 THEN << >>
                           ELSE <<LTF, Say(<< <<"reasons">>, NL>>)>> \o Listed(reasons)))
  /\ UNCHANGED logs

Logged(todo) == Idle /\ logs < MaxLogs /\ logs' = logs + 1 /\ Callback(todo) /\ UNCHANGED tests

\* ltf_tui_log and ltf_tui_hook_log, of a message of one line, one that ends its
\* line, or two.
Log(body) ==
  Logged(<<Say(<< <<"level", logs>> >>), Say(<< <<"time", logs>> >>), SayBlock(body)>>)

DeferFailed == Logged(<<LTF, Say(<< <<"defer failed">>, NL>>), SayBlock(<< <<"trace", logs>> >>)>>)

HookFailed ==
  Logged(<<Draw, LTF, Say(<< <<"hook failed">>, NL>>), LTF, Say(<< <<"reason">>, NL>>),
           SayBlock(<< <<"trace", logs>> >>)>>)

\* The line hook of the Lua code of a test.
SetCurrentLine ==
  Idle /\ Running /\ Callback(<<Call("progress", << >>)>>) /\ UNCHANGED <<tests, logs>>

\* ltf_tui_hook_started of the last event
LastHookStarted ==
  Idle /\ ~Running /\ Len(tests) = MaxTests /\ Logged(<<Draw>> \o Rule)

\* run_all_tests after the teardown of a test
Interrupt == Idle /\ tests # << >> /\ ~Running /\ Deinit /\ phase' = "done" /\ UNCHANGED calls

\* tui_render_result
RenderResult ==
  /\ Idle /\ ~Running /\ Len(tests) = MaxTests
  /\ phase' = "result"
  /\ calls' = <<Draw>> \o Rule
  /\ UNCHANGED <<term, ui, tests, logs, resizes, cramped, written>>

FinishResult == phase = "result" /\ calls = << >> /\ Deinit /\ phase' = "done" /\ UNCHANGED calls

\* The window gets another size; some terminals reset the region then.
Resize(rows, bot) ==
  /\ phase \in {"run", "result"} /\ resizes < MaxResizes
  /\ rows # term.rows /\ bot \in {rows - 1, Least(term.bot, rows - 1)}
  /\ term' = [term EXCEPT !.rows = rows, !.lines = [r \in 0 .. rows - 1 |-> <<Junk>>],
                          !.above = << >>, !.bot = bot, !.row = 0, !.col = 0]
  /\ ui' = [ui EXCEPT !.resized = TRUE]
  /\ resizes' = resizes + 1
  /\ cramped' = (cramped \/ Cramped(rows))
  /\ written' = << << >> >>
  /\ UNCHANGED <<calls, phase, tests, logs>>

Terminated == phase = "done" /\ UNCHANGED tuiVars

Next ==
  \/ Start
  \/ PicoPrint \/ PicoPrintln \/ PicoPrintBlock \/ DrawPanel \/ DrawProgress
  \/ TestStarted
  \/ \E status \in {"passed", "failed"}, reasons \in 0 .. 2 : TestFinished(status, reasons)
  \/ Log(<< <<"body", logs>> >>) \/ Log(<< <<"body", logs>>, NL>>)
  \/ Log(<< <<"body", logs>>, NL, <<"more", logs>> >>)
  \/ DeferFailed \/ HookFailed \/ SetCurrentLine \/ LastHookStarted
  \/ RenderResult \/ FinishResult \/ Interrupt
  \/ \E rows \in Heights, bot \in 0 .. term.rows : Resize(rows, bot)
  \/ Terminated

Spec == Init /\ [][Next]_tuiVars

-----------------------------------------------------------------------------
\* Everything written above the panel is on the screen or scrolled out of it,
\* line by line, complete and in order, however the panel was drawn in between,
\* and no line is written over with another text; as long as the terminal has room for the panel and two rows, and its size
\* stays.
LogKept ==
  resizes = 0 /\ ~cramped =>
    LET lines == IF Last(written) = << >> THEN Front(written) ELSE written
        all   == term.above \o [i \in 1 .. term.rows |-> term.lines[i - 1]] IN
    \E n \in 0 .. Len(all) - Len(lines) : SubSeq(all, n + 1, n + Len(lines)) = lines

\* Whenever no callback runs, the panel is at the bottom of the screen and tells
\* the state of the run, also after a resize, once a call has seen it.  At the
\* end of the run the whole screen scrolls again, with its cursor, unless a
\* resize came after the last call; the panel stands above what is printed next.
PanelWhole ==
  ~cramped /\ ~ui.resized /\ calls = << >> =>
    LET top == term.rows - Panel - (IF phase = "done" THEN 2 ELSE 0) IN
    /\ ui.alive => term.bot = top - 1 /\ ~term.visible
    /\ phase = "done" => term.bot = term.rows - 1 /\ term.visible
    /\ phase # "start" =>
         \A row \in 0 .. Panel - 1 : term.lines[top + row] = <<Shows(row)>>

\* What was logged and what the panel shows never get into each other's rows.
ScreenHonest == LogKept /\ PanelWhole

=============================================================================
