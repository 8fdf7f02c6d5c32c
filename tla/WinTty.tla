------------------------------- MODULE WinTty -------------------------------
(***************************************************************************)
(* uv_tty_t of the Windows port (win/tty.c): the input of the console,     *)
(* read key by key (raw) or line by line, and its output.  A line is read  *)
(* by a thread that blocks in ReadConsoleW(); to cancel it the loop takes  *)
(* uv_tty_output_lock, types a Return into the console and leaves the lock *)
(* to the thread, even when the console refuses the Return.                *)
(* uv__read_console_status tells the two where the other is.               *)
(***************************************************************************)
EXTENDS WinHandle, TLC, SequencesExt

CONSTANTS
  TtyWrites,   \* the uv_write_t, each used once
  MaxKeys,     \* keys, or lines, typed into the console
  MaxSlack     \* raw reads that fail to begin

Has(f) == On(wh, f)

\* uv_tty_init()
WinTtyInit ==
  \E readable \in BOOLEAN :
    wh = HandleOf(Set(NewHandle, {"CONNECTION", "BOUND"} \cup
                        IF readable THEN {"TTY_READABLE", "READABLE"} ELSE {"WRITABLE"}),
         [write_reqs_pending |-> 0, shutdown_req |-> FALSE, open |-> TRUE,
          todo |-> TtyWrites, called |-> {},
          lock |-> 1,                 \* uv_tty_output_lock, a semaphore
          status |-> "not_started",   \* uv__read_console_status
          reader |-> "none",          \* where the thread that reads a line is
          waits |-> "none",           \* "mode": uv_tty_set_mode() waits for the lock
          line |-> FALSE,             \* read_line_buffer is in use
          lost |-> FALSE,             \* history: no Return is left for it
          read_raw_wait |-> FALSE, data |-> FALSE,
          typed |-> 0,                \* history: keys and lines typed
          queue |-> <<>>,             \* what was typed: keys, and the Return of a stop
          records |-> 0, left |-> 0,  \* records_left of the raw loop, bytes of the last key
          used |-> 0, len |-> 0,      \* of the user's buffer
          slack |-> 0,                \* history: reads that ended without DECREASE_ACTIVE_COUNT
          nobufs |-> FALSE])           \* history: alloc_cb gave no line buffer

TtyUser == wh.pc # "raw_loop" /\ wh.waits = "none"
TtyLoop == wh.waits = "none"
KeySize == 2

-----------------------------------------------------------------------------
(* Asking for input.                                                       *)

\* What uv__tty_queue_read_raw() and uv__tty_queue_read_line() may do.
QueueRaw(h) ==
  LET g == Set([h EXCEPT !.line = FALSE], {"READ_PENDING"})
  IN {[Given(g, "read") EXCEPT !.read_raw_wait = TRUE]} \cup
     (IF h.slack < MaxSlack THEN {Inserted(g, "read", FALSE)} ELSE {})

QueueLine(h) ==
  LET g == Set([h EXCEPT !.line = TRUE, !.status = "not_started"], {"READ_PENDING"})
  IN {[Given(g, "read") EXCEPT !.reader = "start"], Inserted(g, "read", FALSE),
      [h EXCEPT !.line = FALSE, !.nobufs = TRUE]}

TtyQueueRead(h) == IF On(h, "TTY_RAW") THEN QueueRaw(h) ELSE QueueLine(h)

\* uv__tty_read_start(): the rest of a key is given first.
TtyReadStart(h) ==
  LET g == IncActive(Set([h EXCEPT !.nobufs = FALSE], {"READING"}))
  IN IF On(g, "READ_PENDING") THEN {g}
     ELSE IF g.left > 0 THEN {Set(Inserted(g, "read", TRUE), {"READ_PENDING"})}
     ELSE TtyQueueRead(g)

uv__tty_read_start ==
  /\ TtyUser /\ Has("READABLE") /\ ~Has("READING") /\ ~Has("CLOSING")
  /\ wh' \in TtyReadStart(wh)

\* A stop has a line to cancel: it asks for the lock.
Cancels(h) ==
  On(h, "READ_PENDING") /\ ~On(h, "TTY_RAW") /\ ~On(h, "CANCELLATION_PENDING")

\* uv__cancel_read_console(), with the lock: only a thread that reads is given
\* the Return and the lock.
Cancel(h) ==
  IF h.status = "in_progress"
  THEN [h EXCEPT !.lock = 0, !.status = "trap_requested",
                   !.queue = Append(@, "return")]
  ELSE [h EXCEPT !.status = "trap_requested"]

\* The stop waits for the lock.  Bound: no more Returns are typed than the console is
\* given keys.
MayStop ==
  Cancels(wh) => wh.lock = 1 /\ (wh.status = "in_progress" => Len(wh.queue) <= MaxKeys)

\* uv__tty_read_stop(): a raw read is woken with an event that is no key.
TtyStopped(h) == DecActive(Clear(h, {"READING"}))
TtyReadStop(h) ==
  LET g == TtyStopped([h EXCEPT !.nobufs = FALSE])
  IN IF Cancels(h) THEN Set(Cancel(g), {"CANCELLATION_PENDING"}) ELSE g

\* What it leaves when the console takes no event: a raw read is not woken, and a
\* thread that reads a line keeps the lock until somebody types the Return, though
\* the read counts as not cancelled.
TtyStopFails(h) ==
  LET g == TtyStopped([h EXCEPT !.nobufs = FALSE])
  IN IF On(h, "READ_PENDING") /\ On(h, "TTY_RAW") THEN {g}
     ELSE IF Cancels(h) /\ h.status = "in_progress"
          THEN {[g EXCEPT !.lock = 0, !.status = "trap_requested", !.lost = TRUE]}
     ELSE {}

uv__tty_read_stop ==
  /\ TtyUser /\ Has("READING") /\ MayStop
  /\ wh' \in {TtyReadStop(wh)} \cup TtyStopFails(wh)

\* uv_tty_set_mode(), to where it waits for the lock, and after that: the reader
\* of a line has left the console when the mode changes.  A failing call leaves the
\* mode, and the handle stopped.
SetModeStops ==
  /\ TtyUser /\ Has("TTY_READABLE") /\ ~Has("CLOSING")
  /\ \/ ~Has("READING") /\ wh' = [wh EXCEPT !.waits = "mode"]
     \/ /\ Has("READING") /\ MayStop
        /\ wh' \in {[TtyReadStop(wh) EXCEPT !.waits = "restart"]} \cup TtyStopFails(wh)

SetModeChanges ==
  /\ wh.waits # "none" /\ wh.lock = 1
  /\ LET h == [wh EXCEPT !.waits = "none"]
         g == IF Has("TTY_RAW") THEN Clear(h, {"TTY_RAW"}) ELSE Set(h, {"TTY_RAW"})
     IN \/ wh' = h
        \/ wh' \in IF wh.waits = "restart" THEN TtyReadStart(g) ELSE {g}

\* uv_tty_line_read_thread(): before ReadConsoleW(), in it, where it takes keys that
\* do not end the line, and after it
LineEnters ==
  /\ wh.reader = "start"
  /\ wh' = IF wh.status = "trap_requested"
           THEN [Completed(wh, "read", TRUE) EXCEPT !.status = "completed", !.reader = "none",
                                                    !.data = FALSE]
           ELSE [wh EXCEPT !.status = "in_progress", !.reader = "reading"]

LineTakes ==
  /\ wh.reader = "reading" /\ wh.queue # <<>> /\ Head(wh.queue) = "key"
  /\ wh' = [wh EXCEPT !.queue = Tail(@)]

LineReturns ==
  /\ wh.reader = "reading"
  /\ \E good \in BOOLEAN :
       /\ good => wh.queue # <<>>
       /\ LET h == [Completed(wh, "read", good) EXCEPT
                      !.status = "completed", !.reader = "none", !.data = good, !.lost = FALSE,
                      !.queue = IF good THEN Tail(@) ELSE @]
          IN wh' = IF wh.status = "trap_requested" THEN [h EXCEPT !.lock = @ + 1] ELSE h

\* uv_tty_post_raw_read(): there is an event in the console, a key or not.
uv_tty_post_raw_read ==
  /\ wh.read_raw_wait
  /\ wh' = [Completed(wh, "read", TRUE) EXCEPT !.read_raw_wait = FALSE]

Type ==
  /\ wh.open /\ Has("TTY_READABLE") /\ wh.typed < MaxKeys
  /\ wh' = [wh EXCEPT !.typed = @ + 1, !.queue = Append(@, "key")]

-----------------------------------------------------------------------------
(* The handlers of what was read.                                          *)

TtyDone(h) ==
  LET g == Returned(h)
  IN IF On(g, "READING") /\ ~On(g, "READ_PENDING") THEN {DecPending(x) : x \in TtyQueueRead(g)}
     ELSE {DecPending(g)}

\* uv_process_tty_read_line_req(): what a cancelled read has read is dropped.  One
\* that failed leaves CANCELLATION_PENDING behind, and no later read is cancelled.
ProcessLine ==
  /\ TtyLoop /\ CanHandle(wh, "read") /\ wh.line
  /\ LET h == Clear([Handling(wh, "read") EXCEPT !.line = FALSE], {"READ_PENDING"})
         told == CallUser(h, "read_cb", "read")
     IN IF "read" \notin h.ok
        THEN IF On(h, "READING") THEN wh' = TtyStopped(told) ELSE wh' \in TtyDone(h)
        ELSE IF ~On(h, "CANCELLATION_PENDING") /\ h.data
          THEN wh' = [told EXCEPT !.pc = "line_cb"]
        ELSE wh' \in TtyDone(Clear(h, {"CANCELLATION_PENDING"}))

\* After the callback of a line the cancellation it may have made is forgotten.
LineDone ==
  /\ TtyLoop /\ wh.pc \in {"read_cb", "line_cb"}
  /\ wh' \in TtyDone(IF wh.pc = "line_cb" THEN Clear(wh, {"CANCELLATION_PENDING"}) ELSE wh)

\* The start of uv_process_tty_read_raw_req(), which does not look at
\* CANCELLATION_PENDING: it is there when the mode changed after the read began.
ProcessRaw ==
  /\ TtyLoop /\ CanHandle(wh, "read") /\ ~wh.line
  /\ LET h == Clear(Handling(wh, "read"), {"READ_PENDING"})
         told == CallUser(h, "read_cb", "read")
     IN IF ~On(h, "READING") \/ ~On(h, "TTY_RAW") THEN wh' \in TtyDone(h)
        ELSE IF "read" \notin h.ok
          THEN wh' = [Clear(told, {"READING"}) EXCEPT !.slack = @ + 1]
        ELSE wh' \in {TtyStopped(told),
                       CallUser([h EXCEPT !.used = 0, !.records = Len(wh.queue)], "raw_loop", "read")}

Raw == wh.pc = "raw_loop" /\ Has("READING")

\* A turn of its loop: the next key, or the next byte of a key into the user's
\* buffer, which is given to the user when it is full.  A callback may have made a
\* thread that reads a line beside the loop, and the loop may take its Return.
NextKey ==
  /\ Raw /\ wh.left = 0 /\ wh.records > 0
  /\ \/ /\ wh.queue # <<>>
        /\ \E repeat \in 0..2 :     \* 0: an event that is no key, or is ignored
             wh' = [wh EXCEPT !.records = @ - 1, !.queue = Tail(@), !.left = repeat * KeySize,
                              !.lost = @ \/ (wh.lock = 0 /\ "return" \notin Range(Tail(wh.queue)))]
     \/ wh' = [TtyStopped(wh) EXCEPT !.pc = "read_cb", !.records = 0, !.used = 0, !.len = 0]

NextByte ==
  /\ Raw /\ wh.left > 0
  /\ \/ \E n \in IF wh.used = 0 THEN {1, 3} ELSE {wh.len} :
          LET h == [wh EXCEPT !.left = @ - 1, !.used = @ + 1, !.len = n]
          IN wh' = IF h.used = n
                   THEN [h EXCEPT !.used = 0, !.len = 0, !.pc = "raw_cb"] ELSE h
     \/ wh.used = 0 /\ wh' = [wh EXCEPT !.pc = "read_cb", !.records = 0]      \* UV_ENOBUFS

RawAgain == TtyLoop /\ wh.pc = "raw_cb" /\ wh' = [wh EXCEPT !.pc = "raw_loop"]

RawDone ==
  /\ wh.pc = "raw_loop" /\ ~(Has("READING") /\ (wh.records > 0 \/ wh.left > 0))
  /\ LET h == [wh EXCEPT !.records = 0, !.used = 0, !.len = 0]
     IN IF wh.used > 0 THEN wh' = [h EXCEPT !.pc = "read_cb"] ELSE wh' \in TtyDone(h)

-----------------------------------------------------------------------------
(* Output, and the end.                                                    *)

\* uv__tty_write(): written at once, with the lock, and reported later.
uv__tty_write(w) ==
  /\ TtyUser /\ Has("WRITABLE") /\ w \in wh.todo /\ wh.lock = 1
  /\ \E good \in BOOLEAN :
       wh' = Register(Inserted([wh EXCEPT !.todo = @ \ {w}, !.write_reqs_pending = @ + 1], w, good))

TtyProcessWrite(w) ==
  /\ TtyLoop /\ CanHandle(wh, w)
  /\ wh' = CallUser([Unregister(Handling(wh, w)) EXCEPT !.called = @ \cup {w}], "write_cb", w)

TtyWriteDone ==
  /\ wh.pc = "write_cb"
  /\ LET h == [Returned(wh) EXCEPT !.write_reqs_pending = @ - 1]
     IN wh' = DecPending(IF h.shutdown_req /\ h.write_reqs_pending = 0 THEN WantEndgame(h) ELSE h)

TtyShutdown ==
  /\ TtyUser /\ Has("WRITABLE") /\ ~Has("SHUTTING") /\ ~Has("CLOSING")
  /\ LET h == Set(Clear(wh, {"WRITABLE"}), {"SHUTTING"})
     IN wh' = WantEndgame(Register([h EXCEPT !.shutdown_req = TRUE, !.reqs_pending = @ + 1]))

uv__tty_close ==
  /\ TtyUser /\ ~Has("CLOSING") /\ (Has("READING") => MayStop)
  /\ \E h \in IF Has("READING") THEN {TtyReadStop(wh)} \cup TtyStopFails(wh) ELSE {wh} :
       LET g == HandleClosing(Clear([h EXCEPT !.open = FALSE], {"READABLE", "WRITABLE"}))
       IN wh' = IF g.reqs_pending = 0 THEN WantEndgame(g) ELSE g

uv__tty_endgame ==
  /\ TtyLoop /\ CanEnd(wh)
  /\ LET h == Ending(wh)
     IN wh' = IF ~On(h, "TTY_READABLE") /\ h.shutdown_req /\ h.write_reqs_pending = 0
                THEN CallUser(Unregister(h), "shutdown_cb", "shutdown")
              ELSE IF EndDue(h) THEN HandleClose(h)
              ELSE h

TtyShutdownDone ==
  /\ wh.pc = "shutdown_cb"
  /\ wh' = DecPending([Returned(wh) EXCEPT !.shutdown_req = FALSE])

TtyWalk == TtyLoop /\ CanWalk(wh) /\ wh' = WalkReqs(wh)

WinTtyNext ==
  \/ uv__tty_read_start \/ uv__tty_read_stop \/ SetModeStops \/ SetModeChanges
  \/ LineEnters \/ LineTakes \/ LineReturns \/ uv_tty_post_raw_read \/ Type
  \/ ProcessLine \/ LineDone \/ ProcessRaw \/ NextKey \/ NextByte \/ RawAgain \/ RawDone
  \/ (\E w \in TtyWrites : uv__tty_write(w) \/ TtyProcessWrite(w))
  \/ TtyWriteDone \/ TtyShutdown \/ uv__tty_close \/ uv__tty_endgame \/ TtyShutdownDone \/ TtyWalk

\* Through stops, changes of the mode and a close, the lock of the output is
\* free, or with a thread that was cancelled and will give it back, as the Return it
\* waits for is in the console (unless the console refused it, or a raw loop beside
\* the thread took it), and nobody changes the mode of the console under such a
\* thread; requests are counted exactly, a handle that reads has a read under way,
\* and at the end neither a thread nor a wait is left.
WinTtySound ==
  /\ HandleSound(wh)
  /\ wh.lock = (IF wh.reader = "reading" /\ wh.status = "trap_requested" THEN 0 ELSE 1)
  /\ wh.lock = 0 => "return" \in Range(wh.queue) \/ wh.lost
  /\ wh.reader # "none" => wh.line /\ Has("READ_PENDING")
  /\ wh.reader = "reading" /\ wh.status = "trap_requested" => ~Has("TTY_RAW")
  /\ wh.reqs_pending = Cardinality(Outstanding(wh)) + (IF wh.cur = "none" THEN 0 ELSE 1)
                       + (IF wh.shutdown_req /\ wh.cur # "shutdown" THEN 1 ELSE 0)
  /\ wh.activecnt = wh.active_reqs + wh.slack + (IF Has("READING") THEN 1 ELSE 0)
  /\ wh.shutdown_req /\ wh.write_reqs_pending = 0 /\ wh.pc = "idle" => Has("ENDGAME_QUEUED")
  /\ Has("READING") /\ wh.pc = "idle" => Has("READ_PENDING") \/ wh.nobufs
  /\ Has("CLOSED") => /\ ~wh.read_raw_wait /\ wh.reader = "none" /\ wh.lock = 1
                      /\ Has("TTY_READABLE") \/ wh.called \cup wh.todo = TtyWrites

-----------------------------------------------------------------------------
(***************************************************************************)
(* The output of a console (win/tty.c): uv__tty_write_bufs() decodes       *)
(* UTF-8, interprets ANSI escape sequences with the calls of the console,  *)
(* keeps the caret inside a virtual window, and collects the text between  *)
(* two sequences in a buffer.  A byte of a write is one step.              *)
(***************************************************************************)
CONSTANTS
  AnsiInputs,      \* what is looked at together: the bytes that are written and the
                   \* consoles, <<columns, rows of the buffer, rows of the window>>
  CsiArgs,         \* ARRAY_SIZE(ansi_csi_argv), 4 in the code
  ArgMax,          \* UINT16_MAX in the code
  BufferSize       \* MAX_CONSOLE_CHAR, 8192 in the code

Ch == ("[" :> 91) @@ ("^" :> 94) @@ ("_" :> 95) @@ ("P" :> 80) @@ ("]" :> 93) @@ ("c" :> 99)
      @@ ("@" :> 64) @@ ("~" :> 126) @@ ("q" :> 113) @@ ("?" :> 63) @@ (";" :> 59) @@ (" " :> 32)
      @@ ("l" :> 108) @@ ("h" :> 104) @@ ("m" :> 109) @@ ("s" :> 115) @@ ("u" :> 117)
      @@ ("A" :> 65) @@ ("B" :> 66) @@ ("C" :> 67) @@ ("D" :> 68) @@ ("E" :> 69) @@ ("F" :> 70)
      @@ ("G" :> 71) @@ ("H" :> 72) @@ ("f" :> 102) @@ ("J" :> 74) @@ ("K" :> 75)
      @@ ("0" :> 48) @@ ("7" :> 55) @@ ("8" :> 56) @@ ("9" :> 57) @@ ("quote" :> 34) @@ ("\\" :> 92)
ESC == 27
CSI == 155
BEL == 7
LF == 10
CR == 13
Replacement == 65533
Other == -1   \* a unit of text that ends no line: which one it is makes no difference

-----------------------------------------------------------------------------
(* The console.  bad says which call of it fails, if any: 1 is the text    *)
(* before a command, the others are those of the command, in their order.  *)

\* Attributes: two colours with their brightness, shown the other way round when
\* inverse is set.  The style is what the console is told to show.
DefaultStyle == [fg |-> 7, bg |-> 0, fgb |-> 0, bgb |-> 0, inv |-> 0]
Flip(a) == [a EXCEPT !.fg = a.bg, !.bg = a.fg, !.fgb = a.bgb, !.bgb = a.fgb]
Render(a) == IF a.inv = 1 THEN Flip(a) ELSE a

\* uv__tty_update_virtual_window()
UpdateWindow(h) ==
  LET rows == h.screen[3]
      want == IF h.offset = -1 THEN h.y
              ELSE IF h.offset < h.y - rows + 1 THEN h.y - rows + 1
              ELSE h.offset
      fits == IF want + rows > h.screen[2] THEN h.screen[2] - rows ELSE want
  IN [h EXCEPT !.offset = IF fits < 0 THEN 0 ELSE fits, !.height = rows, !.width = h.screen[1]]

Clamp(v, lo, n) == IF v < lo THEN lo ELSE IF v >= lo + n THEN lo + n - 1 ELSE v

\* uv__tty_make_real_coord(), after the window was updated
RealCoord(h, x, xr, y, yr) ==
  <<Clamp(IF xr THEN h.x + x ELSE x, 0, h.width),
    Clamp(IF yr THEN h.y + y ELSE h.offset + y, h.offset, h.height)>>

\* WriteConsoleW(): the caret after a unit of text at <<x, y>>.
Advance(screen, pos, unit) ==
  LET down == IF pos[2] = screen[2] - 1 THEN pos[2] ELSE pos[2] + 1
  IN IF unit = CR THEN <<0, pos[2]>>
     ELSE IF unit = LF \/ pos[1] = screen[1] - 1 THEN <<0, down>>
     ELSE <<pos[1] + 1, pos[2]>>

MoveTo(h, pos) == [h EXCEPT !.x = pos[1], !.y = pos[2]]

Failed(h) == [h EXCEPT !.error = TRUE]

\* uv__tty_emit_text(): text that cannot be written is dropped.
EmitText(h, bad) ==
  IF h.text = <<>> THEN h
  ELSE LET end == FoldLeft(LAMBDA pos, unit : Advance(h.screen, pos, unit), <<h.x, h.y>>, h.text)
           g == [h EXCEPT !.text = <<>>]
       IN IF h.error THEN g
          ELSE IF bad = 1 THEN Failed(g)
          ELSE MoveTo(g, end)

\* A helper that looks at *error first: steps are the console before it and after
\* each of its calls.  CallAnyway is one that does not look.
Calls(h, bad, steps) ==
  IF h.error THEN h
  ELSE IF bad \in 2 .. Len(steps) THEN Failed(steps[bad - 1])
  ELSE steps[Len(steps)]
CallAnyway(h, bad, after) == IF bad = 2 THEN Failed(h) ELSE after

\* After a helper the reference caret is where the caret was put.
Shown(h) == [h EXCEPT !.ref = <<h.x, h.y>>]

\* uv__tty_move_caret(); a screen that is resized between two calls is read again.
\* When it cannot be read the error is set, and the caret is moved all the same, by
\* what was never read: see CaretLost.
MoveCaret(h, bad, x, xr, y, yr) ==
  LET g == UpdateWindow(h)
  IN IF ~h.error /\ bad = 2 THEN [Failed(h) EXCEPT !.lost = TRUE]
     ELSE Calls(h, bad, <<h, g, Shown(MoveTo(g, RealCoord(g, x, xr, y, yr)))>>)

\* uv__tty_reset(): the attributes, the caret, the screen, the shape of the cursor
ResetConsole(h, bad) ==
  LET styled == [h EXCEPT !.style = DefaultStyle, !.attr = Render(DefaultStyle)]
      home == Shown(MoveTo(styled, <<0, 0>>))
      framed == UpdateWindow([home EXCEPT !.offset = 0])
  IN Calls(h, bad, <<h, styled, home, framed, [framed EXCEPT !.visible = TRUE, !.size = "default"]>>)

\* The cells a clear is about: of the row of the caret or of the virtual window,
\* what is not before the caret (0), not after it (1), or all.
Cells(h, dir, all) ==
  LET top == IF all THEN h.offset ELSE h.y
      bottom == IF all THEN h.offset + h.height - 1 ELSE h.y
      here == h.y * h.width + h.x
  IN {n \in top * h.width .. bottom * h.width + h.width - 1 :
        (dir = 0 => n >= here) /\ (dir = 1 => n <= here)}

\* uv__tty_clear(): a run of cells, row by row, is filled.  cleared is about a caret in
\* the window; a reset or a move that failed half-way may leave it above.
ClearCells(h, bad, dir, all) ==
  LET g == UpdateWindow(h)
      from == RealCoord(g, 0, dir = 0, 0, IF all THEN dir = 0 ELSE TRUE)
      to == RealCoord(g, IF dir = 1 THEN 0 ELSE 65535, dir = 1,
                      IF all /\ dir # 1 THEN 65535 ELSE 0, IF all THEN dir = 1 ELSE TRUE)
      first == from[2] * g.screen[1] + from[1]
      count == (to[2] * g.screen[1] + to[1]) - first + 1
  IN Calls(h, bad, <<h, g, [g EXCEPT !.cleared =
       @ /\ (g.y >= g.offset => first .. first + count - 1 = Cells(g, dir, all))]>>)

\* uv__tty_set_style(): what a sequence asks for, the last argument for a field wins.
NoStyle == [fg |-> -1, bg |-> -1, fgb |-> -1, bgb |-> -1, inv |-> -1]
StyleArg(s, arg) ==
  CASE arg = 0 -> DefaultStyle
    [] arg = 1 -> [s EXCEPT !.fgb = 1]
    [] arg = 2 -> [s EXCEPT !.fgb = 0, !.bgb = 0]
    [] arg = 5 -> [s EXCEPT !.bgb = 1]
    [] arg = 7 -> [s EXCEPT !.inv = 1]
    [] arg \in {21, 22} -> [s EXCEPT !.fgb = 0]
    [] arg = 25 -> [s EXCEPT !.bgb = 0]
    [] arg = 27 -> [s EXCEPT !.inv = 0]
    [] arg \in 30..37 -> [s EXCEPT !.fg = arg - 30]
    [] arg = 39 -> [s EXCEPT !.fg = DefaultStyle.fg, !.fgb = DefaultStyle.fgb]
    [] arg \in 40..47 -> [s EXCEPT !.bg = arg - 40]
    [] arg = 49 -> [s EXCEPT !.bg = DefaultStyle.bg, !.bgb = DefaultStyle.bgb]
    [] arg \in 90..97 -> [s EXCEPT !.fgb = 1, !.fg = arg - 90]
    [] arg \in 100..107 -> [s EXCEPT !.bgb = 1, !.bg = arg - 100]
    [] OTHER -> s

\* The attributes of the console with s set: turned back, changed, turned again.
Applied(attr, s) ==
  LET plain == Render(attr)
  IN Render([k \in DOMAIN attr |-> IF s[k] = -1 THEN plain[k] ELSE s[k]])

SetStyle(h, bad) ==
  LET s == IF h.argv = <<>> THEN DefaultStyle
           ELSE FoldLeft(LAMBDA t, arg : StyleArg(t, arg), NoStyle, h.argv)
      ref == IF h.argv = <<>> THEN DefaultStyle
             ELSE FoldLeft(LAMBDA t, arg : StyleArg(t, arg), h.style, h.argv)
  IN IF s = NoStyle THEN h
     ELSE CallAnyway(h, bad, [h EXCEPT !.attr = Applied(h.attr, s), !.style = ref])

\* uv__tty_save_state() and uv__tty_restore_state(): the brightness of what is shown.
SaveState(h, bad, attrs) ==
  LET g == UpdateWindow(h)
  IN Calls(h, bad, <<h, [g EXCEPT !.saved = {<<g.x, g.y - g.offset>>},
                            !.bright = IF attrs THEN {<<g.attr.fgb, g.attr.bgb>>} ELSE @]>>)

RestoreState(h, bad, attrs) ==
  LET g == IF h.saved = {} THEN h
           ELSE LET p == CHOOSE q \in h.saved : TRUE
                IN MoveCaret(h, bad, p[1], FALSE, p[2], FALSE)
      returns == h.error \/ (h.saved # {} /\ bad = 3)
      b == CHOOSE q \in g.bright : TRUE
      shown == [g.attr EXCEPT !.fgb = b[1], !.bgb = b[2]]
  IN IF returns \/ ~attrs \/ g.bright = {} THEN g
     ELSE IF bad = 4 THEN Failed(g)
     ELSE [g EXCEPT !.attr = shown, !.style = Render(shown)]

-----------------------------------------------------------------------------
(* The parser.  state is ansi_parser_state, a set of flags.                *)

FlushText(h, bad) == EmitText(h, bad)
To(h, s) == [h EXCEPT !.state = s]
StartCsi(h) == [To(h, {"CSI"}) EXCEPT !.argv = <<>>]
Final(cp) == cp \in Ch["@"]..Ch["~"]

\* ENSURE_BUFFER_SPACE() and the units after it
Put(h, bad, units) ==
  LET g == IF Len(units) > BufferSize - Len(h.text) THEN FlushText(h, bad) ELSE h
      end == FoldLeft(LAMBDA pos, unit : Advance(h.screen, pos, unit), g.ref, units)
  IN [g EXCEPT !.text = @ \o units, !.ref = end,
               !.bare = @ \/ (units = <<LF>> /\ ~h.eol),
               !.eol = units[Len(units)] \in {CR, LF}]

\* A code point that is text: the end of a line is always written \r\n; above
\* 0xffff two units of UTF-16.
Text(h, bad, cp) ==
  IF cp = LF /\ h.previous_eol # CR THEN [Put(h, bad, <<CR, LF>>) EXCEPT !.previous_eol = LF]
  ELSE IF cp = CR /\ h.previous_eol = LF THEN [h EXCEPT !.previous_eol = CR]
  ELSE IF cp \in {CR, LF} THEN [Put(h, bad, <<cp>>) EXCEPT !.previous_eol = cp]
  ELSE [Put(h, bad, IF cp <= 65535 THEN <<Other>> ELSE <<Other, Other>>) EXCEPT !.previous_eol = 0]

InNormal(h, bad, cp) ==
  IF cp = ESC THEN To(h, {"ESCAPE_SEEN"}) ELSE IF cp = CSI THEN StartCsi(h) ELSE Text(h, bad, cp)

AfterEscape(h, bad, cp) ==
  LET g == To(FlushText(h, bad), {})
  IN CASE cp = Ch["["] -> StartCsi(h)
       [] cp \in {Ch["^"], Ch["_"], Ch["P"], Ch["]"]} -> To(h, {"ST_CONTROL"})
       [] cp = ESC -> h
       [] cp = Ch["c"] -> ResetConsole(g, bad)
       [] cp = Ch["7"] -> SaveState(g, bad, TRUE)
       [] cp = Ch["8"] -> RestoreState(g, bad, TRUE)
       [] OTHER -> IF cp \in Ch["@"]..Ch["_"] THEN To(h, {}) ELSE Text(To(h, {}), bad, cp)

\* In the sequence of the cursor's shape an unexpected character is also text: the
\* branch has no continue.
InDecscusr(h, bad, cp) ==
  LET shape == IF h.argv = <<>> THEN 1 ELSE h.argv[1]
      g == To(FlushText(h, bad), {})
  IN IF ~Final(cp) THEN Text(To(h, {"IGNORE"}), bad, cp)
     ELSE IF cp # Ch["q"] \/ shape > 6 THEN To(h, {})
     ELSE CallAnyway(g, bad, [g EXCEPT !.size = IF shape = 0 THEN "default"
                                                ELSE IF shape <= 2 THEN "large" ELSE "small"])

\* A digit, or the end of an argument.  A value that does not fit is ignored with
\* the rest; the last digit of one that nearly fits wraps.
Digit(h, d) ==
  LET n == Len(h.argv)
  IN IF "IN_ARG" \notin h.state
     THEN IF n >= CsiArgs THEN To(h, {"IGNORE"})
          ELSE [To(h, h.state \cup {"IN_ARG"}) EXCEPT !.argv = Append(@, d)]
     ELSE IF 10 * h.argv[n] > ArgMax THEN To(h, {"IGNORE"})
          ELSE [h EXCEPT !.argv[n] = (10 * @ + d) % (ArgMax + 1)]

Semicolon(h) ==
  IF "IN_ARG" \in h.state THEN To(h, h.state \ {"IN_ARG"})
  ELSE IF Len(h.argv) >= CsiArgs THEN To(h, {"IGNORE"})
  ELSE [h EXCEPT !.argv = Append(@, 0)]

\* A sequence of ESC [ with its final character.
Extension(h, bad, cp) ==
  LET g == FlushText(h, bad)
  IN IF cp \in {Ch["l"], Ch["h"]} /\ h.argv = <<25>>
     THEN CallAnyway(g, bad, [g EXCEPT !.visible = (cp = Ch["h"])])
     ELSE h

\* Mutant of Flushes: to set the caret, the text before it is not waited for.
FlushesLate(h, bad, cp) == IF cp = Ch["H"] THEN h ELSE FlushText(h, bad)

Flushes(h, bad, cp) == FlushText(h, bad)

Command(h, bad, cp) ==
  LET g == Flushes(h, bad, cp)
      n == IF h.argv = <<>> THEN 1 ELSE h.argv[1]
      At(i) == IF Len(h.argv) >= i /\ h.argv[i] > 0 THEN h.argv[i] - 1 ELSE 0
      d == IF h.argv = <<>> THEN 0 ELSE h.argv[1]
      Move(x, xr, y, yr) == MoveCaret(g, bad, x, xr, y, yr)
  IN CASE cp = Ch["A"] -> Move(0, TRUE, -n, TRUE)
       [] cp = Ch["B"] -> Move(0, TRUE, n, TRUE)
       [] cp = Ch["C"] -> Move(n, TRUE, 0, TRUE)
       [] cp = Ch["D"] -> Move(-n, TRUE, 0, TRUE)
       [] cp = Ch["E"] -> Move(0, FALSE, n, TRUE)
       [] cp = Ch["F"] -> Move(0, FALSE, -n, TRUE)
       [] cp = Ch["G"] -> Move(At(1), FALSE, 0, TRUE)
       [] cp \in {Ch["H"], Ch["f"]} -> Move(At(2), FALSE, At(1), FALSE)
       [] cp \in {Ch["J"], Ch["K"]} -> IF d <= 2 THEN ClearCells(g, bad, d, cp = Ch["J"]) ELSE g
       [] cp = Ch["m"] -> SetStyle(g, bad)
       [] cp = Ch["s"] -> SaveState(g, bad, FALSE)
       [] cp = Ch["u"] -> RestoreState(g, bad, FALSE)
       [] OTHER -> h

InCsi(h, bad, cp) ==
  CASE cp \in Ch["0"]..Ch["9"] -> Digit(h, cp - Ch["0"])
    [] cp = Ch[";"] -> Semicolon(h)
    [] cp = Ch["?"] /\ h.state = {"CSI"} /\ h.argv = <<>> -> To(h, {"CSI", "EXTENSION"})
    [] cp = Ch[" "] /\ "EXTENSION" \notin h.state -> To(h, {"DECSCUSR"})
    [] Final(cp) -> To(IF "EXTENSION" \in h.state THEN Extension(h, bad, cp)
                       ELSE Command(h, bad, cp), {})
    [] OTHER -> To(h, {"IGNORE"})

\* A control string, to its terminator outside quotes.
InControl(h, cp) ==
  IF "IN_STRING" \in h.state
  THEN IF "BACKSLASH_SEEN" \in h.state THEN To(h, h.state \ {"BACKSLASH_SEEN"})
       ELSE IF cp = Ch["quote"] THEN To(h, h.state \ {"IN_STRING"})
       ELSE IF cp = Ch["\\"] THEN To(h, h.state \cup {"BACKSLASH_SEEN"})
       ELSE h
  ELSE IF cp = BEL \/ (cp = Ch["\\"] /\ "ESCAPE_SEEN" \in h.state) THEN To(h, {})
  ELSE IF cp = ESC THEN To(h, h.state \cup {"ESCAPE_SEEN"})
  ELSE IF cp = Ch["quote"]
       THEN To(h, (h.state \cup {"IN_STRING"}) \ {"ESCAPE_SEEN", "BACKSLASH_SEEN"})
  ELSE To(h, h.state \ {"ESCAPE_SEEN"})

\* A code point, by the state of the parser.  Any other state would abort().
Code(h, bad, cp) ==
  CASE h.vterm -> Text(h, bad, cp)
    [] h.state = {} -> InNormal(h, bad, cp)
    [] h.state = {"ESCAPE_SEEN"} -> AfterEscape(h, bad, cp)
    [] h.state = {"IGNORE"} -> IF Final(cp) THEN To(h, {}) ELSE h
    [] h.state = {"DECSCUSR"} -> InDecscusr(h, bad, cp)
    [] "CSI" \in h.state -> InCsi(h, bad, cp)
    [] "ST_CONTROL" \in h.state -> InControl(h, cp)
    [] OTHER -> [h EXCEPT !.aborted = TRUE]

\* The first byte of a character: its highest bit that is zero gives the length.
Lead(h, c) ==
  LET zero == CHOOSE b \in 0..7 : (c \div 2^b) % 2 = 0 /\ \A k \in b + 1 .. 7 : (c \div 2^k) % 2 = 1
  IN IF c < 128 THEN [h EXCEPT !.codepoint = c]
     ELSE IF c < 192 \/ c = 255 THEN [h EXCEPT !.codepoint = Replacement]
     ELSE [h EXCEPT !.codepoint = c % 2^zero, !.left = 6 - zero]

\* A byte: one that should continue a character and does not ends it, and is read
\* again (j--).
Decode(h, c) ==
  IF h.left = 0 THEN Lead([h EXCEPT !.again = {}], c)
  ELSE IF c \div 64 = 2 THEN [h EXCEPT !.left = @ - 1, !.codepoint = @ * 64 + (c % 64)]
  ELSE [h EXCEPT !.left = 0, !.codepoint = Replacement, !.again = {c}]

-----------------------------------------------------------------------------

\* uv_tty_init() of an output, with the caret somewhere in the console.
WinAnsiInit ==
  \E i \in AnsiInputs : \E screen \in i.screens, vterm \in BOOLEAN : \E y \in {0, screen[2] - 1} :
    wh = UpdateWindow(
      [input |-> i, screen |-> screen, vterm |-> vterm,
       offset |-> -1, height |-> -1, width |-> -1, x |-> 0, y |-> y,
       attr |-> Render(DefaultStyle), visible |-> TRUE, size |-> "default",
       saved |-> {}, bright |-> {}, text |-> <<>>, error |-> FALSE, aborted |-> FALSE,
       lost |-> FALSE,   \* the caret is about to be moved by an info that was not read
       state |-> {}, argv |-> <<>>, left |-> 0, codepoint |-> 0, again |-> {}, previous_eol |-> 0,
       \* the reference: the caret if text were written at once, the style asked for,
       \* whether the text ends with an end of line and whether a line feed came
       \* alone, and whether every clear filled what it is about
       ref |-> <<0, y>>, style |-> DefaultStyle, eol |-> FALSE, bare |-> FALSE,
       cleared |-> TRUE])

\* The calls of the console a byte may make: the text that waits is one, and a reset
\* has the most.
MaxCalls(h, c) ==
  IF h.state = {"ESCAPE_SEEN"} THEN 5
  ELSE IF h.state # {} /\ Final(c) THEN 3
  ELSE IF h.text # <<>> THEN 1 ELSE 0

\* A byte of uv__tty_write_bufs(); a code point of the past says nothing.
WriteByte ==
  /\ ~wh.lost
  /\ \E c \in IF wh.again = {} THEN wh.input.bytes ELSE wh.again : \E bad \in 0 .. MaxCalls(wh, c) :
       LET d == Decode(wh, c)
           h == IF d.left > 0 THEN d ELSE Code(d, bad, d.codepoint)
       IN wh' = [h EXCEPT !.codepoint = IF h.left = 0 THEN 0 ELSE @,
                          !.argv = IF h.state \cap {"CSI", "DECSCUSR"} = {} THEN <<>> ELSE @]

\* The end of uv__tty_move_caret() with an info that holds anything: the caret stays
\* or goes anywhere in the console, and the window is anywhere.  Its size is
\* computed again before it is used, and then an offset further down is made smaller.
CaretLost ==
  /\ wh.lost
  /\ \E x \in 0 .. wh.screen[1] - 1, y \in 0 .. wh.screen[2] - 1,
        offset \in 0 .. wh.screen[2] - wh.screen[3] :
       wh' = [MoveTo(wh, <<x, y>>) EXCEPT !.offset = offset, !.lost = FALSE]

\* Its end
WriteEnds ==
  \E bad \in {0, 1} :
    /\ wh.text # <<>> \/ wh.error
    /\ wh.again = {} /\ ~wh.lost
    /\ LET h == FlushText(wh, bad)
       IN wh' = IF h.error THEN [Shown(h) EXCEPT !.error = FALSE] ELSE h

\* The user makes the console larger or smaller, and it keeps the caret inside.
Resize ==
  \E s \in wh.input.screens :
    /\ s # wh.screen /\ wh.text = <<>> /\ ~wh.lost
    /\ wh' = Shown([wh EXCEPT !.screen = s, !.x = IF @ < s[1] THEN @ ELSE s[1] - 1,
                              !.y = IF @ < s[2] THEN @ ELSE s[2] - 1])

WinAnsiNext == WriteByte \/ CaretLost \/ WriteEnds \/ Resize

\* Whatever bytes are written in however many calls: the parser is never in a
\* state it does not know and never stores an argument too many; the virtual
\* window, computed whenever it is used, lies in the buffer then, whatever the console
\* was before; text and commands take effect in the order they were
\* written, though text is buffered; no line feed is written in the middle of a line;
\* the attributes are those of the style asked for, inverse or not; and a clear
\* with the caret in the virtual window fills exactly its part of it.
WinAnsiSound ==
  /\ ~wh.aborted /\ ~wh.bare /\ wh.cleared
  /\ Len(wh.argv) <= CsiArgs /\ Len(wh.text) <= BufferSize
  /\ LET g == UpdateWindow(wh) IN g.offset >= 0 /\ g.offset + g.height <= wh.screen[2]
  /\ wh.x \in 0 .. wh.screen[1] - 1 /\ wh.y \in 0 .. wh.screen[2] - 1
  /\ wh.text = <<>> /\ ~wh.error => wh.ref = <<wh.x, wh.y>>
  /\ wh.attr = Render(wh.style)
=============================================================================
