----------------------------- MODULE WinProcess -----------------------------
(***************************************************************************)
(* uv_process_t of the Windows port (win/process.c, win/process-stdio.c):  *)
(* uv_spawn() step by step with what it allocates and opens, the thread of *)
(* the system that sees the child exit, the handler in the loop, kill and  *)
(* close.  The strings uv_spawn() makes are at the end: the command line,  *)
(* the block of the environment and the search of the program.             *)
(***************************************************************************)
EXTENDS WinHandle, SequencesExt

CONSTANTS
  MaxStdio,        \* entries of options->stdio
  CommandInputs    \* arguments, environments and paths, see WinCommandInit

ASSUME WinProcessAssumption == MaxStdio \in Nat

Spawns(f) == On(wh, f)

\* The entries of options->stdio: nothing, a pipe to make, a descriptor (which of
\* the standard three may be closed) and a stream to share
StdioKinds == {"IGNORE", "CREATE_PIPE", "INHERIT_FD", "INHERIT_STREAM"}

WinProcessInit ==
  \E n \in 0 .. MaxStdio : \E stdio \in [1 .. n -> StdioKinds], env \in BOOLEAN :
    wh = HandleOf(NewHandle,
         [stdio |-> stdio, env |-> env,
          step |-> "init",            \* where uv_spawn() is
          mem |-> {},                 \* the strings and buffers it allocated
          child |-> 0,                \* entries of the stdio buffer that were filled
          handles |-> {},             \* of them, those that hold a handle
          parent |-> {},              \* entries whose parent pipe was connected
          process_handle |-> FALSE, wait |-> "none",
          exit_cb_pending |-> FALSE, exit_signal |-> 0,
          alive |-> FALSE, told |-> 0])

\* uv__stdio_destroy(), and the end of uv_spawn(), reached from everywhere
StdioDestroy(h) == [h EXCEPT !.handles = {}, !.child = 0, !.mem = @ \ {"stdio"}]
SpawnEnds(h) ==
  [StdioDestroy(h) EXCEPT !.step = "done", !.mem = @ \ {"application", "application_path",
                                                        "arguments", "cwd", "env", "alloc_path"}]

\* uv__utf8_to_utf16_alloc(), make_program_args(), make_program_env() and the other
\* strings in their order; each may fail.
SpawnStrings == <<"application", "arguments", "env", "cwd", "alloc_path", "stdio">>
SpawnString ==
  /\ wh.step = "init" \/ wh.step \in Range(SpawnStrings) \ {"stdio"}
  /\ LET i == IF wh.step = "init" THEN 1 ELSE SelectInSeq(SpawnStrings, LAMBDA s : s = wh.step) + 1
         s == SpawnStrings[i]
         skip == s = "env" /\ ~wh.env
         h == [wh EXCEPT !.step = s]
     IN \/ ~skip /\ wh' = [h EXCEPT !.mem = @ \cup {s}]
        \/ (skip \/ s = "alloc_path") /\ wh' = h
        \/ ~skip /\ wh' = SpawnEnds(wh)

\* uv__stdio_create(), an entry at a time, three at least.
StdioCount == IF Len(wh.stdio) < 3 THEN 3 ELSE Len(wh.stdio)
StdioKind(i) == IF i <= Len(wh.stdio) THEN wh.stdio[i] ELSE "IGNORE"

\* What it may leave in an entry: an inherited descriptor that is closed is no error
\* when it is one of the standard three, whatever the entry.
StdioFills(i) ==
  LET h == [wh EXCEPT !.child = i]
      opened == [h EXCEPT !.handles = @ \cup {i}]
  IN CASE StdioKind(i) = "IGNORE" -> IF i <= 3 THEN {opened} ELSE {h}
       [] StdioKind(i) = "CREATE_PIPE" -> {[opened EXCEPT !.parent = @ \cup {i}]}
       [] StdioKind(i) = "INHERIT_FD" -> {opened, h}
       [] StdioKind(i) = "INHERIT_STREAM" -> {opened}

uv__stdio_create ==
  /\ wh.step = "stdio" /\ wh.child < StdioCount
  /\ wh' \in StdioFills(wh.child + 1) \cup {SpawnEnds(StdioDestroy(wh))}

\* search_path(), CreateProcessW() and what follows
CreateProcess ==
  /\ wh.step = "stdio" /\ wh.child = StdioCount
  /\ \/ wh' = SpawnEnds(wh)
     \/ wh' = SpawnEnds([wh EXCEPT !.mem = @ \cup {"application_path"}])
     \/ wh' = SpawnEnds(StartHandle([wh EXCEPT !.mem = @ \cup {"application_path"},
                                               !.process_handle = TRUE, !.alive = TRUE,
                                               !.wait = "registered"]))

-----------------------------------------------------------------------------

\* The child exits, by itself or killed; then a thread of the system runs
\* exit_wait_callback(): it says that the request is on its way, and posts it.
ChildExits == wh.alive /\ wh' = [wh EXCEPT !.alive = FALSE]

exit_wait_callback ==
  \/ /\ wh.wait = "registered" /\ ~wh.alive
     /\ wh' = [wh EXCEPT !.wait = "running", !.exit_cb_pending = TRUE]
  \/ /\ wh.wait = "running"
     /\ wh' = [Completed(wh, "exit_req", TRUE) EXCEPT !.wait = "returned"]

\* uv__process_proc_exit()
uv__process_proc_exit ==
  /\ CanHandle(wh, "exit_req")
  /\ LET h == [Handling(wh, "exit_req") EXCEPT !.exit_cb_pending = FALSE]
     IN wh' = IF On(h, "CLOSING") THEN WantEndgame(h)
              ELSE CallUser([StopHandle(h) EXCEPT !.wait = "none", !.told = @ + 1], "exit_cb", "exit_req")

ExitDone == wh.pc = "exit_cb" /\ wh' = Returned(wh)

\* uv_process_kill(): a signal that is sent is what the exit will be said to be by,
\* signal 0 too, which only asks whether the child lives.
uv_process_kill ==
  /\ wh.step = "done" /\ wh.process_handle /\ wh.alive
  /\ \E signum \in {0, 15} : wh' = [wh EXCEPT !.exit_signal = signum]

\* uv__process_close(): UnregisterWaitEx() returns when the callback does.
uv__process_close ==
  /\ wh.step = "done" /\ ~Spawns("CLOSING") /\ wh.wait # "running"
  /\ LET h == HandleClosing([wh EXCEPT !.wait = "none"])
     IN wh' = IF h.exit_cb_pending THEN h ELSE WantEndgame(h)

uv__process_endgame ==
  /\ CanEnd(wh)
  /\ wh' = HandleClose([Ending(wh) EXCEPT !.process_handle = FALSE])

ProcessWalk == CanWalk(wh) /\ wh' = WalkReqs(wh)

WinProcessNext ==
  \/ SpawnString \/ uv__stdio_create \/ CreateProcess \/ ChildExits \/ exit_wait_callback
  \/ uv__process_proc_exit \/ ExitDone \/ uv_process_kill \/ uv__process_close
  \/ uv__process_endgame \/ ProcessWalk

\* Whatever step fails, uv_spawn() leaves nothing allocated and no handle of the
\* child open; the exit is told once at most, never after uv_close(), and never
\* lost: a handle is active while its child lives or its exit is on the way.  The
\* handle ends, and its process handle is closed, only when no thread of the system
\* can still post its request.
WinProcessSound ==
  /\ CountSound(wh)
  /\ wh.step = "done" => wh.mem = {} /\ wh.handles = {}
  /\ wh.told <= 1
  /\ Spawns("ACTIVE") <=> wh.process_handle /\ wh.told = 0 /\ ~Spawns("CLOSING")
  /\ wh.exit_cb_pending <=> wh.wait = "running" \/ "exit_req" \in Outstanding(wh)
  /\ Spawns("CLOSED") => wh.wait = "none" /\ ~wh.process_handle
  /\ Spawns("CLOSING") /\ ~Spawns("CLOSED") /\ ~wh.exit_cb_pending /\ wh.pc = "idle" =>
       Spawns("ENDGAME_QUEUED")

-----------------------------------------------------------------------------
(* The strings.                                                            *)

\* Mutant of Escaped: backslashes are doubled before a quote of the argument only,
\* not before the closing one.
EscapedInside(source) ==
  FoldRight(LAMBDA c, acc :
              [hit |-> (acc.hit /\ c = "\\") \/ c = "\"",
               out |-> (IF (acc.hit /\ c = "\\") \/ c = "\"" THEN <<"\\", c>> ELSE <<c>>) \o acc.out],
            source, [hit |-> FALSE, out |-> <<>>]).out

\* quote_cmd_arg(): an argument that needs quotes gets them; from the end, every
\* backslash that a quote follows, the closing one included, is doubled.
HasAny(s, chars) == Range(s) \cap chars # {}
Escaped(source) ==
  FoldRight(LAMBDA c, acc :
              [hit |-> (acc.hit /\ c = "\\") \/ c = "\"",
               out |-> (IF (acc.hit /\ c = "\\") \/ c = "\"" THEN <<"\\", c>> ELSE <<c>>) \o acc.out],
            source, [hit |-> TRUE, out |-> <<>>]).out

quote_cmd_arg(source) ==
  IF source = <<>> THEN <<"\"", "\"">>
  ELSE IF ~HasAny(source, {" ", "\t", "\""}) THEN source
  ELSE IF ~HasAny(source, {"\"", "\\"}) THEN <<"\"">> \o source \o <<"\"">>
  ELSE <<"\"">> \o Escaped(source) \o <<"\"">>

\* make_program_args()
make_program_args(args) ==
  FoldLeft(LAMBDA line, i : line \o quote_cmd_arg(args[i])
                            \o (IF i < Len(args) THEN <<" ">> ELSE <<>>),
           <<>>, [i \in DOMAIN args |-> i])

\* env_strncmp(), of the variables by their names: numbers here, in order.  After
\* the last of the block, what is required comes before.
Compare(required, i, env, j) ==
  IF i > Len(required) THEN 1
  ELSE IF j > Len(env) \/ required[i] < env[j] THEN -1
  ELSE IF required[i] > env[j] THEN 1 ELSE 0

\* make_program_env(): entries without a '=' (0) are left out, the rest is sorted.
\* A first pass counts what the block needs besides, a second writes it: a
\* required variable that is missing and that the parent has, or the next one of
\* the block.  A variable takes its number of characters.
SortedEnv(block) == SortSeq(SelectSeq(block, LAMBDA v : v # 0), LAMBDA a, b : a < b)

env_len(required, parent, env) ==
  LET missing[i \in 1 .. Len(required) + 1, j \in 1 .. Len(env) + 1] ==
        IF i > Len(required) THEN 0
        ELSE LET cmp == Compare(required, i, env, j)
             IN IF cmp < 0 THEN (IF required[i] \in parent THEN required[i] ELSE 0) + missing[i + 1, j]
                ELSE missing[IF cmp = 0 THEN i + 1 ELSE i, j + 1]
  IN FoldLeft(LAMBDA n, v : n + v, 0, env) + missing[1, 1]

make_program_env(required, parent, env) ==
  LET block[i \in 1 .. Len(required) + 1, j \in 1 .. Len(env) + 1] ==
        IF i > Len(required) /\ j > Len(env) THEN <<>>
        ELSE LET cmp == Compare(required, i, env, j)
             IN IF cmp < 0 THEN (IF required[i] \in parent THEN <<required[i]>> ELSE <<>>) \o block[i + 1, j]
                ELSE <<env[j]>> \o block[IF cmp = 0 THEN i + 1 ELSE i, j + 1]
  IN block[1, 1]

\* search_path(): the current directory, then the entries of the path, which may
\* stand in quotes.  Positions count from 1 and the path ends at Len + 1.
Find(path, chars, from) ==
  LET at == {p \in from .. Len(path) : path[p] \in chars}
  IN IF at = {} THEN Len(path) + 1 ELSE CHOOSE p \in at : \A q \in at : p <= q

NextEnd(path, start) ==
  LET close == IF start <= Len(path) /\ path[start] = "\""
               THEN Find(path, {"\""}, start + 1) ELSE start
  IN Find(path, {";"}, close)

\* The quotes around an entry are taken off.  Of an entry that is a single quote
\* the length becomes -1, a huge unsigned number: behaviours end there.
Unquoted(entry) ==
  LET s == IF Head(entry) = "\"" THEN Tail(entry) ELSE entry
  IN IF s # <<>> /\ Last(s) = "\"" THEN Front(s) ELSE s

\* search_path_join_test() and path_search_walk_ext(): the name as it is if it has
\* an extension, then with .com and .exe; the first that is a file.
Extensions(has_ext) == (IF has_ext THEN <<"">> ELSE <<>>) \o <<"com", "exe">>
WalkExt(files, dir, has_ext) ==
  LET found == SelectSeq(Extensions(has_ext), LAMBDA e : <<dir, e>> \in files)
  IN IF found = <<>> THEN <<>> ELSE <<dir, found[1]>>

\* An input is a command line, an environment or a search.
WinCommandInit ==
  \E input \in CommandInputs :
    wh = [input |-> input, out |-> <<>>, dir_end |-> 0, entries |-> <<>>, done |-> FALSE]

BuildArgs ==
  /\ wh.input.what = "args" /\ ~wh.done
  /\ wh' = [wh EXCEPT !.out = make_program_args(wh.input.args), !.done = TRUE]

BuildEnv ==
  /\ wh.input.what = "env" /\ ~wh.done
  /\ LET env == SortedEnv(wh.input.env)
     IN wh' = [wh EXCEPT !.out = make_program_env(wh.input.required, wh.input.parent, env),
                         !.dir_end = env_len(wh.input.required, wh.input.parent, env),
                         !.done = TRUE]

SearchPath ==
  /\ wh.input.what = "search" /\ ~wh.done
  /\ LET path == wh.input.path
         first == WalkExt(wh.input.files, <<>>, wh.input.has_ext)
         start == IF wh.dir_end > 1 \/ (path # <<>> /\ path[1] = ";") THEN wh.dir_end + 1 ELSE wh.dir_end
         end == NextEnd(path, start)
         entry == SubSeq(path, start, end - 1)
         h == [wh EXCEPT !.dir_end = end, !.entries = Append(@, entry)]
     IN IF wh.dir_end = 0 THEN wh' = [wh EXCEPT !.dir_end = 1, !.out = first, !.done = first # <<>>]
        ELSE IF wh.dir_end > Len(path) THEN wh' = [wh EXCEPT !.done = TRUE]
        ELSE IF entry = <<>> THEN wh' = h
        ELSE /\ entry # <<"\"">>
             /\ LET found == WalkExt(wh.input.files, Unquoted(entry), wh.input.has_ext)
                IN wh' = [h EXCEPT !.out = found, !.done = found # <<>>]

WinCommandNext == BuildArgs \/ BuildEnv \/ SearchPath

\* How the C runtime of the child splits a command line: backslashes before a quote
\* count half, an odd one makes the quote a character.
RuntimeArgs(line) ==
  LET put(s, chars) == [s EXCEPT !.cur = @ \o chars, !.slashes = 0, !.some = TRUE]
      slashes(n) == [k \in 1 .. n |-> "\\"]
      step(s, c) ==
        IF c = "\\" THEN [s EXCEPT !.slashes = @ + 1]
        ELSE IF c = "\"" THEN
          LET t == put(s, slashes(s.slashes \div 2))
          IN IF s.slashes % 2 = 1 THEN put(t, <<c>>) ELSE [t EXCEPT !.quoted = ~@]
        ELSE LET t == IF s.slashes > 0 THEN put(s, slashes(s.slashes)) ELSE s
             IN IF c \in {" ", "\t"} /\ ~s.quoted
                THEN IF t.some THEN [t EXCEPT !.argv = Append(@, t.cur), !.cur = <<>>, !.some = FALSE]
                     ELSE t
                ELSE put(t, <<c>>)
  IN FoldLeft(step, [argv |-> <<>>, cur |-> <<>>, slashes |-> 0, some |-> FALSE, quoted |-> FALSE],
              line \o <<" ">>)

Sorted(s) == \A i \in 1 .. Len(s) - 1 : s[i] <= s[i + 1]
Times(s, v) == Cardinality({i \in DOMAIN s : s[i] = v})

\* The child gets back exactly the arguments it was given, whatever quotes, spaces
\* and backslashes they have.  Its environment is in order and holds the given
\* variables, each as often as given, and of the required ones those the parent
\* has where none is given; it fills the block that was counted.  The search looks
\* at the parts of the path from left to right, none twice and none left out.
WinCommandSound ==
  /\ wh.input.what = "args" /\ wh.done =>
       LET r == RuntimeArgs(wh.out) IN r.argv = wh.input.args /\ ~r.quoted
  /\ wh.input.what = "env" /\ wh.done =>
       /\ Sorted(wh.out)
       /\ \A v \in Range(wh.out) \cup Range(wh.input.env) \cup Range(wh.input.required) :
            Times(wh.out, v) =
              IF v # 0 /\ Times(wh.input.env, v) > 0 THEN Times(wh.input.env, v)
              ELSE IF v \in Range(wh.input.required) \cap wh.input.parent THEN 1 ELSE 0
       /\ FoldLeft(LAMBDA n, v : n + v, 0, wh.out) = wh.dir_end
  /\ wh.input.what = "search" /\ wh.entries # <<>> =>
       LET seen == SubSeq(wh.input.path, 1, wh.dir_end - 1)
       IN FoldLeft(LAMBDA s, e : s \o <<";">> \o e, <<>>, wh.entries) =
            IF wh.input.path[1] = ";" THEN seen ELSE <<";">> \o seen
=============================================================================
