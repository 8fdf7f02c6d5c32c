----------------------------- MODULE WinFsEvent -----------------------------
(***************************************************************************)
(* uv_fs_event_t of the Windows port (win/fs-event.c): a directory is      *)
(* opened and one request at a time asks for its changes.  A handle that   *)
(* watches a file watches its directory and tells of the entries with one  *)
(* of the file's two names.  What start() allocated is freed by stop().    *)
(*                                                                         *)
(* The handle has one request, and uv_fs_event_start() does not look       *)
(* whether the one of an earlier start came back: a second start before it *)
(* did reuses its memory, and one of the assertions on req_pending (39,    *)
(* 436) fails.  Behaviours end before that start.                          *)
(***************************************************************************)
EXTENDS WinHandle, Sequences

CONSTANT MaxEntries   \* entries the system puts in the buffer at once

Watches(f) == On(wh, f)
Names == {"long", "short", "other"}   \* how an entry names the watched file, or another

WinFsEventInit ==
  wh = HandleOf(NewHandle,
       [dir_handle |-> FALSE, buffer |-> FALSE, req_pending |-> FALSE,
        mem |-> {},          \* path, filew, short_filew and dirw, when set
        locals |-> {},       \* what start() allocated for itself and did not free
        entries |-> <<>>])    \* the entries of the buffer still to be looked at

\* uv__split_path(): a copy of the last part of a path, nothing for no path
SplitPath(path, file) == IF path THEN {file} ELSE {}

\* The error path of uv_fs_event_start()
StartFails(h) ==
  StopHandle([h EXCEPT !.mem = {}, !.dir_handle = FALSE, !.buffer = FALSE])

\* uv_fs_event_start().  A path that is no UTF-8 leaves the handle active with
\* nothing to wait for.  A directory is watched by its long name, kept as dirw; of
\* a file the short name may be unknown.
Started(h, mem) ==
  [h EXCEPT !.mem = mem, !.dir_handle = TRUE, !.buffer = TRUE, !.req_pending = TRUE,
            !.kernel = @ \cup {"req"}]

StartOutcomes(h) ==
  {[h EXCEPT !.mem = {"path"}, !.locals = @ \cup {"pathw"}], StartFails(h),
   Started(h, {"path", "dirw"})}
  \cup {Started([h EXCEPT !.locals = @ \cup SplitPath(short, "short_path")],
                {"path"} \cup SplitPath(TRUE, "filew") \cup SplitPath(short, "short_filew")) :
        short \in BOOLEAN}

uv_fs_event_start ==
  /\ ~Watches("CLOSING") /\ ~Watches("ACTIVE")
  /\ wh.pc = "idle" /\ Outstanding(wh) = {}
  /\ wh' \in StartOutcomes(StartHandle(wh))

\* uv_fs_event_stop(): closing the directory makes the request come back.
FsEventStop(h) ==
  IF On(h, "ACTIVE") THEN StopHandle([h EXCEPT !.dir_handle = FALSE, !.mem = {}]) ELSE h

uv_fs_event_stop == Watches("ACTIVE") /\ wh' = FsEventStop(wh)

\* uv__fs_event_queue_readdirchanges()
QueueChanges(h) ==
  LET g == [h EXCEPT !.req_pending = TRUE]
  IN {[g EXCEPT !.kernel = @ \cup {"req"}], [g EXCEPT !.pending = @ \cup {"req"}, !.ok = {}]}

\* The end of uv__process_fs_event_req()
AfterChanges(h) ==
  IF On(h, "CLOSING") THEN {WantEndgame(h)}
  ELSE IF On(h, "ACTIVE") THEN QueueChanges(h) ELSE {h}

\* file_info_cmp(), with the names the handle has
Matches(h, name) ==
  \/ name = "long" /\ "filew" \in h.mem
  \/ name = "short" /\ "short_filew" \in h.mem

\* The walk over the entries, from the next one: those of a directory are all told,
\* those of a file by their name.  It ends at the last, or at a uv_close().
TellEntry(h) ==
  IF h.entries = <<>> \/ On(h, "CLOSING") THEN AfterChanges([Returned(h) EXCEPT !.entries = <<>>])
  ELSE LET g == [h EXCEPT !.entries = Tail(@)]
       IN IF "dirw" \in h.mem \/ Matches(h, Head(h.entries))
          THEN {CallUser(g, "fs_event_cb", "req")}
          ELSE {CallUser(g, "next_entry", "req")}

\* Its start: what was stopped meanwhile tells nothing.  No bytes mean that there
\* were too many changes; an error is told too.
uv__process_fs_event_req ==
  /\ CanHandle(wh, "req")
  /\ LET h == [Handling(wh, "req") EXCEPT !.req_pending = FALSE]
     IN IF ~On(h, "ACTIVE") THEN wh' = IF On(h, "CLOSING") THEN WantEndgame(h) ELSE h
        ELSE IF "req" \notin h.ok \/ h.entries = <<>>
             THEN wh' = CallUser([h EXCEPT !.entries = <<>>], "fs_event_cb", "req")
             ELSE wh' \in TellEntry(h)

NextEntry == wh.pc \in {"fs_event_cb", "next_entry"} /\ wh' \in TellEntry(wh)

-----------------------------------------------------------------------------

WinFsEventClose ==
  /\ ~Watches("CLOSING") /\ wh.pc # "next_entry"
  /\ LET h == HandleClosing(FsEventStop(wh))
     IN wh' = IF h.req_pending THEN h ELSE WantEndgame(h)

uv__fs_event_endgame ==
  /\ CanEnd(wh)
  /\ wh' = IF wh.req_pending THEN Ending(wh)
           ELSE HandleClose([Ending(wh) EXCEPT !.buffer = FALSE])

\* The system has changes to tell, more than fit, or an error.
DirectoryChanges ==
  /\ "req" \in wh.kernel
  /\ \/ \E n \in 0 .. MaxEntries : \E entries \in [1 .. n -> Names] :
          wh' = [Completed(wh, "req", TRUE) EXCEPT !.entries = entries]
     \/ wh' = Completed(wh, "req", FALSE)

FsEventWalk == CanWalk(wh) /\ wh' = WalkReqs(wh)

WinFsEventNext ==
  \/ uv_fs_event_start \/ (wh.pc # "next_entry" /\ uv_fs_event_stop)
  \/ uv__process_fs_event_req \/ NextEntry
  \/ WinFsEventClose \/ uv__fs_event_endgame \/ DirectoryChanges \/ FsEventWalk

\* The request is pending exactly while the system or the loop has it; a handle
\* that watches has it out, and its buffer and its directory, whatever the
\* callbacks do.  What it tells by is gone with the watch, so a stop in a callback
\* ends the telling; and a handle that closed has given everything back but the
\* strings start() forgot.
WinFsEventSound ==
  /\ CountSound(wh)
  /\ wh.req_pending <=> "req" \in Outstanding(wh)
  /\ Outstanding(wh) # {} => wh.buffer
  /\ wh.mem # {} \/ wh.dir_handle => Watches("ACTIVE")
  /\ Watches("ACTIVE") /\ wh.pc = "idle" => wh.req_pending \/ "pathw" \in wh.locals
  /\ wh.dir_handle => wh.buffer
  /\ Watches("CLOSED") => wh.mem = {} /\ ~wh.dir_handle /\ ~wh.buffer
  /\ Watches("CLOSING") /\ ~Watches("CLOSED") /\ ~wh.req_pending /\ wh.pc = "idle" =>
       Watches("ENDGAME_QUEUED")
=============================================================================
