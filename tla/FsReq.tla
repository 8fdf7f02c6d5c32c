-------------------------------- MODULE FsReq --------------------------------
(***************************************************************************)
(* The life of a file system request (unix/fs.c): what INIT, PATH, PATH2   *)
(* and POST allocate, what the thread that runs uv__fs_work() adds and     *)
(* frees, what uv_fs_scandir_next() frees on the way and what is left to   *)
(* uv_fs_req_cleanup().  A request is used again and again; the directory  *)
(* that uv_fs_opendir() makes outlives its request.                        *)
(*                                                                         *)
(* The requests fall into kinds by what they own.  "file" is a request on  *)
(* a descriptor, "path" and "path2" one on a name or two, "stat" and       *)
(* "fstat" fill the statbuf inside the request, "ptr" (readlink, realpath, *)
(* statfs) returns a block of its own, "mktemp" owns its name even when it *)
(* is synchronous.                                                         *)
(***************************************************************************)
EXTENDS Integers, FiniteSets

CONSTANTS
  MaxDents,   \* bound: entries of a directory
  MaxCalls    \* bound: requests made

ASSUME FsReqAssumption == MaxDents \in Nat /\ MaxCalls \in Nat

VARIABLES
  fsr,        \* uv_fs_t
  fs_stage,      \* where the request is
  fs_blocks,     \* blocks of memory and streams that are not freed
  has_dir,    \* the user holds a uv_dir_t
  fs_reg,        \* the request is counted in the loop's active_reqs
  fs_calls,      \* requests made so far
  fs_taken,      \* history: entries uv_fs_scandir_next() gave out
  fs_sys,        \* history: how the last system call ended, "none" before it
  fs_bad         \* history: something was freed twice or used when it was gone

fsr_vars == <<fsr, fs_stage, fs_blocks, has_dir, fs_reg, fs_calls, fs_taken, fs_sys, fs_bad>>

FsKinds == {"file", "close", "path", "path2", "mktemp", "fstat", "stat", "ptr", "scandir",
            "opendir", "readdir", "closedir", "read", "write"}

EFAIL == -1        \* any error but the next two
EINTR == -2
UV_ECANCELED == -3

PathBlock == <<"path", 0>>
BufsBlock == <<"bufs", 0>>
PtrBlock == <<"ptr", 0>>
DentsBlock == <<"dents", 0>>
DentBlock(i) == <<"dent", i>>
DirBlock == <<"uv_dir_t", 0>>
DirStream == <<"DIR", 0>>
NameBlock(i) == <<"name", i>>

DirBlocks == IF has_dir THEN {DirBlock, DirStream} ELSE {}

FsReqInit ==
  /\ fsr = [kind |-> "file", cb |-> FALSE, path |-> "null", bufs |-> "null", ptr |-> "null",
            nbufs |-> 0, result |-> 0]
  /\ fs_stage = "clean" /\ fs_blocks = {} /\ has_dir = FALSE /\ fs_reg = 0 /\ fs_calls = 0
  /\ fs_taken = 0 /\ fs_sys = "none" /\ fs_bad = FALSE

\* Frees the blocks of the set and adds those of another.
Replace(old, new) ==
  /\ fs_blocks' = (fs_blocks \ old) \cup new
  /\ fs_bad' = (fs_bad \/ ~(old \subseteq fs_blocks))

\* INIT(): nothing of an earlier use is looked at.
FsFresh(k, cb) == [kind |-> k, cb |-> cb, path |-> "null", bufs |-> "null", ptr |-> "null",
                 nbufs |-> 0, result |-> 0]

Named == {"path", "path2", "stat", "ptr", "scandir", "opendir"}

\* PATH, PATH2 and the uv__strdup() of mkdtemp and mkstemp: a synchronous
\* request points to the caller's name.
PathOf(k, cb) ==
  CASE k \in Named /\ cb     -> "heap"
    [] k \in Named /\ ~cb    -> "user"
    [] k = "mktemp"          -> "heap"
    [] OTHER                 -> "null"

\* bufsml has room for four buffers.
BufsOf(k, big) == IF k \in {"read", "write"} THEN IF big THEN "heap" ELSE "sml" ELSE "null"

\* uv_fs_xxx() up to POST, which queues the work or runs it on the spot.
FsSubmit(k, cb, big) ==
  LET path == PathOf(k, cb)
      bufs == BufsOf(k, big)
  IN /\ fs_stage = "clean" /\ fs_calls < MaxCalls
     /\ fs_blocks = DirBlocks                       \* names of blocks are used once at a time
     /\ big => k \in {"read", "write"}
     /\ k \in {"readdir", "closedir"} => has_dir
     /\ k = "opendir" => ~has_dir                \* one directory at a time is enough
     /\ fs_calls' = fs_calls + 1
     /\ fsr' = [FsFresh(k, cb) EXCEPT !.path = path, !.bufs = bufs,
                                    !.nbufs = IF bufs = "null" THEN 0 ELSE IF big THEN 5 ELSE 1,
                                    !.ptr = IF k \in {"readdir", "closedir"} THEN "dir" ELSE "null"]
     /\ Replace({}, {b \in {PathBlock} : path = "heap"} \cup {b \in {BufsBlock} : bufs = "heap"})
     /\ fs_stage' = IF cb THEN "queued" ELSE "work"
     /\ fs_reg' = IF cb THEN 1 ELSE 0
     /\ fs_taken' = 0 /\ fs_sys' = "none"
     /\ UNCHANGED has_dir

\* UV_ENOMEM from uv__strdup() or uv__malloc(), UV_EINVAL for no buffers or no
\* directory: the request is initialised and never posted.
FsRefused(k, cb) ==
  /\ fs_stage = "clean" /\ fs_calls < MaxCalls /\ fs_blocks = DirBlocks
  /\ fs_calls' = fs_calls + 1
  /\ \/ PathOf(k, cb) = "heap"
     \/ k \in {"read", "write", "readdir", "closedir"}
  /\ fsr' = FsFresh(k, cb)
  /\ fs_stage' = "refused" /\ fs_taken' = 0 /\ fs_sys' = "none"
  /\ UNCHANGED <<fs_blocks, has_dir, fs_reg, fs_bad>>

\* A thread of the pool takes the work.
TakeWork ==
  /\ fs_stage = "queued"
  /\ fs_stage' = "work"
  /\ UNCHANGED <<fsr, fs_blocks, has_dir, fs_reg, fs_calls, fs_taken, fs_sys, fs_bad>>

\* uv_cancel() of a request no thread has taken.
uv_cancel ==
  /\ fs_stage = "queued"
  /\ fs_stage' = "cancelled"
  /\ UNCHANGED <<fsr, fs_blocks, has_dir, fs_reg, fs_calls, fs_taken, fs_sys, fs_bad>>

\* Mutant of RetryOnEintr: every request is tried again.
RetryAlways == TRUE

\* retry_on_eintr of uv__fs_work().
RetryOnEintr == fsr.kind \notin {"close", "read"}

\* The call returned r; uv__fs_work() makes result of it.
Worked(q) ==
  /\ fsr' = q
  /\ fs_stage' = "worked"

\* uv__fs_read() and uv__fs_write_all() free the buffers whatever happened.
BufsDone == {b \in {BufsBlock} : fsr.bufs = "heap"}
NoBufs(q) == [q EXCEPT !.bufs = "null", !.nbufs = 0]

\* The requests without anything to give back; n is what they return.
CallPlain(ok) ==
  /\ fsr.kind \in {"file", "close", "path", "path2", "mktemp"}
  /\ Worked([fsr EXCEPT !.result = IF ok THEN 0 ELSE EFAIL])
  /\ UNCHANGED <<fs_blocks, fs_bad>>

CallReadWrite(ok) ==
  /\ fsr.kind \in {"read", "write"}
  /\ Worked(NoBufs([fsr EXCEPT !.result = IF ok THEN 1 ELSE EFAIL]))
  /\ fs_blocks' = fs_blocks \ BufsDone
  /\ fs_bad' = (fs_bad \/ fsr.bufs = "null" \/ ~(BufsDone \subseteq fs_blocks))

CallStat(ok) ==
  /\ fsr.kind \in {"stat", "fstat"}
  /\ Worked([fsr EXCEPT !.result = IF ok THEN 0 ELSE EFAIL,
                        !.ptr = IF ok THEN "statbuf" ELSE @])
  /\ UNCHANGED <<fs_blocks, fs_bad>>

\* uv__fs_readlink(), uv__fs_realpath(), uv__fs_statfs(): the block is freed
\* again when the call fails.
CallPtr(ok) ==
  /\ fsr.kind = "ptr"
  /\ Worked([fsr EXCEPT !.result = IF ok THEN 0 ELSE EFAIL, !.ptr = IF ok THEN "heap" ELSE @])
  /\ Replace({}, {b \in {PtrBlock} : ok})

\* uv__fs_scandir(): n entries that scandir() allocated; none at all for n = 0.
CallScandir(ok) ==
  /\ fsr.kind = "scandir"
  /\ \E n \in 0..MaxDents :
       /\ Worked([fsr EXCEPT !.result = IF ok THEN n ELSE EFAIL, !.nbufs = 0,
                             !.ptr = IF ok /\ n > 0 THEN "dents" ELSE "null"])
       /\ Replace({}, IF ok /\ n > 0 THEN {DentsBlock} \cup {DentBlock(i) : i \in 1..n} ELSE {})

CallOpendir(ok) ==
  /\ fsr.kind = "opendir"
  /\ Worked([fsr EXCEPT !.result = IF ok THEN 0 ELSE EFAIL, !.ptr = IF ok THEN "dir" ELSE "null"])
  /\ Replace({}, IF ok THEN {DirBlock, DirStream} ELSE {})

\* uv__fs_readdir(): a failure frees the names read so far.
CallReaddir(ok) ==
  /\ fsr.kind = "readdir"
  /\ \E n \in 0..MaxDents :
       /\ Worked([fsr EXCEPT !.result = IF ok THEN n ELSE EFAIL])
       /\ fs_blocks' = IF ok THEN fs_blocks \cup {NameBlock(i) : i \in 1..n} ELSE fs_blocks
       /\ fs_bad' = (fs_bad \/ ~({DirBlock, DirStream} \subseteq fs_blocks))

CallClosedir(ok) ==
  /\ fsr.kind = "closedir" /\ ok
  /\ Worked([fsr EXCEPT !.result = 0, !.ptr = "null"])
  /\ Replace({DirBlock, DirStream}, {})

\* One turn of the loop of uv__fs_work() that does not end in EINTR.
FsCall(ok) ==
  /\ fs_stage = "work"
  /\ \/ CallPlain(ok) \/ CallReadWrite(ok) \/ CallStat(ok) \/ CallPtr(ok)
     \/ CallScandir(ok) \/ CallOpendir(ok) \/ CallReaddir(ok) \/ CallClosedir(ok)
  /\ fs_sys' = IF ok THEN "ok" ELSE "fail"
  /\ UNCHANGED <<has_dir, fs_reg, fs_calls, fs_taken>>

\* A turn that ends in EINTR.  uv__fs_close() does not report it,
\* uv__fs_write_all() tries again by itself and closedir() returns 0.
CallInterrupted ==
  /\ fs_stage = "work"
  /\ fsr.kind \notin {"close", "write", "closedir"}
  /\ LET q == IF fsr.kind = "read" THEN NoBufs(fsr) ELSE fsr
     IN /\ fsr' = IF RetryOnEintr THEN q ELSE [q EXCEPT !.result = EINTR]
        /\ fs_stage' = IF RetryOnEintr THEN "work" ELSE "worked"
  /\ fs_blocks' = fs_blocks \ BufsDone
  /\ fs_bad' = (fs_bad \/ ~(BufsDone \subseteq fs_blocks))
  /\ fs_sys' = "eintr"
  /\ UNCHANGED <<has_dir, fs_reg, fs_calls, fs_taken>>

\* The user learns that a directory was opened or is gone.
KnowDir(result) ==
  has_dir' = IF fsr.kind = "opendir" /\ result = 0 THEN TRUE
             ELSE IF fsr.kind = "closedir" /\ result = 0 THEN FALSE ELSE has_dir

\* uv__fs_done() and the callback, or the return of a synchronous request.
uv__fs_done ==
  /\ fs_stage \in {"worked", "cancelled"}
  /\ LET result == IF fs_stage = "cancelled" THEN UV_ECANCELED ELSE fsr.result
     IN /\ fsr' = [fsr EXCEPT !.result = result]
        /\ KnowDir(result)
        /\ fs_bad' = (fs_bad \/ (fs_stage = "cancelled" /\ fsr.result # 0))   \* its assertion
  /\ fs_stage' = "done" /\ fs_reg' = 0
  /\ UNCHANGED <<fs_blocks, fs_calls, fs_taken, fs_sys>>

\* uv_fs_scandir_next(): frees the entry it gave out before.
uv_fs_scandir_next ==
  /\ fs_stage = "done" /\ fsr.kind = "scandir"
  /\ fsr.result >= 0 /\ fsr.ptr # "null"
  /\ LET prev == {DentBlock(fsr.nbufs) : i \in {j \in {1} : fsr.nbufs > 0}}
         last == fsr.nbufs = fsr.result
     IN /\ Replace(prev \cup {b \in {DentsBlock} : last}, {})
        /\ fsr' = IF last THEN [fsr EXCEPT !.ptr = "null"] ELSE [fsr EXCEPT !.nbufs = @ + 1]
        /\ fs_taken' = IF last THEN fs_taken ELSE fs_taken + 1
  /\ UNCHANGED <<fs_stage, has_dir, fs_reg, fs_calls, fs_sys>>

\* uv__fs_scandir_cleanup(): from the entry given out last, unless it was the
\* last of all, to the end.
uv__fs_scandir_cleanup ==
  LET from == IF fsr.nbufs > 0 /\ fsr.nbufs # fsr.result THEN fsr.nbufs - 1 ELSE fsr.nbufs
  IN {DentsBlock} \cup {DentBlock(i) : i \in (from + 1)..fsr.result}

\* uv__fs_readdir_cleanup()
uv__fs_readdir_cleanup == {NameBlock(i) : i \in 1..fsr.result}

\* uv_fs_req_cleanup(), as often as the user likes.
uv_fs_req_cleanup ==
  /\ fs_stage \in {"done", "refused", "clean"} /\ fs_calls > 0
  /\ LET path == {b \in {PathBlock} : fsr.path # "null" /\ (fsr.cb \/ fsr.kind = "mktemp")}
         names == IF fsr.kind = "readdir" /\ fsr.ptr # "null" THEN uv__fs_readdir_cleanup ELSE {}
         dents == IF fsr.kind = "scandir" /\ fsr.ptr # "null" THEN uv__fs_scandir_cleanup ELSE {}
         bufs == {b \in {BufsBlock} : fsr.bufs = "heap"}
         ptr == CASE fsr.ptr = "heap" -> {PtrBlock}
                  [] fsr.ptr = "dir" /\ fsr.kind = "closedir" -> {DirBlock}
                  [] OTHER -> {}
     IN /\ Replace(path \cup names \cup dents \cup bufs \cup ptr, {})
        /\ has_dir' = (has_dir /\ DirBlock \notin ptr)      \* what was freed is held no more
  /\ fsr' = [fsr EXCEPT !.path = "null", !.bufs = "null", !.ptr = "null",
                        !.nbufs = IF fsr.kind = "scandir" /\ fsr.ptr # "null" THEN fsr.result ELSE @]
  /\ fs_stage' = "clean"
  /\ UNCHANGED <<fs_reg, fs_calls, fs_taken, fs_sys>>

FsReqNext ==
  \/ \E k \in FsKinds, cb, big \in BOOLEAN : FsSubmit(k, cb, big)
  \/ \E k \in FsKinds, cb \in BOOLEAN : FsRefused(k, cb)
  \/ TakeWork \/ uv_cancel
  \/ \E ok \in BOOLEAN : FsCall(ok)
  \/ CallInterrupted \/ uv__fs_done \/ uv_fs_scandir_next \/ uv_fs_req_cleanup

FsReqSpec == FsReqInit /\ [][FsReqNext]_fsr_vars

\* Through retries, cancellations and any number of entries taken, a request
\* frees what it owns once and uses nothing it freed; the entry given out last
\* can still be read; a directory lives exactly as long as its user holds it.
\* After a cleanup nothing is left, but for the last entry of a listing that
\* was taken to its last entry and not asked for more, and but for the stream
\* of a directory whose uv_fs_closedir() was cancelled.  The result is that of
\* the last system call, UV_ECANCELED if there was none.
FsReqSound ==
  /\ ~fs_bad
  /\ fs_stage = "clean" => fs_blocks = DirBlocks
                     \/ /\ fsr.kind = "scandir" /\ fs_taken = fsr.result /\ fs_taken > 0
                        /\ fs_blocks = DirBlocks \cup {DentBlock(fs_taken)}
                     \/ /\ fsr.kind = "closedir" /\ fsr.result = UV_ECANCELED
                        /\ fs_blocks = {DirStream}
  /\ fs_stage # "worked" => DirBlocks \subseteq fs_blocks
  /\ fs_stage = "done" /\ fsr.ptr = "dents" /\ fsr.nbufs > 0 => DentBlock(fsr.nbufs) \in fs_blocks
  /\ fs_stage = "done" =>
       /\ fsr.result = UV_ECANCELED <=> fs_sys = "none"
       /\ fsr.result >= 0 <=> fs_sys = "ok"
       /\ fsr.result = EINTR <=> fs_sys = "eintr"
  /\ fs_reg = 1 <=> fsr.cb /\ fs_stage \in {"queued", "work", "worked", "cancelled"}
=============================================================================
