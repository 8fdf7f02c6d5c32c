-------------------------------- MODULE WinFs --------------------------------
(***************************************************************************)
(* Requests of the Windows port that name files (win/fs.c): the memory of  *)
(* a request from INIT to uv_fs_req_cleanup(), and what the system calls   *)
(* behind it leave when one of them fails.  Then the two ways to list a    *)
(* directory, entry by entry, and the conversions of paths and times.      *)
(***************************************************************************)
EXTENDS WinHandle, SequencesExt

CONSTANTS
  InitialDirents,   \* dirents_initial_size of fs__scandir()
  MaxDirents,       \* bound: entries of a directory, "." and ".." included
  PathInputs,       \* targets of junctions, see WinPathInit
  Second            \* 100 ns in a second, for the conversions of times

-----------------------------------------------------------------------------
(* Requests.  node is what the path names, other what the second path of   *)
(* the request does.                                                       *)

FsTypesNew == {"unlink", "mkdir", "mkdtemp", "mkstemp", "rmdir"}
FsTypesLink == {"link", "symlink", "junction", "readlink", "realpath"}
FsTypesStat == {"chown", "fchown", "stat", "lstat", "fstat", "rename", "fsync", "copyfile", "sendfile"}
FsTypesMode == {"access", "chmod", "fchmod", "utime", "futime", "lutime", "statfs"}
FsTypesFd == {"fstat", "fsync", "fchmod", "futime", "fchown", "sendfile"}   \* of a descriptor

\* symlink: one to a file, or an execution alias, which reads as a link too;
\* dirlink: a symbolic link to a directory; mount: a volume mounted on a directory;
\* other: a reparse point that is no link
NodeKinds == {"none", "file", "dir", "symlink", "dirlink", "junction", "mount", "other"}
HasDirectory(n) == n.kind \in {"dir", "dirlink", "junction", "mount"}
IsReparse(n) == n.kind \in {"symlink", "dirlink", "junction", "mount", "other"}
IsLink(n) == n.kind \in {"symlink", "dirlink", "junction"}
Behind(n) == IF HasDirectory(n) THEN "dir" ELSE "file"

WinFsInit ==
  \E kind \in NodeKinds, readonly, archive \in BOOLEAN, other \in {"none", "file", "dir"},
     old \in BOOLEAN :
    LET n == [kind |-> kind, readonly |-> readonly, archive |-> archive]
    IN /\ kind = "none" => ~readonly /\ ~archive
       /\ wh = [phase |-> "new", type |-> "none", async |-> FALSE, fd |-> TRUE, want |-> FALSE,
                flags |-> {}, mem |-> {}, handles |-> 0, active |-> 0,
                result |-> "none", told |-> "none", path |-> "template",
                node |-> n, was |-> n, other |-> other, was_other |-> other,
                old_system |-> old,          \* a system without unprivileged links
                usermode |-> TRUE]           \* uv__file_symlink_usermode_flag

\* INIT, fs__capture_path() and POST, with or without a callback.  A path that
\* cannot be converted, or no memory for it, ends the request at once.
FsPost(type) ==
  /\ wh.phase \in {"new", "cleaned"}
  /\ \E async, want, fd \in BOOLEAN :
       LET h == [wh EXCEPT !.type = type, !.async = async, !.want = want, !.fd = fd, !.flags = {},
                           !.result = "none", !.told = "none", !.path = "template",
                           !.was = wh.node, !.was_other = wh.other, !.phase = "queued"]
           named == [h EXCEPT !.flags = {"FREE_PATHS"}, !.mem = @ \cup {"paths"}]
       IN /\ type \notin FsTypesFd => fd
          /\ type \notin {"chmod", "fchmod", "access", "copyfile"} => ~want
          /\ \/ wh' = [(IF type \in FsTypesFd THEN h ELSE named) EXCEPT
                         !.active = IF async THEN 1 ELSE 0]
             \/ type \notin FsTypesFd /\ wh' = [h EXCEPT !.phase = "done", !.result = "error"]

\* uv_cancel() of a request no thread has taken
FsCancel ==
  /\ wh.phase = "queued" /\ wh.async
  /\ wh' = [wh EXCEPT !.phase = "worked", !.result = "ECANCELED"]

FsOk(h) == [h EXCEPT !.result = "ok"]
FsErr(h, error) == [h EXCEPT !.result = error]
Opened(h) == [h EXCEPT !.handles = @ + 1]
Shut(h) == [h EXCEPT !.handles = @ - 1]
Allocated(h, what) == [h EXCEPT !.mem = @ \cup {what}]
Freed(h, what) == [h EXCEPT !.mem = @ \ {what}]

\* fs__readlink_handle(): a volume or another reparse point is not supported.
\* Mutant of ReadlinkHandle: every reparse point is a link.
ReadlinkAnyReparse(n) == {"error"} \cup (IF IsReparse(n) THEN {"ok"} ELSE {"not_reparse"})
ReadlinkHandle(n) ==
  {"error"} \cup (IF IsLink(n) THEN {"ok"} ELSE IF IsReparse(n) THEN {"unsupported"}
                  ELSE {"not_reparse"})

\* fs__unlink(): a read-only file is made writable first.  A directory is removed
\* only if it is a link.
fs__unlink(h) ==
  LET o == Opened(h)
      w == IF h.node.readonly THEN [o EXCEPT !.node.readonly = FALSE, !.node.archive = TRUE] ELSE o
      gone == [w EXCEPT !.node = [kind |-> "none", readonly |-> FALSE, archive |-> FALSE]]
      link == IF HasDirectory(h.node) THEN ReadlinkHandle(h.node) ELSE {"ok"}
  IN {FsErr(h, "error")}
     \cup IF h.node.kind = "none" THEN {}
          ELSE {FsErr(Shut(o), "error")}
               \cup (IF "ok" \in link THEN {FsOk(Shut(gone)), FsErr(Shut(w), "error")} ELSE {})
               \cup (IF "ok" \notin link THEN {FsErr(Shut(o), "EPERM")} ELSE {})

\* fs__rmdir(), fs__mkdir(), fs__chmod(), fs__access() and fs__chown(): one call each
fs__rmdir(h) ==
  {FsErr(h, "error")}
  \cup IF HasDirectory(h.node)
       THEN {FsOk([h EXCEPT !.node = [kind |-> "none", readonly |-> FALSE, archive |-> FALSE]])}
       ELSE {}
fs__mkdir(h) ==
  {FsErr(h, "error")} \cup IF h.node.kind = "none" THEN {FsOk([h EXCEPT !.node.kind = "dir"])} ELSE {}
fs__chmod(h) ==
  {FsErr(h, "error")}
  \cup IF h.node.kind = "none" THEN {} ELSE {FsOk([h EXCEPT !.node.readonly = ~h.want])}
fs__access(h) ==
  {FsErr(h, "error")}
  \cup IF h.node.kind = "none" THEN {}
       ELSE IF h.want /\ h.node.readonly /\ ~HasDirectory(h.node) THEN {FsErr(h, "EPERM")}
       ELSE {FsOk(h)}

\* fs__mktemp() with fs__mkdtemp_func() and fs__mkstemp_func(): names are tried until
\* one is new.  A template of another form, or no name, clobbers the path; a
\* descriptor that cannot be made leaves the file.
fs__mktemp(h) ==
  LET clobbered == FsErr([h EXCEPT !.path = "clobbered"], "error")
      filled == FsOk([h EXCEPT !.path = "filled"])
      o == Opened(h)
  IN {clobbered, FsErr(h, "error")}
     \cup IF h.type = "mkdtemp" THEN {filled}
          ELSE {Shut(FsOk([o EXCEPT !.path = "filled"])),   \* the handle is the descriptor's
                FsErr(Shut(o), "EMFILE")}

\* fs__stat_handle() of an open file, with do_lstat or not
StatHandle(n, lstat) ==
  {"error"} \cup IF lstat /\ IsReparse(n)
                 THEN {IF l = "ok" THEN "link" ELSE l : l \in ReadlinkHandle(n)}
                 ELSE {Behind(n)}

\* fs__stat_impl_from_path() and fs__stat_impl(): what is no link after all is
\* asked again without do_lstat.
StatPath(h, lstat) ==
  LET o == Opened(h)
  IN {[h EXCEPT !.told = "error"]}
     \cup IF h.node.kind = "none" THEN {}
          ELSE {[Shut(o) EXCEPT !.told = t] : t \in StatHandle(h.node, lstat)}
StatTold(h) == IF h.told = "error" THEN FsErr(h, "error") ELSE FsOk(h)
fs__stat_impl(h) ==
  UNION {IF g.told \in {"unsupported", "not_reparse"} THEN {StatTold(k) : k \in StatPath(g, FALSE)}
         ELSE {StatTold(g)} : g \in StatPath(h, h.type = "lstat")}

\* fs__fstat(), fs__sync_impl() and fs__futime() of a descriptor, which may be bad
OfFd(h, outcomes) == IF h.fd THEN outcomes ELSE {FsErr(h, "EBADF")}
fs__fstat(h) == OfFd(h, {StatTold([h EXCEPT !.told = t]) : t \in StatHandle(h.node, FALSE)})
fs__sync_impl(h) == OfFd(h, {FsOk(h), FsErr(h, "error")})

\* fs__utime_impl(): as fs__stat_impl(), with SetFileTime()
fs__utime_impl(h) ==
  {FsErr(h, "error")}
  \cup IF h.node.kind = "none" THEN {} ELSE {FsOk(Shut(Opened(h))), FsErr(Shut(Opened(h)), "error")}

\* fs__fchmod(): the attribute READONLY is changed under a set ARCHIVE, which is
\* cleared again.
fs__fchmod(h) ==
  LET o == Opened(h)
      a == [o EXCEPT !.node.archive = TRUE]
      r == [a EXCEPT !.node.readonly = ~h.want]
      c == [r EXCEPT !.node.archive = h.node.archive]
  IN OfFd(h, {FsErr(h, "error"), FsOk(Shut(c))} \cup {FsErr(Shut(g), "error") : g \in {o, a, r}})

\* fs__link() and fs__rename()
fs__link(h) ==
  {FsErr(h, "error")}
  \cup IF h.node.kind = "file" /\ h.other = "none" THEN {FsOk([h EXCEPT !.other = "file"])} ELSE {}
fs__rename(h) ==
  {FsErr(h, "error")}
  \cup IF h.node.kind # "none" /\ h.other # "dir"
       THEN {FsOk([h EXCEPT !.other = h.node.kind,
                            !.node = [kind |-> "none", readonly |-> FALSE, archive |-> FALSE]])}
       ELSE {}

\* fs__create_junction(): the directory made for it is removed when a later call fails.
fs__create_junction(h) ==
  LET b == Allocated(h, "buffer")
      d == [b EXCEPT !.other = "dir"]
      o == Opened(d)
      Undone(g) == [Freed(g, "buffer") EXCEPT !.other = "none"]
  IN {FsErr(h, "EINVAL"), FsErr(Freed(b, "buffer"), "error")}
     \cup IF h.other # "none" THEN {}
          ELSE {FsErr(Undone(d), "error"), FsErr(Shut(Undone(o)), "error"),
                FsOk(Freed(Shut([o EXCEPT !.other = "junction"]), "buffer"))}

\* fs__symlink(): a system that does not know the flag of unprivileged links is asked
\* again without, and so is every later request.
fs__symlink(h) ==
  LET g == IF h.old_system THEN [h EXCEPT !.usermode = FALSE] ELSE h
  IN {FsErr(g, "error")} \cup IF h.other = "none" THEN {FsOk([g EXCEPT !.other = "symlink"])} ELSE {}

\* fs__readlink() and fs__realpath(): what is found belongs to the request.
GivesPtr(h) == FsOk([Allocated(h, "ptr") EXCEPT !.flags = @ \cup {"FREE_PTR"}])
fs__readlink(h) ==
  {FsErr(h, "error")}
  \cup IF h.node.kind = "none" THEN {}
       ELSE {IF l = "ok" THEN Shut(GivesPtr(Opened(h))) ELSE FsErr(Shut(Opened(h)), l)
             : l \in ReadlinkHandle(h.node)}
fs__realpath(h) ==
  LET o == Allocated(Opened(h), "wide")
  IN {FsErr(h, "error")}
     \cup IF h.node.kind = "none" THEN {}
          ELSE {GivesPtr(Shut(Freed(o, "wide"))), FsErr(Shut(Freed(o, "wide")), "error")}

\* fs__statfs(): a path that is no directory is asked again by its full name.
fs__statfs(h) ==
  LET f == Allocated(h, "full")
  IN {FsErr(h, "error"), GivesPtr(h), FsErr(Freed(f, "full"), "error"), GivesPtr(Freed(f, "full"))}

\* fs__copyfile(): a file busy because it is the source itself counts as copied.
fs__copyfile(h) ==
  LET exists == h.want /\ h.other # "none"
  IN {FsErr(h, "error"), FsErr(h, "EBUSY")}
     \cup (IF h.node.kind = "none" \/ HasDirectory(h.node) \/ exists \/ h.other = "dir" THEN {}
           ELSE {FsOk([h EXCEPT !.other = "file"])})

\* fs__sendfile(): through a buffer, with the descriptors' own positions
fs__sendfile(h) ==
  {FsOk(Freed(Allocated(h, "buffer"), "buffer")), FsErr(Freed(Allocated(h, "buffer"), "buffer"), "-1")}

\* uv__fs_work()
FsOutcomes(h) ==
  CASE h.type = "unlink" -> fs__unlink(h) [] h.type = "rmdir" -> fs__rmdir(h)
    [] h.type = "mkdir" -> fs__mkdir(h) [] h.type \in {"mkdtemp", "mkstemp"} -> fs__mktemp(h)
    [] h.type \in {"stat", "lstat"} -> fs__stat_impl(h) [] h.type = "fstat" -> fs__fstat(h)
    [] h.type = "access" -> fs__access(h) [] h.type = "chmod" -> fs__chmod(h)
    [] h.type = "fchmod" -> fs__fchmod(h) [] h.type \in {"utime", "lutime"} -> fs__utime_impl(h)
    [] h.type \in {"fsync", "futime"} -> fs__sync_impl(h)
    [] h.type = "readlink" -> fs__readlink(h) [] h.type = "realpath" -> fs__realpath(h)
    [] h.type = "statfs" -> fs__statfs(h) [] h.type \in {"chown", "fchown"} -> {FsOk(h)}
    [] h.type = "rename" -> fs__rename(h) [] h.type = "link" -> fs__link(h)
    [] h.type = "symlink" -> fs__symlink(h) [] h.type = "junction" -> fs__create_junction(h)
    [] h.type = "copyfile" -> fs__copyfile(h) [] h.type = "sendfile" -> fs__sendfile(h)

FsWork ==
  /\ wh.phase = "queued"
  /\ wh' \in {[h EXCEPT !.phase = IF wh.async THEN "worked" ELSE "done"] : h \in FsOutcomes(wh)}

\* uv__fs_done()
FsDone ==
  /\ wh.phase = "worked"
  /\ wh' = [wh EXCEPT !.phase = "done", !.active = 0]

\* uv_fs_req_cleanup(); a second call does nothing.
FsCleanup ==
  /\ wh.phase = "done"
  /\ wh' = [wh EXCEPT !.phase = "cleaned", !.flags = {"CLEANEDUP"}, !.type = "none",
               !.result = "none", !.told = "none", !.path = "template", !.want = FALSE,
               !.async = FALSE, !.fd = TRUE, !.was = wh.node, !.was_other = wh.other,
               !.mem = @ \ ((IF "FREE_PATHS" \in wh.flags THEN {"paths"} ELSE {})
                            \cup (IF "FREE_PTR" \in wh.flags THEN {"ptr"} ELSE {}))]

WinFsNext ==
  \/ (\E type \in FsTypesNew \cup FsTypesLink \cup FsTypesStat \cup FsTypesMode : FsPost(type))
  \/ FsCancel \/ FsWork \/ FsDone \/ FsCleanup

\* What a request that succeeded promises
FsPromise(h) ==
  /\ h.type \in {"unlink", "rmdir", "rename"} => h.node.kind = "none"
  /\ h.type = "unlink" => ~HasDirectory(h.was) \/ IsLink(h.was)
  /\ h.type = "lstat" => (h.told = "link" <=> IsLink(h.was))
  /\ h.type \in {"stat", "lstat", "fstat"} => h.told \in {"link", Behind(h.was)}
  /\ h.type = "fchmod" => h.node = [h.was EXCEPT !.readonly = ~h.want]
  /\ h.type = "junction" => h.other = "junction"
  /\ h.type = "readlink" => IsLink(h.was)
  /\ h.type \in {"mkdtemp", "mkstemp"} => h.path = "filled"

\* Whatever call of a request fails, no handle and no buffer is left, and what the
\* request owns is freed by one cleanup; a request that failed or was cancelled
\* removed, made and renamed nothing, one that succeeded did what its name says;
\* only unlink and fchmod may leave attributes half changed.
WinFsSound ==
  /\ wh.handles = 0 /\ wh.mem \subseteq {"paths", "ptr"}
  /\ "ptr" \in wh.mem <=> "FREE_PTR" \in wh.flags
  /\ wh.phase = "cleaned" => wh.mem = {} /\ wh.active = 0
  /\ wh.active = 1 <=> wh.phase \in {"queued", "worked"} /\ wh.async
  /\ wh.phase \in {"worked", "done"} =>
       IF wh.result = "ok" THEN FsPromise(wh)
       ELSE /\ wh.other = wh.was_other /\ wh.node.kind = wh.was.kind
            /\ wh.node # wh.was => wh.type \in {"unlink", "fchmod"}
  /\ wh.result = "ECANCELED" => wh.node = wh.was

-----------------------------------------------------------------------------
(* Listing a directory.  Its entries are numbered; hidden are "." and      *)
(* "..".                                                                   *)

WinDirInit ==
  \E n \in 0 .. MaxDirents : \E hidden \in SUBSET (1 .. n) :
    wh = [n |-> n, hidden |-> hidden, step |-> "idle",
          at |-> 0, batch |-> 0,           \* entries passed; entries the buffer still holds
          dirents |-> <<>>, size |-> 0,    \* of fs__scandir(): the array and its room
          handle |-> FALSE,
          dir |-> FALSE, need_find_call |-> FALSE, nentries |-> 0,   \* the uv_dir_t
          read |-> <<>>, told |-> <<>>,    \* entries of this readdir, of all
          lost |-> FALSE, result |-> "none"]

Visible == SelectSeq([i \in 1 .. wh.n |-> i], LAMBDA i : i \notin wh.hidden)

\* fs__scandir(), its start: the directory is opened, and a buffer filled.
ScanEnds(h, result) ==
  [h EXCEPT !.step = "idle", !.handle = FALSE, !.at = 0, !.batch = 0, !.size = 0, !.dirents = <<>>,
            !.result = result]
ScanOpen ==
  /\ wh.step = "idle" /\ ~wh.dir
  /\ LET h == [wh EXCEPT !.handle = TRUE, !.step = "scan", !.result = "none"]
     IN \/ wh' = ScanEnds(wh, "error") \/ wh' = ScanEnds(h, "ENOTDIR") \/ wh' = h

\* NtQueryDirectoryFile(), when the buffer is used up
ScanQuery ==
  /\ wh.step = "scan" /\ wh.batch = 0
  /\ \/ \E k \in 1 .. wh.n - wh.at : wh' = [wh EXCEPT !.batch = k]
     \/ wh' = ScanEnds(wh, "error")
     \/ wh.at = wh.n /\ wh' = [wh EXCEPT !.step = "scanned", !.handle = FALSE, !.result = "ok"]

\* An entry of the buffer: the array grows twofold, the entry is copied.
Grown(h) ==
  IF Len(h.dirents) < h.size THEN h.size ELSE IF h.size = 0 THEN InitialDirents ELSE 2 * h.size
ScanEntry ==
  /\ wh.step = "scan" /\ wh.batch > 0
  /\ LET h == [wh EXCEPT !.at = @ + 1, !.batch = @ - 1]
     IN IF h.at \in wh.hidden THEN wh' = h
        ELSE \/ wh' = [h EXCEPT !.size = Grown(h), !.dirents = Append(@, h.at)]
             \/ wh' = ScanEnds(wh, "error")

ScanCleanup == wh.step = "scanned" /\ wh' = ScanEnds(wh, "none")

\* fs__opendir(): a directory without any entry has no handle.
fs__opendir ==
  /\ wh.step = "idle" /\ ~wh.dir
  /\ \/ wh' = [wh EXCEPT !.result = "error"]
     \/ wh' = [wh EXCEPT !.dir = TRUE, !.need_find_call = FALSE, !.handle = wh.n > 0, !.result = "ok",
                         !.at = IF wh.n > 0 THEN 1 ELSE 0, !.told = <<>>, !.lost = FALSE]

\* uv_fs_readdir() of a number of entries
uv_fs_readdir ==
  /\ wh.step = "idle" /\ wh.dir
  /\ IF ~wh.handle THEN wh' = [wh EXCEPT !.result = "EINVAL"]
     ELSE \E k \in 1 .. 2 : wh' = [wh EXCEPT !.step = "read", !.nentries = k, !.read = <<>>,
                                             !.result = "none"]

\* fs__readdir(), a turn of its loop: the first entry was found by fs__opendir().
ReadEnds(h, result) ==
  [h EXCEPT !.step = "idle", !.nentries = 0, !.read = <<>>, !.result = result,
            !.told = IF result = "error" THEN @ ELSE @ \o h.read]
ReaddirTurn ==
  /\ wh.step = "read" /\ Len(wh.read) < wh.nentries
  /\ LET at == IF wh.need_find_call THEN wh.at + 1 ELSE wh.at
         h == [wh EXCEPT !.at = at, !.need_find_call = TRUE]
     IN IF at > wh.n THEN wh' = ReadEnds(wh, IF wh.read = <<>> THEN "end" ELSE "ok")
        ELSE IF at \in wh.hidden THEN wh' = h
        ELSE \/ wh' = [h EXCEPT !.read = Append(@, at)]
             \/ wh' = ReadEnds([wh EXCEPT !.at = at, !.lost = TRUE], "error")
ReaddirFails ==
  /\ wh.step = "read" /\ Len(wh.read) < wh.nentries /\ wh.need_find_call
  /\ wh' = ReadEnds([wh EXCEPT !.lost = TRUE], "error")
ReaddirDone ==
  /\ wh.step = "read" /\ Len(wh.read) = wh.nentries
  /\ wh' = ReadEnds(wh, "ok")

fs__closedir ==
  /\ wh.step = "idle" /\ wh.dir
  /\ wh' = [wh EXCEPT !.dir = FALSE, !.handle = FALSE, !.at = 0, !.need_find_call = FALSE,
                      !.told = <<>>, !.lost = FALSE, !.result = "none"]

WinDirNext ==
  \/ ScanOpen \/ ScanQuery \/ ScanEntry \/ ScanCleanup
  \/ fs__opendir \/ uv_fs_readdir \/ ReaddirTurn \/ ReaddirFails \/ ReaddirDone \/ fs__closedir

\* However the system hands out its entries, a scan gives all but "." and "..",
\* in order, and never writes past its array; reads of any sizes one after the
\* other give the same, each entry once, unless one failed; what fails or ends
\* leaves no entry and no handle.
WinDirSound ==
  /\ Len(wh.dirents) <= wh.size
  /\ wh.step = "scanned" => wh.dirents = Visible /\ ~wh.handle
  /\ wh.step = "idle" => wh.dirents = <<>> /\ wh.read = <<>> /\ (wh.handle => wh.dir)
  /\ wh.dir /\ ~wh.lost => IsPrefix(wh.told \o wh.read, Visible)
  /\ wh.result = "end" /\ ~wh.lost => wh.told = Visible

-----------------------------------------------------------------------------
(* Conversions, of an input at a time.                                     *)

Slashes == {"\\", "/"}
Letters == {"C"}
JunctionPrefix == <<"\\", "?", "?", "\\">>

\* fs__create_junction(): is the target absolute; runs of slashes become one
IsAbsolute(path) == Len(path) >= 3 /\ path[1] \in Letters /\ path[2] = ":" /\ path[3] \in Slashes
OneSlash(path) ==
  FoldLeft(LAMBDA acc, c :
             IF c \in Slashes THEN [acc EXCEPT !.slash = TRUE]
             ELSE [slash |-> FALSE, out |-> acc.out \o (IF acc.slash THEN <<"\\">> ELSE <<>>) \o <<c>>],
           [slash |-> FALSE, out |-> <<>>], path).out
SubstituteName(path) == JunctionPrefix \o OneSlash(path) \o <<"\\">>
PrintName(path) == OneSlash(path) \o (IF Len(OneSlash(path)) = 2 THEN <<"\\">> ELSE <<>>)
NeededSize(path) == Len(JunctionPrefix) + 2 * (Len(path) + 2)

\* fs__readlink_handle() of a junction: the target, or none
HasDrive(w) ==
  /\ Len(w) >= 6 /\ SubSeq(w, 1, 4) = JunctionPrefix /\ w[5] \in Letters /\ w[6] = ":"
  /\ Len(w) = 6 \/ w[7] = "\\"
JunctionTarget(w) == IF HasDrive(w) THEN SubSeq(w, 5, Len(w)) ELSE <<>>

\* fs__stat_prepare_path()
PreparePath(path) ==
  IF Len(path) > 1 /\ path[Len(path) - 1] # ":" /\ path[Len(path)] \in Slashes
  THEN Front(path) ELSE path

\* uv__filetime_to_timespec(), of a time from 1970 on or before: / rounds to zero in C.
Quotient(a, b) == IF a < 0 THEN -((-a) \div b) ELSE a \div b
filetime_to_timespec(t) ==
  LET sec == Quotient(t, Second)
      nsec == t - sec * Second
  IN IF nsec < 0 THEN [sec |-> sec - 1, nsec |-> nsec + Second] ELSE [sec |-> sec, nsec |-> nsec]

WinPathInit == \E input \in PathInputs : wh = [input |-> input, out |-> <<>>]

MakeJunction ==
  /\ DOMAIN wh.out = {} /\ wh.input.what = "path" /\ IsAbsolute(wh.input.path)
  /\ LET path == wh.input.path
     IN wh' = [wh EXCEPT !.out = [used |-> Len(SubstituteName(path)) + Len(PrintName(path)) + 2,
                                  needed |-> NeededSize(path), print |-> PrintName(path),
                                  target |-> JunctionTarget(SubstituteName(path))]]
PrepareStat ==
  /\ DOMAIN wh.out = {} /\ wh.input.what = "path"
  /\ wh' = [wh EXCEPT !.out = [prepared |-> PreparePath(wh.input.path)]]
ConvertTime ==
  /\ DOMAIN wh.out = {} /\ wh.input.what = "time"
  /\ wh' = [wh EXCEPT !.out = filetime_to_timespec(wh.input.time)]

WinPathNext == MakeJunction \/ PrepareStat \/ ConvertTime

\* The names in a path, whatever stands between them
PathWords(path) ==
  SelectSeq(FoldLeft(LAMBDA acc, c :
                       IF c \in Slashes THEN Append(acc, <<>>)
                       ELSE Append(Front(acc), Append(Last(acc), c)), <<<<>>>>, path),
            LAMBDA w : w # <<>>)
NoRuns(path) ==
  "/" \notin Range(path)
  /\ \A i \in 1 .. Len(path) - 1 : path[i] = "\\" => path[i + 1] # "\\"

\* The names of a junction fit the buffer that was allocated for them, and reading
\* the junction gives back the names of the target, with single separators; a path
\* prepared for stat has the same names, and a root stays one; a time before 1970
\* has whole nanoseconds too.
WinPathSound ==
    /\ "used" \in DOMAIN wh.out =>
         /\ wh.out.used <= wh.out.needed
         /\ PathWords(wh.out.target) = PathWords(wh.input.path) /\ NoRuns(wh.out.target)
         /\ PathWords(wh.out.print) = PathWords(wh.input.path) /\ NoRuns(wh.out.print)
         /\ Len(wh.out.print) >= 3
    /\ "prepared" \in DOMAIN wh.out =>
         /\ PathWords(wh.out.prepared) = PathWords(wh.input.path)
         /\ IsAbsolute(wh.input.path) => IsAbsolute(wh.out.prepared)
    /\ "sec" \in DOMAIN wh.out =>
         wh.out.sec * Second + wh.out.nsec = wh.input.time /\ wh.out.nsec \in 0 .. Second - 1
=============================================================================
