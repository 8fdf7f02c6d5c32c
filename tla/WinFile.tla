------------------------------- MODULE WinFile -------------------------------
(***************************************************************************)
(* Open files of the Windows port (win/fs.c, win/fs-fd-hash-inl.h): the    *)
(* flags of uv_fs_open(), and reads, writes and truncations of a file      *)
(* opened with UV_FS_O_FILEMAP, whose position and section the library     *)
(* keeps itself, side by side with the same requests on a file opened      *)
(* without it.  At the end the table that holds what the library keeps.    *)
(* One request at a time is under way for a file.                          *)
(***************************************************************************)
EXTENDS WinHandle, SequencesExt

CONSTANTS
  Granularity,   \* uv__allocation_granularity
  MaxFile,       \* bound: bytes of a file
  GroupSize,     \* UV__FD_HASH_GROUP_SIZE
  HashFds        \* descriptors of one bucket of the table

ASSUME FileAssumption == Granularity \in Nat \ {0} /\ MaxFile \in Nat /\ GroupSize \in Nat \ {0}

-----------------------------------------------------------------------------
(* fs__open(): flags are a set.  O_RDONLY is no bit of its own: the access *)
(* is O_RDONLY, O_WRONLY, O_RDWR, or the fourth value of the two bits.     *)

\* FILEMAP needs a handle that reads and writes for what it maps.
Accesses == {"RDONLY", "WRONLY", "RDWR"}
OsFlags(flags) ==
  IF "FILEMAP" \in flags /\ ("APPEND" \in flags \/ flags \cap Accesses = {"WRONLY"})
  THEN (flags \ (Accesses \cup {"APPEND"})) \cup {"RDWR"} ELSE flags

\* The access of the handle, before and after O_DIRECT; FILE_GENERIC_WRITE appends too.
Granted(flags) ==
  LET can == (IF flags \cap {"RDONLY", "RDWR"} # {} THEN {"read"} ELSE {})
             \cup (IF flags \cap {"WRONLY", "RDWR"} # {} THEN {"write", "append"} ELSE {})
  IN IF "APPEND" \in flags THEN (can \ {"write"}) \cup {"append"} ELSE can
Access(flags) ==
  IF "DIRECT" \in flags /\ "write" \in Granted(flags) THEN Granted(flags) \ {"append"}
  ELSE Granted(flags)

Disposition(flags) ==
  LET f == flags \cap {"CREAT", "EXCL", "TRUNC"}
  IN CASE f \subseteq {"EXCL"} -> "OPEN_EXISTING"
       [] f = {"CREAT"} -> "OPEN_ALWAYS"
       [] {"CREAT", "EXCL"} \subseteq f -> "CREATE_NEW"
       [] f \in {{"TRUNC"}, {"TRUNC", "EXCL"}} -> "TRUNCATE_EXISTING"
       [] f = {"CREAT", "TRUNC"} -> "CREATE_ALWAYS"

\* Flags that exclude each other, and O_DIRECT for a handle that only appends
Einval(flags) ==
  \/ {"WRONLY", "RDWR"} \subseteq flags
  \/ {"SEQUENTIAL", "RANDOM"} \subseteq flags
  \/ "DIRECT" \in flags /\ "append" \in Granted(flags) /\ "write" \notin Granted(flags)
  \/ {"SYNC", "DSYNC"} \subseteq flags

\* CreateFileW(): the file that is open then, of the bytes old before, if any
CreateFile(disposition, old, access) ==
  CASE disposition = "OPEN_EXISTING" -> IF old = "none" THEN "ENOENT" ELSE old
    [] disposition = "OPEN_ALWAYS" -> IF old = "none" THEN "empty" ELSE old
    [] disposition = "CREATE_NEW" -> IF old = "none" THEN "empty" ELSE "EEXIST"
    [] disposition = "TRUNCATE_EXISTING" ->
         IF old = "none" THEN "ENOENT"
         ELSE IF access \cap {"write", "append"} = {} THEN "EINVAL" ELSE "empty"
    [] disposition = "CREATE_ALWAYS" -> "empty"

\* A file that is there or not, and the flags it will be opened with
WinOpenInit ==
  \E flags \in SUBSET {"CREAT", "EXCL", "TRUNC", "APPEND", "FILEMAP", "DIRECT", "SEQUENTIAL",
                       "RANDOM", "SYNC", "DSYNC"},
     access \in {{"RDONLY"}, {"WRONLY"}, {"RDWR"}, {"WRONLY", "RDWR"}}, old \in {"none", "bytes"} :
    wh = [flags |-> flags \cup access, old |-> old, opened |-> "not yet", access |-> {}]

fs__open ==
  /\ wh.opened = "not yet"
  /\ LET flags == OsFlags(wh.flags)
     IN wh' = IF Einval(flags) THEN [wh EXCEPT !.opened = "EINVAL"]
              ELSE [wh EXCEPT !.opened = CreateFile(Disposition(flags), wh.old, Access(flags)),
                              !.access = Access(flags)]

WinOpenNext == fs__open

\* What POSIX says of the same flags, when the open is not refused
PosixOpen(flags, old) ==
  IF old = "none" THEN (IF "CREAT" \in flags THEN "empty" ELSE "ENOENT")
  ELSE IF {"CREAT", "EXCL"} \subseteq flags THEN "EEXIST"
  ELSE IF "TRUNC" \in flags THEN "empty" ELSE old

\* All that is refused: flags that exclude each other, an append past the cache, and
\* O_TRUNC of a file that is there, without O_CREAT and with no right to write.
Refused(flags, old) ==
  \/ {"SEQUENTIAL", "RANDOM"} \subseteq flags \/ {"SYNC", "DSYNC"} \subseteq flags
  \/ {"WRONLY", "RDWR"} \subseteq flags /\ ~({"FILEMAP", "APPEND"} \subseteq flags)
  \/ {"APPEND", "DIRECT"} \subseteq flags /\ "FILEMAP" \notin flags
  \/ "TRUNC" \in flags /\ flags \cap {"CREAT", "WRONLY", "RDWR", "APPEND"} = {} /\ old # "none"

\* Exactly the flags of Refused are refused, and with all others a file is opened,
\* created or emptied as POSIX has it, with O_EXCL alone as if it were not there.
\* Of O_TRUNC with O_RDONLY POSIX says nothing: with O_CREAT it empties the file, though
\* the handle cannot write.  The handle can do all that reads and writes with these
\* flags will need, to map the file included.
WinOpenSound ==
  wh.opened # "not yet" =>
    /\ wh.opened = (IF Refused(wh.flags, wh.old) THEN "EINVAL" ELSE PosixOpen(wh.flags, wh.old))
    /\ ~Refused(wh.flags, wh.old) =>
         /\ wh.flags \cap {"RDONLY", "RDWR"} # {} => "read" \in wh.access
         /\ wh.flags \cap {"WRONLY", "RDWR"} # {} => wh.access \cap {"write", "append"} # {}
         /\ "FILEMAP" \in wh.flags /\ wh.flags \cap {"WRONLY", "RDWR"} # {} =>
              {"read", "write"} \subseteq wh.access

-----------------------------------------------------------------------------
(* A file open with FILEMAP and one open without.                          *)

\* req->result, and what a read put into the buffers
Result(n, data) == [n |-> n, data |-> data]
Failure == Result(-1, <<>>)

\* O_RDONLY with O_APPEND is left out: without FILEMAP that handle may append.
WinFileInit ==
  \E flags \in {{"RDONLY"}, {"WRONLY"}, {"RDWR"}, {"WRONLY", "APPEND"}, {"RDWR", "APPEND"}},
     bytes \in {<<>>, <<1, 1>>}, dir \in BOOLEAN :
    /\ dir => flags = {"RDONLY"} /\ bytes = <<>>
    /\ wh = [st |-> "open", flags |-> flags, directory |-> dir,
             plain |-> bytes, pos |-> 0,            \* the file without
             mapped |-> bytes,                      \* the file with FILEMAP, and its
             info |-> [size |-> Len(bytes), mapping |-> Len(bytes), pos |-> 0],
             sections |-> IF bytes = <<>> THEN 0 ELSE 1,  \* sections that are open
             refused |-> FALSE,                     \* the system was asked what it never does
             apart |-> FALSE,                       \* the system failed the one with FILEMAP
             result |-> Result(0, <<>>), plain_result |-> Result(0, <<>>)]

Appends(h) == "APPEND" \in h.flags
PlainCan(h) == Access(h.flags)
MappedCan(h) == Access(OsFlags(h.flags \cup {"FILEMAP"}))

\* CreateFileMapping() of some bytes, all of the file or more, to read or to write
Section(h, bytes) ==
  [h EXCEPT !.sections = @ + 1, !.info.mapping = bytes,
            !.mapped = @ \o [i \in 1 .. bytes - Len(h.mapped) |-> 0],
            !.refused = @ \/ bytes = 0 \/ "read" \notin MappedCan(h)
                          \/ ("RDONLY" \notin h.flags /\ "write" \notin MappedCan(h))]

-----------------------------------------------------------------------------
(* Reads and writes, of buffers of the lengths bufs, at an offset or at    *)
(* the position (-1).                                                      *)

Total(bufs) == FoldLeft(LAMBDA a, b : a + b, 0, bufs)
Before(bufs, i) == Total(SubSeq(bufs, 1, i - 1))
Lower(a, b) == IF a < b THEN a ELSE b

\* The bytes of a file from some position, and the file with bytes put there
BytesAt(bytes, at, n) == SubSeq(bytes, at + 1, Lower(at + n, Len(bytes)))
PutAt(bytes, at, new) ==
  [i \in 1 .. (IF at + Len(new) > Len(bytes) THEN at + Len(new) ELSE Len(bytes)) |->
     IF i > at /\ i <= at + Len(new) THEN new[i - at]
     ELSE IF i <= Len(bytes) THEN bytes[i] ELSE 0]

\* MapViewOfFile() wants its base on the granularity and its end in the section.
View(h, at, n) ==
  LET offset == at % Granularity
      base == at - offset
  IN [h EXCEPT !.refused = @ \/ h.info.mapping = 0 \/ base % Granularity # 0
                             \/ base + offset + n > h.info.mapping]

\* What a request leaves when the system fails it half-way; the file without FILEMAP
\* is not looked at any more.
Apart(h) == [h EXCEPT !.apart = TRUE, !.plain = <<>>, !.pos = 0, !.plain_result = Failure]
SystemFails(h) == [Apart(h) EXCEPT !.result = Failure]

\* fs__read_filemap(): a set of outcomes
ReadMapped(h, bufs, offset) ==
  LET at == IF offset = -1 THEN h.info.pos ELSE offset
      n == Lower(Total(bufs), h.info.size - at)
      v == View(h, at, n)
      parts == [i \in DOMAIN bufs |-> BytesAt(h.mapped, at + Before(bufs, i),
                                              Lower(bufs[i], n - Lower(n, Before(bufs, i))))]
  IN IF "WRONLY" \in h.flags \/ h.directory THEN {[h EXCEPT !.result = Failure]}
     ELSE IF at >= h.info.size \/ n = 0
     THEN {[h EXCEPT !.result = Result(0, [i \in DOMAIN bufs |-> <<>>])]}
     ELSE {[v EXCEPT !.result = Result(n, parts), !.info.pos = IF offset = -1 THEN at + n ELSE @],
           SystemFails(v)}

\* fs__read(), without FILEMAP: ReadFile() once for each buffer.  With an offset
\* the position moves, and is put back.
ReadPlain(h, bufs, offset) ==
  LET at == IF offset = -1 THEN h.pos ELSE offset
      parts == [i \in DOMAIN bufs |-> BytesAt(h.plain, at + Before(bufs, i), bufs[i])]
      n == Total([i \in DOMAIN bufs |-> Len(parts[i])])
  IN IF "read" \notin PlainCan(h) \/ h.directory
     THEN [h EXCEPT !.plain_result = Failure]
     ELSE [h EXCEPT !.plain_result = Result(n, parts), !.pos = IF offset = -1 THEN at + n ELSE @]

\* The bytes of buffer i of a write: 2 and 3 in turn, so that their order shows
Written(bufs, i) == [k \in 1 .. bufs[i] |-> 2 + ((Before(bufs, i) + k) % 2)]
AllWritten(bufs) == [k \in 1 .. Total(bufs) |-> 2 + (k % 2)]

\* fs__write_filemap(): a section for the longer file, a view, a copy, a flush.  A
\* section that cannot be made closes the file under its descriptor.
WriteMapped(h, bufs, offset) ==
  LET n == Total(bufs)
      at == IF Appends(h) THEN h.info.size ELSE IF offset = -1 THEN h.info.pos ELSE offset
      longer == at + n > h.info.size
      left == [h EXCEPT !.sections = IF h.info.mapping # 0 THEN @ - 1 ELSE @]
      g == IF longer THEN [Section(left, at + n) EXCEPT !.info.size = at + n] ELSE h
      v == View(g, at, n)
      copied == FoldLeft(LAMBDA bytes, i : PutAt(bytes, at + Before(bufs, i), Written(bufs, i)),
                         v.mapped, [i \in DOMAIN bufs |-> i])
      w == [v EXCEPT !.mapped = copied]
  IN IF "RDONLY" \in h.flags \/ h.directory THEN {[h EXCEPT !.result = Failure]}
     ELSE IF n = 0 THEN {[h EXCEPT !.result = Result(0, <<>>)]}
     ELSE {[w EXCEPT !.result = Result(n, <<>>), !.info.pos = IF offset = -1 THEN at + n ELSE @],
           SystemFails(v), SystemFails(w)}
          \cup IF longer
               THEN {[SystemFails(left) EXCEPT !.st = "poisoned",
                                               !.info = [size |-> 0, mapping |-> 0, pos |-> 0]]}
               ELSE {}

\* fs__write(), without FILEMAP
WritePlain(h, bufs, offset) ==
  LET at == IF Appends(h) THEN Len(h.plain) ELSE IF offset = -1 THEN h.pos ELSE offset
  IN IF PlainCan(h) \cap {"write", "append"} = {} \/ h.directory
     THEN [h EXCEPT !.plain_result = Failure]
     ELSE [h EXCEPT !.plain_result = Result(Total(bufs), <<>>),
                    !.plain = IF Total(bufs) = 0 THEN @ ELSE PutAt(@, at, AllWritten(bufs)),
                    !.pos = IF offset = -1 /\ Total(bufs) > 0 THEN at + Total(bufs) ELSE @]

Vectors == BoundedSeq(0 .. 2, 2) \ {<<>>}
Offsets == -1 .. MaxFile

fs__read ==
  /\ wh.st = "open"
  /\ \E bufs \in Vectors, offset \in Offsets :
       wh' \in ReadMapped(IF wh.apart THEN wh ELSE ReadPlain(wh, bufs, offset), bufs, offset)

fs__write ==
  /\ wh.st = "open"
  /\ \E bufs \in Vectors, offset \in Offsets :
       /\ (IF Appends(wh) THEN wh.info.size ELSE IF offset = -1 THEN wh.info.pos ELSE offset)
            + Total(bufs) <= MaxFile
       /\ wh' \in WriteMapped(IF wh.apart THEN wh ELSE WritePlain(wh, bufs, offset), bufs, offset)

\* fs__ftruncate(): the section is closed first; when the system does not set the
\* end, or makes no section, the file is closed under its descriptor.
Resized(bytes, n) == [i \in 1 .. n |-> IF i <= Len(bytes) THEN bytes[i] ELSE 0]
Truncated(h, n) ==
  LET left == [h EXCEPT !.sections = IF h.info.mapping # 0 THEN @ - 1 ELSE @]
      g == [left EXCEPT !.mapped = Resized(@, n), !.info.size = n, !.info.mapping = 0,
                        !.result = Result(0, <<>>)]
      lost == [SystemFails(left) EXCEPT !.st = "poisoned",
                                        !.info = [size |-> 0, mapping |-> 0, pos |-> 0]]
  IN IF h.directory THEN {[h EXCEPT !.result = Failure]}
     ELSE IF "write" \notin MappedCan(h) THEN {lost}
     ELSE {lost} \cup IF n = 0 THEN {g} ELSE {Section(g, n), [lost EXCEPT !.mapped = g.mapped]}

\* Without FILEMAP a handle that only appends cannot set the end; with it, it can.
TruncatePlain(h, n) ==
  IF Appends(h) THEN Apart(h)
  ELSE IF "write" \in PlainCan(h) /\ ~h.directory
  THEN [h EXCEPT !.plain = Resized(@, n), !.plain_result = Result(0, <<>>)]
  ELSE [h EXCEPT !.plain_result = Failure]

fs__ftruncate ==
  /\ wh.st = "open"
  /\ \E n \in 0 .. MaxFile :
       wh' \in Truncated(IF wh.apart THEN wh ELSE TruncatePlain(wh, n), n)

fs__close ==
  /\ wh.st = "open"
  /\ wh' = [wh EXCEPT !.st = "closed", !.result = Result(0, <<>>), !.plain_result = Result(0, <<>>),
                      !.sections = IF wh.info.mapping # 0 THEN @ - 1 ELSE @]

WinFileNext == fs__read \/ fs__write \/ fs__ftruncate \/ fs__close

\* While the system does what it is asked, FILEMAP changes nothing: every read,
\* write and truncation has the result it has without, moves the position as it
\* does and leaves the same bytes, for vectors, offsets and appends.  The library
\* never asks for a view outside its section; what it keeps is the file's true
\* size, one section at most is open, and none when the file is closed.
WinFileSound ==
  /\ ~wh.refused
  /\ ~wh.apart => wh.result = wh.plain_result /\ wh.mapped = wh.plain
                  /\ (wh.st = "open" => wh.info.pos = wh.pos)
  /\ wh.st = "open" =>
       /\ wh.info.size = Len(wh.mapped) /\ wh.info.mapping = Len(wh.mapped)
       /\ wh.sections = IF wh.info.mapping = 0 THEN 0 ELSE 1
  /\ wh.st # "open" => wh.sections = 0

-----------------------------------------------------------------------------
(* The table, of one bucket: groups of GroupSize entries, the first one    *)
(* filled to size % GroupSize, with what it held before behind that.       *)

NoEntry == [fd |-> -1, info |-> 0]

\* uv__fd_hash_init(); ref is what a table of that content should hold
WinHashInit ==
  wh = [size |-> 0, groups |-> <<[i \in 1 .. GroupSize |-> NoEntry]>>, ref |-> <<>>]

\* FIND_IN_BUCKET_PTR: the places that are looked at, by group and index
\* Mutant of FirstSize: a full first group is taken for an empty one.
FirstSizeModulo(h) == h.size % GroupSize
FirstSize(h) ==
  IF h.size # 0 /\ h.size % GroupSize = 0 THEN GroupSize ELSE h.size % GroupSize
Places(h) == {p \in (DOMAIN h.groups) \X (1 .. GroupSize) : p[1] = 1 => p[2] <= FirstSize(h)}
FindFd(h, fd) == {p \in Places(h) : h.groups[p[1]][p[2]].fd = fd}

\* uv__fd_hash_get()
HashGet(h, fd) == {h.groups[p[1]][p[2]].info : p \in FindFd(h, fd)}

uv__fd_hash_add(fd, info) ==
  LET found == FindFd(wh, fd)
      i == wh.size % GroupSize
      groups == IF wh.size # 0 /\ i = 0 THEN <<[k \in 1 .. GroupSize |-> NoEntry]>> \o wh.groups
                ELSE wh.groups
      entry == [fd |-> fd, info |-> info]
      ref == [f \in DOMAIN wh.ref \cup {fd} |-> IF f = fd THEN info ELSE wh.ref[f]]
  IN IF found # {}
     THEN \E p \in found : wh' = [wh EXCEPT !.groups[p[1]][p[2]] = entry, !.ref = ref]
     ELSE wh' = [wh EXCEPT !.size = @ + 1, !.groups = [groups EXCEPT ![1][i + 1] = entry],
                           !.ref = ref]

\* The last entry takes the place of the one removed; a group left empty goes.
Emptied(h) == h.size # 0 /\ h.size % GroupSize = 0
uv__fd_hash_remove(fd) ==
  \E p \in FindFd(wh, fd) :
    LET size == wh.size - 1
        moved == [wh EXCEPT !.size = size,
                            !.groups[p[1]][p[2]] = wh.groups[1][(size % GroupSize) + 1],
                            !.ref = [f \in DOMAIN wh.ref \ {fd} |-> wh.ref[f]]]
    IN wh' = IF Emptied(moved) THEN [moved EXCEPT !.groups = Tail(@)] ELSE moved

WinHashNext ==
  \E fd \in HashFds : uv__fd_hash_remove(fd) \/ (\E info \in 1 .. 2 : uv__fd_hash_add(fd, info))

\* The table holds what was put there and not removed, for every descriptor, old
\* entries behind the last one never count, and no group is kept that is not needed.
WinHashSound ==
  /\ \A fd \in HashFds : HashGet(wh, fd) = IF fd \in DOMAIN wh.ref THEN {wh.ref[fd]} ELSE {}
  /\ wh.size = Cardinality(DOMAIN wh.ref)
  /\ wh.size <= GroupSize * Len(wh.groups)
  /\ Len(wh.groups) = 1 \/ wh.size > GroupSize * (Len(wh.groups) - 1)
=============================================================================
