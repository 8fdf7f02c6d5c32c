-------------------------------- MODULE FsCopy -------------------------------
(***************************************************************************)
(* uv_fs_copyfile() and uv_fs_sendfile() on Linux (unix/fs.c): the first   *)
(* copies in chunks with the second, which tries copy_file_range(), then   *)
(* sendfile(), then a loop of reads and writes.  Every system call may     *)
(* fail, or do less than was asked.  Bytes are numbers; the source holds   *)
(* 1, 2, 3 ... in this order.  The second part of the module has the       *)
(* buffers of uv_fs_write() and uv_fs_read().                              *)
(***************************************************************************)
EXTENDS Integers, Sequences, SequencesExt

CONSTANTS
  SrcSize,    \* length of the source
  BufSize     \* sizeof(buf) of uv__fs_sendfile_emul()

VARIABLE cp   \* the request, the local variables of the functions, the two files

SrcBytes == [i \in 1..SrcSize |-> i]

AtStart ==
  [op |-> "copyfile", pc |-> "open_src",
   flags |-> {},           \* UV_FS_COPYFILE_EXCL, _FICLONE, _FICLONE_FORCE
   same |-> FALSE,         \* the destination is a name of the source
   pipe |-> FALSE,         \* the source has no positions
   exists |-> FALSE,       \* there is a destination
   dst |-> <<>>,           \* its bytes, or what the socket was sent
   open |-> {},            \* srcfd and dstfd
   err |-> 0, result |-> 0, to_send |-> 0, in_offset |-> 0,
   pos |-> 0,              \* file position of in_fd
   off |-> 0, start |-> 0, len |-> 0, nsent |-> 0, buf |-> <<>>, nwritten |-> 0,
   use_pread |-> TRUE,
   no_cfr |-> FALSE,       \* no_copy_file_range_support
   eio |-> FALSE,          \* history: pread() of a file failed with EIO
   harm |-> FALSE]         \* history: fstat() or close() failed for a copy onto itself

\* A copy to a new file, over an existing one or onto itself; or a part of a
\* file or a pipe that is sent to a socket.
FsCopyInit ==
  \/ \E fl \in SUBSET {"excl", "ficlone", "force"}, same, exists, no \in BOOLEAN :
       /\ same => exists
       /\ cp = [AtStart EXCEPT !.flags = fl, !.same = same, !.exists = exists, !.no_cfr = no,
                               !.dst = IF same THEN SrcBytes ELSE IF exists THEN <<0>> ELSE <<>>]
  \/ \E pipe, no \in BOOLEAN, off \in 0..1, len \in 1..SrcSize :
       /\ pipe => off = 0
       /\ cp = [AtStart EXCEPT !.op = "sendfile", !.pc = "cfr", !.pipe = pipe, !.no_cfr = no,
                               !.open = {"src", "dst"}, !.off = off, !.start = off, !.len = len]

CopyAt(pc) == cp.pc = pc
CopyGoto(pc) == cp' = [cp EXCEPT !.pc = pc]
CopyFail == cp' = [cp EXCEPT !.pc = "out", !.err = -1]

OpenSrc ==
  /\ CopyAt("open_src")
  /\ \/ cp' = [cp EXCEPT !.pc = "stat_src", !.open = {"src"}]
     \/ cp' = [cp EXCEPT !.pc = "done", !.result = -1]

StatSrc == CopyAt("stat_src") /\ (CopyGoto("open_dst") \/ CopyFail)

\* O_CREAT, and O_EXCL when it is asked for.
OpenDst ==
  /\ CopyAt("open_dst")
  /\ \/ /\ ~("excl" \in cp.flags /\ cp.exists)
        /\ cp' = [cp EXCEPT !.exists = TRUE, !.open = @ \cup {"dst"},
                            !.pc = IF "excl" \in cp.flags THEN "chmod" ELSE "stat_dst"]
     \/ CopyFail

\* A destination that is the source is left as it is, any other one truncated.
StatDst ==
  /\ CopyAt("stat_dst")
  /\ \/ cp' = [cp EXCEPT !.pc = "out", !.err = -1, !.harm = cp.same]
     \/ cp.same /\ CopyGoto("out")
     \/ ~cp.same /\ (cp' = [cp EXCEPT !.pc = "chmod", !.dst = <<>>] \/ CopyFail)

\* fchmod(): EPERM of a CIFS share is taken for success.
Chmod ==
  /\ CopyAt("chmod")
  /\ \/ cp' = [cp EXCEPT !.pc = IF cp.flags \cap {"ficlone", "force"} # {} THEN "clone" ELSE "chunk",
                         !.to_send = SrcSize]
     \/ CopyFail

Clone ==
  /\ CopyAt("clone")
  /\ \/ cp' = [cp EXCEPT !.pc = "out", !.dst = SrcBytes]
     \/ "force" \in cp.flags /\ CopyFail
     \/ "force" \notin cp.flags /\ CopyGoto("chunk")

\* The loop of uv__fs_copyfile() calls uv_fs_sendfile() for all that is left.
Chunk ==
  /\ CopyAt("chunk")
  /\ cp' = IF cp.to_send = 0 THEN [cp EXCEPT !.pc = "out"]
           ELSE [cp EXCEPT !.pc = "cfr", !.off = cp.in_offset, !.start = cp.in_offset,
                           !.len = cp.to_send]

\* uv_fs_sendfile() returns r; for a copy the loop goes on or ends.
Sent(c, r) ==
  IF c.op = "sendfile" THEN [c EXCEPT !.pc = "done", !.result = r]
  ELSE IF r < 0 THEN [c EXCEPT !.pc = "out", !.err = r]
  ELSE [c EXCEPT !.pc = "chunk", !.to_send = @ - r, !.in_offset = @ + r]

\* How many bytes a call that asks for n finds in the source at offset o.
Available(o, n) == IF SrcSize - o < n THEN SrcSize - o ELSE n

BytesAt(o, k) == SubSeq(SrcBytes, o + 1, o + k)

\* A call of the kernel that copies k bytes from off, and moves off.
KernelCopies ==
  \E k \in 0..Available(cp.off, cp.len) :
    /\ k = 0 => Available(cp.off, cp.len) = 0
    /\ cp' = Sent([cp EXCEPT !.dst = @ \o BytesAt(cp.off, k), !.off = @ + k], k)

Emulate == [cp EXCEPT !.pc = "emul_read", !.nsent = 0, !.use_pread = TRUE]

\* uv__fs_try_copy_file_range(): errors that mean "use something else" become
\* ENOSYS, and only those lead to sendfile(); EINVAL and the like to emulation.
TryCopyFileRange ==
  /\ CopyAt("cfr")
  /\ \/ ~cp.no_cfr /\ ~cp.pipe /\ KernelCopies
     \/ cp.no_cfr /\ CopyGoto("sendfile")
     \/ ~cp.no_cfr /\ cp' = [cp EXCEPT !.pc = "sendfile", !.no_cfr = TRUE]
     \/ ~cp.no_cfr /\ CopyGoto("sendfile")
     \/ ~cp.no_cfr /\ cp' = Emulate
     \/ ~cp.no_cfr /\ cp' = Sent(cp, -1)

SendFile ==
  /\ CopyAt("sendfile")
  /\ \/ ~cp.pipe /\ KernelCopies
     \/ cp' = Emulate
     \/ cp' = Sent(cp, -1)

\* What the next read asks for, and whether its failure may mean that the
\* source has no positions.
EmulAsk == IF cp.len - cp.nsent < BufSize THEN cp.len - cp.nsent ELSE BufSize
Positional == cp.use_pread /\ cp.nsent = 0

\* Mutant of EmulRead: a chunk is read again from where the send began.
EmulReadAtStart ==
  /\ CopyAt("emul_read")
  /\ \/ cp.nsent = cp.len /\ cp' = Sent(cp, cp.nsent)
     \/ /\ cp.nsent < cp.len
        /\ \E k \in 1..Available(cp.start, EmulAsk) :
             cp' = [cp EXCEPT !.pc = "emul_write", !.buf = BytesAt(cp.start, k)]

\* The loop of uv__fs_sendfile_emul(): pread() at offset, or read() once pread()
\* said ESPIPE or EIO; then the writes, or the end.
EmulRead ==
  LET at == IF cp.use_pread THEN cp.off ELSE cp.pos
  IN /\ CopyAt("emul_read")
     /\ \/ cp.nsent = cp.len /\ cp' = Sent(cp, cp.nsent)
        \/ /\ cp.nsent < cp.len /\ ~(cp.use_pread /\ cp.pipe)
           /\ \/ Available(at, EmulAsk) = 0 /\ cp' = Sent(cp, cp.nsent)
              \/ \E k \in 1..Available(at, EmulAsk) :
                   cp' = [cp EXCEPT !.pc = "emul_write", !.buf = BytesAt(at, k),
                                    !.pos = IF cp.use_pread THEN @ ELSE @ + k]
              \/ cp' = Sent(cp, IF cp.nsent = 0 THEN -1 ELSE cp.nsent)
        \/ /\ cp.nsent < cp.len /\ Positional
           /\ cp' = [cp EXCEPT !.use_pread = FALSE, !.eio = ~cp.pipe]

\* The buffer is written in as many calls as it takes; after the last one
\* offset and nsent move by what was read.  A socket may want to be waited for.
EmulWrite ==
  LET nread == Len(cp.buf) IN
  /\ CopyAt("emul_write")
  /\ \/ \E n \in 1..(nread - cp.nwritten) :
          LET c == [cp EXCEPT !.dst = @ \o SubSeq(cp.buf, cp.nwritten + 1, cp.nwritten + n)]
          IN cp' = IF cp.nwritten + n < nread THEN [c EXCEPT !.nwritten = @ + n]
                   ELSE [c EXCEPT !.pc = "emul_read", !.nwritten = 0, !.buf = <<>>,
                                  !.off = @ + nread, !.nsent = @ + nread]
     \/ cp.op = "sendfile" /\ CopyGoto("emul_poll")            \* EAGAIN
     \/ cp' = Sent([cp EXCEPT !.nwritten = 0, !.buf = <<>>], -1)

EmulPoll ==
  /\ CopyAt("emul_poll")
  /\ \/ CopyGoto("emul_write")
     \/ cp' = Sent([cp EXCEPT !.nwritten = 0, !.buf = <<>>], -1)

\* The end of uv__fs_copyfile(): the files are closed, the first error kept, and
\* a destination that was opened is removed if there was one.
CloseSrc ==
  /\ CopyAt("out")
  /\ \E err \in {0, -1} :
       cp' = [cp EXCEPT !.pc = IF "dst" \in cp.open THEN "close_dst" ELSE "done",
                        !.open = @ \ {"src"},
                        !.result = IF cp.err < 0 THEN cp.err ELSE err,
                        !.harm = @ \/ (cp.same /\ err < 0)]

CloseDst ==
  /\ CopyAt("close_dst")
  /\ \E err \in {0, -1} :
       LET result == IF cp.result # 0 THEN cp.result ELSE err
       IN cp' = [cp EXCEPT !.pc = IF result # 0 THEN "unlink" ELSE "done",
                           !.open = {}, !.result = result,
                           !.harm = @ \/ (cp.same /\ err < 0)]

\* Its own failure is not looked at.
UnlinkDst ==
  /\ CopyAt("unlink")
  /\ \/ cp' = [cp EXCEPT !.pc = "done", !.exists = FALSE, !.dst = <<>>]
     \/ CopyGoto("kept")

FsCopyNext ==
  \/ OpenSrc \/ StatSrc \/ OpenDst \/ StatDst \/ Chmod \/ Clone \/ Chunk
  \/ TryCopyFileRange \/ SendFile \/ EmulRead \/ EmulWrite \/ EmulPoll
  \/ CloseSrc \/ CloseDst \/ UnlinkDst

\* However a copy is cut into calls, and wherever it falls back to another way
\* of copying, success means the source byte by byte, an error means that no
\* half of a file is left, and neither leaves a descriptor open.  (But where
\* pread() of a file fails with EIO the code reads on from the file position.)
\* A copy onto itself keeps the file, if only fstat() and close() work.  A send reports as
\* many bytes as it sent, those from its offset on, and moves the offset by
\* them; it stops early only where the source or a read ends it.
CopyExact ==
  /\ cp.op = "copyfile" =>
       /\ CopyAt("chunk") => cp.eio \/ cp.dst = SubSeq(SrcBytes, 1, cp.in_offset)
       /\ CopyAt("done") =>
            /\ cp.open = {}
            /\ cp.result = 0 => cp.exists /\ (cp.dst = SrcBytes \/ cp.eio)
            /\ cp.result # 0 => ~cp.exists \/ cp.dst \in {<<0>>, SrcBytes}
       /\ cp.same /\ ~cp.harm => cp.exists /\ cp.dst = SrcBytes
  /\ cp.op = "sendfile" /\ CopyAt("done") /\ cp.result >= 0 =>
       /\ cp.eio \/ cp.dst = SubSeq(SrcBytes, cp.start + 1, cp.start + cp.result)
       /\ cp.off = cp.start + cp.result
       /\ cp.result = 0 => cp.start = SrcSize

-----------------------------------------------------------------------------
(***************************************************************************)
(* The buffers of uv_fs_write() and uv_fs_read() on Linux (unix/fs.c).     *)
(* uv__fs_write_all() gives the kernel at most iovmax of them at a time    *)
(* and goes on after a short write; uv__fs_preadv() reads one after the    *)
(* other where the kernel has no preadv().  Bytes are numbered in the      *)
(* order of the buffers.                                                   *)
(***************************************************************************)
CONSTANTS
  MaxBufs,    \* bound: buffers of a request
  BufLens,    \* their lengths
  Iovmax,     \* uv__getiovmax()
  FileSize    \* bound: bytes a read finds

VARIABLE bf   \* the request, the local variables, what was transferred

\* A buffer: the bytes base + 1 .. base + len.
BufLayout(lens) == [i \in DOMAIN lens |-> [base |-> FoldLeft(LAMBDA a, b : a + b, 0, SubSeq(lens, 1, i - 1)),
                                        len |-> lens[i]]]
BufTotal(bufs) == FoldLeft(LAMBDA a, b : a + b.len, 0, bufs)

FirstBufs(s, n) == SubSeq(s, 1, IF Len(s) < n THEN Len(s) ELSE n)

\* uv__fs_read() looks at no more than iovmax buffers.
Given(op, lens) == IF op = "read" THEN FirstBufs(BufLayout(lens), Iovmax) ELSE BufLayout(lens)

BufsReq(op, lens, off, no) ==
  [op |-> op, pc |-> "loop", all |-> BufTotal(Given(op, lens)),
   bufs |-> Given(op, lens),              \* req->bufs, from the first one not done
   off |-> off, start |-> off, total |-> 0, pos |-> 0,
   no_vec |-> no,                         \* no_pwritev, no_preadv
   done |-> <<>>,                         \* <<offset in the file, byte>>
   result |-> 0, cut |-> FALSE]           \* history: an error or an empty call

\* A read of one buffer, or with preadv(), is one system call and no loop.
FsBufsInit ==
  \E op \in {"write", "read"}, n \in 1..MaxBufs, off \in {-1, 3}, no \in BOOLEAN :
    \E lens \in [1..n -> BufLens] :
      /\ op = "read" => off >= 0 /\ n > 1 /\ no
      /\ bf = BufsReq(op, lens, off, no)

\* The bytes of the buffers, in order.
BytesOf(bufs) == FoldLeft(LAMBDA s, b : s \o [i \in 1..b.len |-> b.base + i], <<>>, bufs)

\* The loop of uv__fs_buf_offset() stops in front of buffer k + 1.
LeftAt(bufs, size, k) == size - BufTotal(SubSeq(bufs, 1, k))
StopsAt(bufs, size, k) == \/ LeftAt(bufs, size, k) <= 0
                          \/ bufs[k + 1].len > LeftAt(bufs, size, k)
DoneBufs(bufs, size) == Min({k \in 0..Len(bufs) : StopsAt(bufs, size, k)})

\* Mutant of uv__fs_buf_offset: a buffer that was taken in part is left as it is.
buf_offset_whole(bufs, size) == SubSeq(bufs, DoneBufs(bufs, size) + 1, Len(bufs))

\* uv__fs_buf_offset() and the move of req->bufs: the buffers that are done are
\* dropped and the one that is done in part is shortened.
uv__fs_buf_offset(bufs, size) ==
  LET k == DoneBufs(bufs, size)
      left == LeftAt(bufs, size, k)
      rest == SubSeq(bufs, k + 1, Len(bufs))
  IN IF left = 0 THEN rest
     ELSE [rest EXCEPT ![1] = [base |-> @.base + left, len |-> @.len - left]]

BufsFinish(b, r) == [b EXCEPT !.pc = "done", !.result = r, !.bufs = <<>>]

\* One call of uv__fs_write(): the vector, or the first buffer alone where there
\* is no pwritev(), which the first ENOSYS tells.
WriteCall ==
  /\ bf.op = "write" /\ bf.pc = "loop" /\ bf.bufs # <<>>
  /\ LET one == bf.off >= 0 /\ bf.no_vec
         vec == FirstBufs(bf.bufs, IF one THEN 1 ELSE Iovmax)
         at == IF bf.off >= 0 THEN bf.off ELSE Len(bf.done)
     IN \/ \E r \in 0..BufTotal(vec) :
             /\ r = 0 => BufTotal(vec) = 0
             /\ bf' = IF r = 0 THEN BufsFinish([bf EXCEPT !.cut = TRUE], bf.total)
                      ELSE [bf EXCEPT !.done = @ \o [i \in 1..r |-> <<at + i - 1, BytesOf(vec)[i]>>],
                                      !.off = IF @ >= 0 THEN @ + r ELSE @,
                                      !.bufs = uv__fs_buf_offset(@, r),
                                      !.total = @ + r]
        \/ bf' = BufsFinish([bf EXCEPT !.cut = TRUE], IF bf.total = 0 THEN -1 ELSE bf.total)
        \/ /\ bf.off >= 0 /\ Len(FirstBufs(bf.bufs, Iovmax)) > 1 /\ ~bf.no_vec
           /\ bf' = [bf EXCEPT !.no_vec = TRUE]

WriteEnd ==
  /\ bf.op = "write" /\ bf.pc = "loop" /\ bf.bufs = <<>>
  /\ bf' = BufsFinish(bf, bf.total)

\* One turn of uv__fs_preadv(): pread() into what is left of the first buffer.
\* An empty buffer reads nothing and looks like the end of the file.
ReadCall ==
  /\ bf.op = "read" /\ bf.pc = "loop"
  /\ LET buf == Head(bf.bufs)
         room == buf.len - bf.pos
         have == FileSize - bf.total
         most == IF room < have THEN room ELSE have
     IN \/ most = 0 /\ bf' = BufsFinish([bf EXCEPT !.cut = TRUE], bf.total)
        \/ \E r \in 1..most :
             LET b == [bf EXCEPT !.done = @ \o [i \in 1..r |-> <<bf.off + bf.total + i - 1,
                                                                 buf.base + bf.pos + i>>],
                                 !.total = @ + r]
             IN bf' = IF bf.pos + r < buf.len THEN [b EXCEPT !.pos = @ + r]
                      ELSE IF Len(bf.bufs) = 1 THEN BufsFinish(b, b.total)
                      ELSE [b EXCEPT !.pos = 0, !.bufs = Tail(@)]
        \/ bf' = BufsFinish([bf EXCEPT !.cut = TRUE], IF bf.total = 0 THEN -1 ELSE bf.total)

FsBufsNext == WriteCall \/ WriteEnd \/ ReadCall

\* However the kernel cuts the calls, byte i of the buffers goes to, or comes
\* from, the i-th place of the file after the offset, each once; the result is
\* their number, all of them unless an error, the end of the file or a vector
\* without a byte in it ended the loop.
BufsExact ==
  /\ bf.done = [i \in 1..bf.total |-> <<(IF bf.start < 0 THEN 0 ELSE bf.start) + i - 1, i>>]
  /\ bf.pc = "done" => /\ bf.result = -1 => bf.total = 0
                       /\ bf.result # -1 => bf.result = bf.total
                       /\ ~bf.cut => bf.result = bf.all
=============================================================================
