------------------------------ MODULE MCHandles ------------------------------
(* For TLC, the loop with the lists it keeps its handles in, and on its own *)
(* each kind of handle or request that keeps to itself: a stream, a UDP     *)
(* socket, a server with its pipe, a file poller, the inotify watchers, a   *)
(* file system request with its memory, the copy of a file, the buffers of  *)
(* a read or a write, the conversion of a name or an address.  The modules  *)
(* share no state, so a behaviour is one of one of them.                    *)
EXTENDS Loop, Stream, Udp, FsPoll, Inotify, FsReq, FsCopy, Address

CONSTANTS
  Parts,      \* the modules to look at
  c1, t1, s1  \* the loop's handles: a check watcher, a timer, a stream

MixKinds == [h \in Handles |-> IF h = c1 THEN "check" ELSE IF h = t1 THEN "timer" ELSE "stream"]
WriteSizes == <<2, 0, 1>>
DatagramEnds == <<2, 2, 3>>

\* Addresses of two kinds of words, and those that embed an IPv4 address or nearly;
\* some of them in every room from too small to enough.
Bytes16(w) == [i \in 1 .. 16 |-> IF i % 2 = 1 THEN w[(i + 1) \div 2] \div 256 ELSE w[i \div 2] % 256]
Mapped == Bytes16(<<0, 0, 0, 0, 0, 65535, 258, 65535>>)
PrintCases ==
  [what : {"print"}, af : {"inet6"}, size : {46},
   src : {Bytes16(w) : w \in [1 .. 8 -> {0, 4660}]}
         \cup {Bytes16(<<0, 0, 0, 0>> \o w) : w \in [1 .. 4 -> {0, 1, 255, 65535}]}]
  \cup [what : {"print"}, af : {"inet6"}, src : {Mapped, Bytes16(<<1, 0, 0, 0, 0, 0, 0, 1>>)}, size : 0 .. 22]
  \cup [what : {"print"}, af : {"inet"}, src : {<<a, b, 0, c>> : a, b, c \in {0, 9, 10, 99, 100, 255}},
         size : {0, 7, 8, 16}]

\* Short texts, and right ones with one character taken out, put in or changed
Edits(t, chars) ==
  {t} \cup {SubSeq(t, 1, i - 1) \o SubSeq(t, i + 1, Len(t)) : i \in 1 .. Len(t)}
  \cup {SubSeq(t, 1, i) \o <<c>> \o SubSeq(t, i + 1, Len(t)) : i \in 0 .. Len(t), c \in chars}
  \cup {[t EXCEPT ![i] = c] : i \in 1 .. Len(t), c \in chars}
Texts6 ==
  {Text6(a, BestRun(a)) : a \in {Mapped} \cup {Bytes16(w) :
     w \in {<<1, 2, 3, 4, 5, 6, 7, 8>>, <<1, 0, 0, 0, 0, 0, 0, 0>>, <<0, 0, 3, 4, 5, 6, 7, 8>>,
            <<4660, 4660, 3, 4, 5, 6, 7, 4660>>, <<0, 0, 0, 0, 0, 0, 0, 0>>}}}
  \cup {<<1, Colon, 2, Colon, 3, Colon, 4, Colon, 5, Colon, 6, Colon>> \o Quad(<<1, 2, 3, 4>>)}
LongText ==
  [i \in 1 .. 30 |-> IF i % 5 = 0 THEN Colon ELSE 0] \o Quad(<<1, 1, 1, 1>>) \o <<Percent, 1>>
ParseCases ==
  [what : {"parse"}, af : {"inet6"},
   text : BoundedSeq({1, Colon, Dot}, 6)
          \cup UNION {Edits(t, {0, 1, 15, 111, Colon, Dot, Percent, 19}) : t \in Texts6}]
  \cup [what : {"parse"}, af : {"inet"},
         text : BoundedSeq({0, 1, Dot}, 5)
                \cup UNION {Edits(Quad(a), {0, 1, 5, 10, Dot, Colon}) : a \in {<<1, 2, 3, 4>>, <<255, 0, 25, 199>>}}]
  \cup [what : {"zone"}, text : Edits(LongText, {1, Percent})]

\* First bytes of every kind, before bytes around the bounds of what may follow
DecodeCases ==
  [what : {"decode"},
   bytes : {<<a>> \o more : a \in {65, 127, 128, 191, 193, 194, 223, 224, 226, 237, 239, 240, 241, 244, 247, 248},
                         more \in BoundedSeq({65, 128, 143, 144, 159, 160, 191, 193}, 3)}]
\* Names with labels that overflow UintMax and such that do not, full stops of two
\* kinds, errors, too little room; and strings to copy and to cut
NameCases ==
  [what : {"name"}, codes : BoundedSeq({97, 45, 46, 128, 252, 5000, 12290}, 4), room : {99}]
  \cup [what : {"name"}, codes : BoundedSeq({-1, 97, 46, 252, 253}, 4), room : {6}]
StringCases == [what : {"copy"}, s : BoundedSeq({1, 2}, 3), n : 0 .. 5]
Conversions ==
  [what : {"convert"}, done : {FALSE}, out : {<<>>},
   in : PrintCases \cup ParseCases \cup DecodeCases \cup NameCases \cup StringCases]
TokenCases == [what : {"tokens"}, s : BoundedSeq({1, 2, 3}, 4), sep : {{1}, {1, 2}}, itr : {1}, out : {<<>>}]

AddressInputs == Conversions \cup TokenCases

VARIABLE part

\* Of what starts in several ways, one is enough at rest.
HandlesInit ==
  /\ part \in Parts
  /\ Init /\ StreamInit /\ UdpInit /\ ServerInit /\ FsPollInit /\ InotifyInit /\ FsReqInit
  /\ part # "udp" => ~u.mmsg
  /\ part # "server" => ~srv.ipc /\ srv.emfile_fd = 0
  /\ IF part = "fs_copy" THEN FsCopyInit ELSE cp = AtStart
  /\ IF part = "address" THEN AddressInit ELSE ad = NewRequest
  /\ IF part = "fs_bufs" THEN FsBufsInit ELSE bf = BufsReq("write", <<1>>, 0, FALSE)

\* Only the state of part p changes.
Only(p) ==
  /\ part = p
  /\ p # "loop" => UNCHANGED vars
  /\ p # "stream" => UNCHANGED stream_vars
  /\ p # "udp" => UNCHANGED udp_vars
  /\ p # "server" => UNCHANGED srv_vars
  /\ p # "fs_poll" => UNCHANGED fp_vars
  /\ p # "fs_event" => UNCHANGED ino_vars
  /\ p # "fs_req" => UNCHANGED fsr_vars
  /\ p # "fs_copy" => UNCHANGED cp
  /\ p # "fs_bufs" => UNCHANGED bf
  /\ p # "address" => UNCHANGED ad

HandlesNext ==
  /\ part' = part
  /\ \/ Only("loop") /\ Next
     \/ Only("stream") /\ StreamNext
     \/ Only("udp") /\ UdpNext
     \/ Only("server") /\ ServerNext
     \/ Only("fs_poll") /\ FsPollNext
     \/ Only("fs_event") /\ InotifyNext
     \/ Only("fs_req") /\ FsReqNext
     \/ Only("fs_copy") /\ FsCopyNext
     \/ Only("fs_bufs") /\ FsBufsNext
     \/ Only("address") /\ AddressNext

HandlesSpec ==
  /\ HandlesInit
  /\ [][HandlesNext]_<<part, vars, stream_vars, udp_vars, srv_vars, fp_vars, ino_vars,
                       fsr_vars, cp, bf, ad>>

\* A file request frees what it owns once (FsReq), and the bytes of a copy and of a
\* vectored read or write arrive where they belong, each once, however the calls are
\* cut short: uv__fs_copyfile(), uv__fs_sendfile(), uv__fs_write_all() and
\* uv__fs_preadv() (FsCopy).
FsExact == FsReqSound /\ CopyExact /\ BufsExact
=============================================================================
