------------------------------- MODULE Address -------------------------------
(***************************************************************************)
(* Names and addresses: inet.c, idna.c, strscpy.c, strtok.c, the part of   *)
(* uv-common.c above them, and the requests of unix/getaddrinfo.c and      *)
(* unix/getnameinfo.c.  A case is one input, converted in one step, a      *)
(* string cut token by token, or the life of one request.                  *)
(***************************************************************************)
EXTENDS Integers, Sequences, SequencesExt, FiniteSetsExt

CONSTANTS
  AddressCases,   \* what is converted and what is cut into tokens
  UintMax         \* UINT_MAX, for the deltas of Punycode

VARIABLE ad

-----------------------------------------------------------------------------
(* inet.c.  A text is a sequence of digits, 0 to 15, of upper case digits, *)
(* 110 to 115, and of these; an address is 4 or 16 bytes.                  *)

Colon == 16
Dot == 17
Percent == 18
Invalid == <<>>   \* UV_EINVAL

Hex(ch) == IF ch < 16 THEN ch ELSE IF ch \in 110 .. 115 THEN ch - 100 ELSE -1

\* A number without leading zeros: %u of a byte and %x of a word
Shortest(digits) ==
  LET n == Len(digits)
      from == Min({n} \cup {i \in 1 .. n : digits[i] # 0})
  IN SubSeq(digits, from, n)
Decimal(b) == Shortest(<<b \div 100, (b \div 10) % 10, b % 10>>)
Hexadecimal(w) == Shortest(<<w \div 4096, (w \div 256) % 16, (w \div 16) % 16, w % 16>>)

\* What fits with its end, or UV_ENOSPC
Printed(text, size) == [err |-> Len(text) >= size, text |-> IF Len(text) >= size THEN <<>> ELSE text]

Quad(b) ==
  Decimal(b[1]) \o <<Dot>> \o Decimal(b[2]) \o <<Dot>> \o Decimal(b[3]) \o <<Dot>> \o Decimal(b[4])
inet_ntop4(src, size) == Printed(Quad(src), size)

Word(src, i) == 256 * src[2 * i + 1] + src[2 * i + 2]   \* 0 to 7

NoRun == [base |-> -1, len |-> 0]
\* Mutant of Better: the last of the longest runs.
BetterLast(best, cur) == IF cur.base # -1 /\ cur.len >= best.len THEN cur ELSE best

\* The first of the longest runs of zero words
Better(best, cur) == IF cur.base # -1 /\ (best.base = -1 \/ cur.len > best.len) THEN cur ELSE best
BestRun(src) ==
  LET Step(r, i) ==
        IF Word(src, i) = 0
        THEN [r EXCEPT !.cur = IF @.base = -1 THEN [base |-> i, len |-> 1] ELSE [@ EXCEPT !.len = @ + 1]]
        ELSE [best |-> Better(r.best, r.cur), cur |-> NoRun]
      Ended6(r) == Better(r.best, r.cur)
      Worth(best) == IF best.len < 2 THEN NoRun ELSE best
  IN Worth(Ended6(FoldLeft(Step, [best |-> NoRun, cur |-> NoRun], [i \in 1 .. 8 |-> i - 1])))

\* The last two words of an address that stands for an IPv4 one are a quad.
Embeds(src, best) ==
  /\ best.base = 0
  /\ \/ best.len = 6
     \/ best.len = 7 /\ Word(src, 7) # 1
     \/ best.len = 5 /\ Word(src, 5) = 65535
Text6(src, best) ==
  LET Step(p, i) ==
        IF p.end THEN p
        ELSE IF best.base # -1 /\ i >= best.base /\ i < best.base + best.len
        THEN IF i = best.base THEN [p EXCEPT !.text = Append(@, Colon)] ELSE p
        ELSE LET text == IF i # 0 THEN Append(p.text, Colon) ELSE p.text
             IN IF i = 6 /\ Embeds(src, best)
                THEN [end |-> TRUE, text |-> text \o Quad(SubSeq(src, 13, 16))]
                ELSE [p EXCEPT !.text = text \o Hexadecimal(Word(src, i))]
  IN FoldLeft(Step, [end |-> FALSE, text |-> <<>>], [i \in 1 .. 8 |-> i - 1]).text
     \o (IF best.base # -1 /\ best.base + best.len = 8 THEN <<Colon>> ELSE <<>>)
inet_ntop6(src, size) == Printed(Text6(src, BestRun(src)), size)

Pton4Step(p, ch) ==
  LET n == Len(p.tmp)
      nw == p.tmp[n] * 10 + ch
      bad == [p EXCEPT !.ok = FALSE]
  IN IF ~p.ok THEN p
     ELSE IF ch < 10
     THEN IF (p.saw_digit /\ p.tmp[n] = 0) \/ nw > 255 \/ (~p.saw_digit /\ p.octets = 4) THEN bad
          ELSE [p EXCEPT !.tmp[n] = nw, !.saw_digit = TRUE, !.octets = IF p.saw_digit THEN @ ELSE @ + 1]
     ELSE IF ch = Dot /\ p.saw_digit /\ p.octets # 4
     THEN [p EXCEPT !.tmp = Append(@, 0), !.saw_digit = FALSE]
     ELSE bad
Pton4End(p) == IF p.ok /\ p.octets = 4 THEN p.tmp ELSE Invalid
inet_pton4(text) ==
  Pton4End(FoldLeft(Pton4Step, [ok |-> TRUE, saw_digit |-> FALSE, octets |-> 0, tmp |-> <<0>>], text))

\* colonp is the number of bytes before "::", -1 for NULL.
Bytes2(val) == <<val \div 256, val % 256>>
Pton6Quad(p, quad) ==
  IF quad = Invalid THEN [p EXCEPT !.st = "bad"]
  ELSE [p EXCEPT !.st = "end", !.tmp = @ \o quad, !.seen = 0]
Pton6Step(text, p, i) ==
  LET ch == text[i]
      bad == [p EXCEPT !.st = "bad"]
  IN IF p.st # "go" THEN p
     ELSE IF Hex(ch) # -1
     THEN IF p.seen = 4 THEN bad ELSE [p EXCEPT !.val = 16 * @ + Hex(ch), !.seen = @ + 1]
     ELSE IF ch = Colon
     THEN IF p.seen = 0
          THEN IF p.colonp # -1 THEN bad ELSE [p EXCEPT !.colonp = Len(p.tmp), !.curtok = i + 1]
          ELSE IF i = Len(text) \/ Len(p.tmp) + 2 > 16 THEN bad
          ELSE [p EXCEPT !.tmp = @ \o Bytes2(p.val), !.val = 0, !.seen = 0, !.curtok = i + 1]
     ELSE IF ch = Dot /\ Len(p.tmp) + 4 <= 16
     THEN Pton6Quad(p, inet_pton4(SubSeq(text, p.curtok, Len(text))))
     ELSE bad
\* The end: the last word, and the bytes after "::" moved to the end
Pton6End(st, colonp, tmp) ==
  IF st = "bad" \/ Len(tmp) > 16 \/ (colonp = -1) # (Len(tmp) = 16) THEN Invalid
  ELSE IF colonp = -1 THEN tmp
  ELSE SubSeq(tmp, 1, colonp) \o [i \in 1 .. 16 - Len(tmp) |-> 0] \o SubSeq(tmp, colonp + 1, Len(tmp))
Pton6Last(p) ==
  Pton6End(p.st, p.colonp, IF p.seen > 0 THEN p.tmp \o Bytes2(p.val) ELSE p.tmp)
Pton6From(text, from) ==
  Pton6Last(FoldLeft(LAMBDA p, i : Pton6Step(text, p, i),
                     [st |-> "go", tmp |-> <<>>, colonp |-> -1, curtok |-> from, seen |-> 0, val |-> 0],
                     [i \in 1 .. Len(text) - from + 1 |-> i + from - 1]))
inet_pton6(text) ==
  IF text = <<>> \/ text[1] # Colon THEN Pton6From(text, 1)
  ELSE IF Len(text) = 1 \/ text[2] # Colon THEN Invalid ELSE Pton6From(text, 2)

BeforeZone(text) ==
  LET at == {i \in DOMAIN text : text[i] = Percent}
  IN IF at = {} THEN text ELSE SubSeq(text, 1, Min(at) - 1)
uv_inet_ntop(af, src, size) == IF af = "inet" THEN inet_ntop4(src, size) ELSE inet_ntop6(src, size)
uv_inet_pton(af, text) ==
  IF af = "inet" THEN inet_pton4(text)
  ELSE IF Percent \in ToSet(text) /\ Len(BeforeZone(text)) > 45 THEN Invalid
  ELSE inet_pton6(BeforeZone(text))

\* What is before a zone is cut to 39 characters, which a long address with a quad
\* is longer than.
CutTo(text, n) == SubSeq(text, 1, Min({Len(text), n}))
uv_ip6_addr(text) ==
  uv_inet_pton("inet6", IF Percent \in ToSet(text) THEN CutTo(BeforeZone(text), 39) ELSE text)
-----------------------------------------------------------------------------
(* idna.c.  -1 is the error of the decoder.                                *)

\* The two upper bits of three bytes, xor'ed
Marks(b, c, d) ==
  2 * ((b \div 128 + c \div 128 + d \div 128) % 2) + ((b \div 64 + c \div 64 + d \div 64) % 2)
Checked(a, b, c, d, min) ==
  LET v == a * 262144 + (b % 64) * 4096 + (c % 64) * 64 + (d % 64)
  IN IF Marks(b, c, d) # 2 \/ v < min \/ v > 1114111 \/ v \in 55296 .. 57343 THEN -1 ELSE v
\* A first byte that asks for more than there is is taken for a shorter one's.
uv__utf8_decode1_slow(s) ==
  LET a == s[1]
      rest == Len(s) - 1
  IN IF a > 247 THEN [c |-> -1, used |-> 1]
     ELSE IF rest >= 3 /\ a > 239 THEN [c |-> Checked(a % 8, s[2], s[3], s[4], 65536), used |-> 4]
     ELSE IF rest >= 2 /\ a > 223 THEN [c |-> Checked(0, 128 + (a % 16), s[2], s[3], 2048), used |-> 3]
     ELSE IF rest >= 1 /\ a > 191 THEN [c |-> Checked(0, 128, 128 + (a % 32), s[2], 128), used |-> 2]
     ELSE [c |-> -1, used |-> 1]
uv__utf8_decode1(s) == IF s[1] < 128 THEN [c |-> s[1], used |-> 1] ELSE uv__utf8_decode1_slow(s)

\* Punycode.  A digit of the alphabet, as a character
Letter(d) == IF d < 26 THEN 97 + d ELSE 48 + d - 26
Threshold(k, bias) == IF k <= bias THEN 1 ELSE Min({k - bias, 26})
RECURSIVE Varint(_, _, _)
Varint(q, k, bias) ==
  LET t == Threshold(k, bias)
      x == q - t
      y == 36 - t
  IN IF q < t THEN <<Letter(q)>> ELSE <<Letter(t + (x % y))>> \o Varint(x \div y, k + 36, bias)
RECURSIVE Biased(_, _)
Biased(delta, bias) ==
  IF delta > 455 THEN Biased(delta \div 35, bias + 36) ELSE bias + (36 * delta) \div (delta + 38)
Adapt(delta, first, h) ==
  LET halved == IF first THEN (delta \div 2) \div 350 ELSE delta \div 2
  IN Biased(halved + halved \div h, 0)

\* One character of the label, when n is the next one to put in
LabelChar(p, c) ==
  LET less == [p EXCEPT !.delta = (@ + 1) % (UintMax + 1), !.err = p.delta = UintMax]
  IN IF p.err THEN p
     ELSE IF c < p.n THEN less
     ELSE IF c > p.n THEN p
     ELSE [p EXCEPT !.out = @ \o Varint(p.delta, 36, p.bias), !.delta = 0, !.first = FALSE,
                    !.h = @ + 1, !.bias = Adapt(p.delta, p.first, p.h + 1)]
LabelRound(label, p, m) ==
  LET x == m - p.n
      Onward(q) == [q EXCEPT !.delta = @ + 1, !.n = @ + 1]
  IN IF p.err \/ x > (UintMax - p.delta) \div (p.h + 1) THEN [p EXCEPT !.err = TRUE]
     ELSE Onward(FoldLeft(LabelChar, [p EXCEPT !.delta = @ + x * (p.h + 1), !.n = m], label))
Encodes(label, basic, others) ==
  LET start == [n |-> 128, bias |-> 72, delta |-> 0, first |-> TRUE, h |-> Len(basic), err |-> FALSE,
                out |-> <<120, 110, 45, 45>> \o basic \o (IF basic # <<>> THEN <<45>> ELSE <<>>)]
      End(p) == [err |-> IF p.err THEN "E2BIG" ELSE "ok", out |-> p.out]
  IN IF others = <<>> THEN [err |-> "ok", out |-> basic]
     ELSE End(FoldLeft(LAMBDA p, m : LabelRound(label, p, m), start, others))
uv__idna_toascii_label(label) ==
  Encodes(label, SelectSeq(label, LAMBDA c : c < 128), SetToSortSeq({c \in ToSet(label) : c > 127}, <))

\* The name, already decoded, with -1 for what is no UTF-8; room is de - d.
Stops == {46, 12290, 65294, 65377}
LabelPut(p, l, dot) == [err |-> l.err, label |-> <<>>, out |-> p.out \o l.out \o dot]
LabelEnds(p, dot) == LabelPut(p, uv__idna_toascii_label(p.label), dot)
NameChar(p, c) ==
  IF p.err # "ok" THEN p
  ELSE IF c = -1 THEN [p EXCEPT !.err = "EINVAL"]
  ELSE IF c \in Stops THEN LabelEnds(p, <<46>>)
  ELSE [p EXCEPT !.label = Append(@, c)]
NameEnds(p) == IF p.err = "ok" /\ p.label # <<>> THEN LabelEnds(p, <<>>) ELSE p
NameCut(p, room) == [err |-> p.err, out |-> CutTo(Append(p.out, 0), room)]
uv__idna_toascii(codes, room) ==
  NameCut(NameEnds(FoldLeft(NameChar, [err |-> "ok", label |-> <<>>, out |-> <<>>], codes)), room)

-----------------------------------------------------------------------------
(* strscpy.c and strtok.c.                                                 *)

uv__strscpy(s, n) ==
  IF Len(s) < n THEN [d |-> Append(s, 0), ret |-> Len(s)]
  ELSE IF n = 0 THEN [d |-> <<>>, ret |-> 0]
  ELSE [d |-> Append(SubSeq(s, 1, n - 1), 0), ret |-> -7]   \* UV_E2BIG

\* One call: the token, and where the next one starts, 0 for NULL
uv__strtok(s, start, sep) ==
  LET at == {i \in start .. Len(s) : s[i] \in sep}
  IN IF at = {} THEN [token |-> SubSeq(s, start, Len(s)), itr |-> 0]
     ELSE [token |-> SubSeq(s, start, Min(at) - 1), itr |-> Min(at) + 1]
-----------------------------------------------------------------------------
(* uv_getaddrinfo() and uv_getnameinfo(): hints, service and host name lie *)
(* in one piece of memory, in this order; a pointer is an offset, or "no". *)

Pointers == [hints |-> "no", service |-> "no", hostname |-> "no"]
NewRequest ==
  [what |-> "request", st |-> "new", sync |-> FALSE, name |-> FALSE, ptr |-> Pointers, buf |-> "none",
   retcode |-> "0", reqs |-> 0, told |-> <<>>]

\* size: of the hints, the service and the converted host name, 0 for NULL
Placed(size) ==
  [hints |-> IF size[1] > 0 THEN "0" ELSE "no",
   service |-> IF size[2] = 0 THEN "no" ELSE IF size[1] = 0 THEN "0" ELSE "inside",
   hostname |-> IF size[3] = 0 THEN "no" ELSE IF size[1] + size[2] = 0 THEN "0" ELSE "inside"]
uv_getaddrinfo(size, sync) ==
  /\ ad.st = "new"
  /\ \/ /\ size[2] + size[3] = 0 /\ ad' = [ad EXCEPT !.st = "refused", !.retcode = "EINVAL"]
     \/ /\ size[2] + size[3] > 0
        /\ \/ size[3] > 0 /\ ad' = [ad EXCEPT !.st = "refused", !.retcode = "EINVAL"]  \* no UTF-8
           \/ ad' = [ad EXCEPT !.st = "refused", !.retcode = "ENOMEM"]
           \/ ad' = [ad EXCEPT !.st = "work", !.sync = sync, !.ptr = Placed(size), !.buf = "held",
                               !.reqs = @ + 1]
uv_getnameinfo(family, sync) ==
  /\ ad.st = "new"
  /\ ad' = IF family \notin {"inet", "inet6"} THEN [ad EXCEPT !.st = "refused", !.retcode = "EINVAL"]
           ELSE [ad EXCEPT !.st = "work", !.name = TRUE, !.sync = sync, !.reqs = @ + 1]

uv__getaddrinfo_work ==
  /\ ad.st = "work" /\ ~ad.name
  /\ \E retcode \in {"0", "EAI"} : ad' = [ad EXCEPT !.st = "worked", !.retcode = retcode]
uv__getnameinfo_work ==
  /\ ad.st = "work" /\ ad.name
  /\ \E retcode \in {"0", "EAI"} : ad' = [ad EXCEPT !.st = "worked", !.retcode = retcode]
\* uv_cancel(), before a thread took the request
RequestCancelled ==
  ad.st = "work" /\ ~ad.sync /\ ad' = [ad EXCEPT !.st = "cancelled"]

\* The first pointer that is set is freed, and must be the start of the memory.
Freed(ptr) ==
  IF ptr.hints # "no" THEN ptr.hints ELSE IF ptr.service # "no" THEN ptr.service ELSE ptr.hostname
Ended(h) ==
  LET retcode == IF h.st = "cancelled" THEN "EAI_CANCELED" ELSE h.retcode
  IN [h EXCEPT !.st = "done", !.reqs = @ - 1, !.retcode = retcode,
               !.told = IF h.sync THEN @ ELSE Append(@, retcode)]
uv__getaddrinfo_done ==
  /\ ad.st \in {"worked", "cancelled"} /\ ~ad.name
  /\ ad' = [Ended(ad) EXCEPT !.ptr = Pointers,
                             !.buf = IF Freed(ad.ptr) = "0" THEN "freed" ELSE "broken"]
uv__getnameinfo_done ==
  ad.st \in {"worked", "cancelled"} /\ ad.name /\ ad' = Ended(ad)

-----------------------------------------------------------------------------
Converted(case) ==
  CASE case.what = "print" -> uv_inet_ntop(case.af, case.src, case.size)
    [] case.what = "parse" -> uv_inet_pton(case.af, case.text)
    [] case.what = "zone" -> uv_ip6_addr(case.text)
    [] case.what = "decode" -> uv__utf8_decode1(case.bytes)
    [] case.what = "name" -> uv__idna_toascii(case.codes, case.room)
    [] case.what = "copy" -> uv__strscpy(case.s, case.n)
Convert ==
  /\ ad.what = "convert" /\ ~ad.done
  /\ ad' = [ad EXCEPT !.done = TRUE, !.out = <<Converted(ad.in)>>]
Tokenize ==
  /\ ad.what = "tokens" /\ ad.itr # 0
  /\ LET t == uv__strtok(ad.s, ad.itr, ad.sep)
     IN ad' = [ad EXCEPT !.itr = t.itr, !.out = Append(@, t.token)]
Requests ==
  /\ ad.what = "request"
  /\ \/ \E size \in [1 .. 3 -> {0, 2, 3}], sync \in BOOLEAN : uv_getaddrinfo(size, sync)
     \/ \E family \in {"inet", "inet6", "unix"}, sync \in BOOLEAN : uv_getnameinfo(family, sync)
     \/ uv__getaddrinfo_work \/ uv__getnameinfo_work \/ RequestCancelled
     \/ uv__getaddrinfo_done \/ uv__getnameinfo_done

AddressInit == ad \in AddressCases \cup {NewRequest}
AddressNext == Convert \/ Tokenize \/ Requests

-----------------------------------------------------------------------------
(* References: what a text, a sequence of bytes and a label mean.          *)

\* The pieces between the separators
Pieces(s, sep) ==
  FoldLeft(LAMBDA p, c : IF c \in sep THEN Append(p, <<>>) ELSE [p EXCEPT ![Len(p)] = Append(@, c)],
           <<<<>>>>, s)

ValueOf(piece, base) == FoldLeft(LAMBDA n, ch : base * n + Hex(ch), 0, piece)
IsOctet(piece) ==
  /\ Len(piece) \in 1 .. 3 /\ \A i \in DOMAIN piece : piece[i] < 10
  /\ piece[1] = 0 => Len(piece) = 1
  /\ ValueOf(piece, 10) < 256
AreOctets(p) == Len(p) = 4 /\ \A i \in 1 .. 4 : IsOctet(p[i])
IsQuad(text) == AreOctets(Pieces(text, {Dot}))
Values(p, base) == [i \in DOMAIN p |-> ValueOf(p[i], base)]
QuadOf(text) == Values(Pieces(text, {Dot}), 10)
IsGroup(piece) == Len(piece) \in 1 .. 4 /\ \A i \in DOMAIN piece : Hex(piece[i]) # -1

\* Groups, the last of which may be a quad; Bad if they are not
Bad == <<-1>>
GroupBytes(piece) == IF IsGroup(piece) THEN Bytes2(ValueOf(piece, 16)) ELSE QuadOf(piece)
PiecesMean(p, quad) ==
  IF p = <<<<>>>> THEN <<>>
  ELSE IF \A k \in DOMAIN p : IsGroup(p[k]) \/ (quad /\ k = Len(p) /\ IsQuad(p[k]))
  THEN FoldLeft(LAMBDA bytes, piece : bytes \o GroupBytes(piece), <<>>, p) ELSE Bad
GroupsOf(text, quad) == PiecesMean(Pieces(text, {Colon}), quad)
Gaps(text) == {i \in 1 .. Len(text) - 1 : text[i] = Colon /\ text[i + 1] = Colon}
Joined(left, right) ==
  IF left = Bad \/ right = Bad \/ Len(left) + Len(right) > 14 THEN Invalid
  ELSE left \o [k \in 1 .. 16 - Len(left) - Len(right) |-> 0] \o right
Sixteen(bytes) == IF Len(bytes) = 16 THEN bytes ELSE Invalid
Meaning6(text) ==
  IF Gaps(text) = {} THEN Sixteen(GroupsOf(text, TRUE))
  ELSE Joined(GroupsOf(SubSeq(text, 1, Min(Gaps(text)) - 1), FALSE),
              GroupsOf(SubSeq(text, Min(Gaps(text)) + 2, Len(text)), TRUE))
MeaningOf(af, text) ==
  IF af = "inet" THEN (IF IsQuad(text) THEN QuadOf(text) ELSE Invalid) ELSE Meaning6(BeforeZone(text))

\* UTF-8, from the code point to the bytes
Encoded(c) ==
  IF c < 128 THEN <<c>>
  ELSE IF c < 2048 THEN <<192 + c \div 64, 128 + (c % 64)>>
  ELSE IF c < 65536 THEN <<224 + c \div 4096, 128 + ((c \div 64) % 64), 128 + (c % 64)>>
  ELSE <<240 + c \div 262144, 128 + ((c \div 4096) % 64), 128 + ((c \div 64) % 64), 128 + (c % 64)>>
\* What bytes would be the encoding of, if their marks are right
Spelled(b) ==
  LET Low(i) == b[i] % 64
  IN CASE Len(b) = 1 -> b[1]
       [] Len(b) = 2 -> (b[1] % 32) * 64 + Low(2)
       [] Len(b) = 3 -> (b[1] % 16) * 4096 + Low(2) * 64 + Low(3)
       [] Len(b) = 4 -> (b[1] % 8) * 262144 + Low(2) * 4096 + Low(3) * 64 + Low(4)
Scalar(c) == c \in 0 .. 1114111 /\ c \notin 55296 .. 57343
WellFormed(b) == Scalar(Spelled(b)) /\ Encoded(Spelled(b)) = b

\* RFC 3492: the label of the digits that follow the basic characters
DigitOf(ch) == IF ch >= 97 THEN ch - 97 ELSE ch - 22
Tmin(k, bias) == Max({1, Min({26, k - bias})})
RECURSIVE Rfc(_, _)
Rfc(delta, k) == IF delta > 455 THEN Rfc(delta \div 35, k + 36) ELSE k + (36 * delta) \div (delta + 38)
RfcAdapt(delta, damp, points) == LET d == delta \div damp IN Rfc(d + d \div points, 0)
RECURSIVE Insertions(_, _, _)
Insertions(label, s, p) ==
  IF s = <<>> THEN label
  ELSE LET d == DigitOf(Head(s))
           t == Tmin(p.k, p.bias)
           i == p.i + d * p.w
           points == Len(label) + 1
           code == p.n + i \div points
           at == i % points
       IN IF d >= t
          THEN Insertions(label, Tail(s), [p EXCEPT !.i = i, !.k = @ + 36, !.w = @ * (36 - t)])
          ELSE Insertions(SubSeq(label, 1, at) \o <<code>> \o SubSeq(label, at + 1, points - 1), Tail(s),
                 [i |-> at + 1, old |-> at + 1, n |-> code, k |-> 36, w |-> 1,
                  bias |-> RfcAdapt(i - p.old, IF points = p.h + 1 THEN 700 ELSE 2, points), h |-> p.h])
Decoded(out) ==
  LET at == {i \in 5 .. Len(out) : out[i] = 45}
      cut == IF at = {} THEN 4 ELSE Max(at)
      basic == SubSeq(out, 5, cut - 1)
  IN IF ~IsPrefix(<<120, 110, 45, 45>>, out) THEN out
     ELSE Insertions(basic, SubSeq(out, cut + 1, Len(out)),
                     [i |-> 0, old |-> 0, n |-> 128, bias |-> 72, k |-> 36, w |-> 1, h |-> Len(basic)])

\* An address is printed in the room there is or not at all, never longer than
\* tmp[]; the text means the address, is read back as it, and leaves out the first of
\* the longest runs of zero words.  A text is read exactly if it means an address.
\* With a zone this holds of the first 39 characters.
GapAt(text) == Len(GroupsOf(SubSeq(text, 1, Min(Gaps(text)) - 1), FALSE)) \div 2
Zeros(src, n) == {i \in 0 .. 8 - n : \A k \in i .. i + n - 1 : Word(src, k) = 0}
TextExact(in, r, text, longest) ==
  /\ text # <<>>
  /\ r.err = (Len(text) >= in.size) /\ (~r.err => r.text = text)
  /\ MeaningOf(in.af, text) = in.src /\ uv_inet_pton(in.af, text) = in.src
  /\ in.af = "inet6" =>
       IF Gaps(text) = {} THEN longest = 0 ELSE longest > 0 /\ GapAt(text) = Min(Zeros(in.src, longest))
PrintExact(in, r) ==
  TextExact(in, r, uv_inet_ntop(in.af, in.src, 46).text,
            IF in.af = "inet6" THEN Max({0} \cup {n \in 2 .. 8 : Zeros(in.src, n) # {}}) ELSE 0)

\* The decoder never reads past the end.  It finds what is encoded, all of it, and
\* nothing that is no character.  What it takes beside is not UTF-8 in one of two
\* ways: two unmarked bytes, whose marks cancel, or a sequence cut at the end.
DecodeExact(b, r) ==
  LET Asks(a) == IF a > 239 THEN 4 ELSE IF a > 223 THEN 3 ELSE 2
  IN /\ r.used \in 1 .. Len(b)
     /\ \A n \in 1 .. Len(b) :
          WellFormed(SubSeq(b, 1, n)) => r = [c |-> Spelled(SubSeq(b, 1, n)), used |-> n]
     /\ r.c # -1 =>
          /\ Scalar(r.c)
          /\ \/ WellFormed(SubSeq(b, 1, r.used))
             \/ Cardinality({i \in 2 .. r.used : b[i] \div 64 # 2}) = 2
             \/ Asks(b[1]) > Len(b)

\* A name that is converted means the same, label by label, and is never the result
\* of an overflow; it is cut to the room there is.
NameExact(in, r) ==
  LET whole == Len(r.out) < in.room
      labels == Pieces(SubSeq(r.out, 1, Len(r.out) - 1), {46})
  IN /\ Len(r.out) <= in.room
     /\ -1 \in ToSet(in.codes) => r.err # "ok"
     /\ r.err = "EINVAL" => -1 \in ToSet(in.codes)
     /\ r.err = "E2BIG" => Max(ToSet(in.codes)) * (Len(in.codes) + 1) > UintMax
     /\ r.err = "ok" /\ whole =>
          [i \in DOMAIN labels |-> Decoded(labels[i])] = Pieces(in.codes, Stops)

CopyWhole(in, r) ==
  /\ Len(r.d) = Min({in.n, Len(in.s) + 1})
  /\ in.n > 0 => r.d[Len(r.d)] = 0 /\ IsPrefix(SubSeq(r.d, 1, Len(r.d) - 1), in.s)
  /\ r.ret = (IF in.n = 0 THEN 0 ELSE IF Len(in.s) < in.n THEN Len(in.s) ELSE -7)

CaseExact(in, r) ==
  CASE in.what = "print" -> PrintExact(in, r)
    [] in.what = "parse" -> r = MeaningOf(in.af, in.text)
    [] in.what = "zone" -> Len(BeforeZone(in.text)) <= 39 => r = MeaningOf("inet6", in.text)
    [] in.what = "decode" -> DecodeExact(in.bytes, r)
    [] in.what = "name" -> NameExact(in, r)
    [] in.what = "copy" -> CopyWhole(in, r)

\* Names and addresses are converted to what means the same, as above, strings are
\* cut where they should be, and a request for a name frees its memory at its start,
\* once, and is told once, whichever of its strings are there.
AddressExact ==
  CASE ad.what = "convert" -> ad.done => CaseExact(ad.in, ad.out[1])
    [] ad.what = "tokens" ->
         LET all == Pieces(ad.s, ad.sep)
         IN IF ad.itr = 0 THEN ad.out = all ELSE ad.out = SubSeq(all, 1, Len(ad.out))
    [] ad.what = "request" ->
         /\ ad.buf # "broken"
         /\ ad.st \in {"refused", "done"} => ad.reqs = 0 /\ ad.buf # "held"
         /\ ad.st = "done" => ad.told = (IF ad.sync THEN <<>> ELSE <<ad.retcode>>)
=============================================================================
