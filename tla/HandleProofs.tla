---------------------------- MODULE HandleProofs ----------------------------
(***************************************************************************)
(* Proofs about handles and requests that share no state with the others:  *)
(* a file poller, for any number of contexts and whatever its stats find,  *)
(* a UDP socket, for any number of datagrams of any size, a file system    *)
(* request, for any number of directory entries and of calls, and handles  *)
(* that watch files, for any number of them and of paths; then about the   *)
(* loop all handles belong to, for any of them, and about its wake-ups.    *)
(***************************************************************************)
EXTENDS FsPoll, Udp, FsReq, Inotify, Loop, Async, FiniteSetTheorems, SequenceTheorems, TLAPS

-----------------------------------------------------------------------------
(* File polling.  A context that is made is in the list until the close    *)
(* callback of its timer (Linked), and then and only then something will   *)
(* come back to it (Awaited).  While the handle is active its newest       *)
(* context is there and not on its way out (Newest), so uv_fs_poll_stop()  *)
(* always has a context to look at.                                        *)

Findings == Results \cup {"never", "ok", "zero", "nothing"}
TimerStates == {"none", "idle", "active", "closing", "freed", "abort"}
Contexts == [stat : {0, 1}, timer : TimerStates, busy_polling : Findings,
             statbuf : Findings, told : Findings]
Pollers == [active : {0, 1}, closing : {0, 1}, ctxs : Seq(Ctxs), pending : {0, 1}]

FsPollTypes ==
  /\ fp \in Pollers /\ ctx \in [Ctxs -> Contexts]
  /\ fp_pc \in Ctxs \cup {0} /\ made \in Ctxs \cup {0} /\ fp_closed \in {0, 1}

Live == {c \in Ctxs : ctx[c].timer \notin {"none", "freed"}}

Linked == NoDup(fp.ctxs) /\ In(fp.ctxs) = Live

\* A live context waits for its stat, its timer or the callback it made.
AwaitedBy(c) ==
  \/ ctx[c].stat = 1 /\ ctx[c].timer = "idle" /\ fp_pc # c
  \/ ctx[c].stat = 0 /\ ctx[c].timer # "idle" /\ fp_pc # c
  \/ ctx[c].stat = 0 /\ ctx[c].timer = "idle" /\ fp_pc = c

Awaited ==
  /\ \A c \in Live : AwaitedBy(c)
  /\ \A c \in Ctxs \ Live : ctx[c].stat = 0 /\ fp_pc # c

\* What a context told last is what its last stat found.
TellsTruth(c) ==
  IF ctx[c].busy_polling = "never" THEN ctx[c].told = "nothing"
  ELSE ctx[c].told = IF ErrorOf(ctx[c].busy_polling) THEN ctx[c].busy_polling
                     ELSE ctx[c].statbuf

Truthful == \A c \in Ctxs : TellsTruth(c)

Unmade == \A c \in Ctxs : IF c > made THEN ctx[c].timer = "none" /\ ctx[c].busy_polling = "never"
                          ELSE ctx[c].timer # "none"

Newest ==
  fp.active = 1 => fp.closing = 0 /\ made \in Live /\ ctx[made].timer # "closing"

\* The close is pending, or was done, once the handle is closing and has no
\* context left.
CloseDue(closes, asked, closed, left) ==
  IF closes = 0 THEN asked = 0 /\ closed = 0
  ELSE (closed = 1 \/ asked = 1) <=> left = {}

Closes == CloseDue(fp.closing, fp.pending, fp_closed, Live)

FsPollInv ==
  FsPollTypes /\ Linked /\ Awaited /\ Truthful /\ Unmade /\ Newest /\ Closes

\* A new handle has no context.
LEMMA FsPollInitInv == FsPollInit => FsPollInv
<1> SUFFICES ASSUME FsPollInit PROVE FsPollInv
  OBVIOUS
<1>1. Live = {} /\ FsPollTypes
  BY DEF FsPollInit, Live, FsPollTypes, Pollers, Contexts, TimerStates, Findings
<1>2. Linked
  BY <1>1, EmptyList DEF Linked, FsPollInit
<1>3. Awaited /\ Truthful /\ Newest /\ Closes
  BY <1>1, CtxsAssumption
     DEF FsPollInit, Awaited, Truthful, TellsTruth, Newest, Closes, CloseDue
<1>4. Unmade
  BY CtxsAssumption DEF FsPollInit, Unmade
<1> QED BY <1>1, <1>2, <1>3, <1>4 DEF FsPollInv

\* A step that changes only some live contexts, and leaves the list alone.
LEMMA ContextsMove ==
  ASSUME FsPollInv, NEW C \in SUBSET Live, FsPollTypes',
         \A c \in Ctxs \ C : ctx'[c] = ctx[c],
         \A c \in C : ctx'[c].timer \notin {"none", "freed"},
         \A c \in C : AwaitedBy(c)' /\ TellsTruth(c)',
         \A c \in Ctxs \ C : (fp_pc' = c) <=> (fp_pc = c),
         fp'.ctxs = fp.ctxs, made' = made,
         fp'.active = 1 => fp.active = 1 /\ fp'.closing = 0,
         fp'.active = 1 /\ made \in C => ctx'[made].timer # "closing",
         CloseDue(fp'.closing, fp'.pending, fp_closed', Live)
  PROVE  FsPollInv'
<1>1. Live' = Live
  BY DEF Live
<1>2. Linked'
  BY <1>1 DEF FsPollInv, Linked
<1>3. Awaited'
  BY <1>1 DEF FsPollInv, Awaited, AwaitedBy, Live
<1>4. Truthful'
  BY DEF FsPollInv, Truthful, TellsTruth
<1>5. Unmade'
  BY DEF FsPollInv, Unmade, Live
<1>6. Newest'
  BY <1>1 DEF Newest, FsPollInv, Live
<1>7. Closes'
  BY <1>1 DEF Closes
<1> QED BY <1>2, <1>3, <1>4, <1>5, <1>6, <1>7 DEF FsPollInv

\* The fields of the one context that is assigned to.
LEMMA ContextSet ==
  ASSUME NEW c \in Ctxs, ctx \in [Ctxs -> Contexts], NEW r \in Contexts,
         ctx' = [ctx EXCEPT ![c] = r]
  PROVE  /\ ctx' \in [Ctxs -> Contexts] /\ ctx'[c] = r
         /\ \A d \in Ctxs \ {c} : ctx'[d] = ctx[d]
OBVIOUS

\* uv_fs_poll_stop(), and the close that begins with it.
LEMMA StopKeeps ==
  ASSUME FsPollInv, NEW f \in Pollers, uv_fs_poll_stop(f), f.ctxs = fp.ctxs,
         CloseDue(f.closing, f.pending, fp_closed, Live),
         fp_pc' = fp_pc, made' = made, fp_closed' = fp_closed
  PROVE  FsPollInv'
<1>1. fp' \in Pollers /\ fp'.active = 0 /\ fp'.ctxs = fp.ctxs
      /\ fp'.closing = f.closing /\ fp'.pending = f.pending
  BY DEF uv_fs_poll_stop, Pollers
<1>2. CASE fp.active = 1 /\ ctx[Head(fp.ctxs)].timer = "active"
  <2>0. PICK c : c = Head(fp.ctxs)
    OBVIOUS
  <2>1. fp.ctxs \in Seq(Ctxs) /\ In(fp.ctxs) = Live /\ Live # {}
    BY <1>2 DEF FsPollInv, FsPollTypes, Pollers, Linked, Newest
  <2>2. fp.ctxs # <<>> /\ c = fp.ctxs[1] /\ 1 \in DOMAIN fp.ctxs
    BY <2>0, <2>1 DEF In
  <2>3. c \in Live /\ c \in Ctxs
    BY <2>1, <2>2 DEF In, Live
  <2>4. PICK r : r = [ctx[c] EXCEPT !.timer = "closing"]
    OBVIOUS
  <2>5. ctx[c] \in Contexts /\ ctx[c].timer = "active"
    BY <1>2, <2>0, <2>3 DEF FsPollInv, FsPollTypes
  <2>6. r \in Contexts /\ r.timer = "closing" /\ r.stat = ctx[c].stat /\ r.told = ctx[c].told
        /\ r.busy_polling = ctx[c].busy_polling /\ r.statbuf = ctx[c].statbuf
    BY <2>4, <2>5 DEF Contexts, TimerStates
  <2>7. ctx' = [ctx EXCEPT ![c] = r]
    BY <1>2, <2>0, <2>4, <2>5 DEF uv_fs_poll_stop, Closing
  <2>8. ctx' \in [Ctxs -> Contexts] /\ ctx'[c] = r /\ \A d \in Ctxs \ {c} : ctx'[d] = ctx[d]
    BY <2>3, <2>6, <2>7, ContextSet DEF FsPollInv, FsPollTypes
  <2>9. FsPollTypes'
    BY <1>1, <2>8 DEF FsPollInv, FsPollTypes
  <2>10. AwaitedBy(c)'
    BY <2>3, <2>5, <2>6, <2>8 DEF FsPollInv, Awaited, AwaitedBy
  <2>11. TellsTruth(c)'
    BY <2>3, <2>6, <2>8 DEF FsPollInv, Truthful, TellsTruth, ErrorOf
  <2>12. {c} \in SUBSET Live /\ \A d \in {c} : AwaitedBy(d)' /\ TellsTruth(d)'
    BY <2>3, <2>10, <2>11
  <2>13. /\ \A d \in Ctxs \ {c} : ctx'[d] = ctx[d]
         /\ \A d \in {c} : ctx'[d].timer \notin {"none", "freed"}
         /\ fp'.active # 1 /\ CloseDue(fp'.closing, fp'.pending, fp_closed', Live)
    BY <1>1, <2>6, <2>8
  <2> QED BY <1>1, <2>9, <2>12, <2>13, ContextsMove
<1>3. CASE ~(fp.active = 1 /\ ctx[Head(fp.ctxs)].timer = "active")
  <2>1. ctx' = ctx
    BY <1>3 DEF uv_fs_poll_stop
  <2>2. FsPollTypes'
    BY <1>1, <2>1 DEF FsPollInv, FsPollTypes
  <2>3. /\ {} \in SUBSET Live /\ \A d \in Ctxs \ {} : ctx'[d] = ctx[d]
        /\ fp'.active # 1 /\ CloseDue(fp'.closing, fp'.pending, fp_closed', Live)
    BY <1>1, <2>1
  <2> QED BY <1>1, <2>2, <2>3, ContextsMove
<1> QED BY <1>2, <1>3

\* A context that has come to life waits for its first stat.
LEMMA StartKeeps == ASSUME FsPollInv, uv_fs_poll_start PROVE FsPollInv'
<1>0. PICK n : n = made + 1
  OBVIOUS
<1>1. n \in Ctxs /\ made' = n /\ n > made /\ n # 0 /\ fp_pc' = fp_pc /\ fp_closed' = fp_closed
  BY <1>0, CtxsAssumption DEF uv_fs_poll_start, FsPollInv, FsPollTypes
<1>2. fp \in Pollers /\ fp.ctxs \in Seq(Ctxs) /\ fp.active = 0 /\ fp.closing = 0
  BY DEF FsPollInv, FsPollTypes, Pollers, uv_fs_poll_start
<1>3. fp' \in Pollers /\ fp'.active = 1 /\ fp'.closing = 0 /\ fp'.pending = fp.pending
      /\ fp'.ctxs = <<n>> \o fp.ctxs
  BY <1>0, <1>1, <1>2, InsertHead DEF uv_fs_poll_start, Pollers
<1>4. ctx[n] \in Contexts /\ ctx[n].timer = "none" /\ ctx[n].busy_polling = "never" /\ n \notin Live
  BY <1>1 DEF FsPollInv, FsPollTypes, Unmade, Live
<1>5. PICK r : r = [ctx[n] EXCEPT !.stat = 1, !.timer = "idle"]
  OBVIOUS
<1>6. r \in Contexts /\ r.timer = "idle" /\ r.stat = 1 /\ r.told = ctx[n].told
      /\ r.busy_polling = "never" /\ r.statbuf = ctx[n].statbuf
  BY <1>4, <1>5 DEF Contexts, TimerStates
<1>7. ctx' = [ctx EXCEPT ![n] = r]
  BY <1>0, <1>1, <1>4, <1>5 DEF uv_fs_poll_start, FsPollInv, FsPollTypes, Contexts
<1>8. ctx' \in [Ctxs -> Contexts] /\ ctx'[n] = r /\ \A d \in Ctxs \ {n} : ctx'[d] = ctx[d]
  BY <1>1, <1>6, <1>7, ContextSet DEF FsPollInv, FsPollTypes
<1>9. FsPollTypes'
  BY <1>1, <1>3, <1>8 DEF FsPollInv, FsPollTypes
<1>10. Live' = Live \cup {n}
  BY <1>1, <1>6, <1>8 DEF Live
<1>11. Linked'
  BY <1>1, <1>2, <1>3, <1>4, <1>10, InsertHead DEF FsPollInv, Linked
<1>12. Awaited'
  BY <1>1, <1>4, <1>6, <1>8, <1>10 DEF AwaitedBy, FsPollInv, Awaited, Live
<1>13. Truthful'
  BY <1>1, <1>4, <1>6, <1>8 DEF FsPollInv, Truthful, TellsTruth
<1>14. Unmade'
  BY <1>0, <1>1, <1>6, <1>8, CtxsAssumption DEF FsPollInv, FsPollTypes, Unmade
<1>15. Newest' /\ Closes'
  BY <1>1, <1>2, <1>3, <1>6, <1>8, <1>10 DEF FsPollInv, Newest, Closes, CloseDue
<1> QED BY <1>9, <1>11, <1>12, <1>13, <1>14, <1>15 DEF FsPollInv

\* One live context is assigned to, and the handle stays as it is.
LEMMA ContextKeeps ==
  ASSUME FsPollInv, NEW c \in Live, NEW r \in Contexts, ctx' = [ctx EXCEPT ![c] = r],
         r.timer \notin {"none", "freed"},
         fp_pc' \in {0, c}, fp_pc \in {0, c},
         \/ r.stat = 1 /\ r.timer = "idle" /\ fp_pc' = 0
         \/ r.stat = 0 /\ r.timer # "idle" /\ fp_pc' = 0
         \/ r.stat = 0 /\ r.timer = "idle" /\ fp_pc' = c,
         IF r.busy_polling = "never" THEN r.told = "nothing"
         ELSE r.told = IF ErrorOf(r.busy_polling) THEN r.busy_polling ELSE r.statbuf,
         r.timer = "closing" => ~Watched,
         UNCHANGED <<fp, made, fp_closed>>
  PROVE  FsPollInv'
<1>1. c \in Ctxs /\ c # 0 /\ 0 \notin Ctxs
  BY CtxsAssumption DEF Live
<1>2. ctx' \in [Ctxs -> Contexts] /\ ctx'[c] = r /\ \A d \in Ctxs \ {c} : ctx'[d] = ctx[d]
  BY <1>1, ContextSet DEF FsPollInv, FsPollTypes
<1>3. FsPollTypes'
  BY <1>1, <1>2 DEF FsPollInv, FsPollTypes
<1>4. AwaitedBy(c)'
  BY <1>1, <1>2 DEF AwaitedBy
<1>5. TellsTruth(c)'
  BY <1>2 DEF TellsTruth, ErrorOf
<1>6. /\ {c} \in SUBSET Live /\ \A d \in {c} : AwaitedBy(d)' /\ TellsTruth(d)'
      /\ \A d \in Ctxs \ {c} : ctx'[d] = ctx[d]
      /\ \A d \in {c} : ctx'[d].timer \notin {"none", "freed"}
  BY <1>2, <1>4, <1>5
<1>7. \A d \in Ctxs \ {c} : (fp_pc' = d) <=> (fp_pc = d)
  BY <1>1
<1>8. fp'.active = 1 => fp.active = 1 /\ fp'.closing = 0
  BY DEF FsPollInv, Newest
<1>9. fp'.active = 1 /\ made \in {c} => ctx'[made].timer # "closing"
  BY <1>2, <1>8 DEF Watched
<1>10. CloseDue(fp'.closing, fp'.pending, fp_closed', Live)
  BY DEF FsPollInv, Closes
<1> QED BY <1>3, <1>6, <1>7, <1>8, <1>9, <1>10, ContextsMove

\* poll_cb() up to its callback, or to its end.
LEMMA PollCbKeeps == ASSUME FsPollInv, NEW c \in Ctxs, PollCb(c) PROVE FsPollInv'
<1>1. ctx[c] \in Contexts /\ ctx[c].stat = 1 /\ fp_pc = 0 /\ UNCHANGED <<fp, made, fp_closed>>
  BY DEF PollCb, FsPollIdle, FsPollInv, FsPollTypes
<1>2. c \in Live /\ ctx[c].timer = "idle"
  BY <1>1 DEF FsPollInv, Awaited, AwaitedBy
<1>3. Rearmed(c) = IF Watched THEN "active" ELSE "closing"
  BY <1>2 DEF Rearmed, Closing
<1>4. TellsTruth(c)
  BY DEF FsPollInv, Truthful
<1>5. CASE ~Watched
  BY <1>1, <1>3, <1>5, <1>4, <1>2, ContextKeeps DEF Contexts, TimerStates, PollCb, FsPollInv,
     FsPollTypes, TellsTruth
<1>6. CASE Watched
  <2>1. PICK f \in Results :
          IF Told(c, f)
          THEN /\ fp_pc' = c
               /\ ctx' = [ctx EXCEPT ![c] = [Kept(c, f) EXCEPT !.stat = 0, !.told = f]]
          ELSE /\ ctx' = [ctx EXCEPT ![c] =
                            [Kept(c, f) EXCEPT !.stat = 0, !.timer = Rearmed(c),
                               !.told = IF @ = "nothing" THEN f ELSE @]]
               /\ fp_pc' = fp_pc
    BY <1>6 DEF PollCb
  <2>2. PICK k : k = Kept(c, f)
    OBVIOUS
  <2>3. /\ k \in Contexts /\ k.stat = 1 /\ k.timer = "idle" /\ k.told = ctx[c].told
        /\ ErrorOf(f) => k.busy_polling = f /\ k.statbuf = ctx[c].statbuf
        /\ ~ErrorOf(f) => k.busy_polling = "ok" /\ k.statbuf = f
    BY <1>1, <1>2, <2>2 DEF Kept, Contexts, Findings
  <2>4. ErrorOf(f) => f # "never"
    BY DEF ErrorOf
  <2>5. ~ErrorOf("ok")
    BY DEF ErrorOf
  <2>6. CASE Told(c, f)
    <3>1. PICK r : r = [k EXCEPT !.stat = 0, !.told = f]
      OBVIOUS
    <3>2. r \in Contexts /\ r.stat = 0 /\ r.timer = "idle" /\ r.told = f
          /\ r.busy_polling = k.busy_polling /\ r.statbuf = k.statbuf
      BY <2>3, <3>1 DEF Contexts, Findings
    <3>3. ctx' = [ctx EXCEPT ![c] = r] /\ fp_pc' = c
      BY <2>1, <2>2, <2>6, <3>1
    <3>4. IF r.busy_polling = "never" THEN r.told = "nothing"
          ELSE r.told = IF ErrorOf(r.busy_polling) THEN r.busy_polling ELSE r.statbuf
      BY <2>3, <2>4, <2>5, <3>2
    <3> QED BY <1>1, <1>2, <3>2, <3>3, <3>4, ContextKeeps
  <2>7. CASE ~Told(c, f)
    <3>1. PICK r : r = [k EXCEPT !.stat = 0, !.timer = "active",
                                 !.told = IF k.told = "nothing" THEN f ELSE k.told]
      OBVIOUS
    <3>2. r \in Contexts /\ r.stat = 0 /\ r.timer = "active"
          /\ r.told = (IF k.told = "nothing" THEN f ELSE k.told)
          /\ r.busy_polling = k.busy_polling /\ r.statbuf = k.statbuf
      BY <2>3, <3>1 DEF Contexts, Findings, TimerStates
    <3>3. ctx' = [ctx EXCEPT ![c] = r] /\ fp_pc' = 0
      BY <1>1, <1>3, <1>6, <2>1, <2>2, <2>7, <3>1
    <3>4. r.told = f
      BY <2>3, <3>2, <1>4, <2>4, <2>7 DEF Told, TellsTruth
    <3>5. IF r.busy_polling = "never" THEN r.told = "nothing"
          ELSE r.told = IF ErrorOf(r.busy_polling) THEN r.busy_polling ELSE r.statbuf
      BY <2>3, <2>4, <2>5, <3>2, <3>4
    <3> QED BY <1>1, <1>2, <3>2, <3>3, <3>5, ContextKeeps
  <2> QED BY <2>6, <2>7
<1> QED BY <1>5, <1>6

\* The callback of poll_cb() returns: the timer starts, or is closed.
LEMMA FsPollReturnKeeps == ASSUME FsPollInv, NEW c \in Ctxs, FsPollReturn(c) PROVE FsPollInv'
<1>1. ctx[c] \in Contexts /\ fp_pc = c /\ fp_pc' = 0 /\ UNCHANGED <<fp, made, fp_closed>>
  BY DEF FsPollReturn, FsPollInv, FsPollTypes
<1>2. c \in Live /\ ctx[c].timer = "idle" /\ ctx[c].stat = 0
  BY <1>1 DEF FsPollInv, Awaited, AwaitedBy
<1>3. Rearmed(c) = IF Watched THEN "active" ELSE "closing"
  BY <1>2 DEF Rearmed, Closing
<1>4. PICK r : r = [ctx[c] EXCEPT !.timer = Rearmed(c)]
  OBVIOUS
<1>5. r \in Contexts /\ r.stat = 0 /\ r.timer \in {"active", "closing"} /\ r.told = ctx[c].told
      /\ r.busy_polling = ctx[c].busy_polling /\ r.statbuf = ctx[c].statbuf
      /\ (r.timer = "closing" => ~Watched)
  BY <1>1, <1>2, <1>3, <1>4 DEF Contexts, TimerStates
<1>6. ctx' = [ctx EXCEPT ![c] = r]
  BY <1>4 DEF FsPollReturn, FsPollInv, FsPollTypes
<1>7. IF r.busy_polling = "never" THEN r.told = "nothing"
      ELSE r.told = IF ErrorOf(r.busy_polling) THEN r.busy_polling ELSE r.statbuf
  BY <1>5 DEF FsPollInv, Truthful, TellsTruth
<1> QED BY <1>1, <1>2, <1>5, <1>6, <1>7, ContextKeeps

\* The stat begins again, or the assertion fails: then nothing else happens.
LEMMA TimerCbKeeps == ASSUME FsPollInv, NEW c \in Ctxs, timer_cb(c) PROVE FsPollInv'
<1>1. ctx[c] \in Contexts /\ ctx[c].timer = "active" /\ fp_pc = 0 /\ fp_pc' = 0
      /\ UNCHANGED <<fp, made, fp_closed>>
  BY DEF timer_cb, FsPollIdle, FsPollInv, FsPollTypes
<1>2. c \in Live /\ ctx[c].stat = 0
  BY <1>1 DEF FsPollInv, Awaited, AwaitedBy, Live
<1>3. IF ctx[c].busy_polling = "never" THEN ctx[c].told = "nothing"
      ELSE ctx[c].told = IF ErrorOf(ctx[c].busy_polling) THEN ctx[c].busy_polling
                         ELSE ctx[c].statbuf
  BY DEF FsPollInv, Truthful, TellsTruth
<1>4. CASE fp.ctxs # <<>> /\ Head(fp.ctxs) = c
  BY <1>1, <1>4, <1>2, <1>3, ContextKeeps DEF Contexts, TimerStates, timer_cb, FsPollInv,
     FsPollTypes
<1>5. CASE ~(fp.ctxs # <<>> /\ Head(fp.ctxs) = c)
  BY <1>1, <1>2, <1>5, <1>3, ContextKeeps DEF Contexts, TimerStates, timer_cb, FsPollInv,
     FsPollTypes
<1> QED BY <1>4, <1>5

\* A list whose only member is x is <<x>>.
LEMMA OnlyOne ==
  ASSUME NEW S, NEW q \in Seq(S), NoDup(q), NEW x, In(q) = {x}
  PROVE  q = <<x>>
<1>1. Len(q) \in Nat /\ DOMAIN q = 1..Len(q)
  OBVIOUS
<1>2. \A i \in DOMAIN q : q[i] = x
  BY DEF In
<1>3. Len(q) # 0
  BY <1>1 DEF In
<1>4. ~(Len(q) > 1)
  BY <1>1, <1>2 DEF NoDup
<1>5. Len(q) = 1
  BY <1>1, <1>3, <1>4
<1> QED BY <1>1, <1>2, <1>5

\* The context is freed and unlinked; the last one lets the close go on.
LEMMA TimerCloseKeeps == ASSUME FsPollInv, NEW c \in Ctxs, timer_close_cb(c) PROVE FsPollInv'
<1>1. ctx[c] \in Contexts /\ ctx[c].timer = "closing" /\ fp_pc = 0 /\ fp_pc' = 0
      /\ made' = made /\ fp_closed' = fp_closed /\ fp \in Pollers /\ fp.ctxs \in Seq(Ctxs)
  BY DEF timer_close_cb, FsPollIdle, FsPollInv, FsPollTypes, Pollers
<1>2. c \in Live /\ ctx[c].stat = 0
  BY <1>1 DEF FsPollInv, Awaited, AwaitedBy, Live
<1>3. PICK r : r = [ctx[c] EXCEPT !.timer = "freed"]
  OBVIOUS
<1>4. r \in Contexts /\ r.stat = 0 /\ r.timer = "freed" /\ r.told = ctx[c].told
      /\ r.busy_polling = ctx[c].busy_polling /\ r.statbuf = ctx[c].statbuf
  BY <1>1, <1>2, <1>3 DEF Contexts, TimerStates
<1>5. ctx' = [ctx EXCEPT ![c] = r]
  BY <1>3 DEF timer_close_cb, FsPollInv, FsPollTypes
<1>6. ctx' \in [Ctxs -> Contexts] /\ ctx'[c] = r /\ \A d \in Ctxs \ {c} : ctx'[d] = ctx[d]
  BY <1>4, <1>5, ContextSet DEF FsPollInv, FsPollTypes
<1>7. Live' = Live \ {c}
  BY <1>4, <1>6 DEF Live
<1>8. PICK q : q = Without(fp.ctxs, c)
  OBVIOUS
<1>9. q \in Seq(Ctxs) /\ In(q) = Live \ {c} /\ NoDup(q)
  BY <1>1, <1>8, Unlinked DEF FsPollInv, Linked
<1>10. fp' \in Pollers /\ fp'.ctxs = q /\ fp'.active = fp.active /\ fp'.closing = fp.closing
       /\ fp'.pending = IF CloseReady(c) THEN 1 ELSE fp.pending
  BY <1>1, <1>8, <1>9 DEF timer_close_cb, Pollers
<1>11. CloseReady(c) <=> fp.closing = 1 /\ Live = {c}
  <2>1. fp.ctxs = <<c>> => Live = {c}
    BY DEF FsPollInv, Linked, In
  <2>2. Live = {c} => fp.ctxs = <<c>>
    BY <1>1, OnlyOne DEF FsPollInv, Linked
  <2> QED BY <2>1, <2>2 DEF CloseReady
<1>12. FsPollTypes'
  BY <1>1, <1>6, <1>10 DEF FsPollInv, FsPollTypes
<1>13. Linked'
  BY <1>7, <1>9, <1>10 DEF Linked
<1>14. Awaited'
  BY <1>1, <1>6, <1>4, <1>7, CtxsAssumption DEF FsPollInv, Awaited, AwaitedBy, Live
<1>15. Truthful'
  BY <1>4, <1>6 DEF FsPollInv, Truthful, TellsTruth
<1>16. Unmade'
  BY <1>1, <1>2, <1>4, <1>6 DEF FsPollInv, Unmade
<1>17. Newest'
  BY <1>1, <1>6, <1>7, <1>10 DEF FsPollInv, Newest, Live
<1>18. Closes'
  BY <1>10, <1>11, <1>2, <1>1, <1>7 DEF FsPollInv, Closes, CloseDue, Pollers
<1> QED BY <1>12, <1>13, <1>14, <1>15, <1>16, <1>17, <1>18 DEF FsPollInv

\* The close callback of the handle comes with no context left.
LEMMA FinishCloseKeeps == ASSUME FsPollInv, FsPollFinishClose PROVE FsPollInv'
<1>1. fp \in Pollers /\ fp.pending = 1 /\ UNCHANGED <<ctx, fp_pc, made>> /\ fp_closed' = 1
  BY DEF FsPollFinishClose, FsPollInv, FsPollTypes
<1>2. fp' \in Pollers /\ fp'.active = fp.active /\ fp'.closing = fp.closing
      /\ fp'.pending = 0 /\ fp'.ctxs = fp.ctxs
  BY <1>1 DEF FsPollFinishClose, Pollers
<1>3. FsPollTypes'
  BY <1>1, <1>2 DEF FsPollInv, FsPollTypes
<1>4. /\ {} \in SUBSET Live /\ \A d \in Ctxs \ {} : ctx'[d] = ctx[d]
      /\ fp'.active = 1 => fp.active = 1 /\ fp'.closing = 0
  BY <1>1, <1>2 DEF FsPollInv, Newest
<1>5. CloseDue(fp'.closing, fp'.pending, fp_closed', Live)
  BY <1>1, <1>2 DEF FsPollInv, Closes, CloseDue
<1> QED BY <1>1, <1>2, <1>3, <1>4, <1>5, ContextsMove

\* Every step of a file poller keeps the invariant.
LEMMA FsPollNextKeeps == FsPollInv /\ [FsPollNext]_fp_vars => FsPollInv'
<1> SUFFICES ASSUME FsPollInv, [FsPollNext]_fp_vars PROVE FsPollInv'
  OBVIOUS
<1>0. fp \in Pollers
  BY DEF FsPollInv, FsPollTypes
<1>1. CASE FsPollStop
  BY <1>1, <1>0, StopKeeps DEF FsPollInv, Closes, FsPollStop
<1>2. CASE uv__fs_poll_close
  <2>1. PICK f : f = [fp EXCEPT !.closing = 1, !.pending = IF fp.ctxs = <<>> THEN 1 ELSE 0]
    OBVIOUS
  <2>2. uv_fs_poll_stop(f) /\ fp_pc' = fp_pc /\ made' = made /\ fp_closed' = fp_closed
        /\ fp.closing = 0
    BY <1>2, <2>1 DEF uv__fs_poll_close
  <2>3. f \in Pollers /\ f.ctxs = fp.ctxs /\ f.closing = 1
        /\ f.pending = IF fp.ctxs = <<>> THEN 1 ELSE 0
    BY <1>0, <2>1 DEF Pollers
  <2>4. fp.ctxs = <<>> <=> Live = {}
    <3>1. fp.ctxs # <<>> => 1 \in DOMAIN fp.ctxs
      BY <1>0 DEF Pollers
    <3>2. fp.ctxs # <<>> => In(fp.ctxs) # {}
      BY <3>1 DEF In
    <3> QED BY <3>2, EmptyList DEF FsPollInv, Linked
  <2>5. CloseDue(f.closing, f.pending, fp_closed, Live)
    BY <2>2, <2>3, <2>4 DEF FsPollInv, Closes, CloseDue
  <2> QED BY <2>2, <2>3, <2>5, StopKeeps
<1>3. CASE UNCHANGED fp_vars
  BY <1>3 DEF fp_vars, FsPollInv, FsPollTypes, Linked, Awaited, AwaitedBy, Truthful,
              TellsTruth, Unmade, Newest, Closes, CloseDue, Live
<1> QED BY <1>1, <1>2, <1>3, StartKeeps, PollCbKeeps, FsPollReturnKeeps, TimerCbKeeps,
           TimerCloseKeeps, FinishCloseKeeps DEF FsPollNext, FsPollLoop

\* The list of contexts is as long as the set of its members is large.
LEMMA ListLength ==
  ASSUME NEW S, NEW q \in Seq(S), NoDup(q)
  PROVE  Len(q) = Cardinality(In(q))
<1>1. Len(q) \in Nat /\ DOMAIN q = 1..Len(q)
  OBVIOUS
<1>2. IsFiniteSet(1..Len(q)) /\ Cardinality(1..Len(q)) = Len(q)
  <2>1. 1 \in Int /\ Len(q) \in Int /\ ~(1 > Len(q)) => Len(q) - 1 + 1 = Len(q)
    BY <1>1
  <2> QED BY <1>1, <2>1, FS_Interval
<1>3. q \in Bijection(1..Len(q), In(q))
  BY <1>1 DEF Bijection, Injection, Surjection, IsInjective, NoDup, In
<1>4. ExistsBijection(1..Len(q), In(q))
  BY <1>3 DEF ExistsBijection
<1> QED BY <1>2, <1>4, FS_Bijection

\* The inductive invariant of a file poller: every context is in the list and
\* awaited exactly while it lives, and a close waits for the last of them.
THEOREM FsPollInvHolds == FsPollSpec => []FsPollInv
<1>1. FsPollInit => FsPollInv
  BY FsPollInitInv
<1>2. FsPollInv /\ [FsPollNext]_fp_vars => FsPollInv'
  BY FsPollNextKeeps
<1> QED BY <1>1, <1>2, PTL DEF FsPollSpec

\* Whatever is stopped, started and closed while stats are under way, a context
\* of uv_fs_poll_start() is freed once, with nothing left that points to it,
\* the close callback comes after the last, and what was told is what was seen.
THEOREM FsPollSafe == FsPollSpec => []FsPollSound
<1>1. FsPollInv => FsPollSound
  <2> SUFFICES ASSUME FsPollInv PROVE FsPollSound
    OBVIOUS
  <2>1. \A c \in Live : ctx[c].stat + (IF ctx[c].timer # "idle" THEN 1 ELSE 0)
                        + (IF fp_pc = c THEN 1 ELSE 0) = 1
    BY DEF FsPollInv, Awaited, AwaitedBy
  <2>2. In(fp.ctxs) = Live /\ Len(fp.ctxs) = Cardinality(Live)
    BY ListLength DEF FsPollInv, FsPollTypes, Pollers, Linked
  <2>3. fp.closing = 1 => (fp_closed = 1 \/ fp.pending = 1) = (Live = {})
    BY DEF FsPollInv, Closes, CloseDue
  <2>4. \A c \in Live : ctx[c].busy_polling # "never" =>
          ctx[c].told = IF ErrorOf(ctx[c].busy_polling) THEN ctx[c].busy_polling
                        ELSE ctx[c].statbuf
    BY DEF FsPollInv, Truthful, TellsTruth, Live
  <2> QED BY <2>1, <2>2, <2>3, <2>4 DEF FsPollSound, Live
<1> QED BY <1>1, FsPollInvHolds, PTL

-----------------------------------------------------------------------------
(* UDP.  uv_udp_send() numbers the requests, and they stay in that order:  *)
(* those called back, those completed, those queued (InOrder).  While      *)
(* callbacks run, nothing is added to the completed ones, as a send from a *)
(* callback sees the flag (Pass).                                          *)

Events == {"in", "out"}
UdpFlags == {"CLOSING", "CLOSED", "CONNECTED", "PROCESSING"}
UdpPlaces == {"idle", "recv", "recv_cb", "out", "completed", "send_cb"}
UdpHandles ==
  [fd : {0, 1}, flags : SUBSET UdpFlags, pevents : SUBSET Events, fed : {0, 1},
   active : {0, 1}, recv_cb : {0, 1}, write_queue : Seq(Sends),
   write_completed_queue : Seq(Sends), send_queue_size : Int, send_queue_count : Int,
   status : [Sends -> {"none", "ok", "failed", "canceled"}], mmsg : BOOLEAN]

UdpTypes ==
  /\ u \in UdpHandles /\ udp_pc \in UdpPlaces /\ udp_revents \in SUBSET (Events \cup {"close"})
  /\ udp_pass \in Nat /\ udp_sent \in Seq(Sends) /\ udp_called \in Seq(Sends)

\* The queues of t go on where c requests were called back, up to the s-th.
Queued(t, c, s) ==
  /\ s = c + Len(t.write_completed_queue) + Len(t.write_queue)
  /\ \A i \in 1..Len(t.write_completed_queue) : t.write_completed_queue[i] = c + i
  /\ \A i \in 1..Len(t.write_queue) :
       t.write_queue[i] = c + Len(t.write_completed_queue) + i

InOrder ==
  /\ \A i \in 1..Len(udp_sent) : udp_sent[i] = i
  /\ \A i \in 1..Len(udp_called) : udp_called[i] = i
  /\ Queued(u, Len(udp_called), Len(udp_sent))

UdpCounts ==
  /\ u.send_queue_count = Len(udp_sent) - Len(udp_called)
  /\ u.send_queue_size = Bytes(Len(udp_sent)) - Bytes(Len(udp_called))

InCallbacks == udp_pc \in {"completed", "send_cb"}

Pass ==
  /\ Len(udp_called) <= udp_pass
  /\ InCallbacks => Len(udp_called) + Len(u.write_completed_queue) <= udp_pass
  /\ "PROCESSING" \in u.flags <=> InCallbacks

\* The part of uv__udp_io() that empties the completed queue is not ahead.
NotAhead == udp_pc \in {"idle", "recv", "recv_cb"} \/ (udp_pc = "out" /\ "out" \notin udp_revents)

Watching(t) ==
  "CLOSING" \notin t.flags /\ t.write_queue # <<>> => "out" \in t.pevents /\ t.active = 1

Reported(t) ==
  "CLOSING" \notin t.flags /\ t.write_completed_queue # <<>> => t.fed = 1 \/ "out" \in t.pevents

UdpInv ==
  /\ UdpTypes /\ InOrder /\ UdpCounts /\ Pass
  /\ Watching(u) /\ (NotAhead => Reported(u))

\* A new socket has nothing queued.
LEMMA UdpInitInv == UdpInit => UdpInv
<1> SUFFICES ASSUME UdpInit PROVE UdpInv
  OBVIOUS
<1>1. u.flags = {} /\ u.write_queue = <<>> /\ u.write_completed_queue = <<>>
      /\ u.send_queue_size = 0 /\ u.send_queue_count = 0
  BY DEF UdpInit
<1>2. u \in UdpHandles
  <2>1. [r \in Sends |-> "none"] \in [Sends -> {"none", "ok", "failed", "canceled"}]
    OBVIOUS
  <2>2. <<>> \in Seq(Sends) /\ {} \in SUBSET UdpFlags /\ {} \in SUBSET Events
    OBVIOUS
  <2>3. \E m \in BOOLEAN :
          u = [fd |-> 0, flags |-> {}, pevents |-> {}, fed |-> 0, active |-> 0, recv_cb |-> 0,
               write_queue |-> <<>>, write_completed_queue |-> <<>>, send_queue_size |-> 0,
               send_queue_count |-> 0, status |-> [r \in Sends |-> "none"], mmsg |-> m]
    BY DEF UdpInit
  <2> QED BY <2>1, <2>2, <2>3 DEF UdpHandles
<1>3. UdpTypes
  BY <1>2 DEF UdpInit, UdpTypes, UdpPlaces
<1>4. InOrder
  BY <1>1 DEF UdpInit, InOrder, Queued
<1>5. UdpCounts
  BY <1>1 DEF UdpInit, UdpCounts, Bytes
<1>6. Pass
  BY <1>1 DEF UdpInit, Pass, InCallbacks
<1>7. Watching(u) /\ Reported(u)
  BY <1>1 DEF Watching, Reported
<1> QED BY <1>3, <1>4, <1>5, <1>6, <1>7 DEF UdpInv

\* Bytes counts in Nat.
LEMMA BytesType == \A n \in 0..Len(SendEnd) : Bytes(n) \in Nat
BY UdpAssumption DEF Bytes

\* The first n requests change from one queue to the other, in order.
LEMMA CompleteKeeps ==
  ASSUME NEW t \in UdpHandles, NEW n \in 0..Len(t.write_queue), NEW k \in 0..n,
         NEW x, x = Complete(t, k, n)
  PROVE  /\ x \in UdpHandles
         /\ x.fd = t.fd /\ x.flags = t.flags /\ x.pevents = t.pevents /\ x.fed = t.fed
         /\ x.active = t.active /\ x.send_queue_size = t.send_queue_size
         /\ x.send_queue_count = t.send_queue_count
         /\ Len(x.write_queue) = Len(t.write_queue) - n
         /\ \A c, s \in Nat : Queued(t, c, s) => Queued(x, c, s)
<1> DEFINE q == t.write_queue
           done == t.write_completed_queue
<1>1. q \in Seq(Sends) /\ done \in Seq(Sends) /\ Len(q) \in Nat /\ Len(done) \in Nat
      /\ n \in Nat /\ n <= Len(q)
  BY DEF UdpHandles
<1>2. PICK st : st = [r \in Sends |->
               IF r \in In(SubSeq(t.write_queue, 1, k)) THEN "ok"
               ELSE IF r \in In(SubSeq(t.write_queue, k + 1, n)) THEN "failed"
               ELSE t.status[r]]
  OBVIOUS
<1>3. st \in [Sends -> {"none", "ok", "failed", "canceled"}]
  BY <1>2 DEF UdpHandles
<1>4. PICK a : a = SubSeq(q, n + 1, Len(q))
  OBVIOUS
<1>5. PICK b : b = done \o SubSeq(q, 1, n)
  OBVIOUS
<1>6. a \in Seq(Sends) /\ Len(a) = Len(q) - n /\ \A i \in 1..Len(a) : a[i] = q[n + i]
  BY <1>1, <1>4
<1>7. /\ b \in Seq(Sends) /\ Len(b) = Len(done) + n
      /\ \A i \in 1..Len(done) : b[i] = done[i]
      /\ \A i \in 1..n : b[Len(done) + i] = q[i]
  <2>1. PICK m : m = SubSeq(q, 1, n)
    OBVIOUS
  <2>2. m \in Seq(Sends) /\ Len(m) = n /\ \A i \in 1..n : m[i] = q[i]
    BY <1>1, <2>1
  <2>3. b = done \o m
    BY <1>5, <2>1
  <2> HIDE DEF q, done
  <2>4. b \in Seq(Sends) /\ Len(b) = Len(done) + Len(m)
        /\ \A i \in 1..Len(b) : b[i] = IF i <= Len(done) THEN done[i] ELSE m[i - Len(done)]
    <3>1. /\ done \o m \in Seq(Sends) /\ Len(done \o m) = Len(done) + Len(m)
          /\ \A i \in 1..(Len(done) + Len(m)) :
               (done \o m)[i] = IF i <= Len(done) THEN done[i] ELSE m[i - Len(done)]
      BY <1>1, <2>2, ConcatProperties, Zenon
    <3> QED BY <2>3, <3>1
  <2>5. \A i \in 1..Len(done) : b[i] = done[i]
    BY SMTT(30), <1>1, <2>2, <2>4
  <2>6. \A i \in 1..n : b[Len(done) + i] = m[i]
    BY <1>1, <2>2, <2>4
  <2> QED BY <2>2, <2>4, <2>5, <2>6
<1>8. x = [t EXCEPT !.write_queue = a, !.write_completed_queue = b, !.status = st]
  BY <1>2, <1>4, <1>5 DEF Complete
<1>9. /\ x \in UdpHandles
      /\ x.fd = t.fd /\ x.flags = t.flags /\ x.pevents = t.pevents /\ x.fed = t.fed
      /\ x.active = t.active /\ x.send_queue_size = t.send_queue_size
      /\ x.send_queue_count = t.send_queue_count
      /\ x.write_queue = a /\ x.write_completed_queue = b
  BY <1>3, <1>6, <1>7, <1>8 DEF UdpHandles
<1>10. \A c, s \in Nat : Queued(t, c, s) => Queued(x, c, s)
  <2> SUFFICES ASSUME NEW c \in Nat, NEW s \in Nat, Queued(t, c, s) PROVE Queued(x, c, s)
    OBVIOUS
  <2>0. /\ s = c + Len(done) + Len(q)
        /\ \A i \in 1..Len(done) : done[i] = c + i
        /\ \A i \in 1..Len(q) : q[i] = c + Len(done) + i
    BY DEF Queued
  <2> HIDE DEF q, done
  <2>1. s = c + Len(b) + Len(a)
    BY <2>0, <1>1, <1>6, <1>7
  <2>2. \A i \in 1..Len(b) : b[i] = c + i
    <3> SUFFICES ASSUME NEW i \in 1..Len(b) PROVE b[i] = c + i
      OBVIOUS
    <3>1. CASE i <= Len(done)
      BY <3>1, <2>0, <1>1, <1>7
    <3>2. CASE i > Len(done)
      <4>1. i - Len(done) \in 1..n /\ Len(done) + (i - Len(done)) = i
        BY <3>2, <1>1, <1>7
      <4>2. b[i] = q[i - Len(done)]
        BY <4>1, <1>7
      <4>3. q[i - Len(done)] = c + Len(done) + (i - Len(done))
        BY <4>1, <2>0, <1>1
      <4> QED BY <4>1, <4>2, <4>3, <1>1
    <3> QED BY <3>1, <3>2, <1>1, <1>7
  <2>3. \A i \in 1..Len(a) : a[i] = c + Len(b) + i
    BY <2>0, <1>1, <1>6, <1>7
  <2> QED BY <1>9, <2>1, <2>2, <2>3 DEF Queued
<1> QED BY <1>6, <1>9, <1>10

\* What uv__udp_sendmsg() makes of a handle: the requests keep their order, and
\* none is left without an event or a place among the pending watchers.
Delivers(t, x) ==
  /\ x \in UdpHandles
  /\ x.fd = t.fd /\ x.flags = t.flags /\ x.pevents = t.pevents
  /\ x.active = t.active /\ x.send_queue_size = t.send_queue_size
  /\ x.send_queue_count = t.send_queue_count
  /\ x.fed = 1 \/ (x.write_queue # <<>> /\ x.fed = t.fed) \/ x = t
  /\ x.write_queue # <<>> => t.write_queue # <<>>
  /\ \A c, s \in Nat : Queued(t, c, s) => Queued(x, c, s)

\* n requests are done with, and the watcher is fed.
LEMMA FeedDelivers ==
  ASSUME NEW t \in UdpHandles, NEW n \in 0..Len(t.write_queue), NEW k \in 0..n
  PROVE  Delivers(t, Feed(Complete(t, k, n)))
<1>1. PICK x : x = Complete(t, k, n)
  OBVIOUS
<1>2. PICK y : y = Feed(x)
  OBVIOUS
<1>3. x \in UdpHandles
  BY <1>1, CompleteKeeps
<1>4. /\ y \in UdpHandles /\ y.fed = 1
      /\ y.fd = x.fd /\ y.flags = x.flags /\ y.pevents = x.pevents
      /\ y.active = x.active /\ y.send_queue_size = x.send_queue_size
      /\ y.send_queue_count = x.send_queue_count
      /\ y.write_queue = x.write_queue /\ y.write_completed_queue = x.write_completed_queue
  BY <1>2, <1>3 DEF Feed, UdpHandles
<1>5. /\ x.fd = t.fd /\ x.flags = t.flags /\ x.pevents = t.pevents
      /\ x.active = t.active /\ x.send_queue_size = t.send_queue_size
      /\ x.send_queue_count = t.send_queue_count
      /\ Len(x.write_queue) = Len(t.write_queue) - n
      /\ \A c, s \in Nat : Queued(t, c, s) => Queued(x, c, s)
  BY <1>1, CompleteKeeps
<1>6. x.write_queue # <<>> => t.write_queue # <<>>
  BY <1>5, <1>3 DEF UdpHandles
<1>7. \A c, s \in Nat : Queued(t, c, s) => Queued(y, c, s)
  BY ZenonT(30), <1>4, <1>5 DEF Queued
<1> QED BY <1>1, <1>2, <1>4, <1>5, <1>6, <1>7 DEF Delivers

\* The kernel took k requests and no more: the rest waits for POLLOUT.
LEMMA PartDelivers ==
  ASSUME NEW t \in UdpHandles, NEW k \in 0..(Len(t.write_queue) - 1)
  PROVE  Delivers(t, Complete(t, k, k))
<1>1. PICK x : x = Complete(t, k, k)
  OBVIOUS
<1>2. t.write_queue \in Seq(Sends) /\ Len(t.write_queue) \in Nat
  BY DEF UdpHandles
<1>3. k \in 0..Len(t.write_queue) /\ k \in 0..k /\ Len(t.write_queue) - k # 0
  BY <1>2
<1>4. /\ x \in UdpHandles
      /\ x.fd = t.fd /\ x.flags = t.flags /\ x.pevents = t.pevents /\ x.fed = t.fed
      /\ x.active = t.active /\ x.send_queue_size = t.send_queue_size
      /\ x.send_queue_count = t.send_queue_count
      /\ Len(x.write_queue) = Len(t.write_queue) - k
      /\ \A c, s \in Nat : Queued(t, c, s) => Queued(x, c, s)
  <2>1. PICK n : n = k
    OBVIOUS
  <2>2. n \in 0..Len(t.write_queue) /\ k \in 0..n /\ x = Complete(t, k, n)
    BY <1>1, <1>3, <2>1
  <2>3. /\ x \in UdpHandles
        /\ x.fd = t.fd /\ x.flags = t.flags /\ x.pevents = t.pevents /\ x.fed = t.fed
        /\ x.active = t.active /\ x.send_queue_size = t.send_queue_size
        /\ x.send_queue_count = t.send_queue_count
        /\ Len(x.write_queue) = Len(t.write_queue) - n
        /\ \A c, s \in Nat : Queued(t, c, s) => Queued(x, c, s)
    BY <2>2, CompleteKeeps
  <2> QED BY <2>1, <2>3
<1>5. x.write_queue # <<>> /\ t.write_queue # <<>>
  BY <1>2, <1>3, <1>4
<1> QED BY <1>1, <1>4, <1>5 DEF Delivers

\* Nothing was sent.
LEMMA NothingDelivers == ASSUME NEW t \in UdpHandles PROVE Delivers(t, t)
BY DEF Delivers

\* uv__udp_sendmmsg(), however its batches end.
LEMMA SendmmsgDelivers ==
  ASSUME NEW t \in UdpHandles, NEW x \in uv__udp_sendmmsg(t)
  PROVE  Delivers(t, x)
<1>1. PICK len : len = Len(t.write_queue)
  OBVIOUS
<1>2. len \in Nat /\ MmsgWidth \in Nat \ {0}
  BY <1>1, UdpAssumption DEF UdpHandles
<1>3. CASE len = 0
  BY <1>1, <1>3, NothingDelivers DEF uv__udp_sendmmsg
<1>4. CASE len # 0 /\ x = Feed(Complete(t, len, len))
  BY <1>1, <1>2, <1>4, FeedDelivers
<1>5. CASE len # 0 /\ \E k \in 0..(len - 1) : x = Complete(t, k, k)
  BY <1>1, <1>2, <1>5, PartDelivers
<1>6. CASE len # 0 /\ \E k \in 0..(len - 1) : x = Feed(Complete(t, k, Min({k + MmsgWidth, len})))
  BY <1>6, <1>2, <1>1, FeedDelivers DEF Min
<1>7. len # 0 => \/ x = Feed(Complete(t, len, len))
                 \/ \E k \in 0..(len - 1) : x = Complete(t, k, k)
                 \/ \E k \in 0..(len - 1) : x = Feed(Complete(t, k, Min({k + MmsgWidth, len})))
  <2> SUFFICES ASSUME len # 0
               PROVE  \/ x = Feed(Complete(t, len, len))
                      \/ \E k \in 0..(len - 1) : x = Complete(t, k, k)
                      \/ \E k \in 0..(len - 1) :
                           x = Feed(Complete(t, k, Min({k + MmsgWidth, len})))
    OBVIOUS
  <2>1. CASE t.fd = 1
    BY <1>1, <2>1 DEF uv__udp_sendmmsg
  <2>2. CASE t.fd # 1
    BY <1>1, <2>2, <1>2 DEF uv__udp_sendmmsg
  <2> QED BY <2>1, <2>2
<1> QED BY <1>3, <1>4, <1>5, <1>6, <1>7

\* What a request's status says does not matter to the queues.
LEMMA StatusDelivers ==
  ASSUME NEW t \in UdpHandles, NEW n \in 0..Len(t.write_queue), NEW bad
  PROVE  Delivers(t, Feed([Complete(t, n, n) EXCEPT
                             !.status = [r \in Sends |->
                                IF r \in bad \cap In(SubSeq(t.write_queue, 1, n))
                                THEN "failed" ELSE @[r]]]))
<1>1. PICK x : x = Complete(t, n, n)
  OBVIOUS
<1>2. n \in 0..n
  BY DEF UdpHandles
<1>3. /\ x \in UdpHandles
      /\ x.fd = t.fd /\ x.flags = t.flags /\ x.pevents = t.pevents
      /\ x.active = t.active /\ x.send_queue_size = t.send_queue_size
      /\ x.send_queue_count = t.send_queue_count
      /\ Len(x.write_queue) = Len(t.write_queue) - n
      /\ \A c, s \in Nat : Queued(t, c, s) => Queued(x, c, s)
  BY <1>1, <1>2, CompleteKeeps
<1>4. PICK st : st = [r \in Sends |-> IF r \in bad \cap In(SubSeq(t.write_queue, 1, n))
                                      THEN "failed" ELSE x.status[r]]
  OBVIOUS
<1>5. st \in [Sends -> {"none", "ok", "failed", "canceled"}]
  BY <1>3, <1>4 DEF UdpHandles
<1>6. PICK y : y = [x EXCEPT !.status = st]
  OBVIOUS
<1>7. PICK z : z = Feed(y)
  OBVIOUS
<1>8. y \in UdpHandles /\ z \in UdpHandles /\ z.fed = 1
  BY <1>3, <1>5, <1>6, <1>7 DEF UdpHandles, Feed
<1>9. /\ z.fd = x.fd /\ z.flags = x.flags /\ z.pevents = x.pevents
      /\ z.active = x.active /\ z.send_queue_size = x.send_queue_size
      /\ z.send_queue_count = x.send_queue_count
      /\ z.write_queue = x.write_queue /\ z.write_completed_queue = x.write_completed_queue
  BY <1>3, <1>5, <1>6, <1>7 DEF UdpHandles, Feed
<1>10. x.write_queue # <<>> => t.write_queue # <<>>
  BY <1>3 DEF UdpHandles
<1>11. \A c, s \in Nat : Queued(t, c, s) => Queued(z, c, s)
  BY ZenonT(30), <1>3, <1>9 DEF Queued
<1>12. Delivers(t, z)
  BY <1>3, <1>8, <1>9, <1>10, <1>11 DEF Delivers
<1> QED BY <1>1, <1>4, <1>6, <1>7, <1>12

\* uv__udp_sendmsg(), with sendmmsg() or without it.
LEMMA SendmsgDelivers ==
  ASSUME NEW t \in UdpHandles, NEW x \in uv__udp_sendmsg(t)
  PROVE  Delivers(t, x)
<1>1. CASE t.mmsg
  BY <1>1, SendmmsgDelivers DEF uv__udp_sendmsg
<1>2. CASE ~t.mmsg
  <2>1. Len(t.write_queue) \in Nat
    BY DEF UdpHandles
  <2>2. \E n \in 0..Len(t.write_queue) : \E bad : x = SendAlone(t, n, bad)
    BY <1>2, <2>1 DEF uv__udp_sendmsg
  <2> QED BY <2>2, NothingDelivers, StatusDelivers DEF SendAlone
<1> QED BY <1>1, <1>2

\* A step that leaves the queues and what they count alone.
LEMMA QueuesStay ==
  ASSUME UdpInv, u' \in UdpHandles, udp_pc' \in UdpPlaces,
         udp_revents' \in SUBSET (Events \cup {"close"}),
         u'.write_queue = u.write_queue, u'.write_completed_queue = u.write_completed_queue,
         u'.send_queue_size = u.send_queue_size, u'.send_queue_count = u.send_queue_count,
         udp_pass' = udp_pass, udp_sent' = udp_sent, udp_called' = udp_called,
         "PROCESSING" \in u'.flags <=> InCallbacks', InCallbacks' => InCallbacks,
         Watching(u'), NotAhead' => Reported(u')
  PROVE  UdpInv'
BY DEF UdpInv, UdpTypes, InOrder, Queued, UdpCounts, Pass

\* The operations that touch only flags and what the watcher asks for.
LEMMA OperationsKeep ==
  ASSUME UdpInv,
         \/ uv__udp_bind \/ uv_udp_connect \/ uv__udp_disconnect
         \/ uv__udp_recv_start \/ uv__udp_recv_stop \/ uv__udp_close
  PROVE  UdpInv'
<1>1. UNCHANGED udp_local /\ UNCHANGED udp_history /\ u \in UdpHandles /\ "CLOSING" \notin u.flags
  BY DEF uv__udp_bind, uv_udp_connect, uv__udp_disconnect, uv__udp_recv_start,
         uv__udp_recv_stop, uv__udp_close, UdpInv, UdpTypes, UdpUser, UdpIs
<1>2. udp_pc' = udp_pc /\ udp_revents' = udp_revents /\ udp_pass' = udp_pass
      /\ udp_sent' = udp_sent /\ udp_called' = udp_called
  BY <1>1 DEF udp_local, udp_history
<1>3. /\ u' \in UdpHandles
      /\ u'.write_queue = u.write_queue /\ u'.write_completed_queue = u.write_completed_queue
      /\ u'.send_queue_size = u.send_queue_size /\ u'.send_queue_count = u.send_queue_count
      /\ ("PROCESSING" \in u'.flags <=> "PROCESSING" \in u.flags)
      /\ \/ "CLOSING" \in u'.flags
         \/ /\ u'.fed = u.fed
            /\ "out" \in u.pevents => "out" \in u'.pevents
            /\ "out" \in u.pevents /\ u.active = 1 => u'.active = 1
  <2>1. CASE uv__udp_bind
    BY <1>1, <2>1 DEF uv__udp_bind, UdpHandles
  <2>2. CASE uv_udp_connect
    BY <1>1, <2>2 DEF uv_udp_connect, UdpHandles, UdpFlags
  <2>3. CASE uv__udp_disconnect
    BY <1>1, <2>3 DEF uv__udp_disconnect, UdpHandles, UdpFlags
  <2>4. CASE uv__udp_recv_start
    BY <1>1, <2>4 DEF uv__udp_recv_start, UdpHandles, Events
  <2>5. CASE uv__udp_recv_stop
    BY <1>1, <2>5 DEF uv__udp_recv_stop, UdpHandles, Events
  <2>6. CASE uv__udp_close
    BY <1>1, <2>6 DEF uv__udp_close, UdpHandles, UdpFlags
  <2> QED BY <2>1, <2>2, <2>3, <2>4, <2>5, <2>6
<1>4. Watching(u) /\ (NotAhead => Reported(u))
  BY DEF UdpInv
<1>5. Watching(u')
  BY <1>1, <1>3, <1>4 DEF Watching
<1>6. NotAhead' => Reported(u')
  BY <1>1, <1>2, <1>3, <1>4 DEF Reported, NotAhead
<1>7. InCallbacks' <=> InCallbacks
  BY <1>2 DEF InCallbacks
<1>8. "PROCESSING" \in u'.flags <=> InCallbacks'
  BY <1>3, <1>7 DEF UdpInv, Pass
<1>9. udp_pc' \in UdpPlaces /\ udp_revents' \in SUBSET (Events \cup {"close"})
  BY <1>2 DEF UdpInv, UdpTypes
<1> QED BY <1>2, <1>3, <1>5, <1>6, <1>7, <1>8, <1>9, QueuesStay

\* The loop up to the callbacks of the sends, and their return.
LEMMA LoopKeeps ==
  ASSUME UdpInv, UdpEvent \/ UdpFed \/ Recv \/ RecvReturn \/ SendReturn
  PROVE  UdpInv'
<1>1. u \in UdpHandles /\ udp_pc \in UdpPlaces /\ udp_revents \in SUBSET (Events \cup {"close"})
  BY DEF UdpInv, UdpTypes
<1>2. Watching(u) /\ (NotAhead => Reported(u)) /\ ("PROCESSING" \in u.flags <=> InCallbacks)
  BY DEF UdpInv, Pass
<1>3. udp_pass' = udp_pass /\ udp_sent' = udp_sent /\ udp_called' = udp_called
  BY DEF UdpEvent, UdpFed, Recv, RecvReturn, SendReturn, udp_history
<1>4. CASE UdpFed
  BY <1>1, <1>4, <1>2, <1>3, QueuesStay DEF UdpFed, UdpHandles, Watching, NotAhead, InCallbacks,
     UdpPlaces, Events
<1>5. CASE UdpEvent \/ Recv \/ RecvReturn \/ SendReturn
  <2>1. u' = u
    BY <1>5 DEF UdpEvent, Recv, RecvReturn, SendReturn
  <2>2. udp_pc' \in UdpPlaces /\ udp_revents' \in SUBSET (Events \cup {"close"})
    BY <1>1, <1>5 DEF UdpEvent, UdpPlaces, UdpHandles, Recv, RecvReturn, SendReturn
  <2>3. InCallbacks' <=> InCallbacks
    BY <1>5 DEF InCallbacks, UdpEvent, Recv, RecvReturn, SendReturn
  <2>4. NotAhead' => NotAhead
    BY <1>5 DEF NotAhead, UdpEvent, Recv, RecvReturn, SendReturn
  <2>5. Watching(u') /\ (NotAhead' => Reported(u'))
        /\ ("PROCESSING" \in u'.flags <=> InCallbacks')
    BY <1>2, <2>1, <2>3, <2>4
  <2>6. u' \in UdpHandles
        /\ u'.write_queue = u.write_queue /\ u'.write_completed_queue = u.write_completed_queue
        /\ u'.send_queue_size = u.send_queue_size /\ u'.send_queue_count = u.send_queue_count
    BY <1>1, <2>1
  <2> QED BY <1>3, <2>2, <2>3, <2>5, <2>6, QueuesStay
<1> QED BY <1>4, <1>5

\* The end of a pass.
LEMMA RunEndKeeps == ASSUME UdpInv, RunEnd PROVE UdpInv'
<1>1. u \in UdpHandles /\ udp_pc = "completed" /\ u.write_completed_queue = <<>>
      /\ udp_pc' = "idle" /\ udp_revents' = {}
      /\ udp_pass' = udp_pass /\ udp_sent' = udp_sent /\ udp_called' = udp_called
  BY DEF UdpInv, UdpTypes, RunEnd, udp_history
<1>2. PICK d : d = [u EXCEPT !.flags = @ \ {"PROCESSING"}]
  OBVIOUS
<1>3. /\ d \in UdpHandles /\ d.flags = u.flags \ {"PROCESSING"}
      /\ d.write_queue = u.write_queue /\ d.write_completed_queue = <<>>
      /\ d.send_queue_size = u.send_queue_size /\ d.send_queue_count = u.send_queue_count
      /\ d.pevents = u.pevents /\ d.active = u.active
  BY <1>1, <1>2 DEF UdpHandles, UdpFlags
<1>4. PICK e : e = RunDone(u)
  OBVIOUS
<1>5. /\ e \in UdpHandles /\ e.flags = u.flags \ {"PROCESSING"}
      /\ e.write_queue = u.write_queue /\ e.write_completed_queue = <<>>
      /\ e.send_queue_size = u.send_queue_size /\ e.send_queue_count = u.send_queue_count
      /\ e.write_queue # <<>> => e.pevents = u.pevents /\ e.active = u.active
  <2>1. CASE u.write_queue # <<>>
    BY <1>2, <1>4, <2>1, <1>3 DEF RunDone
  <2>2. CASE u.write_queue = <<>>
    BY <1>2, <1>4, <2>2, <1>3 DEF RunDone, UdpHandles, Events
  <2> QED BY <2>1, <2>2
<1>6. /\ u' \in UdpHandles /\ "PROCESSING" \notin u'.flags
      /\ u'.write_queue = u.write_queue /\ u'.write_completed_queue = <<>>
      /\ u'.send_queue_size = u.send_queue_size /\ u'.send_queue_count = u.send_queue_count
      /\ ("CLOSING" \in u'.flags <=> "CLOSING" \in u.flags)
      /\ u'.write_queue # <<>> => u'.pevents = u.pevents /\ u'.active = u.active
  <2>1. CASE udp_revents = {"close"}
    BY <1>4, <2>1, <1>5 DEF RunEnd, UdpHandles, UdpFlags
  <2>2. CASE udp_revents # {"close"}
    BY <1>4, <2>2, <1>5 DEF RunEnd
  <2> QED BY <2>1, <2>2
<1>7. Watching(u') /\ Reported(u')
  BY <1>6 DEF UdpInv, Watching, Reported
<1>8. ~InCallbacks' /\ udp_pc' \in UdpPlaces /\ udp_revents' \in SUBSET (Events \cup {"close"})
  BY <1>1 DEF InCallbacks, UdpPlaces
<1> QED BY <1>1, <1>6, <1>7, <1>8, QueuesStay

\* The callback of the next completed request.
LEMMA RunNextKeeps == ASSUME UdpInv, RunNext PROVE UdpInv'
<1> DEFINE done == u.write_completed_queue
           q == u.write_queue
           c == Len(udp_called)
           s == Len(udp_sent)
<1>1. /\ u \in UdpHandles /\ udp_pc = "completed" /\ done # <<>> /\ udp_pc' = "send_cb"
      /\ udp_revents' = udp_revents /\ udp_pass' = udp_pass /\ udp_sent' = udp_sent
      /\ done \in Seq(Sends) /\ q \in Seq(Sends) /\ udp_called \in Seq(Sends)
      /\ udp_sent \in Seq(Sends) /\ udp_revents \in SUBSET (Events \cup {"close"})
      /\ udp_pass \in Nat /\ u.send_queue_count \in Int /\ u.send_queue_size \in Int
  BY DEF UdpInv, UdpTypes, UdpHandles, RunNext
<1>2. /\ c \in Nat /\ s \in Nat /\ Len(done) \in Nat /\ Len(done) > 0 /\ Len(q) \in Nat
      /\ Head(done) = done[1] /\ 1 \in DOMAIN done
  BY <1>1
<1>3. /\ s = c + Len(done) + Len(q)
      /\ \A i \in 1..Len(done) : done[i] = c + i
      /\ \A i \in 1..Len(q) : q[i] = c + Len(done) + i
      /\ \A i \in 1..c : udp_called[i] = i
      /\ \A i \in 1..s : udp_sent[i] = i
  BY DEF UdpInv, InOrder, Queued
<1>4. PICK r : r = Head(done)
  OBVIOUS
<1>5. r = c + 1 /\ r \in Sends
  <2>1. r = done[1] /\ 1 \in 1 .. Len(done) /\ done[1] \in Sends
    BY <1>1, <1>2, <1>4
  <2>2. done[1] = c + 1
    BY <1>3, <2>1
  <2> QED BY <2>1, <2>2
<1>6. PICK rest : rest = Tail(done)
  OBVIOUS
<1>7. rest \in Seq(Sends) /\ Len(rest) = Len(done) - 1
      /\ \A i \in 1..Len(rest) : rest[i] = done[i + 1]
  BY <1>1, <1>2, <1>6
<1>8. PICK size : size = u.send_queue_size - SendSize(r)
  OBVIOUS
<1>0. PICK n : n = u.send_queue_count - 1
  OBVIOUS
<1>9. u' = [u EXCEPT !.write_completed_queue = rest, !.send_queue_count = n,
                     !.send_queue_size = size]
      /\ udp_called' = Append(udp_called, r)
  BY <1>0, <1>4, <1>6, <1>8 DEF RunNext
<1>10. Sends = 1..Len(SendEnd) /\ Len(SendEnd) \in Nat /\ c \in 0..Len(SendEnd)
       /\ r \in 0..Len(SendEnd) /\ r - 1 = c
  BY <1>2, <1>5, UdpAssumption DEF Sends
<1>11. s \in 0..Len(SendEnd)
  <2>1. s # 0 => s \in 1..s /\ s \in DOMAIN udp_sent
    BY <1>1, <1>2
  <2>2. s # 0 => udp_sent[s] = s /\ udp_sent[s] \in Sends
    <3>1. s # 0 => udp_sent[s] \in Sends
      BY <1>1, <2>1
    <3>2. s # 0 => udp_sent[s] = s
      <4> HIDE DEF s
      <4> QED BY <1>3, <2>1
    <3> QED BY <3>1, <3>2
  <2> QED BY <1>2, <1>10, <2>2
<1>12. Bytes(c) \in Nat /\ Bytes(r) \in Nat /\ Bytes(s) \in Nat
       /\ SendSize(r) = Bytes(r) - Bytes(c)
  BY <1>10, <1>11, BytesType DEF SendSize
<1>13. size \in Int
  BY <1>1, <1>8, <1>12
<1>14. /\ u' \in UdpHandles /\ u'.flags = u.flags /\ u'.pevents = u.pevents
       /\ u'.active = u.active /\ u'.write_queue = q /\ u'.write_completed_queue = rest
       /\ u'.send_queue_count = u.send_queue_count - 1 /\ u'.send_queue_size = size
  <2> HIDE DEF c, s
  <2>1. n \in Int
    BY <1>0, <1>1
  <2> QED BY <1>0, <1>1, <1>7, <1>9, <1>13, <2>1 DEF UdpHandles
<1>15. udp_called' \in Seq(Sends) /\ Len(udp_called') = c + 1
       /\ \A i \in 1..(c + 1) : udp_called'[i] = i
  BY <1>1, <1>2, <1>3, <1>5, <1>9
<1>16. UdpTypes'
  BY <1>1, <1>14, <1>15 DEF UdpTypes, UdpPlaces
<1> HIDE DEF done, q, c, s
<1>17. InOrder'
  <2>1. s = (c + 1) + Len(rest) + Len(q)
    BY <1>2, <1>3, <1>7
  <2>2. \A i \in 1..Len(rest) : rest[i] = (c + 1) + i
    BY <1>2, <1>3, <1>7
  <2>3. \A i \in 1..Len(q) : q[i] = (c + 1) + Len(rest) + i
    BY <1>2, <1>3, <1>7
  <2>4. Queued(u', c + 1, s)
    BY <1>14, <2>1, <2>2, <2>3 DEF Queued
  <2> QED BY <1>1, <1>3, <1>15, <2>4 DEF InOrder, Queued, s
<1>18. UdpCounts'
  BY <1>8, <1>12, <1>2, <1>1, <1>5, <1>14, <1>15 DEF UdpInv, UdpCounts, s, c
<1>19. Pass'
  BY <1>1, <1>2, <1>7, <1>14, <1>15 DEF UdpInv, Pass, InCallbacks, c, done
<1>20. Watching(u') /\ ~NotAhead'
  BY <1>1, <1>14 DEF UdpInv, Watching, NotAhead, q
<1> QED BY <1>16, <1>17, <1>18, <1>19, <1>20 DEF UdpInv

\* A pass over the completed requests begins.
LEMMA PassBegins ==
  ASSUME UdpInv, NEW t \in UdpHandles, RunCompleted(t), t.flags = u.flags,
         t.send_queue_size = u.send_queue_size, t.send_queue_count = u.send_queue_count,
         Queued(t, Len(udp_called), Len(udp_sent)), Watching(t),
         udp_revents' \in SUBSET (Events \cup {"close"}),
         udp_sent' = udp_sent, udp_called' = udp_called
  PROVE  UdpInv'
<1>1. udp_pc' = "completed" /\ udp_pass' = Len(udp_sent)
      /\ u' = [t EXCEPT !.flags = @ \cup {"PROCESSING"}]
  BY DEF RunCompleted
<1>2. /\ u' \in UdpHandles /\ u'.flags = t.flags \cup {"PROCESSING"}
      /\ u'.pevents = t.pevents /\ u'.active = t.active
      /\ u'.write_queue = t.write_queue
      /\ u'.write_completed_queue = t.write_completed_queue
      /\ u'.send_queue_size = t.send_queue_size /\ u'.send_queue_count = t.send_queue_count
  BY <1>1 DEF UdpHandles, UdpFlags
<1>3. UdpTypes'
  BY <1>1, <1>2 DEF UdpInv, UdpTypes, UdpPlaces
<1>4. InOrder'
  BY <1>2 DEF UdpInv, InOrder, Queued
<1>5. UdpCounts'
  BY <1>2 DEF UdpInv, UdpCounts
<1>6. Pass'
  <2>1. Len(udp_called) \in Nat /\ Len(udp_sent) \in Nat
        /\ Len(t.write_queue) \in Nat /\ Len(t.write_completed_queue) \in Nat
    BY DEF UdpInv, UdpTypes, UdpHandles
  <2>2. Len(udp_called) + Len(t.write_completed_queue) <= Len(udp_sent)
        /\ Len(udp_called) <= Len(udp_sent)
    <3>1. Len(udp_sent) = Len(udp_called) + Len(t.write_completed_queue) + Len(t.write_queue)
      BY DEF Queued
    <3>2. \A a, b, c, d \in Nat : a = b + c + d => b + c <= a /\ b <= a
      OBVIOUS
    <3> QED BY <2>1, <3>1, <3>2, Zenon
  <2> QED BY <1>1, <1>2, <2>2 DEF Pass, InCallbacks
<1>7. Watching(u') /\ ~NotAhead'
  BY <1>1, <1>2 DEF Watching, NotAhead
<1> QED BY <1>3, <1>4, <1>5, <1>6, <1>7 DEF UdpInv

\* uv__udp_io() sends what is queued and begins a pass, if it was for POLLOUT.
LEMMA SendPartKeeps == ASSUME UdpInv, SendPart PROVE UdpInv'
<1>1. udp_pc = "out" /\ udp_sent' = udp_sent /\ udp_called' = udp_called /\ u \in UdpHandles
      /\ udp_revents \in SUBSET (Events \cup {"close"})
  BY DEF SendPart, udp_history, UdpInv, UdpTypes
<1>2. CASE "out" \in udp_revents
  BY <1>2, <1>1, SendmsgDelivers, PassBegins DEF SendPart, UdpInv, UdpTypes, Delivers, InOrder,
     Watching
<1>3. CASE "out" \notin udp_revents
  BY <1>3, <1>1, QueuesStay DEF SendPart, NotAhead, InCallbacks, UdpInv, Pass, UdpPlaces
<1> QED BY <1>2, <1>3

\* What is queued at the close is canceled, behind what was completed.
LEMMA UdpFinishCloseKeeps == ASSUME UdpInv, uv__udp_finish_close PROVE UdpInv'
<1> DEFINE done == u.write_completed_queue
           q == u.write_queue
<1>1. /\ u \in UdpHandles /\ "CLOSING" \in u.flags /\ udp_revents' = {"close"}
      /\ udp_sent' = udp_sent /\ udp_called' = udp_called
      /\ done \in Seq(Sends) /\ q \in Seq(Sends)
  BY DEF uv__udp_finish_close, UdpIs, udp_history, UdpInv, UdpTypes, UdpHandles
<1>2. PICK st : st = [r \in Sends |-> IF r \in In(u.write_queue) THEN "canceled"
                                      ELSE u.status[r]]
  OBVIOUS
<1>3. st \in [Sends -> {"none", "ok", "failed", "canceled"}]
  BY <1>1, <1>2 DEF UdpHandles
<1>4. PICK b : b = done \o q
  OBVIOUS
<1>5. Len(done) \in Nat /\ Len(q) \in Nat /\ Len(udp_called) \in Nat /\ Len(udp_sent) \in Nat
  BY <1>1 DEF UdpInv, UdpTypes
<1>6. /\ Len(udp_sent) = Len(udp_called) + Len(done) + Len(q)
      /\ \A i \in 1..Len(done) : done[i] = Len(udp_called) + i
      /\ \A i \in 1..Len(q) : q[i] = Len(udp_called) + Len(done) + i
  BY DEF UdpInv, InOrder, Queued
<1>7. PICK t : t = [u EXCEPT !.write_queue = <<>>, !.write_completed_queue = b, !.status = st]
  OBVIOUS
<1>8. RunCompleted(t)
  BY <1>2, <1>4, <1>7 DEF uv__udp_finish_close
<1> HIDE DEF done, q
<1>9. /\ b \in Seq(Sends) /\ Len(b) = Len(done) + Len(q)
      /\ \A i \in 1..Len(b) : b[i] = IF i <= Len(done) THEN done[i] ELSE q[i - Len(done)]
  <2>1. /\ done \o q \in Seq(Sends) /\ Len(done \o q) = Len(done) + Len(q)
        /\ \A i \in 1..(Len(done) + Len(q)) :
             (done \o q)[i] = IF i <= Len(done) THEN done[i] ELSE q[i - Len(done)]
    BY <1>1, ConcatProperties, Zenon
  <2> QED BY <1>4, <2>1
<1>10. /\ t \in UdpHandles /\ t.flags = u.flags
       /\ t.send_queue_size = u.send_queue_size /\ t.send_queue_count = u.send_queue_count
       /\ t.write_queue = <<>> /\ t.write_completed_queue = b
  <2>1. <<>> \in Seq(Sends)
    OBVIOUS
  <2> QED BY <1>1, <1>3, <1>7, <1>9, <2>1 DEF UdpHandles
<1>11. Queued(t, Len(udp_called), Len(udp_sent))
  <2>1. \A i \in 1..Len(b) : b[i] = Len(udp_called) + i
    <3> SUFFICES ASSUME NEW i \in 1..Len(b) PROVE b[i] = Len(udp_called) + i
      OBVIOUS
    <3>1. CASE i <= Len(done)
      BY <3>1, <1>5, <1>6, <1>9
    <3>2. CASE i > Len(done)
      <4>1. i - Len(done) \in 1..Len(q) /\ ~(i <= Len(done))
        BY <3>2, <1>5, <1>9
      <4>2. b[i] = q[i - Len(done)]
        BY <4>1, <1>9
      <4>3. q[i - Len(done)] = Len(udp_called) + Len(done) + (i - Len(done))
        BY <4>1, <1>6
      <4> QED BY <4>1, <4>2, <4>3, <1>5
    <3> QED BY <3>1, <3>2, <1>5, <1>9
  <2> QED BY <1>5, <1>6, <1>9, <1>10, <2>1 DEF Queued
<1>12. Watching(t)
  BY <1>10 DEF Watching
<1>13. udp_revents' \in SUBSET (Events \cup {"close"})
  BY <1>1
<1> QED BY <1>1, <1>8, <1>10, <1>11, <1>12, <1>13, PassBegins

\* A request is queued, and sent at once unless others are before it.
LEMMA UdpSendKeeps == ASSUME UdpInv, NEW r \in Sends, uv__udp_send(r) PROVE UdpInv'
<1> DEFINE done == u.write_completed_queue
           q == u.write_queue
           c == Len(udp_called)
           s == Len(udp_sent)
<1>1. /\ u \in UdpHandles /\ udp_pc \in {"idle", "recv_cb", "send_cb"} /\ "CLOSING" \notin u.flags
      /\ udp_pc' = udp_pc /\ udp_revents' = udp_revents /\ udp_pass' = udp_pass
      /\ udp_called' = udp_called /\ udp_sent' = Append(udp_sent, r)
      /\ done \in Seq(Sends) /\ q \in Seq(Sends) /\ udp_called \in Seq(Sends)
      /\ udp_sent \in Seq(Sends) /\ udp_revents \in SUBSET (Events \cup {"close"})
      /\ udp_pass \in Nat /\ u.send_queue_count \in Int /\ u.send_queue_size \in Int
  BY DEF UdpInv, UdpTypes, UdpHandles, uv__udp_send, UdpUser, UdpIs, udp_local
<1>2. /\ c \in Nat /\ s \in Nat /\ Len(done) \in Nat /\ Len(q) \in Nat /\ r = s + 1
  BY <1>1 DEF uv__udp_send
<1>3. /\ s = c + Len(done) + Len(q)
      /\ \A i \in 1..Len(done) : done[i] = c + i
      /\ \A i \in 1..Len(q) : q[i] = c + Len(done) + i
      /\ \A i \in 1..c : udp_called[i] = i
      /\ \A i \in 1..s : udp_sent[i] = i
  BY DEF UdpInv, InOrder, Queued
<1>4. PICK size : size = u.send_queue_size + SendSize(r)
  OBVIOUS
<1>5. PICK n : n = u.send_queue_count + 1
  OBVIOUS
<1>6. PICK qq : qq = Append(q, r)
  OBVIOUS
<1>7. PICK t : t = [u EXCEPT !.fd = 1, !.active = 1, !.send_queue_size = size,
                             !.send_queue_count = n, !.write_queue = qq]
  OBVIOUS
<1>8. /\ SendNow => \E x \in uv__udp_sendmsg(t) :
                      u' = IF x.write_queue = <<>> THEN x
                           ELSE [x EXCEPT !.pevents = @ \cup {"out"}]
      /\ ~SendNow => u' = [t EXCEPT !.pevents = @ \cup {"out"}]
  BY <1>4, <1>5, <1>6, <1>7 DEF uv__udp_send
<1>9. Len(SendEnd) \in Nat /\ r \in 0..Len(SendEnd) /\ s \in 0..Len(SendEnd) /\ r - 1 = s
  BY <1>2, UdpAssumption DEF Sends
<1> HIDE DEF done, q, c, s
<1>10. c \in 0..Len(SendEnd)
  BY <1>2, <1>3, <1>9
<1>11. Bytes(c) \in Nat /\ Bytes(r) \in Nat /\ Bytes(s) \in Nat
       /\ SendSize(r) = Bytes(r) - Bytes(s)
  BY <1>9, <1>10, BytesType DEF SendSize
<1>12. size \in Int /\ n \in Int
  BY SMTT(30), <1>1, <1>4, <1>5, <1>11
<1>13. /\ qq \in Seq(Sends) /\ Len(qq) = Len(q) + 1 /\ qq[Len(q) + 1] = r
       /\ \A i \in 1..Len(q) : qq[i] = q[i]
  BY <1>1, <1>6
<1>14. qq # <<>>
  BY <1>2, <1>13
<1>15. /\ t \in UdpHandles /\ t.flags = u.flags /\ t.pevents = u.pevents /\ t.active = 1
       /\ t.send_queue_size = size /\ t.send_queue_count = n
       /\ t.write_queue = qq /\ t.write_completed_queue = done
  BY <1>1, <1>7, <1>12, <1>13 DEF UdpHandles, done
<1>16. Queued(t, c, s + 1)
  <2>1. s + 1 = c + Len(done) + Len(qq)
    BY <1>2, <1>3, <1>13
  <2>2. \A i \in 1..Len(qq) : qq[i] = c + Len(done) + i
    <3>1. \A i \in 1..Len(qq) : i = Len(q) + 1 \/ i \in 1..Len(q)
      BY <1>2, <1>13
    <3>2. r = c + Len(done) + (Len(q) + 1)
      BY <1>2, <1>3
    <3> QED BY <1>3, <1>13, <3>1, <3>2
  <2> QED BY <1>3, <1>15, <2>1, <2>2 DEF Queued
<1>17. \E x : /\ x \in UdpHandles /\ Queued(x, c, s + 1)
              /\ x.flags = u.flags /\ x.pevents = u.pevents /\ x.active = 1
              /\ x.send_queue_size = size /\ x.send_queue_count = n
              /\ x.write_queue = <<>> => x.fed = 1
              /\ ~SendNow => x.write_completed_queue = done
              /\ u' = IF x.write_queue = <<>> THEN x
                      ELSE [x EXCEPT !.pevents = @ \cup {"out"}]
  <2>1. CASE SendNow
    <3>1. PICK x \in uv__udp_sendmsg(t) :
            u' = IF x.write_queue = <<>> THEN x ELSE [x EXCEPT !.pevents = @ \cup {"out"}]
      BY <1>8, <2>1
    <3>2. Delivers(t, x)
      BY <1>15, <3>1, SendmsgDelivers
    <3>3. Queued(x, c, s + 1)
      BY <1>2, <1>16, <3>2 DEF Delivers
    <3> QED BY <1>14, <1>15, <2>1, <3>1, <3>2, <3>3 DEF Delivers
  <2>2. CASE ~SendNow
    BY <1>8, <1>14, <1>15, <1>16, <2>2
  <2> QED BY <2>1, <2>2
<1>18. PICK x : /\ x \in UdpHandles /\ Queued(x, c, s + 1)
                /\ x.flags = u.flags /\ x.pevents = u.pevents /\ x.active = 1
                /\ x.send_queue_size = size /\ x.send_queue_count = n
                /\ x.write_queue = <<>> => x.fed = 1
                /\ ~SendNow => x.write_completed_queue = done
                /\ u' = IF x.write_queue = <<>> THEN x
                        ELSE [x EXCEPT !.pevents = @ \cup {"out"}]
  BY <1>17
<1>19. /\ u' \in UdpHandles /\ u'.flags = u.flags /\ u'.active = 1
       /\ u'.send_queue_size = size /\ u'.send_queue_count = n
       /\ u'.write_queue = x.write_queue /\ u'.write_completed_queue = x.write_completed_queue
       /\ u'.fed = x.fed
       /\ x.write_queue # <<>> => "out" \in u'.pevents
  <2>1. CASE x.write_queue = <<>>
    BY <1>18, <2>1
  <2>2. CASE x.write_queue # <<>>
    BY <1>18, <2>2 DEF UdpHandles, Events
  <2> QED BY <2>1, <2>2
<1>20. udp_sent' \in Seq(Sends) /\ Len(udp_sent') = s + 1
       /\ \A i \in 1..(s + 1) : udp_sent'[i] = i
  BY <1>1, <1>2, <1>3 DEF s
<1>21. UdpTypes'
  BY <1>1, <1>19, <1>20 DEF UdpTypes, UdpPlaces
<1>22. InOrder'
  BY <1>18, <1>19, <1>1, <1>3, <1>20 DEF Queued, InOrder, c
<1>23. UdpCounts'
  BY <1>2, <1>4, <1>5, <1>11, <1>1, <1>19, <1>20 DEF UdpInv, UdpCounts, s, c
<1>24. Pass'
  BY <1>1, <1>18, <1>19 DEF UdpInv, Pass, c, done, InCallbacks, SendNow, UdpIs
<1>25. Watching(u') /\ Reported(u')
  BY <1>18, <1>19 DEF Watching, Reported
<1> QED BY <1>21, <1>22, <1>23, <1>24, <1>25 DEF UdpInv

\* The inductive invariant of a UDP socket: the requests keep their order in
\* the queues, what is left has an event or a place among the pending watchers,
\* and a pass over callbacks is not added to.
THEOREM UdpInvHolds == UdpSpec => []UdpInv
<1>1. UdpInit => UdpInv
  BY UdpInitInv
<1>2. UdpInv /\ [UdpNext]_udp_vars => UdpInv'
  <2> SUFFICES ASSUME UdpInv, [UdpNext]_udp_vars PROVE UdpInv'
    OBVIOUS
  <2>1. CASE UNCHANGED udp_vars
    BY <2>1 DEF udp_vars, udp_local, udp_history, UdpInv, UdpTypes, InOrder, Queued, UdpCounts,
                Pass, InCallbacks, Watching, Reported, NotAhead
  <2> QED BY <2>1, OperationsKeep, LoopKeeps, RunEndKeeps, RunNextKeeps, SendPartKeeps,
             UdpFinishCloseKeeps, UdpSendKeeps DEF UdpNext
<1> QED BY <1>1, <1>2, PTL DEF UdpSpec

\* Through errors, partial batches, cancellation and sends from callbacks the
\* two counters of a UDP socket are what is not called back yet, callbacks come
\* in the order of uv_udp_send(), a pass of uv__udp_run_completed() is finite,
\* and no request is left without an event to go on with.
THEOREM UdpSafe == UdpSpec => []UdpSound
<1>1. UdpInv => UdpSound
  <2> SUFFICES ASSUME UdpInv PROVE UdpSound
    OBVIOUS
  <2>1. /\ u.write_completed_queue \in Seq(Sends) /\ u.write_queue \in Seq(Sends)
        /\ udp_called \in Seq(Sends) /\ udp_sent \in Seq(Sends)
    BY DEF UdpInv, UdpTypes, UdpHandles
  <2>2. /\ Len(u.write_completed_queue) \in Nat /\ Len(u.write_queue) \in Nat
        /\ Len(udp_called) \in Nat /\ Len(udp_sent) \in Nat
    BY <2>1
  <2>3. Len(udp_sent) = Len(udp_called) + Len(u.write_completed_queue) + Len(u.write_queue)
    BY DEF UdpInv, InOrder, Queued
  <2>4. u.send_queue_count = Len(u.write_completed_queue \o u.write_queue)
    <3>1. Len(u.write_completed_queue \o u.write_queue)
          = Len(u.write_completed_queue) + Len(u.write_queue)
      BY <2>1
    <3>2. u.send_queue_count = Len(udp_sent) - Len(udp_called)
      BY DEF UdpInv, UdpCounts
    <3>3. PICK a, b, c, d : /\ a = Len(udp_sent) /\ b = Len(udp_called)
                           /\ c = Len(u.write_completed_queue) /\ d = Len(u.write_queue)
      OBVIOUS
    <3>4. a \in Nat /\ b \in Nat /\ c \in Nat /\ d \in Nat /\ a = b + c + d
      BY <2>2, <2>3, <3>3
    <3>5. a - b = c + d
      BY <3>4
    <3> QED BY <3>1, <3>2, <3>3, <3>5
  <2>5. udp_called = SubSeq(udp_sent, 1, Len(udp_called))
    <3>1. PICK m : m = SubSeq(udp_sent, 1, Len(udp_called))
      OBVIOUS
    <3>2. Len(udp_called) \in 0..Len(udp_sent)
      <4>1. PICK a, b, c, d : /\ a = Len(udp_sent) /\ b = Len(udp_called)
                             /\ c = Len(u.write_completed_queue) /\ d = Len(u.write_queue)
        OBVIOUS
      <4>2. a \in Nat /\ b \in Nat /\ c \in Nat /\ d \in Nat /\ a = b + c + d
        BY <2>2, <2>3, <4>1
      <4>3. b \in 0..a
        BY <4>2
      <4> QED BY <4>1, <4>3
    <3>3. m \in Seq(Sends) /\ Len(m) = Len(udp_called)
          /\ \A i \in 1..Len(udp_called) : m[i] = udp_sent[i]
      BY <2>1, <3>1, <3>2
    <3>4. \A i \in 1..Len(udp_called) : i \in 1..Len(udp_sent)
      BY <3>2
    <3>5. \A i \in 1..Len(udp_called) : m[i] = udp_called[i]
      BY <3>3, <3>4 DEF UdpInv, InOrder
    <3>6. m = udp_called
      BY <2>1, <3>3, <3>5
    <3> QED BY <3>1, <3>6
  <2>6. /\ u.send_queue_size = Bytes(Len(udp_sent)) - Bytes(Len(udp_called))
        /\ Len(udp_called) <= udp_pass
    BY DEF UdpInv, UdpCounts, Pass
  <2>7. udp_pc = "idle" /\ "CLOSING" \notin u.flags =>
          /\ u.write_queue # <<>> => "out" \in u.pevents /\ u.active = 1
          /\ u.write_completed_queue # <<>> => u.fed = 1 \/ "out" \in u.pevents
    BY DEF UdpInv, Watching, Reported, NotAhead
  <2> QED BY <2>4, <2>5, <2>6, <2>7 DEF UdpSound, UdpIs
<1> QED BY <1>1, UdpInvHolds, PTL

-----------------------------------------------------------------------------
(* File system requests.  What is not freed is what the fields of the      *)
(* request say it owns and the directory the user holds (Kept), with one   *)
(* moment for which opening or closing the directory is ahead of the user  *)
(* (DirAlive).  The fields follow the kind of the request and how far it   *)
(* is (Fields), and its result is that of the last call (Outcome).         *)

FsStages == {"clean", "queued", "work", "cancelled", "worked", "done", "refused"}
FsRequests ==
  [kind : FsKinds, cb : BOOLEAN, path : {"null", "user", "heap"}, bufs : {"null", "sml", "heap"},
   ptr : {"null", "dir", "heap", "statbuf", "dents"}, nbufs : Nat, result : Int]

FsReqTypes ==
  /\ fsr \in FsRequests /\ fs_stage \in FsStages /\ has_dir \in BOOLEAN /\ fs_reg \in {0, 1}
  /\ fs_taken \in Nat /\ fs_sys \in {"none", "eintr", "ok", "fail"}

\* What a request owns, by the field that says so
PathOwned(q) == {b \in {PathBlock} : q.path = "heap"}
BufsOwned(q) == {b \in {BufsBlock} : q.bufs = "heap"}
PtrOwned(q) == {b \in {PtrBlock} : q.ptr = "heap"}
NamesOwned(q) ==
  IF q.kind = "readdir" /\ q.ptr # "null" THEN {NameBlock(i) : i \in 1..q.result} ELSE {}
FirstDent(q) == IF q.nbufs = 0 THEN 1 ELSE q.nbufs
DentsOwned(q) ==
  IF q.ptr = "dents" THEN {DentsBlock} \cup {DentBlock(i) : i \in FirstDent(q)..q.result} ELSE {}

DirAlive(q, stage, held) ==
  IF stage = "worked" /\ q.kind = "opendir" THEN q.result = 0
  ELSE IF stage = "worked" /\ q.kind = "closedir" THEN q.result # 0
  ELSE held
DirOwned(q, stage, held) == IF DirAlive(q, stage, held) THEN {DirBlock, DirStream} ELSE {}

Accounted ==
  IF fs_stage # "clean"
  THEN fs_blocks = PathOwned(fsr) \cup BufsOwned(fsr) \cup PtrOwned(fsr) \cup NamesOwned(fsr)
                   \cup DentsOwned(fsr) \cup DirOwned(fsr, fs_stage, has_dir)
  ELSE /\ fsr.path = "null" /\ fsr.bufs = "null" /\ fsr.ptr = "null"
       /\ \/ fs_blocks = DirBlocks
          \/ /\ fsr.kind = "scandir" /\ fs_taken = fsr.result /\ fs_taken > 0
             /\ fs_blocks = DirBlocks \cup {DentBlock(fs_taken)}
          \/ /\ fsr.kind = "closedir" /\ fsr.result = UV_ECANCELED /\ ~has_dir
             /\ fs_blocks = {DirStream}

\* Before its call, a request has what FsSubmit() gave it.
Asked ==
  /\ fsr.result = 0 /\ (fsr.kind = "scandir" => fsr.nbufs = 0) /\ fs_taken = 0
  /\ fsr.ptr = IF fsr.kind \in {"readdir", "closedir"} THEN "dir" ELSE "null"
  /\ fsr.bufs # "null" <=> fsr.kind \in {"read", "write"}
  /\ fsr.kind \in {"readdir", "closedir"} => has_dir
  /\ fsr.kind = "opendir" => ~has_dir

Listing ==
  fsr.ptr = "dents" =>
    fsr.kind = "scandir" /\ fsr.result > 0 /\ fsr.nbufs <= fsr.result /\ fs_taken = fsr.nbufs

Fields ==
  /\ fs_stage \in {"queued", "work", "cancelled", "worked", "done"} => fsr.path = PathOf(fsr.kind, fsr.cb)
  /\ fs_stage = "refused" => fsr.path = "null" /\ fsr.bufs = "null" /\ fsr.ptr = "null"
  /\ fs_stage \in {"queued", "work", "cancelled"} => Asked
  /\ fs_stage = "worked" =>
       /\ fsr.kind = "opendir" => ~has_dir
       /\ fsr.kind = "closedir" => has_dir /\ fsr.result = 0 /\ fsr.ptr = "null"
  /\ fs_stage \in {"worked", "done"} =>
       /\ fsr.ptr = "heap" => fsr.kind = "ptr"
       /\ fsr.kind = "scandir" => fsr.ptr \in {"null", "dents"}
       /\ Listing
  /\ fs_stage = "done" /\ fsr.kind = "closedir" /\ fsr.ptr # "null" =>
       fsr.ptr = "dir" /\ fsr.result = UV_ECANCELED /\ has_dir

Outcome ==
  /\ fs_stage \in {"queued", "cancelled"} => fs_sys = "none"
  /\ fs_stage = "work" => fs_sys \in {"none", "eintr"}
  /\ fs_stage \in {"worked", "done"} =>
       /\ fsr.result = UV_ECANCELED <=> fs_sys = "none"
       /\ fsr.result >= 0 <=> fs_sys = "ok"
       /\ fsr.result = EINTR <=> fs_sys = "eintr"
  /\ fs_stage = "worked" => fs_sys # "none"
  /\ fs_reg = 1 <=> fsr.cb /\ fs_stage \in {"queued", "work", "worked", "cancelled"}

FsReqInv == FsReqTypes /\ Accounted /\ Fields /\ Outcome /\ ~fs_bad

\* Blocks of different kinds are different blocks.
LEMMA BlockKinds ==
  /\ PathBlock[1] = "path" /\ BufsBlock[1] = "bufs" /\ PtrBlock[1] = "ptr"
  /\ DentsBlock[1] = "dents" /\ DirBlock[1] = "uv_dir_t" /\ DirStream[1] = "DIR"
  /\ \A i : DentBlock(i)[1] = "dent" /\ NameBlock(i)[1] = "name" /\ DentBlock(i)[2] = i
BY DEF PathBlock, BufsBlock, PtrBlock, DentsBlock, DirBlock, DirStream, DentBlock, NameBlock

\* What the fields of one request say it owns does not overlap.
LEMMA OwnedApart ==
  ASSUME NEW q, NEW stage, NEW held
  PROVE  LET ps == PathOwned(q)
             bs == BufsOwned(q)
             rs == PtrOwned(q)
             ns == NamesOwned(q)
             es == DentsOwned(q)
             ds == DirOwned(q, stage, held)
         IN /\ ps \cap (bs \cup rs \cup ns \cup es \cup ds) = {}
            /\ bs \cap (rs \cup ns \cup es \cup ds) = {}
            /\ rs \cap (ns \cup es \cup ds) = {}
            /\ ns \cap (es \cup ds) = {} /\ es \cap ds = {}
BY BlockKinds DEF PathOwned, BufsOwned, PtrOwned, NamesOwned, DentsOwned, DirOwned

\* INIT() gives a request without anything.
LEMMA FreshOwnsNothing ==
  ASSUME NEW k \in FsKinds, NEW cb \in BOOLEAN, NEW q, q = FsFresh(k, cb)
  PROVE  /\ q \in FsRequests /\ q.kind = k /\ q.cb = cb /\ q.result = 0 /\ q.nbufs = 0
         /\ q.path = "null" /\ q.bufs = "null" /\ q.ptr = "null"
BY DEF FsRequests, FsFresh

\* A request is made, and refused.
LEMMA SubmitKeeps ==
  ASSUME FsReqInv, NEW k \in FsKinds, NEW cb \in BOOLEAN, NEW big \in BOOLEAN, FsSubmit(k, cb, big)
  PROVE  FsReqInv'
<1>1. FsReqTypes /\ Accounted /\ Fields /\ Outcome /\ ~fs_bad
  BY DEF FsReqInv
<1>2. PICK path \in {"null", "user", "heap"}, bufs \in {"null", "sml", "heap"} :
        /\ path = PathOf(k, cb) /\ bufs = BufsOf(k, big)
        /\ fsr' = [kind |-> k, cb |-> cb, path |-> path, bufs |-> bufs,
                   ptr |-> IF k \in {"readdir", "closedir"} THEN "dir" ELSE "null",
                   nbufs |-> IF bufs = "null" THEN 0 ELSE IF big THEN 5 ELSE 1, result |-> 0]
        /\ fs_blocks' = DirBlocks \cup {b \in {PathBlock} : path = "heap"}
                        \cup {b \in {BufsBlock} : bufs = "heap"}
  <2>1. PathOf(k, cb) \in {"null", "user", "heap"} /\ BufsOf(k, big) \in {"null", "sml", "heap"}
    BY DEF PathOf, BufsOf
  <2>2. fs_blocks' = DirBlocks \cup {b \in {PathBlock} : PathOf(k, cb) = "heap"}
                     \cup {b \in {BufsBlock} : BufsOf(k, big) = "heap"}
    BY DEF FsSubmit, Replace
  <2>3. fsr' = [kind |-> k, cb |-> cb, path |-> PathOf(k, cb), bufs |-> BufsOf(k, big),
                ptr |-> IF k \in {"readdir", "closedir"} THEN "dir" ELSE "null",
                nbufs |-> IF BufsOf(k, big) = "null" THEN 0 ELSE IF big THEN 5 ELSE 1, result |-> 0]
    BY DEF FsSubmit, FsFresh
  <2> QED BY <2>1, <2>2, <2>3
<1>3. /\ fs_stage' = (IF cb THEN "queued" ELSE "work") /\ fs_reg' = (IF cb THEN 1 ELSE 0)
      /\ fs_taken' = 0 /\ fs_sys' = "none" /\ has_dir' = has_dir /\ fs_bad' = FALSE
      /\ (k \in {"readdir", "closedir"} => has_dir) /\ (k = "opendir" => ~has_dir)
  BY <1>1 DEF FsSubmit, Replace
<1>4. /\ fsr'.kind = k /\ fsr'.cb = cb /\ fsr'.path = path /\ fsr'.bufs = bufs /\ fsr'.result = 0
      /\ fsr'.ptr = (IF k \in {"readdir", "closedir"} THEN "dir" ELSE "null")
      /\ fsr'.nbufs = (IF bufs = "null" THEN 0 ELSE IF big THEN 5 ELSE 1)
      /\ fsr' \in FsRequests
  BY <1>2 DEF FsRequests
<1>5. FsReqTypes'
  BY <1>1, <1>3, <1>4 DEF FsReqTypes, FsStages
<1>6. Accounted'
  BY <1>4, <1>3, <1>2 DEF PathOwned, BufsOwned, PtrOwned, DentsOwned, NamesOwned, DirOwned,
     DirAlive, DirBlocks, Accounted
<1>7. Fields'
  BY <1>2, <1>3, <1>4 DEF BufsOf, Asked, Fields
<1>8. Outcome'
  BY <1>3, <1>4 DEF Outcome
<1> QED BY <1>3, <1>5, <1>6, <1>7, <1>8 DEF FsReqInv

LEMMA RefusedKeeps ==
  ASSUME FsReqInv, NEW k \in FsKinds, NEW cb \in BOOLEAN, FsRefused(k, cb)
  PROVE  FsReqInv'
<1>1. FsReqTypes /\ Accounted /\ Fields /\ Outcome /\ ~fs_bad
  BY DEF FsReqInv
<1>2. /\ fsr' = FsFresh(k, cb) /\ fs_stage' = "refused" /\ fs_taken' = 0 /\ fs_sys' = "none"
      /\ fs_blocks' = fs_blocks /\ fs_blocks = DirBlocks /\ has_dir' = has_dir
      /\ fs_reg' = fs_reg /\ fs_bad' = fs_bad /\ fs_stage = "clean"
  BY DEF FsRefused
<1>3. /\ fsr'.path = "null" /\ fsr'.bufs = "null" /\ fsr'.ptr = "null" /\ fsr' \in FsRequests
  BY <1>2, FreshOwnsNothing
<1>4. FsReqTypes'
  BY <1>1, <1>2, <1>3 DEF FsReqTypes, FsStages
<1>5. Accounted'
  BY <1>3, <1>2 DEF PathOwned, BufsOwned, PtrOwned, DentsOwned, NamesOwned, DirOwned, DirAlive,
     DirBlocks, Accounted
<1>6. Fields'
  BY <1>2, <1>3 DEF Fields
<1>7. Outcome'
  BY <1>1, <1>2 DEF Outcome
<1> QED BY <1>1, <1>2, <1>4, <1>5, <1>6, <1>7 DEF FsReqInv

\* Its thread takes it, or it is cancelled.
LEMMA TakeKeeps ==
  ASSUME FsReqInv, TakeWork \/ uv_cancel
  PROVE  FsReqInv'
<1>1. FsReqTypes /\ Accounted /\ Fields /\ Outcome /\ ~fs_bad
  BY DEF FsReqInv
<1>2. /\ fs_stage = "queued" /\ fs_stage' \in {"work", "cancelled"} /\ fsr' = fsr
      /\ fs_blocks' = fs_blocks /\ has_dir' = has_dir /\ fs_reg' = fs_reg
      /\ fs_taken' = fs_taken /\ fs_sys' = fs_sys /\ fs_bad' = fs_bad
  BY DEF TakeWork, uv_cancel
<1>3. FsReqTypes' /\ Outcome' /\ Fields'
  BY <1>1, <1>2 DEF FsReqTypes, FsStages, Outcome, Fields, Asked
<1>4. Accounted'
  BY <1>2, <1>1 DEF DirOwned, DirAlive, Accounted
<1> QED BY <1>1, <1>2, <1>3, <1>4 DEF FsReqInv

\* The call.  What a step needs to keep of an invariant of a request at work:
\* the fields of its result q, what it owns now, and how the call ended.
LEMMA WorkedKeeps ==
  ASSUME FsReqInv, fs_stage = "work", fs_stage' = "worked",
         NEW q \in FsRequests, fsr' = q,
         q.kind = fsr.kind, q.cb = fsr.cb, q.path = fsr.path,
         fs_blocks' = PathOwned(q) \cup BufsOwned(q) \cup PtrOwned(q) \cup NamesOwned(q)
                      \cup DentsOwned(q) \cup DirOwned(q, "worked", has_dir),
         q.kind = "closedir" => q.result = 0 /\ q.ptr = "null",
         q.ptr = "heap" => q.kind = "ptr",
         q.kind = "scandir" => q.ptr \in {"null", "dents"},
         q.ptr = "dents" => q.kind = "scandir" /\ q.result > 0 /\ q.nbufs = 0,
         fs_sys' \in {"ok", "fail", "eintr"}, q.result # UV_ECANCELED,
         q.result >= 0 <=> fs_sys' = "ok", q.result = EINTR <=> fs_sys' = "eintr",
         has_dir' = has_dir, fs_reg' = fs_reg, fs_taken' = fs_taken, ~fs_bad'
  PROVE  FsReqInv'
<1>1. FsReqTypes /\ Accounted /\ Fields /\ Outcome /\ Asked
  BY DEF FsReqInv, Fields
<1>2. FsReqTypes'
  BY <1>1 DEF FsReqTypes, FsStages
<1>3. Accounted'
  BY DEF Accounted
<1>4. Fields'
  BY <1>1 DEF Fields, Listing, Asked, FsReqTypes, FsRequests
<1>5. Outcome'
  BY <1>1 DEF Outcome
<1> QED BY <1>2, <1>3, <1>4, <1>5 DEF FsReqInv

\* What there is of a request when its call is made
LEMMA AtWork ==
  ASSUME FsReqInv, fs_stage = "work"
  PROVE  /\ fsr \in FsRequests /\ Asked /\ ~fs_bad /\ has_dir \in BOOLEAN
         /\ fs_sys \in {"none", "eintr"}
         /\ fs_blocks = PathOwned(fsr) \cup BufsOwned(fsr) \cup DirBlocks
         /\ BufsDone = BufsOwned(fsr)
         /\ PathOwned(fsr) \cap (BufsOwned(fsr) \cup {DirBlock, DirStream}) = {}
         /\ BufsOwned(fsr) \cap {DirBlock, DirStream} = {}
         /\ fsr.kind \notin {"read", "write"} => BufsOwned(fsr) = {}
<1>1. FsReqTypes /\ Accounted /\ Asked /\ ~fs_bad
  BY DEF FsReqInv, Fields
<1>2. PtrOwned(fsr) = {} /\ DentsOwned(fsr) = {}
  BY <1>1 DEF Asked, PtrOwned, DentsOwned
<1>3. NamesOwned(fsr) = {}
  BY <1>1 DEF Asked, NamesOwned
<1>4. DirOwned(fsr, fs_stage, has_dir) = DirBlocks
  BY DEF DirOwned, DirAlive, DirBlocks
<1>5. fs_blocks = PathOwned(fsr) \cup BufsOwned(fsr) \cup DirBlocks
  BY <1>1, <1>2, <1>3, <1>4 DEF Accounted
<1>6. PathOwned(fsr) \cap (BufsOwned(fsr) \cup {DirBlock, DirStream}) = {}
  BY OwnedApart DEF DirOwned, DirAlive
<1>7. BufsOwned(fsr) \cap {DirBlock, DirStream} = {}
  BY OwnedApart DEF DirOwned, DirAlive
<1>8. fsr.kind \notin {"read", "write"} => BufsOwned(fsr) = {}
  BY <1>1 DEF Asked, BufsOwned
<1>9. BufsDone = BufsOwned(fsr)
  BY DEF BufsDone, BufsOwned
<1>10. fsr \in FsRequests /\ has_dir \in BOOLEAN /\ fs_sys \in {"none", "eintr"}
  BY <1>1 DEF FsReqTypes, FsReqInv, Outcome
<1> QED BY <1>1, <1>5, <1>6, <1>7, <1>8, <1>9, <1>10

\* The rest of what FsCall() says
Called(ok) ==
  /\ fs_stage = "work" /\ fs_sys' = (IF ok THEN "ok" ELSE "fail") /\ ok \in BOOLEAN
  /\ has_dir' = has_dir /\ fs_reg' = fs_reg /\ fs_calls' = fs_calls /\ fs_taken' = fs_taken

LEMMA PlainKeeps ==
  ASSUME FsReqInv, NEW ok, Called(ok), CallPlain(ok)
  PROVE  FsReqInv'
<1>1. /\ fsr \in FsRequests /\ Asked /\ ~fs_bad /\ fs_stage = "work"
      /\ fs_blocks = PathOwned(fsr) \cup BufsOwned(fsr) \cup DirBlocks
  BY AtWork DEF Called
<1>2. PICK r \in {0, EFAIL} : r = IF ok THEN 0 ELSE EFAIL
  OBVIOUS
<1>3. /\ fsr.kind \in {"file", "close", "path", "path2", "mktemp"} /\ fs_stage' = "worked"
      /\ fsr' = [fsr EXCEPT !.result = r]
      /\ fs_blocks' = fs_blocks /\ fs_bad' = fs_bad
  BY <1>2 DEF CallPlain, Worked
<1>4. r \in Int /\ fsr.ptr = "null"
  BY <1>1, <1>2, <1>3 DEF Asked, EFAIL
<1>5. /\ fsr' \in FsRequests /\ fsr'.kind = fsr.kind /\ fsr'.cb = fsr.cb /\ fsr'.path = fsr.path
      /\ fsr'.result = r /\ fsr'.ptr = "null" /\ fsr'.bufs = fsr.bufs
  BY <1>1, <1>3, <1>4 DEF FsRequests
<1>6. fs_blocks' = PathOwned(fsr') \cup BufsOwned(fsr') \cup PtrOwned(fsr') \cup NamesOwned(fsr')
                   \cup DentsOwned(fsr') \cup DirOwned(fsr', "worked", has_dir)
  BY <1>5, <1>3, <1>1 DEF PathOwned, BufsOwned, PtrOwned, NamesOwned, DentsOwned, DirOwned,
     DirAlive, DirBlocks
<1>7. r # UV_ECANCELED /\ r # EINTR /\ (r >= 0 <=> ok)
  BY <1>2 DEF UV_ECANCELED, EFAIL, EINTR
<1> QED BY <1>1, <1>3, <1>5, <1>6, <1>7, WorkedKeeps DEF Called

LEMMA ReadWriteKeeps ==
  ASSUME FsReqInv, NEW ok, Called(ok), CallReadWrite(ok)
  PROVE  FsReqInv'
<1>1. /\ fsr \in FsRequests /\ Asked /\ ~fs_bad /\ fs_stage = "work"
      /\ fs_blocks = PathOwned(fsr) \cup BufsOwned(fsr) \cup DirBlocks
      /\ BufsDone = BufsOwned(fsr)
      /\ PathOwned(fsr) \cap BufsOwned(fsr) = {} /\ BufsOwned(fsr) \cap {DirBlock, DirStream} = {}
  BY AtWork DEF Called
<1>2. PICK r \in {1, EFAIL} : r = IF ok THEN 1 ELSE EFAIL
  OBVIOUS
<1>3. /\ fsr.kind \in {"read", "write"} /\ fs_stage' = "worked"
      /\ fsr' = [[fsr EXCEPT !.result = r] EXCEPT !.bufs = "null", !.nbufs = 0]
      /\ fs_blocks' = fs_blocks \ BufsOwned(fsr)
  BY <1>1, <1>2 DEF CallReadWrite, Worked, NoBufs
<1>4. r \in Int /\ fsr.ptr = "null" /\ fsr.bufs # "null" /\ ~fs_bad'
  <2>1. r \in Int /\ fsr.ptr = "null" /\ fsr.bufs # "null"
    BY <1>1, <1>2, <1>3 DEF Asked, EFAIL
  <2>2. BufsDone \subseteq fs_blocks
    BY <1>1
  <2>3. fs_bad' = (fs_bad \/ fsr.bufs = "null" \/ ~(BufsDone \subseteq fs_blocks))
    BY DEF CallReadWrite
  <2> QED BY <1>1, <2>1, <2>2, <2>3
<1>5. /\ fsr' \in FsRequests /\ fsr'.kind = fsr.kind /\ fsr'.cb = fsr.cb /\ fsr'.path = fsr.path
      /\ fsr'.result = r /\ fsr'.ptr = "null" /\ fsr'.bufs = "null"
  BY <1>1, <1>3, <1>4 DEF FsRequests
<1>6. fs_blocks' = PathOwned(fsr') \cup BufsOwned(fsr') \cup PtrOwned(fsr') \cup NamesOwned(fsr')
                   \cup DentsOwned(fsr') \cup DirOwned(fsr', "worked", has_dir)
  BY <1>5, <1>3, <1>1 DEF PathOwned, BufsOwned, PtrOwned, NamesOwned, DentsOwned, DirOwned,
     DirAlive, DirBlocks
<1>7. r # UV_ECANCELED /\ r # EINTR /\ (r >= 0 <=> ok)
  BY <1>2 DEF UV_ECANCELED, EFAIL, EINTR
<1> QED BY <1>1, <1>3, <1>4, <1>5, <1>6, <1>7, WorkedKeeps DEF Called

LEMMA StatKeeps ==
  ASSUME FsReqInv, NEW ok, Called(ok), CallStat(ok) \/ CallPtr(ok)
  PROVE  FsReqInv'
<1>1. /\ fsr \in FsRequests /\ Asked /\ ~fs_bad /\ fs_stage = "work"
      /\ fs_blocks = PathOwned(fsr) \cup BufsOwned(fsr) \cup DirBlocks
  BY AtWork DEF Called
<1>2. PICK r \in {0, EFAIL}, ptr \in {"null", "statbuf", "heap"} :
        /\ r = IF ok THEN 0 ELSE EFAIL
        /\ ptr = IF ok THEN IF fsr.kind = "ptr" THEN "heap" ELSE "statbuf" ELSE "null"
  OBVIOUS
<1>3. fsr.kind \in {"stat", "fstat", "ptr"} /\ fsr.ptr = "null" /\ r \in Int
  BY <1>1, <1>2 DEF CallStat, CallPtr, Asked, EFAIL
<1>4. /\ fs_stage' = "worked" /\ fsr' = [fsr EXCEPT !.result = r, !.ptr = ptr]
      /\ fs_blocks' = fs_blocks \cup {b \in {PtrBlock} : ptr = "heap"} /\ ~fs_bad'
  <2>1. CASE CallStat(ok)
    BY <1>2, <1>3, <2>1, <1>1 DEF CallStat, Worked
  <2>2. CASE CallPtr(ok)
    BY <1>2, <1>3, <2>2, <1>1 DEF CallPtr, Worked, Replace
  <2> QED BY <2>1, <2>2
<1>5. /\ fsr' \in FsRequests /\ fsr'.kind = fsr.kind /\ fsr'.cb = fsr.cb /\ fsr'.path = fsr.path
      /\ fsr'.result = r /\ fsr'.ptr = ptr /\ fsr'.bufs = fsr.bufs
  BY <1>1, <1>3, <1>4 DEF FsRequests
<1>6. fs_blocks' = PathOwned(fsr') \cup BufsOwned(fsr') \cup PtrOwned(fsr') \cup NamesOwned(fsr')
                   \cup DentsOwned(fsr') \cup DirOwned(fsr', "worked", has_dir)
  BY <1>5, <1>2, <1>3, <1>1, <1>4 DEF PathOwned, BufsOwned, PtrOwned, NamesOwned, DentsOwned,
     DirOwned, DirAlive, DirBlocks
<1>7. r # UV_ECANCELED /\ r # EINTR /\ (r >= 0 <=> ok) /\ (ptr = "heap" => fsr.kind = "ptr")
  BY <1>2 DEF UV_ECANCELED, EFAIL, EINTR
<1>8. /\ fsr'.kind = "closedir" => fsr'.result = 0 /\ fsr'.ptr = "null"
      /\ fsr'.kind = "scandir" => fsr'.ptr \in {"null", "dents"}
      /\ fsr'.ptr = "dents" => fsr'.kind = "scandir" /\ fsr'.result > 0 /\ fsr'.nbufs = 0
  BY <1>3, <1>5
<1>9. /\ fsr'.ptr = "heap" => fsr'.kind = "ptr"
      /\ fsr'.result # UV_ECANCELED /\ (fsr'.result >= 0 <=> fs_sys' = "ok")
      /\ (fsr'.result = EINTR <=> fs_sys' = "eintr") /\ fs_sys' \in {"ok", "fail", "eintr"}
  BY <1>5, <1>7 DEF Called
<1> QED BY <1>1, <1>4, <1>5, <1>6, <1>8, <1>9, WorkedKeeps DEF Called

LEMMA ScandirKeeps ==
  ASSUME FsReqInv, NEW ok, Called(ok), CallScandir(ok)
  PROVE  FsReqInv'
<1>1. /\ fsr \in FsRequests /\ Asked /\ ~fs_bad /\ fs_stage = "work"
      /\ fs_blocks = PathOwned(fsr) \cup BufsOwned(fsr) \cup DirBlocks
  BY AtWork DEF Called
<1>2. PICK n \in 0..MaxDents :
        /\ Worked([fsr EXCEPT !.result = IF ok THEN n ELSE EFAIL, !.nbufs = 0,
                              !.ptr = IF ok /\ n > 0 THEN "dents" ELSE "null"])
        /\ Replace({}, IF ok /\ n > 0 THEN {DentsBlock} \cup {DentBlock(i) : i \in 1..n} ELSE {})
  BY DEF CallScandir
<1>3. PICK r \in Int, ptr \in {"null", "dents"} :
        /\ r = IF ok THEN n ELSE EFAIL
        /\ ptr = IF ok /\ n > 0 THEN "dents" ELSE "null"
  BY FsReqAssumption DEF EFAIL
<1>4. /\ fsr.kind = "scandir" /\ fs_stage' = "worked" /\ ~fs_bad'
      /\ fsr' = [fsr EXCEPT !.result = r, !.nbufs = 0, !.ptr = ptr]
  BY <1>1, <1>2, <1>3 DEF CallScandir, Worked, Replace
<1>5. fs_blocks' = fs_blocks \cup IF ok /\ n > 0 THEN {DentsBlock} \cup {DentBlock(i) : i \in 1..n}
                                  ELSE {}
  BY <1>2 DEF Replace
<1>6. /\ fsr' \in FsRequests /\ fsr'.kind = "scandir" /\ fsr'.cb = fsr.cb /\ fsr'.path = fsr.path
      /\ fsr'.result = r /\ fsr'.ptr = ptr /\ fsr'.bufs = fsr.bufs /\ fsr'.nbufs = 0
  BY <1>1, <1>4 DEF FsRequests
<1>7. fs_blocks' = PathOwned(fsr') \cup BufsOwned(fsr') \cup PtrOwned(fsr') \cup NamesOwned(fsr')
                   \cup DentsOwned(fsr') \cup DirOwned(fsr', "worked", has_dir)
  <2>1. /\ PathOwned(fsr') = PathOwned(fsr) /\ BufsOwned(fsr') = BufsOwned(fsr)
        /\ PtrOwned(fsr') = {} /\ NamesOwned(fsr') = {}
    BY <1>6 DEF PathOwned, BufsOwned, PtrOwned, NamesOwned
  <2>2. DentsOwned(fsr') = IF ok /\ n > 0 THEN {DentsBlock} \cup {DentBlock(i) : i \in 1..n} ELSE {}
    <3>1. CASE ok /\ n > 0
      BY <1>3, <1>6, <3>1 DEF FirstDent, DentsOwned
    <3>2. CASE ~(ok /\ n > 0)
      BY <1>3, <1>6, <3>2 DEF DentsOwned
    <3> QED BY <3>1, <3>2
  <2>3. DirOwned(fsr', "worked", has_dir) = DirBlocks
    BY <1>6 DEF DirOwned, DirAlive, DirBlocks
  <2> QED BY <1>1, <1>5, <2>1, <2>2, <2>3
<1>8. /\ fsr'.kind = "closedir" => fsr'.result = 0 /\ fsr'.ptr = "null"
      /\ fsr'.kind = "scandir" => fsr'.ptr \in {"null", "dents"}
      /\ fsr'.ptr = "heap" => fsr'.kind = "ptr"
      /\ fsr'.ptr = "dents" => fsr'.kind = "scandir" /\ fsr'.result > 0 /\ fsr'.nbufs = 0
  BY <1>3, <1>6
<1>9. /\ fsr'.result # UV_ECANCELED /\ (fsr'.result >= 0 <=> fs_sys' = "ok")
      /\ (fsr'.result = EINTR <=> fs_sys' = "eintr") /\ fs_sys' \in {"ok", "fail", "eintr"}
  BY <1>3, <1>6, FsReqAssumption DEF Called, UV_ECANCELED, EFAIL, EINTR
<1> QED BY <1>1, <1>4, <1>6, <1>7, <1>8, <1>9, WorkedKeeps DEF Called

LEMMA OpendirKeeps ==
  ASSUME FsReqInv, NEW ok, Called(ok), CallOpendir(ok)
  PROVE  FsReqInv'
<1>1. /\ fsr \in FsRequests /\ Asked /\ ~fs_bad /\ fs_stage = "work"
      /\ fs_blocks = PathOwned(fsr) \cup BufsOwned(fsr) \cup DirBlocks
  BY AtWork DEF Called
<1>2. PICK r \in {0, EFAIL}, ptr \in {"null", "dir"} :
        r = (IF ok THEN 0 ELSE EFAIL) /\ ptr = (IF ok THEN "dir" ELSE "null")
  OBVIOUS
<1>3. /\ fsr.kind = "opendir" /\ fs_stage' = "worked" /\ ~fs_bad' /\ ~has_dir /\ r \in Int
      /\ fsr' = [fsr EXCEPT !.result = r, !.ptr = ptr]
      /\ fs_blocks' = fs_blocks \cup IF ok THEN {DirBlock, DirStream} ELSE {}
  <2>1. /\ fsr.kind = "opendir" /\ fs_stage' = "worked"
        /\ fsr' = [fsr EXCEPT !.result = r, !.ptr = ptr]
    BY <1>2 DEF CallOpendir, Worked
  <2>2. fs_blocks' = fs_blocks \cup (IF ok THEN {DirBlock, DirStream} ELSE {}) /\ ~fs_bad'
    BY <1>1 DEF CallOpendir, Replace
  <2>3. ~has_dir /\ r \in Int
    BY <1>1, <1>2, <2>1 DEF Asked, EFAIL
  <2> QED BY <2>1, <2>2, <2>3
<1>4. /\ fsr' \in FsRequests /\ fsr'.kind = "opendir" /\ fsr'.cb = fsr.cb /\ fsr'.path = fsr.path
      /\ fsr'.result = r /\ fsr'.ptr = ptr /\ fsr'.bufs = fsr.bufs
  BY <1>1, <1>3 DEF FsRequests
<1>5. fs_blocks' = PathOwned(fsr') \cup BufsOwned(fsr') \cup PtrOwned(fsr') \cup NamesOwned(fsr')
                   \cup DentsOwned(fsr') \cup DirOwned(fsr', "worked", has_dir)
  BY <1>4, <1>2, <1>3, <1>1 DEF PathOwned, BufsOwned, PtrOwned, NamesOwned, DentsOwned, EFAIL,
     DirOwned, DirAlive, DirBlocks
<1>6. /\ fsr'.kind # "closedir" /\ fsr'.kind # "scandir" /\ fsr'.ptr # "heap" /\ fsr'.ptr # "dents"
      /\ fsr'.result # UV_ECANCELED /\ (fsr'.result >= 0 <=> fs_sys' = "ok")
      /\ (fsr'.result = EINTR <=> fs_sys' = "eintr") /\ fs_sys' \in {"ok", "fail", "eintr"}
  BY <1>2, <1>4 DEF Called, UV_ECANCELED, EFAIL, EINTR
<1> QED BY <1>1, <1>3, <1>4, <1>5, <1>6, WorkedKeeps DEF Called

LEMMA ReaddirKeeps ==
  ASSUME FsReqInv, NEW ok, Called(ok), CallReaddir(ok)
  PROVE  FsReqInv'
<1>1. /\ fsr \in FsRequests /\ Asked /\ ~fs_bad /\ fs_stage = "work"
      /\ fs_blocks = PathOwned(fsr) \cup BufsOwned(fsr) \cup DirBlocks
  BY AtWork DEF Called
<1>2. PICK n \in 0..MaxDents :
        /\ Worked([fsr EXCEPT !.result = IF ok THEN n ELSE EFAIL])
        /\ fs_blocks' = IF ok THEN fs_blocks \cup {NameBlock(i) : i \in 1..n} ELSE fs_blocks
        /\ fs_bad' = (fs_bad \/ ~({DirBlock, DirStream} \subseteq fs_blocks))
  BY DEF CallReaddir
<1>3. PICK r \in Int : r = IF ok THEN n ELSE EFAIL
  BY FsReqAssumption DEF EFAIL
<1>4. /\ fsr.kind = "readdir" /\ fsr.ptr = "dir" /\ has_dir
  BY <1>1 DEF CallReaddir, Asked
<1>5. fs_stage' = "worked" /\ fsr' = [fsr EXCEPT !.result = r] /\ ~fs_bad'
  BY <1>1, <1>2, <1>3, <1>4 DEF Worked, DirBlocks
<1>6. /\ fsr' \in FsRequests /\ fsr'.kind = "readdir" /\ fsr'.cb = fsr.cb /\ fsr'.path = fsr.path
      /\ fsr'.result = r /\ fsr'.ptr = "dir" /\ fsr'.bufs = fsr.bufs
  BY <1>1, <1>4, <1>5 DEF FsRequests
<1>7. fs_blocks' = PathOwned(fsr') \cup BufsOwned(fsr') \cup PtrOwned(fsr') \cup NamesOwned(fsr')
                   \cup DentsOwned(fsr') \cup DirOwned(fsr', "worked", has_dir)
  <2>1. /\ PathOwned(fsr') = PathOwned(fsr) /\ BufsOwned(fsr') = BufsOwned(fsr)
        /\ PtrOwned(fsr') = {} /\ DentsOwned(fsr') = {}
    BY <1>6 DEF PathOwned, BufsOwned, PtrOwned, DentsOwned
  <2>2. NamesOwned(fsr') = IF ok THEN {NameBlock(i) : i \in 1..n} ELSE {}
    <3>1. CASE ok
      BY <1>3, <1>6, <3>1 DEF NamesOwned
    <3>2. CASE ~ok
      BY <1>3, <1>6, <3>2 DEF EFAIL, NamesOwned
    <3> QED BY <3>1, <3>2
  <2>3. DirOwned(fsr', "worked", has_dir) = DirBlocks
    BY <1>6 DEF DirOwned, DirAlive, DirBlocks
  <2> QED BY <1>1, <1>2, <2>1, <2>2, <2>3
<1>8. /\ fsr'.kind # "closedir" /\ fsr'.kind # "scandir" /\ fsr'.ptr # "heap" /\ fsr'.ptr # "dents"
      /\ fsr'.result # UV_ECANCELED /\ (fsr'.result >= 0 <=> fs_sys' = "ok")
      /\ (fsr'.result = EINTR <=> fs_sys' = "eintr") /\ fs_sys' \in {"ok", "fail", "eintr"}
  BY <1>3, <1>6, FsReqAssumption DEF Called, UV_ECANCELED, EFAIL, EINTR
<1> QED BY <1>1, <1>4, <1>5, <1>6, <1>7, <1>8, WorkedKeeps DEF Called

LEMMA ClosedirKeeps ==
  ASSUME FsReqInv, NEW ok, Called(ok), CallClosedir(ok)
  PROVE  FsReqInv'
<1>1. /\ fsr \in FsRequests /\ Asked /\ ~fs_bad /\ fs_stage = "work"
      /\ fs_blocks = PathOwned(fsr) \cup BufsOwned(fsr) \cup DirBlocks
      /\ PathOwned(fsr) \cap (BufsOwned(fsr) \cup {DirBlock, DirStream}) = {}
      /\ BufsOwned(fsr) \cap {DirBlock, DirStream} = {}
  BY AtWork DEF Called
<1>2. /\ fsr.kind = "closedir" /\ ok /\ fs_stage' = "worked"
      /\ fsr' = [fsr EXCEPT !.result = 0, !.ptr = "null"]
  BY DEF CallClosedir, Worked
<1>3. has_dir /\ DirBlocks = {DirBlock, DirStream}
  BY <1>1, <1>2 DEF Asked, DirBlocks
<1>4. fs_blocks' = fs_blocks \ {DirBlock, DirStream} /\ ~fs_bad'
  BY <1>1, <1>3 DEF CallClosedir, Replace
<1>5. /\ fsr' \in FsRequests /\ fsr'.kind = "closedir" /\ fsr'.cb = fsr.cb /\ fsr'.path = fsr.path
      /\ fsr'.result = 0 /\ fsr'.ptr = "null" /\ fsr'.bufs = fsr.bufs
  <2>1. 0 \in Int
    OBVIOUS
  <2>2. fsr \in FsRequests /\ fsr.kind = "closedir" /\ fsr' = [fsr EXCEPT !.result = 0, !.ptr = "null"]
    BY <1>1, <1>2
  <2> QED BY <2>1, <2>2 DEF FsRequests
<1>6. fs_blocks' = PathOwned(fsr') \cup BufsOwned(fsr') \cup PtrOwned(fsr') \cup NamesOwned(fsr')
                   \cup DentsOwned(fsr') \cup DirOwned(fsr', "worked", has_dir)
  BY <1>5, <1>1, <1>3, <1>4 DEF PathOwned, BufsOwned, PtrOwned, NamesOwned, DentsOwned, DirOwned,
     DirAlive
<1>7. /\ fsr'.kind # "scandir" /\ fsr'.ptr # "heap" /\ fsr'.ptr # "dents"
      /\ fsr'.result # UV_ECANCELED /\ (fsr'.result >= 0 <=> fs_sys' = "ok")
      /\ (fsr'.result = EINTR <=> fs_sys' = "eintr") /\ fs_sys' \in {"ok", "fail", "eintr"}
  BY <1>2, <1>5 DEF Called, UV_ECANCELED, EFAIL, EINTR
<1> QED BY <1>1, <1>2, <1>4, <1>5, <1>6, <1>7, WorkedKeeps DEF Called

\* A call that a signal interrupts: only a read is not tried again.
LEMMA InterruptedKeeps ==
  ASSUME FsReqInv, CallInterrupted
  PROVE  FsReqInv'
<1>0. fs_stage = "work"
  BY DEF CallInterrupted
<1>1. /\ fsr \in FsRequests /\ Asked /\ ~fs_bad
      /\ fs_blocks = PathOwned(fsr) \cup BufsOwned(fsr) \cup DirBlocks
      /\ BufsDone = BufsOwned(fsr)
      /\ PathOwned(fsr) \cap BufsOwned(fsr) = {} /\ BufsOwned(fsr) \cap {DirBlock, DirStream} = {}
      /\ (fsr.kind \notin {"read", "write"} => BufsOwned(fsr) = {})
  BY <1>0, AtWork
<1>2. /\ fsr.kind \notin {"close", "write", "closedir"} /\ fs_sys' = "eintr"
      /\ fs_blocks' = fs_blocks \ BufsOwned(fsr) /\ has_dir' = has_dir /\ fs_reg' = fs_reg
      /\ fs_taken' = fs_taken
  BY <1>1 DEF CallInterrupted
<1>3. ~fs_bad'
  BY <1>1 DEF CallInterrupted
<1>4. CASE fsr.kind = "read"
  <2>1. /\ fs_stage' = "worked"
        /\ fsr' = [[fsr EXCEPT !.bufs = "null", !.nbufs = 0] EXCEPT !.result = EINTR]
    BY <1>4 DEF CallInterrupted, RetryOnEintr, NoBufs
  <2>2. /\ fsr' \in FsRequests /\ fsr'.kind = "read" /\ fsr'.cb = fsr.cb /\ fsr'.path = fsr.path
        /\ fsr'.result = EINTR /\ fsr'.ptr = "null" /\ fsr'.bufs = "null"
    <3>1. EINTR \in Int /\ fsr.ptr = "null" /\ 0 \in Nat
      BY <1>1, <1>4 DEF Asked, EINTR
    <3> QED BY <1>1, <1>4, <2>1, <3>1 DEF FsRequests
  <2>3. fs_blocks' = PathOwned(fsr') \cup BufsOwned(fsr') \cup PtrOwned(fsr') \cup NamesOwned(fsr')
                     \cup DentsOwned(fsr') \cup DirOwned(fsr', "worked", has_dir)
    BY <2>2, <1>1, <1>2 DEF PathOwned, BufsOwned, PtrOwned, NamesOwned, DentsOwned, DirOwned,
       DirAlive, DirBlocks
  <2>4. /\ fsr'.kind # "closedir" /\ fsr'.kind # "scandir" /\ fsr'.ptr # "heap" /\ fsr'.ptr # "dents"
        /\ fsr'.result # UV_ECANCELED /\ (fsr'.result >= 0 <=> fs_sys' = "ok")
        /\ (fsr'.result = EINTR <=> fs_sys' = "eintr") /\ fs_sys' \in {"ok", "fail", "eintr"}
    BY <1>2, <2>2 DEF UV_ECANCELED, EINTR
  <2> QED BY <1>0, <1>1, <1>2, <1>3, <1>4, <2>1, <2>2, <2>3, <2>4, WorkedKeeps
<1>5. CASE fsr.kind # "read"
  BY <1>2, <1>5, <1>1, <1>0, <1>3 DEF CallInterrupted, RetryOnEintr, FsReqInv, FsReqTypes, FsStages,
     Fields, Asked, Outcome, Accounted
<1> QED BY <1>4, <1>5

\* The callback, or the return of a synchronous request
LEMMA DoneKeeps ==
  ASSUME FsReqInv, uv__fs_done
  PROVE  FsReqInv'
<1>1. FsReqTypes /\ Accounted /\ Fields /\ Outcome /\ ~fs_bad /\ fsr \in FsRequests
  BY DEF FsReqInv, FsReqTypes
<1>2. PICK r \in Int :
        /\ r = IF fs_stage = "cancelled" THEN UV_ECANCELED ELSE fsr.result
        /\ fsr' = [fsr EXCEPT !.result = r] /\ KnowDir(r)
        /\ fs_bad' = (fs_bad \/ (fs_stage = "cancelled" /\ fsr.result # 0))
  BY <1>1 DEF UV_ECANCELED, FsRequests, uv__fs_done
<1>3. /\ fs_stage \in {"worked", "cancelled"} /\ fs_stage' = "done" /\ fs_reg' = 0
      /\ fs_blocks' = fs_blocks /\ fs_taken' = fs_taken /\ fs_sys' = fs_sys
  BY DEF uv__fs_done
<1>4. /\ fsr' \in FsRequests /\ fsr'.kind = fsr.kind /\ fsr'.cb = fsr.cb /\ fsr'.path = fsr.path
      /\ fsr'.result = r /\ fsr'.ptr = fsr.ptr /\ fsr'.bufs = fsr.bufs /\ fsr'.nbufs = fsr.nbufs
  BY <1>1, <1>2 DEF FsRequests
<1>5. fs_stage = "cancelled" => Asked /\ r = UV_ECANCELED
  BY <1>1, <1>2 DEF Fields
<1>6. fs_stage = "worked" => r = fsr.result
  BY <1>2
<1>7. has_dir' = DirAlive(fsr, fs_stage, has_dir) /\ has_dir' \in BOOLEAN
  <2>1. CASE fs_stage = "cancelled"
    BY <1>1, <1>2, <1>5, <2>1 DEF KnowDir, DirAlive, UV_ECANCELED, FsReqTypes
  <2>2. CASE fs_stage = "worked"
    BY <1>1, <1>2, <1>6, <2>2 DEF KnowDir, DirAlive, Fields, FsReqTypes
  <2> QED BY <1>3, <2>1, <2>2
<1>8. Accounted'
  <2>1. /\ PathOwned(fsr') = PathOwned(fsr) /\ BufsOwned(fsr') = BufsOwned(fsr)
        /\ PtrOwned(fsr') = PtrOwned(fsr)
    BY <1>4 DEF PathOwned, BufsOwned, PtrOwned
  <2>2. NamesOwned(fsr') = NamesOwned(fsr) /\ DentsOwned(fsr') = DentsOwned(fsr)
    <3>1. CASE fs_stage = "cancelled"
      BY <1>5, <3>1, <1>4 DEF Asked, UV_ECANCELED, NamesOwned, DentsOwned
    <3>2. CASE fs_stage = "worked"
      BY <1>4, <1>6, <3>2 DEF NamesOwned, DentsOwned, FirstDent
    <3> QED BY <1>3, <3>1, <3>2
  <2>3. DirOwned(fsr', fs_stage', has_dir') = DirOwned(fsr, fs_stage, has_dir)
    BY <1>3, <1>7 DEF DirOwned, DirAlive
  <2> QED BY <1>1, <1>3, <2>1, <2>2, <2>3 DEF Accounted
<1>9. Fields'
  <2>1. fsr'.path = PathOf(fsr'.kind, fsr'.cb)
    BY <1>1, <1>3, <1>4 DEF Fields
  <2>2. /\ fsr'.ptr = "heap" => fsr'.kind = "ptr"
        /\ fsr'.kind = "scandir" => fsr'.ptr \in {"null", "dents"}
    BY <1>1, <1>3, <1>4, <1>5 DEF Fields, Asked
  <2>3. Listing'
    BY <1>4, <1>5, <1>1, <1>3, <1>6 DEF Asked, Listing, Fields
  <2>4. fsr'.kind = "closedir" /\ fsr'.ptr # "null" =>
          fsr'.ptr = "dir" /\ fsr'.result = UV_ECANCELED /\ has_dir'
    BY <1>4, <1>5, <1>7, <1>1, <1>3 DEF Asked, DirAlive, Fields
  <2> QED BY <1>3, <2>1, <2>2, <2>3, <2>4 DEF Fields
<1>10. Outcome'
  BY <1>1, <1>3, <1>4, <1>5, <1>6 DEF Outcome, UV_ECANCELED, EINTR
<1>11. ~fs_bad'
  BY <1>1, <1>2, <1>5 DEF Asked
<1>12. FsReqTypes'
  BY <1>1, <1>3, <1>4, <1>7 DEF FsReqTypes, FsStages
<1> QED BY <1>8, <1>9, <1>10, <1>11, <1>12 DEF FsReqInv

\* The next entry of a listing
LEMMA NextKeeps ==
  ASSUME FsReqInv, uv_fs_scandir_next
  PROVE  FsReqInv'
<1>1. FsReqTypes /\ Accounted /\ Fields /\ Outcome /\ ~fs_bad /\ fsr \in FsRequests
  BY DEF FsReqInv, FsReqTypes
<1>2. /\ fs_stage = "done" /\ fs_stage' = "done" /\ has_dir' = has_dir /\ fs_reg' = fs_reg
      /\ fs_sys' = fs_sys /\ fsr.kind = "scandir" /\ fsr.ptr = "dents"
      /\ fsr.result > 0 /\ fsr.nbufs <= fsr.result /\ fs_taken = fsr.nbufs
      /\ fsr.nbufs \in Nat /\ fsr.result \in Nat
  BY <1>1 DEF uv_fs_scandir_next, Fields, Listing, FsRequests
<1> DEFINE last == fsr.nbufs = fsr.result
           gone == {DentBlock(fsr.nbufs) : i \in {j \in {1} : fsr.nbufs > 0}}
                   \cup {b \in {DentsBlock} : last}
<1>3. /\ fs_blocks' = (fs_blocks \ gone) \cup {} /\ fs_bad' = (fs_bad \/ ~(gone \subseteq fs_blocks))
      /\ fsr' = IF last THEN [fsr EXCEPT !.ptr = "null"] ELSE [fsr EXCEPT !.nbufs = @ + 1]
      /\ fs_taken' = IF last THEN fs_taken ELSE fs_taken + 1
  BY DEF uv_fs_scandir_next, Replace
<1>4. PICK n \in Nat, ptr \in {"null", "dents"} :
        /\ n = (IF last THEN fsr.nbufs ELSE fsr.nbufs + 1) /\ ptr = (IF last THEN "null" ELSE "dents")
        /\ fsr' = [fsr EXCEPT !.ptr = ptr, !.nbufs = n]
  <2>1. CASE last
    BY <1>1, <1>3, <2>1, <1>2 DEF FsRequests
  <2>2. CASE ~last
    <3>1. fsr' = [fsr EXCEPT !.ptr = "dents", !.nbufs = fsr.nbufs + 1]
      BY <1>1, <1>2, <1>3, <2>2 DEF FsRequests
    <3>2. fsr.nbufs + 1 \in Nat
      BY <1>2
    <3> QED BY <2>2, <3>1, <3>2
  <2> QED BY <2>1, <2>2
<1>5. /\ fsr' \in FsRequests /\ fsr'.kind = fsr.kind /\ fsr'.cb = fsr.cb /\ fsr'.path = fsr.path
      /\ fsr'.result = fsr.result /\ fsr'.ptr = ptr /\ fsr'.bufs = fsr.bufs /\ fsr'.nbufs = n
  BY <1>1, <1>4 DEF FsRequests
<1>6. gone \subseteq DentsOwned(fsr) /\ DentsOwned(fsr') = DentsOwned(fsr) \ gone
  <2>1. DentsOwned(fsr) = {DentsBlock} \cup {DentBlock(i) : i \in FirstDent(fsr)..fsr.result}
    BY <1>2 DEF DentsOwned
  <2>2. \A i : DentBlock(i) # DentsBlock /\ \A j : DentBlock(i) = DentBlock(j) => i = j
    BY BlockKinds
  <2>3. CASE last
    BY <1>2, <2>3, <1>4, <1>5, <2>1 DEF FirstDent, DentsOwned
  <2>4. CASE ~last
    <3>1. FirstDent(fsr') = fsr.nbufs + 1 /\ fsr.nbufs < fsr.result
      BY <1>2, <1>4, <1>5, <2>4 DEF FirstDent
    <3>2. DentsOwned(fsr') = {DentsBlock} \cup {DentBlock(i) : i \in (fsr.nbufs + 1)..fsr.result}
      BY <1>4, <1>5, <2>4, <3>1 DEF DentsOwned
    <3>3. CASE fsr.nbufs = 0
      BY <2>4, <3>3, <2>1, <3>2 DEF FirstDent
    <3>4. CASE fsr.nbufs > 0
      <4>1. gone = {DentBlock(fsr.nbufs)} /\ FirstDent(fsr) = fsr.nbufs
        BY <2>4, <3>4 DEF FirstDent
      <4>2. /\ fsr.nbufs \in fsr.nbufs..fsr.result
            /\ (fsr.nbufs + 1)..fsr.result = (fsr.nbufs..fsr.result) \ {fsr.nbufs}
        BY <1>2, <3>1
      <4> HIDE DEF gone
      <4> QED BY <2>1, <2>2, <3>2, <4>1, <4>2
    <3> QED BY <1>2, <3>3, <3>4
  <2> QED BY <2>3, <2>4
<1> HIDE DEF gone
<1>7. Accounted' /\ ~fs_bad'
  <2>1. /\ PathOwned(fsr') = PathOwned(fsr) /\ BufsOwned(fsr') = BufsOwned(fsr)
        /\ PtrOwned(fsr') = PtrOwned(fsr) /\ NamesOwned(fsr') = NamesOwned(fsr)
    BY <1>2, <1>4, <1>5 DEF PathOwned, BufsOwned, PtrOwned, NamesOwned
  <2>2. DirOwned(fsr', fs_stage', has_dir') = DirOwned(fsr, fs_stage, has_dir)
    BY <1>2 DEF DirOwned, DirAlive
  <2>3. /\ fs_blocks = PathOwned(fsr) \cup BufsOwned(fsr) \cup PtrOwned(fsr) \cup NamesOwned(fsr)
                       \cup DentsOwned(fsr) \cup DirOwned(fsr, fs_stage, has_dir)
        /\ gone \cap (PathOwned(fsr) \cup BufsOwned(fsr) \cup PtrOwned(fsr) \cup NamesOwned(fsr)
                      \cup DirOwned(fsr, fs_stage, has_dir)) = {}
    BY <1>1, <1>2, <1>6, OwnedApart DEF Accounted
  <2>4. ~fs_bad'
    BY <1>1, <1>3, <1>6, <2>3
  <2>5. fs_blocks' = PathOwned(fsr') \cup BufsOwned(fsr') \cup PtrOwned(fsr') \cup NamesOwned(fsr')
                     \cup DentsOwned(fsr') \cup DirOwned(fsr', fs_stage', has_dir')
    BY <1>3, <1>6, <2>1, <2>2, <2>3
  <2> QED BY <1>2, <2>4, <2>5 DEF Accounted
<1>8. Fields'
  BY <1>2, <1>3, <1>4, <1>5, <1>1 DEF Listing, Fields
<1>9. FsReqTypes' /\ Outcome'
  BY <1>2, <1>3, <1>1, <1>5 DEF FsReqTypes, FsStages, Outcome
<1> QED BY <1>7, <1>8, <1>9 DEF FsReqInv

\* uv__fs_scandir_cleanup() frees the entries that are left, but for the last of
\* all when it was given out.
LEMMA ScandirCleanup ==
  ASSUME fsr.ptr = "dents", fsr.nbufs \in Nat, fsr.result \in Nat, fsr.nbufs <= fsr.result,
         fsr.result > 0
  PROVE  /\ DentsOwned(fsr) \ uv__fs_scandir_cleanup
              = IF fsr.nbufs = fsr.result THEN {DentBlock(fsr.result)} ELSE {}
         /\ uv__fs_scandir_cleanup \subseteq DentsOwned(fsr)
<1>1. DentsOwned(fsr) = {DentsBlock} \cup {DentBlock(i) : i \in FirstDent(fsr)..fsr.result}
  BY DEF DentsOwned
<1>2. \A i : DentBlock(i) # DentsBlock
  BY BlockKinds
<1>3. CASE fsr.nbufs = fsr.result
  BY <1>3, <1>1, <1>2 DEF FirstDent, uv__fs_scandir_cleanup
<1>4. CASE fsr.nbufs # fsr.result
  BY <1>4, <1>1 DEF FirstDent, uv__fs_scandir_cleanup
<1> QED BY <1>3, <1>4

\* uv_fs_req_cleanup() gives back everything that is left, with the two exceptions
\* of Accounted.
LEMMA CleanupKeeps ==
  ASSUME FsReqInv, uv_fs_req_cleanup
  PROVE  FsReqInv'
<1>1. FsReqTypes /\ Accounted /\ Fields /\ Outcome /\ ~fs_bad /\ fsr \in FsRequests
  BY DEF FsReqInv, FsReqTypes
<1> DEFINE path == {b \in {PathBlock} : fsr.path # "null" /\ (fsr.cb \/ fsr.kind = "mktemp")}
           names == IF fsr.kind = "readdir" /\ fsr.ptr # "null" THEN uv__fs_readdir_cleanup ELSE {}
           dents == IF fsr.kind = "scandir" /\ fsr.ptr # "null" THEN uv__fs_scandir_cleanup ELSE {}
           bufs == {b \in {BufsBlock} : fsr.bufs = "heap"}
           ptr == CASE fsr.ptr = "heap" -> {PtrBlock}
                    [] fsr.ptr = "dir" /\ fsr.kind = "closedir" -> {DirBlock}
                    [] OTHER -> {}
           gone == path \cup names \cup dents \cup bufs \cup ptr
<1>2. /\ fs_stage \in {"done", "refused", "clean"} /\ fs_stage' = "clean"
      /\ fs_blocks' = fs_blocks \ gone /\ fs_bad' = (fs_bad \/ ~(gone \subseteq fs_blocks))
      /\ has_dir' = (has_dir /\ DirBlock \notin ptr)
      /\ fsr' = [fsr EXCEPT !.path = "null", !.bufs = "null", !.ptr = "null",
                            !.nbufs = IF fsr.kind = "scandir" /\ fsr.ptr # "null"
                                      THEN fsr.result ELSE fsr.nbufs]
      /\ fs_reg' = fs_reg /\ fs_taken' = fs_taken /\ fs_sys' = fs_sys
  BY <1>1 DEF uv_fs_req_cleanup, Replace, FsRequests
<1>3. fsr.nbufs \in Nat /\ fsr.result \in Int
  BY <1>1 DEF FsRequests
<1>4. CASE fs_stage \in {"refused", "clean"}
  <2>1. fsr.path = "null" /\ fsr.bufs = "null" /\ fsr.ptr = "null"
    BY <1>1, <1>4 DEF Fields, Accounted
  <2>2. ptr = {} /\ gone = {}
    BY <2>1
  <2>3. fs_blocks' = fs_blocks /\ ~fs_bad' /\ has_dir' = has_dir
    BY <1>1, <1>2, <2>2 DEF FsReqTypes
  <2> HIDE DEF gone, ptr, path, names, dents, bufs
  <2>4. /\ fsr' \in FsRequests /\ fsr'.kind = fsr.kind /\ fsr'.path = "null" /\ fsr'.bufs = "null"
        /\ fsr'.ptr = "null" /\ fsr'.result = fsr.result /\ fsr'.cb = fsr.cb
    BY <1>1, <1>2, <1>3, <2>1 DEF FsRequests
  <2>5. Accounted'
    <3>1. CASE fs_stage = "clean"
      BY <1>1, <1>2, <2>3, <2>4, <3>1 DEF Accounted, DirBlocks
    <3>2. CASE fs_stage = "refused"
      BY <2>1, <3>2, <1>1, <1>2, <2>3, <2>4 DEF PathOwned, BufsOwned, PtrOwned, DentsOwned,
         NamesOwned, DirOwned, DirAlive, DirBlocks, Accounted
    <3> QED BY <1>4, <3>1, <3>2
  <2>6. FsReqTypes' /\ Fields' /\ Outcome'
    BY <1>1, <1>2, <1>4, <2>3, <2>4 DEF FsReqTypes, FsStages, Fields, Outcome
  <2> QED BY <2>3, <2>5, <2>6 DEF FsReqInv
<1>5. CASE fs_stage = "done"
  <2>1. path = PathOwned(fsr) /\ bufs = BufsOwned(fsr)
    BY <1>1, <1>5 DEF Fields, PathOf, Named, PathOwned, BufsOwned
  <2>2. names = NamesOwned(fsr)
    BY DEF NamesOwned, uv__fs_readdir_cleanup
  <2>3. fsr.kind = "scandir" /\ fsr.ptr # "null" <=> fsr.ptr = "dents"
    BY <1>1, <1>5 DEF Fields, Listing
  <2>4. PICK left : /\ left = DentsOwned(fsr) \ dents /\ dents \subseteq DentsOwned(fsr)
                    /\ \/ left = {}
                       \/ /\ fsr.kind = "scandir" /\ fs_taken = fsr.result /\ fs_taken > 0
                          /\ left = {DentBlock(fs_taken)}
    <3>1. CASE fsr.ptr = "dents"
      <4>1. fsr.result > 0 /\ fsr.nbufs <= fsr.result /\ fs_taken = fsr.nbufs
        BY <1>1, <1>5, <3>1 DEF Fields, Listing
      <4>2. fsr.result \in Nat /\ dents = uv__fs_scandir_cleanup
        BY <1>3, <2>3, <3>1, <4>1
      <4> HIDE DEF dents
      <4>3. /\ DentsOwned(fsr) \ dents = IF fsr.nbufs = fsr.result THEN {DentBlock(fsr.result)} ELSE {}
            /\ dents \subseteq DentsOwned(fsr)
        BY <1>3, <3>1, <4>1, <4>2, ScandirCleanup
      <4> QED BY <2>3, <3>1, <4>1, <4>3
    <3>2. CASE fsr.ptr # "dents"
      <4>1. dents = {} /\ DentsOwned(fsr) = {}
        BY <2>3, <3>2 DEF DentsOwned
      <4> HIDE DEF dents
      <4> QED BY <4>1
    <3> QED BY <3>1, <3>2
  <2>5. /\ fsr' \in FsRequests /\ fsr'.kind = fsr.kind /\ fsr'.path = "null" /\ fsr'.bufs = "null"
        /\ fsr'.ptr = "null" /\ fsr'.result = fsr.result /\ fsr'.cb = fsr.cb
    <3>1. fsr.kind = "scandir" /\ fsr.ptr # "null" => fsr.result \in Nat
      BY <1>1, <1>3, <1>5, <2>3 DEF Fields, Listing
    <3> HIDE DEF gone, ptr, path, names, dents, bufs
    <3> QED BY <1>1, <1>2, <1>3, <3>1 DEF FsRequests
  <2>6. fs_blocks = PathOwned(fsr) \cup BufsOwned(fsr) \cup PtrOwned(fsr) \cup NamesOwned(fsr)
                    \cup DentsOwned(fsr) \cup DirOwned(fsr, fs_stage, has_dir)
    BY <1>1, <1>5 DEF Accounted
  <2>7. CASE fsr.ptr = "dir" /\ fsr.kind = "closedir"
    <3>1. ptr = {DirBlock} /\ PtrOwned(fsr) = {}
      BY <2>7 DEF PtrOwned
    <3>2. fsr.result = UV_ECANCELED /\ has_dir /\ left = {}
      BY <1>1, <1>5, <2>4, <2>7 DEF Fields
    <3>3. ~has_dir' /\ DirOwned(fsr, fs_stage, has_dir) = {DirBlock, DirStream}
      BY <1>2, <1>5, <3>1, <3>2 DEF DirOwned, DirAlive
    <3>4. DirBlock # DirStream
      BY BlockKinds
    <3> HIDE DEF ptr, path, names, dents, bufs
    <3>5. fs_blocks' = {DirStream} /\ ~fs_bad'
      BY <1>1, <1>2, <2>1, <2>2, <2>4, <2>6, <3>1, <3>2, <3>3, <3>4, OwnedApart
    <3>6. Accounted' /\ has_dir' \in BOOLEAN
      BY <1>2, <2>5, <2>7, <3>2, <3>3, <3>5 DEF Accounted
    <3>7. FsReqTypes' /\ Fields' /\ Outcome'
      BY <1>1, <1>2, <1>5, <2>5, <3>6 DEF FsReqTypes, FsStages, Fields, Outcome
    <3> QED BY <3>5, <3>6, <3>7 DEF FsReqInv
  <2>8. CASE ~(fsr.ptr = "dir" /\ fsr.kind = "closedir")
    <3>1. ptr = PtrOwned(fsr) /\ DirBlock \notin ptr
      BY <2>8, BlockKinds DEF PtrOwned
    <3>2. has_dir' = has_dir
      BY <1>1, <1>2, <3>1 DEF FsReqTypes
    <3>3. DirOwned(fsr, fs_stage, has_dir) = DirBlocks
      BY <1>5 DEF DirOwned, DirAlive, DirBlocks
    <3> HIDE DEF ptr, path, names, dents, bufs
    <3>4. fs_blocks' = DirBlocks \cup left /\ ~fs_bad'
      <4>1. gone = PathOwned(fsr) \cup NamesOwned(fsr) \cup dents \cup BufsOwned(fsr) \cup PtrOwned(fsr)
        BY <2>1, <2>2, <3>1
      <4>2. gone \subseteq fs_blocks
        BY <2>4, <2>6, <4>1
      <4> HIDE DEF gone
      <4>3. fs_blocks \ gone = DirOwned(fsr, fs_stage, has_dir) \cup left
        BY <2>4, <2>6, <4>1, OwnedApart
      <4> QED BY <1>1, <1>2, <3>3, <4>2, <4>3
    <3>5. Accounted'
      BY <1>2, <2>4, <2>5, <3>2, <3>4 DEF Accounted, DirBlocks
    <3>6. FsReqTypes' /\ Fields' /\ Outcome'
      BY <1>1, <1>2, <1>5, <2>5, <3>2 DEF FsReqTypes, FsStages, Fields, Outcome
    <3> QED BY <3>4, <3>5, <3>6 DEF FsReqInv
  <2> QED BY <2>7, <2>8
<1> QED BY <1>2, <1>4, <1>5

\* A file system request, whatever its kind, frees what it owns exactly once and
\* uses nothing it freed, through retries, cancellation, a listing left half-way and
\* repeated cleanups, and reports what its last call said (INIT to
\* uv_fs_req_cleanup()).
THEOREM FsReqSafe == FsReqSpec => []FsReqSound
<1>1. FsReqInit => FsReqInv
  <2> SUFFICES ASSUME FsReqInit PROVE FsReqInv
    OBVIOUS
  <2>1. fsr \in FsRequests /\ fsr.path = "null" /\ fsr.bufs = "null" /\ fsr.ptr = "null"
    BY DEF FsReqInit, FsRequests, FsKinds
  <2>2. FsReqTypes /\ Accounted
    BY <2>1 DEF FsReqInit, FsReqTypes, FsStages, Accounted, DirBlocks
  <2> QED BY <2>1, <2>2 DEF FsReqInit, FsReqInv, Fields, Outcome
<1>2. FsReqInv /\ [FsReqNext]_fsr_vars => FsReqInv'
  <2> SUFFICES ASSUME FsReqInv, [FsReqNext]_fsr_vars PROVE FsReqInv'
    OBVIOUS
  <2>1. ASSUME NEW k \in FsKinds, NEW cb \in BOOLEAN, NEW big \in BOOLEAN, FsSubmit(k, cb, big)
        PROVE  FsReqInv'
    BY <2>1, SubmitKeeps
  <2>2. ASSUME NEW k \in FsKinds, NEW cb \in BOOLEAN, FsRefused(k, cb) PROVE FsReqInv'
    BY <2>2, RefusedKeeps
  <2>3. ASSUME NEW ok \in BOOLEAN, FsCall(ok) PROVE FsReqInv'
    BY <2>3, PlainKeeps, ReadWriteKeeps, StatKeeps, ScandirKeeps, OpendirKeeps, ReaddirKeeps,
       ClosedirKeeps DEF FsCall, Called
  <2>4. CASE UNCHANGED fsr_vars
    BY <2>4 DEF fsr_vars, FsReqInv, FsReqTypes, Accounted, DirBlocks, Fields, Asked, Listing, Outcome
  <2> QED BY <2>1, <2>2, <2>3, <2>4, TakeKeeps, InterruptedKeeps, DoneKeeps, NextKeeps,
             CleanupKeeps DEF FsReqNext
<1>3. FsReqInv => FsReqSound
  <2> SUFFICES ASSUME FsReqInv PROVE FsReqSound
    OBVIOUS
  <2>1. FsReqTypes /\ Accounted /\ Fields /\ Outcome /\ ~fs_bad /\ fsr.nbufs \in Nat /\ fsr.result \in Int
    BY DEF FsReqInv, FsReqTypes, FsRequests
  <2>2. fs_stage # "worked" => DirBlocks \subseteq fs_blocks
    <3>1. CASE fs_stage = "clean"
      BY <2>1, <3>1 DEF Accounted, DirBlocks
    <3>2. CASE fs_stage \notin {"clean", "worked"}
      BY <3>2, <2>1 DEF DirOwned, DirAlive, DirBlocks, Accounted
    <3> QED BY <3>1, <3>2
  <2>3. fs_stage = "done" /\ fsr.ptr = "dents" /\ fsr.nbufs > 0 => DentBlock(fsr.nbufs) \in fs_blocks
    BY <2>1 DEF Fields, Listing, FirstDent, DentsOwned, Accounted
  <2> QED BY <2>1, <2>2, <2>3 DEF FsReqSound, Accounted, Outcome
<1> QED BY <1>1, <1>2, <1>3, PTL DEF FsReqSpec

-----------------------------------------------------------------------------
(* File events.  An active handle is linked into the list of its wd or     *)
(* into the queue of the walk (Placed), a list links handles of its wd and *)
(* is empty only under the walk (Listed), the queue of the walk holds what *)
(* it has still to tell (Walking).  These are about the tables given, as   *)
(* a list is looked at by maybe_free_watcher_list() when it may be empty.  *)

WatcherLists == [watchers : Seq(FsHandles), iterating : {0, 1}, path : Paths]
FsEvents == [active : {0, 1}, wd : Nat, closed : {0, 1}]
Walks == [wd : Nat, queue : Seq(FsHandles), cb : {0, 1}]

InoTypes(ls, e, w, k, top, owe, t) ==
  /\ top \in Nat /\ ls \in [DOMAIN ls -> WatcherLists] /\ DOMAIN ls \subseteq 1..top
  /\ e \in [FsHandles -> FsEvents] /\ w \in Walks /\ k \in [Paths -> Nat]
  /\ owe \subseteq FsHandles /\ t \subseteq FsHandles

Placed(ls, e, w) ==
  \A h \in FsHandles :
    /\ e[h].active = 0 => e[h].wd = 0
    /\ e[h].active = 1 =>
         /\ e[h].wd \in DOMAIN ls
         /\ h \in In(ls[e[h].wd].watchers) \/ (e[h].wd = w.wd /\ h \in In(w.queue))

\* The list of x may be empty.
Listed(ls, e, w, x) ==
  \A wd \in DOMAIN ls :
    /\ NoDup(ls[wd].watchers)
    /\ \A h \in In(ls[wd].watchers) : e[h].active = 1 /\ e[h].wd = wd
    /\ ls[wd].iterating = 1 <=> w.wd = wd
    /\ ls[wd].watchers = <<>> => w.wd = wd \/ wd = x

Walking(ls, e, w, owe, t) ==
  /\ w.wd # 0 => w.wd \in DOMAIN ls
  /\ w.wd = 0 => w.queue = <<>> /\ w.cb = 0
  /\ NoDup(w.queue) /\ In(w.queue) = owe /\ owe \cap t = {}
  /\ \A h \in owe : e[h].active = 1 /\ e[h].wd = w.wd /\ h \notin In(ls[w.wd].watchers)

PathsListed(ls, k) == \A p \in Paths : k[p] # 0 => k[p] \in DOMAIN ls

InoOk(ls, e, w, k, top, owe, t, x) ==
  /\ InoTypes(ls, e, w, k, top, owe, t) /\ Placed(ls, e, w) /\ Listed(ls, e, w, x)
  /\ Walking(ls, e, w, owe, t) /\ PathsListed(ls, k)

InoInv == InoOk(watcher_lists, ev, walk, kernel, last_wd, ev_due, told, 0)

\* Nothing is watched at first.
LEMMA InoInitInv == InotifyInit => InoInv
<1> SUFFICES ASSUME InotifyInit PROVE InoInv
  OBVIOUS
<1>1. /\ watcher_lists = << >> /\ walk = [wd |-> 0, queue |-> <<>>, cb |-> 0]
      /\ ev = [h \in FsHandles |-> [active |-> 0, wd |-> 0, closed |-> 0]]
      /\ kernel = [p \in Paths |-> 0] /\ last_wd = 0 /\ ev_due = {} /\ told = {}
  BY DEF InotifyInit
<1>2. DOMAIN watcher_lists = {} /\ watcher_lists \in [DOMAIN watcher_lists -> WatcherLists]
  BY <1>1
<1>3. InoTypes(watcher_lists, ev, walk, kernel, last_wd, ev_due, told)
  BY <1>1, <1>2, EmptyList DEF Walks, FsEvents, InoTypes
<1>4. Placed(watcher_lists, ev, walk)
  BY <1>1 DEF Placed
<1>5. Listed(watcher_lists, ev, walk, 0)
  BY <1>2 DEF Listed
<1>6. Walking(watcher_lists, ev, walk, ev_due, told)
  BY <1>1, EmptyList DEF Walking
<1>7. PathsListed(watcher_lists, kernel)
  BY <1>1 DEF PathsListed
<1> QED BY <1>3, <1>4, <1>5, <1>6, <1>7 DEF InoInv, InoOk

\* maybe_free_watcher_list() leaves no list that is empty, but under the walk.
LEMMA MaybeFreed ==
  ASSUME NEW ls, NEW e, NEW w, NEW k, NEW top, NEW owe, NEW t, NEW x \in DOMAIN ls,
         InoOk(ls, e, w, k, top, owe, t, x),
         NEW r, r = maybe_free_watcher_list(ls, k, x)
  PROVE  InoOk(r[1], e, w, r[2], top, owe, t, 0)
<1>1. /\ InoTypes(ls, e, w, k, top, owe, t) /\ Placed(ls, e, w) /\ Listed(ls, e, w, x)
      /\ Walking(ls, e, w, owe, t) /\ PathsListed(ls, k)
  BY DEF InoOk
<1>2. CASE ls[x].iterating = 1 \/ ls[x].watchers # <<>>
  BY <1>2, <1>1 DEF maybe_free_watcher_list, Listed, InoOk
<1>3. CASE ~(ls[x].iterating = 1 \/ ls[x].watchers # <<>>)
  <2>1. PICK l, g : /\ l = [wd \in DOMAIN ls \ {x} |-> ls[wd]]
                    /\ g = [p \in Paths |-> IF k[p] = x THEN 0 ELSE k[p]]
    OBVIOUS
  <2>2. r = <<l, g>>
    BY <1>3, <2>1 DEF maybe_free_watcher_list
  <2>3. r[1] = l /\ r[2] = g
    BY <2>2
  <2>4. DOMAIN l = DOMAIN ls \ {x} /\ \A wd \in DOMAIN l : l[wd] = ls[wd]
    BY <2>1
  <2>5. g \in [Paths -> Nat] /\ \A p \in Paths : g[p] = IF k[p] = x THEN 0 ELSE k[p]
    BY <1>1, <2>1 DEF InoTypes
  <2>6. ls[x].watchers = <<>> /\ w.wd # x
    BY <1>1, <1>3 DEF Listed
  <2>7. InoTypes(l, e, w, g, top, owe, t)
    BY <1>1, <2>1, <2>4, <2>5 DEF InoTypes
  <2>8. Placed(l, e, w)
    BY <1>1, <2>4, <2>6, EmptyList DEF Placed
  <2>9. Listed(l, e, w, 0)
    BY <1>1, <2>4 DEF Listed
  <2>10. Walking(l, e, w, owe, t)
    BY <1>1, <2>4, <2>6, EmptyList DEF Walking
  <2>11. PathsListed(l, g)
    BY <1>1, <2>4, <2>5 DEF PathsListed
  <2> QED BY <2>3, <2>7, <2>8, <2>9, <2>10, <2>11 DEF InoOk
<1> QED BY <1>2, <1>3

\* uv_fs_event_start() links the handle into the list of its watch and no other.
LEMMA EventStartKeeps ==
  ASSUME InoInv, NEW h \in FsHandles, NEW p \in Paths, uv_fs_event_start(h, p)
  PROVE  InoInv'
<1>1. /\ InoTypes(watcher_lists, ev, walk, kernel, last_wd, ev_due, told)
      /\ Placed(watcher_lists, ev, walk) /\ Listed(watcher_lists, ev, walk, 0)
      /\ Walking(watcher_lists, ev, walk, ev_due, told) /\ PathsListed(watcher_lists, kernel)
  BY DEF InoInv, InoOk
<1>2. PICK wd : wd = IF kernel[p] # 0 THEN kernel[p] ELSE last_wd + 1
  OBVIOUS
<1>3. PICK old : old = IF wd \in DOMAIN watcher_lists THEN watcher_lists[wd]
                       ELSE [watchers |-> <<>>, iterating |-> 0, path |-> p]
  OBVIOUS
<1>4. PICK l : l = [old EXCEPT !.watchers = Append(@, h)]
  OBVIOUS
<1>5. /\ watcher_lists' = [w \in DOMAIN watcher_lists \cup {wd} |->
                             IF w = wd THEN l ELSE watcher_lists[w]]
      /\ ev' = [ev EXCEPT ![h].active = 1, ![h].wd = wd]
      /\ kernel' = [kernel EXCEPT ![p] = wd]
      /\ last_wd' = IF wd > last_wd THEN wd ELSE last_wd
      /\ walk' = walk /\ ev_due' = ev_due /\ told' = told /\ ev[h].active = 0
  BY <1>2, <1>3, <1>4 DEF uv_fs_event_start
<1>6. /\ wd \in Nat \ {0} /\ last_wd' \in Nat /\ last_wd <= last_wd' /\ wd <= last_wd'
      /\ wd \notin DOMAIN watcher_lists => walk.wd # wd
  BY <1>1, <1>2, <1>5 DEF InoTypes, Walking
<1>7. /\ old \in WatcherLists /\ NoDup(old.watchers) /\ h \notin In(old.watchers)
      /\ \A g \in In(old.watchers) : ev[g].active = 1 /\ ev[g].wd = wd
      /\ old.iterating = 1 <=> walk.wd = wd
  <2>1. CASE wd \in DOMAIN watcher_lists
    BY <1>1, <1>3, <1>5, <2>1 DEF InoTypes, Listed
  <2>2. CASE wd \notin DOMAIN watcher_lists
    BY <1>3, <2>2, <1>6, EmptyList DEF WatcherLists
  <2> QED BY <2>1, <2>2
<1>8. /\ l \in WatcherLists /\ In(l.watchers) = In(old.watchers) \cup {h}
      /\ NoDup(l.watchers) /\ l.iterating = old.iterating /\ l.watchers # <<>>
  <2>1. /\ l.watchers = Append(old.watchers, h) /\ l.iterating = old.iterating
        /\ l.path = old.path /\ l = [watchers |-> l.watchers, iterating |-> l.iterating, path |-> l.path]
    BY <1>4, <1>7 DEF WatcherLists
  <2>2. old.watchers \in Seq(FsHandles) /\ old.iterating \in {0, 1} /\ old.path \in Paths
    BY <1>7 DEF WatcherLists
  <2>3. /\ Append(old.watchers, h) \in Seq(FsHandles)
        /\ In(Append(old.watchers, h)) = In(old.watchers) \cup {h}
        /\ NoDup(Append(old.watchers, h))
    BY <1>7, <2>2, InsertTail
  <2>4. l \in WatcherLists
    BY <2>1, <2>2, <2>3 DEF WatcherLists
  <2>5. l.watchers # <<>>
    BY <2>1, <2>3, EmptyList
  <2> QED BY <2>1, <2>3, <2>4, <2>5
<1>9. /\ DOMAIN watcher_lists' = DOMAIN watcher_lists \cup {wd} /\ watcher_lists'[wd] = l
      /\ \A w \in DOMAIN watcher_lists \ {wd} : watcher_lists'[w] = watcher_lists[w]
      /\ \A w \in DOMAIN watcher_lists :
           In(watcher_lists[w].watchers) \subseteq In(watcher_lists'[w].watchers)
  BY <1>3, <1>5, <1>8
<1>10. /\ ev' \in [FsHandles -> FsEvents] /\ ev'[h].active = 1 /\ ev'[h].wd = wd
       /\ \A g \in FsHandles \ {h} : ev'[g] = ev[g]
  <2>1. ev \in [FsHandles -> FsEvents] /\ ev[h] \in FsEvents
    BY <1>1 DEF InoTypes
  <2>2. PICK o : o = [ev[h] EXCEPT !.active = 1, !.wd = wd]
    OBVIOUS
  <2>3. o \in FsEvents /\ o.active = 1 /\ o.wd = wd
    BY <1>6, <2>1, <2>2 DEF FsEvents
  <2>4. ev' = [ev EXCEPT ![h] = o]
    BY <1>5, <2>1, <2>2 DEF FsEvents
  <2> QED BY <2>1, <2>3, <2>4
<1>11. kernel' \in [Paths -> Nat] /\ kernel'[p] = wd
       /\ \A q \in Paths \ {p} : kernel'[q] = kernel[q]
  BY <1>1, <1>5, <1>6 DEF InoTypes
<1>12. InoTypes(watcher_lists', ev', walk', kernel', last_wd', ev_due', told')
  BY <1>1, <1>8, <1>9, <1>5, <1>6, <1>10, <1>11 DEF InoTypes
<1>13. Placed(watcher_lists', ev', walk')
  <2> SUFFICES ASSUME NEW g \in FsHandles
               PROVE  /\ ev'[g].active = 0 => ev'[g].wd = 0
                      /\ ev'[g].active = 1 =>
                           /\ ev'[g].wd \in DOMAIN watcher_lists'
                           /\ \/ g \in In(watcher_lists'[ev'[g].wd].watchers)
                              \/ ev'[g].wd = walk'.wd /\ g \in In(walk'.queue)
    BY DEF Placed
  <2>1. CASE g = h
    BY <1>8, <1>9, <1>10, <2>1
  <2>2. CASE g # h
    BY <1>5, <1>10, <2>2, <1>1, <1>9 DEF Placed
  <2> QED BY <2>1, <2>2
<1>14. Listed(watcher_lists', ev', walk', 0)
  <2> SUFFICES ASSUME NEW w \in DOMAIN watcher_lists'
               PROVE  /\ NoDup(watcher_lists'[w].watchers)
                      /\ \A g \in In(watcher_lists'[w].watchers) : ev'[g].active = 1 /\ ev'[g].wd = w
                      /\ watcher_lists'[w].iterating = 1 <=> walk'.wd = w
                      /\ watcher_lists'[w].watchers = <<>> => walk'.wd = w \/ w = 0
    BY DEF Listed
  <2>1. \A q \in Seq(FsHandles) : In(q) \subseteq FsHandles
    BY DEF In
  <2>2. CASE w = wd
    BY <1>7, <2>1, <1>5, <1>8, <1>9, <1>10, <2>2 DEF WatcherLists
  <2>3. CASE w # wd
    BY <1>9, <2>3, <1>1, <2>1, <1>5, <1>10 DEF InoTypes, WatcherLists, Listed
  <2> QED BY <2>2, <2>3
<1>15. Walking(watcher_lists', ev', walk', ev_due', told')
  <2>1. h \notin ev_due
    BY <1>1, <1>5 DEF Walking
  <2>2. \A g \in ev_due : ev'[g] = ev[g]
    BY <1>1, <1>10, <2>1 DEF InoTypes
  <2>3. \A g \in ev_due : walk.wd # 0 /\ walk.wd \in DOMAIN watcher_lists
    BY <1>1, EmptyList DEF Walking
  <2>4. \A g \in ev_due : g \notin In(watcher_lists'[walk.wd].watchers)
    <3> SUFFICES ASSUME NEW g \in ev_due PROVE g \notin In(watcher_lists'[walk.wd].watchers)
      OBVIOUS
    <3>1. g \notin In(watcher_lists[walk.wd].watchers) /\ g # h
      BY <1>1, <2>1 DEF Walking
    <3>2. CASE walk.wd = wd
      BY <1>3, <1>8, <2>3, <3>2, <1>9, <3>1
    <3>3. CASE walk.wd # wd
      BY <1>9, <2>3, <3>1, <3>3
    <3> QED BY <3>2, <3>3
  <2>5. walk' = walk /\ ev_due' = ev_due /\ told' = told
    BY <1>5
  <2>6. \A g \in ev_due : ev'[g].active = 1 /\ ev'[g].wd = walk.wd
    BY <1>1, <2>2 DEF Walking
  <2>7. walk.wd # 0 => walk.wd \in DOMAIN watcher_lists'
    BY <1>1, <1>9 DEF Walking
  <2>8. /\ walk.wd = 0 => walk.queue = <<>> /\ walk.cb = 0
        /\ NoDup(walk.queue) /\ In(walk.queue) = ev_due /\ ev_due \cap told = {}
    BY <1>1 DEF Walking
  <2> QED BY <2>4, <2>5, <2>6, <2>7, <2>8 DEF Walking
<1>16. PathsListed(watcher_lists', kernel')
  BY <1>1, <1>9, <1>11 DEF PathsListed
<1> QED BY <1>12, <1>13, <1>14, <1>15, <1>16 DEF InoInv, InoOk

\* uv_fs_event_stop() unlinks its handle from wherever it is.
LEMMA EventStopKeeps ==
  ASSUME InoInv, NEW h \in FsHandles, NEW c \in {0, 1}, ev[h].active = 1, Stop(h, c)
  PROVE  InoInv'
<1>1. /\ InoTypes(watcher_lists, ev, walk, kernel, last_wd, ev_due, told)
      /\ Placed(watcher_lists, ev, walk) /\ Listed(watcher_lists, ev, walk, 0)
      /\ Walking(watcher_lists, ev, walk, ev_due, told) /\ PathsListed(watcher_lists, kernel)
  BY DEF InoInv, InoOk
<1>2. PICK wd : wd = ev[h].wd
  OBVIOUS
<1>3. PICK ls : ls = [watcher_lists EXCEPT ![wd].watchers = Without(@, h)]
  OBVIOUS
<1>4. PICK r : r = maybe_free_watcher_list(ls, kernel, wd)
  OBVIOUS
<1>5. /\ watcher_lists' = r[1] /\ kernel' = r[2]
      /\ walk' = [walk EXCEPT !.queue = Without(@, h)]
      /\ ev' = [ev EXCEPT ![h] = [active |-> 0, wd |-> 0, closed |-> c]]
      /\ ev_due' = ev_due \ {h} /\ last_wd' = last_wd /\ told' = told
  BY <1>2, <1>3, <1>4 DEF Stop
<1>6. wd \in DOMAIN watcher_lists
  BY <1>1, <1>2 DEF Placed
<1>7. PICK q : q = watcher_lists[wd].watchers
  OBVIOUS
<1>8. q \in Seq(FsHandles) /\ NoDup(q) /\ walk.queue \in Seq(FsHandles) /\ NoDup(walk.queue)
  BY <1>1, <1>6, <1>7 DEF InoTypes, WatcherLists, Walks, Listed, Walking
<1>9. /\ Without(q, h) \in Seq(FsHandles) /\ In(Without(q, h)) = In(q) \ {h}
      /\ NoDup(Without(q, h))
      /\ Without(walk.queue, h) \in Seq(FsHandles)
      /\ In(Without(walk.queue, h)) = In(walk.queue) \ {h} /\ NoDup(Without(walk.queue, h))
  BY <1>8, Unlinked
<1>10. PICK l : l = [watcher_lists[wd] EXCEPT !.watchers = Without(q, h)]
  OBVIOUS
<1>11. /\ l \in WatcherLists /\ l.watchers = Without(q, h)
       /\ l.iterating = watcher_lists[wd].iterating
  BY <1>1, <1>6, <1>9, <1>10 DEF InoTypes, WatcherLists
<1>12. /\ DOMAIN ls = DOMAIN watcher_lists /\ ls[wd] = l
       /\ \A w \in DOMAIN watcher_lists \ {wd} : ls[w] = watcher_lists[w]
       /\ ls \in [DOMAIN ls -> WatcherLists]
  BY <1>1, <1>3, <1>6, <1>7, <1>10, <1>11 DEF InoTypes
<1>13. /\ ev' \in [FsHandles -> FsEvents] /\ ev'[h].active = 0 /\ ev'[h].wd = 0
       /\ \A g \in FsHandles \ {h} : ev'[g] = ev[g]
  BY <1>1, <1>5 DEF InoTypes, FsEvents
<1>14. /\ walk' \in Walks /\ walk'.wd = walk.wd /\ walk'.cb = walk.cb
       /\ walk'.queue = Without(walk.queue, h)
  BY <1>1, <1>5, <1>9 DEF InoTypes, Walks
<1>15. PICK e, w, owe : e = ev' /\ w = walk' /\ owe = ev_due'
  OBVIOUS
<1>16. InoTypes(ls, e, w, kernel, last_wd, owe, told)
  BY <1>1, <1>5, <1>12, <1>13, <1>14, <1>15 DEF InoTypes
<1>17. Placed(ls, e, w)
  <2> SUFFICES ASSUME NEW g \in FsHandles
               PROVE  /\ e[g].active = 0 => e[g].wd = 0
                      /\ e[g].active = 1 =>
                           /\ e[g].wd \in DOMAIN ls
                           /\ \/ g \in In(ls[e[g].wd].watchers)
                              \/ e[g].wd = w.wd /\ g \in In(w.queue)
    BY DEF Placed
  <2>1. CASE g = h
    BY <1>13, <1>15, <2>1
  <2>2. CASE g # h
    BY <1>13, <1>15, <2>2, <1>7, <1>9, <1>11, <1>12, <1>14, <1>1 DEF Placed
  <2> QED BY <2>1, <2>2
<1>18. Listed(ls, e, w, wd)
  <2> SUFFICES ASSUME NEW v \in DOMAIN ls
               PROVE  /\ NoDup(ls[v].watchers)
                      /\ \A g \in In(ls[v].watchers) : e[g].active = 1 /\ e[g].wd = v
                      /\ ls[v].iterating = 1 <=> w.wd = v
                      /\ ls[v].watchers = <<>> => w.wd = v \/ v = wd
    BY DEF Listed
  <2>1. \A s \in Seq(FsHandles) : In(s) \subseteq FsHandles
    BY DEF In
  <2>2. In(watcher_lists[v].watchers) \subseteq FsHandles
    BY <1>1, <1>12, <2>1 DEF InoTypes, WatcherLists
  <2>3. CASE v = wd
    BY <1>1, <1>6, <1>7, <1>9, <1>11, <1>12, <1>13, <1>14, <1>15, <2>2, <2>3 DEF Listed
  <2>4. CASE v # wd
    <3>1. ls[v] = watcher_lists[v] /\ v \in DOMAIN watcher_lists
      BY <1>12, <2>4
    <3>2. h \notin In(watcher_lists[v].watchers)
      BY <1>1, <1>2, <2>4, <3>1 DEF Listed
    <3>3. v # 0
      BY <1>1, <3>1 DEF InoTypes
    <3> QED BY <1>1, <1>13, <1>14, <1>15, <2>2, <3>1, <3>2, <3>3 DEF Listed
  <2> QED BY <2>3, <2>4
<1>19. Walking(ls, e, w, owe, told)
  <2>1. \A g \in owe : e[g] = ev[g] /\ g \in ev_due
    BY <1>1, <1>5, <1>13, <1>15 DEF InoTypes
  <2>2. \A g \in owe : walk.wd # 0 /\ walk.wd \in DOMAIN watcher_lists
    BY <1>1, <2>1, EmptyList DEF Walking
  <2>3. \A g \in owe : g \notin In(ls[w.wd].watchers)
    BY <1>1, <1>7, <1>9, <1>11, <1>12, <1>14, <1>15, <2>1, <2>2 DEF Walking
  <2>4. walk.wd = 0 => w.queue = <<>>
    BY <1>1, <1>14, <1>15, EmptyList DEF Walking, Without
  <2> QED BY <1>1, <1>5, <1>9, <1>12, <1>14, <1>15, <2>1, <2>3, <2>4 DEF Walking
<1>20. InoOk(ls, e, w, kernel, last_wd, owe, told, wd)
  BY <1>1, <1>12, <1>16, <1>17, <1>18, <1>19 DEF PathsListed, InoOk
<1>21. wd \in DOMAIN ls
  BY <1>6, <1>12
<1>22. InoOk(r[1], e, w, r[2], last_wd, owe, told, 0)
  BY <1>4, <1>20, <1>21, MaybeFreed
<1> QED BY <1>5, <1>15, <1>22 DEF InoInv

\* A handle that watches nothing may be closed at any time.
LEMMA EventCloseKeeps ==
  ASSUME InoInv, NEW h \in FsHandles, uv__fs_event_close(h)
  PROVE  InoInv'
<1>1. CASE ev[h].active = 1 /\ Stop(h, 1)
  BY <1>1, EventStopKeeps
<1>2. CASE /\ ev[h].active = 0 /\ ev' = [ev EXCEPT ![h].closed = 1]
           /\ UNCHANGED <<watcher_lists, walk, kernel, last_wd, ev_due, told>>
  <2>1. /\ InoTypes(watcher_lists, ev, walk, kernel, last_wd, ev_due, told)
        /\ Placed(watcher_lists, ev, walk) /\ Listed(watcher_lists, ev, walk, 0)
        /\ Walking(watcher_lists, ev, walk, ev_due, told) /\ PathsListed(watcher_lists, kernel)
    BY DEF InoInv, InoOk
  <2>2. PICK e : e = ev'
    OBVIOUS
  <2>3. e \in [FsHandles -> FsEvents]
    BY <1>2, <2>1, <2>2 DEF InoTypes, FsEvents
  <2>4. \A g \in FsHandles : e[g].active = ev[g].active /\ e[g].wd = ev[g].wd
    BY <1>2, <2>1, <2>2 DEF InoTypes, FsEvents
  <2>5. InoTypes(watcher_lists, e, walk, kernel, last_wd, ev_due, told)
    BY <2>1, <2>3 DEF InoTypes
  <2>6. Placed(watcher_lists, e, walk)
    BY <2>1, <2>4 DEF Placed
  <2>7. Listed(watcher_lists, e, walk, 0)
    BY SMTT(30), <2>1, <2>4 DEF In, InoTypes, WatcherLists, Listed
  <2>8. Walking(watcher_lists, e, walk, ev_due, told)
    BY <2>1, <2>4 DEF InoTypes, Walking
  <2>9. InoOk(watcher_lists, e, walk, kernel, last_wd, ev_due, told, 0)
    BY <2>1, <2>5, <2>6, <2>7, <2>8 DEF InoOk
  <2> QED BY <1>2, <2>2, <2>9 DEF InoInv
<1> QED BY <1>1, <1>2 DEF uv__fs_event_close

\* The list moves to the queue of the walk.
LEMMA ReadEventKeeps ==
  ASSUME InoInv, NEW wd \in 1..MaxWd, ReadEvent(wd)
  PROVE  InoInv'
<1>1. /\ InoTypes(watcher_lists, ev, walk, kernel, last_wd, ev_due, told)
      /\ Placed(watcher_lists, ev, walk) /\ Listed(watcher_lists, ev, walk, 0)
      /\ Walking(watcher_lists, ev, walk, ev_due, told) /\ PathsListed(watcher_lists, kernel)
  BY DEF InoInv, InoOk
<1>2. /\ walk.wd = 0 /\ wd \in DOMAIN watcher_lists
      /\ walk' = [wd |-> wd, queue |-> watcher_lists[wd].watchers, cb |-> 0]
      /\ watcher_lists' = [watcher_lists EXCEPT ![wd].iterating = 1, ![wd].watchers = <<>>]
      /\ ev_due' = In(watcher_lists[wd].watchers) /\ told' = {}
      /\ ev' = ev /\ kernel' = kernel /\ last_wd' = last_wd
  BY DEF ReadEvent
<1>3. PICK q : q = watcher_lists[wd].watchers
  OBVIOUS
<1>4. q \in Seq(FsHandles) /\ NoDup(q) /\ In(q) \subseteq FsHandles
  BY <1>1, <1>2, <1>3 DEF InoTypes, WatcherLists, Listed, In
<1>5. wd \in Nat /\ wd # 0
  BY <1>1, <1>2 DEF InoTypes
<1>6. PICK l : l = [watcher_lists[wd] EXCEPT !.iterating = 1, !.watchers = <<>>]
  OBVIOUS
<1>7. l \in WatcherLists /\ l.watchers = <<>> /\ l.iterating = 1
  BY <1>1, <1>2, <1>6, EmptyList DEF InoTypes, WatcherLists
<1>8. PICK ls, w, owe : ls = watcher_lists' /\ w = walk' /\ owe = ev_due'
  OBVIOUS
<1>9. /\ DOMAIN ls = DOMAIN watcher_lists /\ ls[wd] = l
      /\ \A v \in DOMAIN watcher_lists \ {wd} : ls[v] = watcher_lists[v]
      /\ ls \in [DOMAIN ls -> WatcherLists]
  BY <1>1, <1>2, <1>6, <1>8, <1>7 DEF InoTypes
<1>10. w \in Walks /\ w.wd = wd /\ w.queue = q /\ w.cb = 0
  BY <1>2, <1>3, <1>4, <1>5, <1>8 DEF Walks
<1>11. InoTypes(ls, ev, w, kernel, last_wd, owe, {})
  BY <1>1, <1>2, <1>3, <1>4, <1>8, <1>9, <1>10 DEF InoTypes
<1>12. Placed(ls, ev, w)
  <2> SUFFICES ASSUME NEW g \in FsHandles, ev[g].active = 1
               PROVE  /\ ev[g].wd \in DOMAIN ls
                      /\ \/ g \in In(ls[ev[g].wd].watchers)
                         \/ ev[g].wd = w.wd /\ g \in In(w.queue)
    BY <1>1 DEF Placed
  <2>1. ev[g].wd \in DOMAIN watcher_lists /\ g \in In(watcher_lists[ev[g].wd].watchers)
    BY <1>1, <1>2, EmptyList DEF Walking, Placed
  <2>2. CASE ev[g].wd = wd
    BY <1>3, <1>9, <1>10, <2>1, <2>2
  <2>3. CASE ev[g].wd # wd
    BY <1>9, <2>1, <2>3
  <2> QED BY <2>2, <2>3
<1>13. Listed(ls, ev, w, 0)
  <2> SUFFICES ASSUME NEW v \in DOMAIN ls
               PROVE  /\ NoDup(ls[v].watchers)
                      /\ \A g \in In(ls[v].watchers) : ev[g].active = 1 /\ ev[g].wd = v
                      /\ ls[v].iterating = 1 <=> w.wd = v
                      /\ ls[v].watchers = <<>> => w.wd = v \/ v = 0
    BY DEF Listed
  <2>1. CASE v = wd
    BY <1>7, <1>9, <1>10, <2>1, EmptyList
  <2>2. CASE v # wd
    BY <1>1, <1>9, <2>2, <1>2, <1>10 DEF InoTypes, Listed
  <2> QED BY <2>1, <2>2
<1>14. Walking(ls, ev, w, owe, {})
  <2>1. \A g \in owe : ev[g].active = 1 /\ ev[g].wd = wd
    BY <1>1, <1>2, <1>8 DEF Listed
  <2>2. \A g : g \notin In(ls[w.wd].watchers)
    BY <1>7, <1>9, <1>10, EmptyList
  <2> QED BY <1>2, <1>3, <1>4, <1>5, <1>8, <1>9, <1>10, <2>1, <2>2 DEF Walking
<1>15. PathsListed(ls, kernel)
  BY <1>1, <1>9 DEF PathsListed
<1>16. InoOk(ls, ev, w, kernel, last_wd, owe, {}, 0)
  BY <1>11, <1>12, <1>13, <1>14, <1>15 DEF InoOk
<1> QED BY <1>2, <1>8, <1>16 DEF InoInv

\* The handle whose turn it is goes back to the list.
LEMMA WalkNextKeeps ==
  ASSUME InoInv, WalkNext
  PROVE  /\ InoInv'
         /\ \E h \in ev_due \ told : told' = told \cup {h} /\ ev[h].active = 1
<1>1. /\ InoTypes(watcher_lists, ev, walk, kernel, last_wd, ev_due, told)
      /\ Placed(watcher_lists, ev, walk) /\ Listed(watcher_lists, ev, walk, 0)
      /\ Walking(watcher_lists, ev, walk, ev_due, told) /\ PathsListed(watcher_lists, kernel)
  BY DEF InoInv, InoOk
<1>2. PICK h, wd : h = Head(walk.queue) /\ wd = walk.wd
  OBVIOUS
<1>3. /\ walk.wd # 0 /\ walk.cb = 0 /\ walk.queue # <<>>
      /\ walk' = [walk EXCEPT !.queue = Tail(@), !.cb = 1]
      /\ watcher_lists' = [watcher_lists EXCEPT ![wd].watchers = Append(@, h)]
      /\ told' = told \cup {h} /\ ev_due' = ev_due \ {h}
      /\ ev' = ev /\ kernel' = kernel /\ last_wd' = last_wd
  BY <1>2 DEF WalkNext
<1>4. wd \in DOMAIN watcher_lists /\ wd # 0
  BY <1>1, <1>2, <1>3 DEF Walking
<1>5. PICK q : q = watcher_lists[wd].watchers
  OBVIOUS
<1>6. q \in Seq(FsHandles) /\ NoDup(q) /\ walk.queue \in Seq(FsHandles) /\ NoDup(walk.queue)
  BY <1>1, <1>4, <1>5 DEF InoTypes, WatcherLists, Walks, Listed, Walking
<1>7. /\ Tail(walk.queue) \in Seq(FsHandles) /\ h \in In(walk.queue)
      /\ In(Tail(walk.queue)) = In(walk.queue) \ {h} /\ NoDup(Tail(walk.queue))
  BY <1>2, <1>3, <1>6, TakeHead
<1>8. h \in ev_due /\ h \in FsHandles /\ h \notin told /\ h \notin In(q)
      /\ ev[h].active = 1 /\ ev[h].wd = wd
  BY <1>1, <1>7, <1>2, <1>5 DEF Walking, InoTypes
<1>9. /\ Append(q, h) \in Seq(FsHandles) /\ In(Append(q, h)) = In(q) \cup {h}
      /\ NoDup(Append(q, h))
  BY <1>6, <1>8, InsertTail
<1>10. PICK l : l = [watcher_lists[wd] EXCEPT !.watchers = Append(q, h)]
  OBVIOUS
<1>11. /\ l \in WatcherLists /\ l.watchers = Append(q, h) /\ Append(q, h) # <<>>
       /\ l.iterating = watcher_lists[wd].iterating
  BY <1>9, <1>1, <1>4, <1>10, EmptyList DEF InoTypes, WatcherLists
<1>12. PICK ls, w, owe, t : ls = watcher_lists' /\ w = walk' /\ owe = ev_due' /\ t = told'
  OBVIOUS
<1>13. /\ DOMAIN ls = DOMAIN watcher_lists /\ ls[wd] = l
       /\ \A v \in DOMAIN watcher_lists \ {wd} : ls[v] = watcher_lists[v]
       /\ ls \in [DOMAIN ls -> WatcherLists]
  BY <1>1, <1>3, <1>4, <1>5, <1>10, <1>12, <1>11 DEF InoTypes
<1>14. w \in Walks /\ w.wd = wd /\ w.queue = Tail(walk.queue)
  BY <1>1, <1>2, <1>3, <1>7, <1>12 DEF InoTypes, Walks
<1>15. InoTypes(ls, ev, w, kernel, last_wd, owe, t)
  BY <1>1, <1>3, <1>8, <1>12, <1>13, <1>14 DEF InoTypes
<1>16. Placed(ls, ev, w)
  <2> SUFFICES ASSUME NEW g \in FsHandles, ev[g].active = 1
               PROVE  /\ ev[g].wd \in DOMAIN ls
                      /\ \/ g \in In(ls[ev[g].wd].watchers)
                         \/ ev[g].wd = w.wd /\ g \in In(w.queue)
    BY <1>1 DEF Placed
  <2>1. CASE g = h
    BY <1>4, <1>8, <1>9, <1>11, <1>13, <2>1
  <2>2. CASE g # h
    BY <1>5, <1>9, <1>11, <1>13, <2>2, <1>7, <1>14, <1>1, <1>2 DEF Placed
  <2> QED BY <2>1, <2>2
<1>17. Listed(ls, ev, w, 0)
  <2> SUFFICES ASSUME NEW v \in DOMAIN ls
               PROVE  /\ NoDup(ls[v].watchers)
                      /\ \A g \in In(ls[v].watchers) : ev[g].active = 1 /\ ev[g].wd = v
                      /\ ls[v].iterating = 1 <=> w.wd = v
                      /\ ls[v].watchers = <<>> => w.wd = v \/ v = 0
    BY DEF Listed
  <2>1. CASE v = wd
    BY <1>1, <1>2, <1>4, <1>5, <1>8, <1>9, <1>11, <1>13, <1>14, <2>1 DEF Listed
  <2>2. CASE v # wd
    BY <1>1, <1>13, <2>2, <1>2, <1>14 DEF InoTypes, Listed
  <2> QED BY <2>1, <2>2
<1>18. Walking(ls, ev, w, owe, t)
  <2>1. \A g \in owe : g \notin In(ls[w.wd].watchers)
    BY <1>1, <1>2, <1>3, <1>5, <1>9, <1>11, <1>12, <1>13, <1>14 DEF Walking
  <2> QED BY <1>1, <1>2, <1>3, <1>4, <1>7, <1>12, <1>13, <1>14, <2>1 DEF Walking
<1>19. PathsListed(ls, kernel)
  BY <1>1, <1>13 DEF PathsListed
<1>20. InoOk(ls, ev, w, kernel, last_wd, owe, t, 0)
  BY <1>15, <1>16, <1>17, <1>18, <1>19 DEF InoOk
<1>21. InoInv'
  BY <1>3, <1>12, <1>20 DEF InoInv
<1> QED BY <1>3, <1>8, <1>21

\* The walk ends when its queue is empty, and frees its list if that is too.
LEMMA WalkEndKeeps ==
  ASSUME InoInv, WalkEnd
  PROVE  InoInv' /\ ev_due = {}
<1>1. /\ InoTypes(watcher_lists, ev, walk, kernel, last_wd, ev_due, told)
      /\ Placed(watcher_lists, ev, walk) /\ Listed(watcher_lists, ev, walk, 0)
      /\ Walking(watcher_lists, ev, walk, ev_due, told) /\ PathsListed(watcher_lists, kernel)
  BY DEF InoInv, InoOk
<1>2. PICK wd : wd = walk.wd
  OBVIOUS
<1>3. PICK ls : ls = [watcher_lists EXCEPT ![wd].iterating = 0]
  OBVIOUS
<1>4. PICK r : r = maybe_free_watcher_list(ls, kernel, wd)
  OBVIOUS
<1>5. /\ walk.wd # 0 /\ walk.cb = 0 /\ walk.queue = <<>>
      /\ watcher_lists' = r[1] /\ kernel' = r[2] /\ walk' = [walk EXCEPT !.wd = 0]
      /\ ev' = ev /\ last_wd' = last_wd /\ ev_due' = ev_due /\ told' = told
  BY <1>2, <1>3, <1>4 DEF WalkEnd
<1>6. wd \in DOMAIN watcher_lists /\ wd # 0 /\ ev_due = {}
  BY <1>1, <1>2, <1>5, EmptyList DEF Walking
<1>7. PICK l : l = [watcher_lists[wd] EXCEPT !.iterating = 0]
  OBVIOUS
<1>8. l \in WatcherLists /\ l.watchers = watcher_lists[wd].watchers /\ l.iterating = 0
  BY <1>1, <1>6, <1>7 DEF InoTypes, WatcherLists
<1>9. /\ DOMAIN ls = DOMAIN watcher_lists /\ ls[wd] = l
      /\ \A v \in DOMAIN watcher_lists \ {wd} : ls[v] = watcher_lists[v]
      /\ ls \in [DOMAIN ls -> WatcherLists]
  BY <1>1, <1>3, <1>6, <1>7, <1>8 DEF InoTypes
<1>10. PICK w : w = walk'
  OBVIOUS
<1>11. w \in Walks /\ w.wd = 0 /\ w.queue = <<>> /\ w.cb = 0
  BY <1>1, <1>5, <1>10 DEF InoTypes, Walks
<1>12. InoTypes(ls, ev, w, kernel, last_wd, ev_due, told)
  BY <1>1, <1>9, <1>11 DEF InoTypes
<1>13. Placed(ls, ev, w)
  BY <1>5, <1>8, <1>9, <1>1, EmptyList DEF Placed
<1>14. Listed(ls, ev, w, wd)
  <2> SUFFICES ASSUME NEW v \in DOMAIN ls
               PROVE  /\ NoDup(ls[v].watchers)
                      /\ \A g \in In(ls[v].watchers) : ev[g].active = 1 /\ ev[g].wd = v
                      /\ ls[v].iterating = 1 <=> w.wd = v
                      /\ ls[v].watchers = <<>> => w.wd = v \/ v = wd
    BY DEF Listed
  <2>1. v # 0
    BY <1>1, <1>9 DEF InoTypes
  <2>2. CASE v = wd
    BY <1>1, <1>6, <1>8, <1>9, <1>11, <2>1, <2>2 DEF Listed
  <2>3. CASE v # wd
    BY <1>9, <2>3, <1>1, <1>2, <1>11, <2>1 DEF Listed
  <2> QED BY <2>2, <2>3
<1>15. Walking(ls, ev, w, ev_due, told)
  BY <1>6, <1>11, EmptyList DEF Walking
<1>16. InoOk(ls, ev, w, kernel, last_wd, ev_due, told, wd)
  BY <1>1, <1>9, <1>12, <1>13, <1>14, <1>15 DEF PathsListed, InoOk
<1>17. wd \in DOMAIN ls
  BY <1>6, <1>9
<1>18. InoOk(r[1], ev, w, r[2], last_wd, ev_due, told, 0)
  BY <1>4, <1>16, <1>17, MaybeFreed
<1> QED BY <1>5, <1>6, <1>10, <1>18 DEF InoInv

\* The end of a callback, and the kernel's forgetting of a file
LEMMA QuietStepsKeep ==
  ASSUME InoInv, WalkReturn \/ (\E p \in Paths : KernelIgnores(p))
  PROVE  InoInv'
<1>1. /\ InoTypes(watcher_lists, ev, walk, kernel, last_wd, ev_due, told)
      /\ Placed(watcher_lists, ev, walk) /\ Listed(watcher_lists, ev, walk, 0)
      /\ Walking(watcher_lists, ev, walk, ev_due, told) /\ PathsListed(watcher_lists, kernel)
  BY DEF InoInv, InoOk
<1>2. CASE WalkReturn
  <2>1. PICK w : w = walk'
    OBVIOUS
  <2>2. /\ w \in Walks /\ w.wd = walk.wd /\ w.queue = walk.queue /\ w.cb = 0
    BY <1>1, <1>2, <2>1 DEF WalkReturn, InoTypes, Walks
  <2>3. InoOk(watcher_lists, ev, w, kernel, last_wd, ev_due, told, 0)
    BY <1>1, <2>2 DEF InoOk, InoTypes, Placed, Listed, Walking
  <2> QED BY <1>2, <2>1, <2>3 DEF WalkReturn, InoInv
<1>3. ASSUME NEW p \in Paths, KernelIgnores(p) PROVE InoInv'
  BY <1>1, <1>3 DEF KernelIgnores, InoTypes, InoOk, PathsListed, InoInv
<1> QED BY <1>2, <1>3

-----------------------------------------------------------------------------
(* The child of a fork.  The lists of one path become one, and the paths   *)
(* are numbered again in the order of their first list.                    *)

\* Two lists that share no node, one after the other
LEMMA ListsJoined ==
  ASSUME NEW S, NEW q \in Seq(S), NEW r \in Seq(S)
  PROVE  /\ q \o r \in Seq(S) /\ In(q \o r) = In(q) \cup In(r)
         /\ NoDup(q) /\ NoDup(r) /\ In(q) \cap In(r) = {} => NoDup(q \o r)
<1> DEFINE s == q \o r
<1>1. /\ s \in Seq(S) /\ Len(s) = Len(q) + Len(r) /\ Len(q) \in Nat /\ Len(r) \in Nat
      /\ \A i \in 1..Len(q) : s[i] = q[i]
      /\ \A i \in 1..Len(r) : s[Len(q) + i] = r[i]
  OBVIOUS
<1>2. DOMAIN s = 1..(Len(q) + Len(r)) /\ DOMAIN q = 1..Len(q) /\ DOMAIN r = 1..Len(r)
  BY <1>1
<1> HIDE DEF s
<1>3. \A i \in DOMAIN s : \/ i \in DOMAIN q /\ s[i] = q[i]
                          \/ i - Len(q) \in DOMAIN r /\ s[i] = r[i - Len(q)] /\ i > Len(q)
  BY <1>1, <1>2
<1>4. /\ \A i \in DOMAIN q : i \in DOMAIN s /\ s[i] = q[i]
      /\ \A i \in DOMAIN r : Len(q) + i \in DOMAIN s /\ s[Len(q) + i] = r[i]
  BY <1>1, <1>2
<1>5. In(s) = In(q) \cup In(r)
  BY <1>3, <1>4 DEF In
<1>6. ASSUME NoDup(q), NoDup(r), In(q) \cap In(r) = {} PROVE NoDup(s)
  <2> SUFFICES ASSUME NEW i \in DOMAIN s, NEW j \in DOMAIN s, s[i] = s[j] PROVE i = j
    BY DEF NoDup
  <2>1. \A a \in DOMAIN q, b \in DOMAIN r : q[a] # r[b]
    BY <1>6 DEF In
  <2>2. CASE i \in DOMAIN q /\ j \in DOMAIN q
    BY <1>4, <1>6, <2>2 DEF NoDup
  <2>3. CASE i \notin DOMAIN q /\ j \notin DOMAIN q
    BY <1>3, <2>3, <1>6, <1>1, <1>2 DEF NoDup
  <2> QED BY <1>3, <2>1, <2>2, <2>3
<1> QED BY <1>1, <1>5, <1>6 DEF s

\* A set of numbers that is not empty has a least one, which Min() is.
LEMMA LeastOf ==
  ASSUME NEW T \in SUBSET Nat, T # {}
  PROVE  Min(T) \in T /\ \A m \in T : Min(T) <= m
<1> DEFINE R == {p \in Nat \X Nat : p[1] < p[2]}
<1>1. IsWellFoundedOn(R, Nat)
  BY NatLessThanWellFounded DEF OpToRel
<1> HIDE DEF R
<1>2. PICK n \in T : \A m \in T : ~ (<<m, n>> \in R)
  BY <1>1, WFMin
<1>3. \A m \in T : n <= m
  <2> SUFFICES ASSUME NEW m \in T, ~(n <= m) PROVE FALSE
    OBVIOUS
  <2>1. m \in Nat /\ n \in Nat /\ m < n
    OBVIOUS
  <2>2. <<m, n>> \in R
    BY <2>1 DEF R
  <2> QED BY <1>2, <2>2
<1> QED BY <1>3 DEF Min

\* So a set that has 0, and with a number the next, has them all.
LEMMA EveryNumber ==
  ASSUME NEW T \in SUBSET Nat, 0 \in T, \A n \in T : n + 1 \in T
  PROVE  T = Nat
<1> SUFFICES ASSUME T # Nat PROVE FALSE
  OBVIOUS
<1>1. PICK n \in Nat \ T : \A m \in Nat \ T : n <= m
  <2> DEFINE U == Nat \ T
  <2>1. U \in SUBSET Nat /\ U # {}
    OBVIOUS
  <2> HIDE DEF U
  <2>2. \E n \in U : \A m \in U : n <= m
    BY <2>1, LeastOf
  <2> QED BY <2>2 DEF U
<1>2. n # 0 /\ n - 1 \in Nat /\ n \in Nat
  BY <1>1
<1>3. n - 1 \in T
  BY <1>1, <1>2
<1>4. (n - 1) + 1 = n
  BY <1>2
<1> QED BY <1>1, <1>3, <1>4

\* The first lists of ss, put one behind the other
Chained(ss, f) ==
  f = [i \in 1..Len(ss) |-> IF i = 1 THEN ss[i] ELSE f[i - 1] \o ss[i]]

LEMMA ChainExists ==
  ASSUME NEW S, NEW ss \in Seq(Seq(S)), Len(ss) > 0
  PROVE  \E f : Chained(ss, f)
<1> DEFINE Upto(n, f) == /\ f \in [1..(n + 1) -> Seq(S)] /\ f[1] = ss[1]
                         /\ \A i \in 2..(n + 1) : f[i] = f[i - 1] \o ss[i]
           Has(n) == n < Len(ss) => \E f : Upto(n, f)
           T == {n \in Nat : Has(n)}
<1>0. Len(ss) \in Nat /\ \A i \in 1..Len(ss) : ss[i] \in Seq(S)
  OBVIOUS
<1>1. Has(0)
  <2>1. ss[1] \in Seq(S)
    BY <1>0
  <2>2. Upto(0, [i \in 1..1 |-> ss[1]])
    BY <2>1
  <2> QED BY <2>2
<1>2. ASSUME NEW n \in Nat, Has(n) PROVE Has(n + 1)
  <2> SUFFICES ASSUME n + 1 < Len(ss) PROVE \E g : Upto(n + 1, g)
    OBVIOUS
  <2>0. PICK f : Upto(n, f)
    <3>1. n < Len(ss)
      BY <1>0
    <3> HIDE DEF Upto
    <3> QED BY <1>2, <3>1
  <2>1. PICK x : x = f[n + 1] \o ss[n + 2]
    OBVIOUS
  <2>2. x \in Seq(S)
    BY <1>0, <2>0, <2>1
  <2> DEFINE g == [i \in 1..(n + 2) |-> IF i = n + 2 THEN x ELSE f[i]]
  <2>3. g \in [1..(n + 2) -> Seq(S)] /\ g[1] = ss[1]
    BY <2>0, <2>2
  <2>4. \A i \in 2..(n + 2) : g[i] = g[i - 1] \o ss[i]
    <3> SUFFICES ASSUME NEW i \in 2..(n + 2) PROVE g[i] = g[i - 1] \o ss[i]
      OBVIOUS
    <3>1. CASE i = n + 2
      <4>1. i - 1 = n + 1 /\ i - 1 \in 1..(n + 2) /\ i - 1 # n + 2
        BY <3>1
      <4>2. g[i] = x /\ g[i - 1] = f[n + 1]
        BY <3>1, <4>1
      <4> QED BY <2>1, <3>1, <4>2
    <3>2. CASE i # n + 2
      <4>1. i \in 2..(n + 1) /\ i - 1 \in 1..(n + 2) /\ i - 1 # n + 2
        BY <3>2
      <4>2. g[i] = f[i] /\ g[i - 1] = f[i - 1]
        BY <3>2, <4>1
      <4> QED BY <2>0, <4>1, <4>2
    <3> QED BY <3>1, <3>2
  <2>5. (n + 1) + 1 = n + 2
    OBVIOUS
  <2> HIDE DEF g
  <2>6. Upto(n + 1, g)
    BY <2>3, <2>4, <2>5
  <2> QED BY <2>6
<1> HIDE DEF Has
<1>3. T \in SUBSET Nat /\ 0 \in T /\ \A n \in T : n + 1 \in T
  BY <1>1, <1>2
<1> HIDE DEF T
<1>4. T = Nat
  BY <1>3, EveryNumber
<1>5. Len(ss) - 1 \in Nat /\ Len(ss) - 1 < Len(ss) /\ (Len(ss) - 1) + 1 = Len(ss)
  BY <1>0
<1>6. Has(Len(ss) - 1)
  BY <1>4, <1>5 DEF T
<1>7. PICK f : Upto(Len(ss) - 1, f)
  BY <1>5, <1>6 DEF Has
<1>8. /\ f \in [1..Len(ss) -> Seq(S)] /\ f[1] = ss[1]
      /\ \A i \in 2..Len(ss) : f[i] = f[i - 1] \o ss[i]
  BY <1>5, <1>7
<1>9. f = [i \in 1..Len(ss) |-> IF i = 1 THEN ss[i] ELSE f[i - 1] \o ss[i]]
  <2>1. \A i \in 1..Len(ss) : f[i] = IF i = 1 THEN ss[i] ELSE f[i - 1] \o ss[i]
    <3> SUFFICES ASSUME NEW i \in 1..Len(ss), i # 1 PROVE f[i] = f[i - 1] \o ss[i]
      BY <1>8
    <3>1. i \in 2..Len(ss)
      BY <1>0
    <3> QED BY <1>8, <3>1
  <2>2. f = [i \in 1..Len(ss) |-> f[i]]
    BY <1>8
  <2> QED BY <2>1, <2>2
<1> QED BY <1>9 DEF Chained

\* Lists that share no node, flattened: every node is linked once.
LEMMA Flattened ==
  ASSUME NEW S, NEW ss \in Seq(Seq(S)), \A i \in 1..Len(ss) : NoDup(ss[i]),
         \A i, j \in 1..Len(ss) : i # j => In(ss[i]) \cap In(ss[j]) = {}
  PROVE  /\ FlattenSeq(ss) \in Seq(S) /\ NoDup(FlattenSeq(ss))
         /\ \A x : x \in In(FlattenSeq(ss)) <=> \E i \in 1..Len(ss) : x \in In(ss[i])
<1>0. Len(ss) \in Nat /\ \A i \in 1..Len(ss) : ss[i] \in Seq(S)
  OBVIOUS
<1>1. CASE Len(ss) = 0
  BY <1>1, EmptyList DEF FlattenSeq
<1>2. CASE Len(ss) # 0
  <2>1. PICK f : f = CHOOSE g : Chained(ss, g)
    OBVIOUS
  <2>2. Chained(ss, f)
    BY SMTT(30), <1>0, <1>2, <2>1, ChainExists
  <2>3. FlattenSeq(ss) = f[Len(ss)]
    BY <1>2, <2>1 DEF FlattenSeq, Chained
  <2>4. \A i \in 1..Len(ss) : f[i] = IF i = 1 THEN ss[i] ELSE f[i - 1] \o ss[i]
    BY <2>2, Zenon DEF Chained
  <2> DEFINE Good(n) ==
        n < Len(ss) =>
          /\ f[n + 1] \in Seq(S) /\ NoDup(f[n + 1])
          /\ \A x : x \in In(f[n + 1]) <=> \E i \in 1..(n + 1) : x \in In(ss[i])
             T == {n \in Nat : Good(n)}
  <2>5. Good(0)
    BY <1>0, <1>2, <2>4
  <2>6. ASSUME NEW n \in Nat, Good(n) PROVE Good(n + 1)
    <3> SUFFICES ASSUME n + 1 < Len(ss)
                 PROVE  /\ f[n + 2] \in Seq(S) /\ NoDup(f[n + 2])
                        /\ \A x : x \in In(f[n + 2]) <=> \E i \in 1..(n + 2) : x \in In(ss[i])
      OBVIOUS
    <3>1. /\ n + 2 \in 1..Len(ss) /\ n + 2 # 1 /\ (n + 2) - 1 = n + 1 /\ n < Len(ss)
          /\ n + 1 \in 1..Len(ss) /\ 1..(n + 1) \subseteq 1..Len(ss)
          /\ 1..(n + 2) = 1..(n + 1) \cup {n + 2} /\ n + 2 \notin 1..(n + 1)
      BY <1>0
    <3>2. f[n + 2] = f[n + 1] \o ss[n + 2]
      BY <2>4, <3>1
    <3>3. PICK q, r : q = f[n + 1] /\ r = ss[n + 2]
      OBVIOUS
    <3>4. /\ q \in Seq(S) /\ NoDup(q) /\ r \in Seq(S) /\ NoDup(r)
          /\ \A x : x \in In(q) <=> \E i \in 1..(n + 1) : x \in In(ss[i])
      BY <1>0, <2>6, <3>1, <3>3
    <3>5. In(q) \cap In(r) = {}
      <4> SUFFICES ASSUME NEW x \in In(q), x \in In(r) PROVE FALSE
        OBVIOUS
      <4>1. PICK i \in 1..(n + 1) : x \in In(ss[i])
        BY <3>4
      <4>2. i \in 1..Len(ss) /\ i # n + 2 /\ x \in In(ss[n + 2])
        BY <3>1, <3>3, <4>1
      <4>3. In(ss[i]) \cap In(ss[n + 2]) = {}
        BY <3>1, <4>2
      <4> QED BY <4>1, <4>2, <4>3
    <3>6. q \o r \in Seq(S) /\ In(q \o r) = In(q) \cup In(r) /\ NoDup(q \o r)
      BY <3>4, <3>5, ListsJoined
    <3> QED BY <3>1, <3>2, <3>3, <3>4, <3>6
  <2> HIDE DEF Good
  <2>7. T \in SUBSET Nat /\ 0 \in T /\ \A n \in T : n + 1 \in T
    BY <2>5, <2>6
  <2> HIDE DEF T
  <2>8. T = Nat
    BY <2>7, EveryNumber
  <2>9. Len(ss) - 1 \in Nat /\ Len(ss) - 1 < Len(ss) /\ (Len(ss) - 1) + 1 = Len(ss)
    BY <1>0, <1>2
  <2>10. Good(Len(ss) - 1)
    BY <2>8, <2>9 DEF T
  <2> QED BY <2>3, <2>9, <2>10 DEF Good
<1> QED BY <1>1, <1>2

\* The number of members of F up to x
Rank(F, x) == Cardinality({f \in F : f <= x})

\* Ranks number the members of a finite set from 1 on.
LEMMA Ranks ==
  ASSUME NEW F \in SUBSET Nat, IsFiniteSet(F)
  PROVE  /\ Cardinality(F) \in Nat
         /\ \A x \in F : Rank(F, x) \in 1..Cardinality(F)
         /\ \A x, y \in F : Rank(F, x) = Rank(F, y) => x = y
         /\ \A n \in 1..Cardinality(F) : \E x \in F : Rank(F, x) = n
<1> DEFINE Below(x) == {f \in F : f <= x}
<1>1. Cardinality(F) \in Nat
  BY FS_CardinalityType
<1>2. ASSUME NEW x \in F
      PROVE  /\ IsFiniteSet(Below(x)) /\ Cardinality(Below(x)) \in Nat
             /\ Cardinality(Below(x)) <= Cardinality(F) /\ Cardinality(Below(x)) # 0
  <2>1. PICK B : B = Below(x)
    OBVIOUS
  <2>2. B \in SUBSET F /\ x \in B
    BY <2>1
  <2>3. IsFiniteSet(B) /\ Cardinality(B) <= Cardinality(F)
    BY <2>2, FS_Subset
  <2>4. Cardinality(B) \in Nat /\ Cardinality(B) # 0
    BY <2>2, <2>3, FS_CardinalityType, FS_EmptySet
  <2> QED BY <2>1, <2>3, <2>4
<1>3. \A x \in F : Rank(F, x) \in 1..Cardinality(F)
  BY <1>1, <1>2 DEF Rank
<1>4. ASSUME NEW x \in F, NEW y \in F, Rank(F, x) = Rank(F, y), x < y PROVE FALSE
  <2>1. PICK A, B : A = Below(x) /\ B = Below(y)
    OBVIOUS
  <2>2. A \in SUBSET B /\ y \in B /\ y \notin A
    <3>1. \A f \in F : f \in Nat
      OBVIOUS
    <3>2. \A f \in F : f <= x => f <= y
      BY <1>4, <3>1
    <3>3. y \in B /\ y \notin A
      BY <1>4, <2>1, <3>1
    <3> QED BY <2>1, <3>2, <3>3
  <2>3. IsFiniteSet(B) /\ Cardinality(B) = Cardinality(A)
    BY <1>2, <1>4, <2>1 DEF Rank
  <2> QED BY <2>2, <2>3, FS_Subset
<1>5. \A x, y \in F : Rank(F, x) = Rank(F, y) => x = y
  BY <1>4
<1>6. PICK g : g = [x \in F |-> Rank(F, x)]
  OBVIOUS
<1>7. g \in Injection(F, 1..Cardinality(F))
  BY <1>3, <1>5, <1>6 DEF Injection, IsInjective
<1>8. IsFiniteSet(1..Cardinality(F)) /\ Cardinality(1..Cardinality(F)) = Cardinality(F)
  BY <1>1, FS_Interval
<1>9. g \in Surjection(F, 1..Cardinality(F))
  BY <1>7, <1>8, FS_Injection
<1>10. \A n \in 1..Cardinality(F) : \E x \in F : Rank(F, x) = n
  BY <1>6, <1>9 DEF Surjection
<1> QED BY <1>1, <1>3, <1>5, <1>10

\* The lists that uv__inotify_fork() makes are those of the parent by path.
LEMMA EventForkKeeps ==
  ASSUME InoInv, uv__inotify_fork
  PROVE  InoInv'
<1>1. /\ InoTypes(watcher_lists, ev, walk, kernel, last_wd, ev_due, told)
      /\ Placed(watcher_lists, ev, walk) /\ Listed(watcher_lists, ev, walk, 0)
      /\ Walking(watcher_lists, ev, walk, ev_due, told) /\ PathsListed(watcher_lists, kernel)
  BY DEF InoInv, InoOk
<1>2. walk.wd = 0 /\ walk' = walk /\ ev_due' = ev_due /\ told' = told
  BY DEF uv__inotify_fork
<1>3. PICK cut \in 0..last_wd :
       LET ok == {w \in DOMAIN watcher_lists : w <= cut}
           First(p) == Min({w \in ok : watcher_lists[w].path = p})
           firsts == {First(watcher_lists[w].path) : w \in ok}
           NewWd(w) == Cardinality({f \in firsts : f <= First(watcher_lists[w].path)})
           Joined(p) == FlattenSeq([w \in 1..cut |->
                          IF w \in ok /\ watcher_lists[w].path = p THEN watcher_lists[w].watchers ELSE << >>])
       IN /\ watcher_lists' = [n \in 1..Cardinality(firsts) |->
                         LET p == watcher_lists[CHOOSE f \in firsts : NewWd(f) = n].path IN
                         [watchers |-> Joined(p), iterating |-> 0, path |-> p]]
          /\ ev' = [h \in FsHandles |->
                      IF ev[h].wd \in ok THEN [ev[h] EXCEPT !.wd = NewWd(ev[h].wd)]
                      ELSE [ev[h] EXCEPT !.active = 0, !.wd = 0]]
          /\ kernel' = [p \in Paths |->
                          IF \E w \in ok : watcher_lists[w].path = p
                          THEN NewWd(CHOOSE w \in ok : watcher_lists[w].path = p) ELSE 0]
          /\ last_wd' = Cardinality(firsts)
  BY DEF uv__inotify_fork
<1> DEFINE ok == {w \in DOMAIN watcher_lists : w <= cut}
           First(p) == Min({w \in ok : watcher_lists[w].path = p})
           firsts == {First(watcher_lists[w].path) : w \in ok}
           NewWd(w) == Cardinality({f \in firsts : f <= First(watcher_lists[w].path)})
           Joined(p) == FlattenSeq([w \in 1..cut |->
                          IF w \in ok /\ watcher_lists[w].path = p THEN watcher_lists[w].watchers ELSE << >>])
           C(n) == CHOOSE f \in firsts : NewWd(f) = n
           N == Cardinality(firsts)
<1>4. /\ watcher_lists' = [n \in 1..N |->
            [watchers |-> Joined(watcher_lists[C(n)].path), iterating |-> 0,
             path |-> watcher_lists[C(n)].path]]
      /\ ev' = [h \in FsHandles |->
                  IF ev[h].wd \in ok THEN [ev[h] EXCEPT !.wd = NewWd(ev[h].wd)]
                  ELSE [ev[h] EXCEPT !.active = 0, !.wd = 0]]
      /\ kernel' = [p \in Paths |->
                      IF \E w \in ok : watcher_lists[w].path = p
                      THEN NewWd(CHOOSE w \in ok : watcher_lists[w].path = p) ELSE 0]
      /\ last_wd' = N
  BY <1>3
<1>5. /\ last_wd \in Nat /\ cut \in Nat /\ ok \subseteq DOMAIN watcher_lists
      /\ ok \subseteq 1..cut /\ ok \subseteq 1..last_wd /\ ok \in SUBSET Nat /\ 0 \notin ok
  BY <1>1 DEF InoTypes
<1>6. \A w \in ok : watcher_lists[w] \in WatcherLists
  BY <1>1 DEF InoTypes
<1> HIDE DEF ok
<1>7. ASSUME NEW w \in ok
      PROVE  /\ First(watcher_lists[w].path) \in ok
             /\ watcher_lists[First(watcher_lists[w].path)].path = watcher_lists[w].path
             /\ First(watcher_lists[w].path) \in firsts
  <2>1. PICK T : T = {v \in ok : watcher_lists[v].path = watcher_lists[w].path}
    OBVIOUS
  <2>2. T \in SUBSET Nat /\ T # {}
    BY <1>5, <2>1
  <2>3. Min(T) \in T
    BY <2>2, LeastOf
  <2> QED BY <2>1, <2>3
<1> HIDE DEF First
<1>8. firsts \subseteq ok /\ IsFiniteSet(firsts) /\ firsts \in SUBSET Nat
  <2>1. firsts \in SUBSET (1..last_wd) /\ firsts \subseteq ok
    BY <1>5, <1>7
  <2>2. IsFiniteSet(1..last_wd)
    BY <1>5, FS_Interval
  <2> HIDE DEF firsts
  <2>3. IsFiniteSet(firsts)
    BY <2>1, <2>2, FS_Subset
  <2> QED BY <1>5, <2>1, <2>3
<1>9. \A f \in firsts : First(watcher_lists[f].path) = f
  BY <1>7
<1>10. \A w \in ok : NewWd(w) = Rank(firsts, First(watcher_lists[w].path))
  BY DEF Rank
<1> HIDE DEF firsts, NewWd
<1>11. /\ N \in Nat
       /\ \A x \in firsts : Rank(firsts, x) \in 1..N
       /\ \A x, y \in firsts : Rank(firsts, x) = Rank(firsts, y) => x = y
       /\ \A n \in 1..N : \E x \in firsts : Rank(firsts, x) = n
  BY <1>8, Ranks
<1> HIDE DEF N
<1>12. \A w \in ok : NewWd(w) \in 1..N
  BY <1>7, <1>10, <1>11
<1>13. \A n \in 1..N : C(n) \in firsts /\ NewWd(C(n)) = n
  BY <1>8, <1>9, <1>10, <1>11
<1> HIDE DEF C
<1>14. \A n \in 1..N : Rank(firsts, C(n)) = n
  BY <1>8, <1>9, <1>10, <1>13
<1>15. \A w \in ok : C(NewWd(w)) = First(watcher_lists[w].path)
  BY <1>7, <1>10, <1>11, <1>12, <1>13, <1>14
<1>16. ASSUME NEW p
       PROVE  /\ Joined(p) \in Seq(FsHandles) /\ NoDup(Joined(p))
              /\ \A x : x \in In(Joined(p))
                        <=> \E w \in ok : watcher_lists[w].path = p /\ x \in In(watcher_lists[w].watchers)
  <2>1. PICK ss : ss = [w \in 1..cut |-> IF w \in ok /\ watcher_lists[w].path = p
                                         THEN watcher_lists[w].watchers ELSE << >>]
    OBVIOUS
  <2>2. \A w \in 1..cut : ss[w] = IF w \in ok /\ watcher_lists[w].path = p
                                  THEN watcher_lists[w].watchers ELSE << >>
    BY <2>1
  <2>3. \A w \in 1..cut : ss[w] \in Seq(FsHandles) /\ NoDup(ss[w])
    BY <1>1, <1>5, <1>6, <2>2, EmptyList DEF Listed, WatcherLists
  <2>4. ss \in [1..cut -> Seq(FsHandles)]
    BY <2>1, <2>3
  <2>5. ss \in Seq(Seq(FsHandles)) /\ Len(ss) = cut
    BY <1>5, <2>4
  <2>6. \A w \in 1..cut : \A x : x \in In(ss[w]) <=> w \in ok /\ watcher_lists[w].path = p
                                                /\ x \in In(watcher_lists[w].watchers)
    BY <2>2, EmptyList
  <2>7. \A w, v \in 1..cut : w # v => In(ss[w]) \cap In(ss[v]) = {}
    <3>1. \A w \in ok : \A x \in In(watcher_lists[w].watchers) : ev[x].wd = w
      BY <1>1, <1>5 DEF Listed
    <3> QED BY <2>6, <3>1
  <2>8. /\ FlattenSeq(ss) \in Seq(FsHandles) /\ NoDup(FlattenSeq(ss))
        /\ \A x : x \in In(FlattenSeq(ss)) <=> \E w \in 1..cut : x \in In(ss[w])
    BY <2>3, <2>5, <2>7, Flattened
  <2>9. Joined(p) = FlattenSeq(ss)
    BY <2>1
  <2> HIDE DEF Joined
  <2> QED BY <1>5, <2>6, <2>8, <2>9
<1> HIDE DEF Joined
<1>17. PICK ls, e, k : ls = watcher_lists' /\ e = ev' /\ k = kernel'
  OBVIOUS
<1>18. /\ DOMAIN ls = 1..N
       /\ \A n \in 1..N :
            ls[n] = [watchers |-> Joined(watcher_lists[C(n)].path), iterating |-> 0,
                     path |-> watcher_lists[C(n)].path]
  BY <1>4, <1>17
<1>19. \A n \in 1..N : /\ ls[n].watchers = Joined(watcher_lists[C(n)].path)
                       /\ ls[n].iterating = 0 /\ ls[n] \in WatcherLists
  <2> SUFFICES ASSUME NEW n \in 1..N
               PROVE  /\ ls[n].watchers = Joined(watcher_lists[C(n)].path)
                      /\ ls[n].iterating = 0 /\ ls[n] \in WatcherLists
    OBVIOUS
  <2>1. Joined(watcher_lists[C(n)].path) \in Seq(FsHandles)
    BY <1>16
  <2>2. watcher_lists[C(n)].path \in Paths
    BY <1>6, <1>8, <1>13 DEF WatcherLists
  <2> QED BY <1>18, <2>1, <2>2 DEF WatcherLists
<1>20. /\ e \in [FsHandles -> FsEvents]
       /\ \A h \in FsHandles :
            /\ ev[h].wd \in ok => e[h].active = ev[h].active /\ e[h].wd = NewWd(ev[h].wd)
            /\ ev[h].wd \notin ok => e[h].active = 0 /\ e[h].wd = 0
  <2>1. ASSUME NEW h \in FsHandles
        PROVE  /\ e[h] \in FsEvents
               /\ ev[h].wd \in ok => e[h].active = ev[h].active /\ e[h].wd = NewWd(ev[h].wd)
               /\ ev[h].wd \notin ok => e[h].active = 0 /\ e[h].wd = 0
    <3>1. ev[h] \in FsEvents
      BY <1>1 DEF InoTypes
    <3>2. CASE ev[h].wd \in ok
      <4>1. e[h] = [ev[h] EXCEPT !.wd = NewWd(ev[h].wd)]
        BY <1>4, <1>17, <3>2
      <4>2. NewWd(ev[h].wd) \in Nat
        BY <1>11, <1>12, <3>2
      <4> QED BY <3>1, <3>2, <4>1, <4>2 DEF FsEvents
    <3>3. CASE ev[h].wd \notin ok
      BY <1>4, <1>17, <3>3, <3>1 DEF FsEvents
    <3> QED BY <3>2, <3>3
  <2>2. DOMAIN e = FsHandles /\ e = [h \in FsHandles |-> e[h]]
    BY <1>4, <1>17
  <2> QED BY <2>1, <2>2
<1>21. k \in [Paths -> Nat] /\ \A p \in Paths : k[p] # 0 => k[p] \in 1..N
  <2>1. ASSUME NEW p \in Paths PROVE k[p] = 0 \/ k[p] \in 1..N
    <3>1. CASE \E w \in ok : watcher_lists[w].path = p
      BY <3>1, <1>4, <1>17, <1>12
    <3>2. CASE ~ \E w \in ok : watcher_lists[w].path = p
      BY <1>4, <1>17, <3>2
    <3> QED BY <3>1, <3>2
  <2>2. k = [p \in Paths |-> k[p]]
    BY <1>4, <1>17
  <2>3. \A p \in Paths : k[p] \in Nat
    BY <1>11, <2>1
  <2> QED BY <2>1, <2>2, <2>3
<1>22. ev_due = {} /\ walk.queue = <<>> /\ walk.cb = 0 /\ walk \in Walks
  BY <1>1, <1>2, EmptyList DEF Walking, InoTypes
<1>23. InoTypes(ls, e, walk, k, N, ev_due, told)
  BY <1>4, <1>17, <1>1, <1>11, <1>18, <1>19, <1>20, <1>21, <1>22 DEF InoTypes
<1>24. Placed(ls, e, walk)
  <2> SUFFICES ASSUME NEW h \in FsHandles
               PROVE  /\ e[h].active = 0 => e[h].wd = 0
                      /\ e[h].active = 1 =>
                           e[h].wd \in DOMAIN ls /\ h \in In(ls[e[h].wd].watchers)
    BY DEF Placed
  <2>1. CASE ev[h].wd \notin ok
    BY <1>20, <2>1
  <2>2. CASE ev[h].wd \in ok
    <3>1. e[h].active = ev[h].active /\ e[h].wd = NewWd(ev[h].wd)
      BY <1>20, <2>2
    <3>2. ev[h].active = 1
      BY <1>1, <1>5, <2>2 DEF InoTypes, FsEvents, Placed
    <3>3. h \in In(watcher_lists[ev[h].wd].watchers)
      BY <1>1, <1>22, <3>2, EmptyList DEF Placed
    <3>4. e[h].wd \in 1..N /\ C(e[h].wd) = First(watcher_lists[ev[h].wd].path)
      BY <1>12, <1>15, <2>2, <3>1
    <3>5. watcher_lists[C(e[h].wd)].path = watcher_lists[ev[h].wd].path
      BY <1>7, <2>2, <3>4
    <3>6. h \in In(ls[e[h].wd].watchers)
      BY <1>16, <1>19, <2>2, <3>3, <3>4, <3>5
    <3> QED BY <1>18, <3>1, <3>2, <3>4, <3>6
  <2> QED BY <2>1, <2>2
<1>25. Listed(ls, e, walk, 0)
  <2> SUFFICES ASSUME NEW n \in DOMAIN ls
               PROVE  /\ NoDup(ls[n].watchers)
                      /\ \A h \in In(ls[n].watchers) : e[h].active = 1 /\ e[h].wd = n
                      /\ ls[n].iterating = 0 /\ n # 0
                      /\ ls[n].watchers # <<>>
    BY <1>2 DEF Listed
  <2>1. n \in 1..N /\ n # 0
    BY <1>11, <1>18
  <2>2. C(n) \in firsts /\ C(n) \in ok /\ NewWd(C(n)) = n /\ First(watcher_lists[C(n)].path) = C(n)
    BY <1>8, <1>9, <1>13, <2>1
  <2>3. ASSUME NEW h \in In(ls[n].watchers) PROVE e[h].active = 1 /\ e[h].wd = n
    <3>1. PICK w \in ok : /\ watcher_lists[w].path = watcher_lists[C(n)].path
                          /\ h \in In(watcher_lists[w].watchers)
      BY <1>16, <1>19, <2>1, <2>3
    <3>2. ev[h].active = 1 /\ ev[h].wd = w
      BY <1>1, <1>5, <3>1 DEF Listed
    <3>3. h \in FsHandles
      BY <1>6, <3>1 DEF WatcherLists, In
    <3>4. NewWd(w) = NewWd(C(n))
      BY <1>10, <2>2, <3>1
    <3> QED BY <1>20, <2>2, <3>2, <3>3, <3>4
  <2>4. ls[n].watchers # <<>>
    <3>1. watcher_lists[C(n)].watchers # <<>>
      BY <1>1, <1>2, <1>5, <2>2 DEF Listed
    <3>2. watcher_lists[C(n)].watchers \in Seq(FsHandles)
      BY <1>6, <2>2 DEF WatcherLists
    <3>3. PICK q : q = watcher_lists[C(n)].watchers
      OBVIOUS
    <3>4. 1 \in DOMAIN q
      BY <3>1, <3>2, <3>3
    <3>5. q[1] \in In(q)
      BY <3>4 DEF In
    <3>6. q[1] \in In(ls[n].watchers)
      BY <1>16, <1>19, <2>1, <2>2, <3>3, <3>5
    <3> QED BY <3>6, EmptyList
  <2>5. NoDup(ls[n].watchers) /\ ls[n].iterating = 0
    BY <1>16, <1>19, <2>1
  <2> QED BY <2>1, <2>3, <2>4, <2>5
<1>26. Walking(ls, e, walk, ev_due, told)
  BY <1>1, <1>2, <1>22 DEF Walking
<1>27. PathsListed(ls, k)
  BY <1>18, <1>21 DEF PathsListed
<1>28. InoOk(ls, e, walk, k, N, ev_due, told, 0)
  BY <1>23, <1>24, <1>25, <1>26, <1>27 DEF InoOk
<1> QED BY <1>2, <1>4, <1>17, <1>28 DEF InoInv

\* What a step of the handles does: it keeps the lists sound, tells the head of
\* the queue and no other, and leaves the walk only when that queue is empty.
LEMMA InotifyStep ==
  ASSUME InoInv, [InotifyNext]_ino_vars
  PROVE  /\ InoInv'
         /\ walk.cb = 0 /\ walk'.cb = 1 =>
              \E h \in ev_due \ told : told' = told \cup {h} /\ ev[h].active = 1
         /\ walk.wd # 0 /\ walk'.wd = 0 => ev_due = {}
<1>0. walk \in Walks
  BY DEF InoInv, InoOk, InoTypes
<1>1. ASSUME NEW h \in FsHandles, NEW p \in Paths, uv_fs_event_start(h, p)
      PROVE  InoInv' /\ walk'.cb = walk.cb /\ walk'.wd = walk.wd
  BY <1>1, EventStartKeeps DEF uv_fs_event_start
<1>2. ASSUME NEW h \in FsHandles, uv_fs_event_stop(h)
      PROVE  InoInv' /\ walk'.cb = walk.cb /\ walk'.wd = walk.wd
  BY <1>0, <1>2, EventStopKeeps DEF uv_fs_event_stop, Stop, Walks
<1>3. ASSUME NEW h \in FsHandles, uv__fs_event_close(h)
      PROVE  InoInv' /\ walk'.cb = walk.cb /\ walk'.wd = walk.wd
  BY <1>0, <1>3, EventCloseKeeps DEF uv__fs_event_close, Stop, Walks
<1>4. ASSUME NEW wd \in 1..MaxWd, ReadEvent(wd)
      PROVE  InoInv' /\ walk'.cb = 0 /\ walk.wd = 0
  BY <1>4, ReadEventKeeps DEF ReadEvent
<1>5. CASE WalkNext
  BY <1>0, <1>5, WalkNextKeeps DEF WalkNext, Walks
<1>6. CASE WalkReturn \/ (\E p \in Paths : KernelIgnores(p))
  BY <1>0, <1>6, QuietStepsKeep DEF WalkReturn, KernelIgnores, Walks
<1>7. CASE WalkEnd
  BY <1>0, <1>7, WalkEndKeeps DEF WalkEnd, Walks
<1>8. CASE uv__inotify_fork
  <2>1. walk' = walk
    BY <1>8 DEF uv__inotify_fork
  <2> QED BY <1>8, <2>1, EventForkKeeps
<1>9. CASE UNCHANGED ino_vars
  BY <1>9 DEF ino_vars, InoInv
<1> QED BY <1>1, <1>2, <1>3, <1>4, <1>5, <1>6, <1>7, <1>8, <1>9 DEF InotifyNext

LEMMA InoInvSound == InoInv => ListsSound
<1> SUFFICES ASSUME InoInv PROVE ListsSound
  OBVIOUS
<1>1. /\ InoTypes(watcher_lists, ev, walk, kernel, last_wd, ev_due, told)
      /\ Placed(watcher_lists, ev, walk) /\ Listed(watcher_lists, ev, walk, 0)
      /\ Walking(watcher_lists, ev, walk, ev_due, told) /\ PathsListed(watcher_lists, kernel)
  BY DEF InoInv, InoOk
<1>2. ASSUME NEW h \in FsHandles, ev[h].active = 1
      PROVE  /\ ev[h].wd \in DOMAIN watcher_lists
             /\ (h \in In(watcher_lists[ev[h].wd].watchers))
                # (walk.wd = ev[h].wd /\ h \in In(walk.queue))
  BY <1>1, <1>2 DEF Placed, Walking
<1>3. ASSUME NEW wd \in DOMAIN watcher_lists
      PROVE  /\ \A h \in In(watcher_lists[wd].watchers) : ev[h].active = 1 /\ ev[h].wd = wd
             /\ Len(watcher_lists[wd].watchers) = Cardinality(In(watcher_lists[wd].watchers))
             /\ watcher_lists[wd].watchers = <<>> => walk.wd = wd
  BY <1>1, ListLength DEF InoTypes, WatcherLists, Listed
<1> QED BY <1>1, <1>2, <1>3 DEF ListsSound, Walking, PathsListed

\* Through starts, stops, closes and forks from anywhere, an active handle is
\* linked once, no list is freed under its walk or left behind, and an event is
\* told once to every handle that watched when it was read and still does.
THEOREM EventsTold == InotifySpec => WalkExact
<1>1. InotifyInit => InoInv
  BY InoInitInv
<1>2. InoInv /\ [InotifyNext]_ino_vars => InoInv'
  BY InotifyStep
<1>3. InoInv /\ InoInv' /\ [InotifyNext]_ino_vars
      => [/\ ListsSound'
          /\ walk.cb = 0 /\ walk'.cb = 1 =>
               \E h \in ev_due \ told : told' = told \cup {h} /\ ev[h].active = 1
          /\ walk.wd # 0 /\ walk'.wd = 0 => ev_due = {}]_ino_vars
  <2>1. InoInv' => ListsSound'
    BY InoInvSound, PTL
  <2> QED BY <2>1, InotifyStep
<1> QED BY <1>1, <1>2, <1>3, PTL DEF InotifySpec, WalkExact

-----------------------------------------------------------------------------
(* The loop, for any finite set of handles of any kinds.  ActiveCount      *)
(* alone is not inductive: uv__finish_close() drops a reference without    *)
(* touching the count, which is right only because the lists of closing    *)
(* handles hold nothing but closing handles and a closing handle is not    *)
(* active.  So the invariant says where every handle is: an active watcher *)
(* in its list or in the one being run, a closing handle in one of the two *)
(* closing lists (InClosingLists), never twice (Distinct).  A              *)
(* uv_run(UV_RUN_ONCE) that called nothing back yet owes a callback to     *)
(* something that is still there, phase by phase (Owed).                   *)

\* TypeOK in three parts
FlagTypes ==
  /\ handle_queue \subseteq Handles /\ active \subseteq handle_queue
  /\ ref \subseteq handle_queue /\ closing \subseteq handle_queue
  /\ active_handles \in Nat /\ due \subseteq active /\ waiting \subseteq Handles

ListTypes ==
  /\ watchers \in [Watchers -> Seq(Handles)]
  /\ pending_queue \in Seq(Handles) /\ closing_handles \in Seq(Handles)
  /\ queue \in Seq(Handles)

Phases == {"idle", "prepare", "check", "out", "timers", "pending", "poll", "closing",
           "timers again", "closed"}

RunTypes ==
  /\ active_reqs \in 0..MaxReqs
  /\ stop_flag \in 0..1 /\ incallback \in 0..1 /\ progress \in 0..1
  /\ ran_pending \in 0..1
  /\ phase \in Phases
  /\ mode \in {"default", "once", "nowait"} /\ timeout \in {-1, 0, 1}

LEMMA TypeParts ==
  /\ TypeOK <=> FlagTypes /\ ListTypes /\ RunTypes
  /\ TypeOK' <=> FlagTypes' /\ ListTypes' /\ RunTypes'
BY DEF TypeOK, FlagTypes, ListTypes, RunTypes, Phases, Watchers

\* The handles of the list a phase works on, or of none.
Local(p) == IF phase = p THEN In(queue) ELSE {}

OfKind(S, k) == {h \in S : Kind[h] = k}

InClosingLists ==
  /\ \A k \in Watchers : OfKind(active, k) = In(watchers[k]) \cup Local(k)
  /\ closing = In(closing_handles) \cup Local("closing")
  /\ In(pending_queue) \cup Local("pending") \subseteq OfKind(handle_queue \ closing, "stream")

Distinct ==
  /\ NoDup(queue) /\ NoDup(pending_queue) /\ NoDup(closing_handles)
  /\ \A k \in Watchers : NoDup(watchers[k]) /\ In(watchers[k]) \cap Local(k) = {}
  /\ In(closing_handles) \cap Local("closing") = {}
  /\ In(pending_queue) \cap Local("pending") = {}

Settled ==
  /\ active \cap closing = {}
  /\ \A h \in due : IsTimer(h)
  /\ phase \in Watchers => waiting = In(queue)
  /\ phase \in {"out", "closed"} => incallback = 0
  /\ phase = "closed" => handle_queue = {}

Inv == TypeOK /\ ActiveCount /\ InClosingLists /\ Distinct /\ Settled

-----------------------------------------------------------------------------
(* The count.                                                              *)

\* A set of handles is finite, and grows or shrinks by one.
LEMMA CountOne ==
  ASSUME NEW A \in SUBSET Handles, NEW h \in Handles
  PROVE  /\ Cardinality(A) \in Nat
         /\ h \notin A => Cardinality(A \cup {h}) = Cardinality(A) + 1
         /\ h \in A => Cardinality(A \ {h}) = Cardinality(A) - 1 /\ Cardinality(A) > 0
<1>1. IsFiniteSet(A)
  BY LoopAssumption, FS_Subset
<1>2. Cardinality(A) \in Nat
  BY <1>1, FS_CardinalityType
<1>3. h \notin A => Cardinality(A \cup {h}) = Cardinality(A) + 1
  BY <1>1, FS_AddElement
<1>4. h \in A => Cardinality(A \ {h}) = Cardinality(A) - 1
  BY <1>1, FS_RemoveElement
<1>5. h \in A => Cardinality(A) # 0
  BY <1>1, FS_EmptySet
<1> QED BY <1>2, <1>3, <1>4, <1>5

\* uv__handle_start() keeps the count.
LEMMA StartCounts ==
  ASSUME TypeOK, ActiveCount, NEW h \in handle_queue, uv__handle_start(h), ref' = ref
  PROVE  ActiveCount' /\ active_handles' \in Nat
<1> DEFINE A == active \cap ref
<1>1. A \subseteq Handles /\ h \in Handles
  BY DEF TypeOK
<1>2. active' \cap ref' = IF h \in ref THEN A \cup {h} ELSE A
  BY DEF uv__handle_start
<1> HIDE DEF A
<1>3. CASE h \in ref /\ h \notin active
  BY <1>1, <1>2, <1>3, CountOne DEF uv__handle_start, ActiveCount, A, TypeOK
<1>4. CASE ~(h \in ref /\ h \notin active)
  BY <1>2, <1>4 DEF A, uv__handle_start, ActiveCount, TypeOK
<1> QED BY <1>3, <1>4

\* uv__handle_stop() keeps the count.
LEMMA StopCounts ==
  ASSUME TypeOK, ActiveCount, NEW h \in Handles, uv__handle_stop(h), ref' = ref
  PROVE  ActiveCount' /\ active_handles' \in Nat
<1> DEFINE A == active \cap ref
<1>1. A \subseteq Handles
  BY DEF TypeOK
<1>3. CASE h \in A
  BY <1>1, <1>3, CountOne DEF uv__handle_stop, ActiveCount
<1>4. CASE h \notin A
  BY <1>4 DEF uv__handle_stop, ActiveCount, TypeOK
<1> QED BY <1>3, <1>4

\* uv_ref() and uv_unref() keep the count, when no closing handle is active.
LEMMA RefCounts ==
  ASSUME Inv, NEW h \in Handles, uv__handle_ref(h) \/ uv__handle_unref(h)
  PROVE  ActiveCount' /\ active_handles' \in Nat
<1> DEFINE A == active \cap ref
<1>1. A \subseteq Handles
  BY DEF Inv, TypeOK
<1>2. CASE uv__handle_ref(h)
  <2>1. CASE h \in active
    <3>1. active' \cap ref' = A \cup {h} /\ h \notin A /\ h \notin closing
      BY <1>2, <2>1 DEF uv__handle_ref, Inv, Settled
    <3>2. Cardinality(A) \in Nat /\ Cardinality(A \cup {h}) = Cardinality(A) + 1
      BY <1>1, <3>1, CountOne
    <3>3. active_handles' = active_handles + 1 /\ active_handles = Cardinality(A)
      BY <1>2, <2>1, <3>1 DEF uv__handle_ref, Inv, ActiveCount
    <3> HIDE DEF A
    <3> QED BY <3>1, <3>2, <3>3 DEF ActiveCount
  <2>2. CASE h \notin active
    BY <1>2, <2>2 DEF uv__handle_ref, Inv, ActiveCount, TypeOK
  <2> QED BY <2>1, <2>2
<1>3. CASE uv__handle_unref(h)
  <2>1. CASE h \in active
    <3>1. active' \cap ref' = A \ {h} /\ h \in A /\ h \notin closing
      BY <1>3, <2>1 DEF uv__handle_unref, Inv, Settled
    <3>2. /\ Cardinality(A) \in Nat /\ Cardinality(A) > 0
          /\ Cardinality(A \ {h}) = Cardinality(A) - 1
      BY <1>1, <3>1, CountOne
    <3>3. active_handles' = active_handles - 1 /\ active_handles = Cardinality(A)
      BY <1>3, <2>1, <3>1 DEF uv__handle_unref, Inv, ActiveCount
    <3> HIDE DEF A
    <3>4. active_handles' = Cardinality(A \ {h}) /\ active_handles' \in Nat
      BY <3>2, <3>3
    <3>5. active' \cap ref' = A \ {h}
      BY <3>1
    <3> QED BY <3>4, <3>5, Zenon DEF ActiveCount
  <2>2. CASE h \notin active
    BY <1>3, <2>2 DEF uv__handle_unref, Inv, ActiveCount, TypeOK
  <2> QED BY <2>1, <2>2
<1> QED BY <1>2, <1>3

-----------------------------------------------------------------------------
(* Steps.                                                                  *)

LEMMA InitInv == Init => Inv
<1> SUFFICES ASSUME Init PROVE Inv
  OBVIOUS
<1>1. active \cap ref = {} /\ Cardinality({}) = 0
  BY FS_EmptySet DEF Init
<1>2. TypeOK
  BY EmptyList, LoopAssumption DEF Init, TypeOK, Watchers
<1>3. InClosingLists /\ Distinct
  BY EmptyList DEF Init, InClosingLists, Distinct, Local, OfKind, Watchers
<1>4. Settled
  BY DEF Init, Settled, Watchers
<1>5. ActiveCount
  BY <1>1 DEF Init, ActiveCount
<1> QED BY <1>2, <1>3, <1>4, <1>5 DEF Inv

\* What the many steps have in common that only touch flags of timers and
\* streams, references or the progress of a phase.
Shape ==
  /\ UNCHANGED <<closing, lists, phase, waiting>>
  /\ handle_queue \subseteq handle_queue'
  /\ \A h \in Handles : Kind[h] \in Watchers => (h \in active' <=> h \in active)
  /\ active' \cap closing = {}
  /\ \A h \in due' : IsTimer(h)
  /\ phase \in {"out", "closed"} => incallback' = 0
  /\ phase = "closed" => handle_queue' = {}

LEMMA ShapeStep ==
  ASSUME Inv, Shape, FlagTypes', RunTypes', ActiveCount'
  PROVE  Inv'
<1>0. FlagTypes /\ ListTypes /\ ListTypes'
  BY TypeParts DEF Inv, Shape, ListTypes, lists
<1>1. \A k \in Watchers : OfKind(active', k) = OfKind(active, k)
  BY <1>0 DEF Shape, OfKind, FlagTypes
<1>2. InClosingLists'
  BY <1>1 DEF Inv, Shape, InClosingLists, Local, OfKind, lists
<1>3. Distinct'
  BY DEF Inv, Shape, Distinct, Local, lists
<1>4. Settled'
  BY DEF Inv, Shape, Settled, lists
<1> QED BY <1>0, <1>2, <1>3, <1>4, TypeParts DEF Inv

\* Those steps keep the invariant.
LEMMA QuietStep ==
  ASSUME Inv, NEW h \in Handles,
         \/ HandleInit(h) \/ uv_timer_start(h) \/ uv_timer_stop(h) \/ uv_read_start(h)
         \/ uv_read_stop(h) \/ uv__handle_ref(h) \/ uv__handle_unref(h)
         \/ PollStream(h) \/ TimerFire(h)
  PROVE  Inv'
<1> USE LoopAssumption DEF flags, lists, run
<1>0. FlagTypes /\ RunTypes /\ Settled /\ TypeOK /\ ActiveCount
  BY TypeParts DEF Inv
<1>1. CASE HandleInit(h)
  <2>1. Shape
    BY <1>0, <1>1 DEF HandleInit, Shape, FlagTypes, Settled, UserCode, IsTimer, Watchers
  <2>2. ActiveCount' /\ active_handles' \in Nat
    BY <1>0, <1>1 DEF HandleInit, FlagTypes, ActiveCount
  <2>3. FlagTypes'
    BY <1>0, <1>1, <2>2 DEF HandleInit, FlagTypes, IsTimer, Settled
  <2>4. RunTypes'
    BY <1>0, <1>1 DEF HandleInit, RunTypes
  <2> QED BY <2>1, <2>2, <2>3, <2>4, ShapeStep
<1>2. CASE uv_timer_start(h)
  BY <1>0, <1>2, StartCounts, ShapeStep DEF uv_timer_start, uv__handle_start, Shape, FlagTypes,
     Settled, UserCode, IsTimer, Watchers, RunTypes
<1>3. CASE uv_timer_stop(h)
  BY <1>0, <1>3, StopCounts, ShapeStep DEF uv_timer_stop, uv__handle_stop, Shape, FlagTypes,
     Settled, UserCode, IsTimer, Watchers, RunTypes
<1>4. CASE uv_read_start(h)
  BY <1>0, <1>4, StartCounts, ShapeStep DEF uv_read_start, uv__handle_start, Shape, FlagTypes,
     Settled, UserCode, IsTimer, Watchers, RunTypes
<1>5. CASE uv_read_stop(h)
  BY <1>0, <1>5, StopCounts, ShapeStep DEF uv_read_stop, uv__handle_stop, Shape, FlagTypes, Settled,
     UserCode, IsTimer, Watchers, RunTypes
<1>6. CASE uv__handle_ref(h)
  BY <1>0, <1>6, RefCounts, ShapeStep DEF uv__handle_ref, Shape, FlagTypes, Settled, UserCode,
     IsTimer, Watchers, RunTypes
<1>7. CASE uv__handle_unref(h)
  BY <1>0, <1>7, RefCounts, ShapeStep DEF uv__handle_unref, Shape, FlagTypes, Settled, UserCode,
     IsTimer, Watchers, RunTypes
<1>8. CASE PollStream(h)
  <2>1. Shape
    BY <1>0, <1>8 DEF PollStream, Call, uv__update_time, Shape, FlagTypes, Settled, UserCode, IsTimer, Watchers
  <2>2. ActiveCount' /\ active_handles' \in Nat
    BY <1>0, <1>8 DEF PollStream, FlagTypes, ActiveCount
  <2>3. FlagTypes'
    BY <1>0, <1>8, <2>2 DEF PollStream, Call, uv__update_time, FlagTypes, IsTimer, Settled
  <2>4. RunTypes'
    BY <1>0, <1>8 DEF PollStream, Call, uv__update_time, RunTypes
  <2> QED BY <2>1, <2>2, <2>3, <2>4, ShapeStep
<1>9. CASE TimerFire(h)
  <2>1. Shape
    BY <1>0, <1>9 DEF TimerFire, Call, uv__handle_stop, Shape, FlagTypes, Settled, UserCode, IsTimer, Watchers
  <2>2. ActiveCount' /\ active_handles' \in Nat
    BY <1>0, <1>9, StopCounts DEF TimerFire, ActiveCount, FlagTypes
  <2>3. FlagTypes'
    BY <1>0, <1>9, <2>2 DEF TimerFire, Call, uv__handle_stop, FlagTypes, IsTimer, Settled
  <2>a. /\ UNCHANGED <<active_reqs, stop_flag, phase, mode, timeout, ran_pending>>
        /\ incallback' = 1 /\ progress' = 1
    BY <1>9 DEF TimerFire, Call
  <2>4. RunTypes'
    BY <1>0, <2>a DEF RunTypes
  <2> QED BY <2>1, <2>2, <2>3, <2>4, ShapeStep
<1> QED BY <1>1, <1>2, <1>3, <1>4, <1>5, <1>6, <1>7, <1>8, <1>9

\* So do the steps that are not about one handle.
LEMMA QuietLoopStep ==
  ASSUME Inv,
         \/ uv_stop \/ uv__req_register \/ uv_update_time \/ uv_run_nothing
         \/ CallbackReturn \/ PollRequest \/ PollInternal
  PROVE  Inv'
<1> USE LoopAssumption DEF flags, lists, run
<1>0. FlagTypes /\ RunTypes /\ Settled /\ TypeOK /\ ActiveCount
  BY TypeParts DEF Inv
<1>1. CASE uv_stop
  BY <1>0, <1>1, ShapeStep DEF uv_stop, Shape, FlagTypes, Settled, UserCode, IsTimer, Watchers,
     ActiveCount, RunTypes
<1>2. CASE uv__req_register
  BY <1>0, <1>2, ShapeStep DEF uv__req_register, Shape, FlagTypes, Settled, UserCode, IsTimer,
     Watchers, ActiveCount, RunTypes
<1>3. CASE uv_update_time
  <2>1. Shape
    BY <1>0, <1>3 DEF uv_update_time, uv__update_time, Shape, FlagTypes, Settled, UserCode, IsTimer, Watchers
  <2>2. ActiveCount' /\ active_handles' \in Nat
    BY <1>0, <1>3 DEF uv_update_time, FlagTypes, ActiveCount
  <2>3. FlagTypes'
    BY <1>0, <1>3, <2>2 DEF uv_update_time, uv__update_time, FlagTypes, IsTimer, Settled
  <2>4. RunTypes'
    BY <1>0, <1>3 DEF uv_update_time, uv__update_time, RunTypes
  <2> QED BY <2>1, <2>2, <2>3, <2>4, ShapeStep
<1>4. CASE uv_run_nothing
  <2>1. Shape
    BY <1>0, <1>4 DEF uv_run_nothing, uv__update_time, Shape, FlagTypes, Settled, UserCode, IsTimer, Watchers
  <2>2. ActiveCount' /\ active_handles' \in Nat
    BY <1>0, <1>4 DEF uv_run_nothing, FlagTypes, ActiveCount
  <2>3. FlagTypes'
    BY <1>0, <1>4, <2>2 DEF uv_run_nothing, uv__update_time, FlagTypes, IsTimer, Settled
  <2>4. RunTypes'
    BY <1>0, <1>4 DEF uv_run_nothing, uv__update_time, RunTypes
  <2> QED BY <2>1, <2>2, <2>3, <2>4, ShapeStep
<1>5. CASE CallbackReturn
  BY <1>0, <1>5, ShapeStep DEF CallbackReturn, Shape, FlagTypes, Settled, UserCode, IsTimer,
     Watchers, ActiveCount, RunTypes
<1>6. CASE PollRequest
  <2>1. Shape
    BY <1>0, <1>6 DEF PollRequest, Call, uv__update_time, Shape, FlagTypes, Settled, UserCode, IsTimer, Watchers
  <2>2. ActiveCount' /\ active_handles' \in Nat
    BY <1>0, <1>6 DEF PollRequest, FlagTypes, ActiveCount
  <2>3. FlagTypes'
    BY <1>0, <1>6, <2>2 DEF PollRequest, Call, uv__update_time, FlagTypes, IsTimer, Settled
  <2>4. RunTypes'
    BY <1>0, <1>6 DEF PollRequest, Call, uv__update_time, RunTypes
  <2> QED BY <2>1, <2>2, <2>3, <2>4, ShapeStep
<1>7. CASE PollInternal
  <2>1. Shape
    BY <1>0, <1>7 DEF PollInternal, uv__update_time, Shape, FlagTypes, Settled, UserCode, IsTimer, Watchers
  <2>2. ActiveCount' /\ active_handles' \in Nat
    BY <1>0, <1>7 DEF PollInternal, FlagTypes, ActiveCount
  <2>3. FlagTypes'
    BY <1>0, <1>7, <2>2 DEF PollInternal, uv__update_time, FlagTypes, IsTimer, Settled
  <2>4. RunTypes'
    BY <1>0, <1>7 DEF PollInternal, uv__update_time, RunTypes
  <2> QED BY <2>1, <2>2, <2>3, <2>4, ShapeStep
<1> QED BY <1>1, <1>2, <1>3, <1>4, <1>5, <1>6, <1>7

\* A step of the lists keeps the invariant: uv__io_feed()
LEMMA FeedStep == ASSUME Inv, NEW h \in Handles, uv__io_feed(h) PROVE Inv'
<1> USE LoopAssumption DEF flags, lists, run
<1>0. /\ FlagTypes /\ ListTypes /\ RunTypes /\ TypeOK
      /\ ActiveCount /\ InClosingLists /\ Distinct /\ Settled
  BY TypeParts DEF Inv
<1>1. /\ pending_queue' \in Seq(Handles) /\ In(pending_queue') = In(pending_queue) \cup {h}
      /\ NoDup(pending_queue')
  BY <1>0, InsertTail DEF uv__io_feed, ListTypes, Distinct
<1>2. ActiveCount' /\ active_handles' \in Nat
  BY <1>0 DEF uv__io_feed, ActiveCount, FlagTypes
<1>3. FlagTypes'
  BY <1>0, <1>1, <1>2 DEF uv__io_feed, FlagTypes, IsTimer, Settled, Watchers
<1>4. ListTypes'
  BY <1>0, <1>1, EmptyList DEF uv__io_feed, ListTypes, FlagTypes, Watchers
<1>5. RunTypes'
  BY <1>0, <1>1 DEF uv__io_feed, RunTypes, Phases, Watchers
<1>6. InClosingLists'
  BY <1>0, <1>1, EmptyList DEF uv__io_feed, InClosingLists, Local, OfKind, Watchers, FlagTypes, Settled
<1>7. Distinct'
  BY <1>0, <1>1, EmptyList DEF uv__io_feed, InClosingLists, Distinct, Local, OfKind, Watchers
<1>8. Settled'
  BY <1>0, <1>1, EmptyList DEF uv__io_feed, Settled, InClosingLists, Local, OfKind, Watchers, UserCode, FlagTypes
<1> QED BY <1>2, <1>3, <1>4, <1>5, <1>6, <1>7, <1>8, TypeParts DEF Inv

\* A step of the lists keeps the invariant: uv_idle_start()
LEMMA WatcherStartStep == ASSUME Inv, NEW h \in Handles, WatcherStart(h) PROVE Inv'
<1> USE LoopAssumption DEF flags, lists, run
<1>0. /\ FlagTypes /\ ListTypes /\ RunTypes /\ TypeOK
      /\ ActiveCount /\ InClosingLists /\ Distinct /\ Settled
  BY TypeParts DEF Inv
<1>1. /\ Kind[h] \in Watchers /\ h \notin In(watchers[Kind[h]]) \cup Local(Kind[h])
      /\ watchers'[Kind[h]] \in Seq(Handles)
      /\ In(watchers'[Kind[h]]) = In(watchers[Kind[h]]) \cup {h}
      /\ NoDup(watchers'[Kind[h]])
      /\ \A k \in Watchers \ {Kind[h]} : watchers'[k] = watchers[k]
      /\ UNCHANGED <<handle_queue, closing, pending_queue, closing_handles, queue, phase>>
      /\ h \in handle_queue \ closing /\ active' = active \cup {h}
  BY <1>0, InsertHead DEF WatcherStart, InClosingLists, OfKind, ListTypes, Distinct,
     uv__handle_start
<1>2. ActiveCount' /\ active_handles' \in Nat
  BY <1>0, StartCounts DEF WatcherStart
<1>3. FlagTypes'
  BY <1>0, <1>1, <1>2 DEF WatcherStart, uv__handle_start, FlagTypes, IsTimer, Settled, Watchers
<1>4. ListTypes'
  BY <1>0, <1>1, EmptyList DEF WatcherStart, uv__handle_start, ListTypes, FlagTypes, Watchers
<1>5. RunTypes'
  BY <1>0, <1>1 DEF WatcherStart, uv__handle_start, RunTypes, Phases, Watchers
<1>6. InClosingLists'
  BY <1>0, <1>1, EmptyList DEF InClosingLists, Local, OfKind, Watchers, FlagTypes, Settled
<1>7. Distinct'
  BY <1>0, <1>1, EmptyList DEF InClosingLists, Distinct, Local, OfKind, Watchers
<1>8. Settled'
  BY <1>0, <1>1, EmptyList DEF WatcherStart, uv__handle_start, Settled, InClosingLists, Local, OfKind, Watchers, UserCode, FlagTypes
<1> QED BY <1>2, <1>3, <1>4, <1>5, <1>6, <1>7, <1>8, TypeParts DEF Inv

\* A step of the lists keeps the invariant: uv_idle_stop()
LEMMA WatcherStopStep == ASSUME Inv, NEW h \in Handles, WatcherStop(h) PROVE Inv'
<1> USE LoopAssumption DEF flags, lists, run
<1>0. /\ FlagTypes /\ ListTypes /\ RunTypes /\ TypeOK
      /\ ActiveCount /\ InClosingLists /\ Distinct /\ Settled
  BY TypeParts DEF Inv
<1>1. /\ \A k \in Watchers : /\ watchers'[k] \in Seq(Handles)
                            /\ In(watchers'[k]) = In(watchers[k]) \ {h}
                            /\ NoDup(watchers'[k])
      /\ queue' \in Seq(Handles) /\ In(queue') = In(queue) \ {h} /\ NoDup(queue')
  BY <1>0, Unlinked DEF WatcherStop, Unlink, ListTypes, Distinct
<1>2. ActiveCount' /\ active_handles' \in Nat
  BY <1>0, StopCounts DEF WatcherStop
<1>3. FlagTypes'
  BY <1>0, <1>1, <1>2 DEF WatcherStop, Unlink, uv__handle_stop, FlagTypes, IsTimer, Settled, Watchers
<1>4. ListTypes'
  BY <1>0, <1>1, EmptyList DEF WatcherStop, Unlink, uv__handle_stop, ListTypes, FlagTypes, Watchers
<1>5. RunTypes'
  BY <1>0, <1>1 DEF WatcherStop, Unlink, uv__handle_stop, RunTypes, Phases, Watchers
<1>6. InClosingLists'
  BY <1>0, <1>1, EmptyList DEF WatcherStop, Unlink, uv__handle_stop, InClosingLists, Local, OfKind, Watchers, FlagTypes, Settled
<1>7. Distinct'
  BY <1>0, <1>1, EmptyList DEF WatcherStop, Unlink, uv__handle_stop, InClosingLists, Distinct, Local, OfKind, Watchers
<1>8. Settled'
  BY <1>0, <1>1, EmptyList DEF WatcherStop, Unlink, uv__handle_stop, Settled, InClosingLists, Local, OfKind, Watchers, UserCode, FlagTypes
<1> QED BY <1>2, <1>3, <1>4, <1>5, <1>6, <1>7, <1>8, TypeParts DEF Inv

\* A step of the lists keeps the invariant: uv_close()
LEMMA CloseStep == ASSUME Inv, NEW h \in Handles, uv_close(h) PROVE Inv'
<1> USE LoopAssumption DEF flags, lists, run
<1>0. /\ FlagTypes /\ ListTypes /\ RunTypes /\ TypeOK
      /\ ActiveCount /\ InClosingLists /\ Distinct /\ Settled
  BY TypeParts DEF Inv
<1>1. /\ \A k \in Watchers : /\ watchers'[k] \in Seq(Handles)
                            /\ In(watchers'[k]) = In(watchers[k]) \ {h}
                            /\ NoDup(watchers'[k])
      /\ queue' \in Seq(Handles) /\ In(queue') = In(queue) \ {h} /\ NoDup(queue')
      /\ pending_queue' \in Seq(Handles) /\ NoDup(pending_queue')
      /\ In(pending_queue') = In(pending_queue) \ {h}
      /\ h \notin In(closing_handles) \cup Local("closing")
      /\ closing_handles' \in Seq(Handles) /\ NoDup(closing_handles')
      /\ In(closing_handles') = In(closing_handles) \cup {h}
  BY <1>0, InsertHead, Unlinked DEF uv_close, InClosingLists, uv__make_close_pending, ListTypes,
     Distinct, Discard, Unlink
<1>2. ActiveCount' /\ active_handles' \in Nat
  BY <1>0, StopCounts DEF uv_close, Discard
<1>3. FlagTypes'
  BY <1>0, <1>1, <1>2 DEF uv_close, Discard, Unlink, uv__handle_stop, FlagTypes, IsTimer, Settled, Watchers
<1>4. ListTypes'
  BY <1>0, <1>1, EmptyList DEF uv_close, Discard, Unlink, uv__handle_stop, ListTypes, FlagTypes, Watchers
<1>5. RunTypes'
  BY <1>0, <1>1 DEF uv_close, Discard, Unlink, uv__handle_stop, RunTypes, Phases, Watchers
<1>6. InClosingLists'
  BY <1>0, <1>1, EmptyList DEF uv_close, Discard, Unlink, uv__handle_stop, InClosingLists, Local, OfKind, Watchers, FlagTypes, Settled
<1>7. Distinct'
  BY <1>0, <1>1, EmptyList DEF uv_close, Discard, Unlink, uv__handle_stop, InClosingLists, Distinct, Local, OfKind, Watchers
<1>8. Settled'
  BY <1>0, <1>1, EmptyList DEF uv_close, Discard, Unlink, uv__handle_stop, Settled, InClosingLists, Local, OfKind, Watchers, UserCode, FlagTypes
<1> QED BY <1>2, <1>3, <1>4, <1>5, <1>6, <1>7, <1>8, TypeParts DEF Inv

\* A step of the lists keeps the invariant: uv_loop_close()
LEMMA LoopCloseStep == ASSUME Inv, uv_loop_close PROVE Inv'
<1> USE LoopAssumption DEF flags, lists, run
<1>0. /\ FlagTypes /\ ListTypes /\ RunTypes /\ TypeOK
      /\ ActiveCount /\ InClosingLists /\ Distinct /\ Settled
  BY TypeParts DEF Inv
<1>1. phase = "out" /\ phase' = "closed" /\ handle_queue = {}
  BY DEF uv_loop_close
<1>2. ActiveCount' /\ active_handles' \in Nat
  BY <1>0 DEF uv_loop_close, ActiveCount, FlagTypes
<1>3. FlagTypes'
  BY <1>0, <1>1, <1>2 DEF uv_loop_close, FlagTypes, IsTimer, Settled, Watchers
<1>4. ListTypes'
  BY <1>0, <1>1, EmptyList DEF uv_loop_close, ListTypes, FlagTypes, Watchers
<1>5. RunTypes'
  BY <1>0, <1>1 DEF uv_loop_close, RunTypes, Phases, Watchers
<1>6. InClosingLists'
  BY <1>0, <1>1, EmptyList DEF uv_loop_close, InClosingLists, Local, OfKind, Watchers, FlagTypes, Settled
<1>7. Distinct'
  BY <1>0, <1>1, EmptyList DEF uv_loop_close, InClosingLists, Distinct, Local, OfKind, Watchers
<1>8. Settled'
  BY <1>0, <1>1, EmptyList DEF uv_loop_close, Settled, InClosingLists, Local, OfKind, Watchers, UserCode, FlagTypes
<1> QED BY <1>2, <1>3, <1>4, <1>5, <1>6, <1>7, <1>8, TypeParts DEF Inv

\* A step of the lists keeps the invariant: uv_run()
LEMMA RunStep == ASSUME Inv, NEW m \in {"default", "once", "nowait"}, uv_run(m) PROVE Inv'
<1> USE LoopAssumption DEF flags, lists, run
<1>0. /\ FlagTypes /\ ListTypes /\ RunTypes /\ TypeOK
      /\ ActiveCount /\ InClosingLists /\ Distinct /\ Settled
  BY TypeParts DEF Inv
<1>1. /\ phase = "out" /\ phase' = "timers"
      /\ due' \subseteq active /\ \A h \in due' : IsTimer(h)
  BY <1>0 DEF uv_run, RunTimers, uv__update_time, FlagTypes, Settled
<1>2. ActiveCount' /\ active_handles' \in Nat
  BY <1>0 DEF uv_run, ActiveCount, FlagTypes
<1>3. FlagTypes'
  BY <1>0, <1>1, <1>2 DEF uv_run, RunTimers, FlagTypes, IsTimer, Settled, Watchers
<1>4. ListTypes'
  BY <1>0, <1>1, EmptyList DEF uv_run, RunTimers, ListTypes, FlagTypes, Watchers
<1>5. RunTypes'
  BY <1>0, <1>1 DEF uv_run, RunTimers, RunTypes, Phases, Watchers
<1>6. InClosingLists'
  BY <1>0, <1>1, EmptyList DEF uv_run, RunTimers, InClosingLists, Local, OfKind, Watchers, FlagTypes, Settled
<1>7. Distinct'
  BY <1>0, <1>1, EmptyList DEF uv_run, RunTimers, InClosingLists, Distinct, Local, OfKind, Watchers
<1>8. Settled'
  BY <1>0, <1>1, EmptyList DEF uv_run, RunTimers, Settled, InClosingLists, Local, OfKind, Watchers, UserCode, FlagTypes
<1> QED BY <1>2, <1>3, <1>4, <1>5, <1>6, <1>7, <1>8, TypeParts DEF Inv

\* A step of the lists keeps the invariant: the pending queue is taken over
LEMMA TimersEndStep == ASSUME Inv, TimersEnd PROVE Inv'
<1> USE LoopAssumption DEF flags, lists, run
<1>0. /\ FlagTypes /\ ListTypes /\ RunTypes /\ TypeOK
      /\ ActiveCount /\ InClosingLists /\ Distinct /\ Settled
  BY TypeParts DEF Inv
<1>1. queue' \in Seq(Handles) /\ In(queue') = In(pending_queue) /\ NoDup(queue')
  BY <1>0 DEF TimersEnd, ListTypes, Distinct
<1>2. ActiveCount' /\ active_handles' \in Nat
  BY <1>0 DEF TimersEnd, ActiveCount, FlagTypes
<1>3. FlagTypes'
  BY <1>0, <1>1, <1>2 DEF TimersEnd, FlagTypes, IsTimer, Settled, Watchers
<1>4. ListTypes'
  BY <1>0, <1>1, EmptyList DEF TimersEnd, ListTypes, FlagTypes, Watchers
<1>5. RunTypes'
  BY <1>0, <1>1 DEF TimersEnd, RunTypes, Phases, Watchers
<1>6. InClosingLists'
  BY <1>0, <1>1, EmptyList DEF TimersEnd, InClosingLists, Local, OfKind, Watchers, FlagTypes, Settled
<1>7. Distinct'
  BY <1>0, <1>1, EmptyList DEF TimersEnd, InClosingLists, Distinct, Local, OfKind, Watchers
<1>8. Settled'
  BY <1>0, <1>1, EmptyList DEF TimersEnd, Settled, InClosingLists, Local, OfKind, Watchers, UserCode, FlagTypes
<1> QED BY <1>2, <1>3, <1>4, <1>5, <1>6, <1>7, <1>8, TypeParts DEF Inv

\* A step of the lists keeps the invariant: one of the pending queue
LEMMA PendingNextStep == ASSUME Inv, NEW h \in Handles, PendingNext(h) PROVE Inv'
<1> USE LoopAssumption DEF flags, lists, run
<1>0. /\ FlagTypes /\ ListTypes /\ RunTypes /\ TypeOK
      /\ ActiveCount /\ InClosingLists /\ Distinct /\ Settled
  BY TypeParts DEF Inv
<1>1. /\ queue' \in Seq(Handles) /\ In(queue') = In(queue) \ {h} /\ NoDup(queue')
      /\ h \in In(queue)
  BY <1>0, TakeHead DEF PendingNext, ListTypes, Distinct
<1>2. ActiveCount' /\ active_handles' \in Nat
  BY <1>0 DEF PendingNext, ActiveCount, FlagTypes
<1>3. FlagTypes'
  BY <1>0, <1>1, <1>2 DEF PendingNext, Call, FlagTypes, IsTimer, Settled, Watchers
<1>4. ListTypes'
  BY <1>0, <1>1, EmptyList DEF PendingNext, Call, ListTypes, FlagTypes, Watchers
<1>5. RunTypes'
  BY <1>0, <1>1 DEF PendingNext, Call, RunTypes, Phases, Watchers
<1>6. InClosingLists'
  BY <1>0, <1>1, EmptyList DEF PendingNext, Call, InClosingLists, Local, OfKind, Watchers, FlagTypes, Settled
<1>7. Distinct'
  BY <1>0, <1>1, EmptyList DEF PendingNext, Call, InClosingLists, Distinct, Local, OfKind, Watchers
<1>8. Settled'
  BY <1>0, <1>1, EmptyList DEF PendingNext, Call, Settled, InClosingLists, Local, OfKind, Watchers, UserCode, FlagTypes
<1> QED BY <1>2, <1>3, <1>4, <1>5, <1>6, <1>7, <1>8, TypeParts DEF Inv

\* A step of the lists keeps the invariant: the idle watchers are taken over
LEMMA PendingEndStep == ASSUME Inv, PendingEnd PROVE Inv'
<1> USE LoopAssumption DEF flags, lists, run
<1>0. /\ FlagTypes /\ ListTypes /\ RunTypes /\ TypeOK
      /\ ActiveCount /\ InClosingLists /\ Distinct /\ Settled
  BY TypeParts DEF Inv
<1>1. /\ queue' = watchers["idle"] /\ watchers'["idle"] = <<>>
      /\ \A k \in Watchers \ {"idle"} : watchers'[k] = watchers[k]
      /\ watchers["idle"] \in Seq(Handles)
      /\ phase = "pending" /\ phase' = "idle" /\ queue = <<>>
      /\ waiting' = OfKind(active, "idle")
      /\ UNCHANGED <<handle_queue, active, closing, pending_queue, closing_handles>>
  BY <1>0 DEF PendingEnd, RunWatchers, ListTypes, Watchers, OfKind
<1>2. ActiveCount' /\ active_handles' \in Nat
  BY <1>0 DEF PendingEnd, ActiveCount, FlagTypes
<1>3. FlagTypes'
  BY <1>0, <1>1, <1>2 DEF PendingEnd, RunWatchers, FlagTypes, IsTimer, Settled, Watchers
<1>4. ListTypes'
  BY <1>0, <1>1, EmptyList DEF PendingEnd, RunWatchers, ListTypes, FlagTypes, Watchers
<1>5. RunTypes'
  BY <1>0, <1>1 DEF PendingEnd, RunWatchers, RunTypes, Phases, Watchers
<1>6. InClosingLists'
  BY <1>0, <1>1, EmptyList DEF InClosingLists, Local, OfKind, Watchers, FlagTypes, Settled
<1>7. Distinct'
  BY <1>0, <1>1, EmptyList DEF InClosingLists, Distinct, Local, OfKind, Watchers
<1>8. Settled'
  BY <1>0, <1>1, EmptyList DEF PendingEnd, RunWatchers, Settled, InClosingLists, Local, OfKind, Watchers, UserCode, FlagTypes
<1> QED BY <1>2, <1>3, <1>4, <1>5, <1>6, <1>7, <1>8, TypeParts DEF Inv

\* A step of the lists keeps the invariant: the prepare watchers are taken over
LEMMA IdleEndStep == ASSUME Inv, IdleEnd PROVE Inv'
<1> USE LoopAssumption DEF flags, lists, run
<1>0. /\ FlagTypes /\ ListTypes /\ RunTypes /\ TypeOK
      /\ ActiveCount /\ InClosingLists /\ Distinct /\ Settled
  BY TypeParts DEF Inv
<1>1. /\ queue' = watchers["prepare"] /\ watchers'["prepare"] = <<>>
      /\ \A k \in Watchers \ {"prepare"} : watchers'[k] = watchers[k]
      /\ watchers["prepare"] \in Seq(Handles)
      /\ phase = "idle" /\ phase' = "prepare" /\ queue = <<>>
      /\ waiting' = OfKind(active, "prepare")
      /\ UNCHANGED <<handle_queue, active, closing, pending_queue, closing_handles>>
  BY <1>0 DEF IdleEnd, RunWatchers, ListTypes, Watchers, OfKind
<1>2. ActiveCount' /\ active_handles' \in Nat
  BY <1>0 DEF IdleEnd, ActiveCount, FlagTypes
<1>3. FlagTypes'
  BY <1>0, <1>1, <1>2 DEF IdleEnd, RunWatchers, FlagTypes, IsTimer, Settled, Watchers
<1>4. ListTypes'
  BY <1>0, <1>1, EmptyList DEF IdleEnd, RunWatchers, ListTypes, FlagTypes, Watchers
<1>5. RunTypes'
  BY <1>0, <1>1 DEF IdleEnd, RunWatchers, RunTypes, Phases, Watchers
<1>6. InClosingLists'
  BY <1>0, <1>1, EmptyList DEF InClosingLists, Local, OfKind, Watchers, FlagTypes, Settled
<1>7. Distinct'
  BY <1>0, <1>1, EmptyList DEF InClosingLists, Distinct, Local, OfKind, Watchers
<1>8. Settled'
  BY <1>0, <1>1, EmptyList DEF IdleEnd, RunWatchers, Settled, InClosingLists, Local, OfKind, Watchers, UserCode, FlagTypes
<1> QED BY <1>2, <1>3, <1>4, <1>5, <1>6, <1>7, <1>8, TypeParts DEF Inv

\* A step of the lists keeps the invariant: the check watchers are taken over
LEMMA PollReturnStep == ASSUME Inv, PollReturn PROVE Inv'
<1> USE LoopAssumption DEF flags, lists, run
<1>0. /\ FlagTypes /\ ListTypes /\ RunTypes /\ TypeOK
      /\ ActiveCount /\ InClosingLists /\ Distinct /\ Settled
  BY TypeParts DEF Inv
<1>1. /\ queue' = watchers["check"] /\ watchers'["check"] = <<>>
      /\ \A k \in Watchers \ {"check"} : watchers'[k] = watchers[k]
      /\ watchers["check"] \in Seq(Handles)
      /\ phase = "poll" /\ phase' = "check"
      /\ waiting' = OfKind(active, "check")
      /\ UNCHANGED <<handle_queue, active, closing, pending_queue, closing_handles>>
  BY <1>0 DEF PollReturn, RunWatchers, ListTypes, Watchers, OfKind
<1>2. ActiveCount' /\ active_handles' \in Nat
  BY <1>0 DEF PollReturn, ActiveCount, FlagTypes
<1>3. FlagTypes'
  BY <1>0, <1>1, <1>2 DEF PollReturn, RunWatchers, uv__update_time, FlagTypes, IsTimer, Settled, Watchers
<1>4. ListTypes'
  BY <1>0, <1>1, EmptyList DEF PollReturn, RunWatchers, uv__update_time, ListTypes, FlagTypes, Watchers
<1>5. RunTypes'
  BY <1>0, <1>1 DEF PollReturn, RunWatchers, uv__update_time, RunTypes, Phases, Watchers
<1>6. InClosingLists'
  BY <1>0, <1>1, EmptyList DEF InClosingLists, Local, OfKind, Watchers, FlagTypes, Settled
<1>7. Distinct'
  BY <1>0, <1>1, EmptyList DEF InClosingLists, Distinct, Local, OfKind, Watchers
<1>8. Settled'
  BY <1>0, <1>1, EmptyList DEF PollReturn, RunWatchers, uv__update_time, Settled, InClosingLists, Local, OfKind, Watchers, UserCode, FlagTypes
<1> QED BY <1>2, <1>3, <1>4, <1>5, <1>6, <1>7, <1>8, TypeParts DEF Inv

\* A step of the lists keeps the invariant: one of the list of watchers being run
LEMMA WatcherNextStep == ASSUME Inv, NEW h \in Handles, WatcherNext(h) PROVE Inv'
<1> USE LoopAssumption DEF flags, lists, run
<1>0. /\ FlagTypes /\ ListTypes /\ RunTypes /\ TypeOK
      /\ ActiveCount /\ InClosingLists /\ Distinct /\ Settled
  BY TypeParts DEF Inv
<1>1. /\ queue' \in Seq(Handles) /\ In(queue') = In(queue) \ {h} /\ NoDup(queue')
      /\ h \in In(queue)
      /\ phase \in Watchers /\ UNCHANGED <<handle_queue, active, closing, pending_queue,
                                           closing_handles, phase>>
      /\ waiting' = waiting \ {h}
      /\ watchers'[phase] \in Seq(Handles) /\ NoDup(watchers'[phase])
      /\ In(watchers'[phase]) = In(watchers[phase]) \cup {h}
      /\ \A k \in Watchers \ {phase} : watchers'[k] = watchers[k]
  BY <1>0, TakeHead, InsertTail DEF WatcherNext, Requeue, ListTypes, Distinct, Local
<1>2. ActiveCount' /\ active_handles' \in Nat
  BY <1>0 DEF WatcherNext, ActiveCount, FlagTypes
<1>3. FlagTypes'
  BY <1>0, <1>1, <1>2 DEF WatcherNext, Requeue, Call, FlagTypes, IsTimer, Settled, Watchers
<1>4. ListTypes'
  BY <1>0, <1>1, EmptyList DEF WatcherNext, Requeue, Call, ListTypes, FlagTypes, Watchers
<1>5. RunTypes'
  BY <1>0 DEF WatcherNext, Call, RunTypes
<1>6. InClosingLists'
  BY <1>0, <1>1, EmptyList DEF InClosingLists, Local, OfKind, Watchers, FlagTypes, Settled
<1>7. Distinct'
  BY <1>0, <1>1, EmptyList DEF InClosingLists, Distinct, Local, OfKind, Watchers
<1>8. Settled'
  BY <1>0, <1>1, EmptyList DEF WatcherNext, Requeue, Call, Settled, InClosingLists, Local, OfKind, Watchers, UserCode, FlagTypes
<1> QED BY <1>2, <1>3, <1>4, <1>5, <1>6, <1>7, <1>8, TypeParts DEF Inv

\* A step of the lists keeps the invariant: the poll is entered
LEMMA PrepareEndStep == ASSUME Inv, PrepareEnd PROVE Inv'
<1> USE LoopAssumption DEF flags, lists, run
<1>0. /\ FlagTypes /\ ListTypes /\ RunTypes /\ TypeOK
      /\ ActiveCount /\ InClosingLists /\ Distinct /\ Settled
  BY TypeParts DEF Inv
<1>1. /\ phase = "prepare" /\ phase' = "poll" /\ queue = <<>>
      /\ timeout' \in {-1, 0, 1}
  BY DEF PrepareEnd, uv__backend_timeout, uv__next_timeout
<1>2. ActiveCount' /\ active_handles' \in Nat
  BY <1>0 DEF PrepareEnd, ActiveCount, FlagTypes
<1>3. FlagTypes'
  BY <1>0, <1>1, <1>2 DEF PrepareEnd, FlagTypes, IsTimer, Settled, Watchers
<1>4. ListTypes'
  BY <1>0, <1>1, EmptyList DEF PrepareEnd, ListTypes, FlagTypes, Watchers
<1>5. RunTypes'
  BY <1>0, <1>1 DEF PrepareEnd, RunTypes, Phases, Watchers
<1>6. InClosingLists'
  BY <1>0, <1>1, EmptyList DEF PrepareEnd, InClosingLists, Local, OfKind, Watchers, FlagTypes, Settled
<1>7. Distinct'
  BY <1>0, <1>1, EmptyList DEF PrepareEnd, InClosingLists, Distinct, Local, OfKind, Watchers
<1>8. Settled'
  BY <1>0, <1>1, EmptyList DEF PrepareEnd, Settled, InClosingLists, Local, OfKind, Watchers, UserCode, FlagTypes
<1> QED BY <1>2, <1>3, <1>4, <1>5, <1>6, <1>7, <1>8, TypeParts DEF Inv

\* A step of the lists keeps the invariant: the closing handles are taken over
LEMMA CheckEndStep == ASSUME Inv, CheckEnd PROVE Inv'
<1> USE LoopAssumption DEF flags, lists, run
<1>0. /\ FlagTypes /\ ListTypes /\ RunTypes /\ TypeOK
      /\ ActiveCount /\ InClosingLists /\ Distinct /\ Settled
  BY TypeParts DEF Inv
<1>1. /\ queue' \in Seq(Handles) /\ In(queue') = In(closing_handles) /\ NoDup(queue')
      /\ queue = <<>>
  BY <1>0 DEF CheckEnd, ListTypes, Distinct
<1>2. ActiveCount' /\ active_handles' \in Nat
  BY <1>0 DEF CheckEnd, ActiveCount, FlagTypes
<1>3. FlagTypes'
  BY <1>0, <1>1, <1>2 DEF CheckEnd, FlagTypes, IsTimer, Settled, Watchers
<1>4. ListTypes'
  BY <1>0, <1>1, EmptyList DEF CheckEnd, ListTypes, FlagTypes, Watchers
<1>5. RunTypes'
  BY <1>0, <1>1 DEF CheckEnd, RunTypes, Phases, Watchers
<1>6. InClosingLists'
  BY <1>0, <1>1, EmptyList DEF CheckEnd, InClosingLists, Local, OfKind, Watchers, FlagTypes, Settled
<1>7. Distinct'
  BY <1>0, <1>1, EmptyList DEF CheckEnd, InClosingLists, Distinct, Local, OfKind, Watchers
<1>8. Settled'
  BY <1>0, <1>1, EmptyList DEF CheckEnd, Settled, InClosingLists, Local, OfKind, Watchers, UserCode, FlagTypes
<1> QED BY <1>2, <1>3, <1>4, <1>5, <1>6, <1>7, <1>8, TypeParts DEF Inv

\* A step of the lists keeps the invariant: uv__finish_close()
LEMMA FinishCloseStep == ASSUME Inv, NEW h \in Handles, uv__finish_close(h) PROVE Inv'
<1> USE LoopAssumption DEF flags, lists, run
<1>0. /\ FlagTypes /\ ListTypes /\ RunTypes /\ TypeOK
      /\ ActiveCount /\ InClosingLists /\ Distinct /\ Settled
  BY TypeParts DEF Inv
<1>1. /\ queue' \in Seq(Handles) /\ In(queue') = In(queue) \ {h} /\ NoDup(queue')
      /\ h \in In(queue)
      /\ h \in closing /\ h \notin active /\ h \notin In(closing_handles)
  BY <1>0, TakeHead DEF uv__finish_close, ListTypes, Distinct, InClosingLists, Local, Settled
<1>2. ActiveCount' /\ active_handles' \in Nat
  BY <1>1, <1>0 DEF uv__finish_close, ActiveCount, FlagTypes
<1>3. FlagTypes'
  BY <1>0, <1>1, <1>2 DEF uv__finish_close, Call, FlagTypes, IsTimer, Settled, Watchers
<1>4. ListTypes'
  BY <1>0, <1>1, EmptyList DEF uv__finish_close, Call, ListTypes, FlagTypes, Watchers
<1>5. RunTypes'
  BY <1>0, <1>1 DEF uv__finish_close, Call, RunTypes, Phases, Watchers
<1>6. InClosingLists'
  BY <1>0, <1>1, EmptyList DEF uv__finish_close, Call, InClosingLists, Local, OfKind, Watchers, FlagTypes, Settled
<1>7. Distinct'
  BY <1>0, <1>1, EmptyList DEF uv__finish_close, Call, InClosingLists, Distinct, Local, OfKind, Watchers
<1>8. Settled'
  BY <1>0, <1>1, EmptyList DEF uv__finish_close, Call, Settled, InClosingLists, Local, OfKind, Watchers, UserCode, FlagTypes
<1> QED BY <1>2, <1>3, <1>4, <1>5, <1>6, <1>7, <1>8, TypeParts DEF Inv

\* A step of the lists keeps the invariant: the end of an iteration
LEMMA ClosingEndStep == ASSUME Inv, ClosingEnd PROVE Inv'
<1> USE LoopAssumption DEF flags, lists, run
<1>0. /\ FlagTypes /\ ListTypes /\ RunTypes /\ TypeOK
      /\ ActiveCount /\ InClosingLists /\ Distinct /\ Settled
  BY TypeParts DEF Inv
<1>1. /\ phase \in {"closing", "timers again"} /\ (phase = "closing" => queue = <<>>)
      /\ phase' \in {"timers", "timers again", "out"}
      /\ due' \subseteq active /\ \A h \in due' : IsTimer(h)
      /\ stop_flag' \in 0..1 /\ incallback = 0
  BY <1>0 DEF ClosingEnd, Iterate, RunTimers, uv__update_time, FlagTypes, RunTypes, Settled
<1>2. ActiveCount' /\ active_handles' \in Nat
  BY <1>0 DEF ClosingEnd, ActiveCount, FlagTypes
<1>3. FlagTypes'
  BY <1>0, <1>1, <1>2 DEF ClosingEnd, FlagTypes, IsTimer, Settled, Watchers
<1>4. ListTypes'
  BY <1>0, <1>1, EmptyList DEF ClosingEnd, ListTypes, FlagTypes, Watchers
<1>5. RunTypes'
  BY <1>0, <1>1 DEF ClosingEnd, RunTypes, Phases, Watchers
<1>6. InClosingLists'
  BY <1>0, <1>1, EmptyList DEF ClosingEnd, InClosingLists, Local, OfKind, Watchers, FlagTypes, Settled
<1>7. Distinct'
  BY <1>0, <1>1, EmptyList DEF ClosingEnd, InClosingLists, Distinct, Local, OfKind, Watchers
<1>8. Settled'
  BY <1>0, <1>1, EmptyList DEF ClosingEnd, Settled, InClosingLists, Local, OfKind, Watchers, UserCode, FlagTypes
<1> QED BY <1>2, <1>3, <1>4, <1>5, <1>6, <1>7, <1>8, TypeParts DEF Inv

\* A step of the lists keeps the invariant: the end of an iteration in UV_RUN_ONCE
LEMMA TimersAgainEndStep == ASSUME Inv, TimersAgainEnd PROVE Inv'
<1> USE LoopAssumption DEF flags, lists, run
<1>0. /\ FlagTypes /\ ListTypes /\ RunTypes /\ TypeOK
      /\ ActiveCount /\ InClosingLists /\ Distinct /\ Settled
  BY TypeParts DEF Inv
<1>1. /\ phase \in {"closing", "timers again"} /\ (phase = "closing" => queue = <<>>)
      /\ phase' \in {"timers", "timers again", "out"}
      /\ due' \subseteq active /\ \A h \in due' : IsTimer(h)
      /\ stop_flag' \in 0..1 /\ incallback = 0
  BY <1>0 DEF TimersAgainEnd, Iterate, RunTimers, uv__update_time, FlagTypes, RunTypes, Settled
<1>2. ActiveCount' /\ active_handles' \in Nat
  BY <1>0 DEF TimersAgainEnd, ActiveCount, FlagTypes
<1>3. FlagTypes'
  BY <1>0, <1>1, <1>2 DEF TimersAgainEnd, FlagTypes, IsTimer, Settled, Watchers
<1>4. ListTypes'
  BY <1>0, <1>1, EmptyList DEF TimersAgainEnd, ListTypes, FlagTypes, Watchers
<1>5. RunTypes'
  BY <1>0, <1>1 DEF TimersAgainEnd, RunTypes, Phases, Watchers
<1>6. InClosingLists'
  BY <1>0, <1>1, EmptyList DEF TimersAgainEnd, InClosingLists, Local, OfKind, Watchers, FlagTypes, Settled
<1>7. Distinct'
  BY <1>0, <1>1, EmptyList DEF TimersAgainEnd, InClosingLists, Distinct, Local, OfKind, Watchers
<1>8. Settled'
  BY <1>0, <1>1, EmptyList DEF TimersAgainEnd, Settled, InClosingLists, Local, OfKind, Watchers, UserCode, FlagTypes
<1> QED BY <1>2, <1>3, <1>4, <1>5, <1>6, <1>7, <1>8, TypeParts DEF Inv

\* One step of the system keeps the invariant.
LEMMA StepInv == Inv /\ [Next]_vars => Inv'
<1> SUFFICES ASSUME Inv, [Next]_vars PROVE Inv'
  OBVIOUS
<1>1. CASE UserCall
  BY <1>1, QuietStep, WatcherStartStep, WatcherStopStep, FeedStep, CloseStep, LoopCloseStep,
     QuietLoopStep DEF UserCall
<1>2. CASE \E m \in {"default", "once", "nowait"} : uv_run(m)
  BY <1>2, RunStep
<1>3. CASE LoopStep
  <2>1. ASSUME NEW h \in Handles, TimerFire(h) PROVE Inv'
    BY <2>1, QuietStep
  <2>2. ASSUME NEW h \in Handles, PendingNext(h) \/ WatcherNext(h) \/ uv__finish_close(h)
        PROVE  Inv'
    BY <2>2, PendingNextStep, WatcherNextStep, FinishCloseStep
  <2> QED
    BY <1>3, <2>1, <2>2, TimersEndStep, PendingEndStep, IdleEndStep, PrepareEndStep,
       CheckEndStep, ClosingEndStep, TimersAgainEndStep DEF LoopStep
<1>4. CASE Event
  BY <1>4, QuietStep, QuietLoopStep DEF Event
<1>5. CASE uv_run_nothing \/ CallbackReturn
  BY <1>5, QuietLoopStep
<1>6. CASE PollReturn
  BY <1>6, PollReturnStep
<1>7. CASE UNCHANGED vars
  BY <1>7 DEF vars, flags, lists, run, Inv, TypeOK, ActiveCount, InClosingLists, Distinct,
              Settled, Local
<1> QED BY <1>1, <1>2, <1>3, <1>4, <1>5, <1>6, <1>7 DEF Next

\* The inductive invariant holds in every reachable state.
THEOREM InvHolds == Spec => []Inv
<1>1. Init => Inv
  BY InitInv
<1>2. Inv /\ [Next]_vars => Inv'
  BY StepInv
<1> QED BY <1>1, <1>2, PTL DEF Spec

\* The variables keep their types; the count of active handles stays above 0.
THEOREM TypeCorrect == Spec => []TypeOK
<1>1. Inv => TypeOK
  BY DEF Inv
<1> QED BY <1>1, InvHolds, PTL

\* loop->active_handles counts the handles active and referenced.
THEOREM CountExact == Spec => []ActiveCount
<1>1. Inv => ActiveCount
  BY DEF Inv
<1> QED BY <1>1, InvHolds, PTL

\* Nothing is left in the lists of a loop that was closed.
THEOREM CloseLeavesNothing == Spec => []LoopCloseClean
<1>1. ASSUME NEW q \in Seq(Handles), In(q) = {} PROVE q = <<>>
  <2>1. q # <<>> => 1 \in DOMAIN q
    OBVIOUS
  <2> QED BY <1>1, <2>1 DEF In
<1>2. Inv => LoopCloseClean
  <2> SUFFICES ASSUME Inv, phase = "closed" PROVE LoopCloseClean
    BY DEF LoopCloseClean
  <2>1. FlagTypes /\ ListTypes /\ InClosingLists /\ handle_queue = {} /\ ActiveCount
    BY TypeParts DEF Inv, Settled
  <2>2. active = {} /\ closing = {} /\ active \cap ref = {}
    BY <2>1 DEF FlagTypes
  <2>3. active_handles = 0
    BY <2>1, <2>2, FS_EmptySet DEF ActiveCount
  <2>4. /\ In(pending_queue) = {} /\ In(closing_handles) = {}
        /\ \A k \in Watchers : In(watchers[k]) = {}
    BY <2>1, <2>2 DEF InClosingLists, OfKind
  <2>5. pending_queue = <<>> /\ closing_handles = <<>> /\ \A k \in Watchers : watchers[k] = <<>>
    BY <2>1, <2>4, <1>1 DEF ListTypes
  <2> QED BY <2>2, <2>3, <2>5 DEF LoopCloseClean
<1> QED BY <1>2, InvHolds, PTL

\* After uv_close() a handle gets no callback but the close callback.
THEOREM NoneAfterClose == Spec => NoLateCallback
<1>1. Inv /\ [Next]_vars =>
        [\A h \in closing :
           ~(TimerFire(h) \/ PendingNext(h) \/ WatcherNext(h) \/ PollStream(h))]_vars
  <2> SUFFICES ASSUME Inv, NEW h \in closing,
                      TimerFire(h) \/ PendingNext(h) \/ WatcherNext(h) \/ PollStream(h)
               PROVE  FALSE
    OBVIOUS
  <2>0. FlagTypes /\ ListTypes /\ InClosingLists /\ Distinct /\ Settled
    BY TypeParts DEF Inv
  <2>1. CASE TimerFire(h) \/ PollStream(h)
    BY <2>0, <2>1 DEF TimerFire, PollStream, FlagTypes, Settled
  <2>2. CASE PendingNext(h)
    BY <2>0, <2>2, TakeHead DEF PendingNext, ListTypes, Distinct, InClosingLists, Local, OfKind
  <2>3. CASE WatcherNext(h)
    BY <2>0, <2>3, TakeHead DEF WatcherNext, ListTypes, Distinct, InClosingLists, Local, OfKind,
       Settled
  <2> QED BY <2>1, <2>2, <2>3
<1> QED BY <1>1, InvHolds, PTL DEF Spec, NoLateCallback

\* A phase calls the watchers that were active when it began and still are, once.
THEOREM PassesExact == Spec => PassExact
<1>1. Inv /\ [Next]_vars =>
        [/\ \A h \in Handles : WatcherNext(h) => h \in waiting
         /\ phase \in Watchers /\ phase' # phase => waiting = {}]_vars
  <2> SUFFICES ASSUME Inv, Next
               PROVE  /\ \A h \in Handles : WatcherNext(h) => h \in waiting
                      /\ phase \in Watchers /\ phase' # phase => waiting = {}
    OBVIOUS
  <2>0. ListTypes /\ Distinct /\ Settled
    BY TypeParts DEF Inv
  <2>1. ASSUME NEW h \in Handles, WatcherNext(h) PROVE h \in waiting
    BY <2>0, <2>1, TakeHead DEF WatcherNext, ListTypes, Distinct, Settled
  <2>2. ASSUME phase \in Watchers, phase' # phase PROVE waiting = {}
    <3>1. queue = <<>>
      BY <2>2 DEF Next, UserCall, LoopStep, Event, run, Watchers, HandleInit, WatcherStart,
         WatcherStop, uv_timer_start, uv_timer_stop, uv_read_start, uv_read_stop,
         uv__io_feed, uv__handle_ref, uv__handle_unref, uv_close, uv_stop, uv__req_register,
         uv_update_time, uv_loop_close, uv_run_nothing, uv_run, TimerFire, PendingNext,
         WatcherNext, uv__finish_close, TimersEnd, PendingEnd, IdleEnd, PrepareEnd,
         CheckEnd, ClosingEnd, TimersAgainEnd, PollStream, PollRequest, PollInternal,
         PollReturn, CallbackReturn
    <3> QED BY <2>0, <2>2, <3>1, EmptyList DEF Settled
  <2> QED BY <2>1, <2>2
<1> QED BY <1>1, InvHolds, PTL DEF Spec, PassExact

\* uv_run(UV_RUN_DEFAULT), not stopped, returns when nothing is left.
THEOREM RunDrains == Spec => DefaultDrains
<1>1. Inv /\ [Next]_vars =>
        [phase \notin {"out", "closed"} /\ phase' = "out" /\ mode = "default" /\ stop_flag = 0
           => active \cap ref = {} /\ active_reqs = 0 /\ closing = {} /\ pending_queue = <<>>]_vars
  <2> SUFFICES ASSUME Inv, Next, phase \notin {"out", "closed"}, phase' = "out",
                      mode = "default", stop_flag = 0
               PROVE  /\ active \cap ref = {} /\ active_reqs = 0
                      /\ closing = {} /\ pending_queue = <<>>
    OBVIOUS
  <2>0. FlagTypes /\ ListTypes /\ RunTypes /\ InClosingLists /\ ActiveCount
    BY TypeParts DEF Inv
  <2>1. ClosingEnd \/ TimersAgainEnd
    BY DEF Next, UserCall, LoopStep, Event, run, Watchers, HandleInit, WatcherStart,
       WatcherStop, uv_timer_start, uv_timer_stop, uv_read_start, uv_read_stop,
       uv__io_feed, uv__handle_ref, uv__handle_unref, uv_close, uv_stop, uv__req_register,
       uv_update_time, uv_loop_close, uv_run_nothing, uv_run, RunTimers, TimerFire,
       PendingNext, WatcherNext, uv__finish_close, TimersEnd, PendingEnd, IdleEnd,
       PrepareEnd, CheckEnd, PollStream, PollRequest, PollInternal, PollReturn,
       RunWatchers, CallbackReturn
  <2>2. ~uv__loop_alive /\ (phase = "closing" => queue = <<>>)
    BY <2>1 DEF ClosingEnd, TimersAgainEnd, Iterate, RunTimers
  <2>3. /\ active_handles = 0 /\ active_reqs = 0
        /\ pending_queue = <<>> /\ closing_handles = <<>>
    BY <2>0, <2>2 DEF uv__loop_alive, FlagTypes, RunTypes
  <2>4. closing = {}
    BY <2>0, <2>2, <2>3, EmptyList DEF InClosingLists, Local
  <2>5. active \cap ref = {}
    BY <2>0, <2>3, LoopAssumption, FS_Subset, FS_EmptySet DEF FlagTypes, ActiveCount
  <2> QED BY <2>3, <2>4, <2>5
<1> QED BY <1>1, InvHolds, PTL DEF Spec, DefaultDrains

-----------------------------------------------------------------------------
(* uv_run(UV_RUN_ONCE).  As long as nothing was called back, there is      *)
(* something that will be, in a list the run has still to come to (Owed):  *)
(* no user code runs that could take it away, and the poll blocks for      *)
(* ever only when an event has to end it.                                  *)

Progressless == mode = "once" /\ progress = 0 /\ phase \notin {"out", "closed"}

\* What keeps the loop alive, the pending queue left out.
Alive == active_handles > 0 \/ active_reqs > 0 \/ closing_handles # <<>>

Owed ==
  Progressless =>
    /\ incallback = 0
    /\ phase \in {"timers", "pending", "idle", "prepare"} => stop_flag = 0
    /\ phase = "timers" => Alive \/ pending_queue # <<>>
    /\ phase \in {"pending", "idle", "prepare"} => pending_queue = <<>>
    /\ phase = "pending" => queue # <<>> \/ (Alive /\ ran_pending = 0)
    /\ phase \in {"idle", "prepare"} => Alive /\ ran_pending = 0
    /\ phase = "idle" => queue # <<>> \/ watchers["idle"] = <<>>
    /\ phase = "prepare" => watchers["idle"] = <<>>
    /\ phase = "poll" /\ timeout = 0 => closing_handles # <<>> \/ due # {}
    /\ phase = "check" => closing_handles # <<>> \/ due # {}
    /\ phase = "closing" => queue # <<>> \/ due # {}
    /\ phase = "timers again" => due # {}

\* The steps of the user, and the callbacks of the loop, leave nothing to show.
LEMMA OwedElsewhere ==
  ASSUME RunTypes, Owed,
         \/ UserCall \/ uv_run_nothing \/ PollRequest \/ PollInternal \/ CallbackReturn
         \/ \E h \in Handles : TimerFire(h) \/ PendingNext(h) \/ WatcherNext(h)
                                  \/ uv__finish_close(h) \/ PollStream(h)
  PROVE  Owed'
<1>1. CASE UserCall
  <2>1. /\ phase = "out" \/ incallback = 1
        /\ mode' = mode /\ progress' = progress /\ phase' \in {phase, "closed"}
    BY <1>1 DEF UserCall, UserCode, run, HandleInit, WatcherStart, WatcherStop,
       uv_timer_start, uv_timer_stop, uv_read_start, uv_read_stop, uv__io_feed,
       uv__handle_ref, uv__handle_unref, uv_close, uv_stop, uv__req_register,
       uv_update_time, uv_loop_close
  <2>2. ~Progressless'
    <3>1. incallback = 1 => ~Progressless
      BY DEF Owed
    <3> QED BY <2>1, <3>1 DEF Progressless
  <2> QED BY <2>2 DEF Owed
<1>2. CASE uv_run_nothing
  BY <1>2 DEF uv_run_nothing, Progressless, run, Owed
<1>3. CASE CallbackReturn
  <2>1. ~Progressless
    BY <1>3 DEF CallbackReturn, Owed
  <2>2. ~Progressless'
    BY <1>3, <2>1 DEF CallbackReturn, Progressless, run
  <2> QED BY <2>2 DEF Owed
<1>4. ASSUME PollRequest \/ PollInternal \/ \E h \in Handles :
               TimerFire(h) \/ PendingNext(h) \/ WatcherNext(h) \/ uv__finish_close(h)
                 \/ PollStream(h)
      PROVE  Owed'
  <2>1. progress' = 1
    BY <1>4 DEF PollRequest, PollInternal, TimerFire, PendingNext, WatcherNext,
       uv__finish_close, PollStream, Call
  <2>2. ~Progressless'
    BY <2>1 DEF Progressless
  <2> QED BY <2>2 DEF Owed
<1> QED BY <1>1, <1>2, <1>3, <1>4

\* From one phase to the next something is still owed.
LEMMA OwedPhases ==
  ASSUME Inv, Owed,
         \/ TimersEnd \/ PendingEnd \/ IdleEnd \/ PrepareEnd \/ PollReturn \/ CheckEnd
         \/ ClosingEnd \/ TimersAgainEnd
         \/ \E m \in {"default", "once", "nowait"} : uv_run(m)
  PROVE  Owed'
<1> USE DEF lists, flags, run
<1>0. RunTypes /\ ListTypes
  BY TypeParts DEF Inv
<1>a. DOMAIN watchers = Watchers /\ "idle" \in Watchers /\ "check" # "idle"
  BY <1>0 DEF ListTypes, Watchers
<1>1. ASSUME NEW m \in {"default", "once", "nowait"}, uv_run(m) PROVE Owed'
  BY <1>1 DEF uv_run, RunTimers, uv__loop_alive, Alive, Inv, Settled, Owed
<1>2. CASE TimersEnd
  BY <1>0, <1>2 DEF TimersEnd, Owed, Alive, Progressless
<1>3. CASE PendingEnd
  BY <1>3, <1>a DEF PendingEnd, RunWatchers, Owed, Alive, Progressless
<1>4. CASE IdleEnd
  BY <1>4, <1>a DEF IdleEnd, RunWatchers, Owed, Alive, Progressless
<1>5. CASE PrepareEnd
  BY <1>5 DEF PrepareEnd, Owed, Progressless, uv__backend_timeout, Alive, uv__next_timeout
<1>6. CASE PollReturn
  BY <1>0, <1>6 DEF PollReturn, uv__update_time, RunTypes, RunWatchers, Owed, Progressless
<1>7. CASE CheckEnd
  BY <1>7 DEF CheckEnd, Owed, Progressless
<1>8. CASE ClosingEnd
  BY <1>8 DEF ClosingEnd, RunTimers, uv__update_time, Owed, Progressless
<1>9. CASE TimersAgainEnd
  BY <1>9 DEF TimersAgainEnd, Owed, Progressless
<1> QED BY <1>1, <1>2, <1>3, <1>4, <1>5, <1>6, <1>7, <1>8, <1>9

\* uv_run(UV_RUN_ONCE) does not come back before it called back, unless its
\* poll was cut short.
THEOREM OnceCallsBack == Spec => OnceProgress
<1>1. Init => Owed
  BY DEF Init, Owed, Progressless
<1>2. Inv /\ Owed /\ [Next]_vars => Owed'
  <2> SUFFICES ASSUME Inv, Owed, [Next]_vars PROVE Owed'
    OBVIOUS
  <2>1. RunTypes
    BY TypeParts DEF Inv
  <2>2. CASE UNCHANGED vars
    BY <2>2 DEF vars, flags, lists, run, Owed, Progressless, Alive
  <2> QED BY <2>1, <2>2, OwedElsewhere, OwedPhases DEF Next, LoopStep, Event
<1>3. Inv /\ Owed /\ [Next]_vars =>
        [phase \notin {"out", "closed"} /\ phase' = "out" /\ mode = "once" => progress = 1]_vars
  <2> SUFFICES ASSUME Inv, Owed, Next, phase \notin {"out", "closed"}, phase' = "out",
                      mode = "once"
               PROVE  progress = 1
    OBVIOUS
  <2>1. RunTypes
    BY TypeParts DEF Inv
  <2>2. ClosingEnd \/ TimersAgainEnd
    BY DEF Next, UserCall, LoopStep, Event, run, Watchers, HandleInit, WatcherStart,
       WatcherStop, uv_timer_start, uv_timer_stop, uv_read_start, uv_read_stop,
       uv__io_feed, uv__handle_ref, uv__handle_unref, uv_close, uv_stop, uv__req_register,
       uv_update_time, uv_loop_close, uv_run_nothing, uv_run, RunTimers, TimerFire,
       PendingNext, WatcherNext, uv__finish_close, TimersEnd, PendingEnd, IdleEnd,
       PrepareEnd, CheckEnd, PollStream, PollRequest, PollInternal, PollReturn,
       RunWatchers, CallbackReturn
  <2>3. TimersAgainEnd
    BY <2>2 DEF ClosingEnd, RunTimers
  <2>4. ~Progressless
    BY <2>3 DEF TimersAgainEnd, Owed
  <2> QED BY <2>1, <2>4 DEF Progressless, RunTypes
<1> QED BY <1>1, <1>2, <1>3, InvHolds, PTL DEF Spec, OnceProgress

-----------------------------------------------------------------------------
(* The wake-ups of uv_async_t, for every set of handles and of sender      *)
(* threads: none is lost, the claim of one is exclusive, and the protocol  *)
(* implements the safety part of the abstract signal.                      *)

\* The initial state: no handle, no send.
LEMMA AsyncInitInv == AsyncInit => AsyncInv
  <1> SUFFICES ASSUME AsyncInit PROVE AsyncInv
    OBVIOUS
  <1>1. AsyncTypeOK
    <2>1. pending \in [Asyncs -> 0..2]
      BY DEF AsyncInit
    <2> QED
      BY <2>1 DEF AsyncInit, AsyncTypeOK
  <1>2. ClaimExclusive /\ NoLostWakeup /\ MergedSendRemembered
    BY DEF AsyncInit, ClaimExclusive, Holds, NoLostWakeup, MergedSendRemembered
  <1>3. Bookkeeping
    BY DEF AsyncInit, Bookkeeping, Holds
  <1> QED
    BY <1>1, <1>2, <1>3 DEF AsyncInv

\* The five kinds of sender step.
LEMMA SenderKeeps ==
  ASSUME AsyncInv, NEW s \in Senders,
         (\E h \in Asyncs : SendCall(s, h)) \/ SenderStep(s)
  PROVE  AsyncInv'
  <1> USE NoHandleAssumption
  <1> USE DEF AsyncInv, AsyncTypeOK, ClaimExclusive, Holds, NoLostWakeup,
              MergedSendRemembered, Bookkeeping, loopVars, SendEnds
  <1>1. ASSUME NEW h \in Asyncs, SendCall(s, h) PROVE AsyncInv'
    BY <1>1 DEF SendCall
  <1>2. CASE SendCheck(s)
    BY <1>2 DEF SendCheck
  <1>3. CASE SendClaim(s)
    <2> USE <1>3 DEF SendClaim
    <2>1. AsyncTypeOK' /\ ClaimExclusive'
      OBVIOUS
    <2>2. NoLostWakeup' /\ MergedSendRemembered'
      OBVIOUS
    <2>3. Bookkeeping'
      OBVIOUS
    <2> QED
      BY <2>1, <2>2, <2>3
  <1>4. CASE SendWrite(s)
    BY <1>4 DEF SendWrite
  <1>5. CASE SendPublish(s)
    <2> USE <1>5 DEF SendPublish
    <2>1. AsyncTypeOK' /\ ClaimExclusive'
      OBVIOUS
    <2>2. NoLostWakeup' /\ MergedSendRemembered'
      OBVIOUS
    <2>3. Bookkeeping'
      OBVIOUS
    <2> QED
      BY <2>1, <2>2, <2>3
  <1> QED
    BY <1>1, <1>2, <1>3, <1>4, <1>5 DEF SenderStep

\* The steps of uv__async_io() and of the callback it runs.
LEMMA AsyncIoKeeps == ASSUME AsyncInv, AsyncStep PROVE AsyncInv'
  <1> USE NoHandleAssumption
  <1> USE DEF AsyncInv, AsyncTypeOK, ClaimExclusive, Holds, NoLostWakeup,
              MergedSendRemembered, Bookkeeping, senderVars
  <1>1. CASE AsyncIoStart
    <2> USE <1>1 DEF AsyncIoStart
    <2>1. AsyncTypeOK' /\ ClaimExclusive'
      OBVIOUS
    <2>2. NoLostWakeup' /\ MergedSendRemembered'
      OBVIOUS
    <2>3. Bookkeeping'
      OBVIOUS
    <2> QED
      BY <2>1, <2>2, <2>3
  <1>2. ASSUME NEW h \in Asyncs, AsyncIoVisit(h) PROVE AsyncInv'
    <2> USE <1>2 DEF AsyncIoVisit, Spin
    <2>1. AsyncTypeOK' /\ ClaimExclusive'
      OBVIOUS
    <2>2. NoLostWakeup' /\ MergedSendRemembered'
      OBVIOUS
    <2>3. Bookkeeping'
      OBVIOUS
    <2> QED
      BY <2>1, <2>2, <2>3
  <1>3. CASE AsyncReturn
    BY <1>3 DEF AsyncReturn
  <1>4. CASE AsyncIoEnd
    BY <1>4 DEF AsyncIoEnd
  <1> QED
    BY <1>1, <1>2, <1>3, <1>4 DEF AsyncStep

\* What user code does on the loop thread.
LEMMA AsyncUserKeeps == ASSUME AsyncInv, NEW h \in Asyncs, UserStep(h) PROVE AsyncInv'
  <1> USE NoHandleAssumption
  <1> USE DEF AsyncInv, AsyncTypeOK, ClaimExclusive, Holds, NoLostWakeup,
              MergedSendRemembered, Bookkeeping, senderVars, loopVars, AsyncUserCode
  <1>1. CASE uv_async_init(h)
    <2> USE <1>1 DEF uv_async_init
    <2>1. AsyncTypeOK' /\ ClaimExclusive'
      OBVIOUS
    <2>2. NoLostWakeup' /\ MergedSendRemembered'
      OBVIOUS
    <2>3. Bookkeeping'
      OBVIOUS
    <2> QED
      BY <2>1, <2>2, <2>3
  <1>2. CASE LoopSend(h)
    <2> USE <1>2 DEF LoopSend
    <2>1. CASE pending[h] # 0
      BY <2>1
    <2>2. CASE pending[h] = 0
      BY <2>2
    <2> QED
      BY <2>1, <2>2
  <1>3. CASE uv__async_close(h)
    <2> USE <1>3 DEF uv__async_close, Spin
    <2>1. AsyncTypeOK' /\ ClaimExclusive'
      OBVIOUS
    <2>2. NoLostWakeup' /\ MergedSendRemembered'
      OBVIOUS
    <2>3. Bookkeeping'
      OBVIOUS
    <2> QED
      BY <2>1, <2>2, <2>3
  <1>4. CASE FinishClose(h)
    BY <1>4 DEF FinishClose
  <1> QED
    BY <1>1, <1>2, <1>3, <1>4 DEF UserStep

\* The invariant is inductive.
LEMMA AsyncStepInv == AsyncInv /\ [AsyncNext]_async_vars => AsyncInv'
BY SenderKeeps, AsyncIoKeeps, AsyncUserKeeps DEF async_vars, AsyncInv, AsyncTypeOK, ClaimExclusive,
   Holds, NoLostWakeup, MergedSendRemembered, Bookkeeping, AsyncNext

\* In every reachable state of the wake-up protocol, with any number of
\* handles and senders, the whole invariant holds.
THEOREM AsyncHolds == AsyncSpec => []AsyncInv
  BY AsyncInitInv, AsyncStepInv, PTL DEF AsyncSpec

\* The variables keep their types.
THEOREM AsyncTypeCorrect == AsyncSpec => []AsyncTypeOK
  BY AsyncHolds, PTL DEF AsyncInv

\* No wake-up is lost: a due callback has a readable eventfd or a place in
\* the running scan.
THEOREM WakeupSafe == AsyncSpec => []NoLostWakeup
  BY AsyncHolds, PTL DEF AsyncInv

\* The abort() of uv_async_send() is unreachable.
THEOREM ClaimSafe == AsyncSpec => []ClaimExclusive
  BY AsyncHolds, PTL DEF AsyncInv

\* A merged send stays outstanding until the callback answers it.
THEOREM MergeSafe == AsyncSpec => []MergedSendRemembered
  BY AsyncHolds, PTL DEF AsyncInv

\* A close waits for the sender that claimed the handle.
THEOREM CloseSafe == AsyncSpec => CloseWaitsForSender
  <1>1. AsyncInv /\ [AsyncNext]_async_vars =>
          [\A s \in Senders, h \in Asyncs :
             Holds(s, h) /\ state[h] = "open" => state'[h] = "open"]_async_vars
    <2> SUFFICES ASSUME AsyncInv, AsyncNext, NEW s \in Senders, NEW h \in Asyncs,
                        Holds(s, h), state[h] = "open"
                 PROVE  state'[h] = "open"
      BY DEF async_vars
    <2>1. pending[h] = 1
      BY DEF AsyncInv, ClaimExclusive, Holds
    <2>2. ASSUME NEW k \in Asyncs, UserStep(k) PROVE state'[h] = "open"
      BY <2>1, <2>2 DEF UserStep, uv_async_init, LoopSend, uv__async_close,
                        Spin, FinishClose, loopVars, AsyncInv, AsyncTypeOK
    <2>3. ASSUME AsyncStep PROVE state' = state
      BY <2>3 DEF AsyncStep, AsyncIoStart, AsyncIoVisit, AsyncReturn, AsyncIoEnd
    <2>4. ASSUME NEW t \in Senders, SenderStep(t) PROVE state' = state
      BY <2>4 DEF SenderStep, SendCheck, SendClaim, SendWrite, SendPublish, loopVars
    <2>5. ASSUME NEW t \in Senders, NEW k \in Asyncs, SendCall(t, k)
          PROVE  state' = state
      BY <2>5 DEF SendCall
    <2> QED
      BY <2>2, <2>3, <2>4, <2>5 DEF AsyncNext
  <1> QED
    BY <1>1, AsyncHolds, PTL DEF AsyncSpec, CloseWaitsForSender

\* Refinement

Open == {h \in Asyncs : state[h] = "open"}
Raised == {h \in Asyncs : pending[h] # 0}

\* A step that leaves the life of the handles and their words alone stutters.
LEMMA SignalStutter ==
  ASSUME UNCHANGED <<state, pending>>
  PROVE  [Signal!Next]_(Signal!vars)
  BY DEF Signal!vars

\* A step that only makes one word of an open or dying handle non-zero raises
\* its signal, or merges with it.
LEMMA SignalRaise ==
  ASSUME AsyncInv, NEW h \in Asyncs, NEW v \in {1, 2},
         pending' = [pending EXCEPT ![h] = v], state' = state
  PROVE  [Signal!Next]_(Signal!vars)
BY DEF Open, Raised, AsyncInv, AsyncTypeOK, Signal!Raise, Signal!Next

\* uv_async_send(), uv__async_io(), uv_async_init() and uv_close() are, seen
\* from outside, raising, delivering, opening and closing a coalescing signal.
LEMMA AsyncRefines == AsyncInv /\ [AsyncNext]_async_vars => [Signal!Next]_(Signal!vars)
  <1> SUFFICES ASSUME AsyncInv, [AsyncNext]_async_vars PROVE [Signal!Next]_(Signal!vars)
    OBVIOUS
  <1>1. CASE UNCHANGED async_vars
    BY <1>1, SignalStutter DEF async_vars
  <1>2. ASSUME NEW s \in Senders, NEW h \in Asyncs, SendCall(s, h)
        PROVE  [Signal!Next]_(Signal!vars)
    BY <1>2, SignalStutter DEF SendCall
  <1>3. ASSUME NEW s \in Senders, SenderStep(s)
        PROVE  [Signal!Next]_(Signal!vars)
    <2>1. CASE SendCheck(s) \/ SendWrite(s)
      BY <2>1, SignalStutter DEF SendCheck, SendWrite, loopVars
    <2>2. CASE SendClaim(s)
      BY <2>2, SignalStutter, SignalRaise DEF SendClaim, AsyncInv, AsyncTypeOK, Bookkeeping,
         loopVars
    <2>3. CASE SendPublish(s)
      BY <2>3, SignalRaise DEF SendPublish, AsyncInv, AsyncTypeOK, Bookkeeping, loopVars
    <2> QED
      BY <1>3, <2>1, <2>2, <2>3 DEF SenderStep
  <1>4. ASSUME AsyncStep PROVE [Signal!Next]_(Signal!vars)
    <2>1. ASSUME NEW h \in Asyncs, AsyncIoVisit(h)
          PROVE  [Signal!Next]_(Signal!vars)
      <3>1. pending' = [pending EXCEPT ![h] = 0] /\ state' = state
        BY <2>1 DEF AsyncIoVisit, Spin
      <3>2. CASE pending[h] = 0
        BY <3>1, <3>2, SignalStutter DEF AsyncInv, AsyncTypeOK
      <3>3. CASE pending[h] # 0
        BY <3>1, <2>1, <3>3 DEF Open, Raised, AsyncInv, AsyncTypeOK, AsyncIoVisit, Bookkeeping,
           Signal!Deliver, Signal!Next
      <3> QED
        BY <3>2, <3>3
    <2>2. CASE AsyncIoStart \/ AsyncReturn \/ AsyncIoEnd
      BY <2>2, SignalStutter DEF AsyncIoStart, AsyncReturn, AsyncIoEnd
    <2> QED
      BY <1>4, <2>1, <2>2 DEF AsyncStep
  <1>5. ASSUME NEW h \in Asyncs, UserStep(h)
        PROVE  [Signal!Next]_(Signal!vars)
    <2>1. CASE uv_async_init(h)
      BY <2>1 DEF uv_async_init, Open, Raised, AsyncInv, AsyncTypeOK, Signal!Open, Signal!Next
    <2>2. CASE LoopSend(h)
      BY <2>2, SignalStutter, SignalRaise DEF LoopSend, loopVars
    <2>3. CASE uv__async_close(h)
      BY <2>3 DEF uv__async_close, Spin, Open, Raised, AsyncInv, AsyncTypeOK, Signal!Close,
         Signal!Next
    <2>4. CASE FinishClose(h)
      BY <2>4 DEF FinishClose, Open, Raised, AsyncInv, AsyncTypeOK, Signal!vars
    <2> QED
      BY <1>5, <2>1, <2>2, <2>3, <2>4 DEF UserStep
  <1> QED
    BY <1>1, <1>2, <1>3, <1>4, <1>5 DEF AsyncNext

\* The wake-up protocol implements the safety part of the abstract signal: a
\* callback runs only for a raised signal of an open handle, and only an
\* initialisation, a delivery or a close takes a raised signal away.
THEOREM RefinesSignal == AsyncSpec => Signal!Spec
  <1>1. AsyncInit => Signal!Init
    BY DEF AsyncInit, Signal!Init
  <1> QED
    BY <1>1, AsyncRefines, AsyncHolds, PTL DEF AsyncSpec, Signal!Spec
=============================================================================
