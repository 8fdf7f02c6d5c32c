--------------------------- MODULE WinStreamProofs ---------------------------
(***************************************************************************)
(* Proofs about the streams of the Windows port: what they share, a TCP    *)
(* socket and a connection over a pipe.  The server of a pipe follows in   *)
(* WinProofs.                                                              *)
(*                                                                         *)
(* A stream counts its requests in four places: reqs_pending, activecnt,   *)
(* active_reqs and write_reqs_pending.  Its invariant says that each count *)
(* is the size of a set of requests that are out, and more while a handler *)
(* has taken one (Core, PartMore); in which set a request is and what it   *)
(* holds there; where the writes of a pipe wait for each other; and who    *)
(* goes on with a shutdown, a close or a cancelled read.  The callbacks of *)
(* the user run in the middle of a handler, so the invariant is stated for *)
(* each kind of request a handler may have taken.                          *)
(***************************************************************************)
EXTENDS WinTcp, WinPipe, Queues, FiniteSetTheorems, TLAPS

\* The fields of every handle.
BaseFields == {"flags", "activecnt", "reqs_pending", "active_reqs", "counted", "kernel",
               "pending", "walk", "ok", "pc", "cur", "ends"}

\* The sets a request can be in are apart.
HeldOnce(h) == h.kernel \cap h.pending = {} /\ (h.kernel \cup h.pending) \cap h.walk = {}

\* A handle that is not closing is active just as long as something keeps it so.
Kept(h) ==
  h.activecnt \in Int /\ (~On(h, "CLOSING") => (On(h, "ACTIVE") <=> h.activecnt > 0))

\* g and h differ in the fields fs at most.
SameBut(g, h, fs) == DOMAIN g = DOMAIN h /\ \A f \in DOMAIN h \ fs : g[f] = h[f]

\* The size of a set with one member more or less.
LEMMA OneMore ==
  ASSUME NEW S, IsFiniteSet(S), NEW x
  PROVE  /\ Cardinality(S) \in Nat /\ IsFiniteSet(S \cup {x}) /\ IsFiniteSet(S \ {x})
         /\ x \notin S => Cardinality(S \cup {x}) = Cardinality(S) + 1
         /\ x \in S => Cardinality(S \ {x}) = Cardinality(S) - 1
BY FS_CardinalityType, FS_AddElement, FS_RemoveElement

-----------------------------------------------------------------------------
(* The requests of a stream.  The end of a stream may be queued before it  *)
(* closes, for its shutdown.                                               *)

EndsOnce(h) ==
  /\ CountSound(h)
  /\ h.counted \in Int /\ h.ends \in Int
  /\ On(h, "CLOSED") => On(h, "CLOSING") /\ h.pc = "idle"
  /\ ~On(h, "CLOSED") => h.ends = 0
  /\ On(h, "CLOSING") => ~On(h, "ACTIVE")

\* n counts on top of the requests that are out are what reqs_pending is.
Core(h, R, n) ==
  /\ BaseFields \subseteq DOMAIN h
  /\ EndsOnce(h) /\ Kept(h) /\ HeldOnce(h)
  /\ Outstanding(h) \subseteq R /\ IsFiniteSet(Outstanding(h))
  /\ n \in Nat /\ h.reqs_pending = Cardinality(Outstanding(h)) + n

\* The flags that say whether a handle lives
Alike(g, h) == \A f \in {"ACTIVE", "CLOSING", "CLOSED", "ENDGAME_QUEUED"} : On(g, f) <=> On(h, f)

\* Only what Core() is not about is another.
LEMMA CoreSame ==
  ASSUME NEW h, NEW R, NEW n, Core(h, R, n), ~On(h, "CLOSED"), NEW g, BaseFields \subseteq DOMAIN g,
         g.kernel = h.kernel, g.pending = h.pending, g.walk = h.walk, g.counted = h.counted,
         g.ends = h.ends, g.activecnt = h.activecnt, g.reqs_pending = h.reqs_pending,
         Alike(g, h)
  PROVE  Core(g, R, n) /\ Outstanding(g) = Outstanding(h)
BY DEF Outstanding, Core, EndsOnce, CountSound, Kept, HeldOnce, Alike

\* A request is given to the system, or put on the list at once.
LEMMA PutKeeps ==
  ASSUME NEW h, NEW R, NEW n, Core(h, R, n), ~On(h, "CLOSED"), NEW r \in R, r \notin Outstanding(h),
         NEW g, g = Given(h, r) \/ g = Inserted(h, r, TRUE) \/ g = Inserted(h, r, FALSE)
  PROVE  /\ Core(g, R, n) /\ SameBut(g, h, {"kernel", "pending", "ok", "reqs_pending"})
         /\ Outstanding(g) = Outstanding(h) \cup {r}
<1>1. /\ SameBut(g, h, {"kernel", "pending", "ok", "reqs_pending"})
      /\ g.reqs_pending = h.reqs_pending + 1 /\ g.walk = h.walk
      /\ \/ g.kernel = h.kernel \cup {r} /\ g.pending = h.pending
         \/ g.kernel = h.kernel /\ g.pending = h.pending \cup {r}
  BY DEF Given, Core, BaseFields, SameBut, Inserted
<1>2. Outstanding(g) = Outstanding(h) \cup {r}
  BY <1>1 DEF Outstanding
<1>3. HeldOnce(g)
  BY <1>1 DEF Core, HeldOnce, Outstanding
<1>4. /\ BaseFields \subseteq DOMAIN g /\ g.flags = h.flags /\ g.counted = h.counted
      /\ g.ends = h.ends /\ g.activecnt = h.activecnt
  BY <1>1 DEF SameBut, BaseFields, Core
<1>5. EndsOnce(g) /\ Kept(g)
  BY <1>4 DEF Core, EndsOnce, CountSound, Kept, On
<1>6. /\ IsFiniteSet(Outstanding(g)) /\ Cardinality(Outstanding(g)) = Cardinality(Outstanding(h)) + 1
      /\ Cardinality(Outstanding(h)) \in Nat
  BY <1>2, OneMore DEF Core
<1> QED BY <1>1, <1>2, <1>3, <1>4, <1>5, <1>6 DEF Core

\* The system answers.
LEMMA CompletedKeeps ==
  ASSUME NEW h, NEW R, NEW n, Core(h, R, n), NEW r \in h.kernel, NEW good \in BOOLEAN,
         NEW g, g = Completed(h, r, good)
  PROVE  /\ Core(g, R, n) /\ SameBut(g, h, {"kernel", "pending", "ok"})
         /\ Outstanding(g) = Outstanding(h) /\ ~On(h, "CLOSED")
<1>1. /\ SameBut(g, h, {"kernel", "pending", "ok"})
      /\ g.kernel = h.kernel \ {r} /\ g.pending = h.pending \cup {r} /\ g.walk = h.walk
  BY DEF Completed, Core, BaseFields, SameBut
<1>2. Outstanding(g) = Outstanding(h) /\ HeldOnce(g)
  BY <1>1 DEF Core, HeldOnce, Outstanding
<1>3. ~On(h, "CLOSED")
  BY DEF Core, EndsOnce, CountSound, Outstanding
<1>4. /\ BaseFields \subseteq DOMAIN g /\ g.flags = h.flags /\ g.counted = h.counted
      /\ g.ends = h.ends /\ g.activecnt = h.activecnt /\ g.reqs_pending = h.reqs_pending
  BY <1>1 DEF SameBut, BaseFields, Core
<1>5. EndsOnce(g) /\ Kept(g)
  BY <1>3, <1>4 DEF Core, EndsOnce, CountSound, Kept, On
<1> QED BY <1>1, <1>2, <1>3, <1>4, <1>5 DEF Core

LEMMA WalkKeeps ==
  ASSUME NEW h, NEW R, NEW n, Core(h, R, n), CanWalk(h), NEW g, g = WalkReqs(h)
  PROVE  /\ Core(g, R, n) /\ SameBut(g, h, {"pending", "walk"})
         /\ Outstanding(g) = Outstanding(h) /\ ~On(h, "CLOSED")
<1>1. /\ SameBut(g, h, {"pending", "walk"}) /\ h.walk = {} /\ h.pending # {}
      /\ g.kernel = h.kernel /\ g.pending = {} /\ g.walk = h.pending
  BY DEF WalkReqs, CanWalk, Core, BaseFields, SameBut
<1>2. Outstanding(g) = Outstanding(h) /\ HeldOnce(g)
  BY <1>1 DEF Core, HeldOnce, Outstanding
<1>3. ~On(h, "CLOSED")
  BY <1>1 DEF Core, EndsOnce, CountSound, Outstanding
<1>4. /\ BaseFields \subseteq DOMAIN g /\ g.flags = h.flags /\ g.counted = h.counted
      /\ g.ends = h.ends /\ g.activecnt = h.activecnt /\ g.reqs_pending = h.reqs_pending
  BY <1>1 DEF SameBut, BaseFields, Core
<1>5. EndsOnce(g) /\ Kept(g)
  BY <1>3, <1>4 DEF Core, EndsOnce, CountSound, Kept, On
<1> QED BY <1>1, <1>2, <1>3, <1>4, <1>5 DEF Core

\* The handler of a request has taken it: it is still counted.
LEMMA TakenKeeps ==
  ASSUME NEW h, NEW R, NEW n, Core(h, R, n), NEW r \in h.walk, NEW g, g = Handling(h, r)
  PROVE  /\ Core(g, R, n + 1) /\ SameBut(g, h, {"walk"})
         /\ Outstanding(g) = Outstanding(h) \ {r} /\ ~On(h, "CLOSED") /\ r \in Outstanding(h) /\ r \in R
<1>1. /\ SameBut(g, h, {"walk"}) /\ g.kernel = h.kernel /\ g.pending = h.pending /\ g.walk = h.walk \ {r}
  BY DEF Handling, Core, BaseFields, SameBut
<1>2. Outstanding(g) = Outstanding(h) \ {r} /\ HeldOnce(g) /\ r \in Outstanding(h)
  BY <1>1 DEF Core, HeldOnce, Outstanding
<1>3. ~On(h, "CLOSED")
  BY <1>2 DEF Core, EndsOnce, CountSound
<1>4. /\ BaseFields \subseteq DOMAIN g /\ g.flags = h.flags /\ g.counted = h.counted
      /\ g.ends = h.ends /\ g.activecnt = h.activecnt /\ g.reqs_pending = h.reqs_pending
  BY <1>1 DEF SameBut, BaseFields, Core
<1>5. EndsOnce(g) /\ Kept(g)
  BY <1>3, <1>4 DEF Core, EndsOnce, CountSound, Kept, On
<1>6. /\ IsFiniteSet(Outstanding(g)) /\ Cardinality(Outstanding(g)) = Cardinality(Outstanding(h)) - 1
      /\ Cardinality(Outstanding(h)) \in Nat
  BY <1>2, OneMore DEF Core
<1> QED BY <1>1, <1>2, <1>3, <1>4, <1>5, <1>6 DEF Core

\* What a handle keeps alive: INCREASE_ACTIVE_COUNT and REGISTER_HANDLE_REQ.
LEMMA IncCore ==
  ASSUME NEW h, NEW R, NEW n, Core(h, R, n), ~On(h, "CLOSING"), h.activecnt >= 0,
         NEW g, g = IncActive(h)
  PROVE  /\ Core(g, R, n) /\ SameBut(g, h, {"flags", "counted", "activecnt"})
         /\ Outstanding(g) = Outstanding(h) /\ g.activecnt = h.activecnt + 1
         /\ \A f : f # "ACTIVE" => (On(g, f) <=> On(h, f))
<1>1. g.activecnt = h.activecnt + 1 /\ SameBut(g, h, {"flags", "counted", "activecnt"})
  BY DEF IncActive, SameBut, BaseFields, Core
<1>2. Kept(h) /\ EndsOnce(h) /\ BaseFields \subseteq DOMAIN h
  BY DEF Core
<1>3. /\ h.activecnt = 0 => g.flags = h.flags \cup {"ACTIVE"} /\ g.counted = h.counted + 1
      /\ h.activecnt # 0 => g.flags = h.flags \cup {} /\ g.counted = h.counted + 0
  BY <1>2 DEF IncActive, BaseFields, Kept
<1>4. g.flags = h.flags \cup {"ACTIVE"}
  BY <1>2, <1>3 DEF Kept, On
<1>5. /\ g.ends = h.ends /\ g.pc = h.pc /\ g.kernel = h.kernel /\ g.pending = h.pending /\ g.walk = h.walk
      /\ g.reqs_pending = h.reqs_pending /\ BaseFields \subseteq DOMAIN g
  BY <1>1, <1>2 DEF SameBut, BaseFields
<1>6. Outstanding(g) = Outstanding(h) /\ HeldOnce(g)
  BY <1>5 DEF Outstanding, HeldOnce, Core
<1>7. Kept(g)
  BY <1>1, <1>2, <1>4 DEF Kept, On
<1>8. EndsOnce(g)
  BY <1>2, <1>3, <1>4, <1>5, <1>6 DEF Kept, EndsOnce, CountSound, On
<1>9. \A f : f # "ACTIVE" => (On(g, f) <=> On(h, f))
  BY <1>4 DEF On
<1> QED BY <1>1, <1>5, <1>6, <1>7, <1>8, <1>9 DEF Core

LEMMA RegisterCore ==
  ASSUME NEW h, NEW R, NEW n, Core(h, R, n), ~On(h, "CLOSING"), h.activecnt >= 0,
         NEW g, g = Register(h)
  PROVE  /\ Core(g, R, n) /\ SameBut(g, h, {"flags", "counted", "activecnt", "active_reqs"})
         /\ Outstanding(g) = Outstanding(h) /\ g.activecnt = h.activecnt + 1
         /\ g.active_reqs = h.active_reqs + 1
         /\ \A f : f # "ACTIVE" => (On(g, f) <=> On(h, f))
<1> DEFINE k == IncActive(h)
<1>1. /\ Core(k, R, n) /\ SameBut(k, h, {"flags", "counted", "activecnt"})
      /\ Outstanding(k) = Outstanding(h) /\ k.activecnt = h.activecnt + 1
      /\ \A f : f # "ACTIVE" => (On(k, f) <=> On(h, f))
  BY IncCore
<1>2. g = [k EXCEPT !.active_reqs = @ + 1]
  BY DEF Register
<1> HIDE DEF k
<1>3. SameBut(g, k, {"active_reqs"}) /\ g.active_reqs = k.active_reqs + 1 /\ k.active_reqs = h.active_reqs
  BY <1>1, <1>2 DEF SameBut, Core, BaseFields
<1>4. /\ BaseFields \subseteq DOMAIN g /\ g.kernel = k.kernel /\ g.pending = k.pending /\ g.walk = k.walk
      /\ g.counted = k.counted /\ g.ends = k.ends /\ g.activecnt = k.activecnt
      /\ g.reqs_pending = k.reqs_pending /\ g.flags = k.flags
  BY <1>1, <1>3 DEF SameBut, Core, BaseFields
<1>5. Alike(g, k) /\ (\A f : On(g, f) <=> On(k, f)) /\ ~On(k, "CLOSED")
  BY <1>1, <1>4 DEF Core, EndsOnce, Alike, On
<1>6. Core(g, R, n) /\ Outstanding(g) = Outstanding(k)
  BY <1>1, <1>4, <1>5, CoreSame
<1>7. SameBut(g, h, {"flags", "counted", "activecnt", "active_reqs"})
  BY <1>1, <1>3 DEF SameBut
<1> QED BY <1>1, <1>3, <1>4, <1>5, <1>6, <1>7

LEMMA DecCore ==
  ASSUME NEW h, NEW R, NEW n, Core(h, R, n), h.activecnt > 0, NEW g, g = DecActive(h)
  PROVE  /\ Core(g, R, n) /\ SameBut(g, h, {"flags", "counted", "activecnt"})
         /\ Outstanding(g) = Outstanding(h) /\ g.activecnt = h.activecnt - 1
         /\ \A f : f # "ACTIVE" => (On(g, f) <=> On(h, f))
<1>1. g.activecnt = h.activecnt - 1 /\ SameBut(g, h, {"flags", "counted", "activecnt"})
  BY DEF DecActive, SameBut, BaseFields, Core
<1>2. Kept(h) /\ EndsOnce(h) /\ BaseFields \subseteq DOMAIN h
  BY DEF Core
<1> DEFINE last == h.activecnt = 1 /\ ~On(h, "CLOSING") /\ On(h, "ACTIVE")
<1>3. /\ last => g.flags = h.flags \ {"ACTIVE"} /\ g.counted = h.counted - 1
      /\ ~last => g.flags = h.flags \ {} /\ g.counted = h.counted - 0
  BY <1>2 DEF DecActive, BaseFields
<1>5. /\ g.ends = h.ends /\ g.pc = h.pc /\ g.kernel = h.kernel /\ g.pending = h.pending /\ g.walk = h.walk
      /\ g.reqs_pending = h.reqs_pending /\ BaseFields \subseteq DOMAIN g
  BY <1>1, <1>2 DEF SameBut, BaseFields
<1>6. Outstanding(g) = Outstanding(h) /\ HeldOnce(g)
  BY <1>5 DEF Outstanding, HeldOnce, Core
<1>7. Kept(g)
  BY <1>1, <1>2, <1>3 DEF Kept, On
<1>8. EndsOnce(g)
  BY <1>2, <1>3, <1>5, <1>6 DEF EndsOnce, CountSound, On
<1>9. \A f : f # "ACTIVE" => (On(g, f) <=> On(h, f))
  BY <1>3 DEF On
<1> QED BY <1>1, <1>5, <1>6, <1>7, <1>8, <1>9 DEF Core

LEMMA UnregisterCore ==
  ASSUME NEW h, NEW R, NEW n, Core(h, R, n), ~On(h, "CLOSED"), h.activecnt > 0, NEW g, g = Unregister(h)
  PROVE  /\ Core(g, R, n) /\ SameBut(g, h, {"flags", "counted", "activecnt", "active_reqs"})
         /\ Outstanding(g) = Outstanding(h) /\ g.activecnt = h.activecnt - 1
         /\ g.active_reqs = h.active_reqs - 1
         /\ \A f : f # "ACTIVE" => (On(g, f) <=> On(h, f))
<1> DEFINE k == DecActive(h)
<1>1. /\ Core(k, R, n) /\ SameBut(k, h, {"flags", "counted", "activecnt"})
      /\ Outstanding(k) = Outstanding(h) /\ k.activecnt = h.activecnt - 1
      /\ \A f : f # "ACTIVE" => (On(k, f) <=> On(h, f))
  BY DecCore
<1>2. g = [k EXCEPT !.active_reqs = @ - 1]
  BY DEF Unregister
<1> HIDE DEF k
<1>3. SameBut(g, k, {"active_reqs"}) /\ g.active_reqs = k.active_reqs - 1 /\ k.active_reqs = h.active_reqs
  BY <1>1, <1>2 DEF SameBut, Core, BaseFields
<1>4. /\ BaseFields \subseteq DOMAIN g /\ g.kernel = k.kernel /\ g.pending = k.pending /\ g.walk = k.walk
      /\ g.counted = k.counted /\ g.ends = k.ends /\ g.activecnt = k.activecnt
      /\ g.reqs_pending = k.reqs_pending /\ g.flags = k.flags
  BY <1>1, <1>3 DEF SameBut, Core, BaseFields
<1>5. Alike(g, k) /\ (\A f : On(g, f) <=> On(k, f)) /\ ~On(k, "CLOSED")
  BY <1>1, <1>4 DEF Alike, On
<1>6. Core(g, R, n) /\ Outstanding(g) = Outstanding(k)
  BY <1>1, <1>4, <1>5, CoreSame
<1>7. SameBut(g, h, {"flags", "counted", "activecnt", "active_reqs"})
  BY <1>1, <1>3 DEF SameBut
<1> QED BY <1>1, <1>3, <1>4, <1>5, <1>6, <1>7

\* Flags are set or cleared, and a callback is called or returns.
LEMMA FlagsSame ==
  ASSUME NEW h, "flags" \in DOMAIN h, NEW fs
  PROVE  /\ SameBut(Set(h, fs), h, {"flags"}) /\ SameBut(Clear(h, fs), h, {"flags"})
         /\ \A f : /\ On(Set(h, fs), f) <=> On(h, f) \/ f \in fs
                   /\ On(Clear(h, fs), f) <=> On(h, f) /\ f \notin fs
BY DEF Set, Clear, On, SameBut

LEMMA CallSame ==
  ASSUME NEW h, BaseFields \subseteq DOMAIN h, NEW pc, NEW r
  PROVE  /\ SameBut(CallUser(h, pc, r), h, {"pc", "cur"}) /\ SameBut(Returned(h), h, {"pc", "cur"})
         /\ CallUser(h, pc, r).pc = pc /\ CallUser(h, pc, r).cur = r
         /\ Returned(h).pc = "idle" /\ Returned(h).cur = "none"
         /\ \A f : /\ On(CallUser(h, pc, r), f) <=> On(h, f)
                   /\ On(Returned(h), f) <=> On(h, f)
BY DEF CallUser, Returned, On, SameBut, BaseFields

\* What Core() is not about is another, and so are flags it is not about.
LEMMA OtherCore ==
  ASSUME NEW h, NEW R, NEW n, Core(h, R, n), ~On(h, "CLOSED"), NEW g, NEW fs, SameBut(g, h, fs),
         fs \cap BaseFields \subseteq {"flags", "active_reqs", "ok", "pc", "cur"}, Alike(g, h)
  PROVE  /\ Core(g, R, n) /\ Outstanding(g) = Outstanding(h) /\ ~On(g, "CLOSED")
<1>1. /\ BaseFields \subseteq DOMAIN g
      /\ g.kernel = h.kernel /\ g.pending = h.pending /\ g.walk = h.walk /\ g.counted = h.counted
      /\ g.ends = h.ends /\ g.activecnt = h.activecnt /\ g.reqs_pending = h.reqs_pending
  BY DEF SameBut, BaseFields, Core
<1> QED BY <1>1, CoreSame DEF Alike

\* One request is counted less: DECREASE_PENDING_REQ_COUNT.
LEMMA CountOffCore ==
  ASSUME NEW h, NEW R, NEW n \in Nat, Core(h, R, n + 1), ~On(h, "CLOSED"), NEW g, g = DecPending(h)
  PROVE  /\ Core(g, R, n) /\ SameBut(g, h, {"flags", "reqs_pending"})
         /\ Outstanding(g) = Outstanding(h)
         /\ \A f : f # "ENDGAME_QUEUED" => (On(g, f) <=> On(h, f))
         /\ EndDue(g) \/ On(h, "ENDGAME_QUEUED") <=> On(g, "ENDGAME_QUEUED")
<1> DEFINE k == [h EXCEPT !.reqs_pending = @ - 1]
<1>1. /\ SameBut(k, h, {"reqs_pending"}) /\ k.reqs_pending = h.reqs_pending - 1
      /\ k.flags = h.flags
  BY DEF SameBut, BaseFields, Core
<1>2. g = IF On(k, "CLOSING") /\ k.reqs_pending = 0 THEN WantEndgame(k) ELSE k
  BY DEF DecPending
<1> HIDE DEF k
<1>3. /\ SameBut(g, h, {"flags", "reqs_pending"}) /\ g.reqs_pending = h.reqs_pending - 1
      /\ g.flags = h.flags \cup (IF On(k, "CLOSING") /\ k.reqs_pending = 0 THEN {"ENDGAME_QUEUED"} ELSE {})
  BY <1>1, <1>2 DEF WantEndgame, Set, SameBut, BaseFields, Core
<1>4. /\ BaseFields \subseteq DOMAIN g
      /\ g.kernel = h.kernel /\ g.pending = h.pending /\ g.walk = h.walk /\ g.counted = h.counted
      /\ g.ends = h.ends /\ g.activecnt = h.activecnt
  BY <1>3 DEF SameBut, BaseFields, Core
<1>5. \A f : f # "ENDGAME_QUEUED" => (On(g, f) <=> On(h, f))
  BY <1>3 DEF On
<1>6. EndDue(g) \/ On(h, "ENDGAME_QUEUED") <=> On(g, "ENDGAME_QUEUED")
  BY <1>1, <1>3 DEF EndDue, On
<1>7. Outstanding(g) = Outstanding(h) /\ HeldOnce(g)
  BY <1>4 DEF Outstanding, HeldOnce, Core
<1>8. EndsOnce(g) /\ Kept(g)
  BY <1>4, <1>5, <1>7 DEF Core, EndsOnce, CountSound, Kept
<1>9. g.reqs_pending = Cardinality(Outstanding(g)) + n
  BY <1>3, <1>7, FS_CardinalityType DEF Core
<1> QED BY <1>3, <1>4, <1>5, <1>6, <1>7, <1>8, <1>9 DEF Core

\* The end of the handle is queued, or taken from the queue.
LEMMA QueuedCore ==
  ASSUME NEW h, NEW R, NEW n, Core(h, R, n), ~On(h, "CLOSED"), NEW g, g = WantEndgame(h) \/ g = Ending(h)
  PROVE  /\ Core(g, R, n) /\ SameBut(g, h, {"flags"}) /\ Outstanding(g) = Outstanding(h)
         /\ \A f : f # "ENDGAME_QUEUED" => (On(g, f) <=> On(h, f))
         /\ (g = WantEndgame(h) => On(g, "ENDGAME_QUEUED"))
         /\ (g = Ending(h) => ~On(g, "ENDGAME_QUEUED"))
<1>1. g = Set(h, {"ENDGAME_QUEUED"}) \/ g = Clear(h, {"ENDGAME_QUEUED"})
  BY DEF WantEndgame, Ending
<1>2. SameBut(g, h, {"flags"}) /\ \A f : f # "ENDGAME_QUEUED" => (On(g, f) <=> On(h, f))
  BY <1>1, FlagsSame DEF Core, BaseFields
<1>3. /\ g = WantEndgame(h) => On(g, "ENDGAME_QUEUED")
      /\ g = Ending(h) => ~On(g, "ENDGAME_QUEUED")
  BY FlagsSame DEF WantEndgame, Ending, Core, BaseFields
<1>4. /\ BaseFields \subseteq DOMAIN g
      /\ g.kernel = h.kernel /\ g.pending = h.pending /\ g.walk = h.walk /\ g.counted = h.counted
      /\ g.ends = h.ends /\ g.activecnt = h.activecnt /\ g.reqs_pending = h.reqs_pending
  BY <1>2 DEF SameBut, BaseFields, Core
<1>5. Outstanding(g) = Outstanding(h) /\ HeldOnce(g)
  BY <1>4 DEF Outstanding, HeldOnce, Core
<1>6. EndsOnce(g) /\ Kept(g)
  BY <1>2, <1>4, <1>5 DEF Core, EndsOnce, CountSound, Kept
<1> QED BY <1>2, <1>3, <1>4, <1>5, <1>6 DEF Core

\* uv_close() of a handle: it counts in the loop until its end.
LEMMA ClosingCore ==
  ASSUME NEW h, NEW R, NEW n, Core(h, R, n), ~On(h, "CLOSING"), NEW k, k = HandleClosing(h),
         NEW g, g = IF k.reqs_pending = 0 THEN WantEndgame(k) ELSE k
  PROVE  /\ Core(g, R, n) /\ SameBut(g, h, {"flags", "counted"}) /\ Outstanding(g) = Outstanding(h)
         /\ \A f : f \notin {"ACTIVE", "CLOSING", "ENDGAME_QUEUED"} => (On(g, f) <=> On(h, f))
         /\ On(g, "CLOSING") /\ ~On(g, "ACTIVE") /\ ~On(g, "CLOSED")
         /\ g.reqs_pending = 0 \/ On(h, "ENDGAME_QUEUED") <=> On(g, "ENDGAME_QUEUED")
<1>1. /\ SameBut(k, h, {"flags", "counted"}) /\ k.flags = (h.flags \cup {"CLOSING"}) \ {"ACTIVE"}
      /\ k.counted = IF On(h, "ACTIVE") THEN h.counted ELSE h.counted + 1
  BY DEF HandleClosing, SameBut, BaseFields, Core
<1>2. /\ BaseFields \subseteq DOMAIN k
      /\ k.kernel = h.kernel /\ k.pending = h.pending /\ k.walk = h.walk /\ k.pc = h.pc
      /\ k.ends = h.ends /\ k.activecnt = h.activecnt /\ k.reqs_pending = h.reqs_pending
  BY <1>1 DEF SameBut, BaseFields, Core
<1>3. Outstanding(k) = Outstanding(h) /\ HeldOnce(k)
  BY <1>2 DEF Outstanding, HeldOnce, Core
<1>4. /\ \A f : f \notin {"ACTIVE", "CLOSING"} => (On(k, f) <=> On(h, f))
      /\ On(k, "CLOSING") /\ ~On(k, "ACTIVE") /\ ~On(k, "CLOSED") /\ ~On(h, "CLOSED")
  BY <1>1 DEF On, Core, EndsOnce
<1>5. EndsOnce(k) /\ Kept(k)
  BY <1>1, <1>2, <1>3, <1>4 DEF Core, EndsOnce, CountSound, Kept
<1>6. Core(k, R, n)
  BY <1>2, <1>3, <1>5 DEF Core
<1>7. CASE k.reqs_pending # 0
  BY <1>7, <1>1, <1>3, <1>4, <1>6
<1>8. CASE k.reqs_pending = 0
  BY <1>8, <1>4, <1>6, <1>1, <1>2, <1>3, QueuedCore DEF SameBut, BaseFields
<1> QED BY <1>7, <1>8

\* The end: uv__handle_close(), when nothing is counted any more.
LEMMA ClosedCore ==
  ASSUME NEW h, NEW R, NEW n, Core(h, R, n), ~On(h, "CLOSED"), EndDue(h), ~On(h, "ENDGAME_QUEUED"),
         h.pc = "idle", NEW g, g = HandleClose(h)
  PROVE  /\ Core(g, R, 0) /\ n = 0 /\ SameBut(g, h, {"flags", "counted", "ends"})
         /\ Outstanding(g) = {} /\ Outstanding(h) = {} /\ On(g, "CLOSED")
         /\ \A f : f # "CLOSED" => (On(g, f) <=> On(h, f))
<1>1. /\ SameBut(g, h, {"flags", "counted", "ends"}) /\ g.flags = h.flags \cup {"CLOSED"}
      /\ g.counted = h.counted - 1 /\ g.ends = h.ends + 1
  BY DEF HandleClose, Set, SameBut, BaseFields, Core
<1>2. /\ BaseFields \subseteq DOMAIN g
      /\ g.kernel = h.kernel /\ g.pending = h.pending /\ g.walk = h.walk /\ g.pc = h.pc
      /\ g.activecnt = h.activecnt /\ g.reqs_pending = h.reqs_pending
  BY <1>1 DEF SameBut, BaseFields, Core
<1>3. Outstanding(g) = Outstanding(h) /\ HeldOnce(g)
  BY <1>2 DEF Outstanding, HeldOnce, Core
<1>4. Cardinality(Outstanding(h)) = 0 /\ n = 0
  BY FS_CardinalityType DEF Core, EndDue
<1>5. Outstanding(h) = {}
  BY <1>4, FS_EmptySet DEF Core
<1>6. On(g, "CLOSED") /\ \A f : f # "CLOSED" => (On(g, f) <=> On(h, f))
  BY <1>1 DEF On
<1>7. EndsOnce(g) /\ Kept(g)
  BY <1>1, <1>2, <1>3, <1>5, <1>6 DEF Core, EndsOnce, CountSound, Kept, EndDue
<1> QED BY <1>1, <1>2, <1>3, <1>4, <1>5, <1>6, <1>7 DEF Core

\* One more is counted that is not out: the shutdown.
LEMMA CoreMore ==
  ASSUME NEW h, NEW R, NEW n, Core(h, R, n), ~On(h, "CLOSED"), NEW g, NEW fs, SameBut(g, h, fs),
         fs \cap BaseFields \subseteq {"flags", "active_reqs", "ok", "pc", "cur", "reqs_pending"},
         g.reqs_pending = h.reqs_pending + 1, Alike(g, h)
  PROVE  Core(g, R, n + 1) /\ Outstanding(g) = Outstanding(h) /\ ~On(g, "CLOSED")
<1>1. /\ BaseFields \subseteq DOMAIN g
      /\ g.kernel = h.kernel /\ g.pending = h.pending /\ g.walk = h.walk /\ g.counted = h.counted
      /\ g.ends = h.ends /\ g.activecnt = h.activecnt
  BY DEF SameBut, BaseFields, Core
<1>2. Outstanding(g) = Outstanding(h)
  BY <1>1 DEF Outstanding
<1>3. EndsOnce(g) /\ Kept(g) /\ HeldOnce(g) /\ ~On(g, "CLOSED")
  BY <1>1, <1>2 DEF Core, EndsOnce, CountSound, Kept, HeldOnce, Alike
<1>4. Cardinality(Outstanding(h)) \in Nat /\ n \in Nat
  BY FS_CardinalityType DEF Core
<1> QED BY <1>1, <1>2, <1>3, <1>4 DEF Core

-----------------------------------------------------------------------------
(* A TCP socket.                                                           *)

TcpFields ==
  BaseFields \cup {"socket", "delayed_error", "write_reqs_pending", "shutdown_req", "accept_socket",
                   "pending_accepts", "accept_reqs", "processed_accepts", "listens", "todo", "called"}

TcpReqs == TcpWrites \cup TcpAccepts \cup {"connect", "read"}

\* The requests that keep the handle active while they are out.
TcpActive == TcpWrites \cup {"connect"}

OneIf(b) == IF b THEN 1 ELSE 0

TcpTypes(h) ==
  /\ DOMAIN h = TcpFields
  /\ h.socket \in BOOLEAN /\ h.delayed_error \in BOOLEAN /\ h.shutdown_req \in BOOLEAN
  /\ h.accept_reqs \in BOOLEAN /\ h.accept_socket \in [TcpAccepts -> BOOLEAN]
  /\ h.pending_accepts \in Seq(TcpAccepts) /\ NoDup(h.pending_accepts)
  /\ h.listens \in 0 .. 2 /\ h.processed_accepts \in Nat

\* What is counted where a handler of the kind k has taken its request: a write,
\* the shutdown, another one, or none.
TcpCounts(h, k) ==
  /\ Core(h, TcpReqs, OneIf(k \in {"write", "other"}) + OneIf(h.shutdown_req))
  /\ h.write_reqs_pending = Cardinality(Outstanding(h) \cap TcpWrites) + OneIf(k = "write")
  /\ h.active_reqs = Cardinality(Outstanding(h) \cap TcpActive) + OneIf(h.shutdown_req /\ k # "shutdown")
  /\ k = "shutdown" => h.shutdown_req

TcpKeepsAlive(h) ==
  /\ h.activecnt >= h.active_reqs + OneIf(On(h, "READING")) + OneIf(On(h, "LISTENING"))
  /\ h.listens < 2 =>
       h.activecnt = h.active_reqs + OneIf(On(h, "READING")) + OneIf(On(h, "LISTENING"))

\* Every write is to be made, out, or answered.
TcpWritten(h) ==
  /\ h.todo \subseteq TcpWrites
  /\ h.todo \cap Outstanding(h) = {}
  /\ h.todo \cup h.called \cup (Outstanding(h) \cap TcpWrites) = TcpWrites

TcpConnection(h) ==
  /\ On(h, "CLOSING") => /\ ~On(h, "READING") /\ ~On(h, "READABLE") /\ ~On(h, "WRITABLE")
                         /\ ~On(h, "LISTENING")
                         /\ h.socket => h.write_reqs_pending > 0
  /\ On(h, "BOUND") \/ h.listens > 0 \/ "connect" \in Outstanding(h) => h.socket \/ On(h, "CLOSING")
  /\ On(h, "CONNECTION") \/ "connect" \in Outstanding(h) => h.listens = 0
  /\ "connect" \in Outstanding(h) => ~On(h, "CONNECTION")
  /\ On(h, "WRITABLE") \/ h.shutdown_req => On(h, "CONNECTION")
  /\ h.shutdown_req => On(h, "SHUTTING")
  /\ On(h, "READ_PENDING") <=> "read" \in Outstanding(h)

\* The accept requests that are out, or offer a connection.
TcpHeld(h) == (Outstanding(h) \cap TcpAccepts) \cup In(h.pending_accepts)

\* A server; some are the accept requests its handler has.
TcpServes(h, some) ==
  /\ h.listens = 0 => /\ TcpHeld(h) = {} /\ ~On(h, "LISTENING") /\ ~On(h, "STATE_CHANGING")
                      /\ ~h.accept_reqs
  /\ h.listens = 0 \/ On(h, "CLOSING") => \A a \in TcpAccepts : ~h.accept_socket[a]
  /\ h.listens > 0 /\ ~On(h, "CLOSING") => h.accept_reqs
  /\ In(h.pending_accepts) \cap Outstanding(h) = {}
  /\ ~On(h, "STATE_CHANGING") => h.processed_accepts = 0
  /\ On(h, "STATE_CHANGING") =>
       /\ On(h, "SINGLE_ACCEPT") /\ h.processed_accepts < Len(TcpAcceptReqs)
       /\ Cardinality(TcpHeld(h) \cup some) + h.processed_accepts <= Len(TcpAcceptReqs)
  /\ On(h, "LISTENING") /\ h.listens = 1 =>
       /\ On(h, "STATE_CHANGING") =>
            Cardinality(TcpHeld(h) \cup some) + h.processed_accepts = Len(TcpAcceptReqs)
       /\ ~On(h, "SINGLE_ACCEPT") => TcpHeld(h) \cup some = TcpAccepts
       /\ ~On(h, "STATE_CHANGING") => TcpHeld(h) \cup some # {}

TcpOk(h, k, some) ==
  /\ TcpTypes(h) /\ TcpCounts(h, k) /\ TcpKeepsAlive(h) /\ TcpWritten(h) /\ TcpConnection(h)
  /\ TcpServes(h, some)

\* Who is waited for has somebody to go on with it.
TcpDue(h, k) ==
  /\ h.shutdown_req /\ h.write_reqs_pending = 0 /\ k # "shutdown" => On(h, "ENDGAME_QUEUED")
  /\ EndDue(h) /\ ~On(h, "CLOSED") => On(h, "ENDGAME_QUEUED")

TcpPc(h) ==
  \/ h.pc = "idle" /\ h.cur = "none"
  \/ h.pc = "connect_cb" /\ h.cur = "connect"
  \/ h.pc \in {"read_loop", "read_cb", "last_cb", "end_cb"} /\ h.cur = "read"
  \/ h.pc = "write_cb" /\ h.cur \in TcpWrites
  \/ h.pc = "accept_cb" /\ h.cur \in TcpAccepts
  \/ h.pc = "shutdown_cb" /\ h.cur = "shutdown"

TcpKind(h) ==
  IF h.pc = "idle" THEN "none" ELSE IF h.pc = "write_cb" THEN "write"
  ELSE IF h.pc = "shutdown_cb" THEN "shutdown" ELSE "other"

TcpReads(h) ==
  On(h, "READING") /\ ~On(h, "READ_PENDING") => h.pc \in {"read_loop", "read_cb", "last_cb"}

TcpInv ==
  /\ TcpOk(wh, TcpKind(wh), {}) /\ TcpPc(wh) /\ TcpDue(wh, TcpKind(wh)) /\ TcpReads(wh)

LEMMA TcpFinite == IsFiniteSet(TcpAccepts) /\ IsFiniteSet(TcpWrites) /\ Len(TcpAcceptReqs) \in Nat \ {0}
                   /\ TcpAcceptReqs[1] \in TcpAccepts
<1>1. Len(TcpAcceptReqs) \in Nat \ {0} /\ DOMAIN TcpAcceptReqs = 1 .. Len(TcpAcceptReqs)
  BY TcpAssumption
<1>2. TcpAcceptReqs \in Surjection(1 .. Len(TcpAcceptReqs), TcpAccepts)
  BY <1>1, TcpAssumption DEF Surjection, TcpAccepts
<1>3. IsFiniteSet(TcpAccepts)
  BY <1>1, <1>2, FS_Interval, FS_Surjection
<1> QED BY <1>1, <1>3, TcpAssumption DEF TcpAccepts

\* The size of the part of a set that is in S, with one member more or less.
LEMMA PartMore ==
  ASSUME NEW O, IsFiniteSet(O), NEW S, NEW r
  PROVE  /\ Cardinality(O \cap S) \in Nat
         /\ r \notin O => Cardinality((O \cup {r}) \cap S) = Cardinality(O \cap S) + OneIf(r \in S)
         /\ r \in O => Cardinality((O \ {r}) \cap S) = Cardinality(O \cap S) - OneIf(r \in S)
<1>1. IsFiniteSet(O \cap S)
  BY FS_Subset
<1>2. CASE r \in S
  <2>1. (O \cup {r}) \cap S = (O \cap S) \cup {r} /\ (O \ {r}) \cap S = (O \cap S) \ {r}
    BY <1>2
  <2> QED BY <1>1, <1>2, <2>1, OneMore DEF OneIf
<1>3. CASE r \notin S
  <2>1. (O \cup {r}) \cap S = O \cap S /\ (O \ {r}) \cap S = O \cap S
    BY <1>3
  <2>2. Cardinality(O \cap S) \in Nat
    BY <1>1, FS_CardinalityType
  <2> QED BY <1>3, <2>1, <2>2 DEF OneIf
<1> QED BY <1>2, <1>3

LEMMA TcpSizes ==
  ASSUME NEW h, NEW k, TcpCounts(h, k), TcpKeepsAlive(h)
  PROVE  /\ Cardinality(Outstanding(h) \cap TcpWrites) \in Nat
         /\ Cardinality(Outstanding(h) \cap TcpActive) \in Nat
         /\ Cardinality(Outstanding(h)) \in Nat /\ IsFiniteSet(Outstanding(h))
         /\ h.write_reqs_pending \in Nat /\ h.active_reqs \in Nat
         /\ h.activecnt \in Nat /\ h.activecnt >= h.active_reqs
         /\ On(h, "READING") => h.activecnt > h.active_reqs
         /\ On(h, "LISTENING") => h.activecnt > h.active_reqs
         /\ h.reqs_pending \in Nat
<1>1. IsFiniteSet(Outstanding(h)) /\ h.activecnt \in Int
  BY DEF TcpCounts, Core, Kept
<1>2. /\ Cardinality(Outstanding(h) \cap TcpWrites) \in Nat
      /\ Cardinality(Outstanding(h) \cap TcpActive) \in Nat
      /\ Cardinality(Outstanding(h)) \in Nat
  BY <1>1, FS_CardinalityType, FS_Subset
<1>3. h.write_reqs_pending \in Nat /\ h.active_reqs \in Nat
  BY <1>2 DEF TcpCounts, OneIf
<1>4. h.reqs_pending \in Nat
  BY <1>2 DEF TcpCounts, Core, OneIf
<1> QED BY <1>1, <1>2, <1>3, <1>4 DEF TcpKeepsAlive, OneIf

LEMMA TcpInitInv == WinTcpInit => TcpInv
<1> SUFFICES ASSUME WinTcpInit PROVE TcpInv
  OBVIOUS
<1>1. /\ DOMAIN wh = TcpFields /\ wh.flags = {} /\ wh.activecnt = 0 /\ wh.reqs_pending = 0
      /\ wh.active_reqs = 0 /\ wh.counted = 0 /\ wh.kernel = {} /\ wh.pending = {} /\ wh.walk = {}
      /\ wh.ok = {} /\ wh.pc = "idle" /\ wh.cur = "none" /\ wh.ends = 0
  BY DEF WinTcpInit, HandleOf, NewHandle, TcpFields, BaseFields
<1>2. /\ wh.socket = FALSE /\ wh.delayed_error = FALSE /\ wh.write_reqs_pending = 0
      /\ wh.shutdown_req = FALSE /\ wh.accept_socket = [a \in TcpAccepts |-> FALSE]
      /\ wh.pending_accepts = <<>> /\ wh.accept_reqs = FALSE /\ wh.processed_accepts = 0
      /\ wh.listens = 0 /\ wh.todo = TcpWrites /\ wh.called = {}
  BY DEF WinTcpInit, HandleOf, NewHandle, TcpFields, BaseFields
<1>3. Outstanding(wh) = {} /\ (\A f : ~On(wh, f)) /\ Outstanding(wh) \cap TcpWrites = {}
      /\ Outstanding(wh) \cap TcpActive = {}
  BY <1>1 DEF Outstanding, On
<1>4. Core(wh, TcpReqs, 0)
  BY <1>1, <1>3, FS_EmptySet DEF Core, EndsOnce, CountSound, Kept, HeldOnce, TcpFields
<1>5. TcpCounts(wh, "none")
  BY <1>1, <1>2, <1>3, <1>4, FS_EmptySet DEF TcpCounts, OneIf
<1>6. TcpTypes(wh)
  <2>1. wh.pending_accepts \in Seq(TcpAccepts) /\ NoDup(wh.pending_accepts)
    BY <1>2, EmptyList
  <2>2. wh.accept_socket \in [TcpAccepts -> BOOLEAN]
    BY <1>2
  <2>3. wh.listens \in 0 .. 2 /\ wh.processed_accepts \in Nat
    BY <1>2
  <2> QED BY <1>1, <1>2, <2>1, <2>2, <2>3 DEF TcpTypes
<1>7. TcpKeepsAlive(wh) /\ TcpWritten(wh) /\ TcpConnection(wh)
  BY <1>1, <1>2, <1>3 DEF TcpKeepsAlive, TcpWritten, TcpConnection, OneIf
<1>8. TcpServes(wh, {})
  BY <1>1, <1>2, <1>3, EmptyList DEF TcpServes, TcpHeld
<1> QED BY <1>1, <1>2, <1>3, <1>5, <1>6, <1>7, <1>8 DEF TcpInv, TcpOk, TcpPc, TcpKind, TcpDue, TcpReads, EndDue

LEMMA TcpInvSound == TcpInv => WinTcpSound
<1> SUFFICES ASSUME TcpInv PROVE WinTcpSound
  OBVIOUS
<1> DEFINE k == TcpKind(wh)
<1>1. /\ TcpTypes(wh) /\ TcpCounts(wh, k) /\ TcpKeepsAlive(wh) /\ TcpWritten(wh) /\ TcpConnection(wh)
      /\ TcpServes(wh, {}) /\ TcpPc(wh) /\ TcpDue(wh, k) /\ TcpReads(wh)
  BY DEF TcpInv, TcpOk
<1>2. OneIf(k \in {"write", "other"}) = TcpCurrent
  BY <1>1, TcpAssumption DEF TcpPc, TcpKind, OneIf, TcpCurrent
<1>3. Core(wh, TcpReqs, TcpCurrent + OneIf(wh.shutdown_req))
  BY <1>1, <1>2 DEF TcpCounts
<1>4. wh.reqs_pending = Cardinality(Outstanding(wh)) + TcpCurrent + (IF wh.shutdown_req THEN 1 ELSE 0)
  BY <1>3, FS_CardinalityType DEF Core, OneIf, TcpCurrent
<1>5. /\ wh.activecnt >= 0 /\ wh.active_reqs >= 0 /\ wh.reqs_pending >= 0 /\ wh.write_reqs_pending \in Nat
  <2> HIDE DEF k
  <2>1. wh.activecnt \in Nat /\ wh.active_reqs \in Nat /\ wh.reqs_pending \in Nat
        /\ wh.write_reqs_pending \in Nat
    BY <1>1, TcpSizes
  <2> QED BY <2>1
<1>6. On(wh, "CLOSED") => /\ wh.reqs_pending = 0 /\ wh.active_reqs = 0 /\ wh.write_reqs_pending = 0
                          /\ ~On(wh, "ENDGAME_QUEUED") /\ Outstanding(wh) = {} /\ On(wh, "CLOSING")
  BY <1>3, <1>1, <1>2, <1>4, FS_EmptySet DEF Core, EndsOnce, CountSound, TcpKind, TcpCounts, OneIf,
     TcpDue
<1>7. HandleSound(wh)
  BY <1>1, <1>3, <1>5, <1>6 DEF HandleSound, Core, EndsOnce, Kept, TcpDue
<1>8. wh.listens < 2 =>
        wh.activecnt = wh.active_reqs + (IF Uses("READING") THEN 1 ELSE 0) + (IF Uses("LISTENING") THEN 1 ELSE 0)
  BY <1>1 DEF TcpKeepsAlive, OneIf, Uses
<1>9. wh.shutdown_req /\ wh.write_reqs_pending = 0 /\ wh.pc = "idle" => Uses("ENDGAME_QUEUED")
  BY <1>1 DEF TcpDue, Uses, TcpKind
<1>10. Uses("CLOSED") => ~wh.socket /\ wh.called \cup wh.todo = TcpWrites
                         /\ \A a \in TcpAccepts : ~wh.accept_socket[a]
  BY <1>1, <1>6 DEF TcpConnection, TcpWritten, TcpServes, Uses
<1>11. Uses("READING") /\ wh.pc = "idle" => Uses("READ_PENDING")
  BY <1>1 DEF TcpReads, Uses
<1>12. Uses("LISTENING") /\ wh.listens < 2 =>
         \/ wh.pending_accepts # <<>> \/ wh.cur \in TcpAccepts
         \/ Outstanding(wh) \cap TcpAccepts # {}
  <2> SUFFICES ASSUME On(wh, "LISTENING"), wh.listens < 2
               PROVE  TcpHeld(wh) # {}
    BY EmptyList DEF Uses, TcpHeld
  <2>1. wh.listens = 1
    BY <1>1 DEF TcpServes, TcpTypes
  <2>2. TcpHeld(wh) \cup {} = TcpHeld(wh)
    OBVIOUS
  <2>3. CASE On(wh, "STATE_CHANGING")
    <3>1. Cardinality(TcpHeld(wh)) + wh.processed_accepts = Len(TcpAcceptReqs)
          /\ wh.processed_accepts < Len(TcpAcceptReqs) /\ wh.processed_accepts \in Nat
      BY <1>1, <2>1, <2>2, <2>3 DEF TcpServes, TcpTypes
    <3>2. Len(TcpAcceptReqs) \in Nat /\ Cardinality({}) = 0
      BY TcpFinite, FS_EmptySet
    <3>3. TcpHeld(wh) = {} => Cardinality(TcpHeld(wh)) = 0
      BY <3>2
    <3> QED BY <3>1, <3>2, <3>3
  <2>4. CASE ~On(wh, "STATE_CHANGING")
    BY <1>1, <2>1, <2>2, <2>4 DEF TcpServes
  <2> QED BY <2>3, <2>4
<1> QED BY <1>4, <1>7, <1>8, <1>9, <1>10, <1>11, <1>12 DEF WinTcpSound

\* Fields that the counts and the server do not depend on.
LEMMA TcpSame ==
  ASSUME NEW h, NEW k, NEW some, TcpOk(h, k, some), NEW g, NEW j,
         j = k \/ {j, k} = {"none", "other"},
         Core(g, TcpReqs, OneIf(j \in {"write", "other"}) + OneIf(h.shutdown_req)),
         Outstanding(g) = Outstanding(h),
         SameBut(g, h, {"flags", "counted", "reqs_pending", "pc", "cur", "ends", "ok", "kernel",
                        "pending", "walk", "socket", "delayed_error"}),
         g.socket \in BOOLEAN, g.delayed_error \in BOOLEAN,
         \A f \in {"READING", "LISTENING", "STATE_CHANGING", "SINGLE_ACCEPT", "CLOSING"} : On(g, f) <=> On(h, f),
         TcpConnection(g)
  PROVE  TcpOk(g, j, some)
<1>1. /\ DOMAIN g = TcpFields /\ g.activecnt = h.activecnt /\ g.active_reqs = h.active_reqs
      /\ g.write_reqs_pending = h.write_reqs_pending /\ g.shutdown_req = h.shutdown_req
      /\ g.accept_socket = h.accept_socket /\ g.pending_accepts = h.pending_accepts
      /\ g.accept_reqs = h.accept_reqs /\ g.processed_accepts = h.processed_accepts
      /\ g.listens = h.listens /\ g.todo = h.todo /\ g.called = h.called
  BY DEF TcpOk, TcpTypes, SameBut, TcpFields, BaseFields
<1>2. TcpHeld(g) = TcpHeld(h)
  BY <1>1 DEF TcpHeld
<1>3. TcpTypes(g)
  BY <1>1 DEF TcpOk, TcpTypes
<1>4. TcpCounts(g, j)
  BY <1>1 DEF TcpOk, TcpCounts, OneIf
<1>5. TcpKeepsAlive(g) /\ TcpWritten(g)
  BY <1>1 DEF TcpOk, TcpKeepsAlive, TcpWritten, OneIf
<1>6. TcpServes(g, some)
  BY <1>1, <1>2 DEF TcpOk, TcpServes
<1> QED BY <1>3, <1>4, <1>5, <1>6 DEF TcpOk

\* Nor does anything depend on these.
LEMMA TcpAlike ==
  ASSUME NEW h, NEW k, NEW some, TcpOk(h, k, some), NEW g, NEW j,
         j = k \/ {j, k} = {"none", "other"},
         Core(g, TcpReqs, OneIf(j \in {"write", "other"}) + OneIf(h.shutdown_req)),
         Outstanding(g) = Outstanding(h),
         SameBut(g, h, {"flags", "counted", "reqs_pending", "pc", "cur", "ends", "ok", "kernel",
                        "pending", "walk"}),
         \A f : f \notin {"ACTIVE", "ENDGAME_QUEUED", "CLOSED"} => (On(g, f) <=> On(h, f))
  PROVE  TcpOk(g, j, some)
<1>1. /\ g.socket = h.socket /\ g.delayed_error = h.delayed_error
      /\ g.write_reqs_pending = h.write_reqs_pending /\ g.shutdown_req = h.shutdown_req
      /\ g.listens = h.listens
  BY DEF TcpOk, TcpTypes, SameBut, TcpFields, BaseFields
<1>2. TcpConnection(g)
  BY <1>1 DEF TcpOk, TcpConnection
<1>3. SameBut(g, h, {"flags", "counted", "reqs_pending", "pc", "cur", "ends", "ok", "kernel",
                     "pending", "walk", "socket", "delayed_error"})
  BY DEF SameBut
<1>4. g.socket \in BOOLEAN /\ g.delayed_error \in BOOLEAN
  BY <1>1 DEF TcpOk, TcpTypes
<1> QED BY <1>2, <1>3, <1>4, TcpSame

\* A handler, or the callback of its request, has ended.
LEMMA TcpCountsOff ==
  ASSUME NEW h, TcpOk(h, "other", {}), ~On(h, "CLOSED"), h.pc = "idle", h.cur = "none",
         On(h, "READING") => On(h, "READ_PENDING"),
         h.shutdown_req /\ h.write_reqs_pending = 0 => On(h, "ENDGAME_QUEUED"),
         NEW g, g = DecPending(h)
  PROVE  TcpOk(g, "none", {}) /\ TcpPc(g) /\ TcpDue(g, "none") /\ TcpReads(g) /\ TcpKind(g) = "none"
<1> DEFINE n == OneIf(h.shutdown_req)
<1>1. n \in Nat /\ OneIf("other" \in {"write", "other"}) = 1 /\ OneIf("none" \in {"write", "other"}) = 0
  BY DEF OneIf
<1>2. Core(h, TcpReqs, n + 1) /\ DOMAIN h = TcpFields
  BY <1>1 DEF TcpOk, TcpCounts, TcpTypes
<1> HIDE DEF n
<1>3. /\ Core(g, TcpReqs, n) /\ SameBut(g, h, {"flags", "reqs_pending"})
      /\ Outstanding(g) = Outstanding(h)
      /\ \A f : f # "ENDGAME_QUEUED" => (On(g, f) <=> On(h, f))
      /\ EndDue(g) \/ On(h, "ENDGAME_QUEUED") <=> On(g, "ENDGAME_QUEUED")
  BY <1>1, <1>2, CountOffCore
<1>4. SameBut(g, h, {"flags", "counted", "reqs_pending", "pc", "cur", "ends", "ok", "kernel",
                     "pending", "walk"})
  BY <1>3 DEF SameBut
<1>5. Core(g, TcpReqs, OneIf("none" \in {"write", "other"}) + OneIf(h.shutdown_req))
  BY <1>1, <1>3 DEF n
<1>6. TcpOk(g, "none", {})
  BY <1>3, <1>4, <1>5, TcpAlike
<1>7. /\ g.pc = h.pc /\ g.cur = h.cur /\ g.shutdown_req = h.shutdown_req
      /\ g.write_reqs_pending = h.write_reqs_pending
  BY <1>2, <1>3 DEF SameBut, TcpFields, BaseFields
<1> QED BY <1>3, <1>6, <1>7 DEF TcpPc, TcpDue, TcpReads, TcpKind

\* A handle gets a socket, that may be bound or, if it had none, connected.
LEMMA SocketKeeps ==
  ASSUME NEW h, NEW k, NEW some, TcpOk(h, k, some), ~On(h, "CLOSING"), NEW g,
         SameBut(g, h, {"flags", "socket", "delayed_error"}), g.socket = TRUE, g.delayed_error \in BOOLEAN,
         \A f : f \notin {"BOUND"} \cup Connected => (On(g, f) <=> On(h, f)),
         \/ \A f \in Connected : On(g, f) <=> On(h, f)
         \/ ~h.socket /\ On(g, "CONNECTION")
  PROVE  /\ TcpOk(g, k, some) /\ Outstanding(g) = Outstanding(h) /\ ~On(g, "CLOSING")
         /\ g.pc = h.pc /\ g.cur = h.cur /\ TcpKind(g) = TcpKind(h)
         /\ (TcpDue(h, k) => TcpDue(g, k)) /\ (TcpReads(h) => TcpReads(g)) /\ (TcpPc(h) => TcpPc(g))
<1>1. Core(h, TcpReqs, OneIf(k \in {"write", "other"}) + OneIf(h.shutdown_req)) /\ DOMAIN h = TcpFields
      /\ TcpConnection(h) /\ ~On(h, "CLOSED")
  BY DEF TcpOk, TcpCounts, TcpTypes, Core, EndsOnce
<1>2. /\ ~On(g, "CLOSING")
      /\ \A f \in {"READING", "LISTENING", "STATE_CHANGING", "SINGLE_ACCEPT", "CLOSING", "SHUTTING",
                   "READ_PENDING", "ENDGAME_QUEUED", "ACTIVE", "CLOSED"} : On(g, f) <=> On(h, f)
  BY DEF Connected
<1>3. /\ Core(g, TcpReqs, OneIf(k \in {"write", "other"}) + OneIf(h.shutdown_req))
      /\ Outstanding(g) = Outstanding(h)
  BY <1>1, <1>2, OtherCore DEF Alike, BaseFields
<1>4. /\ g.pc = h.pc /\ g.cur = h.cur /\ g.shutdown_req = h.shutdown_req
      /\ g.write_reqs_pending = h.write_reqs_pending /\ g.listens = h.listens
      /\ g.reqs_pending = h.reqs_pending
  BY <1>1 DEF SameBut, TcpFields, BaseFields
<1>5. TcpConnection(g)
  BY <1>1, <1>2, <1>3, <1>4 DEF TcpConnection, Connected, TcpTypes, TcpOk
<1>6. SameBut(g, h, {"flags", "counted", "reqs_pending", "pc", "cur", "ends", "ok", "kernel",
                     "pending", "walk", "socket", "delayed_error"})
  BY DEF SameBut
<1>7. TcpOk(g, k, some)
  BY <1>2, <1>3, <1>5, <1>6, TcpSame
<1>8. (TcpDue(h, k) => TcpDue(g, k)) /\ (TcpReads(h) => TcpReads(g)) /\ (TcpPc(h) => TcpPc(g))
      /\ TcpKind(g) = TcpKind(h)
  BY <1>2, <1>4 DEF TcpDue, EndDue, TcpReads, TcpPc, TcpKind
<1> QED BY <1>2, <1>3, <1>4, <1>7, <1>8

\* uv__tcp_try_bind()
LEMMA TryBindKeeps ==
  ASSUME NEW h, NEW k, NEW some, TcpOk(h, k, some), ~On(h, "CLOSING"), NEW g \in TryBind(h)
  PROVE  /\ TcpOk(g, k, some) /\ Outstanding(g) = Outstanding(h) /\ ~On(g, "CLOSING") /\ g.socket
         /\ SameBut(g, h, {"flags", "socket", "delayed_error"})
         /\ \A f : f # "BOUND" => (On(g, f) <=> On(h, f))
         /\ g.pc = h.pc /\ g.cur = h.cur /\ TcpKind(g) = TcpKind(h)
         /\ (TcpDue(h, k) => TcpDue(g, k)) /\ (TcpReads(h) => TcpReads(g)) /\ (TcpPc(h) => TcpPc(g))
<1>1. PICK d \in BOOLEAN : g = [Set(h, {"BOUND"}) EXCEPT !.socket = TRUE, !.delayed_error = d]
  BY DEF TryBind
<1>2. /\ SameBut(g, h, {"flags", "socket", "delayed_error"}) /\ g.socket = TRUE /\ g.delayed_error = d
      /\ g.flags = h.flags \cup {"BOUND"}
  BY <1>1 DEF Set, SameBut, TcpOk, TcpTypes, TcpFields, BaseFields
<1>3. \A f : f # "BOUND" => (On(g, f) <=> On(h, f))
  BY <1>2 DEF On
<1>4. /\ g.delayed_error \in BOOLEAN
      /\ \A f : f \notin {"BOUND"} \cup Connected => (On(g, f) <=> On(h, f))
      /\ \A f \in Connected : On(g, f) <=> On(h, f)
  BY <1>2, <1>3 DEF Connected
<1> QED BY <1>2, <1>3, <1>4, SocketKeeps

LEMMA TcpOpenKeeps ==
  ASSUME TcpInv, uv__tcp_bind \/ uv_tcp_open \/ uv__tcp_xfer_import PROVE TcpInv'
<1> DEFINE k == TcpKind(wh)
<1>1. TcpOk(wh, k, {}) /\ ~On(wh, "CLOSING") /\ DOMAIN wh = TcpFields
  BY DEF TcpInv, TcpOk, TcpTypes, Usable, Uses, uv__tcp_bind, uv_tcp_open, uv__tcp_xfer_import
<1> HIDE DEF k
<1>2. /\ SameBut(wh', wh, {"flags", "socket", "delayed_error"}) /\ wh'.socket = TRUE
      /\ wh'.delayed_error \in BOOLEAN
      /\ \/ wh'.flags = wh.flags \/ wh'.flags = wh.flags \cup {"BOUND"}
         \/ ~wh.socket /\ \E fs \in SUBSET {"BOUND"} : wh'.flags = wh.flags \cup fs \cup Connected
  <2>0. wh.delayed_error \in BOOLEAN
    BY <1>1 DEF TcpOk, TcpTypes
  <2>1. CASE uv__tcp_bind
    BY <2>1, <1>1, <2>0 DEF uv__tcp_bind, SameBut, TcpFields, BaseFields, TryBind, Set
  <2>2. CASE uv_tcp_open
    <3>1. ~wh.socket
      BY <2>2 DEF uv_tcp_open
    <3>2. PICK fs \in {{}, {"BOUND"}, {"BOUND"} \cup Connected} : wh' = SetSocket(wh, fs)
      BY <2>2 DEF uv_tcp_open
    <3>3. /\ SameBut(wh', wh, {"flags", "socket"}) /\ wh'.socket = TRUE /\ wh'.flags = wh.flags \cup fs
          /\ wh'.delayed_error = wh.delayed_error
      BY <1>1, <3>2 DEF SetSocket, Set, SameBut, TcpFields, BaseFields
    <3> QED BY <2>0, <3>1, <3>3 DEF SameBut
  <2>3. CASE uv__tcp_xfer_import
    <3>1. ~wh.socket
      BY <2>3 DEF uv__tcp_xfer_import
    <3>2. PICK d \in BOOLEAN, fs \in {{}, Connected} :
            wh' = [SetSocket(wh, fs \cup {"BOUND"}) EXCEPT !.delayed_error = d]
      BY <2>3 DEF uv__tcp_xfer_import
    <3>3. /\ SameBut(wh', wh, {"flags", "socket", "delayed_error"}) /\ wh'.socket = TRUE
          /\ wh'.flags = wh.flags \cup fs \cup {"BOUND"}
          /\ wh'.delayed_error = d
      BY <1>1, <3>2 DEF SetSocket, Set, SameBut, TcpFields, BaseFields
    <3> QED BY <3>1, <3>3
  <2> QED BY <2>1, <2>2, <2>3
<1>3. /\ \A f : f \notin {"BOUND"} \cup Connected => (On(wh', f) <=> On(wh, f))
      /\ \/ \A f \in Connected : On(wh', f) <=> On(wh, f)
         \/ ~wh.socket /\ On(wh', "CONNECTION")
  BY <1>2 DEF On, Connected
<1>4. /\ TcpOk(wh', k, {}) /\ TcpKind(wh') = TcpKind(wh)
      /\ (TcpDue(wh, k) => TcpDue(wh', k)) /\ (TcpReads(wh) => TcpReads(wh'))
      /\ (TcpPc(wh) => TcpPc(wh'))
  BY <1>1, <1>2, <1>3, SocketKeeps
<1> QED BY <1>4 DEF TcpInv, k

\* uv__tcp_try_connect() has a request.
LEMMA ConnectPutKeeps ==
  ASSUME NEW h, NEW k, TcpOk(h, k, {}), ~On(h, "CLOSING"), h.socket, ~On(h, "CONNECTION"), h.listens = 0,
         "connect" \notin Outstanding(h), TcpDue(h, k), TcpReads(h), TcpPc(h),
         NEW p, p = Given(h, "connect") \/ p = Inserted(h, "connect", TRUE), NEW g, g = Register(p)
  PROVE  TcpOk(g, k, {}) /\ TcpDue(g, k) /\ TcpReads(g) /\ TcpPc(g) /\ TcpKind(g) = TcpKind(h)
<1> DEFINE n == OneIf(k \in {"write", "other"}) + OneIf(h.shutdown_req)
<1>1. /\ Core(h, TcpReqs, n) /\ DOMAIN h = TcpFields /\ ~On(h, "CLOSED") /\ TcpCounts(h, k)
      /\ TcpKeepsAlive(h) /\ "connect" \in TcpReqs
  BY DEF TcpOk, TcpCounts, TcpTypes, Core, EndsOnce, TcpReqs
<1> HIDE DEF n
<1>2. /\ Core(p, TcpReqs, n) /\ SameBut(p, h, {"kernel", "pending", "ok", "reqs_pending"})
      /\ Outstanding(p) = Outstanding(h) \cup {"connect"}
  BY <1>1, PutKeeps
<1>3. /\ p.flags = h.flags /\ p.activecnt = h.activecnt /\ p.active_reqs = h.active_reqs
  BY <1>1, <1>2 DEF SameBut, TcpFields, BaseFields
<1>4. p.activecnt >= 0 /\ ~On(p, "CLOSING") /\ \A f : On(p, f) <=> On(h, f)
  <2>1. h.activecnt \in Nat
    BY <1>1, TcpSizes
  <2> QED BY <1>3, <2>1 DEF On
<1>5. /\ Core(g, TcpReqs, n) /\ SameBut(g, p, {"flags", "counted", "activecnt", "active_reqs"})
      /\ Outstanding(g) = Outstanding(p) /\ g.activecnt = p.activecnt + 1
      /\ g.active_reqs = p.active_reqs + 1
      /\ \A f : f # "ACTIVE" => (On(g, f) <=> On(p, f))
  BY <1>2, <1>4, RegisterCore
<1>6. /\ DOMAIN g = TcpFields /\ g.activecnt = h.activecnt + 1 /\ g.active_reqs = h.active_reqs + 1
      /\ Outstanding(g) = Outstanding(h) \cup {"connect"}
      /\ \A f : f # "ACTIVE" => (On(g, f) <=> On(h, f))
  BY <1>1, <1>2, <1>3, <1>4, <1>5 DEF SameBut
<1>7. /\ g.write_reqs_pending = h.write_reqs_pending /\ g.shutdown_req = h.shutdown_req
      /\ g.accept_socket = h.accept_socket /\ g.pending_accepts = h.pending_accepts
      /\ g.accept_reqs = h.accept_reqs /\ g.processed_accepts = h.processed_accepts
      /\ g.listens = h.listens /\ g.todo = h.todo /\ g.called = h.called /\ g.socket = h.socket
      /\ g.delayed_error = h.delayed_error /\ g.pc = h.pc /\ g.cur = h.cur
  BY <1>1, <1>2, <1>5 DEF SameBut, TcpFields, BaseFields
<1>8. "connect" \notin TcpWrites /\ "connect" \notin TcpAccepts /\ "connect" \in TcpActive
  BY TcpAssumption DEF TcpActive
<1>9. TcpCounts(g, k)
  <2>1. /\ Cardinality(Outstanding(g) \cap TcpWrites) = Cardinality(Outstanding(h) \cap TcpWrites)
        /\ Cardinality(Outstanding(g) \cap TcpActive) = Cardinality(Outstanding(h) \cap TcpActive) + 1
    <3>1. IsFiniteSet(Outstanding(h))
      BY <1>1 DEF Core
    <3>2. Outstanding(g) \cap TcpWrites = Outstanding(h) \cap TcpWrites
      BY <1>6, <1>8
    <3> QED BY <1>6, <1>8, <3>1, <3>2, PartMore DEF OneIf
  <2>2. Cardinality(Outstanding(h) \cap TcpActive) \in Nat /\ Cardinality(Outstanding(h) \cap TcpWrites) \in Nat
    BY <1>1, TcpSizes
  <2> QED BY <1>1, <1>5, <1>6, <1>7, <2>1, <2>2 DEF TcpCounts, OneIf, n
<1>10. TcpTypes(g)
  BY <1>6, <1>7 DEF TcpOk, TcpTypes
<1>11. TcpKeepsAlive(g)
  <2>1. h.activecnt \in Nat /\ h.active_reqs \in Nat
    BY <1>1, TcpSizes
  <2> QED BY <1>1, <1>6, <1>7, <2>1 DEF TcpKeepsAlive, OneIf
<1>12. TcpWritten(g)
  BY <1>6, <1>7, <1>8 DEF TcpOk, TcpWritten
<1>13. TcpConnection(g)
  BY <1>6, <1>7 DEF TcpOk, TcpConnection
<1>14. TcpServes(g, {})
  BY <1>6, <1>7, <1>8 DEF TcpHeld, TcpOk, TcpTypes, In, TcpServes
<1>15. TcpDue(g, k) /\ TcpReads(g) /\ TcpPc(g) /\ TcpKind(g) = TcpKind(h)
  BY <1>6, <1>7 DEF TcpDue, EndDue, TcpReads, TcpPc, TcpKind
<1> QED BY <1>9, <1>10, <1>11, <1>12, <1>13, <1>14, <1>15 DEF TcpOk

LEMMA TcpConnectKeeps == ASSUME TcpInv, uv__tcp_connect PROVE TcpInv'
<1> DEFINE k == TcpKind(wh)
<1>1. /\ TcpOk(wh, k, {}) /\ TcpDue(wh, k) /\ TcpReads(wh) /\ TcpPc(wh)
      /\ ~On(wh, "CLOSING") /\ ~On(wh, "CONNECTION") /\ wh.listens = 0
      /\ "connect" \notin Outstanding(wh)
  BY DEF TcpInv, uv__tcp_connect, Usable, Uses
<1>2. PICK h \in IF Uses("BOUND") THEN {wh} ELSE TryBind(wh) :
        \/ wh' = Register(Inserted(h, "connect", TRUE))
        \/ wh' = Register(Given(h, "connect"))
        \/ wh' = h
  BY DEF uv__tcp_connect
<1> HIDE DEF k
<1>3. /\ TcpOk(h, k, {}) /\ Outstanding(h) = Outstanding(wh) /\ ~On(h, "CLOSING") /\ h.socket
      /\ ~On(h, "CONNECTION") /\ h.listens = 0
      /\ TcpKind(h) = TcpKind(wh) /\ TcpDue(h, k) /\ TcpReads(h) /\ TcpPc(h)
  <2>1. CASE Uses("BOUND")
    BY <2>1, <1>1 DEF TcpOk, TcpConnection, Uses
  <2>2. CASE ~Uses("BOUND")
    <3>1. h \in TryBind(wh)
      BY <2>2
    <3>2. /\ TcpOk(h, k, {}) /\ Outstanding(h) = Outstanding(wh) /\ ~On(h, "CLOSING") /\ h.socket
          /\ SameBut(h, wh, {"flags", "socket", "delayed_error"})
          /\ \A f : f # "BOUND" => (On(h, f) <=> On(wh, f))
          /\ TcpKind(h) = TcpKind(wh) /\ TcpDue(h, k) /\ TcpReads(h) /\ TcpPc(h)
      BY <1>1, <3>1, TryBindKeeps
    <3>3. h.listens = wh.listens
      BY <1>1, <3>2 DEF SameBut, TcpOk, TcpTypes, TcpFields
    <3> QED BY <1>1, <3>2, <3>3
  <2> QED BY <2>1, <2>2
<1>4. CASE wh' = h
  BY <1>3, <1>4 DEF TcpInv, k
<1>5. ASSUME NEW p, p = Given(h, "connect") \/ p = Inserted(h, "connect", TRUE), wh' = Register(p)
      PROVE  TcpInv'
  BY <1>1, <1>3, <1>5, ConnectPutKeeps DEF TcpInv, k
<1> QED BY <1>2, <1>4, <1>5

\* Where a handler has its request, the end is not due.
LEMMA TcpBusy ==
  ASSUME NEW h, NEW k \in {"write", "other", "shutdown"}, TcpCounts(h, k)
  PROVE  ~EndDue(h)
<1> DEFINE n == OneIf(k \in {"write", "other"}) + OneIf(h.shutdown_req)
<1>1. Cardinality(Outstanding(h)) \in Nat
  BY FS_CardinalityType DEF TcpCounts, Core
<1>2. n \in Nat /\ n # 0
  BY DEF TcpCounts, OneIf
<1>3. Core(h, TcpReqs, n)
  BY DEF TcpCounts
<1> HIDE DEF n
<1>4. h.reqs_pending = Cardinality(Outstanding(h)) + n
  BY <1>3 DEF Core
<1>5. h.reqs_pending # 0
  BY <1>1, <1>2, <1>4
<1> QED BY <1>5 DEF EndDue

\* The handler of a request that keeps the handle active has taken it.
LEMMA TakeActive ==
  ASSUME NEW h, TcpOk(h, "none", {}), NEW r \in h.walk, r \in TcpActive, NEW k,
         k = IF r \in TcpWrites THEN "write" ELSE "other", NEW g, g = Unregister(Handling(h, r))
  PROVE  /\ TcpCounts(g, k) /\ TcpKeepsAlive(g) /\ ~On(h, "CLOSED") /\ DOMAIN g = TcpFields
         /\ SameBut(g, h, {"walk", "flags", "counted", "activecnt", "active_reqs"})
         /\ Outstanding(g) = Outstanding(h) \ {r} /\ r \in Outstanding(h)
         /\ \A f : f # "ACTIVE" => (On(g, f) <=> On(h, f))
<1> DEFINE n == OneIf(h.shutdown_req)
           p == Handling(h, r)
<1>1. /\ Core(h, TcpReqs, n) /\ DOMAIN h = TcpFields /\ TcpCounts(h, "none")
      /\ TcpKeepsAlive(h)
  BY DEF OneIf, TcpOk, TcpCounts, TcpTypes
<1>2. n \in Nat
  BY DEF OneIf
<1> HIDE DEF n
<1>3. /\ Core(p, TcpReqs, n + 1) /\ SameBut(p, h, {"walk"})
      /\ Outstanding(p) = Outstanding(h) \ {r} /\ ~On(h, "CLOSED") /\ r \in Outstanding(h)
  BY <1>1, TakenKeeps
<1>4. g = Unregister(p)
  OBVIOUS
<1> HIDE DEF p
<1>5. p.flags = h.flags /\ p.activecnt = h.activecnt /\ p.active_reqs = h.active_reqs
  BY <1>1, <1>3 DEF SameBut, TcpFields, BaseFields
<1>6. /\ h.active_reqs \in Nat /\ h.activecnt \in Nat /\ h.activecnt >= h.active_reqs
      /\ Cardinality(Outstanding(h) \cap TcpActive) \in Nat
      /\ Cardinality(Outstanding(h) \cap TcpWrites) \in Nat
      /\ IsFiniteSet(Outstanding(h))
  BY <1>1, TcpSizes
<1>7. /\ Cardinality(Outstanding(p) \cap TcpActive) = Cardinality(Outstanding(h) \cap TcpActive) - 1
      /\ Cardinality(Outstanding(p) \cap TcpWrites)
           = Cardinality(Outstanding(h) \cap TcpWrites) - OneIf(r \in TcpWrites)
      /\ Cardinality(Outstanding(p) \cap TcpActive) \in Nat
  <2>1. IsFiniteSet(Outstanding(p)) /\ OneIf(r \in TcpActive) = 1
    BY <1>3 DEF Core, OneIf
  <2>2. Cardinality(Outstanding(p) \cap TcpActive) \in Nat
    BY <2>1, PartMore
  <2> DEFINE O == Outstanding(h)
             S == TcpActive
  <2>3. IsFiniteSet(O) /\ r \in O
    BY <1>3, <1>6
  <2> HIDE DEF O, S
  <2>4. Cardinality((O \ {r}) \cap S) = Cardinality(O \cap S) - OneIf(r \in S)
    BY <2>3, PartMore
  <2>5. Cardinality((O \ {r}) \cap TcpWrites) = Cardinality(O \cap TcpWrites) - OneIf(r \in TcpWrites)
    BY <2>3, PartMore
  <2> QED BY <1>3, <2>1, <2>2, <2>4, <2>5 DEF O, S
<1>8. h.active_reqs > 0
  BY <1>1, <1>6, <1>7 DEF TcpCounts, OneIf
<1>9. /\ Core(g, TcpReqs, n + 1) /\ SameBut(g, p, {"flags", "counted", "activecnt", "active_reqs"})
      /\ Outstanding(g) = Outstanding(p) /\ g.activecnt = p.activecnt - 1
      /\ g.active_reqs = p.active_reqs - 1
      /\ \A f : f # "ACTIVE" => (On(g, f) <=> On(p, f))
  <2>1. p.activecnt > 0 /\ ~On(p, "CLOSED")
    BY <1>3, <1>5, <1>6, <1>8 DEF On
  <2> QED BY <1>3, <1>4, <2>1, UnregisterCore
<1>10. /\ DOMAIN g = TcpFields /\ SameBut(g, h, {"walk", "flags", "counted", "activecnt", "active_reqs"})
       /\ Outstanding(g) = Outstanding(h) \ {r}
       /\ \A f : f # "ACTIVE" => (On(g, f) <=> On(h, f))
  BY <1>1, <1>3, <1>5, <1>9 DEF SameBut, On
<1>11. /\ g.write_reqs_pending = h.write_reqs_pending /\ g.shutdown_req = h.shutdown_req
       /\ g.listens = h.listens
  BY <1>1, <1>10 DEF SameBut, TcpFields, BaseFields
<1>12. TcpCounts(g, k)
  BY <1>2, <1>11, <1>9, <1>1, <1>5, <1>6, <1>7 DEF OneIf, n, TcpCounts
<1>13. TcpKeepsAlive(g)
  BY <1>1, <1>5, <1>6, <1>8, <1>9, <1>10, <1>11 DEF TcpKeepsAlive, OneIf
<1> QED BY <1>3, <1>10, <1>12, <1>13

LEMMA TcpProcessConnectKeeps == ASSUME TcpInv, ProcessConnect PROVE TcpInv'
<1> DEFINE h == Unregister(Handling(wh, "connect"))
           e == [h EXCEPT !.delayed_error = FALSE]
           up == Set(h, Connected)
<1>1. /\ TcpOk(wh, "none", {}) /\ wh.pc = "idle" /\ "connect" \in wh.walk /\ DOMAIN wh = TcpFields
      /\ TcpDue(wh, "none") /\ TcpReads(wh)
  BY DEF TcpInv, TcpOk, TcpTypes, TcpKind, ProcessConnect, CanHandle
<1>2. "connect" \in TcpActive /\ "connect" \notin TcpWrites /\ "connect" \notin TcpAccepts
  BY TcpAssumption DEF TcpActive
<1>3. /\ TcpCounts(h, "other") /\ TcpKeepsAlive(h) /\ ~On(wh, "CLOSED") /\ DOMAIN h = TcpFields
      /\ SameBut(h, wh, {"walk", "flags", "counted", "activecnt", "active_reqs"})
      /\ Outstanding(h) = Outstanding(wh) \ {"connect"} /\ "connect" \in Outstanding(wh)
      /\ \A f : f # "ACTIVE" => (On(h, f) <=> On(wh, f))
  BY <1>1, <1>2, TakeActive
<1>4. \/ wh' = CallUser(e, "connect_cb", "connect")
      \/ wh' = CallUser(up, "connect_cb", "connect") /\ ~On(h, "CLOSING")
      \/ wh' = CallUser(h, "connect_cb", "connect")
  BY DEF ProcessConnect
<1> HIDE DEF h
<1>5. /\ SameBut(wh', h, {"flags", "delayed_error", "pc", "cur"}) /\ wh'.pc = "connect_cb"
      /\ wh'.cur = "connect" /\ wh'.delayed_error \in BOOLEAN
      /\ \/ wh'.flags = h.flags
         \/ ~On(h, "CLOSING") /\ wh'.flags = h.flags \cup Connected
  <2>0. h.delayed_error = wh.delayed_error /\ wh.delayed_error \in BOOLEAN
    BY <1>1, <1>3 DEF SameBut, TcpFields, BaseFields, TcpOk, TcpTypes
  <2>1. CASE wh' = CallUser(e, "connect_cb", "connect")
    <3>1. SameBut(e, h, {"delayed_error"}) /\ e.delayed_error = FALSE /\ e.flags = h.flags
          /\ DOMAIN e = TcpFields
      BY <1>3 DEF SameBut, TcpFields, BaseFields
    <3> HIDE DEF e
    <3>2. SameBut(wh', e, {"pc", "cur"}) /\ wh'.pc = "connect_cb" /\ wh'.cur = "connect"
      BY <2>1, <3>1, CallSame DEF TcpFields
    <3>3. wh'.delayed_error = e.delayed_error /\ wh'.flags = e.flags
      BY <3>1, <3>2 DEF SameBut, TcpFields, BaseFields
    <3>4. SameBut(wh', h, {"flags", "delayed_error", "pc", "cur"})
      BY <3>1, <3>2 DEF SameBut
    <3> QED BY <3>1, <3>2, <3>3, <3>4
  <2>2. CASE wh' = CallUser(up, "connect_cb", "connect") /\ ~On(h, "CLOSING")
    <3>1. SameBut(up, h, {"flags"}) /\ up.flags = h.flags \cup Connected /\ DOMAIN up = TcpFields
      BY <1>3 DEF Set, SameBut, TcpFields, BaseFields
    <3> HIDE DEF up
    <3>2. SameBut(wh', up, {"pc", "cur"}) /\ wh'.pc = "connect_cb" /\ wh'.cur = "connect"
      BY <2>2, <3>1, CallSame DEF TcpFields
    <3>3. wh'.delayed_error = wh.delayed_error /\ wh'.flags = up.flags
      BY <1>3, <2>0, <3>1, <3>2 DEF SameBut, TcpFields, BaseFields
    <3>4. SameBut(wh', h, {"flags", "delayed_error", "pc", "cur"})
      BY <3>1, <3>2 DEF SameBut
    <3> QED BY <2>0, <2>2, <3>1, <3>2, <3>3, <3>4
  <2>3. CASE wh' = CallUser(h, "connect_cb", "connect")
    BY <1>3, <2>3, <2>0, CallSame DEF TcpFields, SameBut, BaseFields
  <2> QED BY <1>4, <2>1, <2>2, <2>3
<1>6. /\ \A f : f \notin Connected => (On(wh', f) <=> On(h, f))
      /\ On(wh', "CLOSING") => \A f : On(wh', f) <=> On(h, f)
      /\ On(wh', "CONNECTION") \/ \A f : On(wh', f) <=> On(h, f)
  BY <1>5 DEF On, Connected
<1>7. /\ wh'.write_reqs_pending = wh.write_reqs_pending /\ wh'.shutdown_req = wh.shutdown_req
      /\ wh'.accept_socket = wh.accept_socket /\ wh'.pending_accepts = wh.pending_accepts
      /\ wh'.accept_reqs = wh.accept_reqs /\ wh'.processed_accepts = wh.processed_accepts
      /\ wh'.listens = wh.listens /\ wh'.todo = wh.todo /\ wh'.called = wh.called
      /\ wh'.socket = wh.socket /\ DOMAIN wh' = TcpFields
  BY <1>1, <1>3, <1>5 DEF SameBut, TcpFields, BaseFields
<1>8. /\ wh'.activecnt = h.activecnt /\ wh'.active_reqs = h.active_reqs
      /\ h.write_reqs_pending = wh.write_reqs_pending /\ h.shutdown_req = wh.shutdown_req
      /\ h.listens = wh.listens
  BY <1>1, <1>3, <1>5 DEF SameBut, TcpFields, BaseFields
<1>9. /\ TcpConnection(wh) /\ wh.listens = 0 /\ ~On(wh, "CONNECTION") /\ ~wh.shutdown_req
      /\ ~On(wh, "LISTENING")
  BY <1>1, <1>3 DEF TcpOk, TcpConnection, TcpServes
<1>10. /\ Core(wh', TcpReqs, OneIf("other" \in {"write", "other"}) + OneIf(wh'.shutdown_req))
       /\ Outstanding(wh') = Outstanding(wh) \ {"connect"}
  BY <1>3, <1>6, <1>5, <1>7, <1>8, OtherCore DEF Alike, Connected, TcpCounts, BaseFields
<1>11. TcpCounts(wh', "other")
  BY <1>3, <1>7, <1>8, <1>10 DEF TcpCounts
<1>12. TcpTypes(wh') /\ TcpWritten(wh')
  BY <1>1, <1>2, <1>5, <1>7, <1>10 DEF TcpOk, TcpTypes, TcpWritten
<1>13. TcpKeepsAlive(wh')
  BY <1>3, <1>6, <1>7, <1>8 DEF TcpKeepsAlive, Connected, OneIf
<1>14. TcpConnection(wh')
  BY <1>3, <1>6, <1>7, <1>9, <1>10 DEF TcpConnection, Connected
<1>15. TcpServes(wh', {})
  BY <1>2, <1>7, <1>10, <1>3, <1>6, <1>1, <1>9 DEF TcpHeld, Connected, TcpOk, TcpServes
<1>16. TcpDue(wh', "other")
  BY <1>7, <1>9, <1>11, TcpBusy DEF TcpDue
<1>17. TcpReads(wh')
  BY <1>1, <1>3, <1>6 DEF TcpReads, Connected
<1> QED BY <1>5, <1>11, <1>12, <1>13, <1>14, <1>15, <1>16, <1>17 DEF TcpInv, TcpOk, TcpPc, TcpKind

\* A handle that is open, with all there is to say of it between two calls.
TcpAt(h, k, some) == TcpOk(h, k, some) /\ TcpDue(h, k) /\ ~On(h, "CLOSED")

LEMMA AtCore ==
  ASSUME NEW h, NEW k, NEW some, TcpAt(h, k, some)
  PROVE  /\ Core(h, TcpReqs, OneIf(k \in {"write", "other"}) + OneIf(h.shutdown_req))
         /\ DOMAIN h = TcpFields /\ ~On(h, "CLOSED") /\ TcpCounts(h, k) /\ TcpKeepsAlive(h)
         /\ BaseFields \subseteq DOMAIN h
         /\ h.activecnt \in Nat /\ h.active_reqs \in Nat /\ h.activecnt >= h.active_reqs
         /\ On(h, "READING") => h.activecnt > h.active_reqs
         /\ On(h, "LISTENING") => h.activecnt > h.active_reqs
         /\ h.write_reqs_pending \in Nat /\ h.reqs_pending \in Nat /\ IsFiniteSet(Outstanding(h))
BY TcpSizes DEF TcpAt, TcpOk, TcpTypes, TcpCounts, TcpFields

\* A callback is called or returns, or the connection is no longer used.
LEMMA StillAt ==
  ASSUME NEW h, NEW k, NEW some, TcpAt(h, k, some), NEW g, SameBut(g, h, {"flags", "pc", "cur"}),
         \A f : f \notin {"READABLE", "WRITABLE"} => (On(g, f) <=> On(h, f)),
         On(g, "WRITABLE") => On(h, "WRITABLE"), On(g, "READABLE") => On(h, "READABLE")
  PROVE  TcpAt(g, k, some) /\ Outstanding(g) = Outstanding(h)
<1>1. /\ Core(h, TcpReqs, OneIf(k \in {"write", "other"}) + OneIf(h.shutdown_req))
      /\ DOMAIN h = TcpFields /\ ~On(h, "CLOSED")
  BY AtCore
<1>2. /\ Core(g, TcpReqs, OneIf(k \in {"write", "other"}) + OneIf(h.shutdown_req))
      /\ Outstanding(g) = Outstanding(h) /\ ~On(g, "CLOSED")
  BY <1>1, OtherCore DEF Alike, BaseFields
<1>3. /\ g.socket = h.socket /\ g.delayed_error = h.delayed_error
      /\ g.write_reqs_pending = h.write_reqs_pending /\ g.shutdown_req = h.shutdown_req
      /\ g.listens = h.listens /\ g.reqs_pending = h.reqs_pending
  BY <1>1 DEF SameBut, TcpFields, BaseFields
<1>4. TcpConnection(g) /\ g.socket \in BOOLEAN /\ g.delayed_error \in BOOLEAN
  BY <1>2, <1>3 DEF TcpAt, TcpOk, TcpConnection, TcpTypes
<1>5. SameBut(g, h, {"flags", "counted", "reqs_pending", "pc", "cur", "ends", "ok", "kernel",
                     "pending", "walk", "socket", "delayed_error"})
  BY DEF SameBut
<1>6. TcpOk(g, k, some)
  BY <1>2, <1>4, <1>5, TcpSame DEF TcpAt
<1> QED BY <1>2, <1>3, <1>6 DEF TcpAt, TcpDue, EndDue

\* The handler of a request has ended.
LEMMA OffAt ==
  ASSUME NEW h, TcpAt(h, "other", {}), h.pc = "idle", h.cur = "none",
         On(h, "READING") => On(h, "READ_PENDING"), NEW g, g = DecPending(h)
  PROVE  TcpOk(g, "none", {}) /\ TcpPc(g) /\ TcpDue(g, "none") /\ TcpReads(g) /\ TcpKind(g) = "none"
BY TcpCountsOff DEF TcpAt, TcpDue

\* INCREASE_ACTIVE_COUNT of a handle that starts to read
LEMMA StartAt ==
  ASSUME NEW h, NEW k, NEW some, TcpAt(h, k, some), ~On(h, "CLOSING"), ~On(h, "READING"),
         NEW g, g = IncActive(Set(h, {"READING"}))
  PROVE  /\ TcpAt(g, k, some) /\ SameBut(g, h, {"flags", "counted", "activecnt"})
         /\ Outstanding(g) = Outstanding(h) /\ On(g, "READING")
         /\ \A f : f \notin {"ACTIVE", "READING"} => (On(g, f) <=> On(h, f))
<1> DEFINE n == OneIf(k \in {"write", "other"}) + OneIf(h.shutdown_req)
           p == Set(h, {"READING"})
<1>1. Core(h, TcpReqs, n) /\ DOMAIN h = TcpFields /\ BaseFields \subseteq DOMAIN h
      /\ h.activecnt \in Nat /\ h.active_reqs \in Nat /\ ~On(h, "CLOSED")
  BY AtCore
<1> HIDE DEF n
<1>2. /\ SameBut(p, h, {"flags"}) /\ \A f : On(p, f) <=> On(h, f) \/ f \in {"READING"}
  BY <1>1, FlagsSame DEF BaseFields
<1>3. g = IncActive(p)
  OBVIOUS
<1> HIDE DEF p
<1>4. Core(p, TcpReqs, n) /\ Outstanding(p) = Outstanding(h)
  BY <1>1, <1>2, OtherCore DEF Alike
<1>5. p.activecnt = h.activecnt /\ p.active_reqs = h.active_reqs
  BY <1>1, <1>2 DEF SameBut, TcpFields, BaseFields
<1>6. /\ Core(g, TcpReqs, n) /\ SameBut(g, p, {"flags", "counted", "activecnt"})
      /\ Outstanding(g) = Outstanding(p) /\ g.activecnt = p.activecnt + 1
      /\ \A f : f # "ACTIVE" => (On(g, f) <=> On(p, f))
  BY <1>1, <1>2, <1>5, <1>3, <1>4, IncCore
<1>7. /\ SameBut(g, h, {"flags", "counted", "activecnt"}) /\ Outstanding(g) = Outstanding(h)
      /\ On(g, "READING") /\ \A f : f \notin {"ACTIVE", "READING"} => (On(g, f) <=> On(h, f))
  BY <1>2, <1>4, <1>6 DEF SameBut
<1>8. /\ g.write_reqs_pending = h.write_reqs_pending /\ g.shutdown_req = h.shutdown_req
      /\ g.accept_socket = h.accept_socket /\ g.pending_accepts = h.pending_accepts
      /\ g.accept_reqs = h.accept_reqs /\ g.processed_accepts = h.processed_accepts
      /\ g.listens = h.listens /\ g.todo = h.todo /\ g.called = h.called /\ g.socket = h.socket
      /\ g.delayed_error = h.delayed_error /\ DOMAIN g = TcpFields /\ g.active_reqs = h.active_reqs
      /\ g.reqs_pending = h.reqs_pending /\ g.activecnt = h.activecnt + 1
  BY <1>1, <1>5, <1>6, <1>7 DEF SameBut, TcpFields, BaseFields
<1>9. TcpKeepsAlive(g)
  BY <1>1, <1>7, <1>8 DEF TcpAt, TcpOk, TcpKeepsAlive, OneIf
<1>10. TcpCounts(g, k)
  BY <1>6, <1>7, <1>8 DEF TcpAt, TcpOk, TcpCounts, n
<1>11. TcpTypes(g) /\ TcpWritten(g) /\ TcpConnection(g)
  BY <1>7, <1>8 DEF TcpAt, TcpOk, TcpTypes, TcpWritten, TcpConnection
<1>12. TcpServes(g, some)
  BY <1>7, <1>8 DEF TcpHeld, TcpAt, TcpOk, TcpServes
<1>13. TcpDue(g, k) /\ ~On(g, "CLOSED")
  BY <1>1, <1>7, <1>8 DEF TcpAt, TcpDue, EndDue
<1> QED BY <1>7, <1>9, <1>10, <1>11, <1>12, <1>13 DEF TcpAt, TcpOk

\* uv__tcp_read_stop()
LEMMA StopAt ==
  ASSUME NEW h, NEW k, NEW some, TcpAt(h, k, some), On(h, "READING"), NEW g, g = StopReading(h)
  PROVE  /\ TcpAt(g, k, some) /\ SameBut(g, h, {"flags", "counted", "activecnt"})
         /\ Outstanding(g) = Outstanding(h) /\ ~On(g, "READING")
         /\ \A f : f \notin {"ACTIVE", "READING"} => (On(g, f) <=> On(h, f))
<1> DEFINE n == OneIf(k \in {"write", "other"}) + OneIf(h.shutdown_req)
           p == Clear(h, {"READING"})
<1>1. Core(h, TcpReqs, n) /\ DOMAIN h = TcpFields /\ BaseFields \subseteq DOMAIN h
      /\ h.activecnt \in Nat /\ h.active_reqs \in Nat /\ ~On(h, "CLOSED") /\ h.activecnt > h.active_reqs
  BY AtCore
<1> HIDE DEF n
<1>2. /\ SameBut(p, h, {"flags"}) /\ \A f : On(p, f) <=> On(h, f) /\ f \notin {"READING"}
  BY <1>1, FlagsSame DEF BaseFields
<1>3. g = DecActive(p)
  BY DEF StopReading
<1> HIDE DEF p
<1>4. Core(p, TcpReqs, n) /\ Outstanding(p) = Outstanding(h)
  BY <1>1, <1>2, OtherCore DEF Alike
<1>5. p.activecnt = h.activecnt /\ p.active_reqs = h.active_reqs
  BY <1>1, <1>2 DEF SameBut, TcpFields, BaseFields
<1>6. /\ Core(g, TcpReqs, n) /\ SameBut(g, p, {"flags", "counted", "activecnt"})
      /\ Outstanding(g) = Outstanding(p) /\ g.activecnt = p.activecnt - 1
      /\ \A f : f # "ACTIVE" => (On(g, f) <=> On(p, f))
  <2>1. p.activecnt > 0
    BY <1>1, <1>5
  <2> QED BY <1>3, <1>4, <2>1, DecCore
<1>7. /\ SameBut(g, h, {"flags", "counted", "activecnt"}) /\ Outstanding(g) = Outstanding(h)
      /\ ~On(g, "READING") /\ \A f : f \notin {"ACTIVE", "READING"} => (On(g, f) <=> On(h, f))
  BY <1>2, <1>4, <1>6 DEF SameBut
<1>8. /\ g.write_reqs_pending = h.write_reqs_pending /\ g.shutdown_req = h.shutdown_req
      /\ g.accept_socket = h.accept_socket /\ g.pending_accepts = h.pending_accepts
      /\ g.accept_reqs = h.accept_reqs /\ g.processed_accepts = h.processed_accepts
      /\ g.listens = h.listens /\ g.todo = h.todo /\ g.called = h.called /\ g.socket = h.socket
      /\ g.delayed_error = h.delayed_error /\ DOMAIN g = TcpFields /\ g.active_reqs = h.active_reqs
      /\ g.reqs_pending = h.reqs_pending /\ g.activecnt = h.activecnt - 1
  BY <1>1, <1>5, <1>6, <1>7 DEF SameBut, TcpFields, BaseFields
<1>9. TcpKeepsAlive(g)
  BY <1>1, <1>7, <1>8 DEF TcpAt, TcpOk, TcpKeepsAlive, OneIf
<1>10. TcpCounts(g, k)
  BY <1>6, <1>7, <1>8 DEF TcpAt, TcpOk, TcpCounts, n
<1>11. TcpTypes(g) /\ TcpWritten(g) /\ TcpConnection(g)
  BY <1>7, <1>8 DEF TcpAt, TcpOk, TcpTypes, TcpWritten, TcpConnection
<1>12. TcpServes(g, some)
  BY <1>7, <1>8 DEF TcpHeld, TcpAt, TcpOk, TcpServes
<1>13. TcpDue(g, k) /\ ~On(g, "CLOSED")
  BY <1>1, <1>7, <1>8 DEF TcpAt, TcpDue, EndDue
<1> QED BY <1>7, <1>9, <1>10, <1>11, <1>12, <1>13 DEF TcpAt, TcpOk

\* uv__tcp_queue_read()
LEMMA QueueReadAt ==
  ASSUME NEW h, NEW k, NEW some, TcpAt(h, k, some), ~On(h, "READ_PENDING"), NEW g \in QueueRead(h)
  PROVE  /\ TcpAt(g, k, some) /\ SameBut(g, h, {"flags", "kernel", "pending", "ok", "reqs_pending"})
         /\ On(g, "READ_PENDING") /\ \A f : f # "READ_PENDING" => (On(g, f) <=> On(h, f))
         /\ g.pc = h.pc /\ g.cur = h.cur
<1> DEFINE n == OneIf(k \in {"write", "other"}) + OneIf(h.shutdown_req)
           p == Set(h, {"READ_PENDING"})
<1>1. /\ Core(h, TcpReqs, n) /\ DOMAIN h = TcpFields /\ BaseFields \subseteq DOMAIN h
      /\ ~On(h, "CLOSED") /\ IsFiniteSet(Outstanding(h)) /\ "read" \in TcpReqs
      /\ h.reqs_pending \in Nat /\ TcpConnection(h)
  BY AtCore DEF TcpReqs, TcpAt, TcpOk
<1> HIDE DEF n
<1>2. /\ SameBut(p, h, {"flags"}) /\ \A f : On(p, f) <=> On(h, f) \/ f \in {"READ_PENDING"}
  BY <1>1, FlagsSame DEF BaseFields
<1>3. g = Given(p, "read") \/ g = Inserted(p, "read", TRUE) \/ g = Inserted(p, "read", FALSE)
  BY DEF QueueRead
<1> HIDE DEF p
<1>4. /\ Core(p, TcpReqs, n) /\ Outstanding(p) = Outstanding(h) /\ ~On(p, "CLOSED")
      /\ "read" \notin Outstanding(h)
  BY <1>1, <1>2, OtherCore DEF TcpConnection, Alike
<1>5. /\ Core(g, TcpReqs, n) /\ SameBut(g, p, {"kernel", "pending", "ok", "reqs_pending"})
      /\ Outstanding(g) = Outstanding(p) \cup {"read"}
  BY <1>1, <1>3, <1>4, PutKeeps
<1>6. /\ SameBut(g, h, {"flags", "kernel", "pending", "ok", "reqs_pending"})
      /\ Outstanding(g) = Outstanding(h) \cup {"read"} /\ g.flags = p.flags /\ DOMAIN g = TcpFields
  BY <1>1, <1>2, <1>4, <1>5 DEF SameBut, TcpFields, BaseFields
<1>7. On(g, "READ_PENDING") /\ \A f : f # "READ_PENDING" => (On(g, f) <=> On(h, f))
  BY <1>2, <1>6 DEF On
<1>8. /\ g.write_reqs_pending = h.write_reqs_pending /\ g.shutdown_req = h.shutdown_req
      /\ g.accept_socket = h.accept_socket /\ g.pending_accepts = h.pending_accepts
      /\ g.accept_reqs = h.accept_reqs /\ g.processed_accepts = h.processed_accepts
      /\ g.listens = h.listens /\ g.todo = h.todo /\ g.called = h.called /\ g.socket = h.socket
      /\ g.delayed_error = h.delayed_error /\ g.active_reqs = h.active_reqs
      /\ g.activecnt = h.activecnt /\ g.pc = h.pc /\ g.cur = h.cur
  BY <1>1, <1>6 DEF SameBut, TcpFields, BaseFields
<1>9. "read" \notin TcpWrites /\ "read" \notin TcpAccepts /\ "read" \notin TcpActive
  BY TcpAssumption DEF TcpActive
<1>10. TcpCounts(g, k)
  BY <1>6, <1>9, <1>5, <1>8 DEF TcpAt, TcpOk, TcpCounts, n
<1>11. TcpTypes(g) /\ TcpWritten(g) /\ TcpConnection(g)
  BY <1>6, <1>7, <1>8, <1>9 DEF TcpAt, TcpOk, TcpTypes, TcpWritten, TcpConnection
<1>12. TcpKeepsAlive(g)
  BY <1>7, <1>8 DEF TcpAt, TcpOk, TcpKeepsAlive, OneIf
<1>13. TcpServes(g, some)
  <2>1. TcpHeld(g) = TcpHeld(h)
    BY <1>6, <1>8, <1>9 DEF TcpHeld
  <2>2. In(h.pending_accepts) \cap Outstanding(h) = {} /\ In(h.pending_accepts) \subseteq TcpAccepts
    BY DEF TcpAt, TcpOk, TcpServes, TcpTypes, In
  <2>3. In(g.pending_accepts) \cap Outstanding(g) = {}
    BY <1>6, <1>8, <1>9, <2>2
  <2> QED BY <1>7, <1>8, <2>1, <2>3 DEF TcpAt, TcpOk, TcpServes
<1>14. TcpDue(g, k) /\ ~On(g, "CLOSED")
  <2>1. g.reqs_pending # 0
    BY <1>5, <1>6, FS_CardinalityType, FS_EmptySet DEF Core
  <2> QED BY <1>1, <1>7, <1>8, <2>1 DEF TcpAt, TcpDue, EndDue
<1> QED BY <1>6, <1>7, <1>8, <1>10, <1>11, <1>12, <1>13, <1>14 DEF TcpAt, TcpOk

\* The handler of a read has taken it.
LEMMA TakeReadAt ==
  ASSUME NEW h, TcpOk(h, "none", {}), TcpDue(h, "none"), "read" \in h.walk,
         NEW g, g = Clear(Handling(h, "read"), {"READ_PENDING"})
  PROVE  /\ TcpAt(g, "other", {}) /\ SameBut(g, h, {"flags", "walk"})
         /\ ~On(g, "READ_PENDING") /\ \A f : f # "READ_PENDING" => (On(g, f) <=> On(h, f))
         /\ g.pc = h.pc /\ g.cur = h.cur
<1> DEFINE n == OneIf(h.shutdown_req)
           p == Handling(h, "read")
<1>1. Core(h, TcpReqs, n) /\ DOMAIN h = TcpFields /\ n \in Nat
  BY DEF OneIf, TcpOk, TcpCounts, TcpTypes
<1> HIDE DEF n
<1>2. /\ Core(p, TcpReqs, n + 1) /\ SameBut(p, h, {"walk"})
      /\ Outstanding(p) = Outstanding(h) \ {"read"} /\ ~On(h, "CLOSED") /\ "read" \in Outstanding(h)
  BY <1>1, TakenKeeps
<1>3. g = Clear(p, {"READ_PENDING"})
  OBVIOUS
<1> HIDE DEF p
<1>4. p.flags = h.flags /\ DOMAIN p = TcpFields
  BY <1>1, <1>2 DEF SameBut, TcpFields, BaseFields
<1>5. /\ SameBut(g, p, {"flags"}) /\ \A f : On(g, f) <=> On(p, f) /\ f \notin {"READ_PENDING"}
  BY <1>3, <1>4, FlagsSame DEF TcpFields, BaseFields
<1>6. /\ SameBut(g, h, {"flags", "walk"}) /\ DOMAIN g = TcpFields
      /\ ~On(g, "READ_PENDING") /\ \A f : f # "READ_PENDING" => (On(g, f) <=> On(h, f))
  BY <1>2, <1>4, <1>5 DEF SameBut, On
<1>7. Core(g, TcpReqs, n + 1) /\ Outstanding(g) = Outstanding(h) \ {"read"}
  BY <1>2, <1>4, <1>5, OtherCore DEF On, Alike
<1>8. /\ g.write_reqs_pending = h.write_reqs_pending /\ g.shutdown_req = h.shutdown_req
      /\ g.accept_socket = h.accept_socket /\ g.pending_accepts = h.pending_accepts
      /\ g.accept_reqs = h.accept_reqs /\ g.processed_accepts = h.processed_accepts
      /\ g.listens = h.listens /\ g.todo = h.todo /\ g.called = h.called /\ g.socket = h.socket
      /\ g.delayed_error = h.delayed_error /\ g.active_reqs = h.active_reqs
      /\ g.activecnt = h.activecnt /\ g.pc = h.pc /\ g.cur = h.cur
  BY <1>1, <1>6 DEF SameBut, TcpFields, BaseFields
<1>9. "read" \notin TcpWrites /\ "read" \notin TcpAccepts /\ "read" \notin TcpActive
  BY TcpAssumption DEF TcpActive
<1>10. TcpCounts(g, "other")
  BY <1>7, <1>9, <1>1, <1>8 DEF OneIf, n, TcpOk, TcpCounts
<1>11. TcpTypes(g) /\ TcpWritten(g) /\ TcpConnection(g)
  BY <1>6, <1>7, <1>8, <1>9 DEF TcpOk, TcpTypes, TcpWritten, TcpConnection
<1>12. TcpKeepsAlive(g)
  BY <1>6, <1>8 DEF TcpOk, TcpKeepsAlive, OneIf
<1>13. TcpServes(g, {})
  <2>1. TcpHeld(g) = TcpHeld(h)
    BY <1>7, <1>8, <1>9 DEF TcpHeld
  <2> QED BY <1>6, <1>7, <1>8, <2>1 DEF TcpOk, TcpServes
<1>14. TcpDue(g, "other") /\ ~On(g, "CLOSED")
  BY <1>2, <1>6, <1>8, <1>10, TcpBusy DEF TcpDue
<1> QED BY <1>6, <1>8, <1>10, <1>11, <1>12, <1>13, <1>14 DEF TcpAt, TcpOk

\* What an action starts from, and what it has to show
LEMMA TcpInvAt ==
  ASSUME TcpInv, ~On(wh, "CLOSED") \/ wh.pc # "idle" \/ ~On(wh, "CLOSING")
  PROVE  TcpAt(wh, TcpKind(wh), {}) /\ TcpPc(wh) /\ TcpReads(wh) /\ DOMAIN wh = TcpFields
BY DEF TcpInv, TcpAt, TcpOk, TcpTypes, TcpCounts, Core, EndsOnce

LEMMA TcpReadStartKeeps == ASSUME TcpInv, uv__tcp_read_start PROVE TcpInv'
<1> DEFINE k == TcpKind(wh)
           h == IncActive(Set(wh, {"READING"}))
<1>1. /\ TcpAt(wh, k, {}) /\ TcpPc(wh) /\ ~On(wh, "CLOSING") /\ ~On(wh, "READING")
      /\ DOMAIN wh = TcpFields
  BY TcpInvAt DEF uv__tcp_read_start, Usable, Uses
<1>2. IF On(wh, "READ_PENDING") THEN wh' = h ELSE wh' \in QueueRead(h)
  BY DEF uv__tcp_read_start, Uses
<1> HIDE DEF k
<1>3. /\ TcpAt(h, k, {}) /\ SameBut(h, wh, {"flags", "counted", "activecnt"})
      /\ \A f : f \notin {"ACTIVE", "READING"} => (On(h, f) <=> On(wh, f))
  BY <1>1, StartAt
<1> HIDE DEF h
<1>4. h.pc = wh.pc /\ h.cur = wh.cur
  BY <1>1, <1>3 DEF SameBut, TcpFields, BaseFields
<1>5. TcpAt(wh', k, {}) /\ wh'.pc = wh.pc /\ wh'.cur = wh.cur /\ On(wh', "READ_PENDING")
  BY <1>2, <1>3, <1>4, QueueReadAt
<1>6. TcpPc(wh') /\ TcpKind(wh') = k /\ TcpReads(wh')
  BY <1>1, <1>5 DEF TcpPc, TcpKind, TcpReads, k
<1> QED BY <1>5, <1>6 DEF TcpInv, TcpAt

LEMMA TcpReadStopKeeps == ASSUME TcpInv, uv_read_stop PROVE TcpInv'
<1> DEFINE k == TcpKind(wh)
<1>1. On(wh, "READING") /\ wh' = StopReading(wh)
  BY DEF uv_read_stop, Uses
<1>2. TcpAt(wh, k, {}) /\ TcpPc(wh) /\ DOMAIN wh = TcpFields
  BY <1>1, TcpInvAt DEF TcpInv, TcpOk, TcpConnection
<1> HIDE DEF k
<1>3. /\ TcpAt(wh', k, {}) /\ SameBut(wh', wh, {"flags", "counted", "activecnt"}) /\ ~On(wh', "READING")
  BY <1>1, <1>2, StopAt
<1>4. wh'.pc = wh.pc /\ wh'.cur = wh.cur
  BY <1>2, <1>3 DEF SameBut, TcpFields, BaseFields
<1> QED BY <1>2, <1>3, <1>4 DEF TcpInv, TcpAt, TcpPc, TcpKind, TcpReads, k

\* The connection ends: an error, or the end of what the other side sends.
LEMMA BrokenAt ==
  ASSUME NEW h, NEW k, NEW some, TcpAt(h, k, some), On(h, "READING"),
         NEW g, g = Clear(StopReading(h), {"READABLE", "WRITABLE"})
  PROVE  TcpAt(g, k, some) /\ ~On(g, "READING")
<1> DEFINE p == StopReading(h)
<1>1. TcpAt(p, k, some) /\ ~On(p, "READING")
  BY StopAt
<1>2. g = Clear(p, {"READABLE", "WRITABLE"})
  OBVIOUS
<1> HIDE DEF p
<1>3. "flags" \in DOMAIN p
  BY <1>1, AtCore DEF TcpFields, BaseFields
<1>4. SameBut(g, p, {"flags"}) /\ \A f : On(g, f) <=> On(p, f) /\ f \notin {"READABLE", "WRITABLE"}
  BY <1>2, <1>3, FlagsSame
<1>5. SameBut(g, p, {"flags", "pc", "cur"})
  BY <1>4 DEF SameBut
<1> QED BY <1>1, <1>4, <1>5, StillAt

\* The user is called, or comes back.
LEMMA CalledAt ==
  ASSUME NEW h, NEW k, NEW some, TcpAt(h, k, some), NEW pc, NEW r, NEW g,
         g = CallUser(h, pc, r) \/ (g = Returned(h) /\ pc = "idle" /\ r = "none")
  PROVE  /\ TcpAt(g, k, some) /\ SameBut(g, h, {"pc", "cur"}) /\ g.pc = pc /\ g.cur = r
         /\ \A f : On(g, f) <=> On(h, f)
BY AtCore, CallSame, StillAt DEF SameBut

LEMMA TcpProcessReadKeeps == ASSUME TcpInv, ProcessRead PROVE TcpInv'
<1> DEFINE h == Clear(Handling(wh, "read"), {"READ_PENDING"})
           e == Clear(StopReading(h), {"READABLE", "WRITABLE"})
<1>1. /\ TcpOk(wh, "none", {}) /\ TcpDue(wh, "none") /\ "read" \in wh.walk /\ wh.pc = "idle" /\ wh.cur = "none"
  BY DEF TcpInv, ProcessRead, CanHandle, TcpKind, TcpPc
<1>2. /\ TcpAt(h, "other", {}) /\ h.pc = "idle" /\ h.cur = "none"
  BY <1>1, TakeReadAt
<1>3. \/ wh' = CallUser(h, "read_loop", "read")
      \/ wh' = CallUser(e, "end_cb", "read") /\ On(h, "READING")
      \/ wh' = DecPending(h) /\ ~On(h, "READING")
  BY DEF ProcessRead
<1>4. CASE wh' = CallUser(e, "end_cb", "read") /\ On(h, "READING")
  <2>1. TcpAt(e, "other", {}) /\ ~On(e, "READING")
    BY <1>2, <1>4, BrokenAt
  <2> HIDE DEF h, e
  <2>2. TcpAt(wh', "other", {}) /\ wh'.pc = "end_cb" /\ wh'.cur = "read" /\ ~On(wh', "READING")
    BY <1>4, <2>1, CalledAt
  <2> QED BY <2>2 DEF TcpInv, TcpAt, TcpPc, TcpKind, TcpReads
<1> HIDE DEF h, e
<1>5. CASE wh' = CallUser(h, "read_loop", "read")
  BY <1>2, <1>5, CalledAt DEF TcpInv, TcpAt, TcpPc, TcpKind, TcpReads
<1>6. CASE wh' = DecPending(h) /\ ~On(h, "READING")
  BY <1>2, <1>6, OffAt DEF TcpInv
<1> QED BY <1>3, <1>4, <1>5, <1>6

LEMMA TcpReadTurnKeeps == ASSUME TcpInv, ReadTurn \/ ReadAgain PROVE TcpInv'
<1> DEFINE stop == StopReading(wh)
           broken == Clear(StopReading(wh), {"READABLE", "WRITABLE"})
<1>1. wh.pc \in {"read_loop", "read_cb"}
  BY DEF ReadTurn, ReadAgain
<1>2. /\ TcpAt(wh, "other", {}) /\ wh.cur = "read" /\ DOMAIN wh = TcpFields
  BY <1>1, TcpInvAt DEF TcpKind, TcpPc
<1>3. PICK p, pc : /\ wh' = [p EXCEPT !.pc = pc] /\ pc \in {"read_loop", "read_cb", "last_cb"}
                   /\ TcpAt(p, "other", {}) /\ p.cur = "read"
  <2>1. On(wh, "READING") => /\ TcpAt(stop, "other", {}) /\ SameBut(stop, wh, {"flags", "counted", "activecnt"})
                             /\ TcpAt(broken, "other", {})
    BY <1>2, StopAt, BrokenAt
  <2>2. SameBut(broken, stop, {"flags"})
    <3>1. DOMAIN stop = DOMAIN wh
      BY DEF StopReading, DecActive, Clear
    <3> HIDE DEF stop
    <3>2. broken = Clear(stop, {"READABLE", "WRITABLE"})
      BY DEF stop
    <3> HIDE DEF broken
    <3> QED BY <1>2, <3>1, <3>2, FlagsSame DEF TcpFields, BaseFields
  <2>3. On(wh, "READING") => stop.cur = "read" /\ broken.cur = "read"
    <3> HIDE DEF stop, broken
    <3> QED BY <1>2, <2>1, <2>2 DEF SameBut, TcpFields, BaseFields
  <2> HIDE DEF stop, broken
  <2>4. CASE wh' = [wh EXCEPT !.pc = "read_cb"]
    BY <1>2, <2>4
  <2>5. CASE wh' = [wh EXCEPT !.pc = "last_cb"]
    BY <1>2, <2>5
  <2>6. CASE wh' = [stop EXCEPT !.pc = "last_cb"] /\ On(wh, "READING")
    BY <2>1, <2>3, <2>6
  <2>7. CASE wh' = [broken EXCEPT !.pc = "last_cb"] /\ On(wh, "READING")
    BY <2>1, <2>3, <2>7
  <2>8. CASE wh' = [wh EXCEPT !.pc = "read_loop"]
    BY <1>2, <2>8
  <2> QED BY <2>4, <2>5, <2>6, <2>7, <2>8 DEF ReadTurn, ReadAgain, Uses, stop, broken
<1>4. DOMAIN p = TcpFields
  BY <1>3, AtCore
<1>5. /\ SameBut(wh', p, {"flags", "pc", "cur"}) /\ wh'.pc = pc /\ wh'.cur = "read"
      /\ wh'.flags = p.flags
  BY <1>3, <1>4 DEF SameBut, TcpFields, BaseFields
<1>6. TcpAt(wh', "other", {})
  BY <1>5, <1>3, StillAt DEF On
<1> QED BY <1>3, <1>5, <1>6 DEF TcpInv, TcpAt, TcpPc, TcpKind, TcpReads

LEMMA TcpReadDoneKeeps == ASSUME TcpInv, ReadDone PROVE TcpInv'
<1> DEFINE h == Returned(wh)
<1>1. wh.pc \in {"last_cb", "read_loop", "read_cb"}
  BY DEF ReadDone
<1>2. TcpAt(wh, "other", {})
  BY <1>1, TcpInvAt DEF TcpKind
<1>3. PICK g : /\ wh' = DecPending(g)
               /\ \/ g \in QueueRead(h) /\ ~On(wh, "READ_PENDING")
                  \/ g = h /\ (On(wh, "READING") => On(wh, "READ_PENDING"))
  BY DEF ReadDone, Uses
<1>4. TcpAt(h, "other", {}) /\ h.pc = "idle" /\ h.cur = "none" /\ \A f : On(h, f) <=> On(wh, f)
  BY <1>2, CalledAt
<1> HIDE DEF h
<1>5. /\ TcpAt(g, "other", {}) /\ g.pc = "idle" /\ g.cur = "none"
      /\ On(g, "READING") => On(g, "READ_PENDING")
  BY <1>4, <1>3, QueueReadAt
<1>6. TcpOk(wh', "none", {}) /\ TcpPc(wh') /\ TcpDue(wh', "none") /\ TcpReads(wh') /\ TcpKind(wh') = "none"
  BY <1>3, <1>5, OffAt
<1> QED BY <1>6 DEF TcpInv

LEMMA TcpWriteKeeps ==
  ASSUME NEW w \in TcpWrites, TcpInv, uv__tcp_write(w)
  PROVE  TcpInv'
<1> DEFINE k == TcpKind(wh)
           n == OneIf(k \in {"write", "other"}) + OneIf(wh.shutdown_req)
           h == [wh EXCEPT !.write_reqs_pending = @ + 1, !.todo = @ \ {w}]
           p == Register(h)
<1>1. /\ On(wh, "WRITABLE") /\ w \in wh.todo
      /\ wh' = Given(p, w) \/ wh' = Inserted(p, w, TRUE) \/ wh' = Inserted(p, w, FALSE)
  BY DEF uv__tcp_write, Uses
<1>2. /\ ~On(wh, "CLOSING") /\ TcpAt(wh, k, {}) /\ TcpPc(wh) /\ TcpReads(wh)
  BY <1>1, TcpInvAt DEF TcpInv, TcpOk, TcpConnection
<1> HIDE DEF k
<1>3. /\ Core(wh, TcpReqs, n) /\ DOMAIN wh = TcpFields /\ ~On(wh, "CLOSED")
      /\ wh.activecnt \in Nat /\ wh.active_reqs \in Nat /\ wh.write_reqs_pending \in Nat
      /\ IsFiniteSet(Outstanding(wh)) /\ w \in TcpReqs /\ w \in TcpActive
  BY <1>2, AtCore DEF TcpReqs, TcpActive
<1>4. w \notin Outstanding(wh)
  BY <1>1, <1>2 DEF TcpAt, TcpOk, TcpWritten
<1> HIDE DEF n
<1>5. /\ SameBut(h, wh, {"write_reqs_pending", "todo"}) /\ h.flags = wh.flags
      /\ h.write_reqs_pending = wh.write_reqs_pending + 1 /\ h.todo = wh.todo \ {w}
      /\ h.activecnt = wh.activecnt /\ h.active_reqs = wh.active_reqs /\ DOMAIN h = TcpFields
  BY <1>3 DEF SameBut, TcpFields, BaseFields
<1> HIDE DEF h
<1>6. Core(h, TcpReqs, n) /\ Outstanding(h) = Outstanding(wh) /\ ~On(h, "CLOSING")
  BY <1>2, <1>5, <1>3, OtherCore DEF Alike, On, BaseFields
<1>7. /\ Core(p, TcpReqs, n) /\ SameBut(p, h, {"flags", "counted", "activecnt", "active_reqs"})
      /\ Outstanding(p) = Outstanding(h) /\ p.activecnt = h.activecnt + 1
      /\ p.active_reqs = h.active_reqs + 1
      /\ \A f : f # "ACTIVE" => (On(p, f) <=> On(h, f))
  BY <1>3, <1>5, <1>6, RegisterCore
<1> HIDE DEF p
<1>8. /\ Core(wh', TcpReqs, n) /\ SameBut(wh', p, {"kernel", "pending", "ok", "reqs_pending"})
      /\ Outstanding(wh') = Outstanding(wh) \cup {w}
  <2>1. ~On(p, "CLOSED") /\ w \notin Outstanding(p)
    BY <1>3, <1>4, <1>5, <1>6, <1>7 DEF On
  <2>2. Core(p, TcpReqs, n) /\ w \in TcpReqs
    BY <1>3, <1>7
  <2>3. wh' = Given(p, w) \/ wh' = Inserted(p, w, TRUE) \/ wh' = Inserted(p, w, FALSE)
    BY <1>1
  <2>4. /\ Core(wh', TcpReqs, n) /\ SameBut(wh', p, {"kernel", "pending", "ok", "reqs_pending"})
        /\ Outstanding(wh') = Outstanding(p) \cup {w}
    <3> HIDE DEF p, n
    <3>1. ASSUME NEW g, g = Given(p, w) \/ g = Inserted(p, w, TRUE) \/ g = Inserted(p, w, FALSE)
          PROVE  /\ Core(g, TcpReqs, n) /\ SameBut(g, p, {"kernel", "pending", "ok", "reqs_pending"})
                 /\ Outstanding(g) = Outstanding(p) \cup {w}
      BY <2>1, <2>2, <3>1, PutKeeps
    <3> QED BY <2>3, <3>1
  <2> QED BY <1>6, <1>7, <2>4
<1>9. /\ wh'.flags = p.flags /\ wh'.activecnt = wh.activecnt + 1 /\ wh'.active_reqs = wh.active_reqs + 1
      /\ wh'.write_reqs_pending = wh.write_reqs_pending + 1 /\ wh'.todo = wh.todo \ {w}
      /\ DOMAIN wh' = TcpFields
  BY <1>5, <1>7, <1>8 DEF SameBut, TcpFields, BaseFields
<1>10. /\ wh'.shutdown_req = wh.shutdown_req
       /\ wh'.accept_socket = wh.accept_socket /\ wh'.pending_accepts = wh.pending_accepts
       /\ wh'.accept_reqs = wh.accept_reqs /\ wh'.processed_accepts = wh.processed_accepts
       /\ wh'.listens = wh.listens /\ wh'.called = wh.called /\ wh'.socket = wh.socket
       /\ wh'.delayed_error = wh.delayed_error /\ wh'.pc = wh.pc /\ wh'.cur = wh.cur
  BY <1>3, <1>5, <1>7, <1>8 DEF SameBut, TcpFields, BaseFields
<1>11. \A f : f # "ACTIVE" => (On(wh', f) <=> On(wh, f))
  BY <1>5, <1>7, <1>9 DEF On
<1>12. w \notin TcpAccepts /\ w \notin {"connect", "read", "shutdown"}
  BY TcpAssumption
<1>13. TcpCounts(wh', k)
  <2> DEFINE O == Outstanding(wh)
             S == TcpActive
             W == TcpWrites
  <2>0. w \in S /\ w \in W
    BY <1>3
  <2>1. IsFiniteSet(O) /\ w \notin O
    BY <1>3, <1>4
  <2> HIDE DEF O, S, W
  <2>2. Cardinality((O \cup {w}) \cap S) = Cardinality(O \cap S) + OneIf(w \in S)
    BY <2>1, PartMore
  <2>3. Cardinality((O \cup {w}) \cap W) = Cardinality(O \cap W) + OneIf(w \in W)
    BY <2>1, PartMore
  <2>4. OneIf(w \in S) = 1 /\ OneIf(w \in W) = 1
    BY <2>0 DEF OneIf
  <2>5. Cardinality(O \cap S) \in Nat /\ Cardinality(O \cap W) \in Nat
    BY <2>1, PartMore
  <2>6. /\ wh.write_reqs_pending = Cardinality(O \cap W) + OneIf(k = "write")
        /\ wh.active_reqs = Cardinality(O \cap S) + OneIf(wh.shutdown_req /\ k # "shutdown")
        /\ k = "shutdown" => wh.shutdown_req
    BY <1>2 DEF TcpAt, TcpOk, TcpCounts, O, S, W
  <2>7. /\ wh'.write_reqs_pending = Cardinality((O \cup {w}) \cap W) + OneIf(k = "write")
        /\ wh'.active_reqs = Cardinality((O \cup {w}) \cap S) + OneIf(wh.shutdown_req /\ k # "shutdown")
    BY <1>9, <2>2, <2>3, <2>4, <2>5, <2>6 DEF OneIf
  <2> QED BY <1>8, <1>10, <2>6, <2>7 DEF TcpCounts, O, S, W, n
<1>14. TcpTypes(wh')
  BY <1>2, <1>9, <1>10 DEF TcpAt, TcpOk, TcpTypes
<1>15. TcpKeepsAlive(wh')
  BY <1>2, <1>3, <1>9, <1>10, <1>11 DEF TcpAt, TcpOk, TcpKeepsAlive, OneIf
<1>16. TcpWritten(wh') /\ TcpConnection(wh')
  BY <1>1, <1>2, <1>4, <1>8, <1>9, <1>10, <1>11, <1>12 DEF TcpAt, TcpOk, TcpWritten, TcpConnection
<1>17. TcpServes(wh', {})
  <2>1. TcpHeld(wh') = TcpHeld(wh)
    BY <1>8, <1>10, <1>12 DEF TcpHeld
  <2>2. In(wh.pending_accepts) \cap Outstanding(wh) = {} /\ In(wh.pending_accepts) \subseteq TcpAccepts
    BY <1>2 DEF TcpAt, TcpOk, TcpServes, TcpTypes, In
  <2>3. In(wh'.pending_accepts) \cap Outstanding(wh') = {}
    BY <1>8, <1>10, <1>12, <2>2
  <2> QED BY <1>2, <1>10, <1>11, <2>1, <2>3 DEF TcpAt, TcpOk, TcpServes
<1>18. TcpDue(wh', k) /\ TcpPc(wh') /\ TcpReads(wh') /\ TcpKind(wh') = k
  BY <1>2, <1>3, <1>9, <1>11, <1>10 DEF EndDue, TcpDue, TcpPc, TcpReads, TcpKind, k
<1> QED BY <1>13, <1>14, <1>15, <1>16, <1>17, <1>18 DEF TcpInv, TcpOk

LEMMA TcpProcessWriteKeeps ==
  ASSUME NEW w \in TcpWrites, TcpInv, ProcessWrite(w)
  PROVE  TcpInv'
<1> DEFINE h == Unregister(Handling(wh, w))
           c == [h EXCEPT !.called = @ \cup {w}]
<1>1. /\ TcpOk(wh, "none", {}) /\ wh.pc = "idle" /\ w \in wh.walk /\ DOMAIN wh = TcpFields
      /\ TcpDue(wh, "none") /\ TcpReads(wh)
  BY DEF TcpInv, TcpOk, TcpTypes, TcpKind, ProcessWrite, CanHandle
<1>2. w \in TcpActive /\ w \notin TcpAccepts /\ w \notin {"connect", "read", "shutdown"}
  BY TcpAssumption DEF TcpActive
<1>3. /\ TcpCounts(h, "write") /\ TcpKeepsAlive(h) /\ ~On(wh, "CLOSED") /\ DOMAIN h = TcpFields
      /\ SameBut(h, wh, {"walk", "flags", "counted", "activecnt", "active_reqs"})
      /\ Outstanding(h) = Outstanding(wh) \ {w} /\ w \in Outstanding(wh)
      /\ \A f : f # "ACTIVE" => (On(h, f) <=> On(wh, f))
  BY <1>1, <1>2, TakeActive
<1>4. wh' = CallUser(c, "write_cb", w)
  BY DEF ProcessWrite
<1> HIDE DEF h
<1>5. /\ SameBut(c, h, {"called"}) /\ c.called = h.called \cup {w} /\ c.flags = h.flags
      /\ DOMAIN c = TcpFields
  BY <1>3 DEF SameBut, TcpFields, BaseFields
<1> HIDE DEF c
<1>6. /\ SameBut(wh', c, {"pc", "cur"}) /\ wh'.pc = "write_cb" /\ wh'.cur = w
  BY <1>4, <1>5, CallSame DEF TcpFields
<1>7. /\ SameBut(wh', h, {"called", "pc", "cur"}) /\ wh'.flags = h.flags
      /\ wh'.called = wh.called \cup {w} /\ DOMAIN wh' = TcpFields
  BY <1>1, <1>3, <1>5, <1>6 DEF SameBut, TcpFields, BaseFields
<1>8. /\ wh'.write_reqs_pending = wh.write_reqs_pending /\ wh'.shutdown_req = wh.shutdown_req
      /\ wh'.accept_socket = wh.accept_socket /\ wh'.pending_accepts = wh.pending_accepts
      /\ wh'.accept_reqs = wh.accept_reqs /\ wh'.processed_accepts = wh.processed_accepts
      /\ wh'.listens = wh.listens /\ wh'.todo = wh.todo
      /\ wh'.socket = wh.socket /\ wh'.delayed_error = wh.delayed_error
  BY <1>1, <1>3, <1>7 DEF SameBut, TcpFields, BaseFields
<1>9. /\ wh'.activecnt = h.activecnt /\ wh'.active_reqs = h.active_reqs
      /\ h.write_reqs_pending = wh.write_reqs_pending /\ h.shutdown_req = wh.shutdown_req
      /\ h.listens = wh.listens
  BY <1>1, <1>3, <1>7 DEF SameBut, TcpFields, BaseFields
<1>10. \A f : /\ On(wh', f) <=> On(h, f)
              /\ f # "ACTIVE" => (On(wh', f) <=> On(wh, f))
  BY <1>3, <1>7 DEF On
<1>11. /\ Core(wh', TcpReqs, OneIf("write" \in {"write", "other"}) + OneIf(wh'.shutdown_req))
       /\ Outstanding(wh') = Outstanding(wh) \ {w}
  BY <1>3, <1>10, <1>7, <1>8, <1>9, OtherCore DEF Alike, TcpCounts, BaseFields
<1>12. TcpCounts(wh', "write") /\ TcpKeepsAlive(wh')
  BY <1>3, <1>8, <1>9, <1>11, <1>10 DEF TcpCounts, TcpKeepsAlive, OneIf
<1>13. TcpTypes(wh')
  BY <1>1, <1>7, <1>8 DEF TcpOk, TcpTypes
<1>14. TcpWritten(wh') /\ TcpConnection(wh')
  BY <1>1, <1>2, <1>3, <1>7, <1>8, <1>10, <1>11 DEF TcpOk, TcpWritten, TcpConnection
<1>15. TcpServes(wh', {})
  BY <1>2, <1>8, <1>11, <1>1, <1>10 DEF TcpHeld, TcpOk, TcpServes
<1>16. TcpDue(wh', "write") /\ TcpReads(wh')
  BY <1>1, <1>8, <1>10, <1>12, TcpBusy DEF TcpDue, TcpReads
<1> QED BY <1>6, <1>12, <1>13, <1>14, <1>15, <1>16 DEF TcpInv, TcpOk, TcpPc, TcpKind

LEMMA TcpWriteDoneKeeps == ASSUME TcpInv, WriteDone PROVE TcpInv'
<1> DEFINE r == Returned(wh)
           h == [r EXCEPT !.write_reqs_pending = @ - 1]
           last == h.write_reqs_pending = 0
           g == IF last /\ On(h, "CLOSING") THEN [h EXCEPT !.socket = FALSE] ELSE h
           x == IF last /\ h.shutdown_req THEN WantEndgame(g) ELSE g
<1>1. /\ wh.pc = "write_cb" /\ wh' = DecPending(x)
  BY DEF WriteDone
<1>2. TcpAt(wh, "write", {}) /\ TcpReads(wh)
  BY <1>1, TcpInvAt DEF TcpKind
<1>3. /\ TcpAt(r, "write", {}) /\ SameBut(r, wh, {"pc", "cur"}) /\ r.pc = "idle" /\ r.cur = "none"
      /\ \A f : On(r, f) <=> On(wh, f)
  BY <1>2, CalledAt
<1> HIDE DEF r
<1>4. /\ Core(r, TcpReqs, OneIf("write" \in {"write", "other"}) + OneIf(r.shutdown_req))
      /\ DOMAIN r = TcpFields /\ ~On(r, "CLOSED") /\ IsFiniteSet(Outstanding(r))
      /\ r.write_reqs_pending \in Nat
  BY <1>3, AtCore
<1>5. /\ SameBut(h, r, {"write_reqs_pending"}) /\ h.write_reqs_pending = r.write_reqs_pending - 1
      /\ h.flags = r.flags /\ DOMAIN h = TcpFields /\ h.shutdown_req = r.shutdown_req
      /\ h.socket = r.socket
  BY <1>4 DEF SameBut, TcpFields, BaseFields
<1> HIDE DEF h
<1>6. /\ SameBut(g, r, {"write_reqs_pending", "socket"}) /\ g.write_reqs_pending = r.write_reqs_pending - 1
      /\ g.flags = r.flags /\ DOMAIN g = TcpFields /\ g.socket \in BOOLEAN
      /\ g.write_reqs_pending = 0 /\ On(r, "CLOSING") => ~g.socket
      /\ g.socket = r.socket \/ On(r, "CLOSING")
      /\ g.socket => r.socket
  <2>0. r.socket \in BOOLEAN
    BY <1>3 DEF TcpAt, TcpOk, TcpTypes
  <2>1. CASE last /\ On(h, "CLOSING")
    <3>1. g = [h EXCEPT !.socket = FALSE]
      BY <2>1
    <3> HIDE DEF g
    <3> QED BY <1>4, <1>5, <2>0, <2>1, <3>1 DEF SameBut, TcpFields, BaseFields, On
  <2>2. CASE ~(last /\ On(h, "CLOSING"))
    <3>1. g = h
      BY <2>2
    <3> HIDE DEF g
    <3> QED BY <1>4, <1>5, <2>0, <2>2, <3>1 DEF SameBut, TcpFields, BaseFields, On
  <2> QED BY <2>1, <2>2
<1> HIDE DEF g
<1>7. Core(g, TcpReqs, OneIf("other" \in {"write", "other"}) + OneIf(r.shutdown_req))
      /\ Outstanding(g) = Outstanding(r) /\ ~On(g, "CLOSED")
  BY <1>6, <1>4, OtherCore DEF OneIf, Alike, On, BaseFields
<1>8. /\ Core(x, TcpReqs, OneIf("other" \in {"write", "other"}) + OneIf(r.shutdown_req))
      /\ Outstanding(x) = Outstanding(r) /\ SameBut(x, g, {"flags"})
      /\ \A f : f # "ENDGAME_QUEUED" => (On(x, f) <=> On(g, f))
      /\ On(g, "ENDGAME_QUEUED") => On(x, "ENDGAME_QUEUED")
      /\ g.write_reqs_pending = 0 /\ r.shutdown_req => On(x, "ENDGAME_QUEUED")
  <2>1. CASE last /\ h.shutdown_req
    <3>1. x = WantEndgame(g)
      BY <2>1
    <3> HIDE DEF x
    <3> QED BY <1>7, <3>1, QueuedCore
  <2>2. CASE ~(last /\ h.shutdown_req)
    <3>1. x = g
      BY <2>2
    <3> HIDE DEF x
    <3> QED BY <1>5, <1>6, <1>7, <2>2, <3>1 DEF SameBut
  <2> QED BY <2>1, <2>2
<1> HIDE DEF x
<1>9. /\ x.write_reqs_pending = r.write_reqs_pending - 1 /\ DOMAIN x = TcpFields
      /\ x.socket = g.socket /\ x.shutdown_req = r.shutdown_req
      /\ x.accept_socket = r.accept_socket /\ x.pending_accepts = r.pending_accepts
      /\ x.accept_reqs = r.accept_reqs /\ x.processed_accepts = r.processed_accepts
      /\ x.listens = r.listens /\ x.todo = r.todo /\ x.called = r.called
      /\ x.delayed_error = r.delayed_error /\ x.active_reqs = r.active_reqs
      /\ x.activecnt = r.activecnt /\ x.pc = "idle" /\ x.cur = "none"
      /\ x.reqs_pending = r.reqs_pending
  BY <1>3, <1>4, <1>6, <1>8 DEF SameBut, TcpFields, BaseFields
<1>10. \A f : f # "ENDGAME_QUEUED" => (On(x, f) <=> On(r, f))
  BY <1>6, <1>8 DEF On
<1>11. TcpCounts(x, "other")
  <2>1. Cardinality(Outstanding(r) \cap TcpWrites) \in Nat
    BY <1>4, PartMore
  <2> QED BY <1>3, <1>8, <1>9, <2>1 DEF TcpAt, TcpOk, TcpCounts, OneIf
<1>12. TcpTypes(x) /\ TcpKeepsAlive(x) /\ TcpWritten(x)
  BY <1>3, <1>6, <1>9, <1>10, <1>8 DEF TcpAt, TcpOk, TcpTypes, TcpKeepsAlive, OneIf, TcpWritten
<1>13. TcpConnection(x)
  <2>1. x.write_reqs_pending \in Nat
    <3>1. IsFiniteSet(Outstanding(r))
      BY <1>4
    <3>2. Cardinality(Outstanding(r) \cap TcpWrites) \in Nat
      BY <3>1, PartMore
    <3>3. OneIf("other" = "write") = 0
      BY DEF OneIf
    <3>4. x.write_reqs_pending = Cardinality(Outstanding(r) \cap TcpWrites) + OneIf("other" = "write")
      BY <1>8, <1>11 DEF TcpCounts
    <3> QED BY <3>2, <3>3, <3>4
  <2>2. On(x, "CLOSING") => (x.socket => x.write_reqs_pending > 0)
    <3>1. On(r, "CLOSING") <=> On(x, "CLOSING")
      BY <1>10
    <3>2. x.write_reqs_pending = g.write_reqs_pending
      BY <1>6, <1>9
    <3>3. x.socket = g.socket
      BY <1>9
    <3>4. CASE x.write_reqs_pending = 0
      BY <3>2, <3>4, <1>6, <3>1, <3>3
    <3>5. CASE x.write_reqs_pending # 0
      BY <2>1, <3>5
    <3> QED BY <3>4, <3>5
  <2>3. On(x, "BOUND") \/ x.listens > 0 \/ "connect" \in Outstanding(x) => x.socket \/ On(x, "CLOSING")
    BY <1>3, <1>6, <1>8, <1>9, <1>10 DEF TcpAt, TcpOk, TcpConnection
  <2> QED BY <1>3, <1>8, <1>9, <1>10, <2>2, <2>3 DEF TcpAt, TcpOk, TcpConnection
<1>14. TcpServes(x, {})
  BY <1>8, <1>9, <1>3, <1>10 DEF TcpHeld, TcpAt, TcpOk, TcpServes
<1>15. TcpAt(x, "other", {})
  <2>1. TcpDue(x, "other")
    BY <1>6, <1>8, <1>9, <1>11, TcpBusy DEF TcpDue
  <2> QED BY <1>4, <1>10, <1>11, <1>12, <1>13, <1>14, <2>1 DEF TcpAt, TcpOk
<1>16. On(x, "READING") => On(x, "READ_PENDING")
  BY <1>1, <1>2, <1>3, <1>10 DEF TcpReads
<1>17. TcpOk(wh', "none", {}) /\ TcpPc(wh') /\ TcpDue(wh', "none") /\ TcpReads(wh') /\ TcpKind(wh') = "none"
  BY <1>1, <1>9, <1>15, <1>16, OffAt
<1> QED BY <1>17 DEF TcpInv

LEMMA TcpShutdownKeeps == ASSUME TcpInv, uv_shutdown PROVE TcpInv'
<1> DEFINE k == TcpKind(wh)
           n == OneIf(k \in {"write", "other"}) + OneIf(wh.shutdown_req)
           c == Clear(wh, {"WRITABLE"})
           s == Set(c, {"SHUTTING"})
           h == [s EXCEPT !.shutdown_req = TRUE, !.reqs_pending = @ + 1]
           p == Register(h)
<1>1. /\ ~On(wh, "CLOSING") /\ ~On(wh, "SHUTTING") /\ On(wh, "WRITABLE") /\ wh' = WantEndgame(p)
  BY DEF uv_shutdown, Usable, Uses
<1>2. TcpAt(wh, k, {}) /\ TcpPc(wh) /\ TcpReads(wh)
  BY <1>1, TcpInvAt
<1> HIDE DEF k
<1>3. /\ Core(wh, TcpReqs, n) /\ DOMAIN wh = TcpFields /\ ~On(wh, "CLOSED")
      /\ wh.activecnt \in Nat /\ wh.active_reqs \in Nat /\ wh.write_reqs_pending \in Nat
      /\ wh.reqs_pending \in Nat /\ IsFiniteSet(Outstanding(wh))
  BY <1>2, AtCore
<1>4. ~wh.shutdown_req /\ n = OneIf(k \in {"write", "other"}) /\ k # "shutdown"
  BY <1>1, <1>2 DEF TcpAt, TcpOk, TcpConnection, TcpCounts, OneIf
<1> HIDE DEF n
<1>5. /\ SameBut(s, wh, {"flags"}) /\ s.flags = (wh.flags \ {"WRITABLE"}) \cup {"SHUTTING"}
      /\ DOMAIN s = TcpFields /\ s.reqs_pending = wh.reqs_pending
  BY <1>3 DEF Set, Clear, SameBut, TcpFields, BaseFields
<1> HIDE DEF s
<1>6. /\ SameBut(h, wh, {"flags", "shutdown_req", "reqs_pending"}) /\ h.shutdown_req = TRUE
      /\ h.reqs_pending = wh.reqs_pending + 1 /\ h.flags = s.flags /\ DOMAIN h = TcpFields
      /\ h.activecnt = wh.activecnt /\ h.active_reqs = wh.active_reqs
  BY <1>5 DEF SameBut, TcpFields, BaseFields
<1> HIDE DEF h
<1>7. Core(h, TcpReqs, n + 1) /\ Outstanding(h) = Outstanding(wh) /\ ~On(h, "CLOSING")
  BY <1>1, <1>5, <1>6, <1>3, CoreMore DEF Alike, On, BaseFields
<1>8. /\ Core(p, TcpReqs, n + 1) /\ SameBut(p, h, {"flags", "counted", "activecnt", "active_reqs"})
      /\ Outstanding(p) = Outstanding(h) /\ p.activecnt = h.activecnt + 1
      /\ p.active_reqs = h.active_reqs + 1
      /\ \A f : f # "ACTIVE" => (On(p, f) <=> On(h, f))
  BY <1>3, <1>6, <1>7, RegisterCore
<1> HIDE DEF p
<1>9. /\ Core(wh', TcpReqs, n + 1) /\ SameBut(wh', p, {"flags"}) /\ Outstanding(wh') = Outstanding(p)
      /\ \A f : f # "ENDGAME_QUEUED" => (On(wh', f) <=> On(p, f))
      /\ On(wh', "ENDGAME_QUEUED")
  BY <1>3, <1>5, <1>6, <1>8, <1>1, QueuedCore DEF On
<1>10. /\ wh'.activecnt = wh.activecnt + 1 /\ wh'.active_reqs = wh.active_reqs + 1
       /\ wh'.shutdown_req = TRUE /\ DOMAIN wh' = TcpFields
       /\ wh'.write_reqs_pending = wh.write_reqs_pending /\ wh'.todo = wh.todo
       /\ wh'.accept_socket = wh.accept_socket /\ wh'.pending_accepts = wh.pending_accepts
       /\ wh'.accept_reqs = wh.accept_reqs /\ wh'.processed_accepts = wh.processed_accepts
       /\ wh'.listens = wh.listens /\ wh'.called = wh.called /\ wh'.socket = wh.socket
       /\ wh'.delayed_error = wh.delayed_error /\ wh'.pc = wh.pc /\ wh'.cur = wh.cur
  BY <1>3, <1>6, <1>8, <1>9 DEF SameBut, TcpFields, BaseFields
<1>11. /\ \A f : f \notin {"ACTIVE", "ENDGAME_QUEUED", "WRITABLE", "SHUTTING"} => (On(wh', f) <=> On(wh, f))
       /\ ~On(wh', "WRITABLE") /\ On(wh', "SHUTTING") /\ Outstanding(wh') = Outstanding(wh)
       /\ ~On(wh', "CLOSING")
  BY <1>5, <1>6, <1>1, <1>7, <1>8, <1>9 DEF On
<1>12. TcpCounts(wh', k)
  <2>1. Cardinality(Outstanding(wh) \cap TcpActive) \in Nat
    BY <1>3, PartMore
  <2>2. wh.active_reqs = Cardinality(Outstanding(wh) \cap TcpActive) + OneIf(wh.shutdown_req /\ k # "shutdown")
    BY <1>2 DEF TcpAt, TcpOk, TcpCounts
  <2>3. OneIf(wh.shutdown_req /\ k # "shutdown") = 0 /\ OneIf(wh'.shutdown_req /\ k # "shutdown") = 1
        /\ OneIf(wh'.shutdown_req) = 1
    BY <1>4, <1>10 DEF OneIf
  <2>4. wh'.active_reqs
          = Cardinality(Outstanding(wh') \cap TcpActive) + OneIf(wh'.shutdown_req /\ k # "shutdown")
    BY <1>10, <1>11, <2>1, <2>2, <2>3
  <2>5. Core(wh', TcpReqs, OneIf(k \in {"write", "other"}) + OneIf(wh'.shutdown_req))
    BY <1>4, <1>9, <2>3
  <2> QED BY <1>2, <1>4, <1>10, <1>11, <2>4, <2>5 DEF TcpAt, TcpOk, TcpCounts
<1>13. TcpTypes(wh')
  BY <1>2, <1>10 DEF TcpAt, TcpOk, TcpTypes
<1>14. TcpKeepsAlive(wh')
  BY <1>2, <1>3, <1>10, <1>11 DEF TcpAt, TcpOk, TcpKeepsAlive, OneIf
<1>15. TcpWritten(wh') /\ TcpConnection(wh')
  BY <1>1, <1>2, <1>10, <1>11 DEF TcpAt, TcpOk, TcpWritten, TcpConnection
<1>16. TcpServes(wh', {})
  BY <1>10, <1>11, <1>2 DEF TcpHeld, TcpAt, TcpOk, TcpServes
<1>17. TcpDue(wh', k) /\ TcpPc(wh') /\ TcpReads(wh') /\ TcpKind(wh') = k
  BY <1>2, <1>9, <1>10, <1>11 DEF TcpDue, TcpPc, TcpReads, TcpKind, k
<1> QED BY <1>12, <1>13, <1>14, <1>15, <1>16, <1>17 DEF TcpInv, TcpOk

LEMMA TcpShutdownDoneKeeps == ASSUME TcpInv, ShutdownDone PROVE TcpInv'
<1> DEFINE r == Returned(wh)
           h == [r EXCEPT !.shutdown_req = FALSE]
<1>1. wh.pc = "shutdown_cb" /\ wh' = DecPending(h)
  BY DEF ShutdownDone
<1>2. TcpAt(wh, "shutdown", {}) /\ TcpReads(wh)
  BY <1>1, TcpInvAt DEF TcpKind
<1>3. /\ TcpAt(r, "shutdown", {}) /\ SameBut(r, wh, {"pc", "cur"}) /\ r.pc = "idle" /\ r.cur = "none"
      /\ \A f : On(r, f) <=> On(wh, f)
  BY <1>2, CalledAt
<1> HIDE DEF r
<1>4. /\ Core(r, TcpReqs, OneIf("shutdown" \in {"write", "other"}) + OneIf(r.shutdown_req))
      /\ DOMAIN r = TcpFields /\ ~On(r, "CLOSED") /\ IsFiniteSet(Outstanding(r)) /\ r.shutdown_req
  BY <1>3, AtCore DEF TcpAt, TcpOk, TcpCounts
<1>5. /\ SameBut(h, r, {"shutdown_req"}) /\ h.shutdown_req = FALSE /\ h.flags = r.flags
      /\ DOMAIN h = TcpFields /\ \A f : On(h, f) <=> On(r, f)
  BY <1>4 DEF SameBut, TcpFields, BaseFields, On
<1> HIDE DEF h
<1>6. /\ Core(h, TcpReqs, OneIf("other" \in {"write", "other"}) + OneIf(h.shutdown_req))
      /\ Outstanding(h) = Outstanding(r) /\ ~On(h, "CLOSED")
  <2>1. OneIf("other" \in {"write", "other"}) + OneIf(h.shutdown_req)
          = OneIf("shutdown" \in {"write", "other"}) + OneIf(r.shutdown_req)
    BY <1>4, <1>5 DEF OneIf
  <2>2. Alike(h, r)
    BY <1>5 DEF Alike
  <2>3. {"shutdown_req"} \cap BaseFields \subseteq {"flags", "active_reqs", "ok", "pc", "cur"}
    BY DEF BaseFields
  <2> DEFINE n == OneIf("shutdown" \in {"write", "other"}) + OneIf(r.shutdown_req)
  <2>4. Core(r, TcpReqs, n)
    BY <1>4
  <2> HIDE DEF n
  <2>5. Core(h, TcpReqs, n) /\ Outstanding(h) = Outstanding(r) /\ ~On(h, "CLOSED")
    BY <1>4, <1>5, <2>2, <2>3, <2>4, OtherCore
  <2> QED BY <2>1, <2>5 DEF n
<1>7. /\ h.write_reqs_pending = r.write_reqs_pending /\ h.socket = r.socket
      /\ h.accept_socket = r.accept_socket /\ h.pending_accepts = r.pending_accepts
      /\ h.accept_reqs = r.accept_reqs /\ h.processed_accepts = r.processed_accepts
      /\ h.listens = r.listens /\ h.todo = r.todo /\ h.called = r.called
      /\ h.delayed_error = r.delayed_error /\ h.active_reqs = r.active_reqs
      /\ h.activecnt = r.activecnt /\ h.pc = "idle" /\ h.cur = "none"
      /\ h.reqs_pending = r.reqs_pending
  BY <1>3, <1>4, <1>5 DEF SameBut, TcpFields, BaseFields
<1>8. TcpCounts(h, "other")
  BY <1>3, <1>5, <1>6, <1>7 DEF TcpAt, TcpOk, TcpCounts, OneIf
<1>9. TcpTypes(h) /\ TcpKeepsAlive(h) /\ TcpWritten(h) /\ TcpConnection(h)
  BY <1>3, <1>5, <1>7, <1>6 DEF TcpAt, TcpOk, TcpTypes, TcpKeepsAlive, OneIf, TcpWritten,
     TcpConnection
<1>10. TcpServes(h, {})
  BY <1>6, <1>7, <1>3, <1>5 DEF TcpHeld, TcpAt, TcpOk, TcpServes
<1>11. TcpAt(h, "other", {})
  BY <1>5, <1>8, <1>6, <1>9, <1>10, TcpBusy DEF TcpDue, TcpAt, TcpOk
<1>12. On(h, "READING") => On(h, "READ_PENDING")
  BY <1>1, <1>2, <1>3, <1>5 DEF TcpReads
<1>13. TcpOk(wh', "none", {}) /\ TcpPc(wh') /\ TcpDue(wh', "none") /\ TcpReads(wh') /\ TcpKind(wh') = "none"
  BY <1>1, <1>7, <1>11, <1>12, OffAt
<1> QED BY <1>13 DEF TcpInv

LEMMA TcpCallbackDoneKeeps == ASSUME TcpInv, CallbackDone PROVE TcpInv'
<1> DEFINE h == Returned(wh)
<1>1. wh.pc \in {"accept_cb", "connect_cb", "end_cb"} /\ wh' = DecPending(h)
  BY DEF CallbackDone
<1>2. TcpAt(wh, "other", {}) /\ TcpReads(wh)
  BY <1>1, TcpInvAt DEF TcpKind
<1>3. TcpAt(h, "other", {}) /\ h.pc = "idle" /\ h.cur = "none" /\ \A f : On(h, f) <=> On(wh, f)
  BY <1>2, CalledAt
<1> HIDE DEF h
<1>4. On(h, "READING") => On(h, "READ_PENDING")
  BY <1>1, <1>2, <1>3 DEF TcpReads
<1>5. TcpOk(wh', "none", {}) /\ TcpPc(wh') /\ TcpDue(wh', "none") /\ TcpReads(wh') /\ TcpKind(wh') = "none"
  BY <1>1, <1>3, <1>4, OffAt
<1> QED BY <1>5 DEF TcpInv

LEMMA TcpAnswersKeep == ASSUME TcpInv, TcpCompletes \/ TcpWalk PROVE TcpInv'
<1> DEFINE k == TcpKind(wh)
           n == OneIf(k \in {"write", "other"}) + OneIf(wh.shutdown_req)
<1>1. TcpOk(wh, k, {}) /\ TcpPc(wh) /\ TcpDue(wh, k) /\ TcpReads(wh) /\ DOMAIN wh = TcpFields
  BY DEF TcpInv, TcpOk, TcpTypes
<1>2. Core(wh, TcpReqs, n)
  BY <1>1 DEF TcpOk, TcpCounts
<1> HIDE DEF k, n
<1>3. /\ Core(wh', TcpReqs, n) /\ Outstanding(wh') = Outstanding(wh)
      /\ SameBut(wh', wh, {"kernel", "pending", "ok", "walk"})
  BY <1>2, CompletedKeeps, WalkKeeps DEF TcpCompletes, SameBut, TcpWalk
<1>4. /\ wh'.flags = wh.flags /\ wh'.pc = wh.pc /\ wh'.cur = wh.cur /\ wh'.shutdown_req = wh.shutdown_req
      /\ wh'.write_reqs_pending = wh.write_reqs_pending /\ wh'.reqs_pending = wh.reqs_pending
  BY <1>1, <1>3 DEF SameBut, TcpFields, BaseFields
<1>5. TcpOk(wh', k, {})
  BY <1>3, <1>4, <1>1, TcpAlike DEF SameBut, On, n
<1>6. TcpKind(wh') = k /\ TcpPc(wh') /\ TcpReads(wh') /\ TcpDue(wh', k)
  BY <1>1, <1>4 DEF TcpKind, TcpPc, TcpReads, TcpDue, EndDue, On, k
<1> QED BY <1>5, <1>6 DEF TcpInv

LEMMA TcpCloseKeeps == ASSUME TcpInv, uv__tcp_close PROVE TcpInv'
<1> DEFINE k == TcpKind(wh)
           n == OneIf(k \in {"write", "other"}) + OneIf(wh.shutdown_req)
           r == IF On(wh, "READING") THEN StopReading(wh) ELSE wh
           a == IF On(wh, "CONNECTION") THEN r
                ELSE [r EXCEPT !.accept_socket = [x \in TcpAccepts |-> FALSE]]
           c == Clear(a, {"LISTENING"})
           l == IF On(wh, "LISTENING") THEN DecActive(c) ELSE a
           s == [l EXCEPT !.socket = @ /\ On(wh, "CONNECTION") /\ l.write_reqs_pending > 0]
           q == Clear(s, {"READABLE", "WRITABLE"})
           h == HandleClosing(q)
<1>1. /\ ~On(wh, "CLOSING") /\ wh' = IF h.reqs_pending = 0 THEN WantEndgame(h) ELSE h
  BY DEF uv__tcp_close, Usable, Uses
<1>2. TcpAt(wh, k, {}) /\ TcpPc(wh) /\ TcpReads(wh) /\ DOMAIN wh = TcpFields
  BY <1>1, TcpInvAt
<1>3. /\ TcpAt(r, k, {}) /\ SameBut(r, wh, {"flags", "counted", "activecnt"}) /\ ~On(r, "READING")
      /\ Outstanding(r) = Outstanding(wh)
      /\ \A f : f \notin {"ACTIVE", "READING"} => (On(r, f) <=> On(wh, f))
  <2>1. CASE On(wh, "READING")
    <3>1. r = StopReading(wh)
      BY <2>1
    <3> HIDE DEF r, k
    <3> QED BY <1>2, <2>1, <3>1, StopAt
  <2>2. CASE ~On(wh, "READING")
    <3>1. r = wh
      BY <2>2
    <3> HIDE DEF r, k
    <3> QED BY <1>2, <2>2, <3>1 DEF SameBut
  <2> QED BY <2>1, <2>2
<1> HIDE DEF k, r
<1>4. /\ Core(r, TcpReqs, OneIf(k \in {"write", "other"}) + OneIf(r.shutdown_req))
      /\ DOMAIN r = TcpFields /\ ~On(r, "CLOSED") /\ r.activecnt \in Nat /\ r.active_reqs \in Nat
      /\ r.write_reqs_pending \in Nat /\ (On(r, "LISTENING") => r.activecnt > r.active_reqs)
  BY <1>3, AtCore
<1>5. r.shutdown_req = wh.shutdown_req
  BY <1>2, <1>3 DEF SameBut, TcpFields, BaseFields
<1>6. Core(r, TcpReqs, n)
  BY <1>4, <1>5
<1> HIDE DEF n
<1>7. /\ SameBut(a, r, {"accept_socket"}) /\ DOMAIN a = TcpFields /\ a.flags = r.flags
      /\ a.accept_socket = [x \in TcpAccepts |-> FALSE]
  <2>1. CASE On(wh, "CONNECTION")
    <3>1. a = r
      BY <2>1
    <3>2. r.listens = 0
      BY <1>3, <2>1 DEF TcpAt, TcpOk, TcpConnection
    <3>3. r.accept_socket \in [TcpAccepts -> BOOLEAN] /\ \A x \in TcpAccepts : ~r.accept_socket[x]
      BY <1>3, <3>2 DEF TcpAt, TcpOk, TcpServes, TcpTypes
    <3>4. r.accept_socket = [x \in TcpAccepts |-> FALSE]
      BY <3>3
    <3> HIDE DEF a
    <3> QED BY <1>4, <3>1, <3>4 DEF SameBut
  <2>2. CASE ~On(wh, "CONNECTION")
    <3>1. a = [r EXCEPT !.accept_socket = [x \in TcpAccepts |-> FALSE]]
      BY <2>2
    <3> HIDE DEF a
    <3> QED BY <1>4, <3>1 DEF SameBut, TcpFields, BaseFields
  <2> QED BY <2>1, <2>2
<1> HIDE DEF a
<1>8. Core(a, TcpReqs, n) /\ Outstanding(a) = Outstanding(r) /\ ~On(a, "CLOSED")
  BY <1>7, <1>4, <1>6, OtherCore DEF Alike, On, BaseFields
<1>9. a.activecnt = r.activecnt /\ a.active_reqs = r.active_reqs
  BY <1>4, <1>7 DEF SameBut, TcpFields, BaseFields
<1>10. /\ Core(l, TcpReqs, n) /\ Outstanding(l) = Outstanding(r) /\ DOMAIN l = TcpFields
       /\ SameBut(l, a, {"flags", "counted", "activecnt"}) /\ ~On(l, "LISTENING")
       /\ \A f : f \notin {"ACTIVE", "LISTENING"} => (On(l, f) <=> On(r, f))
       /\ l.activecnt = r.activecnt - OneIf(On(r, "LISTENING"))
  <2>1. CASE On(wh, "LISTENING")
    <3>1. l = DecActive(c)
      BY <2>1
    <3>2. /\ SameBut(c, a, {"flags"}) /\ \A f : On(c, f) <=> On(a, f) /\ f \notin {"LISTENING"}
      BY <1>7, FlagsSame DEF TcpFields, BaseFields
    <3> HIDE DEF c, l
    <3>3. Core(c, TcpReqs, n) /\ Outstanding(c) = Outstanding(a)
      BY <1>8, <3>2, OtherCore DEF Alike
    <3>4. c.activecnt = r.activecnt /\ On(r, "LISTENING")
      BY <1>3, <1>7, <1>9, <2>1, <3>2 DEF SameBut, TcpFields, BaseFields
    <3>5. c.activecnt > 0
      BY <1>4, <3>4
    <3>6. /\ Core(l, TcpReqs, n) /\ SameBut(l, c, {"flags", "counted", "activecnt"})
          /\ Outstanding(l) = Outstanding(c) /\ l.activecnt = c.activecnt - 1
          /\ \A f : f # "ACTIVE" => (On(l, f) <=> On(c, f))
      BY <3>1, <3>3, <3>5, DecCore
    <3>7. OneIf(On(r, "LISTENING")) = 1
      BY <3>4 DEF OneIf
    <3>8. SameBut(l, a, {"flags", "counted", "activecnt"}) /\ DOMAIN l = TcpFields
      BY <1>7, <3>2, <3>6 DEF SameBut
    <3>9. \A f : On(a, f) <=> On(r, f)
      BY <1>7 DEF On
    <3> QED BY <1>8, <3>2, <3>3, <3>4, <3>6, <3>7, <3>8, <3>9
  <2>2. CASE ~On(wh, "LISTENING")
    <3>1. l = a
      BY <2>2
    <3> HIDE DEF l
    <3>2. ~On(r, "LISTENING")
      BY <1>3, <2>2
    <3>3. OneIf(On(r, "LISTENING")) = 0
      BY <3>2 DEF OneIf
    <3>4. \A f : On(a, f) <=> On(r, f)
      BY <1>7 DEF On
    <3> QED BY <1>4, <1>7, <1>8, <1>9, <3>1, <3>2, <3>3, <3>4 DEF SameBut
  <2> QED BY <2>1, <2>2
<1> HIDE DEF l
<1>11. /\ l.socket = r.socket /\ l.write_reqs_pending = r.write_reqs_pending
  BY <1>4, <1>7, <1>10 DEF SameBut, TcpFields, BaseFields
<1>12. /\ SameBut(s, l, {"socket"}) /\ s.flags = l.flags /\ DOMAIN s = TcpFields /\ s.socket \in BOOLEAN
       /\ s.socket => r.write_reqs_pending > 0
  BY <1>10, <1>11 DEF SameBut, TcpFields, BaseFields
<1> HIDE DEF s
<1>13. /\ SameBut(q, s, {"flags"}) /\ \A f : On(q, f) <=> On(s, f) /\ f \notin {"READABLE", "WRITABLE"}
  BY <1>12, FlagsSame DEF TcpFields, BaseFields
<1> HIDE DEF q
<1>14. /\ SameBut(q, l, {"flags", "socket"}) /\ DOMAIN q = TcpFields
       /\ \A f : On(q, f) <=> On(l, f) /\ f \notin {"READABLE", "WRITABLE"}
  BY <1>12, <1>13 DEF On, SameBut
<1>15. Core(q, TcpReqs, n) /\ Outstanding(q) = Outstanding(r) /\ ~On(q, "CLOSING")
  BY <1>1, <1>3, <1>4, <1>10, <1>14, OtherCore DEF Alike, BaseFields
<1>16. /\ Core(wh', TcpReqs, n) /\ SameBut(wh', q, {"flags", "counted"}) /\ Outstanding(wh') = Outstanding(q)
       /\ \A f : f \notin {"ACTIVE", "CLOSING", "ENDGAME_QUEUED"} => (On(wh', f) <=> On(q, f))
       /\ On(wh', "CLOSING") /\ ~On(wh', "ACTIVE") /\ ~On(wh', "CLOSED")
       /\ wh'.reqs_pending = 0 \/ On(q, "ENDGAME_QUEUED") <=> On(wh', "ENDGAME_QUEUED")
  BY <1>1, <1>15, ClosingCore
<1> HIDE DEF h
<1>17. /\ wh'.socket = s.socket /\ wh'.accept_socket = [x \in TcpAccepts |-> FALSE]
       /\ wh'.activecnt = l.activecnt /\ DOMAIN wh' = TcpFields
  BY <1>7, <1>10, <1>12, <1>13, <1>14, <1>16 DEF SameBut, TcpFields, BaseFields
<1>18. /\ wh'.write_reqs_pending = r.write_reqs_pending /\ wh'.shutdown_req = r.shutdown_req
       /\ wh'.pending_accepts = r.pending_accepts
       /\ wh'.accept_reqs = r.accept_reqs /\ wh'.processed_accepts = r.processed_accepts
       /\ wh'.listens = r.listens /\ wh'.todo = r.todo /\ wh'.called = r.called
       /\ wh'.delayed_error = r.delayed_error /\ wh'.active_reqs = r.active_reqs
       /\ wh'.pc = wh.pc /\ wh'.cur = wh.cur
  BY <1>7, <1>10, <1>14, <1>16, <1>2, <1>3, <1>4 DEF SameBut, TcpFields, BaseFields
<1>19. /\ \A f : f \notin {"ACTIVE", "CLOSING", "ENDGAME_QUEUED", "LISTENING", "READABLE", "WRITABLE"}
                   => (On(wh', f) <=> On(r, f))
       /\ ~On(wh', "READABLE") /\ ~On(wh', "WRITABLE") /\ ~On(wh', "LISTENING") /\ ~On(wh', "READING")
       /\ On(r, "ENDGAME_QUEUED") => On(wh', "ENDGAME_QUEUED")
       /\ Outstanding(wh') = Outstanding(r)
  BY <1>3, <1>10, <1>14, <1>15, <1>16
<1>20. TcpCounts(wh', k)
  BY <1>5, <1>16, <1>18, <1>3, <1>19 DEF n, TcpAt, TcpOk, TcpCounts
<1>21. TcpTypes(wh')
  BY <1>12, <1>17, <1>3, <1>18 DEF TcpAt, TcpOk, TcpTypes
<1>22. TcpKeepsAlive(wh')
  BY <1>3, <1>4, <1>10, <1>17, <1>18, <1>19 DEF TcpAt, TcpOk, TcpKeepsAlive, OneIf
<1>23. TcpWritten(wh')
  BY <1>3, <1>18, <1>19 DEF TcpAt, TcpOk, TcpWritten
<1>24. TcpConnection(wh')
  BY <1>12, <1>17, <1>18, <1>3, <1>16, <1>19 DEF TcpAt, TcpOk, TcpConnection
<1>25. TcpServes(wh', {})
  BY <1>18, <1>19, <1>3, <1>16, <1>17 DEF TcpHeld, TcpAt, TcpOk, TcpServes
<1>26. TcpDue(wh', k) /\ TcpPc(wh') /\ TcpReads(wh') /\ TcpKind(wh') = k
  BY <1>16, <1>2, <1>3, <1>18, <1>19 DEF EndDue, TcpAt, TcpDue, TcpPc, TcpReads, TcpKind, k
<1> QED BY <1>20, <1>21, <1>22, <1>23, <1>24, <1>25, <1>26 DEF TcpInv, TcpOk

LEMMA TcpEndgameKeeps == ASSUME TcpInv, uv__tcp_endgame PROVE TcpInv'
<1> DEFINE h == Ending(wh)
           p == Unregister(h)
           g == [h EXCEPT !.accept_reqs = FALSE]
<1>1. CanEnd(wh) /\ wh' = IF On(h, "CONNECTION") /\ h.shutdown_req /\ h.write_reqs_pending = 0
                            THEN CallUser(p, "shutdown_cb", "shutdown")
                          ELSE IF EndDue(h) THEN HandleClose(g) ELSE h
  BY DEF uv__tcp_endgame
<1>2. wh.pc = "idle" /\ wh.cur = "none" /\ On(wh, "ENDGAME_QUEUED") /\ TcpKind(wh) = "none" /\ TcpReads(wh)
  BY <1>1 DEF CanEnd, TcpInv, TcpPc, TcpKind
<1>3. TcpOk(wh, "none", {}) /\ ~On(wh, "CLOSED")
  BY <1>2 DEF TcpInv, TcpOk, TcpCounts, Core, EndsOnce, CountSound
<1> DEFINE n == OneIf("none" \in {"write", "other"}) + OneIf(wh.shutdown_req)
<1>4. Core(wh, TcpReqs, n) /\ DOMAIN wh = TcpFields /\ TcpCounts(wh, "none") /\ TcpKeepsAlive(wh)
      /\ TcpConnection(wh)
  BY <1>3 DEF TcpOk, TcpCounts, TcpTypes
<1>5. n = OneIf(wh.shutdown_req)
  BY DEF OneIf
<1> HIDE DEF n
<1>6. /\ Core(h, TcpReqs, n) /\ SameBut(h, wh, {"flags"}) /\ Outstanding(h) = Outstanding(wh)
      /\ \A f : f # "ENDGAME_QUEUED" => (On(h, f) <=> On(wh, f))
      /\ ~On(h, "ENDGAME_QUEUED")
  BY <1>3, <1>4, QueuedCore
<1> HIDE DEF h
<1>7. /\ h.write_reqs_pending = wh.write_reqs_pending /\ h.shutdown_req = wh.shutdown_req
      /\ h.accept_socket = wh.accept_socket /\ h.pending_accepts = wh.pending_accepts
      /\ h.accept_reqs = wh.accept_reqs /\ h.processed_accepts = wh.processed_accepts
      /\ h.listens = wh.listens /\ h.todo = wh.todo /\ h.called = wh.called
      /\ h.socket = wh.socket /\ h.delayed_error = wh.delayed_error /\ h.pc = "idle" /\ h.cur = "none"
      /\ h.activecnt = wh.activecnt /\ h.active_reqs = wh.active_reqs /\ h.reqs_pending = wh.reqs_pending
      /\ DOMAIN h = TcpFields
  BY <1>2, <1>4, <1>6 DEF SameBut, TcpFields, BaseFields
<1>8. TcpOk(h, "none", {})
  BY <1>6, <1>3, TcpAlike DEF SameBut, n
<1>9. CASE On(h, "CONNECTION") /\ h.shutdown_req /\ h.write_reqs_pending = 0
  <2>1. wh' = CallUser(p, "shutdown_cb", "shutdown")
    BY <1>1, <1>9
  <2>2. n = 1 /\ ~On(h, "CLOSED")
    BY <1>3, <1>5, <1>6, <1>7, <1>9 DEF OneIf
  <2>3. h.active_reqs = Cardinality(Outstanding(h) \cap TcpActive) + 1
        /\ Cardinality(Outstanding(h) \cap TcpActive) \in Nat
    BY <1>8, <1>9, <1>6, PartMore DEF TcpOk, TcpCounts, OneIf, Core
  <2>4. h.activecnt \in Nat /\ h.activecnt >= h.active_reqs
    BY <1>4, <1>7, TcpSizes
  <2>5. h.activecnt > 0
    BY <2>3, <2>4
  <2>6. /\ Core(p, TcpReqs, n) /\ SameBut(p, h, {"flags", "counted", "activecnt", "active_reqs"})
        /\ Outstanding(p) = Outstanding(h) /\ p.activecnt = h.activecnt - 1
        /\ p.active_reqs = h.active_reqs - 1
        /\ \A f : f # "ACTIVE" => (On(p, f) <=> On(h, f))
    BY <1>6, <2>2, <2>5, UnregisterCore
  <2> HIDE DEF p
  <2>7. /\ SameBut(wh', p, {"pc", "cur"}) /\ wh'.pc = "shutdown_cb" /\ wh'.cur = "shutdown"
        /\ \A f : On(wh', f) <=> On(p, f)
    BY <2>6, <2>1, CallSame DEF Core
  <2>8. Core(wh', TcpReqs, n) /\ Outstanding(wh') = Outstanding(h)
    BY <2>2, <2>6, <2>7, OtherCore DEF Alike
  <2>9. /\ wh'.write_reqs_pending = h.write_reqs_pending /\ wh'.shutdown_req = h.shutdown_req
        /\ wh'.accept_socket = h.accept_socket /\ wh'.pending_accepts = h.pending_accepts
        /\ wh'.accept_reqs = h.accept_reqs /\ wh'.processed_accepts = h.processed_accepts
        /\ wh'.listens = h.listens /\ wh'.todo = h.todo /\ wh'.called = h.called
        /\ wh'.socket = h.socket /\ wh'.delayed_error = h.delayed_error
        /\ wh'.activecnt = h.activecnt - 1 /\ wh'.active_reqs = h.active_reqs - 1
        /\ DOMAIN wh' = TcpFields
    BY <1>7, <2>6, <2>7 DEF SameBut, TcpFields, BaseFields
  <2>10. \A f : f # "ACTIVE" => (On(wh', f) <=> On(h, f))
    BY <2>6, <2>7
  <2>11. TcpCounts(wh', "shutdown")
    BY <1>9, <2>2, <2>9, <2>8, <2>3, <1>8 DEF OneIf, TcpOk, TcpCounts
  <2>12. TcpTypes(wh')
    BY <1>8, <2>9 DEF TcpOk, TcpTypes
  <2>13. TcpKeepsAlive(wh')
    BY <1>8, <2>3, <2>4, <2>9, <2>10 DEF TcpOk, TcpKeepsAlive, OneIf
  <2>14. TcpWritten(wh') /\ TcpConnection(wh')
    BY <1>8, <2>8, <2>9, <2>10 DEF TcpOk, TcpWritten, TcpConnection
  <2>15. TcpServes(wh', {})
    BY <2>8, <2>9, <1>8, <2>10 DEF TcpHeld, TcpOk, TcpServes
  <2>16. TcpDue(wh', "shutdown") /\ TcpPc(wh') /\ TcpKind(wh') = "shutdown"
    BY <2>7, <2>11, TcpBusy DEF TcpDue, TcpPc, TcpKind
  <2>17. TcpReads(wh')
    BY <1>2, <1>6, <2>10 DEF TcpReads
  <2> QED BY <2>11, <2>12, <2>13, <2>14, <2>15, <2>16, <2>17 DEF TcpInv, TcpOk
<1>10. CASE ~(On(h, "CONNECTION") /\ h.shutdown_req /\ h.write_reqs_pending = 0)
  <2>1. ~(h.shutdown_req /\ h.write_reqs_pending = 0)
    BY <1>8, <1>10 DEF TcpOk, TcpConnection
  <2>2. CASE ~EndDue(h)
    BY <1>1, <1>10, <2>2, <1>7, <2>1, <1>2, <1>6, <1>8 DEF TcpDue, TcpPc, TcpKind, TcpReads, TcpInv
  <2>3. CASE EndDue(h)
    <3>1. wh' = HandleClose(g)
      BY <1>1, <1>10, <2>3
    <3>2. SameBut(g, h, {"accept_reqs"}) /\ g.flags = h.flags /\ g.accept_reqs = FALSE /\ g.pc = "idle"
          /\ DOMAIN g = TcpFields /\ g.reqs_pending = h.reqs_pending
      BY <1>7 DEF SameBut, TcpFields, BaseFields
    <3> HIDE DEF g
    <3>3. Core(g, TcpReqs, n) /\ Outstanding(g) = Outstanding(h) /\ ~On(g, "CLOSED")
      BY <1>3, <1>6, <3>2, OtherCore DEF Alike, On, BaseFields
    <3>4. /\ Core(wh', TcpReqs, 0) /\ n = 0 /\ SameBut(wh', g, {"flags", "counted", "ends"})
          /\ Outstanding(wh') = {} /\ Outstanding(g) = {} /\ On(wh', "CLOSED")
          /\ \A f : f # "CLOSED" => (On(wh', f) <=> On(g, f))
      BY <1>6, <2>3, <3>2, <3>1, <3>3, ClosedCore DEF EndDue, On
    <3>5. /\ wh'.write_reqs_pending = h.write_reqs_pending /\ wh'.shutdown_req = h.shutdown_req
          /\ wh'.accept_socket = h.accept_socket /\ wh'.pending_accepts = h.pending_accepts
          /\ wh'.processed_accepts = h.processed_accepts /\ wh'.accept_reqs = FALSE
          /\ wh'.listens = h.listens /\ wh'.todo = h.todo /\ wh'.called = h.called
          /\ wh'.socket = h.socket /\ wh'.delayed_error = h.delayed_error
          /\ wh'.activecnt = h.activecnt /\ wh'.active_reqs = h.active_reqs
          /\ DOMAIN wh' = TcpFields /\ wh'.pc = "idle" /\ wh'.cur = "none"
      BY <1>7, <3>2, <3>4 DEF SameBut, TcpFields, BaseFields
    <3>6. /\ \A f : f # "CLOSED" => (On(wh', f) <=> On(h, f))
          /\ On(h, "CLOSING") /\ Outstanding(wh') = Outstanding(h)
      BY <2>3, <3>2, <3>3, <3>4 DEF On, EndDue
    <3>7. ~h.shutdown_req
      BY <1>5, <1>7, <3>4 DEF OneIf
    <3>8. TcpCounts(wh', "none")
      BY <3>5, <3>7, <3>4, <1>8, <3>6 DEF OneIf, TcpOk, TcpCounts
    <3>9. TcpTypes(wh')
      BY <1>8, <3>5 DEF TcpOk, TcpTypes
    <3>10. TcpKeepsAlive(wh')
      BY <1>8, <3>5, <3>6 DEF TcpOk, TcpKeepsAlive, OneIf
    <3>11. TcpWritten(wh') /\ TcpConnection(wh')
      BY <1>8, <3>5, <3>6 DEF TcpOk, TcpWritten, TcpConnection
    <3>12. TcpServes(wh', {})
      BY <3>5, <3>6, <1>8 DEF TcpHeld, TcpOk, TcpServes
    <3>13. TcpDue(wh', "none") /\ TcpPc(wh') /\ TcpKind(wh') = "none"
      BY <3>4, <3>5, <3>7 DEF TcpDue, TcpPc, TcpKind
    <3>14. TcpReads(wh')
      BY <1>2, <1>6, <3>6 DEF TcpReads
    <3> QED BY <3>8, <3>9, <3>10, <3>11, <3>12, <3>13, <3>14 DEF TcpInv, TcpOk
  <2> QED BY <2>2, <2>3
<1> QED BY <1>9, <1>10

\* The accept requests a server holds
LEMMA HeldFinite ==
  ASSUME NEW h, TcpTypes(h), NEW some \in SUBSET TcpAccepts
  PROVE  /\ In(h.pending_accepts) \subseteq TcpAccepts /\ TcpHeld(h) \subseteq TcpAccepts
         /\ IsFiniteSet(TcpHeld(h) \cup some) /\ Cardinality(TcpHeld(h) \cup some) \in Nat
         /\ Cardinality(TcpHeld(h) \cup some) <= Len(TcpAcceptReqs)
         /\ IsFiniteSet(TcpHeld(h)) /\ Cardinality(TcpHeld(h)) \in Nat
         /\ Cardinality(TcpHeld(h)) <= Cardinality(TcpHeld(h) \cup some)
BY TcpFinite, FS_Subset, FS_CardinalityType, TcpAssumption DEF TcpTypes, In, TcpHeld

\* A server that does not listen is not asked for its requests.
LEMMA DropAt ==
  ASSUME NEW h, NEW k, NEW some \in SUBSET TcpAccepts, TcpAt(h, k, some), ~On(h, "LISTENING")
  PROVE  TcpAt(h, k, {})
<1>1. TcpTypes(h) /\ TcpServes(h, some) /\ h.processed_accepts \in Nat
  BY DEF TcpAt, TcpOk, TcpTypes
<1>2. /\ Cardinality(TcpHeld(h)) <= Cardinality(TcpHeld(h) \cup some) /\ Cardinality(TcpHeld(h)) \in Nat
      /\ Cardinality(TcpHeld(h) \cup some) \in Nat /\ TcpHeld(h) \cup {} = TcpHeld(h)
      /\ Len(TcpAcceptReqs) \in Nat
  BY <1>1, HeldFinite, TcpFinite
<1>3. On(h, "STATE_CHANGING") =>
        Cardinality(TcpHeld(h) \cup {}) + h.processed_accepts <= Len(TcpAcceptReqs)
  BY <1>1, <1>2 DEF TcpServes
<1>4. TcpServes(h, {})
  BY <1>1, <1>3 DEF TcpServes
<1> QED BY <1>4 DEF TcpAt, TcpOk

\* The handler of an accept has taken it.
LEMMA TakeAcceptAt ==
  ASSUME NEW h, TcpOk(h, "none", {}), TcpDue(h, "none"), NEW a \in TcpAccepts, a \in h.walk,
         NEW g, g = Handling(h, a)
  PROVE  /\ TcpAt(g, "other", {a}) /\ SameBut(g, h, {"walk"}) /\ a \notin TcpHeld(g)
         /\ a \notin Outstanding(g) /\ (\A f : On(g, f) <=> On(h, f))
         /\ g.pc = h.pc /\ g.cur = h.cur
<1> DEFINE n == OneIf(h.shutdown_req)
<1>1. Core(h, TcpReqs, n) /\ DOMAIN h = TcpFields /\ n \in Nat
  BY DEF OneIf, TcpOk, TcpCounts, TcpTypes
<1> HIDE DEF n
<1>2. /\ Core(g, TcpReqs, n + 1) /\ SameBut(g, h, {"walk"})
      /\ Outstanding(g) = Outstanding(h) \ {a} /\ ~On(h, "CLOSED") /\ a \in Outstanding(h)
  BY <1>1, TakenKeeps
<1>3. /\ g.write_reqs_pending = h.write_reqs_pending /\ g.shutdown_req = h.shutdown_req
      /\ g.accept_socket = h.accept_socket /\ g.pending_accepts = h.pending_accepts
      /\ g.accept_reqs = h.accept_reqs /\ g.processed_accepts = h.processed_accepts
      /\ g.listens = h.listens /\ g.todo = h.todo /\ g.called = h.called /\ g.socket = h.socket
      /\ g.delayed_error = h.delayed_error /\ g.active_reqs = h.active_reqs /\ g.flags = h.flags
      /\ g.activecnt = h.activecnt /\ g.pc = h.pc /\ g.cur = h.cur /\ DOMAIN g = TcpFields
  BY <1>1, <1>2 DEF SameBut, TcpFields, BaseFields
<1>4. \A f : On(g, f) <=> On(h, f)
  BY <1>3 DEF On
<1>5. a \notin TcpWrites /\ a \notin TcpActive /\ a # "connect" /\ a # "read"
  BY TcpAssumption DEF TcpActive
<1>6. TcpCounts(g, "other")
  BY <1>2, <1>5, <1>1, <1>3 DEF OneIf, n, TcpOk, TcpCounts
<1>7. TcpTypes(g) /\ TcpWritten(g) /\ TcpConnection(g)
  BY <1>2, <1>3, <1>4, <1>5 DEF TcpOk, TcpTypes, TcpWritten, TcpConnection
<1>8. TcpKeepsAlive(g)
  BY <1>3, <1>4 DEF TcpOk, TcpKeepsAlive, OneIf
<1>9. TcpServes(g, {a}) /\ a \notin TcpHeld(g)
  <2>1. a \notin In(h.pending_accepts)
    BY <1>2 DEF TcpOk, TcpServes
  <2>2. TcpHeld(g) \cup {a} = TcpHeld(h) \cup {} /\ a \notin TcpHeld(g) /\ TcpHeld(h) # {}
        /\ In(g.pending_accepts) \cap Outstanding(g) = {}
    BY <1>2, <1>3, <2>1 DEF TcpHeld, TcpOk, TcpServes
  <2>3. h.listens # 0
    BY <2>2 DEF TcpOk, TcpServes
  <2> QED BY <1>3, <1>4, <2>2, <2>3 DEF TcpOk, TcpServes
<1>10. TcpDue(g, "other") /\ ~On(g, "CLOSED")
  BY <1>2, <1>3, <1>4, <1>6, TcpBusy DEF TcpDue
<1> QED BY <1>2, <1>3, <1>4, <1>6, <1>7, <1>8, <1>9, <1>10 DEF TcpAt, TcpOk

\* uv__tcp_queue_accept(), for some requests
LEMMA QueueAcceptsCore ==
  ASSUME NEW h, NEW n, Core(h, TcpReqs, n), ~On(h, "CLOSED"), DOMAIN h = TcpFields,
         h.accept_socket \in [TcpAccepts -> BOOLEAN],
         NEW reqs \in SUBSET TcpAccepts, reqs \cap Outstanding(h) = {},
         NEW g \in QueueAccepts(h, reqs)
  PROVE  /\ Core(g, TcpReqs, n)
         /\ SameBut(g, h, {"accept_socket", "kernel", "pending", "ok", "reqs_pending"})
         /\ Outstanding(g) = Outstanding(h) \cup reqs /\ g.accept_socket \in [TcpAccepts -> BOOLEAN]
<1>1. PICK out \in [reqs -> {"refused", "done", "waits"}] :
        LET those(o) == {a \in reqs : out[a] = o}
        IN g = [h EXCEPT !.accept_socket = [a \in TcpAccepts |-> @[a] \/ (a \in reqs /\ out[a] # "refused")],
                !.kernel = @ \cup those("waits"), !.pending = @ \cup (reqs \ those("waits")),
                !.ok = (@ \ those("refused")) \cup those("done"),
                !.reqs_pending = @ + Cardinality(reqs)]
  BY DEF QueueAccepts
<1> DEFINE R == {a \in reqs : out[a] = "refused"}
           W == {a \in reqs : out[a] = "waits"}
           D == {a \in reqs : out[a] = "done"}
           S == [a \in TcpAccepts |-> h.accept_socket[a] \/ (a \in reqs /\ out[a] # "refused")]
<1>2. S \in [TcpAccepts -> BOOLEAN]
  OBVIOUS
<1>3. g = [h EXCEPT !.accept_socket = S, !.kernel = @ \cup W, !.pending = @ \cup (reqs \ W),
                    !.ok = (@ \ R) \cup D, !.reqs_pending = @ + Cardinality(reqs)]
  BY <1>1
<1>4. W \subseteq reqs
  OBVIOUS
<1> HIDE DEF R, W, D, S
<1>5. /\ SameBut(g, h, {"accept_socket", "kernel", "pending", "ok", "reqs_pending"})
      /\ g.kernel = h.kernel \cup W /\ g.pending = h.pending \cup (reqs \ W)
      /\ g.reqs_pending = h.reqs_pending + Cardinality(reqs) /\ g.accept_socket = S
  BY <1>3 DEF SameBut, TcpFields, BaseFields
<1>6. /\ g.walk = h.walk /\ g.flags = h.flags /\ g.counted = h.counted /\ g.ends = h.ends
      /\ g.activecnt = h.activecnt /\ g.pc = h.pc /\ DOMAIN g = TcpFields
  BY <1>5 DEF SameBut, TcpFields, BaseFields
<1>7. Outstanding(g) = Outstanding(h) \cup reqs
  BY <1>4, <1>5, <1>6 DEF Outstanding
<1>8. HeldOnce(g)
  BY <1>4, <1>5, <1>6 DEF Core, HeldOnce, Outstanding
<1>9. EndsOnce(g) /\ Kept(g)
  BY <1>6 DEF Core, EndsOnce, CountSound, Kept, On
<1>10. IsFiniteSet(reqs)
  BY TcpFinite, FS_Subset
<1>11. /\ IsFiniteSet(Outstanding(g)) /\ g.reqs_pending = Cardinality(Outstanding(g)) + n
  <2>1. Cardinality(Outstanding(g)) = Cardinality(Outstanding(h)) + Cardinality(reqs) - Cardinality({})
        /\ IsFiniteSet(Outstanding(g))
    BY <1>7, <1>10, FS_Union DEF Core
  <2>2. Cardinality({}) = 0 /\ Cardinality(Outstanding(h)) \in Nat /\ Cardinality(reqs) \in Nat
    BY <1>10, FS_EmptySet, FS_CardinalityType DEF Core
  <2> QED BY <1>5, <2>1, <2>2 DEF Core
<1>12. Core(g, TcpReqs, n)
  BY <1>6, <1>7, <1>8, <1>9, <1>11 DEF Core, TcpFields, TcpReqs
<1> QED BY <1>2, <1>5, <1>7, <1>12

\* The requests the handler had are out again.
LEMMA QueuedAt ==
  ASSUME NEW h, NEW k, NEW some \in SUBSET TcpAccepts, TcpAt(h, k, some), ~On(h, "CLOSING"),
         h.listens # 0, some \cap TcpHeld(h) = {},
         NEW g, Core(g, TcpReqs, OneIf(k \in {"write", "other"}) + OneIf(h.shutdown_req)),
         SameBut(g, h, {"accept_socket", "kernel", "pending", "ok", "reqs_pending"}),
         Outstanding(g) = Outstanding(h) \cup some, g.accept_socket \in [TcpAccepts -> BOOLEAN]
  PROVE  /\ TcpAt(g, k, {}) /\ g.pc = h.pc /\ g.cur = h.cur /\ \A f : On(g, f) <=> On(h, f)
<1>1. DOMAIN h = TcpFields /\ ~On(h, "CLOSED") /\ TcpTypes(h)
  BY AtCore DEF TcpAt, TcpOk
<1>2. /\ g.write_reqs_pending = h.write_reqs_pending /\ g.shutdown_req = h.shutdown_req
      /\ g.pending_accepts = h.pending_accepts
      /\ g.accept_reqs = h.accept_reqs /\ g.processed_accepts = h.processed_accepts
      /\ g.listens = h.listens /\ g.todo = h.todo /\ g.called = h.called /\ g.socket = h.socket
      /\ g.delayed_error = h.delayed_error /\ g.active_reqs = h.active_reqs /\ g.flags = h.flags
      /\ g.activecnt = h.activecnt /\ g.pc = h.pc /\ g.cur = h.cur /\ DOMAIN g = TcpFields
  BY <1>1 DEF SameBut, TcpFields, BaseFields
<1>3. \A f : On(g, f) <=> On(h, f)
  BY <1>2 DEF On
<1>4. some \cap TcpWrites = {} /\ "connect" \notin some /\ "read" \notin some
      /\ some \cap TcpActive = {}
  BY TcpAssumption DEF TcpActive
<1>5. TcpCounts(g, k)
  BY <1>4, <1>2 DEF TcpAt, TcpOk, TcpCounts
<1>6. TcpTypes(g)
  BY <1>2 DEF TcpAt, TcpOk, TcpTypes
<1>7. TcpWritten(g) /\ TcpConnection(g)
  BY <1>4, <1>2, <1>3 DEF TcpAt, TcpOk, TcpWritten, TcpConnection
<1>8. TcpKeepsAlive(g)
  BY <1>2, <1>3 DEF TcpAt, TcpOk, TcpKeepsAlive, OneIf
<1>9. TcpServes(g, {})
  BY <1>2, <1>3 DEF TcpHeld, TcpAt, TcpOk, TcpServes
<1>10. TcpDue(g, k)
  BY <1>2, <1>3 DEF TcpAt, TcpDue, EndDue
<1> QED BY <1>1, <1>2, <1>3, <1>5, <1>6, <1>7, <1>8, <1>9, <1>10 DEF TcpAt, TcpOk

\* What a server keeps is another.
LEMMA ServesAt ==
  ASSUME NEW h, NEW k, NEW some, NEW had, TcpAt(h, k, had), NEW g,
         SameBut(g, h, {"flags", "accept_socket", "pending_accepts", "processed_accepts"}),
         \A f : f \notin {"STATE_CHANGING", "SINGLE_ACCEPT"} => (On(g, f) <=> On(h, f)),
         TcpTypes(g), TcpServes(g, some)
  PROVE  TcpAt(g, k, some) /\ Outstanding(g) = Outstanding(h) /\ g.pc = h.pc /\ g.cur = h.cur
<1>1. /\ Core(h, TcpReqs, OneIf(k \in {"write", "other"}) + OneIf(h.shutdown_req))
      /\ DOMAIN h = TcpFields /\ ~On(h, "CLOSED")
  BY AtCore
<1>2. /\ Core(g, TcpReqs, OneIf(k \in {"write", "other"}) + OneIf(h.shutdown_req))
      /\ Outstanding(g) = Outstanding(h) /\ ~On(g, "CLOSED")
  BY <1>1, OtherCore DEF Alike, BaseFields
<1>3. /\ g.write_reqs_pending = h.write_reqs_pending /\ g.shutdown_req = h.shutdown_req
      /\ g.listens = h.listens /\ g.todo = h.todo /\ g.called = h.called /\ g.socket = h.socket
      /\ g.active_reqs = h.active_reqs /\ g.reqs_pending = h.reqs_pending
      /\ g.activecnt = h.activecnt /\ g.pc = h.pc /\ g.cur = h.cur /\ DOMAIN g = TcpFields
  BY <1>1 DEF SameBut, TcpFields, BaseFields
<1>4. TcpCounts(g, k)
  BY <1>2, <1>3 DEF TcpAt, TcpOk, TcpCounts
<1>5. TcpKeepsAlive(g)
  BY <1>3 DEF TcpAt, TcpOk, TcpKeepsAlive, OneIf
<1>6. TcpWritten(g) /\ TcpConnection(g)
  BY <1>2, <1>3 DEF TcpAt, TcpOk, TcpWritten, TcpConnection
<1>7. TcpDue(g, k)
  BY <1>3 DEF TcpAt, TcpDue, EndDue
<1> QED BY <1>2, <1>3, <1>4, <1>5, <1>6, <1>7 DEF TcpAt, TcpOk

LEMMA TcpSimultaneousKeeps == ASSUME TcpInv, uv_tcp_simultaneous_accepts PROVE TcpInv'
<1> DEFINE k == TcpKind(wh)
           some == {"SINGLE_ACCEPT"} \cup IF On(wh, "LISTENING") THEN {"STATE_CHANGING"} ELSE {}
<1>1. ~On(wh, "CLOSING") /\ ~On(wh, "SINGLE_ACCEPT") /\ wh' = Set(wh, some)
  BY DEF uv_tcp_simultaneous_accepts, Usable, Uses
<1>2. TcpAt(wh, k, {}) /\ TcpPc(wh) /\ TcpReads(wh) /\ DOMAIN wh = TcpFields
  BY <1>1, TcpInvAt
<1> HIDE DEF k
<1>3. SameBut(wh', wh, {"flags"}) /\ \A f : On(wh', f) <=> On(wh, f) \/ f \in some
  <2> HIDE DEF some
  <2> QED BY <1>1, <1>2, FlagsSame DEF TcpFields, BaseFields
<1>4. /\ \A f : f \notin {"STATE_CHANGING", "SINGLE_ACCEPT"} => (On(wh', f) <=> On(wh, f))
      /\ On(wh', "SINGLE_ACCEPT") /\ (On(wh', "STATE_CHANGING") <=> On(wh, "LISTENING"))
  <2>1. ~On(wh, "STATE_CHANGING")
    BY <1>1, <1>2 DEF TcpAt, TcpOk, TcpServes
  <2> QED BY <1>3, <2>1
<1> HIDE DEF some
<1>5. /\ wh'.accept_socket = wh.accept_socket /\ wh'.pending_accepts = wh.pending_accepts
      /\ wh'.accept_reqs = wh.accept_reqs /\ wh'.processed_accepts = wh.processed_accepts
      /\ wh'.listens = wh.listens /\ wh'.kernel = wh.kernel /\ wh'.pending = wh.pending
      /\ wh'.walk = wh.walk
  BY <1>2, <1>3 DEF SameBut, TcpFields, BaseFields
<1>6. TcpTypes(wh')
  BY <1>2, <1>3 DEF TcpAt, TcpOk, TcpTypes, SameBut, TcpFields, BaseFields
<1>7. TcpServes(wh', {})
  <2>1. Outstanding(wh') = Outstanding(wh) /\ TcpHeld(wh') = TcpHeld(wh) /\ TcpHeld(wh) \cup {} = TcpHeld(wh)
    BY <1>5 DEF TcpHeld, Outstanding
  <2>2. Len(TcpAcceptReqs) \in Nat \ {0} /\ Cardinality(TcpAccepts) = Len(TcpAcceptReqs)
    BY TcpFinite, TcpAssumption
  <2>3. /\ Cardinality(TcpHeld(wh)) <= Len(TcpAcceptReqs) /\ Cardinality(TcpHeld(wh)) \in Nat
    BY <1>2, <2>1, HeldFinite DEF TcpAt, TcpOk
  <2>4. wh.processed_accepts = 0
    BY <1>1, <1>2 DEF TcpAt, TcpOk, TcpServes
  <2>5. On(wh, "LISTENING") /\ wh.listens = 1 => TcpHeld(wh) = TcpAccepts
    BY <1>1, <1>2, <2>1 DEF TcpAt, TcpOk, TcpServes
  <2>6. wh.listens = 0 => ~On(wh, "LISTENING")
    BY <1>2 DEF TcpAt, TcpOk, TcpServes
  <2>7. On(wh, "LISTENING") /\ wh.listens = 1 => Cardinality(TcpHeld(wh)) = Len(TcpAcceptReqs)
    BY <2>2, <2>5
  <2> QED BY <1>2, <1>4, <1>5, <2>1, <2>2, <2>3, <2>4, <2>6, <2>7 DEF TcpAt, TcpOk, TcpServes
<1>8. TcpAt(wh', k, {}) /\ wh'.pc = wh.pc /\ wh'.cur = wh.cur
  BY <1>3, <1>2, <1>4, <1>6, <1>7, ServesAt DEF SameBut
<1>9. TcpPc(wh') /\ TcpReads(wh') /\ TcpKind(wh') = k
  BY <1>2, <1>4, <1>8 DEF TcpPc, TcpReads, TcpKind, k
<1> QED BY <1>8, <1>9 DEF TcpInv, TcpAt

\* uv__tcp_listen(), up to the requests it gives out
LEMMA ListenAt ==
  ASSUME NEW b, NEW k, TcpAt(b, k, {}), ~On(b, "CLOSING"), ~On(b, "CONNECTION"), b.socket,
         "connect" \notin Outstanding(b), b.listens < 2, NEW p,
         SameBut(p, b, {"flags", "accept_reqs", "listens"}), p.flags = b.flags \cup {"LISTENING"},
         p.accept_reqs = TRUE, p.listens = b.listens + 1,
         NEW g, g = IncActive(p), NEW some \in SUBSET TcpAccepts,
         b.accept_reqs => some = {},
         ~b.accept_reqs => some # {} /\ (~On(b, "SINGLE_ACCEPT") => some = TcpAccepts)
  PROVE  /\ TcpAt(g, k, some) /\ g.pc = b.pc /\ g.cur = b.cur /\ g.listens # 0 /\ ~On(g, "CLOSING")
         /\ (\A f : f \notin {"ACTIVE", "LISTENING"} => (On(g, f) <=> On(b, f)))
         /\ some \cap TcpHeld(g) = {}
<1> DEFINE n == OneIf(k \in {"write", "other"}) + OneIf(b.shutdown_req)
<1>1. Core(b, TcpReqs, n) /\ DOMAIN b = TcpFields /\ BaseFields \subseteq DOMAIN b
      /\ b.activecnt \in Nat /\ b.active_reqs \in Nat /\ ~On(b, "CLOSED") /\ b.listens \in 0 .. 2
  BY AtCore DEF TcpAt, TcpOk, TcpTypes
<1> HIDE DEF n
<1>2. /\ SameBut(p, b, {"flags", "accept_reqs", "listens"}) /\ p.flags = b.flags \cup {"LISTENING"}
      /\ p.accept_reqs = TRUE /\ p.listens = b.listens + 1
      /\ p.activecnt = b.activecnt /\ p.active_reqs = b.active_reqs /\ DOMAIN p = TcpFields
  BY <1>1 DEF SameBut, TcpFields, BaseFields
<1>3. \A f : On(p, f) <=> On(b, f) \/ f = "LISTENING"
  BY <1>2 DEF On
<1>4. Core(p, TcpReqs, n) /\ Outstanding(p) = Outstanding(b)
  BY <1>3, <1>1, <1>2, OtherCore DEF Alike, BaseFields
<1>5. /\ Core(g, TcpReqs, n) /\ SameBut(g, p, {"flags", "counted", "activecnt"})
      /\ Outstanding(g) = Outstanding(p) /\ g.activecnt = p.activecnt + 1
      /\ \A f : f # "ACTIVE" => (On(g, f) <=> On(p, f))
  BY <1>1, <1>2, <1>3, <1>4, IncCore
<1>6. /\ On(g, "LISTENING") /\ \A f : f \notin {"ACTIVE", "LISTENING"} => (On(g, f) <=> On(b, f))
  BY <1>3, <1>5
<1>7. /\ g.write_reqs_pending = b.write_reqs_pending /\ g.shutdown_req = b.shutdown_req
      /\ g.accept_socket = b.accept_socket /\ g.pending_accepts = b.pending_accepts
      /\ g.processed_accepts = b.processed_accepts
      /\ g.todo = b.todo /\ g.called = b.called /\ g.socket = b.socket
      /\ g.delayed_error = b.delayed_error /\ DOMAIN g = TcpFields /\ g.active_reqs = b.active_reqs
      /\ g.pc = b.pc /\ g.cur = b.cur /\ g.reqs_pending = b.reqs_pending
      /\ g.activecnt = b.activecnt + 1 /\ g.accept_reqs = TRUE /\ g.listens = b.listens + 1
  <2>1. SameBut(g, b, {"flags", "accept_reqs", "listens", "counted", "activecnt"}) /\ DOMAIN g = TcpFields
    BY <1>1, <1>2, <1>5 DEF SameBut
  <2>2. g.accept_reqs = p.accept_reqs /\ g.listens = p.listens /\ g.activecnt = p.activecnt + 1
    BY <1>2, <1>5 DEF SameBut, TcpFields, BaseFields
  <2>3. /\ g.write_reqs_pending = b.write_reqs_pending /\ g.shutdown_req = b.shutdown_req
        /\ g.accept_socket = b.accept_socket /\ g.pending_accepts = b.pending_accepts
        /\ g.processed_accepts = b.processed_accepts
        /\ g.todo = b.todo /\ g.called = b.called /\ g.socket = b.socket
        /\ g.delayed_error = b.delayed_error /\ g.active_reqs = b.active_reqs
        /\ g.pc = b.pc /\ g.cur = b.cur /\ g.reqs_pending = b.reqs_pending
    BY <1>1, <2>1 DEF SameBut, TcpFields, BaseFields
  <2> QED BY <1>2, <2>1, <2>2, <2>3
<1>8. Outstanding(g) = Outstanding(b) /\ TcpHeld(g) = TcpHeld(b)
  BY <1>4, <1>5, <1>7 DEF TcpHeld
<1>9. TcpKeepsAlive(g)
  BY <1>1, <1>7, <1>6 DEF TcpAt, TcpOk, TcpServes, TcpKeepsAlive, OneIf
<1>10. TcpCounts(g, k)
  BY <1>5, <1>7, <1>8 DEF TcpAt, TcpOk, TcpCounts, n
<1>11. TcpTypes(g)
  <2>0. g.listens = b.listens + 1 /\ b.listens \in 0 .. 2 /\ b.listens < 2
    BY <1>1, <1>7
  <2>2. b.listens = 0 \/ b.listens = 1
    BY <2>0
  <2>3. g.listens = 1 \/ g.listens = 2
    BY <2>0, <2>2
  <2>4. g.listens \in 0 .. 2
    BY <2>3
  <2>5. g.accept_reqs \in BOOLEAN
    BY <1>7
  <2> QED BY <1>7, <2>4, <2>5 DEF TcpAt, TcpOk, TcpTypes
<1>12. TcpWritten(g)
  BY <1>7, <1>8 DEF TcpAt, TcpOk, TcpWritten
<1>13. TcpConnection(g)
  BY <1>6, <1>7, <1>8 DEF TcpAt, TcpOk, TcpConnection
<1>14. TcpServes(g, some) /\ some \cap TcpHeld(g) = {}
  <2>1. (b.listens = 0 => ~b.accept_reqs) /\ (b.listens > 0 => b.accept_reqs)
    BY DEF TcpAt, TcpOk, TcpServes
  <2>2. CASE b.listens = 0
    BY <2>2, <2>1, <1>7, <1>8, <1>6 DEF TcpAt, TcpOk, TcpServes, TcpHeld
  <2>3. CASE b.listens # 0
    <3>1. b.listens > 0 /\ g.listens > 1
      BY <1>1, <1>7, <2>3
    <3>2. some = {}
      BY <2>1, <3>1
    <3>3. TcpHeld(g) \cup some = TcpHeld(b) \cup {} /\ some \cap TcpHeld(g) = {}
      BY <1>8, <3>2
    <3>4. TcpServes(b, {})
      BY DEF TcpAt, TcpOk
    <3>5. g.listens # 0 /\ g.listens # 1 /\ In(g.pending_accepts) \cap Outstanding(g) = {}
      BY <1>7, <1>8, <3>1, <3>4 DEF TcpServes
    <3>6. /\ On(g, "CLOSING") <=> On(b, "CLOSING")
          /\ On(g, "STATE_CHANGING") <=> On(b, "STATE_CHANGING")
          /\ On(g, "SINGLE_ACCEPT") <=> On(b, "SINGLE_ACCEPT")
      BY <1>6
    <3>7. TcpServes(g, some)
      BY <1>7, <3>3, <3>4, <3>5, <3>6 DEF TcpServes
    <3> QED BY <3>3, <3>7
  <2> QED BY <2>2, <2>3
<1>15. TcpDue(g, k) /\ ~On(g, "CLOSED")
  BY <1>1, <1>6, <1>7 DEF TcpAt, TcpDue, EndDue
<1>16. g.listens # 0
  BY <1>1, <1>7
<1> QED BY <1>6, <1>7, <1>9, <1>10, <1>11, <1>12, <1>13, <1>14, <1>15, <1>16 DEF TcpAt, TcpOk

LEMMA TcpListenKeeps == ASSUME TcpInv, uv__tcp_listen PROVE TcpInv'
<1> DEFINE k == TcpKind(wh)
           reqs == IF On(wh, "SINGLE_ACCEPT") THEN {TcpAcceptReqs[1]} ELSE TcpAccepts
           some == IF wh.accept_reqs THEN {} ELSE reqs
<1>1. /\ ~On(wh, "CLOSING") /\ ~On(wh, "READING") /\ ~On(wh, "CONNECTION") /\ wh.listens < 2
      /\ "connect" \notin Outstanding(wh)
  BY DEF uv__tcp_listen, Usable, Uses
<1>2. TcpAt(wh, k, {}) /\ TcpPc(wh) /\ TcpReads(wh) /\ DOMAIN wh = TcpFields
  BY <1>1, TcpInvAt
<1>3. PICK b \in IF On(wh, "BOUND") THEN {wh} ELSE TryBind(wh) :
        \/ wh' = b
        \/ LET h == IncActive([Set(b, {"LISTENING"}) EXCEPT !.accept_reqs = TRUE, !.listens = @ + 1])
           IN IF wh.accept_reqs THEN wh' = h ELSE wh' \in QueueAccepts(h, reqs)
  BY DEF uv__tcp_listen, Uses
<1>4. some \in SUBSET TcpAccepts
  BY TcpFinite
<1> HIDE DEF k
<1>5. /\ TcpAt(b, k, {}) /\ ~On(b, "CLOSING") /\ b.socket
      /\ (\A f : f # "BOUND" => (On(b, f) <=> On(wh, f)))
      /\ Outstanding(b) = Outstanding(wh) /\ b.pc = wh.pc /\ b.cur = wh.cur
      /\ b.listens = wh.listens /\ b.accept_reqs = wh.accept_reqs
  BY <1>1, <1>2, TryBindKeeps DEF TcpAt, TcpOk, TcpConnection, SameBut, TcpFields
<1> DEFINE p == [Set(b, {"LISTENING"}) EXCEPT !.accept_reqs = TRUE, !.listens = @ + 1]
           h == IncActive(p)
<1> HIDE DEF reqs
<1>6. \/ wh' = b
      \/ wh' = h /\ wh.accept_reqs
      \/ wh' \in QueueAccepts(h, some) /\ ~wh.accept_reqs
  BY <1>3
<1>7. /\ TcpAt(h, k, some) /\ h.pc = wh.pc /\ h.cur = wh.cur /\ h.listens # 0 /\ ~On(h, "CLOSING")
      /\ (\A f : f \notin {"ACTIVE", "LISTENING"} => (On(h, f) <=> On(b, f)))
      /\ some \cap TcpHeld(h) = {}
  <2>1. /\ b.accept_reqs => some = {}
        /\ ~b.accept_reqs => some # {} /\ (~On(b, "SINGLE_ACCEPT") => some = TcpAccepts)
    BY <1>5, TcpFinite DEF reqs
  <2>2. /\ ~On(b, "CONNECTION") /\ "connect" \notin Outstanding(b) /\ b.listens < 2
    BY <1>1, <1>5
  <2>4. /\ SameBut(p, b, {"flags", "accept_reqs", "listens"}) /\ p.flags = b.flags \cup {"LISTENING"}
        /\ p.accept_reqs = TRUE /\ p.listens = b.listens + 1 /\ h = IncActive(p)
    BY <1>5, AtCore DEF Set, SameBut, TcpFields, BaseFields
  <2> HIDE DEF some, p, h
  <2>3. /\ TcpAt(h, k, some) /\ h.pc = b.pc /\ h.cur = b.cur /\ h.listens # 0 /\ ~On(h, "CLOSING")
        /\ (\A f : f \notin {"ACTIVE", "LISTENING"} => (On(h, f) <=> On(b, f)))
        /\ some \cap TcpHeld(h) = {}
    BY <1>4, <1>5, <2>1, <2>2, <2>4, ListenAt
  <2> QED BY <1>5, <2>3
<1> HIDE DEF p, h
<1>8. /\ TcpAt(wh', k, {}) /\ wh'.pc = wh.pc /\ wh'.cur = wh.cur
      /\ \A f : f \notin {"ACTIVE", "LISTENING", "BOUND"} => (On(wh', f) <=> On(wh, f))
  <2>1. CASE wh' = b
    BY <1>5, <2>1
  <2>2. CASE wh' = h /\ wh.accept_reqs
    BY <2>2, <1>5, <1>7
  <2>3. CASE wh' \in QueueAccepts(h, some) /\ ~wh.accept_reqs
    <3> HIDE DEF some
    <3> DEFINE n == OneIf(k \in {"write", "other"}) + OneIf(h.shutdown_req)
    <3>1. /\ Core(h, TcpReqs, n) /\ DOMAIN h = TcpFields /\ ~On(h, "CLOSED")
          /\ h.accept_socket \in [TcpAccepts -> BOOLEAN] /\ some \cap Outstanding(h) = {}
      BY <1>4, <1>7, AtCore DEF TcpAt, TcpOk, TcpTypes, TcpHeld
    <3> HIDE DEF n
    <3>2. /\ Core(wh', TcpReqs, n)
          /\ SameBut(wh', h, {"accept_socket", "kernel", "pending", "ok", "reqs_pending"})
          /\ Outstanding(wh') = Outstanding(h) \cup some /\ wh'.accept_socket \in [TcpAccepts -> BOOLEAN]
      BY <1>4, <2>3, <3>1, QueueAcceptsCore
    <3>3. TcpAt(wh', k, {}) /\ wh'.pc = h.pc /\ wh'.cur = h.cur /\ \A f : On(wh', f) <=> On(h, f)
      BY <1>4, <1>7, <3>2, QueuedAt DEF n
    <3> QED BY <1>5, <1>7, <3>3
  <2> QED BY <1>6, <2>1, <2>2, <2>3
<1>9. TcpPc(wh') /\ TcpReads(wh') /\ TcpKind(wh') = k
  BY <1>2, <1>8 DEF TcpPc, TcpReads, TcpKind, k
<1> QED BY <1>8, <1>9 DEF TcpInv, TcpAt

\* A server stops to listen.
LEMMA StopListenAt ==
  ASSUME NEW h, NEW k, NEW some \in SUBSET TcpAccepts, TcpAt(h, k, some), On(h, "LISTENING"),
         NEW g, g = DecActive(Clear(h, {"LISTENING"}))
  PROVE  /\ TcpAt(g, k, {}) /\ g.pc = h.pc /\ g.cur = h.cur
         /\ \A f : f \notin {"ACTIVE", "LISTENING"} => (On(g, f) <=> On(h, f))
<1> DEFINE n == OneIf(k \in {"write", "other"}) + OneIf(h.shutdown_req)
           p == Clear(h, {"LISTENING"})
<1>1. Core(h, TcpReqs, n) /\ DOMAIN h = TcpFields /\ BaseFields \subseteq DOMAIN h
      /\ h.activecnt \in Nat /\ h.active_reqs \in Nat /\ ~On(h, "CLOSED") /\ h.activecnt > h.active_reqs
  BY AtCore
<1> HIDE DEF n
<1>2. /\ SameBut(p, h, {"flags"}) /\ \A f : On(p, f) <=> On(h, f) /\ f \notin {"LISTENING"}
  BY <1>1, FlagsSame DEF BaseFields
<1>3. g = DecActive(p)
  OBVIOUS
<1> HIDE DEF p
<1>4. Core(p, TcpReqs, n) /\ Outstanding(p) = Outstanding(h)
  BY <1>1, <1>2, OtherCore DEF Alike
<1>5. p.activecnt = h.activecnt /\ p.active_reqs = h.active_reqs
  BY <1>1, <1>2 DEF SameBut, TcpFields, BaseFields
<1>6. /\ Core(g, TcpReqs, n) /\ SameBut(g, p, {"flags", "counted", "activecnt"})
      /\ Outstanding(g) = Outstanding(p) /\ g.activecnt = p.activecnt - 1
      /\ \A f : f # "ACTIVE" => (On(g, f) <=> On(p, f))
  BY <1>1, <1>5, <1>3, <1>4, DecCore
<1>7. /\ SameBut(g, h, {"flags", "counted", "activecnt"}) /\ Outstanding(g) = Outstanding(h)
      /\ ~On(g, "LISTENING") /\ \A f : f \notin {"ACTIVE", "LISTENING"} => (On(g, f) <=> On(h, f))
  BY <1>2, <1>4, <1>6 DEF SameBut
<1>8. /\ g.write_reqs_pending = h.write_reqs_pending /\ g.shutdown_req = h.shutdown_req
      /\ g.accept_socket = h.accept_socket /\ g.pending_accepts = h.pending_accepts
      /\ g.accept_reqs = h.accept_reqs /\ g.processed_accepts = h.processed_accepts
      /\ g.listens = h.listens /\ g.todo = h.todo /\ g.called = h.called /\ g.socket = h.socket
      /\ g.delayed_error = h.delayed_error /\ DOMAIN g = TcpFields /\ g.active_reqs = h.active_reqs
      /\ g.reqs_pending = h.reqs_pending /\ g.activecnt = h.activecnt - 1
      /\ g.pc = h.pc /\ g.cur = h.cur
  BY <1>1, <1>5, <1>6, <1>7 DEF SameBut, TcpFields, BaseFields
<1>9. TcpKeepsAlive(g)
  BY <1>1, <1>7, <1>8 DEF TcpAt, TcpOk, TcpKeepsAlive, OneIf
<1>10. TcpCounts(g, k)
  BY <1>6, <1>7, <1>8 DEF TcpAt, TcpOk, TcpCounts, n
<1>11. TcpTypes(g) /\ TcpWritten(g) /\ TcpConnection(g)
  BY <1>7, <1>8 DEF TcpAt, TcpOk, TcpTypes, TcpWritten, TcpConnection
<1>12. TcpServes(g, some)
  BY <1>7, <1>8 DEF TcpHeld, TcpAt, TcpOk, TcpServes
<1>13. TcpDue(g, k) /\ ~On(g, "CLOSED")
  BY <1>1, <1>7, <1>8 DEF TcpAt, TcpDue, EndDue
<1>14. TcpAt(g, k, some)
  BY <1>9, <1>10, <1>11, <1>12, <1>13 DEF TcpAt, TcpOk
<1> QED BY <1>7, <1>8, <1>14, DropAt

LEMMA TcpProcessAcceptKeeps ==
  ASSUME NEW a \in TcpAccepts, TcpInv, ProcessAccept(a)
  PROVE  TcpInv'
<1> DEFINE h == Handling(wh, a)
           stopped == DecActive(Clear(h, {"LISTENING"}))
           retry == [h EXCEPT !.accept_socket[a] = FALSE]
           offered == [h EXCEPT !.pending_accepts = <<a>> \o @]
<1>1. /\ TcpOk(wh, "none", {}) /\ TcpDue(wh, "none") /\ a \in wh.walk /\ wh.pc = "idle" /\ wh.cur = "none"
      /\ TcpReads(wh)
  BY DEF TcpInv, ProcessAccept, CanHandle, TcpKind, TcpPc
<1>2. /\ TcpAt(h, "other", {a}) /\ SameBut(h, wh, {"walk"}) /\ a \notin TcpHeld(h)
      /\ a \notin Outstanding(h) /\ (\A f : On(h, f) <=> On(wh, f))
      /\ h.pc = "idle" /\ h.cur = "none"
  BY <1>1, TakeAcceptAt
<1>3. \/ wh' = CallUser(stopped, "accept_cb", a) /\ On(h, "LISTENING")
      \/ wh' = DecPending(h) /\ ~On(h, "LISTENING")
      \/ wh' = CallUser(offered, "accept_cb", a) /\ h.accept_socket[a]
      \/ wh' = DecPending(retry) /\ ~On(h, "LISTENING")
      \/ \E g \in QueueAccept(retry, a) : wh' = DecPending(g) /\ h.accept_socket[a]
  BY DEF ProcessAccept
<1>4. (On(h, "READING") => On(h, "READ_PENDING")) /\ DOMAIN h = TcpFields /\ {a} \in SUBSET TcpAccepts
  BY <1>1, <1>2, AtCore DEF TcpReads
<1>5. CASE wh' = CallUser(stopped, "accept_cb", a) /\ On(h, "LISTENING")
  <2>1. stopped = DecActive(Clear(h, {"LISTENING"}))
    OBVIOUS
  <2> HIDE DEF h, stopped
  <2>2. TcpAt(stopped, "other", {})
        /\ \A f : f \notin {"ACTIVE", "LISTENING"} => (On(stopped, f) <=> On(h, f))
    BY <1>2, <1>4, <1>5, <2>1, StopListenAt
  <2>3. TcpAt(wh', "other", {}) /\ wh'.pc = "accept_cb" /\ wh'.cur = a /\ \A f : On(wh', f) <=> On(stopped, f)
    BY <1>5, <2>2, CalledAt
  <2> QED BY <1>4, <2>2, <2>3 DEF TcpInv, TcpAt, TcpPc, TcpKind, TcpReads
<1> HIDE DEF h
<1>6. CASE wh' = DecPending(h) /\ ~On(h, "LISTENING")
  BY <1>2, <1>4, <1>6, DropAt, OffAt DEF TcpInv
<1>7. h.accept_socket[a] => h.listens # 0 /\ ~On(h, "CLOSING")
  BY <1>2 DEF TcpAt, TcpOk, TcpServes
<1>8. h.accept_socket \in [TcpAccepts -> BOOLEAN] /\ h.pending_accepts \in Seq(TcpAccepts)
      /\ NoDup(h.pending_accepts) /\ TcpTypes(h) /\ TcpServes(h, {a}) /\ a \notin In(h.pending_accepts)
  BY <1>2 DEF TcpAt, TcpOk, TcpTypes, TcpHeld
<1>9. CASE wh' = CallUser(offered, "accept_cb", a) /\ h.accept_socket[a]
  <2>1. /\ SameBut(offered, h, {"pending_accepts"}) /\ offered.pending_accepts = <<a>> \o h.pending_accepts
        /\ DOMAIN offered = TcpFields
    BY <1>4 DEF SameBut, TcpFields, BaseFields
  <2> HIDE DEF offered
  <2>2. /\ offered.pending_accepts \in Seq(TcpAccepts) /\ NoDup(offered.pending_accepts)
        /\ In(offered.pending_accepts) = In(h.pending_accepts) \cup {a}
    BY <1>8, <2>1, InsertHead
  <2>3. /\ offered.flags = h.flags /\ offered.socket = h.socket /\ offered.delayed_error = h.delayed_error
        /\ offered.shutdown_req = h.shutdown_req /\ offered.accept_reqs = h.accept_reqs
        /\ offered.accept_socket = h.accept_socket /\ offered.listens = h.listens
        /\ offered.processed_accepts = h.processed_accepts
        /\ offered.kernel = h.kernel /\ offered.pending = h.pending /\ offered.walk = h.walk
    BY <1>4, <2>1 DEF SameBut, TcpFields, BaseFields
  <2>4. TcpTypes(offered)
    BY <1>8, <2>1, <2>2, <2>3 DEF TcpTypes
  <2>5. \A f : On(offered, f) <=> On(h, f)
    BY <2>3 DEF On
  <2>6. TcpServes(offered, {})
    <3>1. Outstanding(offered) = Outstanding(h)
      BY <2>3 DEF Outstanding
    <3>2. TcpHeld(offered) \cup {} = TcpHeld(h) \cup {a}
      BY <2>2, <3>1 DEF TcpHeld
    <3>3. In(offered.pending_accepts) \cap Outstanding(offered) = {}
      BY <1>2, <1>8, <2>2, <3>1 DEF TcpServes
    <3> QED BY <1>7, <1>8, <1>9, <2>3, <2>5, <3>2, <3>3 DEF TcpServes
  <2>7. TcpAt(offered, "other", {})
    BY <2>1, <1>2, <2>4, <2>5, <2>6, ServesAt DEF SameBut
  <2>8. TcpAt(wh', "other", {}) /\ wh'.pc = "accept_cb" /\ wh'.cur = a /\ \A f : On(wh', f) <=> On(offered, f)
    BY <1>9, <2>7, CalledAt
  <2> QED BY <1>4, <2>5, <2>8 DEF TcpInv, TcpAt, TcpPc, TcpKind, TcpReads
<1>10. /\ SameBut(retry, h, {"accept_socket"}) /\ retry.accept_socket \in [TcpAccepts -> BOOLEAN]
       /\ (\A x \in TcpAccepts : retry.accept_socket[x] => h.accept_socket[x])
       /\ DOMAIN retry = TcpFields
  <2>1. SameBut(retry, h, {"accept_socket"}) /\ DOMAIN retry = TcpFields
        /\ retry.accept_socket = [h.accept_socket EXCEPT ![a] = FALSE]
    BY <1>4 DEF SameBut, TcpFields, BaseFields
  <2> HIDE DEF retry
  <2>2. retry.accept_socket \in [TcpAccepts -> BOOLEAN]
    BY <1>8, <2>1
  <2>3. \A x \in TcpAccepts : retry.accept_socket[x] => h.accept_socket[x]
    BY <1>8, <2>1
  <2> QED BY <2>1, <2>2, <2>3
<1> HIDE DEF retry
<1>11. /\ TcpAt(retry, "other", {a}) /\ retry.pc = "idle" /\ retry.cur = "none" /\ retry.listens = h.listens
       /\ (\A f : On(retry, f) <=> On(h, f)) /\ TcpHeld(retry) = TcpHeld(h) /\ Outstanding(retry) = Outstanding(h)
  <2>1. /\ retry.flags = h.flags /\ retry.socket = h.socket /\ retry.delayed_error = h.delayed_error
        /\ retry.shutdown_req = h.shutdown_req /\ retry.accept_reqs = h.accept_reqs
        /\ retry.pending_accepts = h.pending_accepts /\ retry.listens = h.listens
        /\ retry.processed_accepts = h.processed_accepts
        /\ retry.kernel = h.kernel /\ retry.pending = h.pending /\ retry.walk = h.walk
    BY <1>4, <1>10 DEF SameBut, TcpFields, BaseFields
  <2>2. TcpTypes(retry)
    BY <1>8, <1>10, <2>1 DEF TcpTypes
  <2>3. \A f : On(retry, f) <=> On(h, f)
    BY <2>1 DEF On
  <2>4. TcpServes(retry, {a}) /\ TcpHeld(retry) = TcpHeld(h)
    BY <2>1, <1>8, <1>10, <2>3 DEF Outstanding, TcpHeld, TcpServes
  <2>5. SameBut(retry, h, {"flags", "accept_socket", "pending_accepts", "processed_accepts"})
    BY <1>10 DEF SameBut
  <2>6. TcpAt(retry, "other", {a}) /\ Outstanding(retry) = Outstanding(h) /\ retry.pc = h.pc /\ retry.cur = h.cur
    BY <1>2, <2>2, <2>3, <2>4, <2>5, ServesAt
  <2> QED BY <1>2, <2>1, <2>3, <2>4, <2>6
<1>12. CASE wh' = DecPending(retry) /\ ~On(h, "LISTENING")
  BY <1>4, <1>11, <1>12, DropAt, OffAt DEF TcpInv
<1>13. ASSUME NEW g \in QueueAccept(retry, a), wh' = DecPending(g), h.accept_socket[a]
       PROVE  TcpInv'
  <2> DEFINE n == OneIf("other" \in {"write", "other"}) + OneIf(retry.shutdown_req)
  <2>1. /\ Core(retry, TcpReqs, n) /\ DOMAIN retry = TcpFields /\ ~On(retry, "CLOSED")
        /\ {a} \cap Outstanding(retry) = {} /\ {a} \cap TcpHeld(retry) = {}
        /\ retry.listens # 0 /\ ~On(retry, "CLOSING") /\ g \in QueueAccepts(retry, {a})
    BY <1>2, <1>7, <1>11, <1>13, AtCore DEF QueueAccept
  <2> HIDE DEF n
  <2>2. /\ Core(g, TcpReqs, n)
        /\ SameBut(g, retry, {"accept_socket", "kernel", "pending", "ok", "reqs_pending"})
        /\ Outstanding(g) = Outstanding(retry) \cup {a} /\ g.accept_socket \in [TcpAccepts -> BOOLEAN]
    BY <1>4, <1>10, <2>1, QueueAcceptsCore
  <2>3. TcpAt(g, "other", {}) /\ g.pc = "idle" /\ g.cur = "none" /\ \A f : On(g, f) <=> On(retry, f)
    BY <1>4, <1>11, <2>1, <2>2, QueuedAt DEF n
  <2>4. On(g, "READING") => On(g, "READ_PENDING")
    BY <1>4, <1>11, <2>3
  <2>5. TcpOk(wh', "none", {}) /\ TcpPc(wh') /\ TcpDue(wh', "none") /\ TcpReads(wh') /\ TcpKind(wh') = "none"
    BY <1>13, <2>3, <2>4, OffAt
  <2> QED BY <2>5 DEF TcpInv
<1> QED BY <1>3, <1>5, <1>6, <1>9, <1>12, <1>13

\* The connection the user accepts is no longer offered.
LEMMA PoppedAt ==
  ASSUME NEW k, TcpAt(wh, k, {}), wh.pending_accepts # <<>>, wh.accept_socket[Head(wh.pending_accepts)],
         NEW a, a = Head(wh.pending_accepts),
         NEW h, SameBut(h, wh, {"pending_accepts", "accept_socket"}),
         h.pending_accepts = Tail(wh.pending_accepts),
         h.accept_socket = [wh.accept_socket EXCEPT ![a] = FALSE]
  PROVE  /\ a \in TcpAccepts /\ TcpAt(h, k, {a}) /\ a \notin TcpHeld(h) /\ TcpHeld(h) \cup {a} = TcpHeld(wh)
         /\ h.pc = wh.pc /\ h.cur = wh.cur /\ h.listens = wh.listens /\ h.listens # 0 /\ ~On(h, "CLOSING")
         /\ h.processed_accepts = wh.processed_accepts /\ DOMAIN h = TcpFields
         /\ \A f : On(h, f) <=> On(wh, f)
<1>1. /\ TcpTypes(wh) /\ TcpServes(wh, {}) /\ DOMAIN wh = TcpFields
      /\ wh.pending_accepts \in Seq(TcpAccepts) /\ NoDup(wh.pending_accepts)
      /\ wh.accept_socket \in [TcpAccepts -> BOOLEAN]
  BY DEF TcpAt, TcpOk, TcpTypes
<1>2. /\ h.pending_accepts \in Seq(TcpAccepts) /\ a \in In(wh.pending_accepts)
      /\ In(h.pending_accepts) = In(wh.pending_accepts) \ {a} /\ NoDup(h.pending_accepts)
  BY <1>1, TakeHead
<1>3. a \in TcpAccepts /\ wh.accept_socket[a] /\ a \notin Outstanding(wh)
  BY <1>1, <1>2 DEF In, TcpServes
<1>4. wh.listens # 0 /\ ~On(wh, "CLOSING")
  BY <1>1, <1>3 DEF TcpServes
<1>5. /\ h.accept_socket \in [TcpAccepts -> BOOLEAN]
      /\ \A x \in TcpAccepts : h.accept_socket[x] => wh.accept_socket[x]
  BY <1>1
<1>6. /\ h.flags = wh.flags /\ h.socket = wh.socket /\ h.delayed_error = wh.delayed_error
      /\ h.shutdown_req = wh.shutdown_req /\ h.accept_reqs = wh.accept_reqs /\ h.listens = wh.listens
      /\ h.processed_accepts = wh.processed_accepts
      /\ h.kernel = wh.kernel /\ h.pending = wh.pending /\ h.walk = wh.walk /\ DOMAIN h = TcpFields
  BY <1>1 DEF SameBut, TcpFields, BaseFields
<1>7. TcpTypes(h)
  BY <1>1, <1>2, <1>5, <1>6 DEF TcpTypes
<1>8. (\A f : On(h, f) <=> On(wh, f)) /\ Outstanding(h) = Outstanding(wh)
  BY <1>6 DEF On, Outstanding
<1>9. a \notin TcpHeld(h) /\ TcpHeld(h) \cup {a} = TcpHeld(wh) /\ TcpHeld(wh) = TcpHeld(wh) \cup {}
      /\ In(h.pending_accepts) \cap Outstanding(h) = {}
  BY <1>1, <1>2, <1>3, <1>8 DEF TcpHeld, TcpServes
<1>10. TcpServes(h, {a})
  BY <1>1, <1>4, <1>5, <1>6, <1>8, <1>9 DEF TcpServes
<1>11. SameBut(h, wh, {"flags", "accept_socket", "pending_accepts", "processed_accepts"})
  BY DEF SameBut
<1>12. TcpAt(h, k, {a}) /\ h.pc = wh.pc /\ h.cur = wh.cur
  BY <1>7, <1>8, <1>10, <1>11, ServesAt
<1> QED BY <1>3, <1>4, <1>6, <1>8, <1>9, <1>12

\* A server that changes to one request has used another for the last time.
LEMMA ProcessedAt ==
  ASSUME NEW k, NEW h, NEW a \in TcpAccepts, TcpAt(h, k, {a}), a \notin TcpHeld(h),
         h.listens # 0, ~On(h, "CLOSING"), On(h, "STATE_CHANGING"),
         NEW g, SameBut(g, h, {"processed_accepts"}), g.processed_accepts = h.processed_accepts + 1,
         g.processed_accepts < Len(TcpAcceptReqs)
  PROVE  TcpAt(g, k, {}) /\ g.pc = h.pc /\ g.cur = h.cur /\ \A f : On(g, f) <=> On(h, f)
<1>1. TcpTypes(h) /\ TcpServes(h, {a}) /\ DOMAIN h = TcpFields /\ {a} \in SUBSET TcpAccepts
      /\ h.processed_accepts \in Nat
  BY DEF TcpAt, TcpOk, TcpTypes
<1>2. /\ g.flags = h.flags /\ g.socket = h.socket /\ g.delayed_error = h.delayed_error
      /\ g.shutdown_req = h.shutdown_req /\ g.accept_reqs = h.accept_reqs /\ g.listens = h.listens
      /\ g.accept_socket = h.accept_socket /\ g.pending_accepts = h.pending_accepts
      /\ g.kernel = h.kernel /\ g.pending = h.pending /\ g.walk = h.walk /\ DOMAIN g = TcpFields
  BY <1>1 DEF SameBut, TcpFields, BaseFields
<1>3. TcpTypes(g)
  BY <1>1, <1>2 DEF TcpTypes
<1>4. (\A f : On(g, f) <=> On(h, f)) /\ Outstanding(g) = Outstanding(h) /\ TcpHeld(g) = TcpHeld(h)
  BY <1>2 DEF On, Outstanding, TcpHeld
<1>5. /\ Cardinality(TcpHeld(h) \cup {a}) = Cardinality(TcpHeld(h)) + 1 /\ Cardinality(TcpHeld(h)) \in Nat
      /\ TcpHeld(g) \cup {} = TcpHeld(h) /\ Len(TcpAcceptReqs) \in Nat
  BY <1>1, <1>4, HeldFinite, OneMore, TcpFinite
<1>6. TcpServes(g, {})
  BY <1>1, <1>2, <1>4, <1>5 DEF TcpServes
<1>7. SameBut(g, h, {"flags", "accept_socket", "pending_accepts", "processed_accepts"})
  BY DEF SameBut
<1> QED BY <1>3, <1>4, <1>6, <1>7, ServesAt

\* And at the end it has only one.
LEMMA ChangedAt ==
  ASSUME NEW k, NEW h, NEW a \in TcpAccepts, TcpAt(h, k, {a}), a \notin TcpHeld(h),
         h.listens # 0, ~On(h, "CLOSING"), On(h, "STATE_CHANGING"),
         h.processed_accepts + 1 >= Len(TcpAcceptReqs), NEW r \in TcpAccepts,
         NEW c, SameBut(c, h, {"processed_accepts", "flags"}), c.processed_accepts = 0,
         c.flags = h.flags \ {"STATE_CHANGING"}
  PROVE  TcpAt(c, k, {r}) /\ c.pc = h.pc /\ c.cur = h.cur /\ TcpHeld(h) = {} /\ TcpHeld(c) = {}
         /\ Outstanding(c) = Outstanding(h)
         /\ \A f : f # "STATE_CHANGING" => (On(c, f) <=> On(h, f))
<1>1. TcpTypes(h) /\ TcpServes(h, {a}) /\ DOMAIN h = TcpFields /\ {a} \in SUBSET TcpAccepts
      /\ h.processed_accepts \in Nat
  BY DEF TcpAt, TcpOk, TcpTypes
<1>2. /\ c.socket = h.socket /\ c.delayed_error = h.delayed_error
      /\ c.shutdown_req = h.shutdown_req /\ c.accept_reqs = h.accept_reqs /\ c.listens = h.listens
      /\ c.accept_socket = h.accept_socket /\ c.pending_accepts = h.pending_accepts
      /\ c.kernel = h.kernel /\ c.pending = h.pending /\ c.walk = h.walk /\ DOMAIN c = TcpFields
  BY <1>1 DEF SameBut, TcpFields, BaseFields
<1>3. TcpTypes(c)
  BY <1>1, <1>2 DEF TcpTypes
<1>4. /\ \A f : f # "STATE_CHANGING" => (On(c, f) <=> On(h, f))
      /\ ~On(c, "STATE_CHANGING") /\ Outstanding(c) = Outstanding(h) /\ TcpHeld(c) = TcpHeld(h)
  BY <1>2 DEF On, Outstanding, TcpHeld
<1>5. /\ Cardinality(TcpHeld(h) \cup {a}) = Cardinality(TcpHeld(h)) + 1 /\ Cardinality(TcpHeld(h)) \in Nat
      /\ IsFiniteSet(TcpHeld(h)) /\ Len(TcpAcceptReqs) \in Nat
  BY <1>1, HeldFinite, OneMore, TcpFinite
<1>6. Cardinality(TcpHeld(h) \cup {a}) + h.processed_accepts <= Len(TcpAcceptReqs) /\ On(h, "SINGLE_ACCEPT")
  BY <1>1 DEF TcpServes
<1>7. TcpHeld(h) = {}
  BY <1>1, <1>5, <1>6, FS_EmptySet
<1>8. TcpServes(c, {r})
  BY <1>4, <1>6, <1>1, <1>2 DEF TcpServes
<1>9. SameBut(c, h, {"flags", "accept_socket", "pending_accepts", "processed_accepts"})
  BY DEF SameBut
<1>10. \A f : f \notin {"STATE_CHANGING", "SINGLE_ACCEPT"} => (On(c, f) <=> On(h, f))
  BY <1>4
<1> QED BY <1>3, <1>4, <1>7, <1>8, <1>9, <1>10, ServesAt

LEMMA TcpAcceptKeeps == ASSUME TcpInv, uv__tcp_accept PROVE TcpInv'
<1> DEFINE k == TcpKind(wh)
           a == Head(wh.pending_accepts)
           h == [wh EXCEPT !.pending_accepts = Tail(@), !.accept_socket[a] = FALSE]
           n == h.processed_accepts + 1
           end == n >= Len(TcpAcceptReqs)
           g == [h EXCEPT !.processed_accepts = IF end THEN 0 ELSE n]
           r == TcpAcceptReqs[1]
<1>1. wh.pending_accepts # <<>> /\ wh.accept_socket[a]
  BY DEF uv__tcp_accept
<1>2. \/ wh' = h /\ On(wh, "CLOSING")
      \/ wh' \in QueueAccepts(h, {a}) /\ ~On(wh, "CLOSING")
      \/ end /\ On(wh, "STATE_CHANGING") /\ \E x \in QueueAccepts(g, {r}) : wh' = Clear(x, {"STATE_CHANGING"})
      \/ ~end /\ On(wh, "STATE_CHANGING") /\ wh' = g
  BY DEF uv__tcp_accept, Uses, QueueAccept
<1>3. ~On(wh, "CLOSING")
  <2>1. TcpServes(wh, {}) /\ wh.pending_accepts \in Seq(TcpAccepts)
    BY DEF TcpInv, TcpOk, TcpTypes
  <2>2. a \in TcpAccepts
    BY <1>1, <2>1
  <2> HIDE DEF a
  <2> QED BY <1>1, <2>1, <2>2 DEF TcpServes
<1>4. TcpAt(wh, k, {}) /\ TcpPc(wh) /\ TcpReads(wh) /\ DOMAIN wh = TcpFields
  BY <1>3, TcpInvAt
<1>5. /\ SameBut(h, wh, {"pending_accepts", "accept_socket"})
      /\ h.pending_accepts = Tail(wh.pending_accepts)
      /\ h.accept_socket = [wh.accept_socket EXCEPT ![a] = FALSE]
  BY <1>4 DEF SameBut, TcpFields, BaseFields
<1> HIDE DEF k
<1>6. /\ a \in TcpAccepts /\ TcpAt(h, k, {a}) /\ a \notin TcpHeld(h) /\ TcpHeld(h) \cup {a} = TcpHeld(wh)
      /\ h.pc = wh.pc /\ h.cur = wh.cur /\ h.listens = wh.listens /\ h.listens # 0 /\ ~On(h, "CLOSING")
      /\ h.processed_accepts = wh.processed_accepts /\ DOMAIN h = TcpFields
      /\ \A f : On(h, f) <=> On(wh, f)
  <2> HIDE DEF h
  <2> QED BY <1>1, <1>4, <1>5, PoppedAt
<1> HIDE DEF a, h
<1>7. /\ Core(h, TcpReqs, OneIf(k \in {"write", "other"}) + OneIf(h.shutdown_req)) /\ ~On(h, "CLOSED")
      /\ h.accept_socket \in [TcpAccepts -> BOOLEAN] /\ h.processed_accepts \in Nat
  BY <1>6, AtCore DEF TcpAt, TcpOk, TcpTypes
<1>8. r \in TcpAccepts /\ Len(TcpAcceptReqs) \in Nat
  BY TcpFinite
<1> HIDE DEF r
<1>9. SUFFICES /\ TcpAt(wh', k, {}) /\ wh'.pc = wh.pc /\ wh'.cur = wh.cur
               /\ \A f : f # "STATE_CHANGING" => (On(wh', f) <=> On(wh, f))
  BY <1>4 DEF TcpInv, TcpAt, TcpPc, TcpReads, TcpKind, k
<1>10. CASE wh' \in QueueAccepts(h, {a})
  <2> DEFINE m == OneIf(k \in {"write", "other"}) + OneIf(h.shutdown_req)
  <2>1. Core(h, TcpReqs, m) /\ {a} \in SUBSET TcpAccepts /\ {a} \cap TcpHeld(h) = {} /\ {a} \cap Outstanding(h) = {}
    BY <1>6, <1>7 DEF TcpHeld
  <2> HIDE DEF m
  <2>2. /\ Core(wh', TcpReqs, m)
        /\ SameBut(wh', h, {"accept_socket", "kernel", "pending", "ok", "reqs_pending"})
        /\ Outstanding(wh') = Outstanding(h) \cup {a} /\ wh'.accept_socket \in [TcpAccepts -> BOOLEAN]
    BY <1>6, <1>7, <1>10, <2>1, QueueAcceptsCore
  <2>3. TcpAt(wh', k, {}) /\ wh'.pc = h.pc /\ wh'.cur = h.cur /\ \A f : On(wh', f) <=> On(h, f)
    BY <1>6, <2>1, <2>2, QueuedAt DEF m
  <2> QED BY <1>6, <2>3
<1>11. SameBut(g, h, {"processed_accepts"}) /\ g.processed_accepts = (IF end THEN 0 ELSE n)
       /\ DOMAIN g = TcpFields
  BY <1>6 DEF SameBut, TcpFields, BaseFields
<1>12. CASE ~end /\ On(wh, "STATE_CHANGING") /\ wh' = g
  <2>1. /\ SameBut(wh', h, {"processed_accepts"}) /\ wh'.processed_accepts = h.processed_accepts + 1
        /\ wh'.processed_accepts < Len(TcpAcceptReqs)
    BY <1>7, <1>8, <1>11, <1>12
  <2>2. On(h, "STATE_CHANGING")
    BY <1>6, <1>12
  <2> HIDE DEF g, n, end
  <2>3. TcpAt(wh', k, {}) /\ wh'.pc = h.pc /\ wh'.cur = h.cur /\ \A f : On(wh', f) <=> On(h, f)
    BY <1>6, <2>1, <2>2, ProcessedAt
  <2> QED BY <1>6, <2>3
<1> DEFINE c == Clear(g, {"STATE_CHANGING"})
<1>13. ASSUME end, On(wh, "STATE_CHANGING"), NEW x \in QueueAccepts(g, {r}),
              wh' = Clear(x, {"STATE_CHANGING"})
       PROVE  /\ TcpAt(wh', k, {}) /\ wh'.pc = wh.pc /\ wh'.cur = wh.cur
              /\ \A f : f # "STATE_CHANGING" => (On(wh', f) <=> On(wh, f))
  <2> DEFINE m == OneIf(k \in {"write", "other"}) + OneIf(h.shutdown_req)
  <2>0. h.processed_accepts + 1 >= Len(TcpAcceptReqs) /\ g.processed_accepts = 0
    BY <1>11, <1>13
  <2>1. /\ SameBut(c, h, {"processed_accepts", "flags"}) /\ c.processed_accepts = 0
        /\ c.flags = h.flags \ {"STATE_CHANGING"} /\ DOMAIN c = TcpFields
        /\ SameBut(c, g, {"flags"}) /\ g.flags = h.flags
    <3> HIDE DEF g
    <3> QED BY <1>6, <1>11, <2>0 DEF Clear, SameBut, TcpFields, BaseFields
  <2> HIDE DEF g, c, end
  <2>2. /\ TcpAt(c, k, {r}) /\ c.pc = h.pc /\ c.cur = h.cur /\ TcpHeld(h) = {} /\ TcpHeld(c) = {}
        /\ Outstanding(c) = Outstanding(h)
        /\ \A f : f # "STATE_CHANGING" => (On(c, f) <=> On(h, f))
    BY <1>6, <1>8, <1>13, <2>0, <2>1, ChangedAt
  <2>3. Core(h, TcpReqs, m)
    BY <1>7
  <2>4. /\ g.accept_socket = h.accept_socket /\ g.shutdown_req = h.shutdown_req
        /\ c.shutdown_req = h.shutdown_req /\ c.listens = h.listens /\ c.kernel = h.kernel /\ c.pending = h.pending
    BY <1>6, <1>11, <2>1 DEF SameBut, TcpFields, BaseFields
  <2> HIDE DEF m
  <2>5. Core(g, TcpReqs, m) /\ Outstanding(g) = Outstanding(h) /\ ~On(g, "CLOSED")
    BY <2>1, <1>7, <1>11, <2>3, OtherCore DEF Alike, On, BaseFields
  <2>6. {r} \in SUBSET TcpAccepts /\ {r} \cap Outstanding(g) = {} /\ {r} \cap TcpHeld(c) = {}
    BY <1>8, <2>2, <2>5 DEF TcpHeld
  <2>7. /\ Core(x, TcpReqs, m)
        /\ SameBut(x, g, {"accept_socket", "kernel", "pending", "ok", "reqs_pending"})
        /\ Outstanding(x) = Outstanding(g) \cup {r} /\ x.accept_socket \in [TcpAccepts -> BOOLEAN]
    BY <1>7, <1>11, <1>13, <2>4, <2>5, <2>6, QueueAcceptsCore
  <2>8. /\ SameBut(wh', x, {"flags"}) /\ wh'.flags = x.flags \ {"STATE_CHANGING"} /\ DOMAIN x = TcpFields
        /\ x.flags = g.flags
    BY <1>11, <1>13, <2>7 DEF Clear, SameBut, TcpFields, BaseFields
  <2>9. /\ SameBut(wh', c, {"accept_socket", "kernel", "pending", "ok", "reqs_pending"})
        /\ wh'.accept_socket \in [TcpAccepts -> BOOLEAN]
    BY <2>8, <2>1, <1>11, <2>7 DEF SameBut, TcpFields, BaseFields
  <2>10. Core(wh', TcpReqs, m) /\ Outstanding(wh') = Outstanding(c) \cup {r}
    BY <2>8, <2>5, <2>7, <2>2, OtherCore DEF Alike, On, BaseFields
  <2>11. ~On(c, "CLOSING") /\ c.listens # 0
    BY <1>6, <2>2, <2>4
  <2>12. Core(wh', TcpReqs, OneIf(k \in {"write", "other"}) + OneIf(c.shutdown_req))
    BY <2>4, <2>10 DEF m
  <2>13. TcpAt(wh', k, {}) /\ wh'.pc = c.pc /\ wh'.cur = c.cur /\ \A f : On(wh', f) <=> On(c, f)
    BY <2>2, <2>6, <2>9, <2>10, <2>11, <2>12, QueuedAt
  <2> QED BY <1>6, <2>2, <2>13
<1> QED BY <1>2, <1>3, <1>10, <1>12, <1>13

LEMMA TcpNextKeeps == ASSUME TcpInv, WinTcpNext PROVE TcpInv'
<1>1. CASE \E w \in TcpWrites : uv__tcp_write(w) \/ ProcessWrite(w)
  BY <1>1, TcpWriteKeeps, TcpProcessWriteKeeps
<1>2. CASE \E a \in TcpAccepts : ProcessAccept(a)
  BY <1>2, TcpProcessAcceptKeeps
<1>3. CASE uv__tcp_bind \/ uv_tcp_open \/ uv__tcp_xfer_import
  BY <1>3, TcpOpenKeeps
<1>4. CASE ReadTurn \/ ReadAgain
  BY <1>4, TcpReadTurnKeeps
<1>5. CASE TcpCompletes \/ TcpWalk
  BY <1>5, TcpAnswersKeep
<1>6. CASE uv__tcp_connect \/ uv__tcp_read_start \/ uv_read_stop \/ uv_shutdown \/ uv__tcp_listen
  BY <1>6, TcpConnectKeeps, TcpReadStartKeeps, TcpReadStopKeeps, TcpShutdownKeeps, TcpListenKeeps
<1>7. CASE uv_tcp_simultaneous_accepts \/ uv__tcp_accept \/ ProcessConnect \/ ProcessRead
  BY <1>7, TcpSimultaneousKeeps, TcpAcceptKeeps, TcpProcessConnectKeeps, TcpProcessReadKeeps
<1>8. CASE ReadDone \/ WriteDone \/ CallbackDone \/ uv__tcp_close \/ uv__tcp_endgame \/ ShutdownDone
  BY <1>8, TcpReadDoneKeeps, TcpWriteDoneKeeps, TcpCallbackDoneKeeps, TcpCloseKeeps, TcpEndgameKeeps,
     TcpShutdownDoneKeeps
<1> QED BY <1>1, <1>2, <1>3, <1>4, <1>5, <1>6, <1>7, <1>8 DEF WinTcpNext

-----------------------------------------------------------------------------
(* A connection over a pipe.                                               *)

PipeFields ==
  BaseFields \cup {"ipc", "pipe", "write_reqs_pending", "shutdown_req", "writes", "thread", "reader",
                   "spin", "result", "timer", "input", "avail", "payload_remaining", "ipc_xfer_queue",
                   "frames", "early", "writer", "todo", "called"}

PipeReqs == PipeWrites \cup {"connect", "read", "shutdown"}
PipeActive == PipeWrites \cup {"connect", "shutdown"}

Chunk == [header : BOOLEAN, length : {0, 2}, xfer : BOOLEAN]

PipeTypes(h) ==
  /\ DOMAIN h = PipeFields
  /\ h.ipc \in BOOLEAN /\ h.pipe \in BOOLEAN /\ h.shutdown_req \in BOOLEAN /\ h.early \in BOOLEAN
  /\ h.writer \in BOOLEAN
  /\ h.thread \in {"null", "thread", "invalid"} /\ h.reader \in {"none", "start", "reading", "leaving"}
  /\ h.spin \in {"none", "close", "stop", "name", "error"} /\ h.result \in {"ok", "error", "aborted"}
  /\ h.timer \in {"none", "on", "idle"}
  /\ h.writes \in Seq(PipeWrites) /\ NoDup(h.writes)

\* What is counted where a handler of the kind k has taken its request: a write,
\* a connect or a shutdown, or none.  A write in the list is counted.
PipeCounts(h, k) ==
  /\ Core(h, PipeReqs, Len(h.writes) + OneIf(k # "none") + OneIf(h.shutdown_req))
  /\ h.write_reqs_pending = Cardinality(Outstanding(h) \cap PipeWrites) + Len(h.writes) + OneIf(k = "write")
  /\ h.active_reqs = Cardinality(Outstanding(h) \cap PipeActive) + Len(h.writes) + OneIf(h.shutdown_req)
  /\ h.activecnt = h.active_reqs + OneIf(On(h, "READING"))

\* Every write is to be made, in the list, out, or answered; one in the list has
\* one before it.
PipeWritten(h, k) ==
  /\ h.todo \subseteq PipeWrites
  /\ h.todo \cap (Outstanding(h) \cup In(h.writes)) = {} /\ In(h.writes) \cap Outstanding(h) = {}
  /\ h.writer => h.todo \cup h.called \cup (Outstanding(h) \cap PipeWrites) \cup In(h.writes) = PipeWrites
  /\ h.writes # <<>> => Threaded(h) /\ (k = "write" \/ Outstanding(h) \cap PipeWrites # {})

\* What a pipe is open for
PipeLinked(h) ==
  /\ "connect" \in Outstanding(h) =>
       ~On(h, "CONNECTION") /\ (h.pipe <=> "connect" \in h.ok \ h.kernel)
  /\ h.pipe => On(h, "CONNECTION") \/ "connect" \in Outstanding(h)
  /\ On(h, "SHUTTING") => On(h, "CONNECTION")
  /\ On(h, "CONNECTION") /\ ~h.pipe => On(h, "SHUTTING") \/ On(h, "CLOSING")
  /\ On(h, "CLOSING") /\ On(h, "SHUTTING") => ~On(h, "READABLE")
  /\ On(h, "CLOSING") /\ ~h.early => ~h.pipe /\ "connect" \notin Outstanding(h)
  /\ "shutdown" \in Outstanding(h) \/ h.shutdown_req => On(h, "SHUTTING") /\ (h.pipe \/ On(h, "CLOSING"))
  /\ h.shutdown_req => "shutdown" \notin Outstanding(h)
  /\ h.timer # "none" => /\ h.pipe /\ On(h, "SHUTTING") /\ ~On(h, "CLOSING")
                         /\ "shutdown" \notin Outstanding(h) /\ ~h.shutdown_req
  /\ h.timer = "on" => On(h, "READ_PENDING")
  /\ On(h, "READING") => h.pipe /\ On(h, "CONNECTION") /\ On(h, "READABLE") /\ ~On(h, "CLOSING")
  /\ On(h, "READ_PENDING") => /\ On(h, "CONNECTION")
                              /\ On(h, "READABLE") \/ On(h, "CLOSING")
                              /\ On(h, "CLOSING") => ~h.pipe
  /\ On(h, "READ_PENDING") <=> "read" \in Outstanding(h)

\* The thread that reads is interrupted before the pipe is closed.
PipeReader(h) ==
  /\ h.reader # "none" => On(h, "READ_PENDING") /\ "read" \in h.kernel /\ Threaded(h)
  /\ h.reader = "reading" <=> h.thread = "thread"
  /\ h.reader = "reading" => h.pipe
  /\ h.reader = "leaving" => h.thread = "invalid"
  /\ h.reader = "start" /\ h.thread # "invalid" => h.pipe
  /\ On(h, "CANCELLATION_PENDING") =>
       On(h, "READ_PENDING") /\ h.reader # "reading" /\ (h.reader = "start" => h.thread = "invalid")
  /\ h.spin # "none" => /\ h.reader \in {"reading", "leaving"} /\ h.pipe
                        /\ ~On(h, "CLOSING") /\ ~On(h, "CANCELLATION_PENDING")
  /\ h.spin = "close" => ~On(h, "READING")

\* The first n pieces of q are the rest of a frame, and then there are whole ones.
Frames(q, n) ==
  /\ q \in Seq(Chunk) /\ n \in 0 .. Len(q)
  /\ \A i \in 1 .. n : ~q[i].header
  /\ n < Len(q) => q[n + 1].header
  /\ \A i \in 1 .. Len(q) : q[i].header =>
       /\ i + q[i].length <= Len(q)
       /\ \A j \in i + 1 .. i + q[i].length : ~q[j].header
       /\ i + q[i].length < Len(q) => q[i + q[i].length + 1].header

PipeInput(h) ==
  /\ h.input \in Seq(Chunk) /\ h.avail \in 0 .. Len(h.input)
  /\ h.ipc => Frames(h.input, h.payload_remaining)
  /\ On(h, "CLOSED") => h.ipc_xfer_queue = 0

PipeOk(h, k) ==
  PipeTypes(h) /\ PipeCounts(h, k) /\ PipeWritten(h, k) /\ PipeLinked(h) /\ PipeReader(h) /\ PipeInput(h)

\* Who is waited for has somebody to go on with it.
PipeDue(h) ==
  /\ h.shutdown_req /\ h.write_reqs_pending = 0 => On(h, "ENDGAME_QUEUED")
  /\ EndDue(h) /\ ~On(h, "CLOSED") => On(h, "ENDGAME_QUEUED")

PipePc(h) ==
  /\ \/ h.pc = "idle" /\ h.cur = "none"
     \/ h.pc = "connect_cb" /\ h.cur = "connect"
     \/ h.pc \in {"read_loop", "read_cb", "eof_cb", "timer_cb"} /\ h.cur = "none"
     \/ h.pc = "write_cb" /\ h.cur \in PipeWrites
     \/ h.pc = "shutdown_cb" /\ h.cur = "shutdown"
  /\ h.spin = "error" => h.pc = "read_loop"
  /\ h.pc = "read_loop" /\ h.spin # "none" => h.spin = "error" /\ ~On(h, "READING")
  /\ On(h, "READING") /\ ~On(h, "READ_PENDING") => h.pc \in {"read_loop", "read_cb"}

PipeKind(h) ==
  IF h.pc = "write_cb" THEN "write" ELSE IF h.pc \in {"connect_cb", "shutdown_cb"} THEN "other" ELSE "none"

PipeInv == PipeOk(wh, PipeKind(wh)) /\ PipeDue(wh) /\ PipePc(wh)

LEMMA PipeSizes ==
  ASSUME NEW h, NEW k, PipeTypes(h), PipeCounts(h, k)
  PROVE  /\ DOMAIN h = PipeFields /\ BaseFields \subseteq DOMAIN h
         /\ Cardinality(Outstanding(h) \cap PipeWrites) \in Nat
         /\ Cardinality(Outstanding(h) \cap PipeActive) \in Nat
         /\ Cardinality(Outstanding(h)) \in Nat /\ IsFiniteSet(Outstanding(h))
         /\ Len(h.writes) \in Nat /\ h.write_reqs_pending \in Nat /\ h.active_reqs \in Nat
         /\ h.activecnt \in Nat /\ h.activecnt >= h.active_reqs
         /\ (On(h, "READING") => h.activecnt > h.active_reqs)
         /\ h.reqs_pending \in Nat
         /\ Core(h, PipeReqs, Len(h.writes) + OneIf(k # "none") + OneIf(h.shutdown_req))
<1>1. IsFiniteSet(Outstanding(h)) /\ DOMAIN h = PipeFields /\ Len(h.writes) \in Nat
  BY DEF PipeCounts, Core, PipeTypes
<1>2. /\ Cardinality(Outstanding(h) \cap PipeWrites) \in Nat
      /\ Cardinality(Outstanding(h) \cap PipeActive) \in Nat
      /\ Cardinality(Outstanding(h)) \in Nat
  BY <1>1, FS_CardinalityType, FS_Subset
<1>3. h.write_reqs_pending \in Nat /\ h.active_reqs \in Nat
  BY SMTT(30), <1>1, <1>2 DEF PipeCounts, OneIf
<1>4. h.reqs_pending \in Nat
  <2>1. h.reqs_pending = Cardinality(Outstanding(h)) + (Len(h.writes) + OneIf(k # "none") + OneIf(h.shutdown_req))
    BY DEF PipeCounts, Core
  <2>2. OneIf(k # "none") \in Nat /\ OneIf(h.shutdown_req) \in Nat
    BY DEF OneIf
  <2> QED BY <1>1, <1>2, <2>1, <2>2
<1>5. h.activecnt \in Nat /\ h.activecnt >= h.active_reqs /\ (On(h, "READING") => h.activecnt > h.active_reqs)
  BY <1>3 DEF PipeCounts, OneIf
<1>6. BaseFields \subseteq DOMAIN h
  BY <1>1 DEF PipeFields
<1> QED BY <1>1, <1>2, <1>3, <1>4, <1>5, <1>6 DEF PipeCounts

LEMMA PipeInitInv == WinPipeInit => PipeInv
<1> SUFFICES ASSUME WinPipeInit PROVE PipeInv
  OBVIOUS
<1>1. PICK b \in BOOLEAN, writer \in BOOLEAN :
       wh = HandleOf(NewHandle,
         [ipc |-> b, pipe |-> FALSE, write_reqs_pending |-> 0, shutdown_req |-> FALSE,
          writes |-> <<>>, thread |-> "null", reader |-> "none", spin |-> "none", result |-> "ok",
          timer |-> "none", input |-> <<>>, avail |-> 0, payload_remaining |-> 0, ipc_xfer_queue |-> 0,
          frames |-> IF writer THEN MaxFrames ELSE 0, early |-> FALSE,
          writer |-> writer, todo |-> IF writer THEN PipeWrites ELSE {}, called |-> {}])
  BY DEF WinPipeInit
<1>2. /\ DOMAIN wh = PipeFields /\ wh.flags = {} /\ wh.activecnt = 0 /\ wh.reqs_pending = 0
      /\ wh.active_reqs = 0 /\ wh.counted = 0 /\ wh.kernel = {} /\ wh.pending = {} /\ wh.walk = {}
      /\ wh.ok = {} /\ wh.pc = "idle" /\ wh.cur = "none" /\ wh.ends = 0
  BY <1>1 DEF HandleOf, NewHandle, PipeFields, BaseFields
<1>3. /\ wh.ipc = b /\ wh.pipe = FALSE /\ wh.write_reqs_pending = 0 /\ wh.shutdown_req = FALSE
      /\ wh.writes = <<>> /\ wh.thread = "null" /\ wh.reader = "none" /\ wh.spin = "none"
      /\ wh.result = "ok" /\ wh.timer = "none" /\ wh.input = <<>> /\ wh.avail = 0
      /\ wh.payload_remaining = 0 /\ wh.early = FALSE /\ wh.writer = writer
      /\ wh.called = {} /\ wh.todo = (IF writer THEN PipeWrites ELSE {})
  BY <1>1 DEF HandleOf, NewHandle, PipeFields, BaseFields
<1>4. Outstanding(wh) = {} /\ (\A f : ~On(wh, f)) /\ Outstanding(wh) \cap PipeWrites = {}
      /\ Outstanding(wh) \cap PipeActive = {}
  BY <1>2 DEF Outstanding, On
<1>5. Core(wh, PipeReqs, 0)
  BY <1>2, <1>4, FS_EmptySet DEF Core, EndsOnce, CountSound, Kept, HeldOnce, PipeFields
<1>6. PipeKind(wh) = "none" /\ Len(wh.writes) = 0
  BY <1>2, <1>3 DEF PipeKind
<1>7. PipeCounts(wh, "none")
  BY <1>2, <1>3, <1>4, <1>5, <1>6, FS_EmptySet DEF PipeCounts, OneIf
<1>8. PipeTypes(wh)
  BY <1>2, <1>3, EmptyList DEF PipeTypes
<1>9. PipeWritten(wh, "none")
  BY <1>3, <1>4, EmptyList DEF PipeWritten
<1>10. PipeLinked(wh) /\ PipeReader(wh)
  BY <1>2, <1>3, <1>4 DEF PipeLinked, PipeReader
<1>11. PipeInput(wh)
  BY <1>3, <1>4 DEF PipeInput, Frames
<1> QED BY <1>2, <1>3, <1>4, <1>6, <1>7, <1>8, <1>9, <1>10, <1>11 DEF PipeInv, PipeOk, PipeDue, PipePc, EndDue

LEMMA PipeInvSound == PipeInv => WinPipeSound
<1> SUFFICES ASSUME PipeInv PROVE WinPipeSound
  OBVIOUS
<1> DEFINE k == PipeKind(wh)
<1>1. /\ PipeTypes(wh) /\ PipeCounts(wh, k) /\ PipeWritten(wh, k) /\ PipeLinked(wh) /\ PipeReader(wh)
      /\ PipeInput(wh) /\ PipeDue(wh) /\ PipePc(wh)
  BY DEF PipeInv, PipeOk
<1>2. OneIf(k # "none") = PipeCurrent /\ (k = "write" => wh.cur \in PipeWrites)
  BY <1>1, PipeAssumption DEF PipePc, PipeKind, OneIf, PipeCurrent
<1>3. /\ Core(wh, PipeReqs, Len(wh.writes) + PipeCurrent + OneIf(wh.shutdown_req))
      /\ Len(wh.writes) \in Nat /\ Cardinality(Outstanding(wh)) \in Nat
      /\ wh.activecnt \in Nat /\ wh.active_reqs \in Nat /\ wh.reqs_pending \in Nat
      /\ wh.write_reqs_pending \in Nat
  <2> HIDE DEF k
  <2>1. /\ Core(wh, PipeReqs, Len(wh.writes) + OneIf(k # "none") + OneIf(wh.shutdown_req))
        /\ Len(wh.writes) \in Nat /\ Cardinality(Outstanding(wh)) \in Nat
        /\ wh.activecnt \in Nat /\ wh.active_reqs \in Nat /\ wh.reqs_pending \in Nat
        /\ wh.write_reqs_pending \in Nat
    BY <1>1, PipeSizes
  <2> QED BY <1>2, <2>1
<1>4. wh.reqs_pending = Cardinality(Outstanding(wh)) + Len(wh.writes) + PipeCurrent
                         + (IF wh.shutdown_req THEN 1 ELSE 0)
  <2>1. wh.reqs_pending = Cardinality(Outstanding(wh)) + (Len(wh.writes) + PipeCurrent + OneIf(wh.shutdown_req))
    BY <1>3 DEF Core
  <2>2. OneIf(wh.shutdown_req) = (IF wh.shutdown_req THEN 1 ELSE 0) /\ OneIf(wh.shutdown_req) \in Nat
        /\ PipeCurrent \in Nat
    BY DEF OneIf, PipeCurrent
  <2> DEFINE a == Cardinality(Outstanding(wh))
             b == Len(wh.writes)
             c == OneIf(wh.shutdown_req)
  <2>3. a \in Nat /\ b \in Nat /\ c \in Nat /\ wh.reqs_pending = a + (b + PipeCurrent + c)
    BY <1>3, <2>1, <2>2
  <2> HIDE DEF a, b, c
  <2>4. wh.reqs_pending = a + b + PipeCurrent + c
    BY <2>2, <2>3
  <2> QED BY <2>2, <2>4 DEF a, b, c
<1>5. wh.writes # <<>> => (Outstanding(wh) \cup {wh.cur}) \cap PipeWrites # {}
  BY <1>1, <1>2 DEF PipeWritten
<1>6. On(wh, "CLOSED") => /\ wh.reqs_pending = 0 /\ wh.active_reqs = 0 /\ wh.write_reqs_pending = 0
                          /\ ~On(wh, "ENDGAME_QUEUED") /\ Outstanding(wh) = {} /\ On(wh, "CLOSING")
                          /\ wh.writes = <<>> /\ In(wh.writes) = {}
  <2> SUFFICES ASSUME On(wh, "CLOSED")
               PROVE /\ wh.reqs_pending = 0 /\ wh.active_reqs = 0 /\ wh.write_reqs_pending = 0
                     /\ ~On(wh, "ENDGAME_QUEUED") /\ Outstanding(wh) = {} /\ On(wh, "CLOSING")
                     /\ wh.writes = <<>> /\ In(wh.writes) = {}
    OBVIOUS
  <2>1. Outstanding(wh) = {} /\ wh.pc = "idle" /\ ~On(wh, "ENDGAME_QUEUED") /\ On(wh, "CLOSING") /\ k = "none"
    BY <1>3 DEF Core, EndsOnce, CountSound, PipeKind
  <2>2. Outstanding(wh) \cap PipeWrites = {} /\ Outstanding(wh) \cap PipeActive = {}
    BY <2>1
  <2>3. wh.writes = <<>> /\ Len(wh.writes) = 0 /\ In(wh.writes) = {}
    BY <1>1, <2>1, <2>2, EmptyList DEF PipeWritten
  <2>4. wh.write_reqs_pending = 0
    BY <1>1, <2>1, <2>2, <2>3, FS_EmptySet DEF PipeCounts, OneIf
  <2>5. ~wh.shutdown_req
    BY <1>1, <2>1, <2>4 DEF PipeDue
  <2>6. wh.active_reqs = 0
    BY <1>1, <2>1, <2>2, <2>3, <2>5, FS_EmptySet DEF PipeCounts, OneIf
  <2>7. PipeCurrent = 0
    BY <1>2, <2>1 DEF OneIf
  <2> QED BY <1>4, <2>1, <2>3, <2>4, <2>5, <2>6, <2>7, FS_EmptySet
<1>7. HandleSound(wh)
  BY <1>1, <1>3, <1>6 DEF HandleSound, Core, EndsOnce, Kept, PipeDue
<1>8. wh.activecnt = wh.active_reqs + (IF IsSet("READING") THEN 1 ELSE 0)
  BY <1>1 DEF PipeCounts, OneIf, IsSet
<1>9. wh.shutdown_req /\ wh.write_reqs_pending = 0 /\ wh.pc = "idle" => IsSet("ENDGAME_QUEUED")
  BY <1>1 DEF PipeDue, IsSet
<1>10. ReaderSafe
  BY <1>1 DEF PipeReader, ReaderSafe, IsSet, PipeTypes
<1>11. Framed
  BY <1>1 DEF PipeInput, Frames, Framed
<1>12. (wh.timer = "on" => IsSet("READ_PENDING") /\ wh.pipe)
       /\ (IsSet("READING") /\ wh.pc = "idle" => IsSet("READ_PENDING"))
  BY <1>1 DEF PipeLinked, PipePc, IsSet
<1>13. IsSet("CLOSED") => /\ wh.timer = "none" /\ wh.reader = "none" /\ wh.ipc_xfer_queue = 0
                          /\ wh.writer => wh.called \cup wh.todo = PipeWrites
                          /\ ~wh.early => ~wh.pipe
  BY <1>1, <1>6 DEF IsSet, PipeLinked, PipeReader, PipeInput, Outstanding, PipeWritten
<1> QED BY <1>4, <1>5, <1>7, <1>8, <1>9, <1>10, <1>11, <1>12, <1>13 DEF WinPipeSound

\* A handle that is open, with all there is to say of it between two calls.
PipeAt(h, k) == PipeOk(h, k) /\ PipeDue(h) /\ ~On(h, "CLOSED")

\* The count of its requests on top of those that are out
PipeOn(h, k) == Len(h.writes) + OneIf(k # "none") + OneIf(h.shutdown_req)

PipeLoose == {"flags", "counted", "activecnt", "reqs_pending", "pc", "cur", "ends", "ok", "kernel",
              "pending", "walk", "pipe", "thread", "reader", "spin", "result", "timer", "input", "avail",
              "payload_remaining", "ipc_xfer_queue", "frames", "early"}

\* What a step that is not about writes, a connect or the shutdown has to show
LEMMA PipeCarry ==
  ASSUME NEW h, NEW k, PipeAt(h, k), NEW g, SameBut(g, h, PipeLoose), Core(g, PipeReqs, PipeOn(h, k)),
         Outstanding(g) \cap PipeActive = Outstanding(h) \cap PipeActive,
         g.activecnt = h.active_reqs + OneIf(On(g, "READING")),
         g.pipe \in BOOLEAN, g.early \in BOOLEAN, g.thread \in {"null", "thread", "invalid"},
         g.reader \in {"none", "start", "reading", "leaving"},
         g.spin \in {"none", "close", "stop", "name", "error"}, g.result \in {"ok", "error", "aborted"},
         g.timer \in {"none", "on", "idle"},
         Threaded(h) => Threaded(g), On(h, "ENDGAME_QUEUED") => On(g, "ENDGAME_QUEUED"),
         EndDue(g) => On(g, "ENDGAME_QUEUED"), ~On(g, "CLOSED"),
         PipeLinked(g), PipeReader(g), PipeInput(g)
  PROVE  PipeAt(g, k)
<1>1. DOMAIN h = PipeFields /\ PipeTypes(h) /\ PipeCounts(h, k) /\ PipeWritten(h, k)
  BY DEF PipeAt, PipeOk, PipeTypes
<1>2. /\ DOMAIN g = PipeFields /\ g.ipc = h.ipc /\ g.writer = h.writer /\ g.writes = h.writes
      /\ g.shutdown_req = h.shutdown_req /\ g.write_reqs_pending = h.write_reqs_pending
      /\ g.active_reqs = h.active_reqs /\ g.todo = h.todo /\ g.called = h.called
  BY <1>1 DEF SameBut, PipeFields, BaseFields, PipeLoose
<1>3. Outstanding(g) \cap PipeWrites = Outstanding(h) \cap PipeWrites
  BY DEF PipeActive
<1>4. PipeTypes(g)
  BY <1>1, <1>2 DEF PipeTypes
<1>5. PipeCounts(g, k)
  BY <1>1, <1>2, <1>3 DEF PipeCounts, PipeOn
<1>6. PipeWritten(g, k)
  BY <1>1, <1>2, <1>3 DEF PipeTypes, In, PipeWritten
<1>7. PipeDue(g)
  BY <1>2 DEF PipeAt, PipeDue
<1> QED BY <1>4, <1>5, <1>6, <1>7 DEF PipeAt, PipeOk

LEMMA PipeCore ==
  ASSUME NEW h, NEW k, PipeAt(h, k)
  PROVE  /\ Core(h, PipeReqs, PipeOn(h, k)) /\ DOMAIN h = PipeFields /\ BaseFields \subseteq DOMAIN h
         /\ PipeTypes(h) /\ PipeCounts(h, k) /\ PipeWritten(h, k) /\ PipeLinked(h) /\ PipeReader(h)
         /\ PipeInput(h) /\ PipeDue(h) /\ ~On(h, "CLOSED")
         /\ h.activecnt \in Nat /\ h.active_reqs \in Nat /\ h.activecnt >= h.active_reqs
         /\ (On(h, "READING") => h.activecnt > h.active_reqs)
         /\ h.activecnt = h.active_reqs + OneIf(On(h, "READING"))
         /\ h.write_reqs_pending \in Nat /\ h.reqs_pending \in Nat /\ IsFiniteSet(Outstanding(h))
         /\ Len(h.writes) \in Nat /\ PipeOn(h, k) \in Nat
BY PipeSizes DEF PipeAt, PipeOk, PipeCounts, PipeOn, Core

\* What an action starts from
LEMMA PipeInvAt ==
  ASSUME PipeInv, ~On(wh, "CLOSED") \/ wh.pc # "idle" \/ ~On(wh, "CLOSING") \/ Outstanding(wh) # {}
  PROVE  PipeAt(wh, PipeKind(wh)) /\ PipePc(wh) /\ DOMAIN wh = PipeFields
BY DEF PipeInv, PipeAt, PipeOk, PipeTypes, PipeCounts, Core, EndsOnce, CountSound

\* What it has to show where it changes no callback
LEMMA PipeInvBack ==
  ASSUME NEW k, k = PipeKind(wh), PipePc(wh), PipeAt(wh', k), wh'.pc = wh.pc, wh'.cur = wh.cur,
         wh'.spin # "none" => wh'.spin = wh.spin \/ (wh.pc # "read_loop" /\ wh'.spin # "error"),
         On(wh', "READING") => On(wh, "READING") \/ wh.pc # "read_loop",
         On(wh', "READING") /\ ~On(wh', "READ_PENDING") => On(wh, "READING") /\ ~On(wh, "READ_PENDING")
  PROVE  PipeInv'
BY DEF PipeInv, PipeAt, PipePc, PipeKind

\* INCREASE_ACTIVE_COUNT of a pipe that starts to read
LEMMA PipeStartAt ==
  ASSUME NEW h, NEW k, PipeAt(h, k), ~On(h, "CLOSING"), ~On(h, "READING"), h.pipe, On(h, "CONNECTION"),
         On(h, "READABLE"), h.spin = "none", NEW g, g = IncActive(Set(h, {"READING"}))
  PROVE  /\ PipeAt(g, k) /\ SameBut(g, h, {"flags", "counted", "activecnt"})
         /\ On(g, "READING") /\ \A f : f \notin {"ACTIVE", "READING"} => (On(g, f) <=> On(h, f))
<1> DEFINE n == PipeOn(h, k)
           p == Set(h, {"READING"})
<1>1. /\ Core(h, PipeReqs, n) /\ DOMAIN h = PipeFields /\ BaseFields \subseteq DOMAIN h
      /\ h.activecnt \in Nat /\ ~On(h, "CLOSED") /\ h.activecnt = h.active_reqs + OneIf(On(h, "READING"))
      /\ PipeLinked(h) /\ PipeReader(h) /\ PipeInput(h) /\ PipeTypes(h) /\ PipeDue(h) /\ h.active_reqs \in Nat
  BY PipeCore
<1> HIDE DEF n
<1>2. /\ SameBut(p, h, {"flags"}) /\ \A f : On(p, f) <=> On(h, f) \/ f \in {"READING"}
  BY <1>1, FlagsSame DEF BaseFields
<1>3. g = IncActive(p)
  OBVIOUS
<1> HIDE DEF p
<1>4. Core(p, PipeReqs, n) /\ Outstanding(p) = Outstanding(h)
  BY <1>1, <1>2, OtherCore DEF Alike
<1>5. p.activecnt = h.activecnt
  BY <1>1, <1>2 DEF SameBut, PipeFields, BaseFields
<1>6. /\ Core(g, PipeReqs, n) /\ SameBut(g, p, {"flags", "counted", "activecnt"})
      /\ Outstanding(g) = Outstanding(p) /\ g.activecnt = p.activecnt + 1
      /\ \A f : f # "ACTIVE" => (On(g, f) <=> On(p, f))
  <2>1. p.activecnt >= 0 /\ ~On(p, "CLOSING")
    BY <1>1, <1>2, <1>5
  <2> QED BY <1>3, <1>4, <2>1, IncCore
<1>7. /\ SameBut(g, h, {"flags", "counted", "activecnt"}) /\ Outstanding(g) = Outstanding(h)
      /\ On(g, "READING") /\ \A f : f \notin {"ACTIVE", "READING"} => (On(g, f) <=> On(h, f))
  BY <1>2, <1>4, <1>6 DEF SameBut
<1>8. /\ g.pipe = h.pipe /\ g.early = h.early /\ g.thread = h.thread /\ g.reader = h.reader
      /\ g.spin = h.spin /\ g.result = h.result /\ g.timer = h.timer /\ g.shutdown_req = h.shutdown_req
      /\ g.ok = h.ok /\ g.kernel = h.kernel /\ g.reqs_pending = h.reqs_pending
      /\ g.input = h.input /\ g.avail = h.avail /\ g.ipc = h.ipc /\ g.payload_remaining = h.payload_remaining
  BY <1>1, <1>7 DEF SameBut, PipeFields, BaseFields
<1>9. PipeLinked(g)
  BY <1>1, <1>7, <1>8 DEF PipeLinked
<1>10. PipeReader(g)
  BY <1>1, <1>7, <1>8 DEF PipeReader, Threaded
<1>11. PipeInput(g)
  BY <1>1, <1>7, <1>8 DEF PipeInput
<1>12. g.activecnt = h.active_reqs + OneIf(On(g, "READING"))
  BY <1>1, <1>5, <1>6, <1>7 DEF OneIf
<1>13. PipeAt(g, k)
  BY <1>7, <1>1, <1>8, <1>6, <1>9, <1>10, <1>11, <1>12, PipeCarry DEF SameBut, PipeLoose, EndDue,
     PipeDue, n, PipeTypes, Threaded
<1> QED BY <1>7, <1>13

\* uv__pipe_read_stop(), up to the interrupt
LEMMA PipeStopAt ==
  ASSUME NEW h, NEW k, PipeAt(h, k), On(h, "READING"), NEW g, g = PipeStop(h)
  PROVE  /\ PipeAt(g, k) /\ SameBut(g, h, {"flags", "counted", "activecnt"})
         /\ ~On(g, "READING") /\ \A f : f \notin {"ACTIVE", "READING"} => (On(g, f) <=> On(h, f))
<1> DEFINE n == PipeOn(h, k)
           p == Clear(h, {"READING"})
<1>1. /\ Core(h, PipeReqs, n) /\ DOMAIN h = PipeFields /\ BaseFields \subseteq DOMAIN h
      /\ h.activecnt \in Nat /\ ~On(h, "CLOSED") /\ h.activecnt = h.active_reqs + OneIf(On(h, "READING"))
      /\ PipeLinked(h) /\ PipeReader(h) /\ PipeInput(h) /\ PipeTypes(h) /\ PipeDue(h) /\ h.active_reqs \in Nat
      /\ h.activecnt > h.active_reqs
  BY PipeCore
<1> HIDE DEF n
<1>2. /\ SameBut(p, h, {"flags"}) /\ \A f : On(p, f) <=> On(h, f) /\ f \notin {"READING"}
  BY <1>1, FlagsSame DEF BaseFields
<1>3. g = DecActive(p)
  BY DEF PipeStop
<1> HIDE DEF p
<1>4. Core(p, PipeReqs, n) /\ Outstanding(p) = Outstanding(h)
  BY <1>1, <1>2, OtherCore DEF Alike
<1>5. p.activecnt = h.activecnt
  BY <1>1, <1>2 DEF SameBut, PipeFields, BaseFields
<1>6. /\ Core(g, PipeReqs, n) /\ SameBut(g, p, {"flags", "counted", "activecnt"})
      /\ Outstanding(g) = Outstanding(p) /\ g.activecnt = p.activecnt - 1
      /\ \A f : f # "ACTIVE" => (On(g, f) <=> On(p, f))
  BY <1>1, <1>5, <1>3, <1>4, DecCore
<1>7. /\ SameBut(g, h, {"flags", "counted", "activecnt"}) /\ Outstanding(g) = Outstanding(h)
      /\ ~On(g, "READING") /\ \A f : f \notin {"ACTIVE", "READING"} => (On(g, f) <=> On(h, f))
  BY <1>2, <1>4, <1>6 DEF SameBut
<1>8. /\ g.pipe = h.pipe /\ g.early = h.early /\ g.thread = h.thread /\ g.reader = h.reader
      /\ g.spin = h.spin /\ g.result = h.result /\ g.timer = h.timer /\ g.shutdown_req = h.shutdown_req
      /\ g.ok = h.ok /\ g.kernel = h.kernel /\ g.reqs_pending = h.reqs_pending
      /\ g.input = h.input /\ g.avail = h.avail /\ g.ipc = h.ipc /\ g.payload_remaining = h.payload_remaining
  BY <1>1, <1>7 DEF SameBut, PipeFields, BaseFields
<1>9. PipeLinked(g)
  BY <1>1, <1>7, <1>8 DEF PipeLinked
<1>10. PipeReader(g)
  BY <1>1, <1>7, <1>8 DEF PipeReader, Threaded
<1>11. PipeInput(g)
  BY <1>1, <1>7, <1>8 DEF PipeInput
<1>12. g.activecnt = h.active_reqs + OneIf(On(g, "READING"))
  BY <1>1, <1>5, <1>6, <1>7 DEF OneIf
<1>13. PipeAt(g, k)
  BY <1>7, <1>1, <1>8, <1>6, <1>9, <1>10, <1>11, <1>12, PipeCarry DEF SameBut, PipeLoose, EndDue,
     PipeDue, n, PipeTypes, Threaded
<1> QED BY <1>7, <1>13

\* Nothing reads from the pipe, and no thread will.
Cut(h) == h.reader # "reading" /\ (h.reader = "start" => h.thread = "invalid")

\* A step that is only about the thread that reads, the timer and what was read
LEMMA PipeAside ==
  ASSUME NEW h, NEW k, PipeAt(h, k), NEW g,
         SameBut(g, h, {"flags", "pc", "cur", "thread", "reader", "spin", "result", "timer", "input",
                        "avail", "payload_remaining", "ipc_xfer_queue", "frames", "early", "pipe"}),
         \A f : f \in {"ACTIVE", "CLOSING", "CLOSED", "ENDGAME_QUEUED", "READING"} => (On(g, f) <=> On(h, f)),
         g.pipe \in BOOLEAN, g.early \in BOOLEAN, g.thread \in {"null", "thread", "invalid"},
         g.reader \in {"none", "start", "reading", "leaving"},
         g.spin \in {"none", "close", "stop", "name", "error"}, g.result \in {"ok", "error", "aborted"},
         g.timer \in {"none", "on", "idle"}, Threaded(h) => Threaded(g),
         PipeLinked(g), PipeReader(g), PipeInput(g)
  PROVE  PipeAt(g, k) /\ Outstanding(g) = Outstanding(h)
<1> DEFINE n == PipeOn(h, k)
           fs == {"flags", "pc", "cur", "thread", "reader", "spin", "result", "timer", "input",
                  "avail", "payload_remaining", "ipc_xfer_queue", "frames", "early", "pipe"}
<1>1. /\ Core(h, PipeReqs, n) /\ DOMAIN h = PipeFields /\ ~On(h, "CLOSED")
      /\ h.activecnt = h.active_reqs + OneIf(On(h, "READING")) /\ PipeDue(h)
  BY PipeCore
<1> HIDE DEF n
<1>2. fs \cap BaseFields \subseteq {"flags", "active_reqs", "ok", "pc", "cur"} /\ SameBut(g, h, fs)
  BY DEF BaseFields
<1>3. g.activecnt = h.activecnt /\ g.reqs_pending = h.reqs_pending
  BY <1>1 DEF SameBut, PipeFields, BaseFields
<1>4. SameBut(g, h, PipeLoose) /\ Alike(g, h)
  BY DEF SameBut, PipeLoose, Alike
<1> HIDE DEF fs
<1>5. Core(g, PipeReqs, n) /\ Outstanding(g) = Outstanding(h) /\ ~On(g, "CLOSED")
  BY <1>1, <1>2, <1>4, OtherCore
<1>6. EndDue(g) => On(g, "ENDGAME_QUEUED")
  BY <1>1, <1>3 DEF EndDue, PipeDue
<1>7. g.activecnt = h.active_reqs + OneIf(On(g, "READING"))
  BY <1>1, <1>3 DEF OneIf
<1>8. Core(g, PipeReqs, PipeOn(h, k))
  BY <1>5 DEF n
<1>9. PipeAt(g, k)
  BY <1>4, <1>5, <1>6, <1>7, <1>8, PipeCarry
<1> QED BY <1>5, <1>9

\* A read that no thread is in is cancelled.
LEMMA CancelAt ==
  ASSUME NEW h, NEW k, PipeAt(h, k), On(h, "READ_PENDING"), h.thread # "thread", NEW g,
         SameBut(g, h, {"flags", "thread", "spin"}), On(g, "CANCELLATION_PENDING"),
         \A f : f # "CANCELLATION_PENDING" => (On(g, f) <=> On(h, f)),
         g.spin = "none", g.thread \in {h.thread, "invalid"}, h.reader = "start" => g.thread = "invalid"
  PROVE  PipeAt(g, k) /\ Cut(g) /\ Outstanding(g) = Outstanding(h)
<1>1. /\ DOMAIN h = PipeFields /\ PipeTypes(h) /\ PipeLinked(h) /\ PipeReader(h) /\ PipeInput(h)
  BY PipeCore
<1>2. /\ g.pipe = h.pipe /\ g.early = h.early /\ g.reader = h.reader /\ g.result = h.result
      /\ g.timer = h.timer /\ g.shutdown_req = h.shutdown_req /\ g.ok = h.ok /\ g.kernel = h.kernel
      /\ g.pending = h.pending /\ g.walk = h.walk
      /\ g.input = h.input /\ g.avail = h.avail /\ g.ipc = h.ipc /\ g.payload_remaining = h.payload_remaining
      /\ g.ipc_xfer_queue = h.ipc_xfer_queue
  BY <1>1 DEF SameBut, PipeFields, BaseFields
<1>3. SameBut(g, h, {"flags", "pc", "cur", "thread", "reader", "spin", "result", "timer", "input",
                     "avail", "payload_remaining", "ipc_xfer_queue", "frames", "early", "pipe"})
  BY DEF SameBut
<1>4. Outstanding(g) = Outstanding(h)
  BY <1>2 DEF Outstanding
<1>5. PipeLinked(g)
  BY <1>1, <1>2, <1>4 DEF PipeLinked
<1>6. PipeReader(g) /\ Cut(g)
  BY <1>1, <1>2 DEF PipeReader, Cut, Threaded
<1>7. PipeInput(g)
  BY <1>1, <1>2 DEF PipeInput
<1>8. g.thread \in {"null", "thread", "invalid"}
  BY <1>1 DEF PipeTypes
<1> QED BY <1>1, <1>2, <1>3, <1>4, <1>5, <1>6, <1>7, <1>8, PipeAside DEF PipeTypes, Threaded

\* uv__pipe_interrupt_read(): it waits for the thread, or goes on.
LEMMA InterruptAt ==
  ASSUME NEW h, NEW k, PipeAt(h, k), h.spin = "none", ~On(h, "CLOSING"),
         NEW caller \in {"close", "stop", "name", "error"}, caller = "close" => ~On(h, "READING"),
         NEW g, g = Interrupt(h, caller)
  PROVE  \/ /\ PipeAt(g, k) /\ SameBut(g, h, {"spin"}) /\ g.spin = caller /\ On(h, "READ_PENDING")
            /\ \A f : On(g, f) <=> On(h, f)
         \/ \E c : /\ PipeAt(c, k) /\ SameBut(c, h, {"flags", "thread"}) /\ Cut(c) /\ c.spin = "none"
                   /\ \A f : f # "CANCELLATION_PENDING" => (On(c, f) <=> On(h, f))
                   /\ Outstanding(c) = Outstanding(h)
                   /\ g = GoesOn(c, caller)
<1>1. /\ DOMAIN h = PipeFields /\ PipeTypes(h) /\ PipeLinked(h) /\ PipeReader(h) /\ PipeInput(h)
  BY PipeCore
<1> DEFINE cancelled == Set(h, {"CANCELLATION_PENDING"})
           idle == ~On(h, "READ_PENDING") \/ On(h, "CANCELLATION_PENDING") \/ ~h.pipe
<1>2. /\ SameBut(cancelled, h, {"flags"})
      /\ \A f : On(cancelled, f) <=> On(h, f) \/ f \in {"CANCELLATION_PENDING"}
  BY <1>1, FlagsSame DEF PipeFields, BaseFields
<1>3. CASE idle
  BY <1>3, <1>1 DEF Interrupt, PipeReader, Cut, SameBut
<1>4. CASE ~idle /\ ~Threaded(h)
  <2>1. g = GoesOn(cancelled, caller)
    BY <1>4 DEF Interrupt
  <2> HIDE DEF cancelled
  <2>2. cancelled.thread = h.thread /\ cancelled.spin = "none"
    BY <1>1, <1>2 DEF SameBut, PipeFields, BaseFields
  <2>3. h.reader = "none" /\ h.thread # "thread"
    BY <1>1, <1>4 DEF PipeReader, PipeTypes
  <2>4. SameBut(cancelled, h, {"flags", "thread", "spin"}) /\ SameBut(cancelled, h, {"flags", "thread"})
    BY <1>2 DEF SameBut
  <2>5. PipeAt(cancelled, k) /\ Cut(cancelled) /\ Outstanding(cancelled) = Outstanding(h)
    BY <1>2, <1>4, <2>2, <2>3, <2>4, CancelAt
  <2> QED BY <1>2, <2>1, <2>2, <2>4, <2>5
<1>5. CASE ~idle /\ Threaded(h) /\ h.thread = "thread"
  <2>1. g = [h EXCEPT !.spin = caller]
    BY <1>5 DEF Interrupt
  <2>2. SameBut(g, h, {"spin"}) /\ g.spin = caller
    BY <1>1, <2>1 DEF SameBut, PipeFields
  <2>3. /\ g.pipe = h.pipe /\ g.early = h.early /\ g.reader = h.reader /\ g.result = h.result
        /\ g.timer = h.timer /\ g.shutdown_req = h.shutdown_req /\ g.ok = h.ok /\ g.kernel = h.kernel
        /\ g.pending = h.pending /\ g.walk = h.walk /\ g.flags = h.flags /\ g.thread = h.thread
        /\ g.input = h.input /\ g.avail = h.avail /\ g.ipc = h.ipc /\ g.payload_remaining = h.payload_remaining
        /\ g.ipc_xfer_queue = h.ipc_xfer_queue
    BY <1>1, <2>2 DEF SameBut, PipeFields, BaseFields
  <2>4. \A f : On(g, f) <=> On(h, f)
    BY <2>3 DEF On
  <2>5. SameBut(g, h, {"flags", "pc", "cur", "thread", "reader", "spin", "result", "timer", "input",
                       "avail", "payload_remaining", "ipc_xfer_queue", "frames", "early", "pipe"})
    BY <2>2 DEF SameBut
  <2>6. PipeLinked(g)
    BY <2>3, <1>1, <2>4 DEF Outstanding, PipeLinked
  <2>7. PipeReader(g)
    BY <1>1, <1>5, <2>2, <2>3, <2>4 DEF PipeReader, Threaded
  <2>8. PipeInput(g)
    BY <1>1, <2>3, <2>4 DEF PipeInput
  <2>9. PipeAt(g, k)
    BY <1>1, <2>2, <2>3, <2>4, <2>5, <2>6, <2>7, <2>8, PipeAside DEF PipeTypes, Threaded
  <2> QED BY <1>5, <2>2, <2>4, <2>9
<1>6. CASE ~idle /\ Threaded(h) /\ h.thread # "thread"
  <2> DEFINE c == [cancelled EXCEPT !.thread = "invalid"]
  <2>1. g = GoesOn(c, caller)
    BY <1>6 DEF Interrupt
  <2> HIDE DEF cancelled
  <2>2. SameBut(c, h, {"flags", "thread"}) /\ c.thread = "invalid" /\ c.flags = cancelled.flags
    BY <1>1, <1>2 DEF SameBut, PipeFields, BaseFields
  <2> HIDE DEF c
  <2>3. c.spin = "none"
    BY <1>1, <2>2 DEF SameBut, PipeFields, BaseFields
  <2>4. \A f : On(c, f) <=> On(h, f) \/ f \in {"CANCELLATION_PENDING"}
    BY <1>2, <2>2 DEF On
  <2>5. SameBut(c, h, {"flags", "thread", "spin"})
    BY <2>2 DEF SameBut
  <2>6. PipeAt(c, k) /\ Cut(c) /\ Outstanding(c) = Outstanding(h)
    BY <1>6, <2>2, <2>3, <2>4, <2>5, CancelAt
  <2> QED BY <2>1, <2>2, <2>3, <2>4, <2>6
<1> QED BY <1>3, <1>4, <1>5, <1>6

\* uv__pipe_close(), once the read is interrupted
LEMMA CloseRestAt ==
  ASSUME NEW h, NEW k, PipeAt(h, k), ~On(h, "CLOSING"), ~On(h, "READING"), Cut(h), h.spin = "none",
         "connect" \in Outstanding(h) => h.early, NEW g, g = CloseRest(h)
  PROVE  /\ PipeAt(g, k) /\ SameBut(g, h, {"flags", "counted", "timer", "pipe"})
         /\ ~On(g, "READING") /\ On(g, "CLOSING")
<1> DEFINE n == PipeOn(h, k)
           c == IF On(h, "CONNECTION") THEN [h EXCEPT !.timer = "none", !.pipe = FALSE] ELSE h
           p == Clear(c, {"READABLE", "WRITABLE"})
           q == HandleClosing(p)
<1>1. /\ Core(h, PipeReqs, n) /\ DOMAIN h = PipeFields /\ BaseFields \subseteq DOMAIN h
      /\ PipeTypes(h) /\ PipeLinked(h) /\ PipeReader(h) /\ PipeInput(h) /\ PipeDue(h)
      /\ h.activecnt = h.active_reqs + OneIf(On(h, "READING")) /\ ~On(h, "CLOSED")
  BY PipeCore
<1> HIDE DEF n
<1>2. g = IF q.reqs_pending = 0 THEN WantEndgame(q) ELSE q
  BY DEF CloseRest
<1>3. /\ SameBut(c, h, {"timer", "pipe"}) /\ c.flags = h.flags /\ c.timer = "none"
      /\ c.pipe = (h.pipe /\ ~On(h, "CONNECTION"))
  <2>1. CASE On(h, "CONNECTION")
    <3>1. c = [h EXCEPT !.timer = "none", !.pipe = FALSE]
      BY <2>1
    <3> HIDE DEF c
    <3>2. SameBut(c, h, {"timer", "pipe"}) /\ c.flags = h.flags /\ c.timer = "none" /\ c.pipe = FALSE
      BY <1>1, <3>1 DEF SameBut, PipeFields, BaseFields
    <3> QED BY <2>1, <3>2
  <2>2. CASE ~On(h, "CONNECTION")
    BY <2>2, <1>1 DEF PipeLinked, PipeTypes, SameBut
  <2> QED BY <2>1, <2>2
<1> HIDE DEF c
<1>4. "flags" \in DOMAIN c
  BY <1>1, <1>3 DEF SameBut, BaseFields
<1>5. /\ SameBut(p, c, {"flags"}) /\ \A f : On(p, f) <=> On(c, f) /\ f \notin {"READABLE", "WRITABLE"}
  BY <1>4, FlagsSame
<1> HIDE DEF p
<1>6. /\ SameBut(p, h, {"flags", "timer", "pipe"}) /\ p.timer = c.timer /\ p.pipe = c.pipe
      /\ \A f : On(p, f) <=> On(h, f) /\ f \notin {"READABLE", "WRITABLE"}
  BY <1>1, <1>3, <1>5 DEF SameBut, PipeFields, On
<1>7. Core(p, PipeReqs, n) /\ Outstanding(p) = Outstanding(h)
  BY <1>6, <1>1, OtherCore DEF Alike, BaseFields
<1>8. /\ Core(g, PipeReqs, n) /\ SameBut(g, p, {"flags", "counted"}) /\ Outstanding(g) = Outstanding(p)
      /\ \A f : f \notin {"ACTIVE", "CLOSING", "ENDGAME_QUEUED"} => (On(g, f) <=> On(p, f))
      /\ On(g, "CLOSING") /\ ~On(g, "ACTIVE") /\ ~On(g, "CLOSED")
      /\ g.reqs_pending = 0 \/ On(p, "ENDGAME_QUEUED") <=> On(g, "ENDGAME_QUEUED")
  <2>1. ~On(p, "CLOSING")
    BY <1>6
  <2> HIDE DEF q
  <2>2. q = HandleClosing(p)
    BY DEF q
  <2> QED BY <1>2, <1>7, <2>1, <2>2, ClosingCore
<1>9. /\ SameBut(g, h, {"flags", "counted", "timer", "pipe"}) /\ Outstanding(g) = Outstanding(h)
      /\ g.timer = "none" /\ g.pipe = (h.pipe /\ ~On(h, "CONNECTION"))
      /\ \A f : f \notin {"ACTIVE", "CLOSING", "ENDGAME_QUEUED", "READABLE", "WRITABLE"} =>
           (On(g, f) <=> On(h, f))
      /\ ~On(g, "READABLE")
  BY <1>1, <1>3, <1>6, <1>7, <1>8 DEF SameBut, PipeFields
<1>10. /\ g.early = h.early /\ g.thread = h.thread /\ g.reader = h.reader /\ g.activecnt = h.activecnt
       /\ g.spin = h.spin /\ g.result = h.result /\ g.shutdown_req = h.shutdown_req
       /\ g.ok = h.ok /\ g.kernel = h.kernel /\ g.ipc_xfer_queue = h.ipc_xfer_queue
       /\ g.input = h.input /\ g.avail = h.avail /\ g.ipc = h.ipc /\ g.payload_remaining = h.payload_remaining
  BY <1>1, <1>9 DEF SameBut, PipeFields, BaseFields
<1>11. PipeLinked(g)
  BY <1>1, <1>8, <1>9, <1>10 DEF PipeLinked, PipeTypes
<1>12. PipeReader(g)
  BY <1>1, <1>9, <1>10 DEF PipeReader, Threaded, Cut
<1>13. PipeInput(g)
  BY <1>1, <1>8, <1>10 DEF PipeInput
<1>14. PipeAt(g, k)
  <2>1. SameBut(g, h, PipeLoose)
    BY <1>9 DEF SameBut, PipeLoose
  <2>2. EndDue(g) => On(g, "ENDGAME_QUEUED")
    BY <1>8 DEF EndDue
  <2>3. On(h, "ENDGAME_QUEUED") => On(g, "ENDGAME_QUEUED")
    BY <1>6, <1>8
  <2>4. g.activecnt = h.active_reqs + OneIf(On(g, "READING"))
    BY <1>1, <1>9, <1>10 DEF OneIf
  <2>5. g.pipe \in BOOLEAN
    BY <1>1, <1>9 DEF PipeTypes
  <2>6. Core(g, PipeReqs, PipeOn(h, k))
    BY <1>8 DEF n
  <2> QED BY <1>1, <1>8, <1>9, <1>10, <1>11, <1>12, <1>13, <2>1, <2>2, <2>3, <2>4, <2>5, <2>6, PipeCarry
        DEF PipeTypes, Threaded
<1> QED BY <1>8, <1>9, <1>14

\* The user is called, or comes back.
LEMMA MovedAt ==
  ASSUME NEW h, NEW k, PipeAt(h, k), NEW g, SameBut(g, h, {"pc", "cur"})
  PROVE  PipeAt(g, k) /\ Outstanding(g) = Outstanding(h) /\ g.spin = h.spin /\ \A f : On(g, f) <=> On(h, f)
<1>1. /\ DOMAIN h = PipeFields /\ PipeTypes(h) /\ PipeLinked(h) /\ PipeReader(h) /\ PipeInput(h)
  BY PipeCore
<1>2. /\ g.pipe = h.pipe /\ g.early = h.early /\ g.reader = h.reader /\ g.result = h.result
      /\ g.timer = h.timer /\ g.shutdown_req = h.shutdown_req /\ g.ok = h.ok /\ g.kernel = h.kernel
      /\ g.pending = h.pending /\ g.walk = h.walk /\ g.flags = h.flags /\ g.thread = h.thread
      /\ g.input = h.input /\ g.avail = h.avail /\ g.ipc = h.ipc /\ g.payload_remaining = h.payload_remaining
      /\ g.ipc_xfer_queue = h.ipc_xfer_queue /\ g.spin = h.spin
  BY <1>1 DEF SameBut, PipeFields, BaseFields
<1>3. SameBut(g, h, {"flags", "pc", "cur", "thread", "reader", "spin", "result", "timer", "input",
                     "avail", "payload_remaining", "ipc_xfer_queue", "frames", "early", "pipe"})
  BY DEF SameBut
<1>4. Outstanding(g) = Outstanding(h) /\ \A f : On(g, f) <=> On(h, f)
  BY <1>2 DEF Outstanding, On
<1>5. PipeLinked(g)
  BY <1>1, <1>2, <1>4 DEF PipeLinked
<1>6. PipeReader(g)
  BY <1>1, <1>2, <1>4 DEF PipeReader, Threaded
<1>7. PipeInput(g)
  BY <1>1, <1>2, <1>4 DEF PipeInput
<1>8. /\ g.pipe \in BOOLEAN /\ g.early \in BOOLEAN /\ g.thread \in {"null", "thread", "invalid"}
      /\ g.reader \in {"none", "start", "reading", "leaving"}
      /\ g.spin \in {"none", "close", "stop", "name", "error"} /\ g.result \in {"ok", "error", "aborted"}
      /\ g.timer \in {"none", "on", "idle"} /\ (Threaded(h) => Threaded(g))
  BY <1>1, <1>2, <1>4 DEF PipeTypes, Threaded
<1>9. PipeAt(g, k)
  BY <1>3, <1>4, <1>5, <1>6, <1>7, <1>8, PipeAside
<1> QED BY <1>2, <1>4, <1>9

LEMMA PipeCalledAt ==
  ASSUME NEW h, NEW k, PipeAt(h, k), NEW pc, NEW r, NEW g,
         g = CallUser(h, pc, r) \/ (g = Returned(h) /\ pc = "idle" /\ r = "none")
  PROVE  /\ PipeAt(g, k) /\ SameBut(g, h, {"pc", "cur"}) /\ g.pc = pc /\ g.cur = r /\ g.spin = h.spin
         /\ Outstanding(g) = Outstanding(h) /\ \A f : On(g, f) <=> On(h, f)
<1>1. BaseFields \subseteq DOMAIN h
  BY PipeCore
<1>2. SameBut(g, h, {"pc", "cur"}) /\ g.pc = pc /\ g.cur = r
  BY <1>1, CallSame
<1> QED BY <1>2, MovedAt

\* The handler of a request has ended.
LEMMA PipeOffAt ==
  ASSUME NEW h, PipeAt(h, "other"), NEW g, g = DecPending(h)
  PROVE  /\ PipeAt(g, "none") /\ SameBut(g, h, {"flags", "reqs_pending"})
         /\ Outstanding(g) = Outstanding(h) /\ g.pc = h.pc /\ g.cur = h.cur /\ g.spin = h.spin
         /\ \A f : f # "ENDGAME_QUEUED" => (On(g, f) <=> On(h, f))
<1> DEFINE n == PipeOn(h, "none")
<1>1. /\ DOMAIN h = PipeFields /\ PipeTypes(h) /\ PipeCounts(h, "other") /\ PipeWritten(h, "other")
      /\ PipeLinked(h) /\ PipeReader(h) /\ PipeInput(h) /\ PipeDue(h) /\ ~On(h, "CLOSED")
      /\ Core(h, PipeReqs, PipeOn(h, "other")) /\ Len(h.writes) \in Nat
  BY PipeCore
<1>2. PipeOn(h, "other") = n + 1 /\ n \in Nat
  <2> DEFINE a == Len(h.writes)
             b == OneIf(h.shutdown_req)
  <2>1. a \in Nat /\ b \in Nat /\ OneIf("other" # "none") = 1 /\ OneIf("none" # "none") = 0
    BY <1>1 DEF OneIf
  <2>2. PipeOn(h, "other") = a + OneIf("other" # "none") + b /\ n = a + OneIf("none" # "none") + b
    BY DEF PipeOn
  <2> HIDE DEF a, b, n
  <2> QED BY <2>1, <2>2
<1> HIDE DEF n
<1>3. /\ Core(g, PipeReqs, n) /\ SameBut(g, h, {"flags", "reqs_pending"})
      /\ Outstanding(g) = Outstanding(h)
      /\ \A f : f # "ENDGAME_QUEUED" => (On(g, f) <=> On(h, f))
      /\ EndDue(g) \/ On(h, "ENDGAME_QUEUED") <=> On(g, "ENDGAME_QUEUED")
  BY <1>1, <1>2, CountOffCore
<1>4. /\ g.pipe = h.pipe /\ g.early = h.early /\ g.reader = h.reader /\ g.result = h.result
      /\ g.timer = h.timer /\ g.shutdown_req = h.shutdown_req /\ g.ok = h.ok /\ g.kernel = h.kernel
      /\ g.thread = h.thread /\ g.writes = h.writes /\ g.todo = h.todo /\ g.called = h.called
      /\ g.writer = h.writer /\ g.write_reqs_pending = h.write_reqs_pending
      /\ g.input = h.input /\ g.avail = h.avail /\ g.ipc = h.ipc /\ g.payload_remaining = h.payload_remaining
      /\ g.ipc_xfer_queue = h.ipc_xfer_queue /\ g.spin = h.spin /\ g.pc = h.pc /\ g.cur = h.cur
      /\ g.activecnt = h.activecnt /\ g.active_reqs = h.active_reqs /\ DOMAIN g = PipeFields
  BY <1>1, <1>3 DEF SameBut, PipeFields, BaseFields
<1>5. PipeTypes(g) /\ PipeReader(g) /\ PipeInput(g) /\ PipeLinked(g)
  BY <1>1, <1>4, <1>3 DEF PipeTypes, PipeReader, Threaded, PipeInput, PipeLinked
<1>6. PipeCounts(g, "none")
  BY <1>3, <1>4, <1>1 DEF n, PipeOn, OneIf, PipeCounts
<1>7. PipeWritten(g, "none")
  BY <1>1, <1>3, <1>4 DEF PipeWritten, Threaded
<1>8. PipeDue(g) /\ ~On(g, "CLOSED")
  BY <1>1, <1>3, <1>4 DEF PipeDue
<1> QED BY <1>3, <1>4, <1>5, <1>6, <1>7, <1>8 DEF PipeAt, PipeOk

\* uv__pipe_queue_read()
LEMMA PipeQueueReadAt ==
  ASSUME NEW h, NEW k, PipeAt(h, k), h.pipe, On(h, "CONNECTION"), On(h, "READABLE"), ~On(h, "CLOSING"),
         ~On(h, "READ_PENDING"), NEW g \in PipeQueueRead(h)
  PROVE  /\ PipeAt(g, k) /\ On(g, "READ_PENDING") /\ g.pc = h.pc /\ g.cur = h.cur /\ g.spin = h.spin
         /\ \A f : f # "READ_PENDING" => (On(g, f) <=> On(h, f))
<1> DEFINE n == PipeOn(h, k)
           p == Set(h, {"READ_PENDING"})
           a == EofTimerStart(Given(p, "read"))
           b == [p EXCEPT !.thread = "null"]
           q == IF Threaded(h) THEN b ELSE p
           x == Inserted(q, "read", FALSE)
           y == Given(p, "read")
<1>1. /\ Core(h, PipeReqs, n) /\ DOMAIN h = PipeFields /\ BaseFields \subseteq DOMAIN h
      /\ PipeTypes(h) /\ PipeLinked(h) /\ PipeReader(h) /\ PipeInput(h) /\ PipeDue(h)
      /\ h.activecnt = h.active_reqs + OneIf(On(h, "READING")) /\ ~On(h, "CLOSED")
      /\ "read" \in PipeReqs
  BY PipeCore DEF PipeReqs
<1>2. "read" \notin Outstanding(h) /\ h.reader = "none" /\ h.thread # "thread" /\ h.spin = "none"
      /\ ~On(h, "CANCELLATION_PENDING")
  BY <1>1 DEF PipeLinked, PipeReader, PipeTypes
<1>3. \/ g = (IF Threaded(h) THEN [a EXCEPT !.thread = "null", !.reader = "start"] ELSE a)
      \/ g = [x EXCEPT !.result = "error"]
  BY DEF PipeQueueRead
<1> HIDE DEF n
<1>4. /\ SameBut(p, h, {"flags"}) /\ \A f : On(p, f) <=> On(h, f) \/ f \in {"READ_PENDING"}
  BY <1>1, FlagsSame DEF BaseFields
<1> HIDE DEF p
<1>5. Core(p, PipeReqs, n) /\ Outstanding(p) = Outstanding(h) /\ ~On(p, "CLOSED") /\ DOMAIN p = PipeFields
  BY <1>1, <1>4, OtherCore DEF Alike, SameBut
<1>6. /\ Core(g, PipeReqs, n) /\ Outstanding(g) = Outstanding(h) \cup {"read"}
      /\ SameBut(g, h, {"flags", "kernel", "pending", "ok", "reqs_pending", "thread", "reader",
                        "timer", "result"})
      /\ g.flags = p.flags
      /\ \/ g.thread = h.thread /\ g.reader = "none"
         \/ g.thread = "null" /\ g.reader \in {"none", "start"} /\ Threaded(h)
      /\ g.reader = "start" => "read" \in g.kernel
      /\ g.timer = h.timer \/ (h.timer # "none" /\ g.timer = "on")
      /\ g.result \in {"ok", "error", "aborted"}
      /\ ("connect" \in g.ok <=> "connect" \in h.ok) /\ ("connect" \in g.kernel <=> "connect" \in h.kernel)
  <2>1. CASE g = (IF Threaded(h) THEN [a EXCEPT !.thread = "null", !.reader = "start"] ELSE a)
    <3> HIDE DEF y
    <3>1. /\ Core(y, PipeReqs, n) /\ SameBut(y, p, {"kernel", "pending", "ok", "reqs_pending"})
          /\ Outstanding(y) = Outstanding(p) \cup {"read"}
      <4>1. "read" \notin Outstanding(p)
        BY <1>2, <1>5
      <4>2. y = Given(p, "read") \/ y = Inserted(p, "read", TRUE) \/ y = Inserted(p, "read", FALSE)
        BY DEF y
      <4> QED BY ZenonT(30), <1>1, <1>5, <4>1, <4>2, PutKeeps
    <3>2. "read" \in y.kernel /\ y.ok = p.ok /\ y.kernel = p.kernel \cup {"read"}
      BY <1>5 DEF y, Given, PipeFields, BaseFields
    <3>3. a = EofTimerStart(y)
      BY DEF y
    <3> HIDE DEF a
    <3>4. SameBut(a, y, {"timer"}) /\ (a.timer = y.timer \/ (y.timer # "none" /\ a.timer = "on"))
      BY <1>5, <3>1, <3>3 DEF EofTimerStart, SameBut, PipeFields
    <3>5. /\ SameBut(g, a, {"thread", "reader"})
          /\ \/ g.thread = a.thread /\ g.reader = a.reader
             \/ g.thread = "null" /\ g.reader = "start" /\ Threaded(h)
      BY <2>1, <1>5, <3>1, <3>4 DEF SameBut, PipeFields
    <3>6. SameBut(g, y, {"timer", "thread", "reader"})
      BY <3>4, <3>5 DEF SameBut
    <3>7. {"timer", "thread", "reader"} \cap BaseFields = {}
      BY DEF BaseFields
    <3>8. /\ y.kernel = g.kernel /\ y.flags = g.flags /\ y.ok = g.ok /\ y.timer = h.timer
          /\ y.result = h.result /\ g.result = y.result /\ y.flags = p.flags /\ p.ok = h.ok /\ p.kernel = h.kernel
          /\ y.thread = h.thread /\ y.reader = h.reader
          /\ a.thread = y.thread /\ a.reader = y.reader /\ g.timer = a.timer
      BY <1>1, <1>4, <1>5, <3>1, <3>4, <3>6, <3>5 DEF SameBut, PipeFields, BaseFields
    <3>9. Alike(g, y) /\ ~On(y, "CLOSED")
      BY <1>5, <3>8 DEF Alike, On
    <3>10. Core(g, PipeReqs, n) /\ Outstanding(g) = Outstanding(y)
      BY <3>1, <3>6, <3>7, <3>9, OtherCore
    <3>11. SameBut(g, h, {"flags", "kernel", "pending", "ok", "reqs_pending", "thread", "reader",
                          "timer", "result"})
      BY <1>4, <3>1, <3>6 DEF SameBut
    <3>12. \/ g.thread = h.thread /\ g.reader = "none"
           \/ g.thread = "null" /\ g.reader \in {"none", "start"} /\ Threaded(h)
      BY <1>2, <3>5, <3>8
    <3>13. g.timer = h.timer \/ (h.timer # "none" /\ g.timer = "on")
      BY <3>4, <3>8
    <3>14. g.result \in {"ok", "error", "aborted"}
      BY <1>1, <3>8 DEF PipeTypes
    <3>15. ("connect" \in g.ok <=> "connect" \in h.ok) /\ ("connect" \in g.kernel <=> "connect" \in h.kernel)
           /\ "read" \in g.kernel
      <4>1. g.ok = h.ok
        BY <3>2, <3>8
      <4>2. g.kernel = h.kernel \cup {"read"}
        BY <3>2, <3>8
      <4> QED BY <4>1, <4>2
    <3>16. g.flags = p.flags /\ Outstanding(g) = Outstanding(h) \cup {"read"}
      BY <1>5, <3>1, <3>8, <3>10
    <3> QED BY <3>10, <3>11, <3>12, <3>13, <3>14, <3>15, <3>16
  <2>2. CASE g = [x EXCEPT !.result = "error"]
    <3> HIDE DEF x
    <3>1. SameBut(q, p, {"thread"}) /\ (q.thread = p.thread \/ (q.thread = "null" /\ Threaded(h)))
      BY <1>5 DEF SameBut, PipeFields
    <3>2. x = Inserted(q, "read", FALSE)
      BY DEF x
    <3> HIDE DEF q
    <3>3. q.flags = p.flags /\ DOMAIN q = PipeFields /\ q.ok = p.ok /\ q.kernel = p.kernel
      BY <1>5, <3>1 DEF SameBut, PipeFields, BaseFields
    <3>4. Core(q, PipeReqs, n) /\ Outstanding(q) = Outstanding(p) /\ ~On(q, "CLOSED")
      BY <3>3, <1>5, <3>1, OtherCore DEF BaseFields, Alike, On
    <3>5. /\ Core(x, PipeReqs, n) /\ SameBut(x, q, {"kernel", "pending", "ok", "reqs_pending"})
          /\ Outstanding(x) = Outstanding(q) \cup {"read"}
      <4>1. "read" \notin Outstanding(q)
        BY <1>2, <1>5, <3>4
      <4>2. x = Given(q, "read") \/ x = Inserted(q, "read", TRUE) \/ x = Inserted(q, "read", FALSE)
        BY <3>2
      <4> QED BY <1>1, <3>4, <4>1, <4>2, PutKeeps
    <3>6. x.kernel = q.kernel /\ x.ok = q.ok \ {"read"}
      BY <3>2, <3>3 DEF Inserted, PipeFields, BaseFields
    <3>7. SameBut(g, x, {"result"}) /\ g.result = "error"
      BY <2>2, <3>3, <3>5 DEF SameBut, PipeFields
    <3>8. /\ x.kernel = g.kernel /\ x.flags = g.flags /\ x.ok = g.ok /\ x.flags = p.flags /\ p.ok = h.ok
          /\ p.kernel = h.kernel /\ g.thread = q.thread /\ p.thread = h.thread /\ g.reader = h.reader
          /\ g.timer = h.timer
      BY <1>1, <1>4, <1>5, <3>1, <3>3, <3>5, <3>7 DEF SameBut, PipeFields, BaseFields
    <3>9. Alike(g, x) /\ ~On(x, "CLOSED") /\ {"result"} \cap BaseFields = {}
      BY <1>5, <3>8 DEF Alike, On, BaseFields
    <3>10. Core(g, PipeReqs, n) /\ Outstanding(g) = Outstanding(x)
      BY <3>5, <3>7, <3>9, OtherCore
    <3>11. SameBut(g, h, {"flags", "kernel", "pending", "ok", "reqs_pending", "thread", "reader",
                          "timer", "result"})
      BY <1>4, <3>1, <3>5, <3>7 DEF SameBut
    <3> QED BY <1>2, <1>5, <3>1, <3>3, <3>4, <3>5, <3>6, <3>7, <3>8, <3>10, <3>11
  <2> QED BY <1>3, <2>1, <2>2
<1>7. On(g, "READ_PENDING") /\ \A f : f # "READ_PENDING" => (On(g, f) <=> On(h, f))
  BY <1>4, <1>6 DEF On
<1>8. /\ g.pipe = h.pipe /\ g.early = h.early /\ g.shutdown_req = h.shutdown_req
      /\ g.input = h.input /\ g.avail = h.avail /\ g.ipc = h.ipc /\ g.payload_remaining = h.payload_remaining
      /\ g.ipc_xfer_queue = h.ipc_xfer_queue /\ g.spin = h.spin /\ g.pc = h.pc /\ g.cur = h.cur
      /\ g.activecnt = h.activecnt
  BY ZenonT(30), <1>1, <1>6 DEF SameBut, PipeFields, BaseFields
<1>9. PipeLinked(g)
  BY <1>1, <1>6, <1>7, <1>8 DEF PipeLinked, PipeTypes
<1>10. PipeReader(g)
  BY <1>1, <1>2, <1>6, <1>7, <1>8 DEF PipeReader, Threaded
<1>11. PipeInput(g)
  BY <1>1, <1>7, <1>8 DEF PipeInput
<1>12. PipeAt(g, k)
  BY ZenonT(30), <1>6, <1>7, <1>1, <1>8, <1>9, <1>10, <1>11, PipeAssumption, PipeCarry DEF SameBut, PipeLoose,
     EndDue, OneIf, PipeActive, n, PipeTypes, Threaded
<1> QED BY <1>7, <1>8, <1>12

\* The handler of a read has taken it, and the timer has stopped.
LEMMA PipeTakeReadAt ==
  ASSUME NEW h, PipeAt(h, "none"), "read" \in h.walk,
         NEW g, g = EofTimerStop(DecPending(Clear(Handling(h, "read"), {"READ_PENDING", "CANCELLATION_PENDING"})))
  PROVE  /\ PipeAt(g, "none") /\ ~On(g, "READ_PENDING") /\ g.spin = "none"
         /\ g.pc = h.pc /\ g.cur = h.cur /\ g.result = h.result /\ g.input = h.input
         /\ \A f : f \notin {"READ_PENDING", "CANCELLATION_PENDING", "ENDGAME_QUEUED"} => (On(g, f) <=> On(h, f))
<1> DEFINE n == PipeOn(h, "none")
           p == Handling(h, "read")
           q == Clear(p, {"READ_PENDING", "CANCELLATION_PENDING"})
           d == DecPending(q)
<1>1. /\ Core(h, PipeReqs, n) /\ DOMAIN h = PipeFields /\ BaseFields \subseteq DOMAIN h
      /\ PipeTypes(h) /\ PipeLinked(h) /\ PipeReader(h) /\ PipeInput(h) /\ PipeDue(h)
      /\ h.activecnt = h.active_reqs + OneIf(On(h, "READING")) /\ ~On(h, "CLOSED") /\ n \in Nat
  BY PipeCore
<1> HIDE DEF n
<1>2. h.reader = "none" /\ h.spin = "none" /\ h.thread # "thread"
  BY <1>1 DEF Core, HeldOnce, PipeReader, PipeTypes
<1>3. /\ Core(p, PipeReqs, n + 1) /\ SameBut(p, h, {"walk"})
      /\ Outstanding(p) = Outstanding(h) \ {"read"}
  BY <1>1, TakenKeeps
<1> HIDE DEF p
<1>4. p.flags = h.flags /\ DOMAIN p = PipeFields
  BY <1>1, <1>3 DEF SameBut, PipeFields, BaseFields
<1>5. /\ SameBut(q, p, {"flags"})
      /\ \A f : On(q, f) <=> On(p, f) /\ f \notin {"READ_PENDING", "CANCELLATION_PENDING"}
  BY <1>4, FlagsSame DEF PipeFields, BaseFields
<1> HIDE DEF q
<1>6. Core(q, PipeReqs, n + 1) /\ Outstanding(q) = Outstanding(p) /\ ~On(q, "CLOSED")
  BY <1>1, <1>4, <1>5, <1>3, OtherCore DEF Alike, On
<1>7. /\ Core(d, PipeReqs, n) /\ SameBut(d, q, {"flags", "reqs_pending"}) /\ Outstanding(d) = Outstanding(q)
      /\ \A f : f # "ENDGAME_QUEUED" => (On(d, f) <=> On(q, f))
      /\ EndDue(d) \/ On(q, "ENDGAME_QUEUED") <=> On(d, "ENDGAME_QUEUED")
  BY <1>1, <1>6, CountOffCore
<1>8. g = EofTimerStop(d)
  BY DEF q, p
<1> HIDE DEF d
<1>9. /\ SameBut(d, h, {"walk", "flags", "reqs_pending"}) /\ d.timer = h.timer /\ DOMAIN d = PipeFields
  BY <1>1, <1>3, <1>5, <1>7 DEF SameBut, PipeFields, BaseFields
<1>10. /\ SameBut(g, d, {"timer"}) /\ g.timer \in {"none", "idle"} /\ (h.timer = "none" => g.timer = "none")
  BY <1>1, <1>8, <1>9 DEF EofTimerStop, SameBut, PipeFields, PipeTypes
<1>11. g.flags = d.flags /\ g.reqs_pending = d.reqs_pending
  BY <1>9, <1>10 DEF SameBut, PipeFields, BaseFields
<1>12. Core(g, PipeReqs, n) /\ Outstanding(g) = Outstanding(d)
  BY <1>6, <1>7, <1>11, <1>10, OtherCore DEF Alike, On, BaseFields
<1>13. /\ SameBut(g, h, {"walk", "flags", "reqs_pending", "timer"})
       /\ Outstanding(g) = Outstanding(h) \ {"read"}
  BY <1>3, <1>6, <1>7, <1>9, <1>10, <1>12 DEF SameBut
<1>14. /\ \A f : f \notin {"READ_PENDING", "CANCELLATION_PENDING", "ENDGAME_QUEUED"} => (On(g, f) <=> On(h, f))
       /\ ~On(g, "READ_PENDING") /\ ~On(g, "CANCELLATION_PENDING")
       /\ On(h, "ENDGAME_QUEUED") => On(g, "ENDGAME_QUEUED")
       /\ EndDue(g) => On(g, "ENDGAME_QUEUED")
  BY <1>4, <1>5, <1>7, <1>11 DEF On, EndDue
<1>15. /\ g.pipe = h.pipe /\ g.early = h.early /\ g.shutdown_req = h.shutdown_req
       /\ g.input = h.input /\ g.avail = h.avail /\ g.ipc = h.ipc /\ g.payload_remaining = h.payload_remaining
       /\ g.ipc_xfer_queue = h.ipc_xfer_queue /\ g.spin = h.spin /\ g.pc = h.pc /\ g.cur = h.cur
       /\ g.activecnt = h.activecnt /\ g.result = h.result /\ g.ok = h.ok /\ g.kernel = h.kernel
       /\ g.thread = h.thread /\ g.reader = h.reader
  BY <1>1, <1>13 DEF SameBut, PipeFields, BaseFields
<1>16. PipeLinked(g)
  BY <1>1, <1>10, <1>13, <1>14, <1>15 DEF PipeLinked
<1>17. PipeReader(g)
  BY <1>1, <1>2, <1>14, <1>15 DEF PipeReader
<1>18. PipeInput(g)
  BY <1>1, <1>14, <1>15 DEF PipeInput
<1>19. PipeAt(g, "none")
  <2>1. SameBut(g, h, PipeLoose)
    BY <1>13 DEF SameBut, PipeLoose
  <2>2. ~On(g, "CLOSED") /\ (Threaded(h) => Threaded(g))
    BY <1>1, <1>14 DEF Threaded
  <2>3. g.activecnt = h.active_reqs + OneIf(On(g, "READING"))
    BY <1>1, <1>14, <1>15 DEF OneIf
  <2>4. Outstanding(g) \cap PipeActive = Outstanding(h) \cap PipeActive
    BY <1>13, PipeAssumption DEF PipeActive
  <2>5. Core(g, PipeReqs, PipeOn(h, "none"))
    BY <1>12 DEF n
  <2>6. /\ g.pipe \in BOOLEAN /\ g.early \in BOOLEAN /\ g.thread \in {"null", "thread", "invalid"}
        /\ g.reader \in {"none", "start", "reading", "leaving"}
        /\ g.spin \in {"none", "close", "stop", "name", "error"} /\ g.result \in {"ok", "error", "aborted"}
        /\ g.timer \in {"none", "on", "idle"}
    BY <1>1, <1>10, <1>15 DEF PipeTypes
  <2> QED BY <1>14, <1>16, <1>17, <1>18, <2>1, <2>2, <2>3, <2>4, <2>5, <2>6, PipeCarry
<1> QED BY <1>2, <1>14, <1>15, <1>19

\* uv__pipe_read_error_or_eof()
LEMMA PipeEndsAt ==
  ASSUME NEW h, NEW k, PipeAt(h, k), On(h, "READING"), h.spin = "none", NEW g, g = PipeEnds(h)
  PROVE  /\ PipeAt(g, k) /\ ~On(g, "READING") /\ g.cur = h.cur
         /\ \/ g.pc = "eof_cb" /\ g.spin = "none"
            \/ g.pc = h.pc /\ g.spin = "error" /\ On(h, "READ_PENDING")
<1> DEFINE t == [h EXCEPT !.timer = "none"]
           s == PipeStop(t)
<1>1. /\ DOMAIN h = PipeFields /\ PipeTypes(h) /\ PipeLinked(h) /\ PipeReader(h) /\ PipeInput(h)
      /\ ~On(h, "CLOSING")
  BY PipeCore DEF PipeLinked
<1>2. g = Interrupt(s, "error")
  BY DEF PipeEnds
<1>3. SameBut(t, h, {"timer"}) /\ t.timer = "none"
  BY <1>1 DEF SameBut, PipeFields
<1> HIDE DEF t
<1>4. /\ t.pipe = h.pipe /\ t.early = h.early /\ t.reader = h.reader /\ t.result = h.result
      /\ t.shutdown_req = h.shutdown_req /\ t.ok = h.ok /\ t.kernel = h.kernel
      /\ t.pending = h.pending /\ t.walk = h.walk /\ t.flags = h.flags /\ t.thread = h.thread
      /\ t.input = h.input /\ t.avail = h.avail /\ t.ipc = h.ipc /\ t.payload_remaining = h.payload_remaining
      /\ t.ipc_xfer_queue = h.ipc_xfer_queue /\ t.spin = h.spin /\ t.pc = h.pc /\ t.cur = h.cur
  BY <1>1, <1>3 DEF SameBut, PipeFields, BaseFields
<1>5. /\ \A f : On(t, f) <=> On(h, f)
      /\ Outstanding(t) = Outstanding(h)
  BY <1>4 DEF On, Outstanding
<1>6. PipeAt(t, k)
  BY <1>3, <1>1, <1>4, <1>5, PipeAside DEF SameBut, PipeLinked, PipeReader, Threaded, PipeInput,
     PipeTypes
<1>7. /\ PipeAt(s, k) /\ SameBut(s, t, {"flags", "counted", "activecnt"})
      /\ ~On(s, "READING") /\ \A f : f \notin {"ACTIVE", "READING"} => (On(s, f) <=> On(t, f))
  BY <1>5, <1>6, PipeStopAt
<1> HIDE DEF s
<1>8. s.spin = "none" /\ s.pc = h.pc /\ s.cur = h.cur /\ ~On(s, "CLOSING") /\ DOMAIN s = PipeFields
      /\ (On(s, "READ_PENDING") => On(h, "READ_PENDING"))
  BY <1>1, <1>3, <1>4, <1>5, <1>7 DEF SameBut, PipeFields, BaseFields
<1>9. \/ /\ PipeAt(g, k) /\ SameBut(g, s, {"spin"}) /\ g.spin = "error" /\ On(s, "READ_PENDING")
         /\ \A f : On(g, f) <=> On(s, f)
      \/ \E c : /\ PipeAt(c, k) /\ SameBut(c, s, {"flags", "thread"}) /\ Cut(c) /\ c.spin = "none"
                /\ \A f : f # "CANCELLATION_PENDING" => (On(c, f) <=> On(s, f))
                /\ Outstanding(c) = Outstanding(s)
                /\ g = GoesOn(c, "error")
  BY <1>2, <1>7, <1>8, InterruptAt
<1>10. CASE /\ PipeAt(g, k) /\ SameBut(g, s, {"spin"}) /\ g.spin = "error" /\ On(s, "READ_PENDING")
            /\ \A f : On(g, f) <=> On(s, f)
  BY <1>8, <1>10, <1>7 DEF SameBut, PipeFields, BaseFields
<1>11. CASE \E c : /\ PipeAt(c, k) /\ SameBut(c, s, {"flags", "thread"}) /\ Cut(c) /\ c.spin = "none"
                   /\ \A f : f # "CANCELLATION_PENDING" => (On(c, f) <=> On(s, f))
                   /\ Outstanding(c) = Outstanding(s)
                   /\ g = GoesOn(c, "error")
  BY <1>11, <1>8, <1>7, MovedAt DEF GoesOn, SameBut, PipeFields, BaseFields
<1> QED BY <1>9, <1>10, <1>11

LEMMA PipeProcessReadKeeps == ASSUME PipeInv, PipeProcessRead PROVE PipeInv'
<1> DEFINE h == EofTimerStop(DecPending(Clear(Handling(wh, "read"), {"READ_PENDING", "CANCELLATION_PENDING"})))
           l == [h EXCEPT !.pc = "read_loop", !.avail = Len(h.input)]
<1>1. /\ "read" \in wh.walk /\ wh.pc = "idle" /\ wh.spin = "none"
      /\ \/ ~On(h, "READING") /\ wh' = h
         \/ On(h, "READING") /\ wh' \in PipeQueueRead(h)
         \/ On(h, "READING") /\ wh' = PipeEnds(h)
         \/ On(h, "READING") /\ wh' = l
  BY DEF PipeProcessRead, PipeLoop, CanHandle
<1>2. PipeAt(wh, "none") /\ PipePc(wh) /\ wh.cur = "none"
  BY <1>1, PipeInvAt DEF PipeKind, Outstanding, PipePc
<1>3. /\ PipeAt(h, "none") /\ ~On(h, "READ_PENDING") /\ h.spin = "none" /\ h.pc = "idle" /\ h.cur = "none"
  BY <1>1, <1>2, PipeTakeReadAt
<1>4. /\ DOMAIN h = PipeFields /\ PipeTypes(h) /\ PipeLinked(h) /\ PipeReader(h) /\ PipeInput(h)
  BY <1>3, PipeCore
<1> HIDE DEF h
<1>5. CASE ~On(h, "READING") /\ wh' = h
  BY <1>3, <1>5 DEF PipeInv, PipeAt, PipePc, PipeKind
<1>6. CASE On(h, "READING") /\ wh' \in PipeQueueRead(h)
  BY <1>4, <1>6, <1>3, PipeQueueReadAt DEF PipeLinked, PipeInv, PipeAt, PipePc, PipeKind
<1>7. CASE On(h, "READING") /\ wh' = PipeEnds(h)
  BY <1>3, <1>7, PipeEndsAt DEF PipeInv, PipeAt, PipePc, PipeKind
<1>8. CASE On(h, "READING") /\ wh' = l
  <2>1. /\ SameBut(l, h, {"pc", "avail"}) /\ l.pc = "read_loop" /\ l.avail = Len(h.input) /\ l.cur = "none"
        /\ l.flags = h.flags /\ l.spin = "none"
    BY <1>3, <1>4 DEF SameBut, PipeFields, BaseFields
  <2> HIDE DEF l
  <2>2. PipeAt(l, "none")
    <3>1. /\ l.pipe = h.pipe /\ l.early = h.early /\ l.reader = h.reader /\ l.result = h.result
          /\ l.shutdown_req = h.shutdown_req /\ l.ok = h.ok /\ l.kernel = h.kernel /\ l.timer = h.timer
          /\ l.pending = h.pending /\ l.walk = h.walk /\ l.thread = h.thread
          /\ l.input = h.input /\ l.ipc = h.ipc /\ l.payload_remaining = h.payload_remaining
          /\ l.ipc_xfer_queue = h.ipc_xfer_queue
      BY <1>4, <2>1 DEF SameBut, PipeFields, BaseFields
    <3>2. /\ \A f : On(l, f) <=> On(h, f)
          /\ Outstanding(l) = Outstanding(h)
      BY <2>1, <3>1 DEF On, Outstanding
    <3>3. SameBut(l, h, {"flags", "pc", "cur", "thread", "reader", "spin", "result", "timer", "input",
                         "avail", "payload_remaining", "ipc_xfer_queue", "frames", "early", "pipe"})
      BY <2>1 DEF SameBut
    <3>4. PipeLinked(l)
      BY <1>4, <3>1, <3>2 DEF PipeLinked
    <3>5. PipeReader(l)
      BY <1>3, <1>4, <2>1, <3>1, <3>2 DEF PipeReader, Threaded
    <3>6. PipeInput(l)
      BY <1>4, <2>1, <3>1, <3>2 DEF PipeInput
    <3>7. /\ l.pipe \in BOOLEAN /\ l.early \in BOOLEAN /\ l.thread \in {"null", "thread", "invalid"}
          /\ l.reader \in {"none", "start", "reading", "leaving"}
          /\ l.spin \in {"none", "close", "stop", "name", "error"} /\ l.result \in {"ok", "error", "aborted"}
          /\ l.timer \in {"none", "on", "idle"} /\ (Threaded(h) => Threaded(l))
      BY <1>4, <2>1, <3>1, <3>2 DEF PipeTypes, Threaded
    <3> QED BY <1>3, <3>2, <3>3, <3>4, <3>5, <3>6, <3>7, PipeAside
  <2> QED BY <1>8, <2>1, <2>2 DEF PipeInv, PipeAt, PipePc, PipeKind
<1> QED BY <1>1, <1>5, <1>6, <1>7, <1>8

\* Only what was read, and what the other end wrote, is another.
LEMMA InputKeeps ==
  ASSUME NEW h, NEW k, PipeOk(h, k), PipeDue(h), NEW g,
         SameBut(g, h, {"input", "avail", "payload_remaining", "ipc_xfer_queue", "frames"}), PipeInput(g)
  PROVE  /\ PipeOk(g, k) /\ PipeDue(g) /\ (PipeAt(h, k) => PipeAt(g, k))
         /\ \A f : On(g, f) <=> On(h, f)
         /\ g.pc = h.pc /\ g.cur = h.cur /\ g.spin = h.spin
<1>1. /\ DOMAIN h = PipeFields /\ PipeTypes(h) /\ PipeCounts(h, k) /\ PipeWritten(h, k) /\ PipeLinked(h)
      /\ PipeReader(h)
  BY DEF PipeOk, PipeTypes
<1>2. /\ g.pipe = h.pipe /\ g.early = h.early /\ g.reader = h.reader /\ g.result = h.result
      /\ g.shutdown_req = h.shutdown_req /\ g.ok = h.ok /\ g.kernel = h.kernel /\ g.timer = h.timer
      /\ g.pending = h.pending /\ g.walk = h.walk /\ g.thread = h.thread /\ g.flags = h.flags
      /\ g.ipc = h.ipc /\ g.spin = h.spin /\ g.pc = h.pc /\ g.cur = h.cur /\ g.writes = h.writes
      /\ g.write_reqs_pending = h.write_reqs_pending /\ g.active_reqs = h.active_reqs
      /\ g.activecnt = h.activecnt /\ g.reqs_pending = h.reqs_pending /\ g.todo = h.todo
      /\ g.called = h.called /\ g.writer = h.writer /\ g.counted = h.counted /\ g.ends = h.ends
      /\ DOMAIN g = PipeFields
  BY <1>1 DEF SameBut, PipeFields, BaseFields
<1>3. Outstanding(g) = Outstanding(h) /\ \A f : On(g, f) <=> On(h, f)
  BY <1>2 DEF Outstanding, On
<1>4. PipeTypes(g)
  BY <1>1, <1>2 DEF PipeTypes
<1>5. PipeLinked(g) /\ PipeReader(g) /\ PipeWritten(g, k)
  BY <1>1, <1>2, <1>3 DEF PipeLinked, PipeReader, PipeWritten, Threaded
<1>6. PipeCounts(g, k)
  <2> DEFINE n == Len(h.writes) + OneIf(k # "none") + OneIf(h.shutdown_req)
  <2>1. Core(h, PipeReqs, n)
    BY <1>1 DEF PipeCounts
  <2> HIDE DEF n
  <2>2. Core(g, PipeReqs, n)
    BY <1>2, <1>3, <2>1 DEF Core, EndsOnce, CountSound, Kept, HeldOnce, PipeFields
  <2>3. Core(g, PipeReqs, Len(g.writes) + OneIf(k # "none") + OneIf(g.shutdown_req))
    BY <1>2, <2>2 DEF n
  <2>4. OneIf(On(g, "READING")) = OneIf(On(h, "READING"))
    BY <1>3 DEF OneIf
  <2> QED BY <1>1, <1>2, <1>3, <2>3, <2>4 DEF PipeCounts
<1>7. PipeDue(g)
  BY <1>2, <1>3 DEF PipeDue, EndDue
<1> QED BY <1>2, <1>3, <1>4, <1>5, <1>6, <1>7 DEF PipeOk, PipeAt

LEMMA ChunkLengths ==
  ASSUME NEW q, q \in Seq(Chunk)
  PROVE  Len(q) \in Nat /\ \A i \in 1 .. Len(q) : q[i].length \in Nat
<1>1. Len(q) \in Nat /\ \A i \in 1 .. Len(q) : q[i] \in Chunk
  OBVIOUS
<1>2. ASSUME NEW c \in Chunk PROVE c.length \in Nat
  BY DEF Chunk
<1> QED BY <1>1, <1>2

LEMMA Dropped ==
  ASSUME NEW S, NEW q, q \in Seq(S), NEW n, n \in 0 .. Len(q), NEW b, b = n + 1,
         NEW t, t = SubSeq(q, b, Len(q))
  PROVE  /\ t \in Seq(S) /\ Len(t) = Len(q) - n
         /\ \A i \in 1 .. Len(t) : t[i] = q[i + n]
OBVIOUS

\* Pieces of a frame are taken, the start of one, or one more comes.
LEMMA FramesTaken ==
  ASSUME NEW q, NEW m, Frames(q, m), NEW n \in 0 .. m
  PROVE  Frames(SubSeq(q, n + 1, Len(q)), m - n)
<1> DEFINE t == SubSeq(q, n + 1, Len(q))
<1>0. q \in Seq(Chunk) /\ m \in 0 .. Len(q)
  BY DEF Frames
<1>1. q \in Seq(Chunk) /\ m \in 0 .. Len(q) /\ n \in Nat /\ Len(q) \in Nat /\ m \in Nat /\ n <= m
      /\ m <= Len(q)
  BY <1>0, ChunkLengths
<1>2. t \in Seq(Chunk) /\ Len(t) = Len(q) - n /\ \A i \in 1 .. Len(t) : t[i] = q[i + n]
  BY <1>1, Dropped
<1>3. \A i \in 1 .. Len(q) : q[i].length \in Nat
  BY <1>1, ChunkLengths
<1> HIDE DEF t
<1>4. ASSUME NEW i \in 1 .. m - n PROVE ~t[i].header
  <2>1. i \in 1 .. Len(t) /\ i + n \in 1 .. m
    BY <1>1, <1>2
  <2>2. t[i] = q[i + n]
    BY <1>2, <2>1
  <2>3. ~q[i + n].header
    BY <2>1 DEF Frames
  <2> QED BY <2>2, <2>3
<1>5. m - n < Len(t) => t[m - n + 1].header
  <2>1. m < Len(q) => q[m + 1].header
    BY DEF Frames
  <2>2. m - n < Len(t) => m - n + 1 \in 1 .. Len(t) /\ m < Len(q) /\ m - n + 1 + n = m + 1
    BY <1>1, <1>2
  <2> QED BY <1>2, <2>1, <2>2
<1>6. ASSUME NEW i \in 1 .. Len(t), t[i].header
      PROVE  /\ i + t[i].length <= Len(t)
             /\ \A j \in i + 1 .. i + t[i].length : ~t[j].header
             /\ i + t[i].length < Len(t) => t[i + t[i].length + 1].header
  <2> DEFINE a == i + n
             l == q[a].length
  <2>1. a \in 1 .. Len(q) /\ t[i] = q[a] /\ q[a].header /\ l \in Nat
    BY <1>1, <1>2, <1>3, <1>6
  <2>2. /\ a + l <= Len(q)
        /\ \A j \in a + 1 .. a + l : ~q[j].header
        /\ a + l < Len(q) => q[a + l + 1].header
    BY <2>1 DEF Frames
  <2>3. t[i].length = l
    BY <2>1
  <2> HIDE DEF l
  <2>4. i + l <= Len(t)
    BY <1>1, <1>2, <2>2, <2>1
  <2>5. ASSUME NEW j \in i + 1 .. i + l
        PROVE  ~t[j].header
    BY <1>1, <1>2, <2>1, <2>4, <2>2
  <2>6. i + l < Len(t) => t[i + l + 1].header
    <3>1. i + l < Len(t) => i + l + 1 \in 1 .. Len(t) /\ a + l < Len(q) /\ i + l + 1 + n = a + l + 1
      BY <1>1, <1>2, <2>1
    <3> QED BY <1>2, <2>2, <3>1
  <2> QED BY <2>3, <2>4, <2>5, <2>6
<1>7. m - n \in 0 .. Len(t)
  BY <1>1, <1>2
<1> QED BY <1>2, <1>4, <1>5, <1>6, <1>7 DEF Frames, t

LEMMA FramesHead ==
  ASSUME NEW q, Frames(q, 0), Len(q) > 0
  PROVE  /\ Head(q).header /\ Frames(SubSeq(q, 2, Len(q)), Head(q).length)
<1> DEFINE t == SubSeq(q, 2, Len(q))
           l == q[1].length
<1>1. q \in Seq(Chunk) /\ Len(q) \in Nat /\ Head(q) = q[1] /\ 1 \in 1 .. Len(q)
  BY ChunkLengths DEF Frames
<1>2. t \in Seq(Chunk) /\ Len(t) = Len(q) - 1 /\ \A i \in 1 .. Len(t) : t[i] = q[i + 1]
  <2> DEFINE one == 1
             two == 2
  <2>1. one \in 0 .. Len(q) /\ two = one + 1 /\ t = SubSeq(q, two, Len(q))
    BY <1>1
  <2> HIDE DEF one, two, t
  <2>2. t \in Seq(Chunk) /\ Len(t) = Len(q) - one /\ \A i \in 1 .. Len(t) : t[i] = q[i + one]
    BY <1>1, <2>1, Dropped
  <2> QED BY <2>2 DEF one
<1>3. \A i \in 1 .. Len(q) : q[i].length \in Nat
  BY <1>1, ChunkLengths
<1>4. q[1].header
  BY <1>1 DEF Frames
<1>5. /\ 1 + l <= Len(q)
      /\ \A j \in 1 + 1 .. 1 + l : ~q[j].header
      /\ 1 + l < Len(q) => q[1 + l + 1].header
  BY <1>1, <1>4 DEF Frames
<1>6. l \in Nat
  BY <1>1, <1>3
<1> HIDE DEF t, l
<1>7. l \in 0 .. Len(t) /\ (\A i \in 1 .. l : ~t[i].header) /\ (l < Len(t) => t[l + 1].header)
  <2>1. l \in 0 .. Len(t)
    BY <1>1, <1>2, <1>5, <1>6
  <2>2. ASSUME NEW i \in 1 .. l
        PROVE  ~t[i].header
    BY <1>2, <1>6, <2>1, <1>5
  <2>3. l < Len(t) => t[l + 1].header
    BY <1>1, <1>2, <1>6, <1>5
  <2> QED BY <2>1, <2>2, <2>3
<1>8. ASSUME NEW i \in 1 .. Len(t), t[i].header
      PROVE  /\ i + t[i].length <= Len(t)
             /\ \A j \in i + 1 .. i + t[i].length : ~t[j].header
             /\ i + t[i].length < Len(t) => t[i + t[i].length + 1].header
  <2> DEFINE a == i + 1
             b == q[a].length
  <2>1. a \in 1 .. Len(q) /\ t[i] = q[a] /\ q[a].header /\ b \in Nat
    BY <1>1, <1>2, <1>3, <1>8
  <2>2. /\ a + b <= Len(q)
        /\ \A j \in a + 1 .. a + b : ~q[j].header
        /\ a + b < Len(q) => q[a + b + 1].header
    BY <2>1 DEF Frames
  <2>3. t[i].length = b
    BY <2>1
  <2> HIDE DEF b
  <2>4. i + b <= Len(t)
    BY <1>1, <1>2, <2>2, <2>1
  <2>5. ASSUME NEW j \in i + 1 .. i + b
        PROVE  ~t[j].header
    BY <1>1, <1>2, <2>1, <2>4, <2>2
  <2>6. i + b < Len(t) => t[i + b + 1].header
    BY <1>1, <1>2, <2>1, <2>2
  <2> QED BY <2>3, <2>4, <2>5, <2>6
<1> QED BY <1>1, <1>2, <1>4, <1>7, <1>8 DEF Frames, t, l

LEMMA FrameShape ==
  ASSUME NEW n \in {0, 2}, NEW x \in BOOLEAN
  PROVE  /\ Frame(n, x) \in Seq(Chunk) /\ Len(Frame(n, x)) = n + 1
         /\ Frame(n, x)[1].header /\ Frame(n, x)[1].length = n
         /\ \A i \in 2 .. n + 1 : ~Frame(n, x)[i].header
<1> DEFINE head == [header |-> TRUE, length |-> n, xfer |-> x]
           piece == [header |-> FALSE, length |-> 0, xfer |-> FALSE]
           rest == [i \in 1 .. n |-> piece]
<1>1. head \in Chunk /\ piece \in Chunk
  BY DEF Chunk
<1>2. rest \in Seq(Chunk) /\ Len(rest) = n /\ \A i \in 1 .. n : rest[i] = piece
  <2> HIDE DEF piece
  <2>1. rest \in Seq(Chunk) /\ Len(rest) = n
    BY <1>1
  <2> QED BY <2>1
<1>3. Frame(n, x) = <<head>> \o rest
  BY DEF Frame
<1>4. head.header /\ head.length = n /\ ~piece.header
  OBVIOUS
<1> HIDE DEF head, piece, rest
<1>5. <<head>> \in Seq(Chunk) /\ Len(<<head>>) = 1 /\ <<head>>[1] = head
  BY <1>1
<1>6. /\ Frame(n, x) \in Seq(Chunk) /\ Len(Frame(n, x)) = n + 1 /\ Frame(n, x)[1] = head
      /\ \A i \in 2 .. n + 1 : Frame(n, x)[i] = rest[i - 1]
  BY <1>2, <1>3, <1>5
<1>7. \A i \in 2 .. n + 1 : Frame(n, x)[i] = piece
  BY <1>2, <1>6
<1> QED BY <1>4, <1>6, <1>7

LEMMA FramesMore ==
  ASSUME NEW q, NEW m, Frames(q, m), NEW n \in {0, 2}, NEW x \in BOOLEAN
  PROVE  Frames(q \o Frame(n, x), m)
<1> DEFINE f == Frame(n, x)
           t == q \o f
<1>1. q \in Seq(Chunk) /\ m \in 0 .. Len(q) /\ Len(q) \in Nat /\ m \in Nat
  BY DEF Frames
<1>2. /\ f \in Seq(Chunk) /\ Len(f) = n + 1 /\ f[1].header /\ f[1].length = n
      /\ \A i \in 2 .. n + 1 : ~f[i].header
  BY FrameShape
<1> HIDE DEF f
<1>3. /\ t \in Seq(Chunk) /\ Len(t) = Len(q) + n + 1
      /\ \A i \in 1 .. Len(q) : t[i] = q[i]
      /\ \A i \in 1 .. n + 1 : t[Len(q) + i] = f[i]
  BY <1>1, <1>2
<1>4. \A i \in 1 .. Len(q) : q[i].length \in Nat
  BY <1>1, ChunkLengths
<1> HIDE DEF t
<1>5. (\A i \in 1 .. m : ~t[i].header) /\ t[m + 1].header /\ m \in 0 .. Len(t)
  <2>1. \A i \in 1 .. m : ~t[i].header
    BY <1>1, <1>3 DEF Frames
  <2>2. CASE m < Len(q)
    BY <1>1, <1>3, <2>1, <2>2 DEF Frames
  <2>3. CASE m = Len(q)
    <3>1. 1 \in 1 .. n + 1 /\ m + 1 = Len(q) + 1 /\ m \in 0 .. Len(t)
      BY <1>1, <1>3, <2>3
    <3>2. t[m + 1] = f[1]
      BY <1>3, <3>1
    <3> QED BY <1>2, <2>1, <3>1, <3>2
  <2> QED BY <1>1, <2>2, <2>3
<1>6. ASSUME NEW i \in 1 .. Len(t), t[i].header
      PROVE  /\ i + t[i].length <= Len(t)
             /\ \A j \in i + 1 .. i + t[i].length : ~t[j].header
             /\ i + t[i].length < Len(t) => t[i + t[i].length + 1].header
  <2>1. CASE i <= Len(q)
    <3> DEFINE l == q[i].length
    <3>1. i \in 1 .. Len(q) /\ t[i] = q[i] /\ l \in Nat
      BY <1>1, <1>3, <1>4, <2>1
    <3>2. /\ i + l <= Len(q)
          /\ \A j \in i + 1 .. i + l : ~q[j].header
          /\ i + l < Len(q) => q[i + l + 1].header
      BY <1>6, <3>1 DEF Frames
    <3>3. t[i].length = l
      BY <3>1
    <3> HIDE DEF l
    <3>4. i + l <= Len(t)
      BY <1>1, <1>3, <3>1, <3>2
    <3>5. ASSUME NEW j \in i + 1 .. i + l
          PROVE  ~t[j].header
      <4>1. j \in 1 .. Len(q)
        BY <1>1, <3>1, <3>2
      <4> QED BY <1>3, <3>2, <4>1
    <3>6. t[i + l + 1].header
      <4>1. CASE i + l < Len(q)
        <5>1. i + l + 1 \in 1 .. Len(q)
          BY <1>1, <3>1, <4>1
        <5> QED BY <1>3, <3>2, <4>1, <5>1
      <4>2. CASE i + l = Len(q)
        BY <4>2, <1>2, <1>3
      <4> QED BY <1>1, <3>1, <3>2, <4>1, <4>2
    <3> QED BY <3>3, <3>4, <3>5, <3>6
  <2>2. CASE i > Len(q)
    <3>1. i = Len(q) + 1
      <4>1. i - Len(q) \in 1 .. n + 1 /\ i = Len(q) + (i - Len(q))
        BY <1>1, <1>3, <2>2
      <4>2. t[i] = f[i - Len(q)]
        BY <1>3, <4>1
      <4>3. i - Len(q) \notin 2 .. n + 1
        BY <1>2, <1>6, <4>2
      <4> QED BY <1>1, <4>1, <4>3
    <3>2. t[i] = f[1] /\ t[i].length = n
      BY <1>2, <1>3, <3>1
    <3>3. i + n = Len(t)
      BY <1>1, <1>3, <3>1
    <3>4. ASSUME NEW j \in i + 1 .. i + n
          PROVE  ~t[j].header
      <4>1. j - Len(q) \in 2 .. n + 1 /\ j - Len(q) \in 1 .. n + 1 /\ j = Len(q) + (j - Len(q))
        BY <1>1, <3>1
      <4> QED BY <1>2, <1>3, <4>1
    <3> QED BY <1>1, <3>2, <3>3, <3>4
  <2> QED BY <1>1, <2>1, <2>2
<1> QED BY <1>3, <1>5, <1>6 DEF Frames, t, f

LEMMA PipeReadStartKeeps == ASSUME PipeInv, uv__pipe_read_start PROVE PipeInv'
<1> DEFINE k == PipeKind(wh)
           h == IncActive(Set(wh, {"READING"}))
<1>1. /\ wh.pc # "read_loop" /\ wh.spin = "none" /\ ~On(wh, "CLOSING") /\ wh.pipe /\ On(wh, "CONNECTION")
      /\ On(wh, "READABLE") /\ ~On(wh, "READING")
      /\ \/ On(wh, "READ_PENDING") /\ wh' = h
         \/ ~On(wh, "READ_PENDING") /\ wh' \in PipeQueueRead(h)
  BY DEF uv__pipe_read_start, PipeUser, IsSet
<1>2. PipeAt(wh, k) /\ PipePc(wh) /\ DOMAIN wh = PipeFields
  BY <1>1, PipeInvAt
<1> HIDE DEF k
<1>3. /\ PipeAt(h, k) /\ SameBut(h, wh, {"flags", "counted", "activecnt"})
      /\ On(h, "READING") /\ \A f : f \notin {"ACTIVE", "READING"} => (On(h, f) <=> On(wh, f))
  BY <1>1, <1>2, PipeStartAt
<1> HIDE DEF h
<1>4. h.pc = wh.pc /\ h.cur = wh.cur /\ h.spin = "none" /\ h.pipe = wh.pipe
  BY <1>1, <1>2, <1>3 DEF SameBut, PipeFields, BaseFields
<1>5. CASE On(wh, "READ_PENDING") /\ wh' = h
  BY <1>2, <1>3, <1>4, <1>5 DEF PipePc, PipeKind, k, PipeInv, PipeAt
<1>6. CASE ~On(wh, "READ_PENDING") /\ wh' \in PipeQueueRead(h)
  BY <1>1, <1>3, <1>4, <1>6, <1>2, PipeQueueReadAt DEF PipePc, PipeKind, k, PipeInv, PipeAt
<1> QED BY <1>1, <1>5, <1>6

\* The loop over what a read may take
LEMMA TurnAt ==
  ASSUME PipeInv, CanTurn
  PROVE  /\ PipeAt(wh, "none") /\ wh.pc = "read_loop" /\ wh.cur = "none" /\ wh.spin = "none"
         /\ On(wh, "READING") /\ DOMAIN wh = PipeFields /\ wh.avail > 0 /\ PipeInput(wh) /\ PipeTypes(wh)
BY PipeInvAt, PipeCore DEF CanTurn, IsSet, PipeKind, PipePc

\* The callback of the user is called with what was read.
LEMMA ReadAt ==
  ASSUME NEW h, PipeAt(h, "none"), h.cur = "none", h.spin = "none", NEW g, NEW pc,
         pc \in {"read_loop", "read_cb"},
         SameBut(g, h, {"pc", "input", "avail", "payload_remaining", "ipc_xfer_queue", "frames"}),
         g.pc = pc, PipeInput(g)
  PROVE  PipeOk(g, PipeKind(g)) /\ PipeDue(g) /\ PipePc(g)
<1> DEFINE m == [h EXCEPT !.pc = pc]
<1>1. DOMAIN h = PipeFields /\ PipeInput(h)
  BY PipeCore
<1>2. SameBut(m, h, {"pc", "cur"}) /\ m.pc = pc /\ m.cur = "none" /\ DOMAIN m = PipeFields
  BY <1>1 DEF SameBut, PipeFields, BaseFields
<1> HIDE DEF m
<1>3. PipeAt(m, "none") /\ m.spin = "none"
  BY <1>2, MovedAt
<1>4. SameBut(g, m, {"input", "avail", "payload_remaining", "ipc_xfer_queue", "frames"})
  BY <1>1, <1>2 DEF SameBut, PipeFields, BaseFields
<1>5. PipeAt(g, "none") /\ g.pc = pc /\ g.cur = "none" /\ g.spin = "none"
  BY <1>2, <1>3, <1>4, InputKeeps DEF PipeAt
<1>6. PipeKind(g) = "none" /\ PipePc(g)
  BY <1>5 DEF PipeKind, PipePc
<1> QED BY <1>5, <1>6 DEF PipeAt

LEMMA PipeReadDataKeeps == ASSUME PipeInv, ReadData PROVE PipeInv'
<1>1. /\ PipeAt(wh, "none") /\ wh.pc = "read_loop" /\ wh.cur = "none" /\ wh.spin = "none"
      /\ On(wh, "READING") /\ DOMAIN wh = PipeFields /\ wh.avail > 0 /\ PipeInput(wh) /\ PipeTypes(wh)
  BY TurnAt DEF ReadData
<1>2. wh.ipc => wh.payload_remaining > 0
  BY DEF ReadData
<1>3. CASE \E n \in 1..ReadLimit :
             wh' = [Take(wh, n) EXCEPT !.pc = "read_cb",
                                       !.payload_remaining = IF wh.ipc THEN @ - n ELSE @]
  <2>1. PICK n \in 1..ReadLimit :
             wh' = [Take(wh, n) EXCEPT !.pc = "read_cb",
                                       !.payload_remaining = IF wh.ipc THEN @ - n ELSE @]
    BY <1>3
  <2> DEFINE a == wh.avail
             q == wh.input
             t == SubSeq(q, n + 1, Len(q))
  <2>2. q \in Seq(Chunk) /\ Len(q) \in Nat /\ a \in 0 .. Len(q)
    BY <1>1, ChunkLengths DEF PipeInput
  <2>3. n \in 0 .. Len(q) /\ (wh.ipc => wh.payload_remaining \in Nat /\ n \in 0 .. wh.payload_remaining)
    BY <1>1, <2>2 DEF PipeInput, ReadLimit, Frames
  <2>4. /\ SameBut(wh', wh, {"pc", "input", "avail", "payload_remaining", "ipc_xfer_queue", "frames"})
        /\ wh'.pc = "read_cb" /\ wh'.input = t
        /\ wh'.avail = (IF n > a THEN 0 ELSE a - n)
        /\ wh'.ipc = wh.ipc /\ wh'.flags = wh.flags /\ wh'.ipc_xfer_queue = wh.ipc_xfer_queue
        /\ wh.ipc => wh'.payload_remaining = wh.payload_remaining - n
    BY <1>1, <2>1 DEF Take, SameBut, PipeFields, BaseFields
  <2>5. t \in Seq(Chunk) /\ Len(t) = Len(q) - n
    BY <2>2, <2>3, Dropped
  <2>6. wh'.avail \in 0 .. Len(t)
    <3> HIDE DEF a, q, t
    <3>1. CASE n > a
      BY <2>2, <2>3, <2>4, <2>5, <3>1
    <3>2. CASE ~(n > a)
      BY <2>2, <2>3, <2>4, <2>5, <3>2
    <3> QED BY <3>1, <3>2
  <2>7. wh.ipc => Frames(t, wh.payload_remaining - n)
    BY <1>1, <2>3, FramesTaken DEF PipeInput
  <2>8. On(wh', "CLOSED") => wh'.ipc_xfer_queue = 0
    BY <1>1, <2>4 DEF PipeInput, On
  <2> HIDE DEF t
  <2>9. PipeInput(wh')
    BY <2>4, <2>5, <2>6, <2>7, <2>8 DEF PipeInput
  <2>10. PipeOk(wh', PipeKind(wh')) /\ PipeDue(wh') /\ PipePc(wh')
    BY <1>1, <2>4, <2>9, ReadAt
  <2> QED BY <2>10 DEF PipeInv
<1>4. CASE wh' = [wh EXCEPT !.pc = "read_cb", !.avail = 0]
  <2>1. /\ SameBut(wh', wh, {"pc", "input", "avail", "payload_remaining", "ipc_xfer_queue", "frames"})
        /\ wh'.pc = "read_cb" /\ wh'.input = wh.input /\ wh'.avail = 0 /\ wh'.flags = wh.flags
        /\ wh'.ipc = wh.ipc /\ wh'.ipc_xfer_queue = wh.ipc_xfer_queue
        /\ wh'.payload_remaining = wh.payload_remaining
    BY <1>1, <1>4 DEF SameBut, PipeFields, BaseFields
  <2>2. PipeInput(wh')
    BY <1>1, <2>1 DEF PipeInput, On
  <2>3. PipeOk(wh', PipeKind(wh')) /\ PipeDue(wh') /\ PipePc(wh')
    BY <1>1, <2>1, <2>2, ReadAt
  <2> QED BY <2>3 DEF PipeInv
<1>5. CASE wh' = PipeEnds(wh)
  BY <1>1, <1>5, PipeEndsAt DEF PipeInv, PipeAt, PipePc, PipeKind
<1> QED BY <1>3, <1>4, <1>5 DEF ReadData

LEMMA PipeReadFrameKeeps == ASSUME PipeInv, ReadFrame PROVE PipeInv'
<1>1. /\ PipeAt(wh, "none") /\ wh.pc = "read_loop" /\ wh.cur = "none" /\ wh.spin = "none"
      /\ On(wh, "READING") /\ DOMAIN wh = PipeFields /\ wh.avail > 0 /\ PipeInput(wh) /\ PipeTypes(wh)
  BY TurnAt DEF ReadFrame
<1>2. wh.ipc /\ wh.payload_remaining = 0
  BY DEF ReadFrame
<1> DEFINE q == wh.input
           t == SubSeq(q, 2, Len(q))
           a == wh.avail
<1>3. Frames(q, 0) /\ q \in Seq(Chunk) /\ Len(q) \in Nat /\ a \in 0 .. Len(q) /\ Len(q) > 0 /\ a > 0
  BY <1>1, <1>2, ChunkLengths DEF PipeInput
<1>4. Head(q).header /\ Frames(t, Head(q).length)
  BY <1>3, FramesHead
<1>5. wh' = [Take(wh, 1) EXCEPT !.payload_remaining = Head(q).length,
                                !.ipc_xfer_queue = @ + (IF Head(q).xfer THEN 1 ELSE 0)]
  BY <1>4 DEF ReadFrame
<1>6. /\ SameBut(wh', wh, {"pc", "input", "avail", "payload_remaining", "ipc_xfer_queue", "frames"})
      /\ wh'.pc = "read_loop" /\ wh'.input = SubSeq(q, 1 + 1, Len(q))
      /\ wh'.avail = (IF 1 > a THEN 0 ELSE a - 1)
      /\ wh'.ipc = wh.ipc /\ wh'.flags = wh.flags /\ wh'.payload_remaining = Head(q).length
  BY <1>1, <1>5 DEF Take, SameBut, PipeFields, BaseFields
<1>7. wh'.input = t
  BY <1>6
<1>8. t \in Seq(Chunk) /\ Len(t) = Len(q) - 1
  BY <1>3
<1>9. wh'.avail \in 0 .. Len(t)
  <2> HIDE DEF a, q, t
  <2> QED BY <1>3, <1>6, <1>8
<1>10. ~On(wh', "CLOSED")
  BY <1>1, <1>6 DEF PipeAt, On
<1> HIDE DEF t
<1>11. PipeInput(wh')
  BY <1>2, <1>4, <1>6, <1>7, <1>8, <1>9, <1>10 DEF PipeInput
<1>12. PipeOk(wh', PipeKind(wh')) /\ PipeDue(wh') /\ PipePc(wh')
  BY <1>1, <1>6, <1>11, ReadAt
<1> QED BY <1>12 DEF PipeInv

LEMMA PipeReadAgainKeeps == ASSUME PipeInv, PipeReadAgain PROVE PipeInv'
BY PipeInvAt, MovedAt DEF PipeReadAgain, PipeLoop, PipeKind, PipePc, SameBut, PipeFields,
   BaseFields, PipeInv, PipeAt

LEMMA PipeReadDoneKeeps == ASSUME PipeInv, PipeReadDone PROVE PipeInv'
<1> DEFINE r == Returned(wh)
           h == [r EXCEPT !.avail = 0]
<1>1. /\ wh.pc \in {"eof_cb", "read_loop"} /\ wh.spin = "none"
      /\ \/ On(wh, "READING") /\ ~On(wh, "READ_PENDING") /\ wh' \in PipeQueueRead(h)
         \/ ~(On(wh, "READING") /\ ~On(wh, "READ_PENDING")) /\ wh' = h
  BY DEF PipeReadDone, PipeLoop, IsSet
<1>2. PipeAt(wh, "none") /\ DOMAIN wh = PipeFields
  BY <1>1, PipeInvAt DEF PipeKind
<1>3. /\ PipeAt(r, "none") /\ SameBut(r, wh, {"pc", "cur"}) /\ r.pc = "idle" /\ r.cur = "none"
      /\ r.spin = "none" /\ \A f : On(r, f) <=> On(wh, f)
  BY <1>1, <1>2, PipeCalledAt
<1> HIDE DEF r
<1>4. DOMAIN r = PipeFields /\ PipeInput(r)
  BY <1>3, PipeCore
<1>5. /\ SameBut(h, r, {"input", "avail", "payload_remaining", "ipc_xfer_queue", "frames"})
      /\ h.input = r.input /\ h.avail = 0 /\ h.ipc = r.ipc /\ h.payload_remaining = r.payload_remaining
      /\ h.flags = r.flags /\ h.ipc_xfer_queue = r.ipc_xfer_queue
  BY <1>4 DEF SameBut, PipeFields, BaseFields
<1> HIDE DEF h
<1>6. PipeInput(h)
  BY <1>4, <1>5 DEF PipeInput, On
<1>7. /\ PipeAt(h, "none") /\ h.pc = "idle" /\ h.cur = "none" /\ h.spin = "none"
      /\ \A f : On(h, f) <=> On(wh, f)
  BY <1>3, <1>5, <1>6, InputKeeps DEF PipeAt
<1>8. CASE On(wh, "READING") /\ ~On(wh, "READ_PENDING") /\ wh' \in PipeQueueRead(h)
  BY <1>7, <1>8, PipeCore, PipeQueueReadAt DEF PipeLinked, PipeInv, PipeAt, PipePc, PipeKind
<1>9. CASE ~(On(wh, "READING") /\ ~On(wh, "READ_PENDING")) /\ wh' = h
  BY <1>7, <1>9 DEF PipeInv, PipeAt, PipePc, PipeKind
<1> QED BY <1>1, <1>8, <1>9

\* The other end writes; a socket that came is taken.
LEMMA PipePeerKeeps == ASSUME PipeInv, AcceptXfer \/ PeerWrites PROVE PipeInv'
<1>1. /\ PipeOk(wh, PipeKind(wh)) /\ PipeDue(wh) /\ PipePc(wh) /\ DOMAIN wh = PipeFields /\ PipeInput(wh)
  BY DEF PipeInv, PipeOk, PipeTypes
<1>2. /\ SameBut(wh', wh, {"input", "avail", "payload_remaining", "ipc_xfer_queue", "frames"})
      /\ PipeInput(wh')
  <2>1. CASE AcceptXfer
    <3>1. wh' = [wh EXCEPT !.ipc_xfer_queue = @ - 1] /\ ~On(wh, "CLOSING")
      BY <2>1 DEF AcceptXfer, IsSet
    <3>2. ~On(wh, "CLOSED")
      BY <1>1, <3>1 DEF PipeOk, PipeCounts, Core, EndsOnce
    <3>3. /\ SameBut(wh', wh, {"input", "avail", "payload_remaining", "ipc_xfer_queue", "frames"})
          /\ wh'.input = wh.input /\ wh'.avail = wh.avail /\ wh'.ipc = wh.ipc
          /\ wh'.payload_remaining = wh.payload_remaining /\ wh'.flags = wh.flags
      BY <1>1, <3>1 DEF SameBut, PipeFields, BaseFields
    <3> QED BY <1>1, <3>2, <3>3 DEF PipeInput, On
  <2>2. CASE PeerWrites
    <3>1. PICK n \in {0, 2}, x \in BOOLEAN :
             /\ ~wh.ipc => n > 0 /\ ~x
             /\ wh' = [wh EXCEPT !.frames = @ + 1,
                           !.input = @ \o (IF wh.ipc THEN Frame(n, x) ELSE Tail(Frame(n, x)))]
      BY <2>2 DEF PeerWrites
    <3> DEFINE q == wh.input
               f == IF wh.ipc THEN Frame(n, x) ELSE Tail(Frame(n, x))
    <3>2. /\ SameBut(wh', wh, {"input", "avail", "payload_remaining", "ipc_xfer_queue", "frames"})
          /\ wh'.input = q \o f /\ wh'.avail = wh.avail /\ wh'.ipc = wh.ipc
          /\ wh'.payload_remaining = wh.payload_remaining /\ wh'.flags = wh.flags
          /\ wh'.ipc_xfer_queue = wh.ipc_xfer_queue
      BY <1>1, <3>1 DEF SameBut, PipeFields, BaseFields
    <3>3. f \in Seq(Chunk)
      <4>1. Frame(n, x) \in Seq(Chunk) /\ Len(Frame(n, x)) = n + 1
        BY FrameShape
      <4>2. Tail(Frame(n, x)) \in Seq(Chunk)
        <5> DEFINE y == Frame(n, x)
        <5>1. y \in Seq(Chunk) /\ y # <<>>
          BY <4>1
        <5> HIDE DEF y
        <5>2. Tail(y) \in Seq(Chunk)
          BY <5>1
        <5> QED BY <5>2 DEF y
      <4> QED BY <4>1, <4>2
    <3>4. wh.ipc => Frames(q \o f, wh.payload_remaining)
      BY <1>1, FramesMore DEF PipeInput
    <3> HIDE DEF f
    <3>5. q \o f \in Seq(Chunk) /\ wh.avail \in 0 .. Len(q \o f)
      <4>1. q \in Seq(Chunk) /\ wh.avail \in 0 .. Len(q)
        BY <1>1 DEF PipeInput
      <4> HIDE DEF q
      <4>2. q \o f \in Seq(Chunk) /\ Len(q \o f) = Len(q) + Len(f) /\ Len(q) \in Nat /\ Len(f) \in Nat
        BY <3>3, <4>1
      <4> QED BY <4>1, <4>2
    <3> QED BY <1>1, <3>2, <3>4, <3>5 DEF PipeInput, On
  <2> QED BY <2>1, <2>2
<1>3. /\ PipeOk(wh', PipeKind(wh)) /\ PipeDue(wh') /\ wh'.pc = wh.pc /\ wh'.cur = wh.cur /\ wh'.spin = wh.spin
      /\ \A f : On(wh', f) <=> On(wh, f)
  <2> DEFINE k == PipeKind(wh)
  <2>1. PipeOk(wh, k)
    BY <1>1
  <2> HIDE DEF k
  <2>2. PipeOk(wh', k) /\ PipeDue(wh') /\ wh'.pc = wh.pc /\ wh'.cur = wh.cur /\ wh'.spin = wh.spin
        /\ \A f : On(wh', f) <=> On(wh, f)
    BY <1>1, <1>2, <2>1, InputKeeps
  <2> QED BY <2>2 DEF k
<1>4. PipeKind(wh') = PipeKind(wh) /\ PipePc(wh')
  BY <1>1, <1>3 DEF PipeKind, PipePc
<1> QED BY <1>3, <1>4 DEF PipeInv

-----------------------------------------------------------------------------
\* What a pipe that was got may be like
LEMMA PipesForFlags ==
  ASSUME NEW h, DOMAIN h = PipeFields, NEW b \in PipesFor(h)
  PROVE  /\ SameBut(b, h, {"flags", "pipe"}) /\ b.pipe = TRUE
         /\ \A f : f \notin {"NON_OVERLAPPED_PIPE", "READABLE", "WRITABLE"} => (On(b, f) <=> On(h, f))
         /\ \A f : On(h, f) => On(b, f)
<1>1. PICK fs : b = [Set(h, fs) EXCEPT !.pipe = TRUE] /\ fs \subseteq {"NON_OVERLAPPED_PIPE", "READABLE", "WRITABLE"}
  BY DEF PipeModes, Duplex, PipesFor, SetPipe
<1> DEFINE s == Set(h, fs)
<1>2. SameBut(s, h, {"flags"}) /\ \A f : On(s, f) <=> On(h, f) \/ f \in fs
  BY FlagsSame DEF PipeFields, BaseFields
<1>3. b = [s EXCEPT !.pipe = TRUE]
  BY <1>1
<1> HIDE DEF s
<1>4. SameBut(b, s, {"pipe"}) /\ b.pipe = TRUE /\ b.flags = s.flags
  BY <1>2, <1>3 DEF SameBut, PipeFields, BaseFields
<1> QED BY <1>1, <1>2, <1>4 DEF SameBut, On

LEMMA PipeOpenKeeps == ASSUME PipeInv, uv_pipe_open \/ uv__create_stdio_pipe_pair PROVE PipeInv'
<1> DEFINE k == PipeKind(wh)
<1>1. /\ wh.spin = "none" /\ ~wh.pipe /\ ~On(wh, "CONNECTION") /\ "connect" \notin Outstanding(wh)
      /\ ~On(wh, "CLOSING")
  BY DEF uv_pipe_open, uv__create_stdio_pipe_pair, PipeUser, Unused, IsSet, ConnectUnderWay
<1>2. PipeAt(wh, k) /\ PipePc(wh) /\ DOMAIN wh = PipeFields
  BY <1>1, PipeInvAt
<1> HIDE DEF k
<1>3. /\ PipeTypes(wh) /\ PipeLinked(wh) /\ PipeReader(wh) /\ PipeInput(wh)
  BY <1>2, PipeCore
<1>4. PICK b : /\ wh' = Set(b, {"CONNECTION"})
               /\ SameBut(b, wh, {"flags", "pipe"}) /\ b.pipe = TRUE
               /\ \A f : f \notin {"NON_OVERLAPPED_PIPE", "READABLE", "WRITABLE"} => (On(b, f) <=> On(wh, f))
               /\ \A f : On(wh, f) => On(b, f)
  <2>1. CASE uv_pipe_open
    BY <2>1, <1>2, PipesForFlags DEF uv_pipe_open
  <2>2. CASE uv__create_stdio_pipe_pair
    <3>1. PICK d \in Duplex : wh' = Set(SetPipe(wh, {}, d), {"CONNECTION"})
      BY <2>2 DEF uv__create_stdio_pipe_pair
    <3> DEFINE s == Set(wh, {} \cup d)
               b == [s EXCEPT !.pipe = TRUE]
    <3>2. SameBut(s, wh, {"flags"}) /\ \A f : On(s, f) <=> On(wh, f) \/ f \in {} \cup d
      BY <1>2, FlagsSame DEF PipeFields, BaseFields
    <3>3. wh' = Set(b, {"CONNECTION"})
      BY <3>1 DEF SetPipe
    <3>4. d \subseteq {"READABLE", "WRITABLE"}
      BY DEF Duplex
    <3> HIDE DEF s
    <3>5. SameBut(b, s, {"pipe"}) /\ b.pipe = TRUE /\ b.flags = s.flags
      BY <1>2, <3>2 DEF SameBut, PipeFields, BaseFields
    <3> HIDE DEF b
    <3>6. /\ SameBut(b, wh, {"flags", "pipe"})
          /\ \A f : On(b, f) <=> On(wh, f) \/ f \in d
      BY <3>2, <3>5 DEF SameBut, On
    <3> QED BY <3>3, <3>4, <3>5, <3>6
  <2> QED BY <2>1, <2>2
<1>5. "flags" \in DOMAIN b
  BY <1>2, <1>4 DEF SameBut, PipeFields, BaseFields
<1>6. SameBut(wh', b, {"flags"}) /\ \A f : On(wh', f) <=> On(b, f) \/ f \in {"CONNECTION"}
  BY <1>5, <1>4, FlagsSame
<1>7. /\ SameBut(wh', wh, {"flags", "pipe"}) /\ wh'.pipe = TRUE /\ On(wh', "CONNECTION")
      /\ \A f : f \notin {"NON_OVERLAPPED_PIPE", "READABLE", "WRITABLE", "CONNECTION"} => (On(wh', f) <=> On(wh, f))
      /\ \A f : On(wh, f) => On(wh', f)
  BY <1>2, <1>4, <1>6 DEF SameBut, PipeFields
<1>8. /\ wh'.early = wh.early /\ wh'.reader = wh.reader /\ wh'.result = wh.result
      /\ wh'.timer = wh.timer /\ wh'.shutdown_req = wh.shutdown_req /\ wh'.ok = wh.ok /\ wh'.kernel = wh.kernel
      /\ wh'.pending = wh.pending /\ wh'.walk = wh.walk /\ wh'.thread = wh.thread
      /\ wh'.input = wh.input /\ wh'.avail = wh.avail /\ wh'.ipc = wh.ipc
      /\ wh'.payload_remaining = wh.payload_remaining /\ wh'.pc = wh.pc /\ wh'.cur = wh.cur
      /\ wh'.ipc_xfer_queue = wh.ipc_xfer_queue /\ wh'.spin = wh.spin
  BY <1>2, <1>7 DEF SameBut, PipeFields, BaseFields
<1>9. Outstanding(wh') = Outstanding(wh)
  BY <1>8 DEF Outstanding
<1>10. /\ ~On(wh, "SHUTTING") /\ ~On(wh, "READ_PENDING") /\ ~On(wh, "READING") /\ wh.timer = "none"
       /\ wh.reader = "none" /\ ~wh.shutdown_req /\ "shutdown" \notin Outstanding(wh)
       /\ "read" \notin Outstanding(wh) /\ ~On(wh, "CANCELLATION_PENDING") /\ wh.thread # "thread"
  BY <1>1, <1>3 DEF PipeLinked, PipeReader, PipeTypes
<1>11. PipeLinked(wh')
  BY <1>1, <1>7, <1>8, <1>9, <1>10 DEF PipeLinked
<1>12. PipeReader(wh')
  BY <1>1, <1>7, <1>8, <1>10 DEF PipeReader
<1>13. PipeInput(wh')
  BY <1>3, <1>7, <1>8 DEF PipeInput
<1>14. PipeAt(wh', k)
  <2>1. SameBut(wh', wh, {"flags", "pc", "cur", "thread", "reader", "spin", "result", "timer", "input",
                          "avail", "payload_remaining", "ipc_xfer_queue", "frames", "early", "pipe"})
    BY <1>7 DEF SameBut
  <2>2. /\ wh'.pipe \in BOOLEAN /\ wh'.early \in BOOLEAN /\ wh'.thread \in {"null", "thread", "invalid"}
        /\ wh'.reader \in {"none", "start", "reading", "leaving"}
        /\ wh'.spin \in {"none", "close", "stop", "name", "error"} /\ wh'.result \in {"ok", "error", "aborted"}
        /\ wh'.timer \in {"none", "on", "idle"} /\ (Threaded(wh) => Threaded(wh'))
    BY <1>3, <1>7, <1>8 DEF PipeTypes, Threaded
  <2>3. \A f : f \in {"ACTIVE", "CLOSING", "CLOSED", "ENDGAME_QUEUED", "READING"} => (On(wh', f) <=> On(wh, f))
    BY <1>7
  <2>4. ASSUME NEW g, g = wh' PROVE PipeAt(g, k)
    BY <1>2, <1>11, <1>12, <1>13, <2>1, <2>2, <2>3, <2>4, PipeAside
  <2> QED BY <2>4
<1>15. PipePc(wh') /\ PipeKind(wh') = k
  BY <1>2, <1>7, <1>8, <1>10, <1>1 DEF PipePc, PipeKind, k
<1> QED BY <1>14, <1>15 DEF PipeInv, PipeAt

\* One more request that keeps the handle active is out.
LEMMA CountsMore ==
  ASSUME NEW h, NEW k, PipeAt(h, k), NEW r \in PipeActive, r \notin Outstanding(h),
         NEW g, Core(g, PipeReqs, PipeOn(h, k)), Outstanding(g) = Outstanding(h) \cup {r},
         g.writes = h.writes, g.shutdown_req = h.shutdown_req,
         g.active_reqs = h.active_reqs + 1, g.activecnt = h.activecnt + 1,
         g.write_reqs_pending = h.write_reqs_pending + OneIf(r \in PipeWrites),
         On(g, "READING") <=> On(h, "READING")
  PROVE  PipeCounts(g, k)
<1> DEFINE O == Outstanding(h)
           S == PipeActive
           W == PipeWrites
<1>1. /\ IsFiniteSet(O) /\ r \notin O /\ r \in S /\ PipeCounts(h, k) /\ Len(h.writes) \in Nat
      /\ h.active_reqs \in Nat /\ h.activecnt \in Nat /\ h.write_reqs_pending \in Nat
  BY PipeCore
<1>2. OneIf(r \in S) = 1 /\ OneIf(r \in W) \in {0, 1}
  BY <1>1 DEF OneIf
<1> HIDE DEF O, S, W
<1>3. /\ Cardinality((O \cup {r}) \cap S) = Cardinality(O \cap S) + OneIf(r \in S)
      /\ Cardinality(O \cap S) \in Nat
  <2>1. IsFiniteSet(O) /\ r \notin O
    BY <1>1
  <2>2. Cardinality((O \cup {r}) \cap S) = Cardinality(O \cap S) + OneIf(r \in S)
    BY <2>1, PartMore
  <2>3. Cardinality(O \cap S) \in Nat
    BY <2>1, PartMore
  <2> QED BY <2>2, <2>3
<1>4. /\ Cardinality((O \cup {r}) \cap W) = Cardinality(O \cap W) + OneIf(r \in W)
      /\ Cardinality(O \cap W) \in Nat
  <2>1. IsFiniteSet(O) /\ r \notin O
    BY <1>1
  <2>2. Cardinality((O \cup {r}) \cap W) = Cardinality(O \cap W) + OneIf(r \in W)
    BY <2>1, PartMore
  <2>3. Cardinality(O \cap W) \in Nat
    BY <2>1, PartMore
  <2> QED BY <2>2, <2>3
<1>5. /\ h.write_reqs_pending = Cardinality(O \cap W) + Len(h.writes) + OneIf(k = "write")
      /\ h.active_reqs = Cardinality(O \cap S) + Len(h.writes) + OneIf(h.shutdown_req)
      /\ h.activecnt = h.active_reqs + OneIf(On(h, "READING"))
  BY <1>1 DEF PipeCounts, O, S, W
<1>6. OneIf(k = "write") \in Nat /\ OneIf(h.shutdown_req) \in Nat /\ OneIf(On(h, "READING")) \in Nat
      /\ OneIf(On(g, "READING")) = OneIf(On(h, "READING"))
  BY DEF OneIf
<1>7. g.write_reqs_pending = Cardinality((O \cup {r}) \cap W) + Len(h.writes) + OneIf(k = "write")
  <2> DEFINE a == OneIf(k = "write")
             b == OneIf(r \in W)
  <2>1. a \in Nat /\ b \in {0, 1} /\ g.write_reqs_pending = h.write_reqs_pending + b
        /\ h.write_reqs_pending = Cardinality(O \cap W) + Len(h.writes) + a
        /\ Cardinality((O \cup {r}) \cap W) = Cardinality(O \cap W) + b
    BY <1>2, <1>4, <1>5, <1>6 DEF W
  <2> HIDE DEF a, b
  <2>2. g.write_reqs_pending = Cardinality((O \cup {r}) \cap W) + Len(h.writes) + a
    BY <1>1, <1>4, <2>1
  <2> QED BY <2>2 DEF a
<1>8. g.active_reqs = Cardinality((O \cup {r}) \cap S) + Len(h.writes) + OneIf(h.shutdown_req)
  <2> DEFINE a == OneIf(h.shutdown_req)
  <2>1. a \in Nat /\ h.active_reqs = Cardinality(O \cap S) + Len(h.writes) + a
        /\ Cardinality((O \cup {r}) \cap S) = Cardinality(O \cap S) + 1
    BY <1>2, <1>3, <1>5, <1>6
  <2> HIDE DEF a
  <2>2. g.active_reqs = Cardinality((O \cup {r}) \cap S) + Len(h.writes) + a
    BY SMTT(30), <1>1, <1>3, <2>1
  <2> QED BY <2>2 DEF a
<1>9. g.activecnt = g.active_reqs + OneIf(On(g, "READING"))
  <2> DEFINE a == OneIf(On(h, "READING"))
  <2>1. a \in Nat /\ h.activecnt = h.active_reqs + a /\ OneIf(On(g, "READING")) = a
    BY <1>5, <1>6
  <2> HIDE DEF a
  <2> QED BY <1>1, <2>1
<1> QED BY <1>7, <1>8, <1>9 DEF PipeCounts, PipeOn, O, S, W

\* What the record of a pipe says, where a step is not about its counts
PipeRest == {"kernel", "pending", "walk", "ok", "result", "reader"}

\* The system or a thread answers, or the list of answers is taken away.
LEMMA AnsweredAt ==
  ASSUME NEW h, NEW k, PipeAt(h, k), NEW g, SameBut(g, h, PipeRest),
         Core(g, PipeReqs, PipeOn(h, k)), Outstanding(g) = Outstanding(h),
         g.result \in {"ok", "error", "aborted"},
         g.reader = h.reader \/ (g.reader = "none" /\ h.reader # "reading" /\ h.spin = "none"),
         g.reader # "none" => "read" \in g.kernel,
         "connect" \in g.ok \ g.kernel <=> "connect" \in h.ok \ h.kernel
  PROVE  /\ PipeAt(g, k) /\ g.pc = h.pc /\ g.cur = h.cur /\ g.spin = h.spin
         /\ \A f : On(g, f) <=> On(h, f)
<1>1. /\ DOMAIN h = PipeFields /\ PipeTypes(h) /\ PipeLinked(h) /\ PipeReader(h) /\ PipeInput(h) /\ PipeDue(h)
      /\ h.activecnt = h.active_reqs + OneIf(On(h, "READING")) /\ ~On(h, "CLOSED")
  BY PipeCore
<1>2. /\ g.pipe = h.pipe /\ g.early = h.early /\ g.shutdown_req = h.shutdown_req /\ g.timer = h.timer
      /\ g.input = h.input /\ g.avail = h.avail /\ g.ipc = h.ipc /\ g.payload_remaining = h.payload_remaining
      /\ g.ipc_xfer_queue = h.ipc_xfer_queue /\ g.spin = h.spin /\ g.pc = h.pc /\ g.cur = h.cur
      /\ g.activecnt = h.activecnt /\ g.flags = h.flags /\ g.thread = h.thread
      /\ g.reqs_pending = h.reqs_pending
  BY <1>1 DEF SameBut, PipeFields, BaseFields, PipeRest
<1>3. \A f : On(g, f) <=> On(h, f)
  BY <1>2 DEF On
<1>4. PipeLinked(g)
  BY <1>1, <1>2, <1>3 DEF PipeLinked
<1>5. PipeReader(g)
  BY <1>1, <1>2, <1>3 DEF PipeReader, Threaded
<1>6. PipeInput(g)
  BY <1>1, <1>2, <1>3 DEF PipeInput
<1>7. SameBut(g, h, PipeLoose)
  BY DEF SameBut, PipeLoose, PipeRest
<1>8. /\ g.pipe \in BOOLEAN /\ g.early \in BOOLEAN /\ g.thread \in {"null", "thread", "invalid"}
      /\ g.reader \in {"none", "start", "reading", "leaving"}
      /\ g.spin \in {"none", "close", "stop", "name", "error"}
      /\ g.timer \in {"none", "on", "idle"} /\ (Threaded(h) => Threaded(g))
  BY <1>1, <1>2, <1>3 DEF PipeTypes, Threaded
<1>9. g.activecnt = h.active_reqs + OneIf(On(g, "READING"))
  BY <1>3, <1>1, <1>2 DEF OneIf
<1>10. /\ EndDue(g) => On(g, "ENDGAME_QUEUED")
       /\ ~On(g, "CLOSED") /\ (On(h, "ENDGAME_QUEUED") => On(g, "ENDGAME_QUEUED"))
  BY <1>1, <1>2, <1>3 DEF EndDue, PipeDue
<1>11. PipeAt(g, k)
  BY <1>4, <1>5, <1>6, <1>7, <1>8, <1>9, <1>10, PipeCarry
<1> QED BY <1>2, <1>3, <1>11

LEMMA PipeWalkKeeps == ASSUME PipeInv, PipeWalk PROVE PipeInv'
<1> DEFINE k == PipeKind(wh)
           n == PipeOn(wh, k)
           g == WalkReqs(wh)
<1>1. wh.spin = "none" /\ CanWalk(wh) /\ wh' = g /\ wh.pc = "idle" /\ wh.pending # {}
  BY DEF PipeWalk, PipeLoop, CanWalk
<1>2. PipeAt(wh, k) /\ PipePc(wh) /\ DOMAIN wh = PipeFields
  BY <1>1, PipeInvAt DEF Outstanding
<1> HIDE DEF k
<1>3. Core(wh, PipeReqs, n) /\ PipeTypes(wh) /\ PipeReader(wh)
  BY <1>2, PipeCore
<1> HIDE DEF n
<1>4. /\ Core(g, PipeReqs, n) /\ SameBut(g, wh, {"pending", "walk"}) /\ Outstanding(g) = Outstanding(wh)
  BY <1>1, <1>3, WalkKeeps
<1> HIDE DEF g
<1>5. /\ SameBut(g, wh, PipeRest) /\ g.kernel = wh.kernel /\ g.ok = wh.ok /\ g.result = wh.result
      /\ g.reader = wh.reader
  BY <1>2, <1>4 DEF SameBut, PipeRest, PipeFields, BaseFields
<1>6. Core(g, PipeReqs, PipeOn(wh, k)) /\ g.result \in {"ok", "error", "aborted"}
      /\ (g.reader # "none" => "read" \in g.kernel)
  BY <1>3, <1>4, <1>5 DEF n, PipeTypes, PipeReader
<1>7. PipeAt(g, k) /\ g.pc = wh.pc /\ g.cur = wh.cur /\ g.spin = wh.spin /\ \A f : On(g, f) <=> On(wh, f)
  BY <1>2, <1>4, <1>5, <1>6, AnsweredAt
<1> QED BY <1>1, <1>2, <1>7, PipeInvBack DEF k

\* One request is answered.
LEMMA OneAnsweredAt ==
  ASSUME NEW h, NEW k, PipeAt(h, k), NEW r, r \in h.kernel, r # "connect", NEW good \in BOOLEAN,
         NEW c, c = Completed(h, r, good), NEW g, SameBut(g, c, {"result", "reader"}),
         g.result \in {"ok", "error", "aborted"},
         g.reader = h.reader \/ (g.reader = "none" /\ h.reader # "reading" /\ h.spin = "none"),
         g.reader # "none" => r # "read"
  PROVE  /\ PipeAt(g, k) /\ g.pc = h.pc /\ g.cur = h.cur /\ g.spin = h.spin
         /\ \A f : On(g, f) <=> On(h, f)
<1> DEFINE n == PipeOn(h, k)
<1>1. Core(h, PipeReqs, n) /\ DOMAIN h = PipeFields /\ PipeReader(h)
  BY PipeCore
<1> HIDE DEF n
<1>2. /\ Core(c, PipeReqs, n) /\ SameBut(c, h, {"kernel", "pending", "ok"})
      /\ Outstanding(c) = Outstanding(h) /\ ~On(h, "CLOSED")
  BY <1>1, CompletedKeeps
<1>3. /\ c.kernel = h.kernel \ {r} /\ c.ok = (IF good THEN h.ok \cup {r} ELSE h.ok \ {r})
  BY <1>1 DEF Completed, PipeFields, BaseFields
<1>4. SameBut(g, h, PipeRest)
  BY <1>2 DEF SameBut, PipeRest
<1>5. /\ g.kernel = c.kernel /\ g.ok = c.ok /\ g.flags = c.flags /\ c.flags = h.flags /\ DOMAIN c = PipeFields
  BY <1>1, <1>2 DEF SameBut, PipeFields, BaseFields
<1>6. Core(g, PipeReqs, n) /\ Outstanding(g) = Outstanding(c)
  BY <1>2, <1>5, OtherCore DEF BaseFields, Alike, On
<1>7. Core(g, PipeReqs, PipeOn(h, k)) /\ Outstanding(g) = Outstanding(h)
  BY <1>2, <1>6 DEF n
<1>8. "connect" \in g.ok \ g.kernel <=> "connect" \in h.ok \ h.kernel
  BY <1>3, <1>5
<1>9. g.reader # "none" => "read" \in g.kernel
  BY <1>1, <1>3, <1>5 DEF PipeReader
<1> QED BY <1>4, <1>7, <1>8, <1>9, AnsweredAt

LEMMA PipeCompletesKeeps == ASSUME PipeInv, PipeCompletes \/ ReaderLeaves PROVE PipeInv'
<1> DEFINE k == PipeKind(wh)
<1>1. wh.kernel # {}
  BY DEF PipeCompletes, ReaderLeaves, PipeInv, PipeOk, PipeReader
<1>2. PipeAt(wh, k) /\ PipePc(wh) /\ DOMAIN wh = PipeFields
  BY <1>1, PipeInvAt DEF Outstanding
<1> HIDE DEF k
<1>3. PipeTypes(wh) /\ PipeReader(wh)
  BY <1>2, PipeCore
<1>4. PICK r \in wh.kernel, good \in BOOLEAN :
        /\ r # "connect"
        /\ SameBut(wh', Completed(wh, r, good), {"result", "reader"})
        /\ wh'.result \in {"ok", "error", "aborted"}
        /\ wh'.reader = wh.reader \/ (wh'.reader = "none" /\ wh.reader # "reading" /\ wh.spin = "none")
        /\ wh'.reader # "none" => r # "read"
  <2>1. ASSUME NEW r \in wh.kernel \ {"read", "connect"}, NEW good \in BOOLEAN, wh' = Completed(wh, r, good)
        PROVE  /\ r # "connect" /\ r # "read"
               /\ SameBut(wh', Completed(wh, r, good), {"result", "reader"})
               /\ wh'.result \in {"ok", "error", "aborted"} /\ wh'.reader = wh.reader
    BY <1>2, <2>1, <1>3 DEF Completed, PipeFields, BaseFields, SameBut, PipeTypes
  <2>2. ASSUME "read" \in wh.kernel, ~Threaded(wh), NEW x \in {"ok", "error", "aborted"},
               wh' = [Completed(wh, "read", x = "ok") EXCEPT !.result = x]
        PROVE  /\ SameBut(wh', Completed(wh, "read", x = "ok"), {"result", "reader"})
               /\ wh'.result \in {"ok", "error", "aborted"} /\ wh'.reader = wh.reader /\ wh'.reader = "none"
               /\ (x = "ok") \in BOOLEAN
    <3> DEFINE c == Completed(wh, "read", x = "ok")
    <3>1. DOMAIN c = PipeFields /\ c.reader = wh.reader
      BY <1>2 DEF Completed, PipeFields, BaseFields
    <3> HIDE DEF c
    <3>2. wh' = [c EXCEPT !.result = x]
      BY <2>2 DEF c
    <3>3. SameBut(wh', c, {"result", "reader"}) /\ wh'.result = x /\ wh'.reader = wh.reader
      BY <3>1, <3>2 DEF SameBut, PipeFields
    <3>4. wh.reader = "none"
      BY <1>3, <2>2 DEF PipeReader
    <3> QED BY <3>3, <3>4 DEF c
  <2>3. ASSUME ReaderLeaves
        PROVE  /\ "read" \in wh.kernel
               /\ SameBut(wh', Completed(wh, "read", wh.result = "ok"), {"result", "reader"})
               /\ wh'.result \in {"ok", "error", "aborted"} /\ wh'.reader = "none"
               /\ wh.reader # "reading" /\ wh.spin = "none" /\ (wh.result = "ok") \in BOOLEAN
    <3> DEFINE c == Completed(wh, "read", wh.result = "ok")
    <3>1. DOMAIN c = PipeFields /\ c.result = wh.result
      BY <1>2 DEF Completed, PipeFields, BaseFields
    <3> HIDE DEF c
    <3>2. wh' = [c EXCEPT !.reader = "none"] /\ wh.reader = "leaving" /\ wh.spin = "none"
      BY <2>3 DEF c, ReaderLeaves
    <3>3. SameBut(wh', c, {"result", "reader"}) /\ wh'.result = wh.result /\ wh'.reader = "none"
      BY <3>1, <3>2 DEF SameBut, PipeFields
    <3> QED BY <1>3, <3>2, <3>3 DEF c, PipeReader, PipeTypes
  <2> QED BY <2>1, <2>2, <2>3 DEF PipeCompletes
<1>5. PipeAt(wh', k) /\ wh'.pc = wh.pc /\ wh'.cur = wh.cur /\ wh'.spin = wh.spin
      /\ \A f : On(wh', f) <=> On(wh, f)
  <2>1. ASSUME NEW g, g = wh'
        PROVE  PipeAt(g, k) /\ g.pc = wh.pc /\ g.cur = wh.cur /\ g.spin = wh.spin /\ \A f : On(g, f) <=> On(wh, f)
    <3> DEFINE c == Completed(wh, r, good)
    <3>1. c = Completed(wh, r, good) /\ SameBut(g, c, {"result", "reader"})
      BY <1>4, <2>1
    <3> HIDE DEF c
    <3> QED BY <1>2, <1>4, <2>1, <3>1, OneAnsweredAt
  <2> QED BY <2>1
<1> QED BY <1>2, <1>5, PipeInvBack DEF k

\* A step that is only about the thread that reads
LEMMA ThreadAt ==
  ASSUME NEW h, NEW k, PipeAt(h, k), NEW g, SameBut(g, h, {"flags", "thread", "reader", "spin", "result"}),
         \A f : f \notin {"CANCELLATION_PENDING", "BLOCKING_WRITES"} => (On(g, f) <=> On(h, f)),
         g.thread \in {"null", "thread", "invalid"}, g.reader \in {"none", "start", "reading", "leaving"},
         g.spin \in {"none", "close", "stop", "name", "error"}, g.result \in {"ok", "error", "aborted"},
         PipeReader(g)
  PROVE  /\ PipeAt(g, k) /\ Outstanding(g) = Outstanding(h) /\ g.pc = h.pc /\ g.cur = h.cur
<1>1. /\ DOMAIN h = PipeFields /\ PipeTypes(h) /\ PipeLinked(h) /\ PipeInput(h)
  BY PipeCore
<1>2. /\ g.pipe = h.pipe /\ g.early = h.early
      /\ g.timer = h.timer /\ g.shutdown_req = h.shutdown_req /\ g.ok = h.ok /\ g.kernel = h.kernel
      /\ g.pending = h.pending /\ g.walk = h.walk /\ g.pc = h.pc /\ g.cur = h.cur
      /\ g.input = h.input /\ g.avail = h.avail /\ g.ipc = h.ipc /\ g.payload_remaining = h.payload_remaining
      /\ g.ipc_xfer_queue = h.ipc_xfer_queue
  BY <1>1 DEF SameBut, PipeFields, BaseFields
<1>3. SameBut(g, h, {"flags", "pc", "cur", "thread", "reader", "spin", "result", "timer", "input",
                     "avail", "payload_remaining", "ipc_xfer_queue", "frames", "early", "pipe"})
  BY DEF SameBut
<1>4. Outstanding(g) = Outstanding(h)
  BY <1>2 DEF Outstanding
<1>5. PipeLinked(g)
  BY <1>1, <1>2, <1>4 DEF PipeLinked
<1>6. PipeInput(g)
  BY <1>1, <1>2 DEF PipeInput
<1>7. g.pipe \in BOOLEAN /\ g.early \in BOOLEAN /\ g.timer \in {"none", "on", "idle"}
      /\ (Threaded(h) => Threaded(g))
  BY <1>1, <1>2 DEF PipeTypes, Threaded
<1>8. PipeAt(g, k)
  BY <1>3, <1>5, <1>6, <1>7, PipeAside
<1> QED BY <1>2, <1>4, <1>8

LEMMA PipeReaderKeeps == ASSUME PipeInv, ReaderEnters \/ ReaderReturns PROVE PipeInv'
<1> DEFINE k == PipeKind(wh)
<1>1. wh.reader # "none" /\ "read" \in wh.kernel
  BY DEF ReaderEnters, ReaderReturns, PipeInv, PipeOk, PipeReader
<1>2. PipeAt(wh, k) /\ PipePc(wh) /\ DOMAIN wh = PipeFields
  BY <1>1, PipeInvAt DEF Outstanding
<1> HIDE DEF k
<1>3. PipeTypes(wh) /\ PipeReader(wh)
  BY <1>2, PipeCore
<1>4. CASE ReaderEnters /\ wh.thread = "invalid"
  <2> DEFINE good == FALSE
             c == Completed(wh, "read", good)
             g == [c EXCEPT !.reader = "none", !.result = "aborted"]
  <2>1. wh' = g /\ wh.reader = "start" /\ wh.spin = "none"
    BY <1>4 DEF ReaderEnters
  <2>2. DOMAIN c = PipeFields
    BY <1>2 DEF Completed
  <2> HIDE DEF good
  <2>3. c = Completed(wh, "read", good) /\ good \in BOOLEAN
    BY DEF good
  <2> HIDE DEF c
  <2>4. SameBut(g, c, {"result", "reader"}) /\ g.reader = "none" /\ g.result = "aborted"
    BY <2>2 DEF SameBut, PipeFields
  <2> HIDE DEF g
  <2>5. /\ PipeAt(g, k) /\ g.pc = wh.pc /\ g.cur = wh.cur /\ g.spin = wh.spin
        /\ \A f : On(g, f) <=> On(wh, f)
    <3> QED BY <1>1, <1>2, <2>1, <2>3, <2>4, OneAnsweredAt
  <2> QED BY <1>2, <2>1, <2>5, PipeInvBack DEF k
<1>5. CASE ReaderEnters /\ wh.thread # "invalid"
  <2> DEFINE g == [wh EXCEPT !.thread = "thread", !.reader = "reading"]
  <2>1. wh' = g /\ wh.reader = "start" /\ wh.spin = "none"
    BY <1>5 DEF ReaderEnters
  <2>2. /\ SameBut(g, wh, {"flags", "thread", "reader", "spin", "result"}) /\ g.thread = "thread"
        /\ g.reader = "reading" /\ g.spin = "none" /\ g.result = wh.result /\ g.flags = wh.flags
        /\ g.pipe = wh.pipe /\ g.kernel = wh.kernel
    BY <1>2, <2>1 DEF SameBut, PipeFields, BaseFields
  <2> HIDE DEF g
  <2>3. \A f : On(g, f) <=> On(wh, f)
    BY <2>2 DEF On
  <2>4. PipeReader(g)
    BY <1>3, <1>5, <2>1, <2>2, <2>3 DEF PipeReader, Threaded
  <2>5. g.result \in {"ok", "error", "aborted"}
    BY <1>3, <2>2 DEF PipeTypes
  <2>6. PipeAt(g, k) /\ g.pc = wh.pc /\ g.cur = wh.cur
    BY <1>2, <2>2, <2>3, <2>4, <2>5, ThreadAt
  <2> QED BY <1>2, <2>1, <2>2, <2>3, <2>6, PipeInvBack DEF k
<1>6. CASE ReaderReturns
  <2>1. PICK r \in {"ok", "error", "aborted"} :
          wh' = [wh EXCEPT !.thread = "invalid", !.reader = "leaving", !.result = r]
    BY <1>6 DEF ReaderReturns
  <2> DEFINE g == [wh EXCEPT !.thread = "invalid", !.reader = "leaving", !.result = r]
  <2>2. wh.reader = "reading" /\ wh' = g
    BY <1>6, <2>1 DEF ReaderReturns
  <2>3. /\ SameBut(g, wh, {"flags", "thread", "reader", "spin", "result"}) /\ g.thread = "invalid"
        /\ g.reader = "leaving" /\ g.spin = wh.spin /\ g.result = r /\ g.flags = wh.flags
        /\ g.pipe = wh.pipe /\ g.kernel = wh.kernel
    BY <1>2, <2>1 DEF SameBut, PipeFields, BaseFields
  <2> HIDE DEF g
  <2>4. \A f : On(g, f) <=> On(wh, f)
    BY <2>3 DEF On
  <2>5. PipeReader(g)
    BY <1>3, <2>2, <2>3, <2>4 DEF PipeReader, Threaded
  <2>6. g.spin \in {"none", "close", "stop", "name", "error"}
    BY <1>3, <2>3 DEF PipeTypes
  <2>7. PipeAt(g, k) /\ g.pc = wh.pc /\ g.cur = wh.cur
    BY <1>2, <2>3, <2>4, <2>5, <2>6, ThreadAt
  <2> QED BY <1>2, <2>2, <2>3, <2>4, <2>7, PipeInvBack DEF k
<1> QED BY <1>4, <1>5, <1>6

LEMMA PipeBlockingKeeps == ASSUME PipeInv, uv_stream_set_blocking PROVE PipeInv'
<1> DEFINE k == PipeKind(wh)
           g == Set(wh, {"BLOCKING_WRITES"})
<1>1. wh.spin = "none" /\ ~On(wh, "CLOSING") /\ wh' = g
  BY DEF uv_stream_set_blocking, PipeUser, IsSet
<1>2. PipeAt(wh, k) /\ PipePc(wh) /\ DOMAIN wh = PipeFields
  BY <1>1, PipeInvAt
<1> HIDE DEF k
<1>3. SameBut(g, wh, {"flags"}) /\ \A f : On(g, f) <=> On(wh, f) \/ f \in {"BLOCKING_WRITES"}
  BY <1>2, FlagsSame DEF PipeFields, BaseFields
<1> HIDE DEF g
<1>4. /\ SameBut(g, wh, {"flags", "thread", "reader", "spin", "result"}) /\ g.thread = wh.thread
      /\ g.reader = wh.reader /\ g.spin = wh.spin /\ g.result = wh.result
      /\ g.pipe = wh.pipe /\ g.kernel = wh.kernel
  BY <1>2, <1>3 DEF SameBut, PipeFields, BaseFields
<1>5. PipeTypes(wh) /\ PipeReader(wh)
  BY <1>2, PipeCore
<1>6. PipeReader(g)
  BY <1>3, <1>4, <1>5 DEF PipeReader, Threaded
<1>7. PipeAt(g, k) /\ g.pc = wh.pc /\ g.cur = wh.cur
  BY <1>2, <1>3, <1>4, <1>5, <1>6, ThreadAt DEF PipeTypes
<1> QED BY <1>1, <1>2, <1>3, <1>4, <1>7, PipeInvBack DEF k

\* A callback has returned.
LEMMA PipeReturnedAt ==
  ASSUME NEW h, NEW k, PipeAt(h, k), NEW g, g = Returned(h)
  PROVE  /\ PipeAt(g, k) /\ g.pc = "idle" /\ g.cur = "none" /\ g.spin = h.spin
         /\ \A f : On(g, f) <=> On(h, f)
BY PipeCore, CallSame, MovedAt

LEMMA PipeDoneKeeps == ASSUME PipeInv, PipeConnectDone \/ PipeShutdownDone PROVE PipeInv'
<1> DEFINE r == Returned(wh)
           g == DecPending(r)
<1>1. wh.pc \in {"connect_cb", "shutdown_cb"} /\ wh.spin = "none" /\ wh' = g
  BY DEF PipeConnectDone, PipeShutdownDone, PipeLoop
<1>2. PipeAt(wh, "other") /\ PipePc(wh) /\ DOMAIN wh = PipeFields
  BY <1>1, PipeInvAt DEF PipeKind
<1>3. PipeAt(r, "other") /\ r.pc = "idle" /\ r.cur = "none" /\ r.spin = "none" /\ \A f : On(r, f) <=> On(wh, f)
  BY <1>1, <1>2, PipeReturnedAt
<1> HIDE DEF r
<1>4. /\ PipeAt(g, "none") /\ g.pc = "idle" /\ g.cur = "none" /\ g.spin = "none"
      /\ \A f : f # "ENDGAME_QUEUED" => (On(g, f) <=> On(wh, f))
  BY <1>3, PipeOffAt
<1> HIDE DEF g
<1>5. PipePc(g)
  BY <1>1, <1>2, <1>4 DEF PipePc
<1> QED BY <1>1, <1>4, <1>5 DEF PipeInv, PipeAt, PipeKind

LEMMA PipeTimerDoneKeeps == ASSUME PipeInv, EofTimerDone PROVE PipeInv'
<1> DEFINE g == Returned(wh)
<1>1. wh.pc = "timer_cb" /\ wh.spin = "none" /\ wh' = g
  BY DEF EofTimerDone, PipeLoop
<1>2. PipeAt(wh, "none") /\ PipePc(wh) /\ DOMAIN wh = PipeFields
  BY <1>1, PipeInvAt DEF PipeKind
<1>3. PipeAt(g, "none") /\ g.pc = "idle" /\ g.cur = "none" /\ g.spin = "none" /\ \A f : On(g, f) <=> On(wh, f)
  BY <1>1, <1>2, PipeReturnedAt
<1> HIDE DEF g
<1>4. PipePc(g)
  BY <1>1, <1>2, <1>3 DEF PipePc
<1> QED BY <1>1, <1>3, <1>4 DEF PipeInv, PipeAt, PipeKind

LEMMA PipeReadStopKeeps == ASSUME PipeInv, uv__pipe_read_stop PROVE PipeInv'
<1> DEFINE k == PipeKind(wh)
           s == PipeStop(wh)
<1>1. wh.pc # "read_loop" /\ wh.spin = "none" /\ On(wh, "READING") /\ wh' = Interrupt(s, "stop")
  BY DEF uv__pipe_read_stop, PipeUser, IsSet
<1>2. ~On(wh, "CLOSING")
  BY <1>1 DEF PipeInv, PipeOk, PipeLinked
<1>3. PipeAt(wh, k) /\ PipePc(wh) /\ DOMAIN wh = PipeFields
  BY <1>2, PipeInvAt
<1> HIDE DEF k
<1>4. /\ PipeAt(s, k) /\ SameBut(s, wh, {"flags", "counted", "activecnt"})
      /\ ~On(s, "READING") /\ \A f : f \notin {"ACTIVE", "READING"} => (On(s, f) <=> On(wh, f))
  BY <1>1, <1>3, PipeStopAt
<1> HIDE DEF s
<1>5. s.spin = "none" /\ s.pc = wh.pc /\ s.cur = wh.cur /\ ~On(s, "CLOSING") /\ DOMAIN s = PipeFields
  BY <1>1, <1>2, <1>3, <1>4 DEF SameBut, PipeFields, BaseFields
<1>6. ASSUME NEW g, g = Interrupt(s, "stop")
      PROVE  /\ PipeAt(g, k) /\ g.pc = wh.pc /\ g.cur = wh.cur /\ g.spin \in {"none", "stop"}
             /\ ~On(g, "READING")
  BY <1>4, <1>5, <1>6, InterruptAt DEF SameBut, PipeFields, BaseFields, GoesOn
<1> QED BY <1>1, <1>3, <1>6, PipeInvBack DEF k

LEMMA PipeNameKeeps == ASSUME PipeInv, uv__pipe_getname PROVE PipeInv'
<1> DEFINE k == PipeKind(wh)
<1>1. wh.pc # "read_loop" /\ wh.spin = "none" /\ wh.pipe /\ On(wh, "CONNECTION") /\ wh' = Interrupt(wh, "name")
  BY DEF uv__pipe_getname, PipeUser, IsSet
<1>2. CASE On(wh, "CLOSING")
  BY <1>1, <1>2 DEF PipeInv, PipeOk, PipeLinked, Interrupt, GoesOn, PipeKind
<1>3. CASE ~On(wh, "CLOSING")
  <2>1. PipeAt(wh, k) /\ PipePc(wh) /\ DOMAIN wh = PipeFields
    BY <1>3, PipeInvAt
  <2> HIDE DEF k
  <2>2. ASSUME NEW g, g = Interrupt(wh, "name")
        PROVE  /\ PipeAt(g, k) /\ g.pc = wh.pc /\ g.cur = wh.cur /\ g.spin \in {"none", "name"}
               /\ \A f : f # "CANCELLATION_PENDING" => (On(g, f) <=> On(wh, f))
    BY <1>1, <1>3, <2>1, <2>2, InterruptAt DEF SameBut, PipeFields, BaseFields, GoesOn
  <2> QED BY <1>1, <2>1, <2>2, PipeInvBack DEF k
<1> QED BY <1>2, <1>3

LEMMA PipeInterruptDoneKeeps == ASSUME PipeInv, InterruptDone PROVE PipeInv'
<1> DEFINE k == PipeKind(wh)
           s == Set(wh, {"CANCELLATION_PENDING"})
           c == [s EXCEPT !.spin = "none"]
<1>1. wh.spin # "none" /\ wh.thread = "invalid" /\ wh' = GoesOn(c, wh.spin)
  BY DEF InterruptDone
<1>2. /\ wh.reader = "leaving" /\ ~On(wh, "CLOSING") /\ On(wh, "READ_PENDING")
      /\ (wh.spin = "close" => ~On(wh, "READING")) /\ On(wh, "CONNECTION")
      /\ "connect" \notin Outstanding(wh)
  BY <1>1 DEF PipeInv, PipeOk, PipeLinked, PipeReader
<1>3. PipeAt(wh, k) /\ PipePc(wh) /\ DOMAIN wh = PipeFields
  BY <1>2, PipeInvAt
<1>4. PipeTypes(wh)
  BY <1>3, PipeCore
<1> HIDE DEF k
<1>5. /\ SameBut(s, wh, {"flags"})
      /\ \A f : On(s, f) <=> On(wh, f) \/ f \in {"CANCELLATION_PENDING"}
  BY <1>3, FlagsSame DEF PipeFields, BaseFields
<1> HIDE DEF s
<1>6. SameBut(c, s, {"spin"}) /\ c.spin = "none" /\ c.flags = s.flags
  BY <1>3, <1>5 DEF SameBut, PipeFields, BaseFields
<1> HIDE DEF c
<1>7. /\ SameBut(c, wh, {"flags", "spin"}) /\ c.thread = wh.thread /\ c.pc = wh.pc /\ c.cur = wh.cur
      /\ DOMAIN c = PipeFields /\ On(c, "CANCELLATION_PENDING")
      /\ \A f : f # "CANCELLATION_PENDING" => (On(c, f) <=> On(wh, f))
  BY <1>3, <1>5, <1>6 DEF SameBut, PipeFields, BaseFields, On
<1>8. PipeAt(c, k) /\ Cut(c) /\ Outstanding(c) = Outstanding(wh)
  BY <1>1, <1>7, <1>2, <1>3, <1>6, CancelAt DEF SameBut
<1>9. CASE wh.spin = "close"
  <2> DEFINE g == CloseRest(c)
  <2>1. wh' = g
    BY <1>1, <1>9 DEF GoesOn
  <2>2. /\ PipeAt(g, k) /\ SameBut(g, c, {"flags", "counted", "timer", "pipe"}) /\ ~On(g, "READING")
    BY <1>2, <1>7, <1>8, <1>9, <1>6, CloseRestAt
  <2> HIDE DEF g
  <2>3. g.pc = wh.pc /\ g.cur = wh.cur /\ g.spin = "none"
    BY <1>6, <1>7, <2>2 DEF SameBut, PipeFields, BaseFields
  <2> QED BY <1>3, <2>1, <2>2, <2>3, PipeInvBack DEF k
<1>10. CASE wh.spin = "error"
  <2> DEFINE g == [c EXCEPT !.pc = "eof_cb"]
  <2>1. wh' = g
    BY <1>1, <1>10 DEF GoesOn
  <2>2. wh.pc = "read_loop" /\ wh.cur = "none" /\ k = "none" /\ ~On(wh, "READING")
    BY <1>3, <1>10 DEF PipePc, PipeKind, k
  <2>3. SameBut(g, c, {"pc", "cur"}) /\ g.pc = "eof_cb" /\ g.cur = "none"
    BY <1>7, <2>2 DEF SameBut, PipeFields, BaseFields
  <2> HIDE DEF g
  <2>4. PipeAt(g, k) /\ g.spin = "none" /\ \A f : On(g, f) <=> On(c, f)
    BY <1>6, <1>8, <2>3, MovedAt
  <2>5. PipePc(g) /\ PipeKind(g) = "none"
    BY <1>7, <2>2, <2>3, <2>4 DEF PipePc, PipeKind
  <2> QED BY <2>1, <2>2, <2>4, <2>5 DEF PipeInv, PipeAt
<1>11. CASE wh.spin \in {"stop", "name"}
  BY <1>1, <1>11, <1>2, <1>3, <1>6, <1>7, <1>8, PipeInvBack DEF GoesOn, k
<1> QED BY <1>1, <1>4, <1>9, <1>10, <1>11 DEF PipeTypes

LEMMA PipeCloseKeeps == ASSUME PipeInv, uv__pipe_close PROVE PipeInv'
<1> DEFINE k == PipeKind(wh)
           h == [wh EXCEPT !.early = ConnectUnderWay]
           s == IF On(wh, "READING") THEN PipeStop(h) ELSE h
<1>1. wh.pc # "read_loop" /\ wh.spin = "none" /\ ~On(wh, "CLOSING") /\ wh' = Interrupt(s, "close")
  BY DEF uv__pipe_close, PipeUser, IsSet
<1>2. PipeAt(wh, k) /\ PipePc(wh) /\ DOMAIN wh = PipeFields
  BY <1>1, PipeInvAt
<1> HIDE DEF k
<1>3. PipeTypes(wh) /\ PipeLinked(wh) /\ PipeReader(wh) /\ PipeInput(wh)
  BY <1>2, PipeCore
<1>4. SameBut(h, wh, {"early"}) /\ h.early = ConnectUnderWay
  BY <1>2 DEF SameBut, PipeFields, BaseFields
<1> HIDE DEF h
<1>5. /\ h.pipe = wh.pipe /\ h.reader = wh.reader /\ h.result = wh.result /\ h.shutdown_req = wh.shutdown_req
      /\ h.ok = wh.ok /\ h.kernel = wh.kernel /\ h.pending = wh.pending /\ h.walk = wh.walk
      /\ h.thread = wh.thread /\ h.input = wh.input /\ h.avail = wh.avail /\ h.ipc = wh.ipc
      /\ h.payload_remaining = wh.payload_remaining /\ h.ipc_xfer_queue = wh.ipc_xfer_queue
      /\ h.spin = wh.spin /\ h.timer = wh.timer /\ h.flags = wh.flags /\ h.pc = wh.pc /\ h.cur = wh.cur
  BY <1>2, <1>4 DEF SameBut, PipeFields, BaseFields
<1>6. Outstanding(h) = Outstanding(wh) /\ \A f : On(h, f) <=> On(wh, f)
  BY <1>5 DEF Outstanding, On
<1>7. PipeAt(h, k)
  <2>1. SameBut(h, wh, {"flags", "pc", "cur", "thread", "reader", "spin", "result", "timer", "input",
                        "avail", "payload_remaining", "ipc_xfer_queue", "frames", "early", "pipe"})
    BY <1>4 DEF SameBut
  <2>2. PipeLinked(h)
    BY <1>1, <1>3, <1>5, <1>6 DEF PipeLinked
  <2>3. PipeReader(h)
    BY <1>3, <1>5, <1>6 DEF PipeReader, Threaded
  <2>4. PipeInput(h)
    BY <1>3, <1>5, <1>6 DEF PipeInput
  <2>5. h.early \in BOOLEAN
    BY <1>4 DEF ConnectUnderWay
  <2>6. /\ h.pipe \in BOOLEAN /\ h.thread \in {"null", "thread", "invalid"}
        /\ h.reader \in {"none", "start", "reading", "leaving"}
        /\ h.spin \in {"none", "close", "stop", "name", "error"} /\ h.result \in {"ok", "error", "aborted"}
        /\ h.timer \in {"none", "on", "idle"} /\ (Threaded(wh) => Threaded(h))
    BY <1>3, <1>5, <1>6 DEF PipeTypes, Threaded
  <2> QED BY <1>2, <1>6, <2>1, <2>2, <2>3, <2>4, <2>5, <2>6, PipeAside
<1>8. /\ PipeAt(s, k) /\ SameBut(s, h, {"flags", "counted", "activecnt"})
      /\ ~On(s, "READING") /\ \A f : f \notin {"ACTIVE", "READING"} => (On(s, f) <=> On(h, f))
  <2>1. CASE On(wh, "READING")
    <3>1. s = PipeStop(h) /\ On(h, "READING")
      BY <1>6, <2>1
    <3> HIDE DEF s
    <3> QED BY <1>7, <3>1, PipeStopAt
  <2>2. CASE ~On(wh, "READING")
    BY <1>6, <2>2, <1>7 DEF SameBut
  <2> QED BY <2>1, <2>2
<1> HIDE DEF s
<1>9. /\ s.spin = "none" /\ s.pc = wh.pc /\ s.cur = wh.cur /\ ~On(s, "CLOSING") /\ DOMAIN s = PipeFields
      /\ s.early = h.early /\ s.kernel = h.kernel /\ s.pending = h.pending /\ s.walk = h.walk
  BY <1>1, <1>2, <1>4, <1>5, <1>6, <1>8 DEF SameBut, PipeFields, BaseFields
<1>10. "connect" \in Outstanding(s) => s.early
  BY <1>6, <1>9, <1>4 DEF Outstanding, ConnectUnderWay
<1>11. ASSUME NEW g, g = Interrupt(s, "close")
       PROVE  /\ PipeAt(g, k) /\ g.pc = wh.pc /\ g.cur = wh.cur /\ g.spin \in {"none", "close"}
              /\ ~On(g, "READING")
  <2>1. \/ /\ PipeAt(g, k) /\ SameBut(g, s, {"spin"}) /\ g.spin = "close"
           /\ \A f : On(g, f) <=> On(s, f)
        \/ \E c : /\ PipeAt(c, k) /\ SameBut(c, s, {"flags", "thread"}) /\ Cut(c) /\ c.spin = "none"
                  /\ \A f : f # "CANCELLATION_PENDING" => (On(c, f) <=> On(s, f))
                  /\ Outstanding(c) = Outstanding(s)
                  /\ g = GoesOn(c, "close")
    BY <1>8, <1>9, <1>11, InterruptAt
  <2>2. CASE /\ PipeAt(g, k) /\ SameBut(g, s, {"spin"}) /\ g.spin = "close"
             /\ \A f : On(g, f) <=> On(s, f)
    BY <1>8, <1>9, <2>2 DEF SameBut, PipeFields, BaseFields
  <2>3. CASE \E c : /\ PipeAt(c, k) /\ SameBut(c, s, {"flags", "thread"}) /\ Cut(c) /\ c.spin = "none"
                    /\ \A f : f # "CANCELLATION_PENDING" => (On(c, f) <=> On(s, f))
                    /\ Outstanding(c) = Outstanding(s)
                    /\ g = GoesOn(c, "close")
    <3>1. PICK c : /\ PipeAt(c, k) /\ SameBut(c, s, {"flags", "thread"}) /\ Cut(c) /\ c.spin = "none"
                   /\ \A f : f # "CANCELLATION_PENDING" => (On(c, f) <=> On(s, f))
                   /\ Outstanding(c) = Outstanding(s)
                   /\ g = GoesOn(c, "close")
      BY <2>3
    <3>2. g = CloseRest(c)
      BY <3>1 DEF GoesOn
    <3>3. /\ ~On(c, "CLOSING") /\ ~On(c, "READING") /\ ("connect" \in Outstanding(c) => c.early)
          /\ c.pc = wh.pc /\ c.cur = wh.cur /\ DOMAIN c = PipeFields
      BY <1>8, <1>9, <1>10, <3>1 DEF SameBut, PipeFields, BaseFields
    <3>4. /\ PipeAt(g, k) /\ SameBut(g, c, {"flags", "counted", "timer", "pipe"}) /\ ~On(g, "READING")
      BY <3>1, <3>2, <3>3, CloseRestAt
    <3> QED BY <3>1, <3>3, <3>4 DEF SameBut, PipeFields, BaseFields
  <2> QED BY <2>1, <2>2, <2>3
<1> QED BY <1>1, <1>2, <1>11, PipeInvBack DEF k

\* Whether the timer has run does not matter to a read that stops.
LEMMA StopBeside ==
  ASSUME NEW h, DOMAIN h = PipeFields, NEW g, SameBut(g, h, {"timer", "pipe"})
  PROVE  /\ SameBut(PipeStop(g), PipeStop(h), {"timer", "pipe"})
         /\ PipeStop(g).timer = g.timer /\ PipeStop(g).pipe = g.pipe
<1> DEFINE p == Clear(h, {"READING"})
           q == Clear(g, {"READING"})
<1>1. /\ g.flags = h.flags /\ g.activecnt = h.activecnt /\ g.counted = h.counted /\ DOMAIN g = PipeFields
  BY DEF SameBut, PipeFields, BaseFields
<1>2. /\ DOMAIN p = PipeFields /\ DOMAIN q = PipeFields /\ q.flags = p.flags /\ q.activecnt = p.activecnt
      /\ q.counted = p.counted /\ q.timer = g.timer /\ q.pipe = g.pipe /\ SameBut(q, p, {"timer", "pipe"})
  BY <1>1 DEF Clear, SameBut, PipeFields, BaseFields
<1>3. PipeStop(h) = DecActive(p) /\ PipeStop(g) = DecActive(q)
  BY DEF PipeStop
<1> HIDE DEF p, q
<1> DEFINE a == DecActive(p)
           b == DecActive(q)
<1>4. /\ SameBut(a, p, {"flags", "counted", "activecnt"}) /\ SameBut(b, q, {"flags", "counted", "activecnt"})
  BY <1>2 DEF DecActive, SameBut, PipeFields, BaseFields
<1>5. a.flags = b.flags /\ a.counted = b.counted /\ a.activecnt = b.activecnt
  BY <1>2 DEF DecActive, On, PipeFields, BaseFields
<1> HIDE DEF a, b
<1>6. SameBut(b, a, {"timer", "pipe"}) /\ b.timer = g.timer /\ b.pipe = g.pipe
  BY <1>2, <1>4, <1>5 DEF SameBut, PipeFields
<1> QED BY <1>3, <1>6 DEF a, b

LEMMA PipeTimerKeeps == ASSUME PipeInv, eof_timer_cb PROVE PipeInv'
<1> DEFINE h == [wh EXCEPT !.timer = "none", !.pipe = FALSE]
           s == IF On(wh, "READING") THEN PipeStop(wh) ELSE wh
           m == IF On(wh, "READING") THEN PipeStop(h) ELSE h
           g == CallUser(m, "timer_cb", "none")
           i == [wh EXCEPT !.timer = "idle"]
<1>1. /\ wh.pc = "idle" /\ wh.spin = "none" /\ wh.timer = "on"
      /\ \/ wh' = i
         \/ ~Threaded(wh) /\ "read" \in wh.kernel /\ wh' = g
  BY DEF eof_timer_cb, PipeLoop, IsSet
<1>2. ~On(wh, "CLOSING")
  BY <1>1 DEF PipeInv, PipeOk, PipeLinked
<1>3. PipeAt(wh, "none") /\ PipePc(wh) /\ DOMAIN wh = PipeFields
  BY <1>1, <1>2, PipeInvAt DEF PipeKind
<1>4. PipeTypes(wh) /\ PipeLinked(wh) /\ PipeReader(wh) /\ PipeInput(wh) /\ wh.cur = "none"
  BY <1>1, <1>3, PipeCore DEF PipePc
<1>5. CASE wh' = i
  <2>1. SameBut(i, wh, {"timer"}) /\ i.timer = "idle"
    BY <1>3 DEF SameBut, PipeFields, BaseFields
  <2> HIDE DEF i
  <2>2. /\ i.pipe = wh.pipe /\ i.reader = wh.reader /\ i.result = wh.result /\ i.shutdown_req = wh.shutdown_req
        /\ i.ok = wh.ok /\ i.kernel = wh.kernel /\ i.pending = wh.pending /\ i.walk = wh.walk
        /\ i.thread = wh.thread /\ i.input = wh.input /\ i.avail = wh.avail /\ i.ipc = wh.ipc
        /\ i.payload_remaining = wh.payload_remaining /\ i.ipc_xfer_queue = wh.ipc_xfer_queue
        /\ i.spin = wh.spin /\ i.early = wh.early /\ i.flags = wh.flags /\ i.pc = wh.pc /\ i.cur = wh.cur
    BY <1>3, <2>1 DEF SameBut, PipeFields, BaseFields
  <2>3. Outstanding(i) = Outstanding(wh) /\ \A f : On(i, f) <=> On(wh, f)
    BY <2>2 DEF Outstanding, On
  <2>4. SameBut(i, wh, {"flags", "pc", "cur", "thread", "reader", "spin", "result", "timer", "input",
                        "avail", "payload_remaining", "ipc_xfer_queue", "frames", "early", "pipe"})
    BY <2>1 DEF SameBut
  <2>5. PipeLinked(i)
    BY <1>1, <1>4, <2>1, <2>2, <2>3 DEF PipeLinked
  <2>6. PipeReader(i)
    BY <1>4, <2>2, <2>3 DEF PipeReader, Threaded
  <2>7. PipeInput(i)
    BY <1>4, <2>2, <2>3 DEF PipeInput
  <2>8. /\ i.pipe \in BOOLEAN /\ i.early \in BOOLEAN /\ i.thread \in {"null", "thread", "invalid"}
        /\ i.reader \in {"none", "start", "reading", "leaving"}
        /\ i.spin \in {"none", "close", "stop", "name", "error"} /\ i.result \in {"ok", "error", "aborted"}
        /\ i.timer \in {"none", "on", "idle"} /\ (Threaded(wh) => Threaded(i))
    BY <1>4, <2>1, <2>2, <2>3 DEF PipeTypes, Threaded
  <2>9. PipeAt(i, "none")
    BY <1>3, <2>3, <2>4, <2>5, <2>6, <2>7, <2>8, PipeAside
  <2>10. PipePc(i) /\ PipeKind(i) = "none"
    BY <1>1, <1>3, <2>2, <2>3 DEF PipePc, PipeKind
  <2> QED BY <1>5, <2>9, <2>10 DEF PipeInv, PipeAt
<1>6. CASE ~Threaded(wh) /\ "read" \in wh.kernel /\ wh' = g
  <2>1. SameBut(h, wh, {"timer", "pipe"}) /\ h.timer = "none" /\ h.pipe = FALSE
    BY <1>3 DEF SameBut, PipeFields, BaseFields
  <2> HIDE DEF h
  <2>2. SameBut(m, s, {"timer", "pipe"}) /\ m.timer = "none" /\ m.pipe = FALSE
    BY <1>3, <2>1, StopBeside
  <2>3. /\ PipeAt(s, "none") /\ SameBut(s, wh, {"flags", "counted", "activecnt"})
        /\ ~On(s, "READING") /\ \A f : f \notin {"ACTIVE", "READING"} => (On(s, f) <=> On(wh, f))
    <3>1. CASE On(wh, "READING")
      <4>1. s = PipeStop(wh)
        BY <3>1
      <4> HIDE DEF s
      <4> QED BY <1>3, <3>1, <4>1, PipeStopAt
    <3>2. CASE ~On(wh, "READING")
      BY <3>2, <1>3 DEF SameBut
    <3> QED BY <3>1, <3>2
  <2> HIDE DEF s, m
  <2>4. SameBut(g, m, {"pc", "cur"}) /\ g.pc = "timer_cb" /\ g.cur = "none"
    BY <1>3, <2>2, <2>3, CallSame DEF SameBut, PipeFields
  <2> HIDE DEF g
  <2>5. /\ SameBut(g, s, {"pc", "cur", "timer", "pipe"}) /\ DOMAIN s = PipeFields
        /\ g.timer = "none" /\ g.pipe = FALSE /\ g.flags = s.flags
    BY <1>3, <2>2, <2>3, <2>4 DEF SameBut, PipeFields, BaseFields
  <2>6. /\ g.reader = wh.reader /\ g.result = wh.result /\ g.shutdown_req = wh.shutdown_req
        /\ g.ok = wh.ok /\ g.kernel = wh.kernel /\ g.pending = wh.pending /\ g.walk = wh.walk
        /\ g.thread = wh.thread /\ g.input = wh.input /\ g.avail = wh.avail /\ g.ipc = wh.ipc
        /\ g.payload_remaining = wh.payload_remaining /\ g.ipc_xfer_queue = wh.ipc_xfer_queue
        /\ g.spin = wh.spin /\ g.early = wh.early
    BY <1>3, <2>3, <2>5 DEF SameBut, PipeFields, BaseFields
  <2>7. /\ Outstanding(g) = Outstanding(wh) /\ (\A f : On(g, f) <=> On(s, f)) /\ ~On(g, "READING")
        /\ \A f : f \notin {"ACTIVE", "READING"} => (On(g, f) <=> On(wh, f))
    BY <2>3, <2>5, <2>6 DEF Outstanding, On
  <2>8. SameBut(g, s, {"flags", "pc", "cur", "thread", "reader", "spin", "result", "timer", "input",
                       "avail", "payload_remaining", "ipc_xfer_queue", "frames", "early", "pipe"})
    BY <2>5 DEF SameBut
  <2>9. PipeLinked(g)
    BY <1>1, <1>2, <1>4, <2>5, <2>6, <2>7 DEF PipeLinked
  <2>10. PipeReader(g)
    BY <1>1, <1>4, <1>6, <2>5, <2>6, <2>7 DEF PipeReader, Threaded, PipeTypes
  <2>11. PipeInput(g)
    BY <1>4, <2>6, <2>7 DEF PipeInput
  <2>12. /\ g.pipe \in BOOLEAN /\ g.early \in BOOLEAN /\ g.thread \in {"null", "thread", "invalid"}
         /\ g.reader \in {"none", "start", "reading", "leaving"}
         /\ g.spin \in {"none", "close", "stop", "name", "error"} /\ g.result \in {"ok", "error", "aborted"}
         /\ g.timer \in {"none", "on", "idle"} /\ (Threaded(s) => Threaded(g))
    BY <1>4, <2>5, <2>6, <2>7 DEF PipeTypes, Threaded
  <2>13. PipeAt(g, "none")
    BY <2>3, <2>7, <2>8, <2>9, <2>10, <2>11, <2>12, PipeAside
  <2>14. PipePc(g) /\ PipeKind(g) = "none"
    BY <1>1, <2>4, <2>6, <2>7 DEF PipePc, PipeKind
  <2> QED BY <1>6, <2>13, <2>14 DEF PipeInv, PipeAt
<1> QED BY <1>1, <1>5, <1>6

\* A pipe that was got, or none
LEMMA GotAt ==
  ASSUME NEW h, NEW k, PipeAt(h, k), ~h.pipe, ~On(h, "CONNECTION"), NEW b, b = h \/ b \in PipesFor(h)
  PROVE  /\ Core(b, PipeReqs, PipeOn(h, k)) /\ Outstanding(b) = Outstanding(h)
         /\ SameBut(b, h, {"flags", "pipe"}) /\ b.pipe = (b # h)
         /\ \A f : f \notin {"NON_OVERLAPPED_PIPE", "READABLE", "WRITABLE"} => (On(b, f) <=> On(h, f))
         /\ \A f : On(h, f) => On(b, f)
<1> DEFINE n == PipeOn(h, k)
<1>1. Core(h, PipeReqs, n) /\ DOMAIN h = PipeFields /\ PipeTypes(h) /\ ~On(h, "CLOSED")
  BY PipeCore
<1> HIDE DEF n
<1>2. CASE b = h
  BY <1>1, <1>2 DEF SameBut, PipeTypes, n
<1>3. CASE b \in PipesFor(h)
  BY <1>1, <1>3, PipesForFlags, OtherCore DEF Alike, BaseFields, n
<1> QED BY <1>2, <1>3

LEMMA PipeConnectKeeps == ASSUME PipeInv, uv_pipe_connect PROVE PipeInv'
<1> DEFINE k == PipeKind(wh)
           n == PipeOn(wh, k)
<1>1. /\ wh.pc # "read_loop" /\ wh.spin = "none" /\ ~wh.pipe /\ ~On(wh, "CONNECTION")
      /\ "connect" \notin Outstanding(wh) /\ ~On(wh, "CLOSING")
  BY DEF uv_pipe_connect, PipeUser, Unused, IsSet, ConnectUnderWay
<1>2. PipeAt(wh, k) /\ PipePc(wh) /\ DOMAIN wh = PipeFields
  BY <1>1, PipeInvAt
<1> HIDE DEF k
<1>3. PICK b, x : /\ b = wh \/ b \in PipesFor(wh)
                  /\ \/ b = wh /\ x = Given(b, "connect")
                     \/ b = wh /\ x = Inserted(b, "connect", FALSE)
                     \/ b \in PipesFor(wh) /\ x = Inserted(b, "connect", TRUE)
                  /\ wh' = Register(x)
  BY DEF uv_pipe_connect
<1>4. /\ Core(b, PipeReqs, n) /\ Outstanding(b) = Outstanding(wh)
      /\ SameBut(b, wh, {"flags", "pipe"}) /\ b.pipe = (b # wh)
      /\ \A f : f \notin {"NON_OVERLAPPED_PIPE", "READABLE", "WRITABLE"} => (On(b, f) <=> On(wh, f))
      /\ \A f : On(wh, f) => On(b, f)
  BY <1>1, <1>2, <1>3, GotAt
<1>5. /\ PipeTypes(wh) /\ PipeLinked(wh) /\ PipeReader(wh) /\ PipeInput(wh) /\ PipeWritten(wh, k)
      /\ PipeDue(wh) /\ ~On(wh, "CLOSED") /\ wh.activecnt \in Nat
  BY <1>2, PipeCore
<1> HIDE DEF n
<1>6. /\ Core(x, PipeReqs, n) /\ SameBut(x, b, {"kernel", "pending", "ok", "reqs_pending"})
      /\ Outstanding(x) = Outstanding(b) \cup {"connect"}
  <2>1. "connect" \notin Outstanding(b) /\ ~On(b, "CLOSED") /\ "connect" \in PipeReqs
    BY <1>1, <1>4, <1>5 DEF PipeReqs
  <2>2. x = Given(b, "connect") \/ x = Inserted(b, "connect", TRUE) \/ x = Inserted(b, "connect", FALSE)
    BY <1>3
  <2> QED BY ZenonT(30), <1>4, <2>1, <2>2, PutKeeps
<1>7. b.kernel = wh.kernel /\ b.ok = wh.ok /\ DOMAIN b = PipeFields /\ b.activecnt = wh.activecnt
  BY <1>2, <1>4 DEF SameBut, PipeFields, BaseFields
<1>8. x.pipe <=> "connect" \in x.ok \ x.kernel
  <2>1. "connect" \notin b.kernel
    BY <1>1, <1>7 DEF Outstanding
  <2>2. x.pipe = b.pipe
    BY <1>6, <1>7 DEF SameBut, PipeFields
  <2>3. CASE b = wh /\ x = Given(b, "connect")
    BY <1>4, <1>7, <2>2, <2>3 DEF Given, PipeFields, BaseFields
  <2>4. CASE b = wh /\ x = Inserted(b, "connect", FALSE)
    BY <1>4, <1>7, <2>2, <2>4 DEF Inserted, PipeFields, BaseFields
  <2>5. CASE b \in PipesFor(wh) /\ x = Inserted(b, "connect", TRUE)
    BY <1>2, <2>5, <1>7, <2>1, <2>2, PipesForFlags DEF Inserted, PipeFields, BaseFields
  <2> QED BY <1>3, <2>3, <2>4, <2>5
<1>9. /\ x.flags = b.flags /\ x.activecnt = b.activecnt /\ DOMAIN x = PipeFields
  BY <1>6, <1>7 DEF SameBut, PipeFields, BaseFields
<1>10. \A f : On(x, f) <=> On(b, f)
  BY <1>9 DEF On
<1>11. ASSUME NEW g, g = Register(x)
       PROVE  /\ PipeAt(g, k) /\ g.pc = wh.pc /\ g.cur = wh.cur /\ g.spin = wh.spin
              /\ ~On(g, "READING")
  <2>1. /\ Core(g, PipeReqs, n) /\ SameBut(g, x, {"flags", "counted", "activecnt", "active_reqs"})
        /\ Outstanding(g) = Outstanding(x) /\ g.activecnt = x.activecnt + 1
        /\ g.active_reqs = x.active_reqs + 1
        /\ \A f : f # "ACTIVE" => (On(g, f) <=> On(x, f))
    <3>1. ~On(x, "CLOSING") /\ x.activecnt >= 0
      BY <1>1, <1>4, <1>5, <1>7, <1>9, <1>10
    <3> QED BY <1>6, <1>11, <3>1, RegisterCore
  <2>2. /\ SameBut(g, wh, {"flags", "pipe", "kernel", "pending", "ok", "reqs_pending", "counted",
                           "activecnt", "active_reqs"})
        /\ Outstanding(g) = Outstanding(wh) \cup {"connect"}
        /\ g.activecnt = wh.activecnt + 1 /\ g.active_reqs = wh.active_reqs + 1
        /\ (g.pipe <=> "connect" \in g.ok \ g.kernel) /\ g.pipe \in BOOLEAN
    BY <1>4, <1>6, <2>1, <1>2, <1>7, <1>9, <1>8 DEF SameBut, PipeFields, BaseFields
  <2>3. /\ \A f : f \notin {"ACTIVE", "NON_OVERLAPPED_PIPE", "READABLE", "WRITABLE"} => (On(g, f) <=> On(wh, f))
        /\ (Threaded(wh) => Threaded(g))
    BY <1>4, <1>10, <2>1 DEF Threaded
  <2>4. /\ g.ipc = wh.ipc /\ g.write_reqs_pending = wh.write_reqs_pending
        /\ g.shutdown_req = wh.shutdown_req /\ g.writes = wh.writes /\ g.thread = wh.thread
        /\ g.reader = wh.reader /\ g.spin = wh.spin /\ g.result = wh.result /\ g.timer = wh.timer
        /\ g.input = wh.input /\ g.avail = wh.avail /\ g.payload_remaining = wh.payload_remaining
        /\ g.ipc_xfer_queue = wh.ipc_xfer_queue /\ g.early = wh.early /\ g.writer = wh.writer
        /\ g.todo = wh.todo /\ g.called = wh.called /\ g.pc = wh.pc /\ g.cur = wh.cur
        /\ DOMAIN g = PipeFields
    BY <1>2, <2>2 DEF SameBut, PipeFields, BaseFields
  <2>5. /\ ~On(wh, "SHUTTING") /\ ~On(wh, "READ_PENDING") /\ ~On(wh, "READING") /\ wh.timer = "none"
        /\ wh.reader = "none" /\ ~wh.shutdown_req /\ "shutdown" \notin Outstanding(wh)
        /\ "read" \notin Outstanding(wh) /\ ~On(wh, "CANCELLATION_PENDING") /\ wh.thread # "thread"
    BY <1>1, <1>5 DEF PipeLinked, PipeReader, PipeTypes
  <2>6. PipeTypes(g)
    BY <1>5, <2>2, <2>4 DEF PipeTypes
  <2>7. PipeCounts(g, k)
    <3> DEFINE r == "connect"
    <3>1. /\ r \in PipeActive /\ r \notin Outstanding(wh) /\ Outstanding(g) = Outstanding(wh) \cup {r}
          /\ r \notin PipeWrites
      BY <1>1, <2>2, PipeAssumption DEF PipeActive
    <3>2. g.write_reqs_pending = wh.write_reqs_pending + OneIf(r \in PipeWrites)
      BY <1>2, <3>1, <2>4, PipeCore DEF OneIf
    <3>3. Core(g, PipeReqs, PipeOn(wh, k))
      BY <2>1 DEF n
    <3>4. On(g, "READING") <=> On(wh, "READING")
      BY <2>3
    <3> HIDE DEF r
    <3> QED BY <1>2, <2>2, <2>4, <3>1, <3>2, <3>3, <3>4, CountsMore
  <2>8. PipeWritten(g, k)
    BY <1>5, <2>2, <2>3, <2>4, PipeAssumption DEF PipeTypes, In, PipeWritten
  <2>9. PipeLinked(g)
    BY <1>1, <1>5, <2>2, <2>3, <2>4, <2>5 DEF PipeLinked
  <2>10. PipeReader(g)
    BY <1>1, <1>5, <2>2, <2>3, <2>4, <2>5 DEF PipeReader
  <2>11. PipeInput(g)
    BY <1>5, <2>3, <2>4 DEF PipeInput
  <2>12. PipeDue(g) /\ ~On(g, "CLOSED")
    BY <1>1, <1>5, <2>3, <2>4, <2>5 DEF PipeDue, EndDue
  <2> QED BY <2>3, <2>4, <2>5, <2>6, <2>7, <2>8, <2>9, <2>10, <2>11, <2>12 DEF PipeAt, PipeOk
<1> QED BY <1>1, <1>2, <1>3, <1>11, PipeInvBack DEF k

LEMMA PipeThreadConnectKeeps == ASSUME PipeInv, pipe_connect_thread_proc PROVE PipeInv'
<1> DEFINE k == PipeKind(wh)
           n == PipeOn(wh, k)
<1>1. "connect" \in wh.kernel /\ "connect" \in Outstanding(wh)
  BY DEF pipe_connect_thread_proc, Outstanding
<1>2. PipeAt(wh, k) /\ PipePc(wh) /\ DOMAIN wh = PipeFields
  BY <1>1, PipeInvAt
<1> HIDE DEF k
<1>3. PICK b, good : /\ b = wh \/ b \in PipesFor(wh)
                     /\ good \in BOOLEAN /\ good = (b # wh) /\ wh' = Completed(b, "connect", good)
  <2>1. CASE wh' = Completed(wh, "connect", FALSE)
    <3> DEFINE f == FALSE
    <3>1. f \in BOOLEAN /\ f = (wh # wh) /\ wh' = Completed(wh, "connect", f)
      BY <2>1
    <3> HIDE DEF f
    <3> QED BY <3>1
  <2>2. CASE \E h \in PipesFor(wh) : wh' = Completed(h, "connect", TRUE)
    <3>1. PICK h \in PipesFor(wh) : wh' = Completed(h, "connect", TRUE)
      BY <2>2
    <3>2. h # wh
      <4>1. h.pipe = TRUE
        BY <1>2, <3>1, PipesForFlags
      <4>2. wh.pipe = FALSE
        BY <1>1, <1>2, PipeCore DEF PipeLinked, PipeTypes
      <4> QED BY <4>1, <4>2
    <3> DEFINE t == TRUE
    <3>3. t \in BOOLEAN /\ t = (h # wh) /\ wh' = Completed(h, "connect", t)
      BY <3>1, <3>2
    <3> HIDE DEF t
    <3> QED BY <3>1, <3>3
  <2> QED BY <2>1, <2>2 DEF pipe_connect_thread_proc
<1>4. /\ PipeTypes(wh) /\ PipeLinked(wh) /\ PipeReader(wh) /\ PipeInput(wh) /\ PipeDue(wh)
      /\ wh.activecnt = wh.active_reqs + OneIf(On(wh, "READING")) /\ ~On(wh, "CLOSED")
  BY <1>2, PipeCore
<1>5. ~wh.pipe /\ ~On(wh, "CONNECTION")
  BY <1>1, <1>4 DEF PipeLinked
<1>6. /\ Core(b, PipeReqs, n) /\ Outstanding(b) = Outstanding(wh)
      /\ SameBut(b, wh, {"flags", "pipe"}) /\ b.pipe = (b # wh)
      /\ \A f : f \notin {"NON_OVERLAPPED_PIPE", "READABLE", "WRITABLE"} => (On(b, f) <=> On(wh, f))
      /\ \A f : On(wh, f) => On(b, f)
  BY <1>2, <1>3, <1>5, GotAt
<1> HIDE DEF n
<1>7. b.kernel = wh.kernel /\ DOMAIN b = PipeFields
  BY <1>2, <1>6 DEF SameBut, PipeFields, BaseFields
<1>8. ASSUME NEW g, g = Completed(b, "connect", good)
      PROVE  /\ PipeAt(g, k) /\ g.pc = wh.pc /\ g.cur = wh.cur /\ g.spin = wh.spin
             /\ ~On(g, "READING")
  <2>1. /\ Core(g, PipeReqs, n) /\ SameBut(g, b, {"kernel", "pending", "ok"})
        /\ Outstanding(g) = Outstanding(b)
    <3> DEFINE r == "connect"
    <3>1. r \in b.kernel /\ good \in BOOLEAN /\ g = Completed(b, r, good)
      BY <1>1, <1>3, <1>7, <1>8
    <3> HIDE DEF r
    <3> QED BY <1>6, <3>1, CompletedKeeps
  <2>2. g.pipe <=> "connect" \in g.ok \ g.kernel
    BY <1>3, <1>6, <1>7, <1>8 DEF Completed, PipeFields, BaseFields
  <2>3. g.pipe = b.pipe /\ g.flags = b.flags
    BY <1>7, <2>1 DEF SameBut, PipeFields, BaseFields
  <2>4. SameBut(g, wh, {"flags", "pipe", "kernel", "pending", "ok"})
    BY <1>6, <2>1 DEF SameBut
  <2>5. /\ g.ipc = wh.ipc /\ g.activecnt = wh.activecnt /\ g.reqs_pending = wh.reqs_pending
        /\ g.shutdown_req = wh.shutdown_req /\ g.thread = wh.thread
        /\ g.reader = wh.reader /\ g.spin = wh.spin /\ g.result = wh.result /\ g.timer = wh.timer
        /\ g.input = wh.input /\ g.avail = wh.avail /\ g.payload_remaining = wh.payload_remaining
        /\ g.ipc_xfer_queue = wh.ipc_xfer_queue /\ g.early = wh.early /\ g.pc = wh.pc /\ g.cur = wh.cur
    BY <1>2, <2>4 DEF SameBut, PipeFields, BaseFields
  <2>6. /\ \A f : f \notin {"NON_OVERLAPPED_PIPE", "READABLE", "WRITABLE"} => (On(g, f) <=> On(wh, f))
        /\ (Threaded(wh) => Threaded(g)) /\ Outstanding(g) = Outstanding(wh)
    BY <1>6, <2>1, <2>3 DEF On, Threaded
  <2>7. /\ ~On(wh, "SHUTTING") /\ ~On(wh, "READ_PENDING") /\ ~On(wh, "READING") /\ wh.timer = "none"
        /\ wh.reader = "none" /\ ~wh.shutdown_req /\ "shutdown" \notin Outstanding(wh)
        /\ "read" \notin Outstanding(wh) /\ ~On(wh, "CANCELLATION_PENDING") /\ wh.thread # "thread"
        /\ wh.spin = "none"
    BY <1>4, <1>5 DEF PipeLinked, PipeReader, PipeTypes
  <2>8. PipeLinked(g)
    BY <1>1, <1>4, <1>5, <2>2, <2>5, <2>6, <2>7 DEF PipeLinked
  <2>9. PipeReader(g)
    BY <2>5, <2>6, <2>7 DEF PipeReader
  <2>10. PipeInput(g)
    BY <1>4, <2>5, <2>6 DEF PipeInput
  <2>11. /\ g.early \in BOOLEAN /\ g.thread \in {"null", "thread", "invalid"}
         /\ g.reader \in {"none", "start", "reading", "leaving"}
         /\ g.spin \in {"none", "close", "stop", "name", "error"} /\ g.result \in {"ok", "error", "aborted"}
         /\ g.timer \in {"none", "on", "idle"}
    BY <1>4, <2>5 DEF PipeTypes
  <2>12. g.pipe \in BOOLEAN
    BY <1>6, <2>3
  <2>13. SameBut(g, wh, PipeLoose) /\ Core(g, PipeReqs, PipeOn(wh, k))
    BY <2>1, <2>4 DEF SameBut, PipeLoose, n
  <2>14. g.activecnt = wh.active_reqs + OneIf(On(g, "READING"))
    BY <2>6, <1>4, <2>5 DEF OneIf
  <2>15. /\ (EndDue(g) => On(g, "ENDGAME_QUEUED")) /\ ~On(g, "CLOSED")
         /\ (On(wh, "ENDGAME_QUEUED") => On(g, "ENDGAME_QUEUED"))
    BY <1>4, <2>5, <2>6 DEF EndDue, PipeDue
  <2>16. PipeAt(g, k)
    BY <1>2, <2>6, <2>8, <2>9, <2>10, <2>11, <2>12, <2>13, <2>14, <2>15, PipeCarry
  <2> QED BY <2>5, <2>6, <2>7, <2>16
<1> QED BY <1>2, <1>3, <1>8, PipeInvBack DEF k

\* The handler of a write, a connect or a shutdown has taken its request.
LEMMA TakeActiveAt ==
  ASSUME NEW h, PipeAt(h, "none"), NEW r \in h.walk, r \in PipeActive, NEW k,
         k = IF r \in PipeWrites THEN "write" ELSE "other", NEW g, g = Unregister(Handling(h, r))
  PROVE  /\ PipeCounts(g, k) /\ Core(g, PipeReqs, PipeOn(h, k)) /\ ~EndDue(g)
         /\ SameBut(g, h, {"walk", "flags", "counted", "activecnt", "active_reqs"})
         /\ Outstanding(g) = Outstanding(h) \ {r} /\ r \in Outstanding(h) /\ r \notin h.kernel
         /\ \A f : f # "ACTIVE" => (On(g, f) <=> On(h, f))
<1> DEFINE n == PipeOn(h, "none")
           p == Handling(h, r)
<1>1. /\ Core(h, PipeReqs, n) /\ DOMAIN h = PipeFields /\ PipeCounts(h, "none") /\ ~On(h, "CLOSED")
      /\ n \in Nat /\ Len(h.writes) \in Nat /\ h.activecnt \in Nat /\ h.active_reqs \in Nat
      /\ h.activecnt >= h.active_reqs /\ IsFiniteSet(Outstanding(h)) /\ h.write_reqs_pending \in Nat
  BY PipeCore
<1>2. PipeOn(h, k) = n + 1
  <2> DEFINE a == Len(h.writes)
             b == OneIf(h.shutdown_req)
  <2>1. a \in Nat /\ b \in Nat /\ OneIf(k # "none") = 1 /\ OneIf("none" # "none") = 0
    BY <1>1 DEF OneIf
  <2>2. PipeOn(h, k) = a + OneIf(k # "none") + b /\ n = a + OneIf("none" # "none") + b
    BY DEF PipeOn
  <2> HIDE DEF a, b, n
  <2> QED BY <2>1, <2>2
<1> HIDE DEF n
<1>3. /\ Core(p, PipeReqs, n + 1) /\ SameBut(p, h, {"walk"})
      /\ Outstanding(p) = Outstanding(h) \ {r} /\ r \in Outstanding(h)
  BY <1>1, TakenKeeps
<1>4. g = Unregister(p)
  OBVIOUS
<1> HIDE DEF p
<1>5. p.flags = h.flags /\ p.activecnt = h.activecnt /\ p.active_reqs = h.active_reqs
  BY <1>1, <1>3 DEF SameBut, PipeFields, BaseFields
<1>6. r \notin h.kernel
  BY <1>1 DEF Core, HeldOnce
<1> DEFINE O == Outstanding(h)
           S == PipeActive
           W == PipeWrites
           C == Cardinality(O \cap S)
           D == Cardinality(O \cap W)
           l == Len(h.writes)
           b == OneIf(h.shutdown_req)
<1>7. /\ h.write_reqs_pending = D + l + OneIf("none" = "write")
      /\ h.active_reqs = C + l + b
      /\ h.activecnt = h.active_reqs + OneIf(On(h, "READING"))
      /\ IsFiniteSet(O) /\ r \in O /\ OneIf(r \in S) = 1 /\ b \in Nat /\ l \in Nat
      /\ OneIf("none" = "write") = 0 /\ OneIf(k = "write") = OneIf(r \in W) /\ OneIf(r \in W) \in {0, 1}
  BY <1>1, <1>3 DEF PipeCounts, OneIf
<1> HIDE DEF O, S, W
<1>8. Cardinality((O \ {r}) \cap S) = C - 1
  <2>1. IsFiniteSet(O) /\ r \in O
    BY <1>7
  <2>2. Cardinality((O \ {r}) \cap S) = Cardinality(O \cap S) - OneIf(r \in S)
    BY <2>1, PartMore
  <2> QED BY <1>7, <2>2
<1>9. Cardinality((O \ {r}) \cap W) = D - OneIf(r \in W)
  BY <1>7, PartMore
<1>10. C \in Nat /\ D \in Nat /\ Cardinality((O \ {r}) \cap S) \in Nat
  BY <1>7, OneMore, PartMore
<1> HIDE DEF C, D, l, b
<1>11. h.active_reqs > 0
  BY <1>7, <1>8, <1>10
<1>12. /\ Core(g, PipeReqs, n + 1) /\ SameBut(g, p, {"flags", "counted", "activecnt", "active_reqs"})
       /\ Outstanding(g) = Outstanding(p) /\ g.activecnt = p.activecnt - 1
       /\ g.active_reqs = p.active_reqs - 1
       /\ \A f : f # "ACTIVE" => (On(g, f) <=> On(p, f))
  <2>1. p.activecnt > 0 /\ ~On(p, "CLOSED")
    BY <1>1, <1>5, <1>11 DEF On
  <2> QED BY <1>3, <1>4, <2>1, UnregisterCore
<1>13. /\ SameBut(g, h, {"walk", "flags", "counted", "activecnt", "active_reqs"})
       /\ Outstanding(g) = Outstanding(h) \ {r}
       /\ \A f : f # "ACTIVE" => (On(g, f) <=> On(h, f))
  BY <1>1, <1>3, <1>5, <1>12 DEF SameBut, On
<1>14. /\ g.write_reqs_pending = h.write_reqs_pending /\ g.shutdown_req = h.shutdown_req
       /\ g.writes = h.writes
  BY <1>1, <1>13 DEF SameBut, PipeFields, BaseFields
<1>15. Core(g, PipeReqs, PipeOn(h, k))
  BY <1>2, <1>12
<1>16. ~EndDue(g)
  BY <1>12, <1>1, FS_CardinalityType DEF Core, EndDue
<1>17. g.write_reqs_pending = Cardinality((O \ {r}) \cap W) + l + OneIf(k = "write")
  <2> DEFINE e == OneIf(r \in W)
  <2>1. g.write_reqs_pending = D + l + 0 /\ Cardinality((O \ {r}) \cap W) = D - e /\ OneIf(k = "write") = e
        /\ e \in {0, 1}
    BY <1>7, <1>9, <1>14
  <2> HIDE DEF e
  <2> QED BY <1>7, <1>10, <2>1
<1>18. g.active_reqs = Cardinality((O \ {r}) \cap S) + l + b
  BY <1>5, <1>7, <1>8, <1>10, <1>12
<1>19. g.activecnt = g.active_reqs + OneIf(On(g, "READING"))
  <2>1. OneIf(On(g, "READING")) = OneIf(On(h, "READING")) /\ OneIf(On(h, "READING")) \in Nat
    BY <1>13 DEF OneIf
  <2> DEFINE e == OneIf(On(h, "READING"))
  <2>2. h.activecnt = h.active_reqs + e /\ OneIf(On(g, "READING")) = e /\ e \in Nat
    BY <1>7, <2>1
  <2> HIDE DEF e
  <2> QED BY <1>1, <1>5, <1>12, <2>2
<1>20. PipeCounts(g, k)
  BY <1>13, <1>14, <1>17, <1>18, <1>15, <1>19 DEF O, S, W, l, b, PipeOn, PipeCounts
<1> QED BY <1>3, <1>6, <1>13, <1>15, <1>16, <1>20

\* What is counted does not depend on the callback, the flags of the pipe or the timer.
LEMMA CountsSame ==
  ASSUME NEW h, NEW k, PipeCounts(h, k), DOMAIN h = PipeFields, ~On(h, "CLOSED"), NEW g,
         SameBut(g, h, {"flags", "pc", "cur", "pipe", "timer", "called", "todo"}), Alike(g, h),
         On(g, "READING") <=> On(h, "READING")
  PROVE  PipeCounts(g, k)
<1> DEFINE n == Len(h.writes) + OneIf(k # "none") + OneIf(h.shutdown_req)
<1>1. Core(h, PipeReqs, n)
  BY DEF PipeCounts
<1> HIDE DEF n
<1>2. Core(g, PipeReqs, n) /\ Outstanding(g) = Outstanding(h)
  <2> DEFINE fs == {"flags", "pc", "cur", "pipe", "timer", "called", "todo"}
  <2>1. fs \cap BaseFields \subseteq {"flags", "active_reqs", "ok", "pc", "cur"} /\ SameBut(g, h, fs)
    BY DEF BaseFields
  <2> HIDE DEF fs
  <2> QED BY <1>1, <2>1, OtherCore
<1>3. /\ g.write_reqs_pending = h.write_reqs_pending /\ g.shutdown_req = h.shutdown_req
      /\ g.writes = h.writes /\ g.active_reqs = h.active_reqs /\ g.activecnt = h.activecnt
  BY DEF SameBut, PipeFields, BaseFields
<1>4. OneIf(On(g, "READING")) = OneIf(On(h, "READING"))
  BY DEF OneIf
<1>5. Core(g, PipeReqs, Len(g.writes) + OneIf(k # "none") + OneIf(g.shutdown_req))
  BY <1>2, <1>3 DEF n
<1> QED BY <1>2, <1>3, <1>4, <1>5 DEF PipeCounts

TakenFields == {"walk", "flags", "counted", "activecnt", "active_reqs", "pc", "cur", "pipe", "timer", "called"}

\* And calls the user, with a pipe that is connected, closed or timed.
LEMMA PipeTakenAt ==
  ASSUME NEW h, PipeAt(h, "none"), NEW r \in h.walk, r \in PipeActive, NEW k,
         k = IF r \in PipeWrites THEN "write" ELSE "other", NEW u, u = Unregister(Handling(h, r)),
         NEW g, SameBut(g, u, {"flags", "pc", "cur", "pipe", "timer", "called"}),
         \A f : f # "CONNECTION" => (On(g, f) <=> On(u, f)),
         g.pipe \in BOOLEAN, g.timer \in {"none", "on", "idle"}
  PROVE  /\ PipeTypes(g) /\ PipeCounts(g, k) /\ PipeDue(g) /\ ~On(g, "CLOSED") /\ PipeInput(g)
         /\ SameBut(g, h, TakenFields)
         /\ Outstanding(g) = Outstanding(h) \ {r} /\ r \in Outstanding(h) /\ r \notin h.kernel
         /\ \A f : f \notin {"ACTIVE", "CONNECTION"} => (On(g, f) <=> On(h, f))
<1>1. /\ PipeCounts(u, k) /\ ~EndDue(u)
      /\ SameBut(u, h, {"walk", "flags", "counted", "activecnt", "active_reqs"})
      /\ Outstanding(u) = Outstanding(h) \ {r} /\ r \in Outstanding(h) /\ r \notin h.kernel
      /\ \A f : f # "ACTIVE" => (On(u, f) <=> On(h, f))
  BY TakeActiveAt
<1>2. DOMAIN h = PipeFields /\ PipeTypes(h) /\ PipeInput(h) /\ PipeDue(h) /\ ~On(h, "CLOSED")
  BY PipeCore
<1>3. DOMAIN u = PipeFields /\ ~On(u, "CLOSED")
  BY <1>1, <1>2 DEF SameBut
<1>4. PipeCounts(g, k)
  BY <1>1, <1>3, CountsSame DEF SameBut, Alike
<1>5. SameBut(g, h, TakenFields)
  BY <1>1 DEF SameBut, TakenFields
<1>6. /\ g.kernel = u.kernel /\ g.pending = u.pending /\ g.walk = u.walk
      /\ g.reqs_pending = u.reqs_pending
  BY <1>3 DEF SameBut, PipeFields, BaseFields
<1>7. /\ g.ipc = h.ipc /\ g.write_reqs_pending = h.write_reqs_pending
      /\ g.shutdown_req = h.shutdown_req /\ g.writes = h.writes /\ g.thread = h.thread
      /\ g.reader = h.reader /\ g.spin = h.spin /\ g.result = h.result
      /\ g.input = h.input /\ g.avail = h.avail /\ g.payload_remaining = h.payload_remaining
      /\ g.ipc_xfer_queue = h.ipc_xfer_queue /\ g.early = h.early /\ g.writer = h.writer
      /\ DOMAIN g = PipeFields
  BY <1>2, <1>5 DEF SameBut, PipeFields, BaseFields, TakenFields
<1>8. /\ Outstanding(g) = Outstanding(h) \ {r}
      /\ \A f : f \notin {"ACTIVE", "CONNECTION"} => (On(g, f) <=> On(h, f))
  BY <1>1, <1>6 DEF Outstanding
<1>9. PipeTypes(g)
  BY <1>2, <1>7 DEF PipeTypes
<1>10. PipeInput(g)
  BY <1>2, <1>7, <1>8 DEF PipeInput
<1>11. PipeDue(g) /\ ~On(g, "CLOSED")
  BY <1>1, <1>6, <1>2, <1>7, <1>8 DEF EndDue, PipeDue
<1> QED BY <1>1, <1>4, <1>5, <1>8, <1>9, <1>10, <1>11

LEMMA TakenSame ==
  ASSUME NEW h, DOMAIN h = PipeFields, NEW g, SameBut(g, h, TakenFields)
  PROVE  /\ g.shutdown_req = h.shutdown_req /\ g.writes = h.writes /\ g.thread = h.thread
         /\ g.reader = h.reader /\ g.spin = h.spin /\ g.ok = h.ok /\ g.kernel = h.kernel
         /\ g.early = h.early /\ g.writer = h.writer /\ g.todo = h.todo
BY DEF SameBut, PipeFields, BaseFields, TakenFields

LEMMA PipeProcessConnectKeeps == ASSUME PipeInv, PipeProcessConnect PROVE PipeInv'
<1> DEFINE r == "connect"
           u == Unregister(Handling(wh, r))
           m == IF r \in u.ok THEN Set(u, {"CONNECTION"}) ELSE u
           g == CallUser(m, "connect_cb", r)
<1>1. wh.spin = "none" /\ wh.pc = "idle" /\ r \in wh.walk /\ wh' = g
  BY DEF PipeProcessConnect, PipeLoop, CanHandle
<1>2. PipeAt(wh, "none") /\ PipePc(wh) /\ DOMAIN wh = PipeFields
  BY <1>1, PipeInvAt DEF Outstanding, PipeKind
<1>3. PipeTypes(wh) /\ PipeLinked(wh) /\ PipeReader(wh) /\ PipeWritten(wh, "none")
  BY <1>2, PipeCore
<1>4. r \in PipeActive /\ r \notin PipeWrites
  BY PipeAssumption DEF PipeActive
<1>5. u = Unregister(Handling(wh, r)) /\ r = "connect"
  OBVIOUS
<1> HIDE DEF r, u
<1>6. /\ SameBut(u, wh, {"walk", "flags", "counted", "activecnt", "active_reqs"})
      /\ \A f : f # "ACTIVE" => (On(u, f) <=> On(wh, f))
  <2> DEFINE k == IF r \in PipeWrites THEN "write" ELSE "other"
  <2>1. k = (IF r \in PipeWrites THEN "write" ELSE "other")
    OBVIOUS
  <2> HIDE DEF k
  <2> QED BY <1>1, <1>2, <1>4, <1>5, <2>1, TakeActiveAt
<1>7. DOMAIN u = PipeFields /\ u.ok = wh.ok /\ u.pipe = wh.pipe /\ u.timer = wh.timer
  BY <1>2, <1>6 DEF SameBut, PipeFields, BaseFields
<1>8. /\ SameBut(m, u, {"flags"})
      /\ \A f : On(m, f) <=> On(u, f) \/ (f = "CONNECTION" /\ r \in u.ok)
  <2>1. CASE r \in u.ok
    <3>1. m = Set(u, {"CONNECTION"})
      BY <2>1
    <3> HIDE DEF m
    <3>2. SameBut(m, u, {"flags"}) /\ \A f : On(m, f) <=> On(u, f) \/ f \in {"CONNECTION"}
      BY <1>7, <3>1, FlagsSame DEF PipeFields, BaseFields
    <3> QED BY <2>1, <3>2
  <2>2. CASE r \notin u.ok
    BY <2>2 DEF SameBut
  <2> QED BY <2>1, <2>2
<1> HIDE DEF m
<1>9. SameBut(g, m, {"pc", "cur"}) /\ g.pc = "connect_cb" /\ g.cur = r /\ g.flags = m.flags
  BY <1>7, <1>8 DEF CallUser, SameBut, PipeFields, BaseFields
<1> HIDE DEF g
<1>10. /\ SameBut(g, u, {"flags", "pc", "cur", "pipe", "timer", "called"})
       /\ \A f : On(g, f) <=> On(u, f) \/ (f = "CONNECTION" /\ r \in wh.ok)
       /\ g.pipe = wh.pipe /\ g.timer = wh.timer /\ g.called = u.called
  BY <1>7, <1>8, <1>9 DEF SameBut, On, PipeFields, BaseFields
<1>11. /\ PipeTypes(g) /\ PipeCounts(g, "other") /\ PipeDue(g) /\ ~On(g, "CLOSED") /\ PipeInput(g)
       /\ SameBut(g, wh, TakenFields)
       /\ Outstanding(g) = Outstanding(wh) \ {r} /\ r \in Outstanding(wh) /\ r \notin wh.kernel
       /\ \A f : f \notin {"ACTIVE", "CONNECTION"} => (On(g, f) <=> On(wh, f))
  <2> DEFINE k == IF r \in PipeWrites THEN "write" ELSE "other"
  <2>1. k = (IF r \in PipeWrites THEN "write" ELSE "other") /\ k = "other"
    BY <1>4
  <2> HIDE DEF k
  <2>2. g.pipe \in BOOLEAN /\ g.timer \in {"none", "on", "idle"}
    BY <1>3, <1>10 DEF PipeTypes
  <2>3. \A f : f # "CONNECTION" => (On(g, f) <=> On(u, f))
    BY <1>10
  <2> QED BY <1>1, <1>2, <1>4, <1>5, <1>10, <2>1, <2>2, <2>3, PipeTakenAt
<1>12. /\ g.shutdown_req = wh.shutdown_req /\ g.writes = wh.writes /\ g.thread = wh.thread
       /\ g.reader = wh.reader /\ g.spin = wh.spin /\ g.ok = wh.ok /\ g.kernel = wh.kernel
       /\ g.early = wh.early /\ g.writer = wh.writer /\ g.todo = wh.todo
  BY <1>2, <1>11, TakenSame
<1>13. /\ ~On(wh, "CONNECTION") /\ (wh.pipe <=> r \in wh.ok) /\ ~On(wh, "SHUTTING")
       /\ ~On(wh, "READ_PENDING") /\ ~On(wh, "READING") /\ wh.timer = "none"
       /\ wh.reader = "none" /\ ~wh.shutdown_req /\ "shutdown" \notin Outstanding(wh)
       /\ ~On(wh, "CANCELLATION_PENDING") /\ wh.thread # "thread" /\ wh.spin = "none"
       /\ (On(wh, "CLOSING") => wh.early) /\ "read" \notin Outstanding(wh)
  BY <1>3, <1>5, <1>11 DEF PipeLinked, PipeReader, PipeTypes
<1>14. On(g, "CONNECTION") <=> g.pipe
  BY <1>6, <1>10, <1>13
<1>15. PipeLinked(g)
  BY <1>5, <1>10, <1>11, <1>12, <1>13, <1>14 DEF PipeLinked
<1>16. PipeReader(g)
  BY <1>11, <1>12, <1>13 DEF PipeReader
<1>17. PipeWritten(g, "other")
  BY <1>2, <1>3, <1>4, <1>6, <1>10, <1>11, <1>12 DEF SameBut, PipeFields, BaseFields, PipeTypes, In,
     PipeWritten, Threaded
<1>18. PipePc(g) /\ PipeKind(g) = "other"
  BY <1>5, <1>9, <1>11, <1>12, <1>13 DEF PipePc, PipeKind
<1> QED BY <1>1, <1>11, <1>15, <1>16, <1>17, <1>18 DEF PipeInv, PipeOk

LEMMA PipeProcessWriteKeeps ==
  ASSUME PipeInv, NEW w \in PipeWrites, PipeProcessWrite(w)
  PROVE  PipeInv'
<1> DEFINE u == Unregister(Handling(wh, w))
           m == [u EXCEPT !.called = @ \cup {w}]
           g == CallUser(m, "write_cb", w)
<1>1. wh.spin = "none" /\ wh.pc = "idle" /\ w \in wh.walk /\ wh' = g
  BY DEF PipeProcessWrite, PipeLoop, CanHandle
<1>2. PipeAt(wh, "none") /\ PipePc(wh) /\ DOMAIN wh = PipeFields
  BY <1>1, PipeInvAt DEF Outstanding, PipeKind
<1>3. PipeTypes(wh) /\ PipeLinked(wh) /\ PipeReader(wh) /\ PipeWritten(wh, "none")
  BY <1>2, PipeCore
<1>4. w \in PipeActive /\ w \notin {"none", "connect", "read", "shutdown"}
  BY PipeAssumption DEF PipeActive
<1> HIDE DEF u
<1>5. /\ SameBut(u, wh, {"walk", "flags", "counted", "activecnt", "active_reqs"})
      /\ \A f : f # "ACTIVE" => (On(u, f) <=> On(wh, f))
  <2> DEFINE k == IF w \in PipeWrites THEN "write" ELSE "other"
  <2>1. k = (IF w \in PipeWrites THEN "write" ELSE "other") /\ u = Unregister(Handling(wh, w))
    BY DEF u
  <2> HIDE DEF k
  <2> QED BY <1>1, <1>2, <1>4, <2>1, TakeActiveAt
<1>6. DOMAIN u = PipeFields /\ u.called = wh.called /\ u.pipe = wh.pipe /\ u.timer = wh.timer
  BY <1>2, <1>5 DEF SameBut, PipeFields, BaseFields
<1>7. SameBut(m, u, {"called"}) /\ m.called = wh.called \cup {w} /\ m.flags = u.flags
  BY <1>6 DEF SameBut, PipeFields, BaseFields
<1> HIDE DEF m
<1>8. SameBut(g, m, {"pc", "cur"}) /\ g.pc = "write_cb" /\ g.cur = w
  BY <1>6, <1>7 DEF CallUser, SameBut, PipeFields, BaseFields
<1> HIDE DEF g
<1>9. /\ SameBut(g, u, {"flags", "pc", "cur", "pipe", "timer", "called"})
      /\ g.flags = u.flags
      /\ g.pipe = wh.pipe /\ g.timer = wh.timer /\ g.called = wh.called \cup {w}
  BY <1>6, <1>7, <1>8 DEF SameBut, PipeFields, BaseFields
<1>10. /\ PipeTypes(g) /\ PipeCounts(g, "write") /\ PipeDue(g) /\ ~On(g, "CLOSED") /\ PipeInput(g)
       /\ SameBut(g, wh, TakenFields)
       /\ Outstanding(g) = Outstanding(wh) \ {w} /\ w \in Outstanding(wh) /\ w \notin wh.kernel
       /\ \A f : f \notin {"ACTIVE", "CONNECTION"} => (On(g, f) <=> On(wh, f))
  <2> DEFINE k == IF w \in PipeWrites THEN "write" ELSE "other"
  <2>1. k = (IF w \in PipeWrites THEN "write" ELSE "other") /\ k = "write" /\ u = Unregister(Handling(wh, w))
    BY DEF u
  <2> HIDE DEF k
  <2>2. g.pipe \in BOOLEAN /\ g.timer \in {"none", "on", "idle"}
    BY <1>3, <1>9 DEF PipeTypes
  <2>3. \A f : f # "CONNECTION" => (On(g, f) <=> On(u, f))
    BY <1>9 DEF On
  <2> QED BY <1>1, <1>2, <1>4, <1>9, <2>1, <2>2, <2>3, PipeTakenAt
<1>11. /\ g.shutdown_req = wh.shutdown_req /\ g.writes = wh.writes /\ g.thread = wh.thread
       /\ g.reader = wh.reader /\ g.spin = wh.spin /\ g.ok = wh.ok /\ g.kernel = wh.kernel
       /\ g.early = wh.early /\ g.writer = wh.writer /\ g.todo = wh.todo
  BY <1>2, <1>10, TakenSame
<1>12. \A f : f # "ACTIVE" => (On(g, f) <=> On(wh, f))
  BY <1>5, <1>9 DEF On
<1>13. \A x : x \in {"connect", "read", "shutdown"} => (x \in Outstanding(g) <=> x \in Outstanding(wh))
  BY <1>4, <1>10
<1>14. PipeLinked(g)
  BY <1>3, <1>9, <1>11, <1>12, <1>13 DEF PipeLinked
<1>15. PipeReader(g)
  BY <1>3, <1>9, <1>11, <1>12 DEF PipeReader, Threaded
<1>16. PipeWritten(g, "write")
  BY <1>3, <1>10, <1>11, <1>12, <1>9 DEF PipeTypes, In, PipeWritten, Threaded
<1>17. PipePc(g) /\ PipeKind(g) = "write"
  BY <1>1, <1>2, <1>8, <1>11, <1>12 DEF PipePc, PipeKind
<1> QED BY <1>1, <1>10, <1>14, <1>15, <1>16, <1>17 DEF PipeInv, PipeOk

LEMMA PipeProcessShutdownKeeps == ASSUME PipeInv, PipeProcessShutdown PROVE PipeInv'
<1> DEFINE r == "shutdown"
           u == Unregister(Handling(wh, r))
           m == IF On(u, "READABLE") THEN [u EXCEPT !.timer = IF On(u, "READ_PENDING") THEN "on" ELSE "idle"]
                ELSE [u EXCEPT !.pipe = FALSE]
           g == CallUser(m, "shutdown_cb", r)
<1>1. wh.spin = "none" /\ wh.pc = "idle" /\ r \in wh.walk /\ wh' = g
  BY DEF PipeProcessShutdown, PipeLoop, CanHandle
<1>2. PipeAt(wh, "none") /\ PipePc(wh) /\ DOMAIN wh = PipeFields
  BY <1>1, PipeInvAt DEF Outstanding, PipeKind
<1>3. PipeTypes(wh) /\ PipeLinked(wh) /\ PipeReader(wh) /\ PipeWritten(wh, "none")
  BY <1>2, PipeCore
<1>4. r \in PipeActive /\ r \notin PipeWrites
  BY PipeAssumption DEF PipeActive
<1>5. u = Unregister(Handling(wh, r)) /\ r = "shutdown"
  OBVIOUS
<1> HIDE DEF r, u
<1>6. /\ SameBut(u, wh, {"walk", "flags", "counted", "activecnt", "active_reqs"})
      /\ \A f : f # "ACTIVE" => (On(u, f) <=> On(wh, f))
  <2> DEFINE k == IF r \in PipeWrites THEN "write" ELSE "other"
  <2>1. k = (IF r \in PipeWrites THEN "write" ELSE "other")
    OBVIOUS
  <2> HIDE DEF k
  <2> QED BY <1>1, <1>2, <1>4, <1>5, <2>1, TakeActiveAt
<1>7. DOMAIN u = PipeFields /\ u.pipe = wh.pipe /\ u.timer = wh.timer /\ u.called = wh.called
  BY <1>2, <1>6 DEF SameBut, PipeFields, BaseFields
<1>8. /\ SameBut(m, u, {"pipe", "timer"}) /\ m.flags = u.flags
      /\ \/ /\ On(wh, "READABLE") /\ m.pipe = wh.pipe /\ m.timer \in {"on", "idle"}
            /\ (m.timer = "on" => On(wh, "READ_PENDING"))
         \/ ~On(wh, "READABLE") /\ m.pipe = FALSE /\ m.timer = wh.timer
  <2>1. CASE On(u, "READABLE")
    <3> DEFINE v == IF On(u, "READ_PENDING") THEN "on" ELSE "idle"
    <3>1. m = [u EXCEPT !.timer = v] /\ v \in {"on", "idle"} /\ (v = "on" => On(u, "READ_PENDING"))
      BY <2>1
    <3> HIDE DEF m, v
    <3> QED BY <1>6, <1>7, <2>1, <3>1 DEF SameBut, PipeFields, BaseFields
  <2>2. CASE ~On(u, "READABLE")
    <3>1. m = [u EXCEPT !.pipe = FALSE]
      BY <2>2
    <3> HIDE DEF m
    <3> QED BY <1>6, <1>7, <2>2, <3>1 DEF SameBut, PipeFields, BaseFields
  <2> QED BY <2>1, <2>2
<1> HIDE DEF m
<1>9. SameBut(g, m, {"pc", "cur"}) /\ g.pc = "shutdown_cb" /\ g.cur = r /\ g.flags = m.flags
  BY <1>7, <1>8 DEF CallUser, SameBut, PipeFields, BaseFields
<1> HIDE DEF g
<1>10. /\ SameBut(g, u, {"flags", "pc", "cur", "pipe", "timer", "called"})
       /\ \A f : On(g, f) <=> On(u, f)
       /\ g.pipe = m.pipe /\ g.timer = m.timer /\ g.called = wh.called
  BY <1>7, <1>8, <1>9 DEF SameBut, On, PipeFields, BaseFields
<1>11. /\ PipeTypes(g) /\ PipeCounts(g, "other") /\ PipeDue(g) /\ ~On(g, "CLOSED") /\ PipeInput(g)
       /\ SameBut(g, wh, TakenFields)
       /\ Outstanding(g) = Outstanding(wh) \ {r} /\ r \in Outstanding(wh) /\ r \notin wh.kernel
       /\ \A f : f \notin {"ACTIVE", "CONNECTION"} => (On(g, f) <=> On(wh, f))
  <2> DEFINE k == IF r \in PipeWrites THEN "write" ELSE "other"
  <2>1. k = (IF r \in PipeWrites THEN "write" ELSE "other") /\ k = "other"
    BY <1>4
  <2> HIDE DEF k
  <2>2. g.pipe \in BOOLEAN /\ g.timer \in {"none", "on", "idle"}
    BY <1>3, <1>8, <1>10 DEF PipeTypes
  <2>3. \A f : f # "CONNECTION" => (On(g, f) <=> On(u, f))
    BY <1>10
  <2> QED BY <1>1, <1>2, <1>4, <1>5, <1>10, <2>1, <2>2, <2>3, PipeTakenAt
<1>12. /\ g.shutdown_req = wh.shutdown_req /\ g.writes = wh.writes /\ g.thread = wh.thread
       /\ g.reader = wh.reader /\ g.spin = wh.spin /\ g.ok = wh.ok /\ g.kernel = wh.kernel
       /\ g.early = wh.early /\ g.writer = wh.writer /\ g.todo = wh.todo
  BY <1>2, <1>11, TakenSame
<1>13. \A f : f # "ACTIVE" => (On(g, f) <=> On(wh, f))
  BY <1>6, <1>10
<1>14. /\ On(wh, "CONNECTION") /\ "connect" \notin Outstanding(wh) /\ ~wh.shutdown_req
       /\ On(wh, "SHUTTING") /\ (On(wh, "READABLE") => ~On(wh, "CLOSING") /\ wh.pipe)
       /\ (~On(wh, "READABLE") => ~On(wh, "READING") /\ (On(wh, "READ_PENDING") => ~wh.pipe))
       /\ wh.timer = "none"
  BY <1>3, <1>5, <1>11 DEF PipeLinked
<1>15. \A x : x \in {"connect", "read"} => (x \in Outstanding(g) <=> x \in Outstanding(wh))
  BY <1>5, <1>11
<1>16. PipeLinked(g)
  BY <1>3, <1>5, <1>8, <1>10, <1>11, <1>12, <1>13, <1>14, <1>15 DEF PipeLinked
<1>17. PipeReader(g)
  BY <1>1, <1>3, <1>8, <1>10, <1>12, <1>13, <1>14 DEF PipeReader, Threaded
<1>18. PipeWritten(g, "other")
  BY <1>3, <1>4, <1>11, <1>10, <1>12 DEF PipeTypes, In, PipeWritten, Threaded
<1>19. PipePc(g) /\ PipeKind(g) = "other"
  BY <1>1, <1>2, <1>5, <1>9, <1>12, <1>13 DEF PipePc, PipeKind
<1> QED BY <1>1, <1>11, <1>16, <1>17, <1>18, <1>19 DEF PipeInv, PipeOk

\* What was counted already is given to the system, or is done at once.
LEMMA HandedCore ==
  ASSUME NEW h, NEW R, NEW n \in Nat, Core(h, R, n + 1), ~On(h, "CLOSED"), NEW r \in R, r \notin Outstanding(h),
         NEW g, NEW fs, SameBut(g, h, fs),
         fs \cap BaseFields \subseteq {"kernel", "pending"}, g.walk = h.walk,
         \/ g.kernel = h.kernel \cup {r} /\ g.pending = h.pending
         \/ g.kernel = h.kernel /\ g.pending = h.pending \cup {r}
  PROVE  /\ Core(g, R, n) /\ Outstanding(g) = Outstanding(h) \cup {r} /\ ~On(g, "CLOSED")
         /\ \A f : On(g, f) <=> On(h, f)
<1>1. /\ BaseFields \subseteq DOMAIN g
      /\ g.flags = h.flags /\ g.counted = h.counted /\ g.activecnt = h.activecnt
      /\ g.ends = h.ends /\ g.pc = h.pc /\ g.reqs_pending = h.reqs_pending
  BY DEF Core, SameBut, BaseFields
<1>2. Outstanding(g) = Outstanding(h) \cup {r} /\ \A f : On(g, f) <=> On(h, f)
  BY <1>1 DEF Outstanding, On
<1>3. EndsOnce(g) /\ Kept(g)
  BY <1>1, <1>2 DEF Core, EndsOnce, CountSound, Kept
<1>4. HeldOnce(g)
  BY DEF Core, HeldOnce, Outstanding
<1>5. IsFiniteSet(Outstanding(g)) /\ Cardinality(Outstanding(g)) = Cardinality(Outstanding(h)) + 1
      /\ Cardinality(Outstanding(h)) \in Nat /\ Outstanding(g) \subseteq R
  <2> DEFINE O == Outstanding(h)
  <2>1. IsFiniteSet(O) /\ r \notin O /\ Outstanding(g) = O \cup {r} /\ O \subseteq R
    BY <1>2 DEF Core
  <2> HIDE DEF O
  <2>2. IsFiniteSet(O \cup {r}) /\ Cardinality(O \cup {r}) = Cardinality(O) + 1 /\ Cardinality(O) \in Nat
    BY <2>1, OneMore
  <2> QED BY <2>1, <2>2 DEF O
<1>6. g.reqs_pending = Cardinality(Outstanding(g)) + n
  BY <1>1, <1>5 DEF Core
<1> QED BY <1>1, <1>2, <1>3, <1>4, <1>5, <1>6 DEF Core

\* It is counted as a request that is out then, and no more as one that waits.
LEMMA CountsMoved ==
  ASSUME NEW h, NEW k, PipeTypes(h), PipeCounts(h, k), NEW r \in PipeActive, r \notin Outstanding(h),
         NEW g, Core(g, PipeReqs, PipeOn(g, k)), Outstanding(g) = Outstanding(h) \cup {r},
         Len(g.writes) \in Nat,
         Len(g.writes) + OneIf(g.shutdown_req) + 1 = Len(h.writes) + OneIf(h.shutdown_req),
         Len(g.writes) + OneIf(r \in PipeWrites) = Len(h.writes),
         g.active_reqs = h.active_reqs, g.activecnt = h.activecnt,
         g.write_reqs_pending = h.write_reqs_pending, On(g, "READING") <=> On(h, "READING")
  PROVE  PipeCounts(g, k)
<1> DEFINE O == Outstanding(h)
           S == PipeActive
           W == PipeWrites
<1>0. IsFiniteSet(O) /\ r \notin O
  BY PipeSizes
<1>1. Len(h.writes) \in Nat /\ Len(g.writes) \in Nat /\ Outstanding(g) = O \cup {r}
  BY PipeSizes
<1>2. OneIf(r \in S) = 1 /\ OneIf(r \in W) \in {0, 1}
  BY DEF OneIf
<1>3. /\ h.write_reqs_pending = Cardinality(O \cap W) + Len(h.writes) + OneIf(k = "write")
      /\ h.active_reqs = Cardinality(O \cap S) + Len(h.writes) + OneIf(h.shutdown_req)
      /\ h.activecnt = h.active_reqs + OneIf(On(h, "READING"))
      /\ Len(g.writes) + OneIf(r \in W) = Len(h.writes)
  BY DEF PipeCounts
<1> HIDE DEF O, S, W
<1>4. Cardinality((O \cup {r}) \cap S) = Cardinality(O \cap S) + OneIf(r \in S)
  BY <1>0, PartMore
<1>5. Cardinality((O \cup {r}) \cap W) = Cardinality(O \cap W) + OneIf(r \in W)
  BY <1>0, PartMore
<1>6. Cardinality(O \cap S) \in Nat /\ Cardinality(O \cap W) \in Nat
  BY <1>0, PartMore
<1>7. OneIf(k = "write") \in Nat /\ OneIf(h.shutdown_req) \in Nat /\ OneIf(g.shutdown_req) \in Nat
      /\ OneIf(On(g, "READING")) = OneIf(On(h, "READING"))
  BY DEF OneIf
<1> DEFINE a == OneIf(k = "write")
           b == OneIf(h.shutdown_req)
           c == OneIf(g.shutdown_req)
           d == OneIf(r \in W)
           l == Len(h.writes)
           m == Len(g.writes)
           x == Cardinality(O \cap S)
           y == Cardinality(O \cap W)
<1>8. /\ a \in Nat /\ b \in Nat /\ c \in Nat /\ d \in {0, 1} /\ l \in Nat /\ m \in Nat /\ x \in Nat /\ y \in Nat
      /\ m + c + 1 = l + b /\ m + d = l
      /\ h.write_reqs_pending = y + l + a /\ h.active_reqs = x + l + b
      /\ Cardinality((O \cup {r}) \cap S) = x + 1 /\ Cardinality((O \cup {r}) \cap W) = y + d
  BY <1>1, <1>2, <1>3, <1>4, <1>5, <1>6, <1>7
<1>9. /\ g.write_reqs_pending = Cardinality((O \cup {r}) \cap W) + m + a
      /\ g.active_reqs = Cardinality((O \cup {r}) \cap S) + m + c
  <2> HIDE DEF a, b, c, d, l, m, x, y
  <2>1. y + l + a = (y + d) + m + a /\ x + l + b = (x + 1) + m + c
    BY <1>8
  <2> QED BY <1>8, <2>1
<1>10. /\ g.write_reqs_pending = Cardinality(Outstanding(g) \cap PipeWrites) + Len(g.writes) + OneIf(k = "write")
       /\ g.active_reqs = Cardinality(Outstanding(g) \cap PipeActive) + Len(g.writes) + OneIf(g.shutdown_req)
  BY <1>1, <1>9 DEF a, c, m, S, W
<1> QED BY <1>3, <1>7, <1>10 DEF PipeCounts, PipeOn

\* uv__queue_non_overlapped_write() hands the first write of the list to a thread.
LEMMA StartWriteAt ==
  ASSUME NEW h, NEW k, PipeTypes(h), PipeCounts(h, k), ~On(h, "CLOSED"),
         In(h.writes) \cap Outstanding(h) = {}, h.writes # <<>>, NEW g, g = StartWrite(h)
  PROVE  /\ PipeTypes(g) /\ PipeCounts(g, k) /\ SameBut(g, h, {"writes", "kernel"})
         /\ \A f : On(g, f) <=> On(h, f)
         /\ \E r \in PipeWrites : /\ r \in In(h.writes) /\ g.kernel = h.kernel \cup {r}
                                  /\ Outstanding(g) = Outstanding(h) \cup {r}
                                  /\ In(g.writes) = In(h.writes) \ {r}
<1> DEFINE r == Head(h.writes)
           q == Tail(h.writes)
           c == OneIf(h.shutdown_req)
           n == Len(q) + OneIf(k # "none") + c
<1>1. /\ h.writes \in Seq(PipeWrites) /\ NoDup(h.writes) /\ DOMAIN h = PipeFields
      /\ q \in Seq(PipeWrites) /\ r \in In(h.writes) /\ In(q) = In(h.writes) \ {r} /\ NoDup(q)
      /\ Len(h.writes) = Len(q) + 1 /\ Len(q) \in Nat
  BY TakeHead DEF PipeTypes
<1>2. r \in PipeWrites /\ r \notin Outstanding(h)
  <2>1. In(h.writes) \subseteq PipeWrites
    BY <1>1 DEF In
  <2> HIDE DEF r
  <2> QED BY <1>1, <2>1
<1>3. r \in PipeReqs /\ r \in PipeActive
  BY <1>2 DEF PipeReqs, PipeActive
<1>4. g = [h EXCEPT !.writes = q, !.kernel = @ \cup {r}]
  BY DEF StartWrite
<1> HIDE DEF r, q
<1>5. /\ SameBut(g, h, {"writes", "kernel"}) /\ g.writes = q /\ g.kernel = h.kernel \cup {r}
      /\ g.pending = h.pending /\ g.walk = h.walk /\ g.flags = h.flags /\ DOMAIN g = PipeFields
      /\ g.shutdown_req = h.shutdown_req /\ g.active_reqs = h.active_reqs /\ g.activecnt = h.activecnt
      /\ g.write_reqs_pending = h.write_reqs_pending
  BY <1>1, <1>4 DEF SameBut, PipeFields, BaseFields
<1>6. Core(h, PipeReqs, n + 1) /\ n \in Nat
  <2> DEFINE a == OneIf(k # "none")
  <2>1. a \in Nat /\ c \in Nat
    BY DEF OneIf
  <2>2. Core(h, PipeReqs, Len(h.writes) + a + c)
    BY DEF PipeCounts
  <2> HIDE DEF a, c
  <2>3. Len(h.writes) + a + c = (Len(q) + a + c) + 1 /\ Len(q) + a + c \in Nat
    BY <1>1, <2>1
  <2> QED BY <2>2, <2>3 DEF a
<1>7. n = PipeOn(g, k)
  BY <1>5 DEF PipeOn
<1> HIDE DEF n
<1>8. /\ Core(g, PipeReqs, n) /\ Outstanding(g) = Outstanding(h) \cup {r}
      /\ \A f : On(g, f) <=> On(h, f)
  <2> DEFINE fs == {"writes", "kernel"}
  <2>1. fs \cap BaseFields \subseteq {"kernel", "pending"} /\ SameBut(g, h, fs)
    BY <1>5 DEF BaseFields
  <2> HIDE DEF fs
  <2> QED BY <1>2, <1>3, <1>5, <1>6, <2>1, HandedCore
<1>9. PipeCounts(g, k)
  <2>1. OneIf(r \in PipeWrites) = 1 /\ OneIf(g.shutdown_req) = c /\ c \in Nat
    BY <1>2, <1>5 DEF OneIf
  <2> HIDE DEF c
  <2>2. /\ Len(g.writes) + OneIf(g.shutdown_req) + 1 = Len(h.writes) + OneIf(h.shutdown_req)
        /\ Len(g.writes) + OneIf(r \in PipeWrites) = Len(h.writes)
    BY <1>1, <1>5, <2>1 DEF c
  <2>3. Core(g, PipeReqs, PipeOn(g, k)) /\ Len(g.writes) \in Nat /\ (On(g, "READING") <=> On(h, "READING"))
    BY <1>1, <1>5, <1>7, <1>8
  <2> QED BY <1>2, <1>3, <1>5, <1>8, <2>2, <2>3, CountsMoved
<1>10. PipeTypes(g)
  BY <1>1, <1>5 DEF SameBut, PipeFields, BaseFields, PipeTypes
<1> QED BY <1>1, <1>2, <1>5, <1>8, <1>9, <1>10

\* A write is out, or in the list.
LEMMA WroteAt ==
  ASSUME NEW h, NEW k, PipeAt(h, k), NEW w, w \in h.todo, ~On(h, "CLOSING"), NEW g,
         SameBut(g, h, {"flags", "counted", "activecnt", "active_reqs", "write_reqs_pending", "todo",
                        "writes", "kernel", "reqs_pending"}),
         PipeCounts(g, k), g.writes \in Seq(PipeWrites), NoDup(g.writes), g.todo = h.todo \ {w},
         g.write_reqs_pending = h.write_reqs_pending + 1,
         \A f : f # "ACTIVE" => (On(g, f) <=> On(h, f)),
         \/ /\ g.kernel = h.kernel \cup {w} /\ Outstanding(g) = Outstanding(h) \cup {w}
            /\ g.writes = h.writes
         \/ /\ g.kernel = h.kernel /\ Outstanding(g) = Outstanding(h) /\ Threaded(h)
            /\ In(g.writes) = In(h.writes) \cup {w} /\ h.write_reqs_pending # 0
  PROVE  PipeAt(g, k)
<1>1. /\ DOMAIN h = PipeFields /\ PipeTypes(h) /\ PipeCounts(h, k) /\ PipeWritten(h, k) /\ PipeLinked(h)
      /\ PipeReader(h) /\ PipeInput(h) /\ PipeDue(h) /\ ~On(h, "CLOSED") /\ h.write_reqs_pending \in Nat
      /\ Len(h.writes) \in Nat
  BY PipeCore
<1>2. w \in PipeWrites /\ w \notin {"connect", "read", "shutdown"}
  BY <1>1, PipeAssumption DEF PipeWritten
<1>3. /\ g.ipc = h.ipc /\ g.pipe = h.pipe /\ g.early = h.early /\ g.writer = h.writer
      /\ g.thread = h.thread /\ g.reader = h.reader /\ g.spin = h.spin /\ g.result = h.result
      /\ g.timer = h.timer /\ g.shutdown_req = h.shutdown_req /\ g.ok = h.ok /\ g.called = h.called
      /\ g.input = h.input /\ g.avail = h.avail /\ g.payload_remaining = h.payload_remaining
      /\ g.ipc_xfer_queue = h.ipc_xfer_queue /\ DOMAIN g = PipeFields
  BY <1>1 DEF SameBut, PipeFields, BaseFields
<1>4. \A x : x \in {"connect", "read", "shutdown"} =>
          /\ (x \in Outstanding(g) <=> x \in Outstanding(h)) /\ (x \in g.kernel <=> x \in h.kernel)
  BY <1>2
<1>5. PipeTypes(g)
  BY <1>1, <1>3 DEF PipeTypes
<1>6. PipeLinked(g)
  BY <1>1, <1>3, <1>4 DEF PipeLinked
<1>7. PipeReader(g)
  BY <1>1, <1>3, <1>4 DEF PipeReader, Threaded
<1>8. PipeInput(g)
  BY <1>1, <1>3 DEF PipeInput
<1>9. PipeDue(g)
  BY <1>1 DEF PipeDue, EndDue
<1>10. PipeWritten(g, k)
  <2>1. /\ h.todo \subseteq PipeWrites
        /\ h.todo \cap (Outstanding(h) \cup In(h.writes)) = {} /\ In(h.writes) \cap Outstanding(h) = {}
        /\ h.writer => h.todo \cup h.called \cup (Outstanding(h) \cap PipeWrites) \cup In(h.writes) = PipeWrites
        /\ h.writes # <<>> => Threaded(h) /\ (k = "write" \/ Outstanding(h) \cap PipeWrites # {})
    BY <1>1 DEF PipeWritten
  <2>2. CASE /\ g.kernel = h.kernel \cup {w} /\ Outstanding(g) = Outstanding(h) \cup {w}
             /\ g.writes = h.writes
    BY <2>1, <2>2, <1>2, <1>3 DEF Threaded, PipeWritten
  <2>3. CASE /\ g.kernel = h.kernel /\ Outstanding(g) = Outstanding(h) /\ Threaded(h)
             /\ In(g.writes) = In(h.writes) \cup {w} /\ h.write_reqs_pending # 0
    <3>1. /\ g.todo \subseteq PipeWrites
          /\ g.todo \cap (Outstanding(g) \cup In(g.writes)) = {} /\ In(g.writes) \cap Outstanding(g) = {}
      BY <2>1, <2>3
    <3>2. g.writer => g.todo \cup g.called \cup (Outstanding(g) \cap PipeWrites) \cup In(g.writes) = PipeWrites
      BY <1>2, <1>3, <2>1, <2>3
    <3>3. k = "write" \/ Outstanding(h) \cap PipeWrites # {}
      <4> SUFFICES ASSUME k # "write", Outstanding(h) \cap PipeWrites = {} PROVE FALSE
        OBVIOUS
      <4>1. h.write_reqs_pending = 0 + Len(h.writes) + 0
        BY <1>1, FS_EmptySet DEF PipeCounts, OneIf
      <4>2. h.writes # <<>>
        BY <1>1, <2>3, <4>1
      <4> QED BY <2>1, <4>2
    <3>4. Threaded(g)
      BY <2>3 DEF Threaded
    <3> QED BY <2>3, <3>1, <3>2, <3>3, <3>4 DEF PipeWritten
  <2> QED BY <2>2, <2>3
<1> QED BY <1>1, <1>5, <1>6, <1>7, <1>8, <1>9, <1>10 DEF PipeAt, PipeOk

LEMMA PipeWriteKeeps ==
  ASSUME PipeInv, NEW w \in PipeWrites, uv__pipe_write_data(w)
  PROVE  PipeInv'
<1> DEFINE k == PipeKind(wh)
           n == PipeOn(wh, k)
           b == [wh EXCEPT !.write_reqs_pending = @ + 1, !.todo = @ \ {w}]
           p == Register(b)
           l == [p EXCEPT !.writes = Append(@, w), !.reqs_pending = @ + 1]
<1>1. /\ wh.pc # "read_loop" /\ wh.spin = "none" /\ ~On(wh, "CLOSING") /\ w \in wh.todo
      /\ \/ wh' = Given(p, w)
         \/ Threaded(wh) /\ wh.write_reqs_pending = 0 /\ wh' = StartWrite(l)
         \/ Threaded(wh) /\ wh.write_reqs_pending # 0 /\ wh' = l
  BY DEF uv__pipe_write_data, PipeUser, IsSet
<1>2. PipeAt(wh, k) /\ PipePc(wh) /\ DOMAIN wh = PipeFields
  BY <1>1, PipeInvAt
<1> HIDE DEF k
<1>3. /\ Core(wh, PipeReqs, n) /\ PipeTypes(wh) /\ PipeCounts(wh, k) /\ PipeWritten(wh, k) /\ ~On(wh, "CLOSED")
      /\ wh.activecnt \in Nat /\ wh.write_reqs_pending \in Nat /\ Len(wh.writes) \in Nat /\ n \in Nat
      /\ wh.active_reqs \in Nat
  BY <1>2, PipeCore
<1>4. w \notin Outstanding(wh) /\ w \notin In(wh.writes) /\ w \in PipeReqs /\ w \in PipeActive
      /\ wh.writes \in Seq(PipeWrites) /\ NoDup(wh.writes)
  BY <1>1, <1>3 DEF PipeWritten, PipeTypes, PipeReqs, PipeActive
<1>5. /\ SameBut(b, wh, {"write_reqs_pending", "todo"}) /\ b.flags = wh.flags
      /\ b.write_reqs_pending = wh.write_reqs_pending + 1 /\ b.todo = wh.todo \ {w}
      /\ b.activecnt = wh.activecnt /\ b.active_reqs = wh.active_reqs /\ DOMAIN b = PipeFields
  BY <1>2 DEF SameBut, PipeFields, BaseFields
<1> HIDE DEF b, n
<1>6. Core(b, PipeReqs, n) /\ Outstanding(b) = Outstanding(wh) /\ ~On(b, "CLOSING")
  <2> DEFINE fs == {"write_reqs_pending", "todo"}
  <2>1. Alike(b, wh) /\ ~On(b, "CLOSING")
    BY <1>1, <1>5 DEF Alike, On
  <2>2. fs \cap BaseFields \subseteq {"flags", "active_reqs", "ok", "pc", "cur"} /\ SameBut(b, wh, fs)
    BY <1>5 DEF BaseFields
  <2> HIDE DEF fs
  <2> QED BY <1>3, <2>1, <2>2, OtherCore
<1>7. /\ Core(p, PipeReqs, n) /\ SameBut(p, b, {"flags", "counted", "activecnt", "active_reqs"})
      /\ Outstanding(p) = Outstanding(b) /\ p.activecnt = b.activecnt + 1
      /\ p.active_reqs = b.active_reqs + 1
      /\ \A f : f # "ACTIVE" => (On(p, f) <=> On(b, f))
  <2>1. b.activecnt >= 0
    BY <1>3, <1>5
  <2> QED BY <1>6, <2>1, RegisterCore
<1> HIDE DEF p
<1>8. /\ SameBut(p, wh, {"flags", "counted", "activecnt", "active_reqs", "write_reqs_pending", "todo"})
      /\ DOMAIN p = PipeFields /\ Outstanding(p) = Outstanding(wh)
      /\ p.activecnt = wh.activecnt + 1 /\ p.active_reqs = wh.active_reqs + 1
      /\ p.write_reqs_pending = wh.write_reqs_pending + 1 /\ p.todo = wh.todo \ {w}
      /\ p.writes = wh.writes /\ p.kernel = wh.kernel /\ p.shutdown_req = wh.shutdown_req
      /\ p.pc = wh.pc /\ p.cur = wh.cur /\ p.spin = wh.spin
      /\ \A f : f # "ACTIVE" => (On(p, f) <=> On(wh, f))
  BY <1>2, <1>5, <1>6, <1>7 DEF SameBut, PipeFields, BaseFields, On
<1> DEFINE fs == {"flags", "counted", "activecnt", "active_reqs", "write_reqs_pending", "todo",
                  "writes", "kernel", "reqs_pending"}
<1>9. ASSUME NEW g, g = Given(p, w)
      PROVE  /\ PipeAt(g, k) /\ SameBut(g, wh, fs)
             /\ \A f : f # "ACTIVE" => (On(g, f) <=> On(wh, f))
  <2>1. /\ Core(g, PipeReqs, n) /\ Outstanding(g) = Outstanding(wh) \cup {w}
    <3>1. ~On(p, "CLOSED") /\ w \notin Outstanding(p)
      BY <1>3, <1>4, <1>8
    <3>2. g = Given(p, w) \/ g = Inserted(p, w, TRUE) \/ g = Inserted(p, w, FALSE)
      BY <1>9
    <3>3. Core(p, PipeReqs, n) /\ w \in PipeReqs
      BY <1>4, <1>7
    <3>4. /\ Core(g, PipeReqs, n) /\ Outstanding(g) = Outstanding(p) \cup {w}
      BY <3>1, <3>2, <3>3, PutKeeps
    <3> QED BY <1>8, <3>4
  <2>2. /\ SameBut(g, p, {"kernel", "reqs_pending"}) /\ g.kernel = wh.kernel \cup {w} /\ g.flags = p.flags
        /\ g.writes = wh.writes /\ g.shutdown_req = wh.shutdown_req /\ g.activecnt = p.activecnt
        /\ g.active_reqs = p.active_reqs /\ g.write_reqs_pending = p.write_reqs_pending
        /\ g.todo = p.todo
    BY <1>8, <1>9 DEF Given, SameBut, PipeFields, BaseFields
  <2>3. SameBut(g, wh, fs) /\ \A f : f # "ACTIVE" => (On(g, f) <=> On(wh, f))
    BY <1>8, <2>2 DEF SameBut, On
  <2>4. PipeCounts(g, k)
    BY <1>8, <2>2, <2>1, <2>3, <1>2, <1>4, CountsMore DEF OneIf, n
  <2> HIDE DEF fs
  <2>5. PipeAt(g, k)
    BY <1>4, <1>8, <2>2, <2>3, <1>1, <1>2, <2>1, <2>4, WroteAt DEF fs
  <2> QED BY <2>3, <2>5
<1>10. ASSUME wh.write_reqs_pending = 0 PROVE StartWrite(l) = Given(p, w)
  <2>1. p.writes = <<>>
    <3>1. wh.write_reqs_pending = Cardinality(Outstanding(wh) \cap PipeWrites) + Len(wh.writes) + OneIf(k = "write")
      BY <1>3 DEF PipeCounts
    <3>2. Cardinality(Outstanding(wh) \cap PipeWrites) \in Nat /\ OneIf(k = "write") \in Nat
      BY <1>3, PipeSizes DEF OneIf
    <3>3. Len(wh.writes) = 0
      BY <1>3, <1>10, <3>1, <3>2
    <3> QED BY <1>4, <1>8, <3>3
  <2> DEFINE c == p.reqs_pending + 1
             d == p.kernel \cup {w}
  <2>2. Append(<<>>, w) = <<w>> /\ Head(<<w>>) = w /\ Tail(<<w>>) = <<>> /\ <<w>> # <<>>
    OBVIOUS
  <2>3. l = [p EXCEPT !.writes = <<w>>, !.reqs_pending = c]
    BY <2>1, <2>2
  <2>4. Given(p, w) = [p EXCEPT !.kernel = d, !.reqs_pending = c]
    BY DEF Given
  <2> HIDE DEF c, l
  <2>5. StartWrite(l) = [l EXCEPT !.writes = <<>>, !.kernel = d]
    BY <1>8, <2>3, <2>2 DEF PipeFields, BaseFields, StartWrite
  <2> HIDE DEF d
  <2> DEFINE x == [l EXCEPT !.writes = <<>>, !.kernel = d]
             y == [p EXCEPT !.kernel = d, !.reqs_pending = c]
  <2>6. DOMAIN x = DOMAIN p /\ DOMAIN y = DOMAIN p
    BY <2>3
  <2>7. \A f \in DOMAIN p : x[f] = y[f]
    BY <2>1, <2>3
  <2>8. x = [f \in DOMAIN x |-> x[f]] /\ y = [f \in DOMAIN y |-> y[f]]
    OBVIOUS
  <2>9. x = y
    <3> HIDE DEF x, y
    <3> QED BY <2>6, <2>7, <2>8
  <2> QED BY <2>4, <2>5, <2>9
<1>11. ASSUME NEW g, g = l, Threaded(wh), wh.write_reqs_pending # 0
       PROVE  /\ PipeAt(g, k) /\ SameBut(g, wh, fs)
              /\ \A f : f # "ACTIVE" => (On(g, f) <=> On(wh, f))
  <2>1. /\ SameBut(g, p, {"writes", "reqs_pending"}) /\ g.writes = Append(wh.writes, w)
        /\ g.reqs_pending = p.reqs_pending + 1 /\ g.flags = p.flags /\ g.kernel = wh.kernel
        /\ g.shutdown_req = wh.shutdown_req /\ g.activecnt = p.activecnt
        /\ g.active_reqs = p.active_reqs /\ g.write_reqs_pending = p.write_reqs_pending
        /\ g.todo = p.todo
    BY <1>8, <1>11 DEF SameBut, PipeFields, BaseFields
  <2>2. SameBut(g, wh, fs) /\ (\A f : f # "ACTIVE" => (On(g, f) <=> On(wh, f)))
        /\ \A f : On(g, f) <=> On(p, f)
    BY <1>8, <2>1 DEF SameBut, On
  <2> HIDE DEF l
  <2>3. g.writes \in Seq(PipeWrites) /\ NoDup(g.writes) /\ In(g.writes) = In(wh.writes) \cup {w}
        /\ Len(g.writes) = Len(wh.writes) + 1
    BY <1>4, <2>1, InsertTail
  <2>4. Core(g, PipeReqs, n + 1) /\ Outstanding(g) = Outstanding(wh)
    <3> DEFINE rs == {"writes", "reqs_pending"}
    <3>1. /\ rs \cap BaseFields \subseteq {"flags", "active_reqs", "ok", "pc", "cur", "reqs_pending"}
          /\ SameBut(g, p, rs)
      BY <2>1 DEF BaseFields
    <3>2. Alike(g, p) /\ ~On(p, "CLOSED")
      BY <1>3, <1>8, <2>2 DEF Alike
    <3> HIDE DEF rs
    <3>3. Core(g, PipeReqs, n + 1) /\ Outstanding(g) = Outstanding(p)
      BY <1>7, <2>1, <3>1, <3>2, CoreMore
    <3> QED BY <1>8, <3>3
  <2>5. PipeCounts(g, k)
    <3> DEFINE e == OneIf(k # "none")
               c == OneIf(wh.shutdown_req)
               a == OneIf(k = "write")
               x == Cardinality(Outstanding(wh) \cap PipeWrites)
               y == Cardinality(Outstanding(wh) \cap PipeActive)
               m == Len(wh.writes)
    <3>1. /\ e \in Nat /\ c \in Nat /\ a \in Nat /\ OneIf(On(g, "READING")) = OneIf(On(wh, "READING"))
          /\ OneIf(On(wh, "READING")) \in Nat
      BY <2>2 DEF OneIf
    <3>2. /\ n = m + e + c /\ wh.write_reqs_pending = x + m + a /\ wh.active_reqs = y + m + c
          /\ wh.activecnt = wh.active_reqs + OneIf(On(wh, "READING"))
      BY <1>3 DEF PipeCounts, PipeOn, n
    <3>3. x \in Nat /\ y \in Nat /\ m \in Nat
      BY <1>3, PipeSizes
    <3>4. g.write_reqs_pending = wh.write_reqs_pending + 1 /\ g.active_reqs = wh.active_reqs + 1
          /\ g.activecnt = wh.activecnt + 1 /\ Len(g.writes) = m + 1
      BY <1>8, <2>1, <2>3
    <3>5. /\ n + 1 = Len(g.writes) + e + c /\ g.write_reqs_pending = x + Len(g.writes) + a
          /\ g.active_reqs = y + Len(g.writes) + c
          /\ g.activecnt = g.active_reqs + OneIf(On(g, "READING"))
      <4> DEFINE o == OneIf(On(wh, "READING"))
      <4>1. o \in Nat /\ wh.activecnt = wh.active_reqs + o /\ OneIf(On(g, "READING")) = o
        BY <3>1, <3>2
      <4> HIDE DEF e, c, a, x, y, m, o
      <4> QED BY <1>3, <3>1, <3>2, <3>3, <3>4, <4>1
    <3>6. Core(g, PipeReqs, Len(g.writes) + e + c)
      BY <2>4, <3>5
    <3> QED BY <2>1, <2>4, <3>5, <3>6 DEF PipeCounts
  <2> HIDE DEF fs
  <2>6. PipeAt(g, k)
    <3>1. g.todo = wh.todo \ {w} /\ g.write_reqs_pending = wh.write_reqs_pending + 1
      BY <1>8, <2>1
    <3>2. SameBut(g, wh, {"flags", "counted", "activecnt", "active_reqs", "write_reqs_pending", "todo",
                          "writes", "kernel", "reqs_pending"})
      BY <2>2 DEF fs
    <3> QED BY <1>1, <1>2, <1>11, <2>1, <2>2, <2>3, <2>4, <2>5, <3>1, <3>2, WroteAt
  <2> QED BY <2>2, <2>6
<1>12. /\ PipeAt(wh', k) /\ SameBut(wh', wh, fs)
       /\ \A f : f # "ACTIVE" => (On(wh', f) <=> On(wh, f))
  <2> HIDE DEF l, fs
  <2>1. wh' = Given(p, w) \/ (wh' = l /\ Threaded(wh) /\ wh.write_reqs_pending # 0)
    BY <1>1, <1>10
  <2> QED BY <1>9, <1>11, <2>1
<1>13. wh'.pc = wh.pc /\ wh'.cur = wh.cur /\ wh'.spin = wh.spin
  BY <1>2, <1>12 DEF SameBut, PipeFields, BaseFields
<1> QED BY <1>1, <1>2, <1>12, <1>13, PipeInvBack DEF k

LEMMA PipeWriteDoneKeeps == ASSUME PipeInv, PipeWriteDone PROVE PipeInv'
<1> DEFINE r == Returned(wh)
           h == [r EXCEPT !.write_reqs_pending = @ - 1]
           s == IF Threaded(h) THEN StartWrite(h) ELSE h
           x == IF s.shutdown_req /\ s.write_reqs_pending = 0 THEN WantEndgame(s) ELSE s
           g == DecPending(x)
           a == "write"
           o == "other"
<1>1. wh.pc = "write_cb" /\ wh.spin = "none" /\ wh' = g
  BY DEF PipeWriteDone, PipeLoop
<1>2. PipeAt(wh, a) /\ PipePc(wh) /\ DOMAIN wh = PipeFields
  BY <1>1, PipeInvAt DEF PipeKind
<1>3. OneIf(a # "none") = 1 /\ OneIf(o # "none") = 1 /\ OneIf(a = "write") = 1 /\ OneIf(o = "write") = 0
      /\ a = "write" /\ o = "other"
  BY DEF OneIf
<1> HIDE DEF a, o
<1>4. PipeAt(r, a) /\ r.pc = "idle" /\ r.cur = "none" /\ r.spin = "none" /\ \A f : On(r, f) <=> On(wh, f)
  BY <1>1, <1>2, PipeReturnedAt
<1> HIDE DEF r
<1>5. /\ DOMAIN r = PipeFields /\ PipeTypes(r) /\ PipeCounts(r, a) /\ PipeWritten(r, a)
      /\ PipeLinked(r) /\ PipeReader(r) /\ PipeInput(r) /\ PipeDue(r) /\ ~On(r, "CLOSED")
      /\ Core(r, PipeReqs, PipeOn(r, a)) /\ Len(r.writes) \in Nat
  BY <1>4, PipeCore
<1>6. /\ SameBut(h, r, {"write_reqs_pending"}) /\ h.write_reqs_pending = r.write_reqs_pending - 1
      /\ h.flags = r.flags /\ DOMAIN h = PipeFields /\ h.writes = r.writes /\ h.kernel = r.kernel
      /\ h.shutdown_req = r.shutdown_req /\ h.active_reqs = r.active_reqs /\ h.activecnt = r.activecnt
  BY <1>5 DEF SameBut, PipeFields, BaseFields
<1> HIDE DEF h
<1>7. /\ Core(h, PipeReqs, PipeOn(h, o)) /\ Outstanding(h) = Outstanding(r) /\ ~On(h, "CLOSED")
      /\ \A f : On(h, f) <=> On(r, f)
  <2> DEFINE n == PipeOn(r, a)
             fs == {"write_reqs_pending"}
  <2>1. PipeOn(h, o) = n
    BY <1>3, <1>6 DEF PipeOn
  <2>2. Alike(h, r) /\ \A f : On(h, f) <=> On(r, f)
    BY <1>6 DEF Alike, On
  <2>3. fs \cap BaseFields \subseteq {"flags", "active_reqs", "ok", "pc", "cur"} /\ SameBut(h, r, fs)
    BY <1>6 DEF BaseFields
  <2>4. Core(r, PipeReqs, n)
    BY <1>5
  <2> HIDE DEF n, fs
  <2>5. Core(h, PipeReqs, n) /\ Outstanding(h) = Outstanding(r) /\ ~On(h, "CLOSED")
    BY <1>5, <2>2, <2>3, <2>4, OtherCore
  <2> QED BY <2>1, <2>2, <2>5
<1>8. PipeTypes(h) /\ PipeCounts(h, o)
  <2>1. PipeTypes(h)
    BY <1>5, <1>6 DEF SameBut, PipeFields, BaseFields, PipeTypes
  <2>2. h.write_reqs_pending = Cardinality(Outstanding(h) \cap PipeWrites) + Len(h.writes) + OneIf(o = "write")
    <3> DEFINE c == Cardinality(Outstanding(r) \cap PipeWrites)
               l == Len(r.writes)
    <3>1. c \in Nat /\ l \in Nat /\ r.write_reqs_pending = c + l + OneIf(a = "write")
      BY <1>5, PipeSizes DEF PipeCounts
    <3> HIDE DEF c, l
    <3>2. h.write_reqs_pending = c + l + OneIf(o = "write")
      BY <1>3, <1>6, <3>1
    <3> QED BY <1>6, <1>7, <3>2 DEF c, l
  <2>3. OneIf(On(h, "READING")) = OneIf(On(r, "READING"))
    BY <1>7 DEF OneIf
  <2>4. Core(h, PipeReqs, Len(h.writes) + OneIf(o # "none") + OneIf(h.shutdown_req))
    BY <1>7 DEF PipeOn
  <2>5. /\ r.active_reqs = Cardinality(Outstanding(r) \cap PipeActive) + Len(r.writes) + OneIf(r.shutdown_req)
        /\ r.activecnt = r.active_reqs + OneIf(On(r, "READING"))
    BY <1>5 DEF PipeCounts
  <2> QED BY <1>6, <1>7, <2>1, <2>2, <2>3, <2>4, <2>5 DEF PipeCounts
<1>9. /\ r.todo \subseteq PipeWrites
      /\ r.todo \cap (Outstanding(r) \cup In(r.writes)) = {} /\ In(r.writes) \cap Outstanding(r) = {}
      /\ r.writer => r.todo \cup r.called \cup (Outstanding(r) \cap PipeWrites) \cup In(r.writes) = PipeWrites
      /\ r.writes # <<>> => Threaded(r)
  BY <1>5 DEF PipeWritten
<1>10. /\ PipeTypes(s) /\ PipeCounts(s, o) /\ SameBut(s, h, {"writes", "kernel"})
       /\ \A f : On(s, f) <=> On(r, f)
       /\ \/ s.writes = <<>> /\ r.writes = <<>> /\ s.kernel = r.kernel /\ Outstanding(s) = Outstanding(r)
          \/ \E w \in PipeWrites : /\ w \in In(r.writes) /\ s.kernel = r.kernel \cup {w}
                                   /\ Outstanding(s) = Outstanding(r) \cup {w}
                                   /\ In(s.writes) = In(r.writes) \ {w} /\ Threaded(r)
  <2>1. CASE h.writes = <<>>
    <3>1. s = h
      BY <2>1 DEF StartWrite
    <3> HIDE DEF s
    <3> QED BY <1>6, <1>7, <1>8, <2>1, <3>1 DEF SameBut
  <2>2. CASE h.writes # <<>>
    <3>1. Threaded(h) /\ Threaded(r)
      BY <1>6, <1>7, <1>9, <2>2 DEF Threaded
    <3>2. s = StartWrite(h)
      BY <3>1
    <3> HIDE DEF s
    <3>3. In(h.writes) \cap Outstanding(h) = {}
      BY <1>6, <1>7, <1>9
    <3>4. /\ PipeTypes(s) /\ PipeCounts(s, o) /\ SameBut(s, h, {"writes", "kernel"})
          /\ \A f : On(s, f) <=> On(h, f)
          /\ \E w \in PipeWrites : /\ w \in In(h.writes) /\ s.kernel = h.kernel \cup {w}
                                   /\ Outstanding(s) = Outstanding(h) \cup {w}
                                   /\ In(s.writes) = In(h.writes) \ {w}
      BY <1>7, <1>8, <2>2, <3>2, <3>3, StartWriteAt
    <3> QED BY <1>6, <1>7, <3>1, <3>4
  <2> QED BY <2>1, <2>2
<1> HIDE DEF s
<1>11. /\ SameBut(s, r, {"write_reqs_pending", "writes", "kernel"})
       /\ s.ipc = r.ipc /\ s.pipe = r.pipe /\ s.early = r.early /\ s.writer = r.writer
       /\ s.thread = r.thread /\ s.reader = r.reader /\ s.spin = r.spin /\ s.result = r.result
       /\ s.timer = r.timer /\ s.shutdown_req = r.shutdown_req /\ s.ok = r.ok /\ s.called = r.called
       /\ s.input = r.input /\ s.avail = r.avail /\ s.payload_remaining = r.payload_remaining
       /\ s.ipc_xfer_queue = r.ipc_xfer_queue /\ s.todo = r.todo /\ s.pc = r.pc /\ s.cur = r.cur
       /\ DOMAIN s = PipeFields
  BY <1>5, <1>6, <1>10 DEF SameBut, PipeFields, BaseFields
<1>12. \A y : y \in {"connect", "read", "shutdown"} =>
           /\ (y \in Outstanding(s) <=> y \in Outstanding(r)) /\ (y \in s.kernel <=> y \in r.kernel)
  BY <1>10, PipeAssumption
<1>13. PipeWritten(s, o)
  BY <1>9, <1>11, <1>10 DEF PipeWritten, Threaded
<1>14. Core(s, PipeReqs, PipeOn(s, o)) /\ ~On(s, "CLOSED") /\ PipeOn(s, o) \in Nat \ {0}
       /\ Cardinality(Outstanding(s)) \in Nat
  <2>1. Core(s, PipeReqs, PipeOn(s, o)) /\ ~On(s, "CLOSED")
    BY <1>5, <1>10 DEF PipeCounts, PipeOn
  <2> DEFINE l == Len(s.writes)
             c == OneIf(s.shutdown_req)
  <2>2. l \in Nat /\ c \in Nat /\ Cardinality(Outstanding(s)) \in Nat
    BY <1>10, PipeSizes DEF OneIf
  <2>3. PipeOn(s, o) = l + 1 + c
    BY <1>3 DEF PipeOn
  <2> HIDE DEF l, c
  <2> QED BY <2>1, <2>2, <2>3
<1>15. s.reqs_pending # 0
  <2> DEFINE n == PipeOn(s, o)
             c == Cardinality(Outstanding(s))
  <2>1. n \in Nat \ {0} /\ c \in Nat /\ s.reqs_pending = c + n
    BY <1>14 DEF Core
  <2> HIDE DEF n, c
  <2> QED BY <2>1
<1>16. /\ SameBut(x, s, {"flags"}) /\ \A f : f # "ENDGAME_QUEUED" => (On(x, f) <=> On(s, f))
       /\ On(s, "ENDGAME_QUEUED") => On(x, "ENDGAME_QUEUED")
       /\ s.shutdown_req /\ s.write_reqs_pending = 0 => On(x, "ENDGAME_QUEUED")
       /\ Core(x, PipeReqs, PipeOn(s, o)) /\ Outstanding(x) = Outstanding(s)
  <2> DEFINE n == PipeOn(s, o)
  <2>0. Core(s, PipeReqs, n)
    BY <1>14
  <2> HIDE DEF n
  <2>1. CASE s.shutdown_req /\ s.write_reqs_pending = 0
    <3>1. x = WantEndgame(s)
      BY <2>1
    <3> HIDE DEF x
    <3> QED BY <1>14, <2>0, <3>1, QueuedCore DEF n
  <2>2. CASE ~(s.shutdown_req /\ s.write_reqs_pending = 0)
    <3>1. x = s
      BY <2>2
    <3> HIDE DEF x
    <3> QED BY <1>14, <2>2, <3>1 DEF SameBut
  <2> QED BY <2>1, <2>2
<1> HIDE DEF x
<1>17. /\ x.ipc = r.ipc /\ x.pipe = r.pipe /\ x.early = r.early /\ x.writer = r.writer
       /\ x.thread = r.thread /\ x.reader = r.reader /\ x.spin = r.spin /\ x.result = r.result
       /\ x.timer = r.timer /\ x.shutdown_req = s.shutdown_req /\ x.ok = r.ok /\ x.called = s.called
       /\ x.input = r.input /\ x.avail = r.avail /\ x.payload_remaining = r.payload_remaining
       /\ x.ipc_xfer_queue = r.ipc_xfer_queue /\ x.todo = s.todo /\ x.pc = r.pc /\ x.cur = r.cur
       /\ x.kernel = s.kernel /\ x.writes = s.writes /\ x.active_reqs = s.active_reqs
       /\ x.activecnt = s.activecnt /\ x.write_reqs_pending = s.write_reqs_pending
       /\ x.reqs_pending = s.reqs_pending /\ DOMAIN x = PipeFields
  BY <1>11, <1>16 DEF SameBut, PipeFields, BaseFields
<1>18. /\ \A y : y \in {"connect", "read", "shutdown"} =>
            /\ (y \in Outstanding(x) <=> y \in Outstanding(r)) /\ (y \in x.kernel <=> y \in r.kernel)
       /\ \A f : f # "ENDGAME_QUEUED" => (On(x, f) <=> On(r, f))
  BY <1>10, <1>12, <1>16, <1>17
<1>19. PipeTypes(x) /\ PipeCounts(x, o) /\ PipeWritten(x, o)
  <2>1. PipeTypes(x)
    BY <1>10, <1>11, <1>17 DEF PipeTypes
  <2>2. PipeCounts(x, o)
    BY <1>16, <1>17, <1>10 DEF OneIf, PipeOn, PipeCounts
  <2>3. PipeWritten(x, o)
    BY <1>11, <1>13, <1>16, <1>17 DEF PipeWritten, Threaded
  <2> QED BY <2>1, <2>2, <2>3
<1>20. PipeLinked(x)
  BY <1>5, <1>11, <1>17, <1>18 DEF PipeLinked
<1>21. PipeReader(x)
  BY <1>5, <1>17, <1>18 DEF PipeReader, Threaded
<1>22. PipeInput(x)
  BY <1>5, <1>17, <1>18 DEF PipeInput
<1>23. PipeDue(x) /\ ~On(x, "CLOSED")
  BY <1>15, <1>16, <1>17, <1>14 DEF PipeDue, EndDue
<1>24. PipeAt(x, o)
  BY <1>19, <1>20, <1>21, <1>22, <1>23 DEF PipeAt, PipeOk
<1>25. /\ PipeAt(g, "none") /\ g.pc = x.pc /\ g.cur = x.cur /\ g.spin = x.spin
       /\ \A f : f # "ENDGAME_QUEUED" => (On(g, f) <=> On(x, f))
  BY <1>3, <1>24, PipeOffAt
<1> HIDE DEF g
<1>26. PipePc(g) /\ PipeKind(g) = "none"
  BY <1>1, <1>2, <1>4, <1>17, <1>18, <1>25 DEF PipePc, PipeKind
<1> QED BY <1>1, <1>25, <1>26 DEF PipeInv, PipeAt

LEMMA PipeShutdownKeeps == ASSUME PipeInv, PipeShutdown PROVE PipeInv'
<1> DEFINE k == PipeKind(wh)
           n == PipeOn(wh, k)
           c == Clear(wh, {"WRITABLE"})
           h == Set(c, {"SHUTTING"})
           m == [h EXCEPT !.shutdown_req = TRUE, !.reqs_pending = @ + 1]
           p == Register(m)
           g == WantEndgame(p)
<1>1. /\ wh.pc # "read_loop" /\ wh.spin = "none" /\ On(wh, "CONNECTION") /\ ~On(wh, "SHUTTING")
      /\ ~On(wh, "CLOSING") /\ wh' = g
  BY DEF PipeShutdown, PipeUser, IsSet
<1>2. PipeAt(wh, k) /\ PipePc(wh) /\ DOMAIN wh = PipeFields
  BY <1>1, PipeInvAt
<1> HIDE DEF k
<1>3. /\ Core(wh, PipeReqs, n) /\ PipeTypes(wh) /\ PipeCounts(wh, k) /\ PipeWritten(wh, k) /\ ~On(wh, "CLOSED")
      /\ PipeLinked(wh) /\ PipeReader(wh) /\ PipeInput(wh) /\ PipeDue(wh)
      /\ wh.activecnt \in Nat /\ wh.active_reqs \in Nat /\ Len(wh.writes) \in Nat /\ n \in Nat
  BY <1>2, PipeCore
<1>4. wh.shutdown_req = FALSE /\ wh.pipe /\ "shutdown" \notin Outstanding(wh) /\ wh.timer = "none"
  BY <1>1, <1>3 DEF PipeLinked, PipeTypes
<1>5. SameBut(c, wh, {"flags"}) /\ \A f : On(c, f) <=> On(wh, f) /\ f \notin {"WRITABLE"}
  BY <1>2, FlagsSame DEF PipeFields, BaseFields
<1> HIDE DEF c, n
<1>6. SameBut(h, c, {"flags"}) /\ \A f : On(h, f) <=> On(c, f) \/ f \in {"SHUTTING"}
  BY <1>2, <1>5, FlagsSame DEF SameBut, PipeFields, BaseFields
<1> HIDE DEF h
<1>7. SameBut(h, wh, {"flags"}) /\ DOMAIN h = PipeFields /\ h.reqs_pending = wh.reqs_pending
  BY <1>2, <1>5, <1>6 DEF SameBut, PipeFields, BaseFields
<1>8. SameBut(m, h, {"shutdown_req", "reqs_pending"}) /\ m.shutdown_req = TRUE
      /\ m.reqs_pending = h.reqs_pending + 1 /\ m.flags = h.flags
  BY <1>7 DEF SameBut, PipeFields, BaseFields
<1> HIDE DEF m
<1>9. /\ SameBut(m, wh, {"flags", "shutdown_req", "reqs_pending"})
      /\ m.reqs_pending = wh.reqs_pending + 1 /\ m.activecnt = wh.activecnt /\ m.active_reqs = wh.active_reqs
      /\ \A f : On(m, f) <=> (On(wh, f) /\ f # "WRITABLE") \/ f = "SHUTTING"
      /\ DOMAIN m = PipeFields
  BY <1>2, <1>5, <1>6, <1>7, <1>8 DEF SameBut, On, PipeFields, BaseFields
<1>10. Core(m, PipeReqs, n + 1) /\ Outstanding(m) = Outstanding(wh) /\ ~On(m, "CLOSED")
  <2> DEFINE fs == {"flags", "shutdown_req", "reqs_pending"}
  <2>1. /\ fs \cap BaseFields \subseteq {"flags", "active_reqs", "ok", "pc", "cur", "reqs_pending"}
        /\ SameBut(m, wh, fs)
    BY <1>9 DEF BaseFields
  <2>2. Alike(m, wh)
    BY <1>9 DEF Alike
  <2> HIDE DEF fs
  <2> QED BY <1>3, <1>9, <2>1, <2>2, CoreMore
<1> DEFINE j == n + 1
<1>11. Core(m, PipeReqs, j)
  BY <1>10
<1> HIDE DEF j
<1>12. /\ Core(p, PipeReqs, j) /\ SameBut(p, m, {"flags", "counted", "activecnt", "active_reqs"})
       /\ Outstanding(p) = Outstanding(m) /\ p.activecnt = m.activecnt + 1
       /\ p.active_reqs = m.active_reqs + 1
       /\ \A f : f # "ACTIVE" => (On(p, f) <=> On(m, f))
  <2>1. m.activecnt >= 0 /\ ~On(m, "CLOSING")
    BY <1>1, <1>3, <1>9
  <2> QED BY <1>11, <2>1, RegisterCore
<1> HIDE DEF p
<1>13. ~On(p, "CLOSED")
  BY <1>10, <1>12
<1>14. /\ Core(g, PipeReqs, j) /\ SameBut(g, p, {"flags"}) /\ Outstanding(g) = Outstanding(p)
       /\ \A f : f # "ENDGAME_QUEUED" => (On(g, f) <=> On(p, f))
       /\ On(g, "ENDGAME_QUEUED")
  BY <1>12, <1>13, QueuedCore
<1> HIDE DEF g
<1>15. /\ SameBut(g, wh, {"flags", "shutdown_req", "reqs_pending", "counted", "activecnt", "active_reqs"})
       /\ g.activecnt = wh.activecnt + 1 /\ g.active_reqs = wh.active_reqs + 1
       /\ Outstanding(g) = Outstanding(wh) /\ g.shutdown_req = TRUE /\ DOMAIN g = PipeFields
  BY <1>8, <1>9, <1>10, <1>12, <1>14 DEF SameBut, PipeFields, BaseFields
<1>16. /\ \A f : f \notin {"ACTIVE", "ENDGAME_QUEUED", "WRITABLE", "SHUTTING"} => (On(g, f) <=> On(wh, f))
       /\ On(g, "SHUTTING")
  BY <1>9, <1>12, <1>14
<1>17. /\ g.ipc = wh.ipc /\ g.pipe = wh.pipe /\ g.early = wh.early /\ g.writer = wh.writer
       /\ g.thread = wh.thread /\ g.reader = wh.reader /\ g.spin = wh.spin /\ g.result = wh.result
       /\ g.timer = wh.timer /\ g.ok = wh.ok /\ g.called = wh.called
       /\ g.input = wh.input /\ g.avail = wh.avail /\ g.payload_remaining = wh.payload_remaining
       /\ g.ipc_xfer_queue = wh.ipc_xfer_queue /\ g.todo = wh.todo /\ g.pc = wh.pc /\ g.cur = wh.cur
       /\ g.kernel = wh.kernel /\ g.writes = wh.writes /\ g.write_reqs_pending = wh.write_reqs_pending
  BY <1>2, <1>15 DEF SameBut, PipeFields, BaseFields
<1>18. PipeTypes(g)
  BY <1>3, <1>15, <1>17 DEF PipeTypes
<1>19. PipeCounts(g, k)
  <2> DEFINE e == OneIf(k # "none")
             y == Cardinality(Outstanding(wh) \cap PipeActive)
             l == Len(wh.writes)
             o == OneIf(On(wh, "READING"))
  <2>1. /\ e \in Nat /\ o \in Nat /\ OneIf(wh.shutdown_req) = 0 /\ OneIf(g.shutdown_req) = 1
        /\ OneIf(On(g, "READING")) = o
    BY <1>4, <1>15, <1>16 DEF OneIf
  <2>2. /\ n = l + e + OneIf(wh.shutdown_req) /\ wh.active_reqs = y + l + OneIf(wh.shutdown_req)
        /\ wh.activecnt = wh.active_reqs + o
    BY <1>3 DEF PipeCounts, PipeOn, n
  <2>3. y \in Nat /\ l \in Nat
    BY <1>3, PipeSizes
  <2>4. /\ j = l + e + OneIf(g.shutdown_req) /\ g.active_reqs = y + l + OneIf(g.shutdown_req)
        /\ g.activecnt = g.active_reqs + OneIf(On(g, "READING"))
    <3> HIDE DEF e, y, l, o
    <3> QED BY <1>3, <1>15, <2>1, <2>2, <2>3 DEF j
  <2>5. Core(g, PipeReqs, Len(g.writes) + e + OneIf(g.shutdown_req))
    BY <1>14, <1>17, <2>4
  <2>6. g.write_reqs_pending = Cardinality(Outstanding(g) \cap PipeWrites) + Len(g.writes) + OneIf(k = "write")
    BY <1>3, <1>15, <1>17 DEF PipeCounts
  <2> QED BY <1>15, <1>17, <2>4, <2>5, <2>6 DEF PipeCounts
<1>20. PipeWritten(g, k)
  BY <1>3, <1>15, <1>16, <1>17 DEF PipeWritten, Threaded
<1>21. PipeLinked(g)
  BY <1>1, <1>3, <1>4, <1>15, <1>16, <1>17 DEF PipeLinked
<1>22. PipeReader(g)
  BY <1>3, <1>15, <1>16, <1>17 DEF PipeReader, Threaded
<1>23. PipeInput(g)
  BY <1>3, <1>16, <1>17 DEF PipeInput
<1>24. PipeAt(g, k)
  BY <1>3, <1>14, <1>16, <1>18, <1>19, <1>20, <1>21, <1>22, <1>23 DEF PipeAt, PipeOk, PipeDue
<1> QED BY <1>1, <1>2, <1>16, <1>17, <1>24, PipeInvBack DEF k

\* A handle with all there is to say of it, but for who goes on with it
PipeOpen(h, k) ==
  /\ DOMAIN h = PipeFields /\ PipeOk(h, k) /\ ~On(h, "CLOSED")
  /\ \A r \in {"connect", "read", "shutdown"} : r \notin PipeWrites

\* The shutdown fails at once.
LEMMA ShutdownFails ==
  ASSUME NEW h, NEW o, PipeOpen(h, o), o = "none", h.shutdown_req, h.pc = "idle", h.spin = "none",
         On(h, "READING") => On(h, "READ_PENDING"),
         NEW s, s = [h EXCEPT !.shutdown_req = FALSE],
         NEW g, LET f == CallUser(Unregister(s), "shutdown_cb", "shutdown")
                IN g = f \/ g = Set(f, {"WRITABLE"})
  PROVE  PipeOk(g, "other") /\ PipeDue(g) /\ PipePc(g) /\ PipeKind(g) = "other"
<1> DEFINE n == PipeOn(h, o)
           k == "other"
           u == Unregister(s)
           f == CallUser(u, "shutdown_cb", "shutdown")
<1>1. /\ DOMAIN h = PipeFields /\ PipeTypes(h) /\ PipeCounts(h, o) /\ PipeWritten(h, o) /\ PipeLinked(h)
      /\ PipeReader(h) /\ PipeInput(h) /\ ~On(h, "CLOSED") /\ Core(h, PipeReqs, n)
  BY DEF PipeOpen, PipeOk, PipeCounts, PipeOn
<1>2. /\ OneIf(o # "none") = 0 /\ OneIf(k # "none") = 1 /\ OneIf(o = "write") = 0 /\ OneIf(k = "write") = 0
      /\ OneIf(h.shutdown_req) = 1 /\ k # "write"
  BY DEF OneIf
<1> HIDE DEF k
<1>3. /\ SameBut(s, h, {"shutdown_req"}) /\ s.shutdown_req = FALSE /\ s.flags = h.flags
      /\ s.activecnt = h.activecnt /\ s.active_reqs = h.active_reqs /\ DOMAIN s = PipeFields
  BY <1>1 DEF SameBut, PipeFields, BaseFields
<1>4. n = PipeOn(s, k) /\ n \in Nat \ {0}
  <2> DEFINE l == Len(h.writes)
  <2>1. l \in Nat /\ OneIf(s.shutdown_req) = 0
    BY <1>1, <1>3, PipeSizes DEF OneIf
  <2>2. s.writes = h.writes
    BY <1>1, <1>3 DEF SameBut, PipeFields, BaseFields
  <2>3. n = l + 0 + 1 /\ PipeOn(s, k) = l + 1 + 0
    BY <1>2, <2>1, <2>2 DEF PipeOn
  <2> HIDE DEF l, n
  <2> QED BY <2>1, <2>3
<1> HIDE DEF n
<1>5. Core(s, PipeReqs, n) /\ Outstanding(s) = Outstanding(h) /\ ~On(s, "CLOSED")
  <2> DEFINE fs == {"shutdown_req"}
  <2>1. fs \cap BaseFields \subseteq {"flags", "active_reqs", "ok", "pc", "cur"} /\ SameBut(s, h, fs)
    BY <1>3 DEF BaseFields
  <2>2. Alike(s, h)
    BY <1>3 DEF Alike, On
  <2> HIDE DEF fs
  <2> QED BY <1>1, <2>1, <2>2, OtherCore
<1>6. /\ h.active_reqs = Cardinality(Outstanding(h) \cap PipeActive) + Len(h.writes) + 1
      /\ Cardinality(Outstanding(h) \cap PipeActive) \in Nat /\ Len(h.writes) \in Nat
      /\ h.active_reqs \in Nat /\ h.activecnt \in Nat /\ h.activecnt >= h.active_reqs
      /\ Cardinality(Outstanding(h)) \in Nat
  BY <1>1, <1>2, PipeSizes DEF PipeCounts
<1>7. /\ Core(u, PipeReqs, n) /\ SameBut(u, s, {"flags", "counted", "activecnt", "active_reqs"})
      /\ Outstanding(u) = Outstanding(s) /\ u.activecnt = s.activecnt - 1
      /\ u.active_reqs = s.active_reqs - 1
      /\ \A x : x # "ACTIVE" => (On(u, x) <=> On(s, x))
  <2>1. s.activecnt > 0
    BY <1>3, <1>6
  <2>2. u = Unregister(s)
    OBVIOUS
  <2> HIDE DEF u
  <2> QED BY <1>5, <2>1, <2>2, UnregisterCore
<1>8. g = f \/ g = Set(f, {"WRITABLE"})
  OBVIOUS
<1> HIDE DEF u
<1>9. DOMAIN u = PipeFields
  BY <1>3, <1>7 DEF SameBut
<1>10. SameBut(f, u, {"pc", "cur"}) /\ f.pc = "shutdown_cb" /\ f.cur = "shutdown" /\ f.flags = u.flags
  BY <1>9 DEF CallUser, SameBut, PipeFields, BaseFields
<1> HIDE DEF f
<1>11. /\ SameBut(g, f, {"flags"}) /\ g.pc = "shutdown_cb" /\ g.cur = "shutdown"
       /\ \A x : x # "WRITABLE" => (On(g, x) <=> On(f, x))
  BY <1>10, <1>9, <1>8, FlagsSame DEF SameBut, PipeFields, BaseFields
<1>12. /\ SameBut(g, u, {"flags", "pc", "cur"}) /\ DOMAIN g = PipeFields
       /\ \A x : x # "WRITABLE" => (On(g, x) <=> On(u, x))
  BY <1>9, <1>10, <1>11 DEF SameBut, On
<1>13. Core(g, PipeReqs, n) /\ Outstanding(g) = Outstanding(h) /\ ~On(g, "CLOSED")
  <2> DEFINE fs == {"flags", "pc", "cur"}
  <2>1. fs \cap BaseFields \subseteq {"flags", "active_reqs", "ok", "pc", "cur"} /\ SameBut(g, u, fs)
    BY <1>12 DEF BaseFields
  <2>2. Alike(g, u) /\ ~On(u, "CLOSED")
    BY <1>5, <1>7, <1>12 DEF Alike
  <2> HIDE DEF fs
  <2>3. Core(g, PipeReqs, n) /\ Outstanding(g) = Outstanding(u) /\ ~On(g, "CLOSED")
    BY <1>7, <2>1, <2>2, OtherCore
  <2> QED BY <1>5, <1>7, <2>3
<1>14. \A x : x \notin {"ACTIVE", "WRITABLE"} => (On(g, x) <=> On(h, x))
  BY <1>3, <1>7, <1>12 DEF On
<1>15. /\ SameBut(g, h, {"flags", "pc", "cur", "counted", "activecnt", "active_reqs", "shutdown_req"})
       /\ g.activecnt = h.activecnt - 1 /\ g.active_reqs = h.active_reqs - 1 /\ g.shutdown_req = FALSE
  BY <1>3, <1>7, <1>12 DEF SameBut, PipeFields, BaseFields
<1>16. /\ g.ipc = h.ipc /\ g.pipe = h.pipe /\ g.early = h.early /\ g.writer = h.writer
       /\ g.thread = h.thread /\ g.reader = h.reader /\ g.spin = h.spin /\ g.result = h.result
       /\ g.timer = h.timer /\ g.ok = h.ok /\ g.called = h.called
       /\ g.input = h.input /\ g.avail = h.avail /\ g.payload_remaining = h.payload_remaining
       /\ g.ipc_xfer_queue = h.ipc_xfer_queue /\ g.todo = h.todo
       /\ g.kernel = h.kernel /\ g.writes = h.writes /\ g.write_reqs_pending = h.write_reqs_pending
       /\ g.reqs_pending = h.reqs_pending
  BY <1>1, <1>15 DEF SameBut, PipeFields, BaseFields
<1>17. PipeTypes(g)
  BY <1>1, <1>12, <1>15, <1>16 DEF PipeTypes
<1>18. PipeCounts(g, k)
  <2>1. OneIf(g.shutdown_req) = 0 /\ OneIf(s.shutdown_req) = 0
        /\ OneIf(On(g, "READING")) = OneIf(On(h, "READING")) /\ OneIf(On(h, "READING")) \in Nat
    BY <1>3, <1>14, <1>15 DEF OneIf
  <2>2. Core(g, PipeReqs, Len(g.writes) + OneIf(k # "none") + OneIf(g.shutdown_req))
    BY <1>1, <1>3, <1>4, <1>16, <2>1, <1>13 DEF SameBut, PipeFields, BaseFields, PipeOn
  <2>3. g.active_reqs = Cardinality(Outstanding(g) \cap PipeActive) + Len(g.writes) + OneIf(g.shutdown_req)
    BY <1>6, <1>13, <1>15, <1>16, <2>1
  <2>4. g.activecnt = g.active_reqs + OneIf(On(g, "READING"))
    <3> DEFINE e == OneIf(On(h, "READING"))
    <3>1. h.activecnt = h.active_reqs + e /\ e \in Nat /\ OneIf(On(g, "READING")) = e
      BY <1>1, <2>1 DEF PipeCounts
    <3> HIDE DEF e
    <3> QED BY <1>6, <1>15, <3>1
  <2>5. g.write_reqs_pending = Cardinality(Outstanding(g) \cap PipeWrites) + Len(g.writes) + OneIf(k = "write")
    BY <1>1, <1>2, <1>13, <1>16 DEF PipeCounts
  <2> QED BY <2>2, <2>3, <2>4, <2>5 DEF PipeCounts
<1>19. PipeWritten(g, k)
  BY <1>1, <1>13, <1>14, <1>16 DEF PipeWritten, Threaded
<1>20. PipeLinked(g)
  BY <1>1, <1>13, <1>14, <1>15, <1>16 DEF PipeLinked
<1>21. PipeReader(g)
  BY <1>1, <1>14, <1>16 DEF PipeReader, Threaded
<1>22. PipeInput(g)
  BY <1>1, <1>14, <1>16 DEF PipeInput
<1>23. PipeDue(g)
  <2>1. h.reqs_pending # 0
    <3> DEFINE c == Cardinality(Outstanding(h))
    <3>1. h.reqs_pending = c + n /\ c \in Nat
      BY <1>1, <1>6 DEF Core
    <3> HIDE DEF c
    <3> QED BY <1>4, <3>1
  <2> QED BY <1>15, <1>16, <2>1 DEF PipeDue, EndDue
<1>24. PipePc(g) /\ PipeKind(g) = "other"
  BY <1>11, <1>14, <1>16 DEF PipePc, PipeKind
<1> QED BY <1>17, <1>18, <1>19, <1>20, <1>21, <1>22, <1>23, <1>24 DEF PipeOk, k

\* The other end, or a thread, is asked whether all was read.
LEMMA ShutdownStarts ==
  ASSUME NEW h, NEW o, PipeOpen(h, o), o = "none", h.shutdown_req, ~On(h, "CLOSING"),
         NEW r, r = "shutdown",
         NEW g, SameBut(g, h, {"shutdown_req", "kernel", "pending"}), g.shutdown_req = FALSE, g.walk = h.walk,
         \/ g.kernel = h.kernel \cup {r} /\ g.pending = h.pending
         \/ g.kernel = h.kernel /\ g.pending = h.pending \cup {r}
  PROVE  /\ PipeOk(g, o) /\ PipeDue(g) /\ g.pc = h.pc /\ g.cur = h.cur /\ g.spin = h.spin
         /\ \A f : On(g, f) <=> On(h, f)
<1> DEFINE n == PipeOn(g, o)
<1>1. /\ DOMAIN h = PipeFields /\ PipeTypes(h) /\ PipeCounts(h, o) /\ PipeWritten(h, o) /\ PipeLinked(h)
      /\ PipeReader(h) /\ PipeInput(h) /\ ~On(h, "CLOSED") /\ Core(h, PipeReqs, PipeOn(h, o))
      /\ r \notin PipeWrites
  BY DEF PipeOpen, PipeOk, PipeCounts, PipeOn
<1>2. r \notin Outstanding(h) /\ h.timer = "none" /\ r \in PipeReqs /\ r \in PipeActive
      /\ On(h, "SHUTTING") /\ h.pipe /\ On(h, "CONNECTION")
  BY <1>1 DEF PipeLinked, PipeTypes, PipeReqs, PipeActive
<1>3. /\ SameBut(g, h, {"shutdown_req", "kernel", "pending"}) /\ g.shutdown_req = FALSE /\ g.walk = h.walk
      /\ \/ g.kernel = h.kernel \cup {r} /\ g.pending = h.pending
         \/ g.kernel = h.kernel /\ g.pending = h.pending \cup {r}
  OBVIOUS
<1>4. /\ g.ipc = h.ipc /\ g.pipe = h.pipe /\ g.early = h.early /\ g.writer = h.writer
      /\ g.thread = h.thread /\ g.reader = h.reader /\ g.spin = h.spin /\ g.result = h.result
      /\ g.timer = h.timer /\ g.ok = h.ok /\ g.called = h.called
      /\ g.input = h.input /\ g.avail = h.avail /\ g.payload_remaining = h.payload_remaining
      /\ g.ipc_xfer_queue = h.ipc_xfer_queue /\ g.todo = h.todo /\ g.pc = h.pc /\ g.cur = h.cur
      /\ g.writes = h.writes /\ g.write_reqs_pending = h.write_reqs_pending
      /\ g.active_reqs = h.active_reqs /\ g.activecnt = h.activecnt /\ DOMAIN g = PipeFields
  BY <1>1, <1>3 DEF SameBut, PipeFields, BaseFields
<1>5. /\ Len(h.writes) \in Nat /\ Len(g.writes) = Len(h.writes)
      /\ OneIf(h.shutdown_req) = 1 /\ OneIf(g.shutdown_req) = 0 /\ OneIf(r \in PipeWrites) = 0
      /\ OneIf(o # "none") = 0
  BY <1>1, <1>3, <1>4, PipeSizes DEF OneIf
<1>6. n \in Nat /\ PipeOn(h, o) = n + 1
  <2> DEFINE l == Len(h.writes)
  <2>1. l \in Nat /\ n = l + 0 + 0 /\ PipeOn(h, o) = l + 0 + 1
    BY <1>4, <1>5 DEF PipeOn
  <2> HIDE DEF l, n
  <2> QED BY <2>1
<1>7. Core(h, PipeReqs, n + 1)
  BY <1>1, <1>6
<1> HIDE DEF n
<1>8. /\ Core(g, PipeReqs, n) /\ Outstanding(g) = Outstanding(h) \cup {r} /\ ~On(g, "CLOSED")
      /\ \A f : On(g, f) <=> On(h, f)
  <2> DEFINE fs == {"shutdown_req", "kernel", "pending"}
  <2>1. fs \cap BaseFields \subseteq {"kernel", "pending"} /\ SameBut(g, h, fs)
    BY <1>3 DEF BaseFields
  <2> HIDE DEF fs
  <2> QED BY <1>1, <1>2, <1>3, <1>6, <1>7, <2>1, HandedCore
<1>9. PipeCounts(g, o)
  <2>1. /\ Len(g.writes) + OneIf(g.shutdown_req) + 1 = Len(h.writes) + OneIf(h.shutdown_req)
        /\ Len(g.writes) + OneIf(r \in PipeWrites) = Len(h.writes) /\ Len(g.writes) \in Nat
    <3> DEFINE a == OneIf(h.shutdown_req)
               b == OneIf(g.shutdown_req)
               c == OneIf(r \in PipeWrites)
               l == Len(g.writes)
    <3>1. a = 1 /\ b = 0 /\ c = 0 /\ l \in Nat /\ Len(h.writes) = l
      BY <1>5
    <3> HIDE DEF a, b, c, l
    <3>2. l + b + 1 = l + a /\ l + c = l
      BY <3>1
    <3> QED BY <3>1, <3>2 DEF a, b, c, l
  <2>2. Core(g, PipeReqs, PipeOn(g, o)) /\ (On(g, "READING") <=> On(h, "READING"))
    BY <1>8 DEF n
  <2> QED BY <1>1, <1>2, <1>4, <1>8, <2>1, <2>2, CountsMoved
<1>10. PipeTypes(g)
  BY <1>1, <1>3, <1>4 DEF PipeTypes
<1>11. PipeWritten(g, o)
  BY <1>1, <1>8, <1>4 DEF PipeTypes, In, PipeWritten, Threaded
<1>12. \A x : x \in {"connect", "read"} =>
           /\ (x \in Outstanding(g) <=> x \in Outstanding(h)) /\ (x \in g.kernel <=> x \in h.kernel)
  BY <1>3, <1>8
<1>13. PipeLinked(g)
  BY <1>1, <1>2, <1>3, <1>4, <1>8, <1>12 DEF PipeLinked
<1>14. PipeReader(g)
  BY <1>1, <1>4, <1>8, <1>12 DEF PipeReader, Threaded
<1>15. PipeInput(g)
  BY <1>1, <1>4, <1>8 DEF PipeInput
<1>16. PipeDue(g)
  BY <1>3, <1>8 DEF PipeDue, EndDue
<1> QED BY <1>4, <1>8, <1>9, <1>10, <1>11, <1>13, <1>14, <1>15, <1>16 DEF PipeOk

\* The handle is closed.
LEMMA PipeClosedAt ==
  ASSUME NEW h, NEW o, PipeOpen(h, o), o = "none", h.pc = "idle", EndDue(h), ~On(h, "ENDGAME_QUEUED"),
         ~(h.shutdown_req /\ h.write_reqs_pending = 0),
         NEW g, g = HandleClose([h EXCEPT !.ipc_xfer_queue = 0])
  PROVE  /\ PipeOk(g, o) /\ PipeDue(g) /\ g.pc = h.pc /\ g.cur = h.cur /\ g.spin = h.spin
         /\ \A f : f # "CLOSED" => (On(g, f) <=> On(h, f))
<1> DEFINE n == PipeOn(h, o)
           m == [h EXCEPT !.ipc_xfer_queue = 0]
<1>1. /\ DOMAIN h = PipeFields /\ PipeTypes(h) /\ PipeCounts(h, o) /\ PipeWritten(h, o) /\ PipeLinked(h)
      /\ PipeReader(h) /\ PipeInput(h) /\ ~On(h, "CLOSED") /\ Core(h, PipeReqs, n)
  BY DEF PipeOpen, PipeOk, PipeCounts, PipeOn
<1>2. /\ SameBut(m, h, {"ipc_xfer_queue"}) /\ m.ipc_xfer_queue = 0 /\ m.flags = h.flags
      /\ m.reqs_pending = h.reqs_pending /\ m.pc = h.pc /\ DOMAIN m = PipeFields
  BY <1>1 DEF SameBut, PipeFields, BaseFields
<1>3. g = HandleClose(m)
  OBVIOUS
<1> HIDE DEF n, m
<1>4. Core(m, PipeReqs, n) /\ Outstanding(m) = Outstanding(h)
  <2> DEFINE fs == {"ipc_xfer_queue"}
  <2>1. fs \cap BaseFields \subseteq {"flags", "active_reqs", "ok", "pc", "cur"} /\ SameBut(m, h, fs)
    BY <1>2 DEF BaseFields
  <2>2. Alike(m, h)
    BY <1>2 DEF Alike, On
  <2> HIDE DEF fs
  <2> QED BY <1>1, <2>1, <2>2, OtherCore
<1>5. /\ Core(g, PipeReqs, 0) /\ n = 0 /\ SameBut(g, m, {"flags", "counted", "ends"})
      /\ Outstanding(g) = {} /\ Outstanding(m) = {} /\ On(g, "CLOSED")
      /\ \A f : f # "CLOSED" => (On(g, f) <=> On(m, f))
  BY <1>1, <1>2, <1>3, <1>4, ClosedCore DEF On, EndDue
<1>6. /\ SameBut(g, h, {"flags", "counted", "ends", "ipc_xfer_queue"}) /\ Outstanding(g) = Outstanding(h)
      /\ \A f : f # "CLOSED" => (On(g, f) <=> On(h, f))
      /\ g.ipc_xfer_queue = 0 /\ DOMAIN g = PipeFields
  BY <1>2, <1>4, <1>5 DEF SameBut, On, PipeFields, BaseFields
<1>7. /\ g.ipc = h.ipc /\ g.pipe = h.pipe /\ g.early = h.early /\ g.writer = h.writer
      /\ g.thread = h.thread /\ g.reader = h.reader /\ g.spin = h.spin /\ g.result = h.result
      /\ g.timer = h.timer /\ g.ok = h.ok /\ g.called = h.called /\ g.kernel = h.kernel
      /\ g.input = h.input /\ g.avail = h.avail /\ g.payload_remaining = h.payload_remaining
      /\ g.todo = h.todo /\ g.pc = h.pc /\ g.cur = h.cur /\ g.shutdown_req = h.shutdown_req
      /\ g.writes = h.writes /\ g.write_reqs_pending = h.write_reqs_pending
      /\ g.active_reqs = h.active_reqs /\ g.activecnt = h.activecnt
  BY <1>1, <1>6 DEF SameBut, PipeFields, BaseFields
<1>8. PipeTypes(g)
  BY <1>1, <1>6, <1>7 DEF PipeTypes
<1>9. PipeCounts(g, o)
  BY <1>5, <1>7, <1>6, <1>1 DEF PipeOn, n, OneIf, PipeCounts
<1>10. PipeWritten(g, o)
  BY <1>1, <1>6, <1>7 DEF PipeWritten, Threaded
<1>11. PipeLinked(g)
  BY <1>1, <1>6, <1>7 DEF PipeLinked
<1>12. PipeReader(g)
  BY <1>1, <1>6, <1>7 DEF PipeReader, Threaded
<1>13. PipeInput(g)
  BY <1>1, <1>6, <1>7 DEF PipeInput
<1>14. PipeDue(g)
  BY <1>5, <1>7 DEF PipeDue
<1> QED BY <1>6, <1>7, <1>8, <1>9, <1>10, <1>11, <1>12, <1>13, <1>14 DEF PipeOk

LEMMA PipeEndgameKeeps == ASSUME PipeInv, uv__pipe_endgame PROVE PipeInv'
<1> DEFINE o == "none"
           h == Ending(wh)
           s == [h EXCEPT !.shutdown_req = FALSE]
           f == CallUser(Unregister(s), "shutdown_cb", "shutdown")
           r == "shutdown"
<1>1. /\ wh.pc = "idle" /\ wh.spin = "none" /\ On(wh, "ENDGAME_QUEUED")
      /\ \/ h.shutdown_req /\ (wh' = f \/ wh' = Set(f, {"WRITABLE"}))
         \/ /\ h.shutdown_req /\ ~On(h, "CLOSING")
            /\ wh' = [s EXCEPT !.pending = @ \cup {r}] \/ wh' = [s EXCEPT !.kernel = @ \cup {r}]
         \/ /\ ~(On(h, "CONNECTION") /\ h.shutdown_req /\ h.write_reqs_pending = 0)
            /\ wh' = IF EndDue(h) THEN HandleClose([h EXCEPT !.ipc_xfer_queue = 0]) ELSE h
  BY DEF uv__pipe_endgame, PipeLoop, CanEnd
<1>2. PipeAt(wh, o) /\ PipePc(wh) /\ DOMAIN wh = PipeFields
  BY <1>1, PipeInvAt DEF PipeInv, PipeOk, PipeCounts, Core, EndsOnce, CountSound, PipeKind
<1>3. r = "shutdown" /\ o = "none"
  OBVIOUS
<1> HIDE DEF o, r
<1>4. /\ Core(wh, PipeReqs, PipeOn(wh, o)) /\ PipeTypes(wh) /\ PipeCounts(wh, o) /\ PipeWritten(wh, o)
      /\ PipeLinked(wh) /\ PipeReader(wh) /\ PipeInput(wh) /\ ~On(wh, "CLOSED")
  BY <1>2, PipeCore
<1>5. h = Ending(wh)
  OBVIOUS
<1> HIDE DEF h
<1>6. /\ Core(h, PipeReqs, PipeOn(wh, o)) /\ SameBut(h, wh, {"flags"}) /\ Outstanding(h) = Outstanding(wh)
      /\ \A x : x # "ENDGAME_QUEUED" => (On(h, x) <=> On(wh, x))
      /\ ~On(h, "ENDGAME_QUEUED")
  <2> DEFINE n == PipeOn(wh, o)
  <2>1. Core(wh, PipeReqs, n)
    BY <1>4
  <2> HIDE DEF n
  <2>2. /\ Core(h, PipeReqs, n) /\ SameBut(h, wh, {"flags"}) /\ Outstanding(h) = Outstanding(wh)
        /\ \A x : x # "ENDGAME_QUEUED" => (On(h, x) <=> On(wh, x))
        /\ ~On(h, "ENDGAME_QUEUED")
    BY <1>4, <1>5, <2>1, QueuedCore
  <2> QED BY <2>2 DEF n
<1>7. /\ h.ipc = wh.ipc /\ h.pipe = wh.pipe /\ h.early = wh.early /\ h.writer = wh.writer
      /\ h.thread = wh.thread /\ h.reader = wh.reader /\ h.spin = wh.spin /\ h.result = wh.result
      /\ h.timer = wh.timer /\ h.ok = wh.ok /\ h.called = wh.called /\ h.kernel = wh.kernel
      /\ h.input = wh.input /\ h.avail = wh.avail /\ h.payload_remaining = wh.payload_remaining
      /\ h.ipc_xfer_queue = wh.ipc_xfer_queue
      /\ h.todo = wh.todo /\ h.pc = wh.pc /\ h.cur = wh.cur /\ h.shutdown_req = wh.shutdown_req
      /\ h.writes = wh.writes /\ h.write_reqs_pending = wh.write_reqs_pending
      /\ h.active_reqs = wh.active_reqs /\ h.activecnt = wh.activecnt /\ DOMAIN h = PipeFields
  BY <1>2, <1>6 DEF SameBut, PipeFields, BaseFields
<1>8. PipeOpen(h, o)
  <2>1. PipeTypes(h)
    BY <1>4, <1>7 DEF PipeTypes
  <2>2. PipeCounts(h, o)
    BY <1>6, <1>4, <1>7 DEF OneIf, PipeCounts, PipeOn
  <2>3. PipeWritten(h, o)
    BY <1>4, <1>6, <1>7 DEF PipeWritten, Threaded
  <2>4. PipeLinked(h)
    BY <1>4, <1>6, <1>7 DEF PipeLinked
  <2>5. PipeReader(h)
    BY <1>4, <1>6, <1>7 DEF PipeReader, Threaded
  <2>6. PipeInput(h)
    BY <1>4, <1>6, <1>7 DEF PipeInput
  <2>7. ~On(h, "CLOSED") /\ \A x \in {"connect", "read", "shutdown"} : x \notin PipeWrites
    BY <1>4, <1>6, PipeAssumption
  <2> QED BY <1>7, <2>1, <2>2, <2>3, <2>4, <2>5, <2>6, <2>7 DEF PipeOpen, PipeOk
<1>9. h.pc = "idle" /\ h.cur = "none" /\ h.spin = "none" /\ (On(h, "READING") => On(h, "READ_PENDING"))
  BY <1>1, <1>2, <1>6, <1>7 DEF PipePc
<1>10. CASE h.shutdown_req /\ (wh' = f \/ wh' = Set(f, {"WRITABLE"}))
  <2>1. s = [h EXCEPT !.shutdown_req = FALSE]
    OBVIOUS
  <2> HIDE DEF s
  <2>2. ASSUME NEW g, g = f \/ g = Set(f, {"WRITABLE"})
        PROVE  PipeOk(g, "other") /\ PipeDue(g) /\ PipePc(g) /\ PipeKind(g) = "other"
    BY <1>3, <1>8, <1>9, <1>10, <2>1, <2>2, ShutdownFails
  <2> HIDE DEF f
  <2> QED BY <1>10, <2>2 DEF PipeInv
<1>11. CASE /\ h.shutdown_req /\ ~On(h, "CLOSING")
            /\ wh' = [s EXCEPT !.pending = @ \cup {r}] \/ wh' = [s EXCEPT !.kernel = @ \cup {r}]
  <2>2. ASSUME NEW g, g = [s EXCEPT !.pending = @ \cup {r}] \/ g = [s EXCEPT !.kernel = @ \cup {r}]
        PROVE  /\ PipeOk(g, o) /\ PipeDue(g) /\ g.pc = h.pc /\ g.cur = h.cur /\ g.spin = h.spin
               /\ \A x : On(g, x) <=> On(h, x)
    <3>1. /\ SameBut(g, h, {"shutdown_req", "kernel", "pending"}) /\ g.shutdown_req = FALSE
          /\ g.walk = h.walk
          /\ \/ g.kernel = h.kernel \cup {r} /\ g.pending = h.pending
             \/ g.kernel = h.kernel /\ g.pending = h.pending \cup {r}
      BY <1>7, <2>2 DEF SameBut, PipeFields, BaseFields
    <3> QED BY ZenonT(30), <1>3, <1>8, <1>11, <3>1, ShutdownStarts
  <2>3. /\ PipeOk(wh', o) /\ PipeDue(wh') /\ wh'.pc = h.pc /\ wh'.cur = h.cur /\ wh'.spin = h.spin
        /\ \A x : On(wh', x) <=> On(h, x)
    BY <1>11, <2>2
  <2>4. PipePc(wh') /\ PipeKind(wh') = "none"
    BY <1>9, <2>3 DEF PipePc, PipeKind
  <2> QED BY <1>3, <2>3, <2>4 DEF PipeInv
<1>12. CASE /\ ~(On(h, "CONNECTION") /\ h.shutdown_req /\ h.write_reqs_pending = 0)
            /\ wh' = IF EndDue(h) THEN HandleClose([h EXCEPT !.ipc_xfer_queue = 0]) ELSE h
  BY <1>8, <1>12, <1>3, <1>6, <1>9, PipeClosedAt DEF PipeOpen, PipeOk, PipeLinked, PipePc, PipeKind,
     PipeInv, PipeDue
<1> QED BY <1>1, <1>10, <1>11, <1>12

LEMMA PipeNextKeeps == ASSUME PipeInv, WinPipeNext PROVE PipeInv'
<1>1. CASE uv_pipe_open \/ uv__create_stdio_pipe_pair
  BY <1>1, PipeOpenKeeps
<1>2. CASE uv_pipe_connect
  BY <1>2, PipeConnectKeeps
<1>3. CASE pipe_connect_thread_proc
  BY <1>3, PipeThreadConnectKeeps
<1>4. CASE PipeProcessConnect
  BY <1>4, PipeProcessConnectKeeps
<1>5. CASE PipeConnectDone \/ PipeShutdownDone
  BY <1>5, PipeDoneKeeps
<1>6. CASE InterruptDone
  BY <1>6, PipeInterruptDoneKeeps
<1>7. CASE uv__pipe_read_stop
  BY <1>7, PipeReadStopKeeps
<1>8. CASE uv__pipe_getname
  BY <1>8, PipeNameKeeps
<1>9. CASE ReaderEnters \/ ReaderReturns
  BY <1>9, PipeReaderKeeps
<1>10. CASE PipeCompletes \/ ReaderLeaves
  BY <1>10, PipeCompletesKeeps
<1>11. CASE uv__pipe_read_start
  BY <1>11, PipeReadStartKeeps
<1>12. CASE PipeProcessRead
  BY <1>12, PipeProcessReadKeeps
<1>13. CASE ReadData
  BY <1>13, PipeReadDataKeeps
<1>14. CASE ReadFrame
  BY <1>14, PipeReadFrameKeeps
<1>15. CASE PipeReadAgain
  BY <1>15, PipeReadAgainKeeps
<1>16. CASE PipeReadDone
  BY <1>16, PipeReadDoneKeeps
<1>17. CASE AcceptXfer \/ PeerWrites
  BY <1>17, PipePeerKeeps
<1>18. CASE uv_stream_set_blocking
  BY <1>18, PipeBlockingKeeps
<1>19. CASE \E w \in PipeWrites : uv__pipe_write_data(w) \/ PipeProcessWrite(w)
  BY <1>19, PipeWriteKeeps, PipeProcessWriteKeeps
<1>20. CASE PipeWriteDone
  BY <1>20, PipeWriteDoneKeeps
<1>21. CASE PipeShutdown
  BY <1>21, PipeShutdownKeeps
<1>22. CASE uv__pipe_endgame
  BY <1>22, PipeEndgameKeeps
<1>23. CASE PipeProcessShutdown
  BY <1>23, PipeProcessShutdownKeeps
<1>24. CASE eof_timer_cb
  BY <1>24, PipeTimerKeeps
<1>25. CASE EofTimerDone
  BY <1>25, PipeTimerDoneKeeps
<1>26. CASE uv__pipe_close
  BY <1>26, PipeCloseKeeps
<1>27. CASE PipeWalk
  BY <1>27, PipeWalkKeeps
<1> QED BY <1>1, <1>2, <1>3, <1>4, <1>5, <1>6, <1>7, <1>8, <1>9, <1>10, <1>11, <1>12, <1>13, <1>14,
           <1>15, <1>16, <1>17, <1>18, <1>19, <1>20, <1>21, <1>22, <1>23, <1>24, <1>25, <1>26, <1>27
           DEF WinPipeNext
=============================================================================
