-------------------------- MODULE FicFuseStoreProofs --------------------------
(***************************************************************************)
(* FicFuse implements ByteStore: every read and every write of /mem takes  *)
(* effect at one moment, for every number of workers, calls and bytes.     *)
(*                                                                         *)
(* A write takes effect in the access that completes it: until then its    *)
(* callers see the DDR as it was when the lock was taken.  Each step of a  *)
(* worker is shown to be one step of the store or none; Alone says that it *)
(* changes nothing another worker has, Seen what the store is.             *)
(***************************************************************************)
EXTENDS FicFuseProofs

Seen == <<Content, Status, Wanted, Answer>>
Shown == Store!Next \/ UNCHANGED Seen

\* The writes of whose bytes nothing is promised.
Spoils(r) == r \in Requests /\ EndsInHead(r)

\* A step of w that leaves what the other workers are doing.
Alone(w) ==
    \A u \in Workers : u # w => pc[u]' = pc[u] /\ req[u]' = req[u] /\ out[u]' = out[u]

\* Only what w shows changes.
LEMMA ShowsOne ==
  ASSUME NEW w \in Workers, Alone(w)
  PROVE  /\ Status' = [Status EXCEPT ![w] = Status'[w]]
         /\ Wanted' = [Wanted EXCEPT ![w] = Wanted'[w]]
         /\ Answer' = [Answer EXCEPT ![w] = Answer'[w]]
  BY DEF Alone, Status, Wanted, Answer

\* What a worker shows.
LEMMA Shows ==
  ASSUME NEW w \in Workers
  PROVE  /\ Status[w] = IF pc[w] \in {"idle", "eio"} THEN "idle"
                        ELSE IF pc[w] = "close" THEN "answered" ELSE "asked"
         /\ Wanted[w] = IF pc[w] = "eio" THEN NoRequest ELSE req[w]
         /\ Answer[w] = IF pc[w] = "close" /\ req[w].kind = "read"
                        THEN out[w] ELSE <<>>
  BY DEF Status, Wanted, Answer

LEMMA ShowsThen ==
  ASSUME NEW w \in Workers
  PROVE  /\ Status'[w] = IF pc[w]' \in {"idle", "eio"} THEN "idle"
                         ELSE IF pc[w]' = "close" THEN "answered" ELSE "asked"
         /\ Wanted'[w] = IF pc[w]' = "eio" THEN NoRequest ELSE req[w]'
         /\ Answer'[w] = IF pc[w]' = "close" /\ req[w]'.kind = "read"
                         THEN out[w]' ELSE <<>>
  BY DEF Status, Wanted, Answer

\* The steps of the store, by what w shows before and after.
LEMMA Stutters ==
  ASSUME NEW w \in Workers, Alone(w), Content' = Content,
         Status'[w] = Status[w], Wanted'[w] = Wanted[w], Answer'[w] = Answer[w]
  PROVE  Shown
<1>1. Status' = Status
  <2>1. Status = [u \in Workers |-> Status[u]]
    BY DEF Status
  <2>2. Status' = [Status EXCEPT ![w] = Status[w]]
    BY ShowsOne
  <2> QED
    BY <2>1, <2>2
<1>2. Wanted' = Wanted
  BY ShowsOne DEF Wanted
<1>3. Answer' = Answer
  BY ShowsOne DEF Answer
<1> QED
  BY <1>1, <1>2, <1>3 DEF Shown, Seen

LEMMA Asks ==
  ASSUME NEW w \in Workers, NEW r \in Requests, Alone(w), Content' = Content,
         Status[w] = "idle", Status'[w] = "asked", Wanted'[w] = r,
         Answer'[w] = Answer[w]
  PROVE  Shown
<1>1. Answer' = Answer
  BY ShowsOne DEF Answer
<1>2. Store!Ask(w, r)
  BY <1>1, ShowsOne DEF Store!Ask
<1> QED
  BY <1>2 DEF Shown, Store!Next

LEMMA Writes ==
  ASSUME NEW w \in Workers, Alone(w), Status[w] = "asked", Status'[w] = "answered",
         Wanted[w].kind = "write", Wanted'[w] = Wanted[w], Answer'[w] = Answer[w],
         \/ Spoils(Wanted[w])
         \/ Content' = Store!With(w)
  PROVE  Shown
<1>1. Wanted' = Wanted /\ Answer' = Answer
  BY ShowsOne DEF Wanted, Answer
<1>2. Store!Write(w)
  BY <1>1, ShowsOne DEF Store!Write, Store!Becomes, Spoils
<1> QED
  BY <1>2 DEF Shown, Store!Next

LEMMA Reads ==
  ASSUME NEW w \in Workers, Alone(w), Status[w] = "asked", Status'[w] = "answered",
         Wanted[w].kind = "read", Wanted'[w] = Wanted[w], Content' = Content,
         Answer'[w] = Store!Bytes(w)
  PROVE  Shown
<1>1. Wanted' = Wanted
  BY ShowsOne DEF Wanted
<1>2. Store!Read(w)
  BY <1>1, ShowsOne DEF Store!Read, Store!Becomes
<1> QED
  BY <1>2 DEF Shown, Store!Next

LEMMA WritesBlock ==
  ASSUME NEW w \in Workers, Alone(w), Status[w] = "asked",
         Status'[w] \in {"asked", "answered"},
         Wanted[w].kind = "ddr_write", Wanted'[w] = Wanted[w], Answer'[w] = Answer[w],
         Store!KeptElsewhere(w)
  PROVE  Shown
<1>1. Wanted' = Wanted /\ Answer' = Answer
  BY ShowsOne DEF Wanted, Answer
<1>2. Store!WriteBlock(w)
  BY <1>1, ShowsOne DEF Store!WriteBlock, Store!Becomes
<1> QED
  BY <1>2 DEF Shown, Store!Next

LEMMA Others ==
  ASSUME NEW w \in Workers, Alone(w), Status[w] = "asked", Status'[w] = "answered",
         Wanted[w].kind \notin {"read", "write", "ddr_write"}, Wanted'[w] = Wanted[w],
         Answer'[w] = Answer[w], Content' = Content
  PROVE  Shown
<1>1. Wanted' = Wanted /\ Answer' = Answer
  BY ShowsOne DEF Wanted, Answer
<1>2. Store!Other(w)
  BY <1>1, ShowsOne DEF Store!Other, Store!Becomes
<1> QED
  BY <1>2 DEF Shown, Store!Next

LEMMA FailsClean ==
  ASSUME NEW w \in Workers, Alone(w), Status[w] = "asked", Status'[w] = "idle",
         Wanted'[w] = NoRequest, Answer'[w] = <<>>, Content' = Content
  PROVE  Shown
<1>1. Store!Fail(w)
  BY ShowsOne DEF Store!Fail, Store!Becomes, Store!Forget
<1> QED
  BY <1>1 DEF Shown, Store!Next

LEMMA FailsSpoiling ==
  ASSUME NEW w \in Workers, Alone(w), Status[w] = "asked", Status'[w] = "idle",
         Wanted'[w] = NoRequest, Answer'[w] = <<>>, Spoils(Wanted[w])
  PROVE  Shown
<1>1. Store!Fail(w)
  BY ShowsOne DEF Store!Fail, Store!Becomes, Store!Forget, Spoils
<1> QED
  BY <1>1 DEF Shown, Store!Next

LEMMA FailsInPlace ==
  ASSUME NEW w \in Workers, Alone(w), Status[w] = "asked", Status'[w] = "idle",
         Wanted'[w] = NoRequest, Answer'[w] = <<>>,
         Wanted[w].kind \in {"write", "ddr_write"}, Store!KeptElsewhere(w)
  PROVE  Shown
<1>1. Store!Fail(w)
  BY ShowsOne DEF Store!Fail, Store!Becomes, Store!Forget
<1> QED
  BY <1>1 DEF Shown, Store!Next

LEMMA Returns ==
  ASSUME NEW w \in Workers, Alone(w), Status[w] = "answered", Status'[w] = "idle",
         Wanted'[w] = NoRequest, Answer'[w] = <<>>, Content' = Content
  PROVE  Shown
<1>1. Store!Return(w)
  BY ShowsOne DEF Store!Return, Store!Forget
<1> QED
  BY <1>1 DEF Shown, Store!Next

-----------------------------------------------------------------------------
(* What the store holds. *)

\* A session alone decides whether a write is under way.
LEMMA ContentIs ==
  ASSUME Held, ~broken, NEW w \in Workers, pc[w] \in Session
  PROVE  Content = IF pc[w] \in Underway /\ req[w].kind = "write" THEN before ELSE mem
<1>1. \A u \in Workers : u # w => pc[u] \notin Session
  BY OneSession
<1>2. \A u \in Workers : u # w => pc[u] \notin Underway
  BY <1>1 DEF Underway, Session, DdrCalls
<1> QED
  BY <1>2 DEF Content, Writing

LEMMA ContentThen ==
  ASSUME Held, ~broken, NEW w \in Workers, pc[w] \in Session, Alone(w)
  PROVE  Content' = IF pc[w]' \in Underway /\ req[w]'.kind = "write"
                    THEN before' ELSE mem'
<1>1. \A u \in Workers : u # w => pc[u] \notin Session
  BY OneSession
<1>2. \A u \in Workers : u # w => pc[u]' \notin Underway
  BY <1>1 DEF Alone, Underway, Session, DdrCalls
<1> QED
  BY <1>2 DEF Content, Writing

\* What the request of a session changes in the store.
LEMMA PlaceIs ==
  ASSUME NEW w \in Workers, pc[w] # "eio"
  PROVE  /\ Store!Place(w) = {x \in Addresses : InRange(w, x)}
         /\ Store!With(w) = [x \in Addresses |-> IF InRange(w, x)
                                THEN <<w, x - req[w].offset>> ELSE Content[x]]
<1>1. Wanted[w] = req[w]
  BY Shows
<1> QED
  BY <1>1 DEF Store!Place, Store!With, InRange

LEMMA ElsewhereIs ==
  ASSUME NEW w \in Workers, pc[w] # "eio", Content' \in [Addresses -> Bytes],
         \A x \in Addresses : InRange(w, x) \/ Content'[x] = Content[x]
  PROVE  Store!KeptElsewhere(w)
<1>1. Store!Place(w) = {x \in Addresses : InRange(w, x)}
  BY PlaceIs
<1>2. Content' = [x \in Addresses |-> Content'[x]]
  OBVIOUS
<1>3. Content' = [x \in Addresses |-> IF x \in Store!Place(w) THEN Content'[x]
                                      ELSE Content[x]]
  BY <1>1, <1>2
<1> QED
  BY <1>3 DEF Store!KeptElsewhere

\* The steps of a session that has the lock and is not about to close.
Inside == Session \ {"close", "eio"}

LEMMA InsideIs ==
  ASSUME NEW w \in Workers, Asked(w), pc[w] \in Inside
  PROVE  /\ pc[w] \in Session /\ Status[w] = "asked" /\ Wanted[w] = req[w]
         /\ Answer[w] = <<>> /\ pc[w] # "eio" /\ req[w] \in Requests
         /\ req[w].kind \in File => pc[w] \in Underway
  BY Shows DEF Inside, Session, DdrCalls, Asked, Underway, File, Direct

LEMMA InsideThen ==
  ASSUME NEW w \in Workers, Asked(w)', pc[w]' \in Inside
  PROVE  /\ Status'[w] = "asked" /\ Wanted'[w] = req[w]' /\ Answer'[w] = <<>>
         /\ req[w]'.kind \in File => pc[w]' \in Underway
  BY ShowsThen DEF Inside, Session, DdrCalls, Asked, Underway, File, Direct

\* A session goes on.
LEMMA Continues ==
  ASSUME IInv, IInv', ~broken, NEW w \in Workers, Alone(w),
         pc[w] \in Inside, pc[w]' \in Inside, req[w]' = req[w], before' = before,
         req[w].kind # "write" => mem' = mem
  PROVE  Shown
<1>1. Held /\ Asked(w) /\ Asked(w)'
  BY DEF IInv
<1>2. Content' = Content
  BY <1>1, InsideIs, InsideThen, ContentIs, ContentThen DEF File
<1> QED
  BY <1>1, <1>2, InsideIs, InsideThen, Stutters

\* A write is done: it takes effect.
LEMMA CompletesWrite ==
  ASSUME IInv, IInv', ~broken, ~broken', NEW w \in Workers, Alone(w),
         pc[w] \in Inside, pc[w]' = "close", req[w].kind = "write",
         req[w]' = req[w], before' = before
  PROVE  Shown
<1>1. Held /\ Asked(w)
  BY DEF IInv
<1>2. Content = before /\ Content' = mem'
  BY <1>1, InsideIs, ContentIs, ContentThen DEF File, Underway
<1>4. \/ EndsInHead(req[w])
      \/ mem' = [x \in Addresses |-> IF InRange(w, x) THEN <<w, x - req[w].offset>>
                                     ELSE before[x]]
  BY DEF IInv, WriteExact, Exact, InRange
<1>5. ASSUME ~EndsInHead(req[w]) PROVE Content' = Store!With(w)
  BY <1>1, <1>2, <1>4, <1>5, InsideIs, PlaceIs
<1>6. /\ Status'[w] = "answered" /\ Wanted'[w] = req[w] /\ Answer'[w] = <<>>
  BY ShowsThen
<1> QED
  BY <1>1, <1>5, <1>6, InsideIs, Writes DEF Spoils

\* A read is done: it has the bytes of the store.
LEMMA CompletesRead ==
  ASSUME IInv, IInv', ~broken, ~broken', NEW w \in Workers, Alone(w),
         pc[w] \in Inside, pc[w]' = "close", req[w].kind = "read",
         req[w]' = req[w], before' = before, mem' = mem
  PROVE  Shown
<1>1. Held /\ Asked(w) /\ ReadSoFar(w)
  BY DEF IInv
<1>2. Content = mem /\ Content' = mem /\ mem = before
  BY <1>1, InsideIs, ContentIs, ContentThen DEF File, Underway, ReadSoFar
<1>3. out[w]' = [i \in 1..req[w].size |-> before[req[w].offset + i - 1]]
  BY DEF IInv, ReadExact
<1>4. Store!Bytes(w) = [i \in 1..req[w].size |-> Content[req[w].offset + i - 1]]
  BY <1>1, InsideIs DEF Store!Bytes
<1>5. /\ Status'[w] = "answered" /\ Wanted'[w] = req[w] /\ Answer'[w] = out[w]'
  BY ShowsThen
<1> QED
  BY <1>1, <1>2, <1>3, <1>4, <1>5, InsideIs, Reads

\* A request without a place in the store is done.
LEMMA CompletesOther ==
  ASSUME IInv, IInv', ~broken, NEW w \in Workers, Alone(w),
         pc[w] \in Inside, pc[w]' = "close",
         req[w].kind \notin {"read", "write", "ddr_write"},
         req[w]' = req[w], mem' = mem
  PROVE  Shown
<1>1. Held /\ Asked(w)
  BY DEF IInv
<1>2. Content' = Content
  BY <1>1, InsideIs, ContentIs, ContentThen
<1>3. /\ Status'[w] = "answered" /\ Wanted'[w] = req[w] /\ Answer'[w] = <<>>
  BY ShowsThen
<1> QED
  BY <1>1, <1>2, <1>3, InsideIs, Others

\* A step changes no byte that w was not asked to write, if it is a write at all.
Touches(w) ==
    /\ mem' \in [Addresses -> Bytes]
    /\ \A x \in Addresses : mem'[x] # mem[x] =>
          /\ req[w].kind \in {"write", "ddr_write"}
          /\ EndsInHead(req[w]) \/ InRange(w, x)

\* An access that is cut off, and one that stores nothing.
LEMMA CutOffTouches ==
  ASSUME IInv, IInv', ~broken, NEW w \in Workers,
         \/ mem' \in {mem, Effect(w)}
         \/ CutOff(w)
  PROVE  Touches(w)
<1>1. mem' \in [Addresses -> Bytes]
  BY DEF IInv, TypeOK, Contents
<1> QED
  BY <1>1, EffectKeeps, CutOffKeeps DEF Touches

\* A request that does not write leaves the DDR as it is.
LEMMA TouchesNothing ==
  ASSUME IInv, NEW w \in Workers, Touches(w),
         req[w].kind \notin {"write", "ddr_write"}
  PROVE  mem' = mem
<1>1. mem \in [Addresses -> Bytes]
  BY DEF IInv, TypeOK, Contents
<1> QED
  BY <1>1 DEF Touches

\* A session is cut off, by an error or by its end: a write leaves something in its
\* own place, any other nothing.
LEMMA Stops ==
  ASSUME IInv, ~broken, NEW w \in Workers, Alone(w),
         pc[w] \in Inside, Touches(w),
         \/ pc[w]' = "idle" /\ req[w]' = NoRequest
         \/ pc[w]' = "eio"
  PROVE  Shown
<1>1. Held /\ Asked(w) /\ FilePlace(w) /\ WrittenSoFar(w) /\ TypeOK
  BY DEF IInv
<1>2. /\ Status'[w] = "idle" /\ Wanted'[w] = NoRequest /\ Answer'[w] = <<>>
  BY ShowsThen
<1>3. Content' = mem'
  BY <1>1, InsideIs, ContentThen DEF Underway
<1>4. CASE EndsInHead(req[w])
  BY <1>1, <1>2, <1>4, InsideIs, FailsSpoiling DEF Spoils
<1>5. CASE req[w].kind = "write" /\ ~EndsInHead(req[w])
  <2>1. /\ pc[w] \in Underway /\ Content = before /\ mem = WrittenTo(w, off[w])
    BY <1>1, <1>5, InsideIs, ContentIs DEF File, WrittenSoFar, WrittenTo
  <2>2. /\ off[w] \in Nat /\ left[w] \in Nat /\ req[w].offset \in Nat
        /\ req[w].size \in Nat /\ off[w] + left[w] = req[w].offset + req[w].size
    BY <1>1, <1>5, <2>1, Places DEF File
  <2>3. ASSUME NEW x \in Addresses, ~InRange(w, x)
        PROVE  mem'[x] = before[x]
    <3>1. mem'[x] = mem[x]
      BY <1>5, <2>3 DEF Touches
    <3>2. x \in Nat /\ ~(req[w].offset <= x /\ x < off[w])
      BY <2>2, <2>3 DEF InRange, Addresses
    <3> QED
      BY <2>1, <3>1, <3>2 DEF WrittenTo
  <2>4. Store!KeptElsewhere(w)
    BY <1>1, <1>3, <2>1, <2>3, InsideIs, ElsewhereIs DEF Touches
  <2> QED
    BY <1>1, <1>2, <1>5, <2>4, InsideIs, FailsInPlace
<1>6. CASE req[w].kind # "write"
  <2>1. Content = mem
    BY <1>1, <1>6, InsideIs, ContentIs
  <2>2. CASE req[w].kind = "ddr_write"
    <3>1. Store!KeptElsewhere(w)
      BY <1>1, <1>3, <1>6, <2>1, InsideIs, ElsewhereIs DEF Touches, EndsInHead
    <3> QED
      BY <1>1, <1>2, <2>2, <3>1, InsideIs, FailsInPlace
  <2>3. CASE req[w].kind # "ddr_write"
    <3>1. mem' = mem
      BY <1>6, <2>3, TouchesNothing
    <3> QED
      BY <1>1, <1>2, <1>3, <2>1, <3>1, InsideIs, FailsClean
  <2> QED
    BY <2>2, <2>3
<1> QED
  BY <1>4, <1>5, <1>6

\* A block is done or has failed: a block write changes its own place, and an access
\* of another kind nothing.
LEMMA Blocks ==
  ASSUME IInv, IInv', ~broken, NEW w \in Workers, Alone(w),
         pc[w] = "block", pc[w]' \in {"reset", "close"}, Touches(w),
         req[w]' = req[w], before' = before
  PROVE  Shown
<1>1. Held /\ Asked(w) /\ TypeOK /\ pc[w] \in Inside /\ req[w].kind \in Direct
  BY DEF IInv, Inside, Session, DdrCalls, Asked
<1>2. CASE req[w].kind = "ddr_write"
  <2>1. Content = mem /\ Content' = mem'
    BY <1>1, <1>2, InsideIs, ContentIs, ContentThen
  <2>2. /\ Status'[w] \in {"asked", "answered"} /\ Wanted'[w] = req[w]
        /\ Answer'[w] = <<>>
    BY <1>2, ShowsThen
  <2>3. Store!KeptElsewhere(w)
    BY <1>1, <1>2, <2>1, InsideIs, ElsewhereIs DEF Touches, EndsInHead
  <2> QED
    BY <1>1, <1>2, <2>2, <2>3, InsideIs, WritesBlock
<1>3. CASE req[w].kind # "ddr_write"
  <2>1. req[w].kind \notin {"read", "write", "ddr_write"}
    BY <1>1, <1>3 DEF Direct
  <2>2. mem' = mem
    BY <2>1, TouchesNothing
  <2>3. CASE pc[w]' = "reset"
    BY <1>1, <2>1, <2>2, <2>3, Continues DEF Inside, Session, DdrCalls
  <2>4. CASE pc[w]' = "close"
    BY <1>1, <2>1, <2>2, <2>4, CompletesOther
  <2> QED
    BY <2>3, <2>4
<1> QED
  BY <1>2, <1>3

-----------------------------------------------------------------------------
(* The steps. *)

\* The steps of a worker leave what the others are doing.
LEMMA WorksAlone ==
  ASSUME TypeOK, NEW w \in Workers,
         \/ Open(w) \/ OpenFails(w) \/ Own(w) \/ \E r \in Requests : Call(w, r)
  PROVE  Alone(w)
<1> USE DEF TypeOK, Control, Contents, Alone, Goto
<1>1. CASE \E r \in Requests : Call(w, r)
  BY <1>1 DEF Call, locals
<1>2. CASE Open(w)
  BY <1>2 DEF Open
<1>3. CASE OpenFails(w)
  BY <1>3 DEF OpenFails, Return
<1>4. CASE Reset(w)
  BY <1>4 DEF Reset, locals
<1>5. CASE ResetMissed(w)
  BY <1>5 DEF ResetMissed, locals
<1>6. CASE ReadHead(w)
  BY <1>6 DEF ReadHead, Move
<1>7. CASE ReadBody(w)
  BY <1>7 DEF ReadBody, Move
<1>8. CASE ReadTail(w)
  BY <1>8 DEF ReadTail
<1>9. CASE LoadWord(w)
  BY <1>9 DEF LoadWord
<1>10. CASE WriteHead(w)
  BY <1>10 DEF WriteHead, Move
<1>11. CASE WriteBody(w)
  BY <1>11 DEF WriteBody, Move
<1>12. CASE WriteTail(w)
  BY <1>12 DEF WriteTail
<1>13. CASE Reg(w)
  BY <1>13 DEF Reg, locals
<1>14. CASE Block(w)
  BY <1>14 DEF Block, NextBlock
<1>15. CASE DebugSend(w)
  BY <1>15 DEF DebugSend, locals
<1>16. CASE DebugReceive(w)
  BY <1>16 DEF DebugReceive, locals
<1>17. CASE Fails(w)
  BY <1>17 DEF Fails, locals
<1>18. CASE BlockFails(w)
  BY <1>18 DEF BlockFails, NextBlock
<1>19. CASE Close(w)
  BY <1>19 DEF Close, Return
<1>20. CASE Crash(w)
  BY <1>20 DEF Crash, Return
<1> QED
  BY <1>1, <1>2, <1>3, <1>4, <1>5, <1>6, <1>7, <1>8, <1>9, <1>10,
     <1>11, <1>12, <1>13, <1>14, <1>15, <1>16, <1>17, <1>18, <1>19, <1>20 DEF Own, Access

\* What comes first is not the end, for a request with a place in the DDR.
LEMMA FirstIsInside ==
  ASSUME NEW w \in Workers, TypeOK, Asked(w), FilePlace(w), pc[w] = "reset"
  PROVE  \/ FirstCall(w) \in Inside
         \/ FirstCall(w) = "close" /\ req[w].kind = "init"
<1>1. req[w] \in Requests /\ ~Refused(req[w])
  BY DEF Asked
<1>2. CASE req[w].kind \in File
  <2>1. /\ off[w] \in Nat /\ left[w] \in Nat /\ req[w].offset \in Nat
        /\ req[w].size \in Nat /\ pos[w] = 0 /\ pos[w] = off[w] - req[w].offset
        /\ off[w] + left[w] = req[w].offset + req[w].size
    BY <1>1, <1>2, RequestType DEF Underway, FilePlace, TypeOK, Locals
  <2>2. left[w] # 0
    BY <1>1, <1>2, <2>1 DEF Refused, File
  <2>3. FirstCall(w) \in {"head", "body", "tail"}
    BY <1>1, <1>2, <2>2, FirstIsCall DEF Stage
  <2> QED
    BY <2>3 DEF Inside, Session, DdrCalls
<1>3. CASE req[w].kind \notin File
  <2>1. req[w].kind \in Kinds
    BY <1>1, RequestType
  <2> QED
    BY <1>3, <2>1 DEF FirstCall, Kinds, Direct, File, Inside, Session, DdrCalls
<1> QED
  BY <1>2, <1>3

LEMMA ResetShown ==
  ASSUME IInv, IInv', ~broken, NEW w \in Workers,
         Reset(w) \/ ResetMissed(w)
  PROVE  Shown
<1>1. /\ TypeOK /\ Asked(w) /\ FilePlace(w) /\ pc[w] = "reset" /\ pc[w] \in Inside
      /\ mem' = mem /\ before' = before /\ req[w]' = req[w]
      /\ pc[w]' = FirstCall(w) \/ pc[w]' = "eio"
  BY DEF IInv, TypeOK, Control, Reset, ResetMissed, Goto, locals, Inside, Session,
     DdrCalls
<1>2. Alone(w)
  BY <1>1, WorksAlone DEF Own
<1>3. CASE pc[w]' = "eio"
  BY <1>1, <1>2, <1>3, CutOffTouches, Stops
<1>4. CASE pc[w]' \in Inside
  BY <1>1, <1>2, <1>4, Continues
<1>5. CASE pc[w]' = "close" /\ req[w].kind = "init"
  BY <1>1, <1>2, <1>5, CompletesOther
<1> QED
  BY <1>1, <1>3, <1>4, <1>5, FirstIsInside

LEMMA ReadShown ==
  ASSUME IInv, IInv', ~broken, ~broken', NEW w \in Workers,
         ReadHead(w) \/ ReadBody(w) \/ ReadTail(w)
  PROVE  Shown
<1>1. /\ TypeOK /\ pc[w] \in Inside /\ req[w].kind = "read"
      /\ mem' = mem /\ before' = before /\ req[w]' = req[w]
      /\ pc[w]' \in {"body", "tail", "close"}
  BY DEF IInv, TypeOK, Control, ReadHead, ReadBody, ReadTail, At, Move, Goto, Stage,
     Inside, Session, DdrCalls
<1>2. Alone(w)
  BY <1>1, WorksAlone DEF Own, Access
<1>3. CASE pc[w]' = "close"
  BY <1>1, <1>2, <1>3, CompletesRead
<1>4. CASE pc[w]' \in Inside
  BY <1>1, <1>2, <1>4, Continues
<1> QED
  BY <1>1, <1>3, <1>4 DEF Inside, Session, DdrCalls

LEMMA WriteShown ==
  ASSUME IInv, IInv', ~broken, ~broken', NEW w \in Workers,
         LoadWord(w) \/ WriteHead(w) \/ WriteBody(w) \/ WriteTail(w)
  PROVE  Shown
<1>1. /\ TypeOK /\ pc[w] \in Inside /\ req[w].kind = "write"
      /\ before' = before /\ req[w]' = req[w]
      /\ pc[w]' \in {"head_write", "body", "tail", "tail_write", "close"}
  BY DEF IInv, Asked, TypeOK, Control, LoadWord, WriteHead, WriteBody, WriteTail, At,
     Move, Goto, Stage, Inside, Session, DdrCalls
<1>2. Alone(w)
  BY <1>1, WorksAlone DEF Own, Access
<1>3. CASE pc[w]' = "close"
  BY <1>1, <1>2, <1>3, CompletesWrite
<1>4. CASE pc[w]' \in Inside
  BY <1>1, <1>2, <1>4, Continues
<1> QED
  BY <1>1, <1>3, <1>4 DEF Inside, Session, DdrCalls

LEMMA OtherShown ==
  ASSUME IInv, IInv', ~broken, NEW w \in Workers,
         Reg(w) \/ Block(w) \/ BlockFails(w) \/ DebugSend(w) \/ DebugReceive(w)
  PROVE  Shown
<1>1. TypeOK /\ Asked(w)
  BY DEF IInv
<1>2. Alone(w)
  BY <1>1, WorksAlone DEF Own, Access
<1>3. CASE Reg(w) \/ DebugReceive(w)
  <2>1. /\ pc[w] \in Inside /\ req[w].kind \in {"reg_read", "reg_write", "ddr_debug"}
        /\ pc[w]' = "close" /\ mem' = mem /\ req[w]' = req[w]
    BY <1>1, <1>3 DEF Reg, DebugReceive, At, Goto, Asked, TypeOK, Control, Inside,
       Session, DdrCalls
  <2> QED
    BY <1>2, <2>1, CompletesOther
<1>4. CASE DebugSend(w)
  <2>1. /\ pc[w] \in Inside /\ pc[w]' \in Inside
        /\ mem' = mem /\ before' = before /\ req[w]' = req[w]
    BY <1>1, <1>4 DEF DebugSend, At, Goto, TypeOK, Control, Inside, Session, DdrCalls
  <2> QED
    BY <1>2, <2>1, Continues
<1>5. CASE Block(w) \/ BlockFails(w)
  <2>1. /\ pc[w] = "block" /\ pc[w]' \in {"reset", "close"}
        /\ before' = before /\ req[w]' = req[w]
    BY <1>1, <1>5 DEF Block, BlockFails, NextBlock, At, Goto, TypeOK, Control
  <2>2. Touches(w)
    <3>1. mem' \in {mem, Effect(w)} \/ CutOff(w)
      BY <1>5 DEF Block, BlockFails, At, Effect
    <3> QED
      BY <3>1, CutOffTouches
  <2> QED
    BY <1>2, <2>1, <2>2, Blocks
<1> QED
  BY <1>3, <1>4, <1>5

LEMMA FailShown ==
  ASSUME IInv, IInv', ~broken, NEW w \in Workers, Fails(w) \/ Crash(w)
  PROVE  Shown
<1>1. TypeOK /\ Asked(w)
  BY DEF IInv
<1>2. Alone(w)
  BY <1>1, WorksAlone DEF Own
<1>3. pc[w] \in Inside /\ Touches(w)
  <2>1. mem' = mem \/ CutOff(w)
    BY DEF Fails, Crash
  <2>2. pc[w] \in Inside
    BY DEF Fails, Crash, CutOff, Inside, Session, DdrCalls
  <2> QED
    BY <2>1, <2>2, CutOffTouches
<1>4. CASE Fails(w) /\ pc[w] = "debug"
  <2>1. /\ pc[w]' \in Inside /\ before' = before /\ req[w]' = req[w]
    BY <1>1, <1>4 DEF Fails, Goto, TypeOK, Control, Inside, Session, DdrCalls
  <2>2. mem' = mem
    BY <1>1, <1>3, <1>4, TouchesNothing DEF Asked
  <2> QED
    BY <1>2, <1>3, <2>1, <2>2, Continues
<1>5. CASE Fails(w) /\ pc[w] # "debug"
  <2>1. pc[w]' = "eio"
    BY <1>1, <1>5 DEF Fails, Goto, TypeOK, Control
  <2> QED
    BY <1>2, <1>3, <2>1, Stops
<1>6. CASE Crash(w)
  <2>1. pc[w]' = "idle" /\ req[w]' = NoRequest
    BY <1>1, <1>6 DEF Crash, Return, Goto, TypeOK, Control
  <2> QED
    BY <1>2, <1>3, <2>1, Stops
<1> QED
  BY <1>4, <1>5, <1>6

\* Before a session and behind it.
LEMMA CallShown ==
  ASSUME IInv, NEW w \in Workers, NEW r \in Requests, Call(w, r)
  PROVE  Shown
<1>1. /\ TypeOK /\ Asked(w) /\ pc[w] = "idle" /\ out[w] = <<>>
      /\ mem' = mem /\ before' = before /\ out[w]' = out[w]
      /\ \/ pc[w]' = "idle" /\ req[w]' = req[w]
         \/ pc[w]' = "open" /\ req[w]' = r
  BY DEF IInv, Asked, Call, Goto, locals, TypeOK, Control
<1>2. Alone(w)
  BY <1>1, WorksAlone
<1>3. Writing' <=> Writing
  BY <1>1, <1>2 DEF Writing, Alone, Underway
<1>4. Content' = Content
  BY <1>1, <1>3 DEF Content
<1>5. CASE pc[w]' = "idle"
  BY <1>1, <1>2, <1>4, <1>5, Shows, ShowsThen, Stutters
<1>6. CASE pc[w]' = "open"
  BY <1>1, <1>2, <1>4, <1>6, Shows, ShowsThen, Asks
<1> QED
  BY <1>1, <1>5, <1>6

LEMMA OpenShown ==
  ASSUME IInv, ~broken, ~broken', NEW w \in Workers, Open(w)
  PROVE  Shown
<1>1. /\ TypeOK /\ Held /\ pc[w] = "open" /\ pc[w]' = "reset" /\ req[w]' = req[w]
      /\ mem' = mem /\ before' = mem /\ owners = {}
  BY DEF IInv, Open, Goto, Lock!Acquire, TypeOK, Control
<1>2. Alone(w)
  BY <1>1, WorksAlone
<1>3. \A u \in Workers : pc[u] \notin Underway
  BY <1>1 DEF Held, Session, Underway, DdrCalls
<1>4. Content' = Content
  BY <1>1, <1>3 DEF Content, Writing
<1>5. /\ Status[w] = "asked" /\ Status'[w] = "asked" /\ Wanted'[w] = Wanted[w]
      /\ Answer'[w] = Answer[w]
  BY <1>1, Shows, ShowsThen
<1> QED
  BY <1>2, <1>4, <1>5, Stutters

LEMMA OpenFailsShown ==
  ASSUME IInv, NEW w \in Workers, OpenFails(w)
  PROVE  Shown
<1>1. /\ TypeOK /\ pc[w] = "open" /\ pc[w]' = "idle" /\ req[w]' = NoRequest
      /\ mem' = mem /\ before' = before
  BY DEF IInv, OpenFails, Return, Goto, TypeOK, Control
<1>2. Alone(w)
  BY <1>1, WorksAlone
<1>3. Writing' <=> Writing
  BY <1>1, <1>2 DEF Writing, Alone, Underway
<1>4. Content' = Content
  BY <1>1, <1>3 DEF Content
<1>5. /\ Status[w] = "asked" /\ Status'[w] = "idle" /\ Wanted'[w] = NoRequest
      /\ Answer'[w] = <<>>
  BY <1>1, Shows, ShowsThen
<1> QED
  BY <1>2, <1>4, <1>5, FailsClean

LEMMA CloseShown ==
  ASSUME IInv, ~broken, NEW w \in Workers, Close(w)
  PROVE  Shown
<1>1. /\ TypeOK /\ Held /\ pc[w] \in {"close", "eio"} /\ pc[w]' = "idle"
      /\ req[w]' = NoRequest /\ mem' = mem /\ before' = before
  BY DEF IInv, Close, Return, Goto, TypeOK, Control
<1>2. Alone(w)
  BY <1>1, WorksAlone DEF Own
<1>3. Content' = Content
  BY <1>1, <1>2, ContentIs, ContentThen DEF Session, Underway
<1>4. Status'[w] = "idle" /\ Wanted'[w] = NoRequest /\ Answer'[w] = <<>>
  BY <1>1, ShowsThen
<1>5. CASE pc[w] = "close"
  BY <1>2, <1>3, <1>4, <1>5, Shows, Returns
<1>6. CASE pc[w] = "eio"
  BY <1>2, <1>3, <1>4, <1>6, Shows, Stutters
<1> QED
  BY <1>1, <1>5, <1>6

\* A step that leaves the sessions and the memory shows nothing.
LEMMA Unmoved ==
  ASSUME UNCHANGED <<mem, pc, req, out, before>>
  PROVE  Shown
<1>1. (Writing' <=> Writing) /\ Content' = Content
  BY DEF Writing, Content, Underway
<1>2. Status' = Status
  BY DEF Status
<1>3. Wanted' = Wanted
  BY DEF Wanted
<1>4. Answer' = Answer
  BY DEF Answer
<1> QED
  BY <1>1, <1>2, <1>3, <1>4 DEF Shown, Seen

\* Every step is one of the store, or none, as long as the lock protocol is kept.
LEMMA StepShown ==
  ASSUME IInv, IInv', [Next]_vars, ~broken'
  PROVE  Shown /\ broken' = broken
<1>1. ~broken /\ broken' = broken
  BY BrokenStays DEF IInv, TypeOK, Flags
<1>2. ASSUME NEW w \in Workers, Stray(w) PROVE Shown
  BY <1>2, Unmoved DEF Stray, locals
<1>3. CASE UNCHANGED vars
  BY <1>1, <1>3, Unmoved DEF vars, locals
<1>4. CASE Breach
  BY <1>1, <1>4 DEF Breach, Lock!Break
<1> QED
  BY <1>1, <1>2, <1>3, <1>4, CallShown, OpenShown, OpenFailsShown, ResetShown,
     ReadShown, WriteShown, OtherShown, FailShown, CloseShown DEF Next, Access

\* FicFuse implements ByteStore: whatever the sessions do side by side, fail at or die
\* in, every read and write of /mem that reports its size takes effect at one moment
\* between its call and its return, and one that does not changes no byte but those
\* it was asked to write.  Of the bytes in that place it promises nothing.
THEOREM ImplementsStore == Spec => KeepsStore
<1>1. Init => Store!Init
  <2> SUFFICES ASSUME Init PROVE Store!Init
    OBVIOUS
  <2>1. broken = FALSE /\ Content = [a \in Addresses |-> Original(a)]
    BY DEF Init, Lock!Init, Content, Writing, Underway
  <2>2. /\ Status = [w \in Workers |-> "idle"] /\ Wanted = [w \in Workers |-> NoRequest]
        /\ Answer = [w \in Workers |-> <<>>]
    BY DEF Init, Status, Wanted, Answer
  <2> QED
    BY <2>1, <2>2 DEF Store!Init
<1>2. IInv /\ IInv' /\ [Next]_vars
        => [broken' \/ (broken' = broken /\ Store!Next)]_Store!vars
  BY StepShown DEF Shown, Seen, Store!vars
<1> QED
  BY <1>1, <1>2, FuseInvariant, PTL DEF Spec, KeepsStore, Store!Spec
===============================================================================
