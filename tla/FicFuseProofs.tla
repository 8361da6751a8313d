---------------------------- MODULE FicFuseProofs ----------------------------
(***************************************************************************)
(* Proofs about FicFuse, for every number of workers, calls and bytes.     *)
(*                                                                         *)
(* The invariant IInv says of each session where its request stands (a     *)
(* head at the start, a body and a tail at a word, a block at a word), what *)
(* it has put into the DDR or taken from it so far, that a word it is about *)
(* to write back is what the DDR holds, and that the module is in step     *)
(* behind its reset.  Each named part has a lemma that every step keeps it. *)
(* The parts about the DDR look at the steps of one session only: Elsewhere *)
(* says that, with the lock protocol kept, no other session is going on.   *)
(*                                                                         *)
(* A write that starts inside a word and ends before the end of that word  *)
(* loses its end there (EndsInHead): the parts about its bytes leave it    *)
(* out, the others hold for it too.                                        *)
(***************************************************************************)
EXTENDS FicFuse, SequenceTheorems, TLAPS

\* A request has a kind, a place and a size.
LEMMA RequestType ==
  ASSUME NEW r \in Requests
  PROVE  /\ r.kind \in Kinds /\ r.offset \in Nat /\ r.size \in 0..(SizeMod - 1)
         /\ r.kind \in Direct => /\ r.offset % 4 = 0 /\ r.size % 4 = 0 /\ r.size > 0
                                /\ r.offset + r.size <= MemSize + 1
  BY FuseAssumption

\* The sizes are numbers.
LEMMA ConstantsType ==
  SizeMod \in Nat /\ MemSize \in Nat /\ Turns \in Nat /\ SizeMod >= 4
<1>1. MemSize >= 3
  BY FuseAssumption
<1> QED
  BY <1>1, FuseAssumption

\* The word around an address.
LEMMA Word4 ==
  ASSUME NEW a \in Nat
  PROVE  /\ a % 4 \in 0..3 /\ Base(a) \in Nat /\ Base(a) + (a % 4) = a
         /\ Base(a) % 4 = 0 /\ (a % 4 = 0 => Base(a) = a)
<1>1. a % 4 \in 0..3
  OBVIOUS
<1> QED
  BY <1>1 DEF Base

\* A request that has come to a word goes on with its body as long as it has whole
\* words left, and with its tail if it has less.
LEMMA StageAtWord ==
  ASSUME NEW o \in Nat, NEW n \in Nat, o % 4 = 0
  PROVE  /\ Stage(o, n) \in {"close", "body", "tail"}
         /\ (Stage(o, n) = "close") <=> (n = 0)
         /\ Stage(o, n) = "tail" => n \in 1..3
         /\ Stage(o, n) = "body" => n >= (o + n) % 4
<1> DEFINE m == (o + n) % 4
<1>1. m \in 0..3 /\ (m = 0 => n % 4 = 0)
  OBVIOUS
<1>2. n <= 3 + m /\ m # 0 => n \in 1..3
  <2>1. n % 4 = m
    OBVIOUS
  <2> QED
    BY <1>1, <2>1
<1>3. Stage(o, n) = IF n = 0 THEN "close"
                    ELSE IF m = 0 \/ n > 3 + m THEN "body" ELSE "tail"
  BY DEF Stage
<1> HIDE DEF m
<1>4. /\ Stage(o, n) \in {"close", "body", "tail"}
      /\ (Stage(o, n) = "close") <=> (n = 0)
  BY <1>3
<1>5. Stage(o, n) = "tail" => n \in 1..3
  BY <1>1, <1>2, <1>3
<1>6. Stage(o, n) = "body" => n >= m
  BY <1>1, <1>3
<1> QED
  BY <1>4, <1>5, <1>6 DEF m

\* What comes first in a session.
LEMMA FirstIsCall ==
  ASSUME NEW w \in Workers, req[w] \in Requests
  PROVE  /\ FirstCall(w) \in {"head", "body", "tail", "reg", "block", "debug",
                                 "close"}
         /\ req[w].kind \in File =>
               FirstCall(w) = IF off[w] % 4 # 0 THEN "head"
                              ELSE Stage(off[w], left[w])
         /\ FirstCall(w) = "reg" => req[w].kind \in {"reg_read", "reg_write"}
         /\ FirstCall(w) = "block" => req[w].kind \in Direct
         /\ FirstCall(w) \in {"head", "body", "tail"} => req[w].kind \in File
         /\ FirstCall(w) = "debug" => req[w].kind = "ddr_debug"
<1>1. req[w].kind \in Kinds
  BY RequestType
<1>2. Stage(off[w], left[w]) \in {"close", "body", "tail"}
  BY DEF Stage
<1> QED
  BY <1>1, <1>2 DEF FirstCall, Kinds, Direct, File

\* The steps, the requests and the lock keep their types.
LEMMA ControlStep ==
  ASSUME Control, \A u \in Workers : Asked(u), [Next]_vars
  PROVE  Control'
<1>1. ASSUME NEW w \in Workers, NEW r \in Requests, Call(w, r)
      PROVE  Control'
  BY <1>1, ConstantsType
     DEF Call, Goto, lock, locals, module, Control, DdrCalls
<1>2. ASSUME NEW w \in Workers, Open(w) PROVE Control'
  BY <1>2
     DEF Open, Goto, module, Lock!Acquire, Control, DdrCalls
<1>3. ASSUME NEW w \in Workers, OpenFails(w) PROVE Control'
  BY <1>3
     DEF OpenFails, Return, Goto, lock, Control, DdrCalls
<1>4. ASSUME NEW w \in Workers, Reset(w) PROVE Control'
  BY <1>4, FirstIsCall
     DEF Reset, Goto, lock, locals, Control, DdrCalls, Asked
<1>5. ASSUME NEW w \in Workers, ResetMissed(w) PROVE Control'
  BY <1>5, FirstIsCall
     DEF ResetMissed, Goto, lock, locals, Control, DdrCalls, Asked
<1>6. ASSUME NEW w \in Workers, ReadHead(w) PROVE Control'
  BY <1>6
     DEF ReadHead, At, Move, Goto, lock, module, Control, DdrCalls, Stage
<1>7. ASSUME NEW w \in Workers, ReadBody(w) PROVE Control'
  BY <1>7
     DEF ReadBody, At, Move, Goto, lock, module, Control, DdrCalls
<1>8. ASSUME NEW w \in Workers, ReadTail(w) PROVE Control'
  BY <1>8
     DEF ReadTail, At, Goto, lock, module, Control, DdrCalls
<1>9. ASSUME NEW w \in Workers, LoadWord(w) PROVE Control'
  BY <1>9
     DEF LoadWord, Goto, lock, module, Control, DdrCalls
<1>10. ASSUME NEW w \in Workers, WriteHead(w) PROVE Control'
  BY <1>10
     DEF WriteHead, At, Move, Goto, lock, module, Control, DdrCalls, Stage
<1>11. ASSUME NEW w \in Workers, WriteBody(w) PROVE Control'
  BY <1>11
     DEF WriteBody, At, Move, Goto, lock, module, Control, DdrCalls
<1>12. ASSUME NEW w \in Workers, WriteTail(w) PROVE Control'
  BY <1>12
     DEF WriteTail, At, Goto, lock, module, Control, DdrCalls
<1>13. ASSUME NEW w \in Workers, Reg(w) PROVE Control'
  BY <1>13
     DEF Reg, At, Goto, lock, locals, module, Control, DdrCalls
<1>14. ASSUME NEW w \in Workers, Block(w) PROVE Control'
  BY <1>14
     DEF Block, NextBlock, At, Goto, lock, module, Control, DdrCalls
<1>15. ASSUME NEW w \in Workers, DebugSend(w) PROVE Control'
  BY <1>15
     DEF DebugSend, At, Goto, lock, locals, module, Control, DdrCalls
<1>16. ASSUME NEW w \in Workers, DebugReceive(w) PROVE Control'
  BY <1>16
     DEF DebugReceive, At, Goto, lock, locals, module, Control, DdrCalls
<1>17. ASSUME NEW w \in Workers, Fails(w) PROVE Control'
  BY <1>17
     DEF Fails, CutOff, Goto, lock, locals, Control, DdrCalls
<1>18. ASSUME NEW w \in Workers, BlockFails(w) PROVE Control'
  BY <1>18
     DEF BlockFails, CutOff, NextBlock, Goto, lock, Control, DdrCalls
<1>19. ASSUME NEW w \in Workers, Stray(w) PROVE Control'
  BY <1>19
     DEF Stray, lock, locals, Control, DdrCalls
<1>20. ASSUME NEW w \in Workers, Close(w) PROVE Control'
  BY <1>20
     DEF Close, Return, Goto, Lock!Release, Control, DdrCalls
<1>21. ASSUME NEW w \in Workers, Crash(w) PROVE Control'
  BY <1>21
     DEF Crash, CutOff, Return, Goto, Lock!Release, Control, DdrCalls
<1>22. CASE Breach
  BY <1>22
     DEF Breach, Lock!Break, locals, module, Control, DdrCalls
<1>23. CASE UNCHANGED vars
  BY <1>23
     DEF vars, lock, locals, module, Control, DdrCalls
<1> QED
  BY <1>1, <1>2, <1>3, <1>4, <1>5, <1>6, <1>7, <1>8, <1>9, <1>10, <1>11, <1>12,
     <1>13, <1>14, <1>15, <1>16, <1>17, <1>18, <1>19, <1>20, <1>21, <1>22, <1>23
     DEF Next, Access

\* So do the flags.
LEMMA FlagsStep ==
  ASSUME Flags, [Next]_vars
  PROVE  Flags'
<1>1. ASSUME NEW w \in Workers, NEW r \in Requests, Call(w, r)
      PROVE  Flags'
  BY <1>1
     DEF Call, Goto, lock, locals, module, Flags
<1>2. ASSUME NEW w \in Workers, Open(w) PROVE Flags'
  BY <1>2
     DEF Open, Goto, module, Lock!Acquire, Flags
<1>3. ASSUME NEW w \in Workers, OpenFails(w) PROVE Flags'
  BY <1>3
     DEF OpenFails, Return, Goto, lock, Flags
<1>4. ASSUME NEW w \in Workers, Reset(w) PROVE Flags'
  BY <1>4
     DEF Reset, Goto, lock, locals, Flags
<1>5. ASSUME NEW w \in Workers, ResetMissed(w) PROVE Flags'
  BY <1>5
     DEF ResetMissed, Goto, lock, locals, Flags
<1>6. ASSUME NEW w \in Workers, ReadHead(w) PROVE Flags'
  BY <1>6
     DEF ReadHead, At, Move, Goto, lock, module, Flags
<1>7. ASSUME NEW w \in Workers, ReadBody(w) PROVE Flags'
  BY <1>7
     DEF ReadBody, At, Move, Goto, lock, module, Flags
<1>8. ASSUME NEW w \in Workers, ReadTail(w) PROVE Flags'
  BY <1>8
     DEF ReadTail, At, Goto, lock, module, Flags
<1>9. ASSUME NEW w \in Workers, LoadWord(w) PROVE Flags'
  BY <1>9
     DEF LoadWord, Goto, lock, module, Flags
<1>10. ASSUME NEW w \in Workers, WriteHead(w) PROVE Flags'
  BY <1>10
     DEF WriteHead, At, Move, Goto, lock, module, Flags
<1>11. ASSUME NEW w \in Workers, WriteBody(w) PROVE Flags'
  BY <1>11
     DEF WriteBody, At, Move, Goto, lock, module, Flags
<1>12. ASSUME NEW w \in Workers, WriteTail(w) PROVE Flags'
  BY <1>12
     DEF WriteTail, At, Goto, lock, module, Flags
<1>13. ASSUME NEW w \in Workers, Reg(w) PROVE Flags'
  BY <1>13
     DEF Reg, At, Goto, lock, locals, module, Flags
<1>14. ASSUME NEW w \in Workers, Block(w) PROVE Flags'
  BY <1>14
     DEF Block, NextBlock, At, Goto, lock, module, Flags
<1>15. ASSUME NEW w \in Workers, DebugSend(w) PROVE Flags'
  BY <1>15
     DEF DebugSend, At, Goto, lock, locals, module, Flags
<1>16. ASSUME NEW w \in Workers, DebugReceive(w) PROVE Flags'
  BY <1>16
     DEF DebugReceive, At, Goto, lock, locals, module, Flags
<1>17. ASSUME NEW w \in Workers, Fails(w) PROVE Flags'
  BY <1>17
     DEF Fails, CutOff, Goto, lock, locals, Flags
<1>18. ASSUME NEW w \in Workers, BlockFails(w) PROVE Flags'
  BY <1>18
     DEF BlockFails, CutOff, NextBlock, Goto, lock, Flags
<1>19. ASSUME NEW w \in Workers, Stray(w) PROVE Flags'
  BY <1>19
     DEF Stray, lock, locals, Flags
<1>20. ASSUME NEW w \in Workers, Close(w) PROVE Flags'
  BY <1>20
     DEF Close, Return, Goto, Lock!Release, Flags
<1>21. ASSUME NEW w \in Workers, Crash(w) PROVE Flags'
  BY <1>21
     DEF Crash, CutOff, Return, Goto, Lock!Release, Flags
<1>22. CASE Breach
  BY <1>22
     DEF Breach, Lock!Break, locals, module, Flags
<1>23. CASE UNCHANGED vars
  BY <1>23
     DEF vars, lock, locals, module, Flags
<1> QED
  BY <1>1, <1>2, <1>3, <1>4, <1>5, <1>6, <1>7, <1>8, <1>9, <1>10, <1>11, <1>12,
     <1>13, <1>14, <1>15, <1>16, <1>17, <1>18, <1>19, <1>20, <1>21, <1>22, <1>23
     DEF Next, Access

\* A session begins with the lock and ends with it.
LEMMA HeldStep ==
  ASSUME Control, \A u \in Workers : Asked(u), Held, [Next]_vars
  PROVE  Held'
<1>1. ASSUME NEW w \in Workers, NEW r \in Requests, Call(w, r)
      PROVE  Held'
  BY <1>1
     DEF Call, Goto, lock, locals, module, Control, Held, Session, DdrCalls
<1>2. ASSUME NEW w \in Workers, Open(w) PROVE Held'
  BY <1>2
     DEF Open, Goto, module, Lock!Acquire, Control, Held, Session, DdrCalls
<1>3. ASSUME NEW w \in Workers, OpenFails(w) PROVE Held'
  BY <1>3
     DEF OpenFails, Return, Goto, lock, Control, Held, Session, DdrCalls
<1>4. ASSUME NEW w \in Workers, Reset(w) PROVE Held'
  BY <1>4, FirstIsCall
     DEF Reset, Goto, lock, locals, Control, Held, Session, DdrCalls, Asked
<1>5. ASSUME NEW w \in Workers, ResetMissed(w) PROVE Held'
  BY <1>5, FirstIsCall
     DEF ResetMissed, Goto, lock, locals, Control, Held, Session, DdrCalls,
         Asked
<1>6. ASSUME NEW w \in Workers, ReadHead(w) PROVE Held'
  BY <1>6
     DEF ReadHead, At, Move, Goto, lock, module, Control, Held, Session,
         DdrCalls, Stage
<1>7. ASSUME NEW w \in Workers, ReadBody(w) PROVE Held'
  BY <1>7
     DEF ReadBody, At, Move, Goto, lock, module, Control, Held, Session,
         DdrCalls
<1>8. ASSUME NEW w \in Workers, ReadTail(w) PROVE Held'
  BY <1>8
     DEF ReadTail, At, Goto, lock, module, Control, Held, Session, DdrCalls
<1>9. ASSUME NEW w \in Workers, LoadWord(w) PROVE Held'
  BY <1>9
     DEF LoadWord, Goto, lock, module, Control, Held, Session, DdrCalls
<1>10. ASSUME NEW w \in Workers, WriteHead(w) PROVE Held'
  BY <1>10
     DEF WriteHead, At, Move, Goto, lock, module, Control, Held, Session,
         DdrCalls, Stage
<1>11. ASSUME NEW w \in Workers, WriteBody(w) PROVE Held'
  BY <1>11
     DEF WriteBody, At, Move, Goto, lock, module, Control, Held, Session,
         DdrCalls
<1>12. ASSUME NEW w \in Workers, WriteTail(w) PROVE Held'
  BY <1>12
     DEF WriteTail, At, Goto, lock, module, Control, Held, Session, DdrCalls
<1>13. ASSUME NEW w \in Workers, Reg(w) PROVE Held'
  BY <1>13
     DEF Reg, At, Goto, lock, locals, module, Control, Held, Session, DdrCalls
<1>14. ASSUME NEW w \in Workers, Block(w) PROVE Held'
  BY <1>14
     DEF Block, NextBlock, At, Goto, lock, module, Control, Held, Session,
         DdrCalls
<1>15. ASSUME NEW w \in Workers, DebugSend(w) PROVE Held'
  BY <1>15
     DEF DebugSend, At, Goto, lock, locals, module, Control, Held, Session,
         DdrCalls
<1>16. ASSUME NEW w \in Workers, DebugReceive(w) PROVE Held'
  BY <1>16
     DEF DebugReceive, At, Goto, lock, locals, module, Control, Held, Session,
         DdrCalls
<1>17. ASSUME NEW w \in Workers, Fails(w) PROVE Held'
  BY <1>17
     DEF Fails, CutOff, Goto, lock, locals, Control, Held, Session, DdrCalls
<1>18. ASSUME NEW w \in Workers, BlockFails(w) PROVE Held'
  BY <1>18
     DEF BlockFails, CutOff, NextBlock, Goto, lock, Control, Held, Session,
         DdrCalls
<1>19. ASSUME NEW w \in Workers, Stray(w) PROVE Held'
  BY <1>19
     DEF Stray, lock, locals, Control, Held, Session, DdrCalls
<1>20. ASSUME NEW w \in Workers, Close(w) PROVE Held'
  BY <1>20
     DEF Close, Return, Goto, Lock!Release, Control, Held, Session, DdrCalls
<1>21. ASSUME NEW w \in Workers, Crash(w) PROVE Held'
  BY <1>21
     DEF Crash, CutOff, Return, Goto, Lock!Release, Control, Held, Session,
         DdrCalls
<1>22. CASE Breach
  BY <1>22
     DEF Breach, Lock!Break, locals, module, Control, Held, Session, DdrCalls
<1>23. CASE UNCHANGED vars
  BY <1>23
     DEF vars, lock, locals, module, Control, Held, Session, DdrCalls
<1> QED
  BY <1>1, <1>2, <1>3, <1>4, <1>5, <1>6, <1>7, <1>8, <1>9, <1>10, <1>11, <1>12,
     <1>13, <1>14, <1>15, <1>16, <1>17, <1>18, <1>19, <1>20, <1>21, <1>22, <1>23
     DEF Next, Access

\* A request is what it was asked for until its end.
LEMMA AskedStep ==
  ASSUME Control, \A u \in Workers : Asked(u), Locals, Contents, [Next]_vars
  PROVE  \A v \in Workers : Asked(v)'
<1> SUFFICES ASSUME NEW v \in Workers PROVE Asked(v)'
  OBVIOUS
<1>1. ASSUME NEW w \in Workers, NEW r \in Requests, Call(w, r)
      PROVE  Asked(v)'
  BY <1>1
     DEF Call, Goto, lock, locals, module, Control, Asked, Locals, Contents,
         DdrCalls, File, Direct, Kinds
<1>2. ASSUME NEW w \in Workers, Open(w) PROVE Asked(v)'
  BY <1>2
     DEF Open, Goto, module, Lock!Acquire, Control, Asked, Locals, Contents,
         DdrCalls, File, Direct, Kinds
<1>3. ASSUME NEW w \in Workers, OpenFails(w) PROVE Asked(v)'
  BY <1>3
     DEF OpenFails, Return, Goto, lock, Control, Asked, Locals, Contents,
         DdrCalls, File, Direct, Kinds
<1>4. ASSUME NEW w \in Workers, Reset(w) PROVE Asked(v)'
  BY <1>4, FirstIsCall
     DEF Reset, Goto, lock, locals, Control, Asked, Locals, Contents, DdrCalls,
         File, Direct, Kinds
<1>5. ASSUME NEW w \in Workers, ResetMissed(w) PROVE Asked(v)'
  BY <1>5, FirstIsCall
     DEF ResetMissed, Goto, lock, locals, Control, Asked, Locals, Contents,
         DdrCalls, File, Direct, Kinds
<1>6. ASSUME NEW w \in Workers, ReadHead(w) PROVE Asked(v)'
  BY <1>6
     DEF ReadHead, At, Move, Goto, lock, module, Control, Asked, Locals,
         Contents, DdrCalls, File, Direct, Kinds, Stage
<1>7. ASSUME NEW w \in Workers, ReadBody(w) PROVE Asked(v)'
  BY <1>7
     DEF ReadBody, At, Move, Goto, lock, module, Control, Asked, Locals,
         Contents, DdrCalls, File, Direct, Kinds
<1>8. ASSUME NEW w \in Workers, ReadTail(w) PROVE Asked(v)'
  BY <1>8
     DEF ReadTail, At, Goto, lock, module, Control, Asked, Locals, Contents,
         DdrCalls, File, Direct, Kinds
<1>9. ASSUME NEW w \in Workers, LoadWord(w) PROVE Asked(v)'
  BY <1>9
     DEF LoadWord, Goto, lock, module, Control, Asked, Locals, Contents,
         DdrCalls, File, Direct, Kinds
<1>10. ASSUME NEW w \in Workers, WriteHead(w) PROVE Asked(v)'
  BY <1>10
     DEF WriteHead, At, Move, Goto, lock, module, Control, Asked, Locals,
         Contents, DdrCalls, File, Direct, Kinds, Stage
<1>11. ASSUME NEW w \in Workers, WriteBody(w) PROVE Asked(v)'
  BY <1>11
     DEF WriteBody, At, Move, Goto, lock, module, Control, Asked, Locals,
         Contents, DdrCalls, File, Direct, Kinds
<1>12. ASSUME NEW w \in Workers, WriteTail(w) PROVE Asked(v)'
  BY <1>12
     DEF WriteTail, At, Goto, lock, module, Control, Asked, Locals, Contents,
         DdrCalls, File, Direct, Kinds
<1>13. ASSUME NEW w \in Workers, Reg(w) PROVE Asked(v)'
  BY <1>13
     DEF Reg, At, Goto, lock, locals, module, Control, Asked, Locals, Contents,
         DdrCalls, File, Direct, Kinds
<1>14. ASSUME NEW w \in Workers, Block(w) PROVE Asked(v)'
  BY <1>14
     DEF Block, NextBlock, At, Goto, lock, module, Control, Asked, Locals,
         Contents, DdrCalls, File, Direct, Kinds
<1>15. ASSUME NEW w \in Workers, DebugSend(w) PROVE Asked(v)'
  BY <1>15
     DEF DebugSend, At, Goto, lock, locals, module, Control, Asked, Locals,
         Contents, DdrCalls, File, Direct, Kinds
<1>16. ASSUME NEW w \in Workers, DebugReceive(w) PROVE Asked(v)'
  BY <1>16
     DEF DebugReceive, At, Goto, lock, locals, module, Control, Asked, Locals,
         Contents, DdrCalls, File, Direct, Kinds
<1>17. ASSUME NEW w \in Workers, Fails(w) PROVE Asked(v)'
  BY <1>17
     DEF Fails, CutOff, Goto, lock, locals, Control, Asked, Locals, Contents,
         DdrCalls, File, Direct, Kinds
<1>18. ASSUME NEW w \in Workers, BlockFails(w) PROVE Asked(v)'
  BY <1>18
     DEF BlockFails, CutOff, NextBlock, Goto, lock, Control, Asked, Locals,
         Contents, DdrCalls, File, Direct, Kinds
<1>19. ASSUME NEW w \in Workers, Stray(w) PROVE Asked(v)'
  BY <1>19
     DEF Stray, lock, locals, Control, Asked, Locals, Contents, DdrCalls, File,
         Direct, Kinds
<1>20. ASSUME NEW w \in Workers, Close(w) PROVE Asked(v)'
  BY <1>20
     DEF Close, Return, Goto, Lock!Release, Control, Asked, Locals, Contents,
         DdrCalls, File, Direct, Kinds
<1>21. ASSUME NEW w \in Workers, Crash(w) PROVE Asked(v)'
  BY <1>21
     DEF Crash, CutOff, Return, Goto, Lock!Release, Control, Asked, Locals,
         Contents, DdrCalls, File, Direct, Kinds
<1>22. CASE Breach
  BY <1>22
     DEF Breach, Lock!Break, locals, module, Control, Asked, Locals, Contents,
         DdrCalls, File, Direct, Kinds
<1>23. CASE UNCHANGED vars
  BY <1>23
     DEF vars, lock, locals, module, Control, Asked, Locals, Contents, DdrCalls,
         File, Direct, Kinds
<1> QED
  BY <1>1, <1>2, <1>3, <1>4, <1>5, <1>6, <1>7, <1>8, <1>9, <1>10, <1>11, <1>12,
     <1>13, <1>14, <1>15, <1>16, <1>17, <1>18, <1>19, <1>20, <1>21, <1>22, <1>23
     DEF Next, Access

\* An access that fails ends its session, and another session begins with a
\* reset.
LEMMA SteppedStep ==
  ASSUME Control, \A u \in Workers : Asked(u), Held, Flags,
         \A u \in Workers : SteppedIn(u),
         [Next]_vars
  PROVE  \A v \in Workers : SteppedIn(v)'
<1> SUFFICES ASSUME NEW v \in Workers PROVE SteppedIn(v)'
  OBVIOUS
<1>1. ASSUME NEW w \in Workers, NEW r \in Requests, Call(w, r)
      PROVE  SteppedIn(v)'
  BY <1>1
     DEF Call, Goto, lock, locals, module, Control, Asked, Held, Flags, Session,
         SteppedIn, DdrCalls
<1>2. ASSUME NEW w \in Workers, Open(w) PROVE SteppedIn(v)'
  BY <1>2
     DEF Open, Goto, module, Lock!Acquire, Control, Asked, Held, Flags, Session,
         SteppedIn, DdrCalls
<1>3. ASSUME NEW w \in Workers, OpenFails(w) PROVE SteppedIn(v)'
  BY <1>3
     DEF OpenFails, Return, Goto, lock, Control, Asked, Held, Flags, Session,
         SteppedIn, DdrCalls
<1>4. ASSUME NEW w \in Workers, Reset(w) PROVE SteppedIn(v)'
  BY <1>4, FirstIsCall
     DEF Reset, Goto, lock, locals, Control, Asked, Held, Flags, Session,
         SteppedIn, DdrCalls
<1>5. ASSUME NEW w \in Workers, ResetMissed(w) PROVE SteppedIn(v)'
  BY <1>5, FirstIsCall
     DEF ResetMissed, Goto, lock, locals, Control, Asked, Held, Flags, Session,
         SteppedIn, DdrCalls
<1>6. ASSUME NEW w \in Workers, ReadHead(w) PROVE SteppedIn(v)'
  BY <1>6
     DEF ReadHead, At, Move, Goto, lock, module, Control, Asked, Held, Flags,
         Session, SteppedIn, DdrCalls, Stage
<1>7. ASSUME NEW w \in Workers, ReadBody(w) PROVE SteppedIn(v)'
  BY <1>7
     DEF ReadBody, At, Move, Goto, lock, module, Control, Asked, Held, Flags,
         Session, SteppedIn, DdrCalls
<1>8. ASSUME NEW w \in Workers, ReadTail(w) PROVE SteppedIn(v)'
  BY <1>8
     DEF ReadTail, At, Goto, lock, module, Control, Asked, Held, Flags, Session,
         SteppedIn, DdrCalls
<1>9. ASSUME NEW w \in Workers, LoadWord(w) PROVE SteppedIn(v)'
  BY <1>9
     DEF LoadWord, Goto, lock, module, Control, Asked, Held, Flags, Session,
         SteppedIn, DdrCalls
<1>10. ASSUME NEW w \in Workers, WriteHead(w) PROVE SteppedIn(v)'
  BY <1>10
     DEF WriteHead, At, Move, Goto, lock, module, Control, Asked, Held, Flags,
         Session, SteppedIn, DdrCalls, Stage
<1>11. ASSUME NEW w \in Workers, WriteBody(w) PROVE SteppedIn(v)'
  BY <1>11
     DEF WriteBody, At, Move, Goto, lock, module, Control, Asked, Held, Flags,
         Session, SteppedIn, DdrCalls
<1>12. ASSUME NEW w \in Workers, WriteTail(w) PROVE SteppedIn(v)'
  BY <1>12
     DEF WriteTail, At, Goto, lock, module, Control, Asked, Held, Flags,
         Session, SteppedIn, DdrCalls
<1>13. ASSUME NEW w \in Workers, Reg(w) PROVE SteppedIn(v)'
  BY <1>13
     DEF Reg, At, Goto, lock, locals, module, Control, Asked, Held, Flags,
         Session, SteppedIn, DdrCalls
<1>14. ASSUME NEW w \in Workers, Block(w) PROVE SteppedIn(v)'
  BY <1>14
     DEF Block, NextBlock, At, Goto, lock, module, Control, Asked, Held, Flags,
         Session, SteppedIn, DdrCalls
<1>15. ASSUME NEW w \in Workers, DebugSend(w) PROVE SteppedIn(v)'
  BY <1>15
     DEF DebugSend, At, Goto, lock, locals, module, Control, Asked, Held, Flags,
         Session, SteppedIn, DdrCalls
<1>16. ASSUME NEW w \in Workers, DebugReceive(w) PROVE SteppedIn(v)'
  BY <1>16
     DEF DebugReceive, At, Goto, lock, locals, module, Control, Asked, Held,
         Flags, Session, SteppedIn, DdrCalls
<1>17. ASSUME NEW w \in Workers, Fails(w) PROVE SteppedIn(v)'
  BY <1>17
     DEF Fails, CutOff, Goto, lock, locals, Control, Asked, Held, Flags,
         Session, SteppedIn, DdrCalls
<1>18. ASSUME NEW w \in Workers, BlockFails(w) PROVE SteppedIn(v)'
  BY <1>18
     DEF BlockFails, CutOff, NextBlock, Goto, lock, Control, Asked, Held, Flags,
         Session, SteppedIn, DdrCalls
<1>19. ASSUME NEW w \in Workers, Stray(w) PROVE SteppedIn(v)'
  BY <1>19
     DEF Stray, lock, locals, Control, Asked, Held, Flags, Session, SteppedIn,
         DdrCalls
<1>20. ASSUME NEW w \in Workers, Close(w) PROVE SteppedIn(v)'
  BY <1>20
     DEF Close, Return, Goto, Lock!Release, Control, Asked, Held, Flags,
         Session, SteppedIn, DdrCalls
<1>21. ASSUME NEW w \in Workers, Crash(w) PROVE SteppedIn(v)'
  BY <1>21
     DEF Crash, CutOff, Return, Goto, Lock!Release, Control, Asked, Held, Flags,
         Session, SteppedIn, DdrCalls
<1>22. CASE Breach
  BY <1>22
     DEF Breach, Lock!Break, locals, module, Control, Asked, Held, Flags,
         Session, SteppedIn, DdrCalls
<1>23. CASE UNCHANGED vars
  BY <1>23
     DEF vars, lock, locals, module, Control, Asked, Held, Flags, Session,
         SteppedIn, DdrCalls
<1> QED
  BY <1>1, <1>2, <1>3, <1>4, <1>5, <1>6, <1>7, <1>8, <1>9, <1>10, <1>11, <1>12,
     <1>13, <1>14, <1>15, <1>16, <1>17, <1>18, <1>19, <1>20, <1>21, <1>22, <1>23
     DEF Next, Access

\* So only a caller without one meets a module that is out of step.
LEMMA InStepStep ==
  ASSUME Control, Held, Flags, InStep, \A u \in Workers : SteppedIn(u),
         [Next]_vars
  PROVE  InStep'
<1>1. ASSUME NEW w \in Workers, NEW r \in Requests, ~astray, Call(w, r)
      PROVE  InStep'
  BY <1>1
     DEF Call, Goto, lock, locals, module, Control, Held, Flags, Session,
         SteppedIn, InStep, DdrCalls
<1>2. ASSUME NEW w \in Workers, ~astray, Open(w) PROVE InStep'
  BY <1>2
     DEF Open, Goto, module, Lock!Acquire, Control, Held, Flags, Session,
         SteppedIn, InStep, DdrCalls
<1>3. ASSUME NEW w \in Workers, ~astray, OpenFails(w) PROVE InStep'
  BY <1>3
     DEF OpenFails, Return, Goto, lock, Control, Held, Flags, Session,
         SteppedIn, InStep, DdrCalls
<1>4. ASSUME NEW w \in Workers, ~astray, Reset(w) PROVE InStep'
  BY <1>4
     DEF Reset, Goto, lock, locals, Control, Held, Flags, Session, SteppedIn,
         InStep, DdrCalls
<1>5. ASSUME NEW w \in Workers, ~astray, ResetMissed(w) PROVE InStep'
  BY <1>5
     DEF ResetMissed, Goto, lock, locals, Control, Held, Flags, Session,
         SteppedIn, InStep, DdrCalls
<1>6. ASSUME NEW w \in Workers, ~astray, ReadHead(w) PROVE InStep'
  BY <1>6
     DEF ReadHead, At, Move, Goto, lock, module, Control, Held, Flags, Session,
         SteppedIn, InStep, DdrCalls
<1>7. ASSUME NEW w \in Workers, ~astray, ReadBody(w) PROVE InStep'
  BY <1>7
     DEF ReadBody, At, Move, Goto, lock, module, Control, Held, Flags, Session,
         SteppedIn, InStep, DdrCalls
<1>8. ASSUME NEW w \in Workers, ~astray, ReadTail(w) PROVE InStep'
  BY <1>8
     DEF ReadTail, At, Goto, lock, module, Control, Held, Flags, Session,
         SteppedIn, InStep, DdrCalls
<1>9. ASSUME NEW w \in Workers, ~astray, LoadWord(w) PROVE InStep'
  BY <1>9
     DEF LoadWord, Goto, lock, module, Control, Held, Flags, Session, SteppedIn,
         InStep, DdrCalls
<1>10. ASSUME NEW w \in Workers, ~astray, WriteHead(w) PROVE InStep'
  BY <1>10
     DEF WriteHead, At, Move, Goto, lock, module, Control, Held, Flags, Session,
         SteppedIn, InStep, DdrCalls
<1>11. ASSUME NEW w \in Workers, ~astray, WriteBody(w) PROVE InStep'
  BY <1>11
     DEF WriteBody, At, Move, Goto, lock, module, Control, Held, Flags, Session,
         SteppedIn, InStep, DdrCalls
<1>12. ASSUME NEW w \in Workers, ~astray, WriteTail(w) PROVE InStep'
  BY <1>12
     DEF WriteTail, At, Goto, lock, module, Control, Held, Flags, Session,
         SteppedIn, InStep, DdrCalls
<1>13. ASSUME NEW w \in Workers, ~astray, Reg(w) PROVE InStep'
  BY <1>13
     DEF Reg, At, Goto, lock, locals, module, Control, Held, Flags, Session,
         SteppedIn, InStep, DdrCalls
<1>14. ASSUME NEW w \in Workers, ~astray, Block(w) PROVE InStep'
  BY <1>14
     DEF Block, NextBlock, At, Goto, lock, module, Control, Held, Flags,
         Session, SteppedIn, InStep, DdrCalls
<1>15. ASSUME NEW w \in Workers, ~astray, DebugSend(w) PROVE InStep'
  BY <1>15
     DEF DebugSend, At, Goto, lock, locals, module, Control, Held, Flags,
         Session, SteppedIn, InStep, DdrCalls
<1>16. ASSUME NEW w \in Workers, ~astray, DebugReceive(w) PROVE InStep'
  BY <1>16
     DEF DebugReceive, At, Goto, lock, locals, module, Control, Held, Flags,
         Session, SteppedIn, InStep, DdrCalls
<1>17. ASSUME NEW w \in Workers, ~astray, Fails(w) PROVE InStep'
  BY <1>17
     DEF Fails, CutOff, Goto, lock, locals, Control, Held, Flags, Session,
         SteppedIn, InStep, DdrCalls
<1>18. ASSUME NEW w \in Workers, ~astray, BlockFails(w) PROVE InStep'
  BY <1>18
     DEF BlockFails, CutOff, NextBlock, Goto, lock, Control, Held, Flags,
         Session, SteppedIn, InStep, DdrCalls
<1>19. ASSUME NEW w \in Workers, ~astray, Stray(w) PROVE InStep'
  BY <1>19
     DEF Stray, lock, locals, Control, Held, Flags, Session, SteppedIn, InStep,
         DdrCalls
<1>20. ASSUME NEW w \in Workers, ~astray, Close(w) PROVE InStep'
  BY <1>20
     DEF Close, Return, Goto, Lock!Release, Control, Held, Flags, Session,
         SteppedIn, InStep, DdrCalls
<1>21. ASSUME NEW w \in Workers, ~astray, Crash(w) PROVE InStep'
  BY <1>21
     DEF Crash, CutOff, Return, Goto, Lock!Release, Control, Held, Flags,
         Session, SteppedIn, InStep, DdrCalls
<1>22. ASSUME ~astray, Breach PROVE InStep'
  BY <1>22
     DEF Breach, Lock!Break, locals, module, Control, Held, Flags, Session,
         SteppedIn, InStep, DdrCalls
<1>23. CASE UNCHANGED vars
  BY <1>23
     DEF vars, lock, locals, module, Control, Held, Flags, Session, SteppedIn,
         InStep, DdrCalls
<1> QED
  BY <1>1, <1>2, <1>3, <1>4, <1>5, <1>6, <1>7, <1>8, <1>9, <1>10, <1>11, <1>12,
     <1>13, <1>14, <1>15, <1>16, <1>17, <1>18, <1>19, <1>20, <1>21, <1>22, <1>23
     DEF Next, Access

\* The places keep their types.
LEMMA LocalsStep ==
  ASSUME Control, Locals,
         \A u \in Workers : Asked(u) /\ FilePlace(u) /\ BlockPlace(u), [Next]_vars
  PROVE  Locals'
<1>1. ASSUME NEW w \in Workers, NEW r \in Requests, Call(w, r)
      PROVE  Locals'
  BY <1>1
     DEF Call, Goto, lock, locals, module, Locals
<1>2. ASSUME NEW w \in Workers, Open(w) PROVE Locals'
  BY <1>2, RequestType
     DEF Open, Goto, module, Lock!Acquire, Locals, Asked
<1>3. ASSUME NEW w \in Workers, OpenFails(w) PROVE Locals'
  BY <1>3, ConstantsType
     DEF OpenFails, Return, Goto, lock, Locals
<1>4. ASSUME NEW w \in Workers, Reset(w) PROVE Locals'
  BY <1>4
     DEF Reset, Goto, lock, locals, Locals
<1>5. ASSUME NEW w \in Workers, ResetMissed(w) PROVE Locals'
  BY <1>5
     DEF ResetMissed, Goto, lock, locals, Locals
<1>6. ASSUME NEW w \in Workers, ReadHead(w) PROVE Locals'
  <2> DEFINE n == IF 4 - (off[w] % 4) > left[w] THEN left[w] ELSE 4 - (off[w] % 4)
             rest == left[w] - n
  <2>1. /\ off[w] \in Nat /\ left[w] \in 0..(SizeMod - 1) /\ left[w] \in Nat
        /\ pos[w] \in Nat
    BY ConstantsType DEF Locals
  <2>2. n \in Nat /\ rest \in 0..(SizeMod - 1)
    <3> DEFINE m == off[w] % 4
    <3>1. m \in 0..3
      BY <2>1
    <3> HIDE DEF m
    <3> QED
      BY <2>1, <3>1, ConstantsType DEF m
  <2>3. /\ off' = [off EXCEPT ![w] = @ + n] /\ pos' = [pos EXCEPT ![w] = @ + n]
        /\ left' = [left EXCEPT ![w] = rest]
    BY <1>6 DEF ReadHead, Move
  <2> HIDE DEF n, rest
  <2> QED
    BY <2>1, <2>2, <2>3 DEF Locals
<1>7. ASSUME NEW w \in Workers, ReadBody(w) PROVE Locals'
  <2> DEFINE n == left[w] - ((off[w] + left[w]) % 4)
             rest == (off[w] + left[w]) % 4
  <2>1. /\ off[w] \in Nat /\ left[w] \in 0..(SizeMod - 1) /\ left[w] \in Nat
        /\ pos[w] \in Nat
    BY ConstantsType DEF Locals
  <2>2. n \in Nat /\ rest \in 0..(SizeMod - 1)
    <3>1. left[w] >= (off[w] + left[w]) % 4
      BY <1>7 DEF ReadBody, At, FilePlace
    <3>2. off[w] + left[w] \in Nat
      BY <2>1
    <3>3. (off[w] + left[w]) % 4 \in 0..3
      BY <3>2
    <3> QED
      BY <2>1, <3>1, <3>3, ConstantsType
  <2>3. /\ off' = [off EXCEPT ![w] = @ + n] /\ pos' = [pos EXCEPT ![w] = @ + n]
        /\ left' = [left EXCEPT ![w] = rest]
    BY <1>7 DEF ReadBody, Move
  <2> HIDE DEF n, rest
  <2> QED
    BY <2>1, <2>2, <2>3 DEF Locals
<1>8. ASSUME NEW w \in Workers, ReadTail(w) PROVE Locals'
  BY <1>8
     DEF ReadTail, At, Goto, lock, module, Locals
<1>9. ASSUME NEW w \in Workers, LoadWord(w) PROVE Locals'
  BY <1>9
     DEF LoadWord, Goto, lock, module, Locals
<1>10. ASSUME NEW w \in Workers, WriteHead(w) PROVE Locals'
  <2> DEFINE n == 4 - (off[w] % 4)
             rest == IF n <= left[w] THEN left[w] - n ELSE left[w] + SizeMod - n
  <2>1. /\ off[w] \in Nat /\ left[w] \in 0..(SizeMod - 1) /\ left[w] \in Nat
        /\ pos[w] \in Nat
    BY ConstantsType DEF Locals
  <2>2. n \in Nat /\ rest \in 0..(SizeMod - 1)
    <3> DEFINE m == off[w] % 4
    <3>1. m \in 0..3
      BY <2>1
    <3>2. n \in 0..4
      BY <3>1
    <3>3. SizeMod \in Nat /\ SizeMod >= 4
      BY ConstantsType
    <3> HIDE DEF n
    <3>4. CASE n <= left[w]
      BY <2>1, <3>2, <3>3, <3>4
    <3>5. CASE ~(n <= left[w])
      BY <2>1, <3>2, <3>3, <3>5
    <3> QED
      BY <3>2, <3>4, <3>5
  <2>3. /\ off' = [off EXCEPT ![w] = @ + n] /\ pos' = [pos EXCEPT ![w] = @ + n]
        /\ left' = [left EXCEPT ![w] = rest]
    BY <1>10 DEF WriteHead, Move
  <2> HIDE DEF n, rest
  <2> QED
    BY <2>1, <2>2, <2>3 DEF Locals
<1>11. ASSUME NEW w \in Workers, WriteBody(w) PROVE Locals'
  <2> DEFINE n == left[w] - ((off[w] + left[w]) % 4)
             rest == (off[w] + left[w]) % 4
  <2>1. /\ off[w] \in Nat /\ left[w] \in 0..(SizeMod - 1) /\ left[w] \in Nat
        /\ pos[w] \in Nat
    BY ConstantsType DEF Locals
  <2>2. n \in Nat /\ rest \in 0..(SizeMod - 1)
    <3>1. left[w] >= (off[w] + left[w]) % 4
      BY <1>11 DEF WriteBody, At, FilePlace
    <3>2. off[w] + left[w] \in Nat
      BY <2>1
    <3>3. (off[w] + left[w]) % 4 \in 0..3
      BY <3>2
    <3> QED
      BY <2>1, <3>1, <3>3, ConstantsType
  <2>3. /\ off' = [off EXCEPT ![w] = @ + n] /\ pos' = [pos EXCEPT ![w] = @ + n]
        /\ left' = [left EXCEPT ![w] = rest]
    BY <1>11 DEF WriteBody, Move
  <2> HIDE DEF n, rest
  <2> QED
    BY <2>1, <2>2, <2>3 DEF Locals
<1>12. ASSUME NEW w \in Workers, WriteTail(w) PROVE Locals'
  BY <1>12
     DEF WriteTail, At, Goto, lock, module, Locals
<1>13. ASSUME NEW w \in Workers, Reg(w) PROVE Locals'
  BY <1>13
     DEF Reg, At, Goto, lock, locals, module, Locals
<1>14. ASSUME NEW w \in Workers, Block(w) PROVE Locals'
  <2>1. /\ off[w] \in Nat /\ left[w] \in 0..(SizeMod - 1) /\ left[w] \in Nat
    BY ConstantsType DEF Locals
  <2>2. left[w] - 4 \in 0..(SizeMod - 1)
    <3>1. left[w] % 4 = 0 /\ left[w] > 0
      BY <1>14 DEF Block, At, Asked, BlockPlace
    <3> QED
      BY <2>1, <3>1, ConstantsType
  <2> QED
    BY <1>14, <2>1, <2>2 DEF Block, NextBlock, Locals
<1>15. ASSUME NEW w \in Workers, DebugSend(w) PROVE Locals'
  BY <1>15
     DEF DebugSend, At, Goto, lock, locals, module, Locals
<1>16. ASSUME NEW w \in Workers, DebugReceive(w) PROVE Locals'
  BY <1>16
     DEF DebugReceive, At, Goto, lock, locals, module, Locals
<1>17. ASSUME NEW w \in Workers, Fails(w) PROVE Locals'
  BY <1>17
     DEF Fails, CutOff, Goto, lock, locals, Locals
<1>18. ASSUME NEW w \in Workers, BlockFails(w) PROVE Locals'
  <2>1. /\ off[w] \in Nat /\ left[w] \in 0..(SizeMod - 1) /\ left[w] \in Nat
    BY ConstantsType DEF Locals
  <2>2. left[w] - 4 \in 0..(SizeMod - 1)
    <3>1. left[w] % 4 = 0 /\ left[w] > 0
      BY <1>18 DEF BlockFails, Asked, BlockPlace
    <3> QED
      BY <2>1, <3>1, ConstantsType
  <2> QED
    BY <1>18, <2>1, <2>2 DEF BlockFails, NextBlock, Locals
<1>19. ASSUME NEW w \in Workers, Stray(w) PROVE Locals'
  BY <1>19
     DEF Stray, lock, locals, Locals
<1>20. ASSUME NEW w \in Workers, Close(w) PROVE Locals'
  BY <1>20, ConstantsType
     DEF Close, Return, Goto, Lock!Release, Locals
<1>21. ASSUME NEW w \in Workers, Crash(w) PROVE Locals'
  BY <1>21, ConstantsType
     DEF Crash, CutOff, Return, Goto, Lock!Release, Locals
<1>22. CASE Breach
  BY <1>22
     DEF Breach, Lock!Break, locals, module, Locals
<1>23. CASE UNCHANGED vars
  BY <1>23
     DEF vars, lock, locals, module, Locals
<1> QED
  BY <1>1, <1>2, <1>3, <1>4, <1>5, <1>6, <1>7, <1>8, <1>9, <1>10, <1>11, <1>12,
     <1>13, <1>14, <1>15, <1>16, <1>17, <1>18, <1>19, <1>20, <1>21, <1>22, <1>23
     DEF Next, Access

\* Blocks follow each other at words.
LEMMA BlockPlaceStep ==
  ASSUME TypeOK, \A u \in Workers : Asked(u) /\ FilePlace(u) /\ BlockPlace(u),
         [Next]_vars
  PROVE  \A v \in Workers : BlockPlace(v)'
<1> SUFFICES ASSUME NEW v \in Workers PROVE BlockPlace(v)'
  OBVIOUS
<1>1. ASSUME NEW w \in Workers, NEW r \in Requests, Call(w, r)
      PROVE  BlockPlace(v)'
  BY <1>1
     DEF Call, Goto, lock, locals, module, TypeOK, Control, Locals, DdrCalls,
         Asked, BlockPlace, Direct, File
<1>2. ASSUME NEW w \in Workers, Open(w) PROVE BlockPlace(v)'
  BY <1>2, RequestType
     DEF Open, Goto, module, Lock!Acquire, TypeOK, Control, Locals, DdrCalls,
         Asked, BlockPlace, Direct, File
<1>3. ASSUME NEW w \in Workers, OpenFails(w) PROVE BlockPlace(v)'
  BY <1>3
     DEF OpenFails, Return, Goto, lock, TypeOK, Control, Locals, DdrCalls,
         Asked, BlockPlace, Direct, File
<1>4. ASSUME NEW w \in Workers, Reset(w) PROVE BlockPlace(v)'
  BY <1>4, FirstIsCall
     DEF Reset, Goto, lock, locals, TypeOK, Control, Locals, DdrCalls, Asked,
         BlockPlace, Direct, File
<1>5. ASSUME NEW w \in Workers, ResetMissed(w) PROVE BlockPlace(v)'
  BY <1>5, FirstIsCall
     DEF ResetMissed, Goto, lock, locals, TypeOK, Control, Locals, DdrCalls,
         Asked, BlockPlace, Direct, File
<1>6. ASSUME NEW w \in Workers, ReadHead(w) PROVE BlockPlace(v)'
  BY <1>6
     DEF ReadHead, At, Move, Goto, lock, module, TypeOK, Control, Locals,
         DdrCalls, Asked, BlockPlace, Direct, File, Stage
<1>7. ASSUME NEW w \in Workers, ReadBody(w) PROVE BlockPlace(v)'
  BY <1>7
     DEF ReadBody, At, Move, Goto, lock, module, TypeOK, Control, Locals,
         DdrCalls, Asked, BlockPlace, Direct, File
<1>8. ASSUME NEW w \in Workers, ReadTail(w) PROVE BlockPlace(v)'
  BY <1>8
     DEF ReadTail, At, Goto, lock, module, TypeOK, Control, Locals, DdrCalls,
         Asked, BlockPlace, Direct, File
<1>9. ASSUME NEW w \in Workers, LoadWord(w) PROVE BlockPlace(v)'
  BY <1>9
     DEF LoadWord, Goto, lock, module, TypeOK, Control, Locals, DdrCalls, Asked,
         BlockPlace, Direct, File
<1>10. ASSUME NEW w \in Workers, WriteHead(w) PROVE BlockPlace(v)'
  BY <1>10
     DEF WriteHead, At, Move, Goto, lock, module, TypeOK, Control, Locals,
         DdrCalls, Asked, BlockPlace, Direct, File, Stage
<1>11. ASSUME NEW w \in Workers, WriteBody(w) PROVE BlockPlace(v)'
  BY <1>11
     DEF WriteBody, At, Move, Goto, lock, module, TypeOK, Control, Locals,
         DdrCalls, Asked, BlockPlace, Direct, File
<1>12. ASSUME NEW w \in Workers, WriteTail(w) PROVE BlockPlace(v)'
  BY <1>12
     DEF WriteTail, At, Goto, lock, module, TypeOK, Control, Locals, DdrCalls,
         Asked, BlockPlace, Direct, File
<1>13. ASSUME NEW w \in Workers, Reg(w) PROVE BlockPlace(v)'
  BY <1>13
     DEF Reg, At, Goto, lock, locals, module, TypeOK, Control, Locals, DdrCalls,
         Asked, BlockPlace, Direct, File
<1>14. ASSUME NEW w \in Workers, Block(w) PROVE BlockPlace(v)'
  <2>1. CASE v # w
    BY <1>14, <2>1 DEF Block, NextBlock, Goto, TypeOK, Control, Locals, BlockPlace
  <2>2. CASE v = w
    <3>1. /\ off[w] \in Nat /\ left[w] \in Nat
          /\ off[w] % 4 = 0 /\ req[w].offset <= off[w]
          /\ left[w] % 4 = 0 /\ left[w] > 0
          /\ off[w] + left[w] = req[w].offset + req[w].size
          /\ req[w].offset \in Nat /\ req[w].size \in Nat
      BY <1>14, RequestType, ConstantsType
         DEF Block, At, Asked, BlockPlace, TypeOK, Locals
    <3>2. /\ pc'[w] = IF left[w] > 4 THEN "reset" ELSE "close"
          /\ off'[w] = off[w] + 4 /\ left'[w] = left[w] - 4 /\ req'[w] = req[w]
      BY <1>14 DEF Block, NextBlock, Goto, TypeOK, Control, Locals
    <3>3. /\ left[w] > 4 => left[w] - 4 > 0 /\ (left[w] - 4) % 4 = 0
          /\ (off[w] + 4) % 4 = 0
      BY <3>1
    <3> QED
      BY <2>2, <3>1, <3>2, <3>3 DEF BlockPlace
  <2> QED
    BY <2>1, <2>2
<1>15. ASSUME NEW w \in Workers, DebugSend(w) PROVE BlockPlace(v)'
  BY <1>15
     DEF DebugSend, At, Goto, lock, locals, module, TypeOK, Control, Locals,
         DdrCalls, Asked, BlockPlace, Direct, File
<1>16. ASSUME NEW w \in Workers, DebugReceive(w) PROVE BlockPlace(v)'
  BY <1>16
     DEF DebugReceive, At, Goto, lock, locals, module, TypeOK, Control, Locals,
         DdrCalls, Asked, BlockPlace, Direct, File
<1>17. ASSUME NEW w \in Workers, Fails(w) PROVE BlockPlace(v)'
  BY <1>17
     DEF Fails, CutOff, Goto, lock, locals, TypeOK, Control, Locals, DdrCalls,
         Asked, BlockPlace, Direct, File
<1>18. ASSUME NEW w \in Workers, BlockFails(w) PROVE BlockPlace(v)'
  <2>1. CASE v # w
    BY <1>18, <2>1 DEF BlockFails, NextBlock, Goto, TypeOK, Control, Locals, BlockPlace
  <2>2. CASE v = w
    <3>1. /\ off[w] \in Nat /\ left[w] \in Nat
          /\ off[w] % 4 = 0 /\ req[w].offset <= off[w]
          /\ left[w] % 4 = 0 /\ left[w] > 0
          /\ off[w] + left[w] = req[w].offset + req[w].size
          /\ req[w].offset \in Nat /\ req[w].size \in Nat
      BY <1>18, RequestType, ConstantsType
         DEF BlockFails, Asked, BlockPlace, TypeOK, Locals
    <3>2. /\ pc'[w] = IF left[w] > 4 THEN "reset" ELSE "close"
          /\ off'[w] = off[w] + 4 /\ left'[w] = left[w] - 4 /\ req'[w] = req[w]
      BY <1>18 DEF BlockFails, NextBlock, Goto, TypeOK, Control, Locals
    <3>3. /\ left[w] > 4 => left[w] - 4 > 0 /\ (left[w] - 4) % 4 = 0
          /\ (off[w] + 4) % 4 = 0
      BY <3>1
    <3> QED
      BY <2>2, <3>1, <3>2, <3>3 DEF BlockPlace
  <2> QED
    BY <2>1, <2>2
<1>19. ASSUME NEW w \in Workers, Stray(w) PROVE BlockPlace(v)'
  BY <1>19
     DEF Stray, lock, locals, TypeOK, Control, Locals, DdrCalls, Asked,
         BlockPlace, Direct, File
<1>20. ASSUME NEW w \in Workers, Close(w) PROVE BlockPlace(v)'
  BY <1>20
     DEF Close, Return, Goto, Lock!Release, TypeOK, Control, Locals, DdrCalls,
         Asked, BlockPlace, Direct, File
<1>21. ASSUME NEW w \in Workers, Crash(w) PROVE BlockPlace(v)'
  BY <1>21
     DEF Crash, CutOff, Return, Goto, Lock!Release, TypeOK, Control, Locals,
         DdrCalls, Asked, BlockPlace, Direct, File
<1>22. CASE Breach
  BY <1>22
     DEF Breach, Lock!Break, locals, module, TypeOK, Control, Locals, DdrCalls,
         Asked, BlockPlace, Direct, File
<1>23. CASE UNCHANGED vars
  BY <1>23
     DEF vars, lock, locals, module, TypeOK, Control, Locals, DdrCalls, Asked,
         BlockPlace, Direct, File
<1> QED
  BY <1>1, <1>2, <1>3, <1>4, <1>5, <1>6, <1>7, <1>8, <1>9, <1>10, <1>11, <1>12,
     <1>13, <1>14, <1>15, <1>16, <1>17, <1>18, <1>19, <1>20, <1>21, <1>22, <1>23
     DEF Next, Access

\* A body ends at a word.
LEMMA BodyEnds ==
  ASSUME NEW o \in Nat, NEW n \in Nat, n >= (o + n) % 4
  PROVE  (o + n) % 4 \in 0..3 /\ (o + (n - ((o + n) % 4))) % 4 = 0
<1> DEFINE t == o + n
<1>1. t \in Nat /\ t % 4 \in 0..3
  OBVIOUS
<1>2. (t - (t % 4)) % 4 = 0
  BY <1>1
<1>3. o + (n - (t % 4)) = t - (t % 4)
  BY <1>1
<1> QED
  BY <1>1, <1>2, <1>3

\* A request moves on to a word, and by words, to its end.
LEMMA FilePlaceStep ==
  ASSUME TypeOK, \A u \in Workers : Asked(u) /\ FilePlace(u) /\ BlockPlace(u),
         [Next]_vars
  PROVE  \A v \in Workers : FilePlace(v)'
<1> SUFFICES ASSUME NEW v \in Workers PROVE FilePlace(v)'
  OBVIOUS
<1>1. ASSUME NEW w \in Workers, NEW r \in Requests, Call(w, r)
      PROVE  FilePlace(v)'
  BY <1>1
     DEF Call, Goto, lock, locals, module, TypeOK, Control, Locals, Contents,
         DdrCalls, Asked, FilePlace, Underway, Direct, File
<1>2. ASSUME NEW w \in Workers, Open(w) PROVE FilePlace(v)'
  BY <1>2, RequestType
     DEF Open, Goto, module, Lock!Acquire, TypeOK, Control, Locals, Contents,
         DdrCalls, Asked, FilePlace, Underway, Direct, File
<1>3. ASSUME NEW w \in Workers, OpenFails(w) PROVE FilePlace(v)'
  BY <1>3
     DEF OpenFails, Return, Goto, lock, TypeOK, Control, Locals, Contents,
         DdrCalls, Asked, FilePlace, Underway, Direct, File
<1>4. ASSUME NEW w \in Workers, Reset(w) PROVE FilePlace(v)'
  <2>1. CASE v # w
    BY <1>4, <2>1
       DEF Reset, Goto, lock, locals, TypeOK, Control, Locals, Contents,
           FilePlace
  <2>2. CASE v = w
    <3>1. /\ off[w] \in Nat /\ left[w] \in Nat /\ pos[w] \in Nat
          /\ req[w] \in Requests /\ req[w].offset \in Nat /\ req[w].size \in Nat
      BY <1>4, RequestType, ConstantsType
         DEF Reset, Asked, TypeOK, Control, Locals
    <3>2. /\ off'[w] = off[w] /\ left'[w] = left[w] /\ pos'[w] = pos[w]
          /\ out'[w] = out[w] /\ req'[w] = req[w]
          /\ pc'[w] \in {FirstCall(w), "eio"}
      BY <1>4 DEF Reset, Goto, locals, TypeOK, Control
    <3>3. FilePlace(w) /\ pc[w] = "reset"
      BY <1>4 DEF Reset
    <3>4. CASE req[w].kind \in File
      <4>1. CASE off[w] % 4 # 0
        BY <2>2, <3>1, <3>2, <3>3, <3>4, <4>1, FirstIsCall DEF FilePlace, Underway
      <4>2. CASE off[w] % 4 = 0
        <5>1. /\ FirstCall(w) = Stage(off[w], left[w])
              /\ Stage(off[w], left[w]) \in {"close", "body", "tail"}
              /\ Stage(off[w], left[w]) = "tail" => left[w] \in 1..3
              /\ Stage(off[w], left[w]) = "body"
                    => left[w] >= (off[w] + left[w]) % 4
          BY <3>1, <3>4, <4>2, FirstIsCall, StageAtWord
        <5> QED
          BY <2>2, <3>1, <3>2, <3>3, <3>4, <4>2, <5>1 DEF FilePlace, Underway
      <4> QED
        BY <4>1, <4>2
    <3>5. CASE req[w].kind \notin File
      BY <2>2, <3>1, <3>2, <3>5, FirstIsCall DEF FilePlace, Underway
    <3> QED
      BY <3>4, <3>5
  <2> QED
    BY <2>1, <2>2
<1>5. ASSUME NEW w \in Workers, ResetMissed(w) PROVE FilePlace(v)'
  <2>1. CASE v # w
    BY <1>5, <2>1
       DEF ResetMissed, Goto, lock, locals, TypeOK, Control, Locals, Contents,
           FilePlace
  <2>2. CASE v = w
    <3>1. /\ off[w] \in Nat /\ left[w] \in Nat /\ pos[w] \in Nat
          /\ req[w] \in Requests /\ req[w].offset \in Nat /\ req[w].size \in Nat
      BY <1>5, RequestType, ConstantsType
         DEF ResetMissed, Asked, TypeOK, Control, Locals
    <3>2. /\ off'[w] = off[w] /\ left'[w] = left[w] /\ pos'[w] = pos[w]
          /\ out'[w] = out[w] /\ req'[w] = req[w]
          /\ pc'[w] \in {FirstCall(w), "eio"}
      BY <1>5 DEF ResetMissed, Goto, locals, TypeOK, Control
    <3>3. FilePlace(w) /\ pc[w] = "reset"
      BY <1>5 DEF ResetMissed
    <3>4. CASE req[w].kind \in File
      <4>1. CASE off[w] % 4 # 0
        BY <2>2, <3>1, <3>2, <3>3, <3>4, <4>1, FirstIsCall DEF FilePlace, Underway
      <4>2. CASE off[w] % 4 = 0
        <5>1. /\ FirstCall(w) = Stage(off[w], left[w])
              /\ Stage(off[w], left[w]) \in {"close", "body", "tail"}
              /\ Stage(off[w], left[w]) = "tail" => left[w] \in 1..3
              /\ Stage(off[w], left[w]) = "body"
                    => left[w] >= (off[w] + left[w]) % 4
          BY <3>1, <3>4, <4>2, FirstIsCall, StageAtWord
        <5> QED
          BY <2>2, <3>1, <3>2, <3>3, <3>4, <4>2, <5>1 DEF FilePlace, Underway
      <4> QED
        BY <4>1, <4>2
    <3>5. CASE req[w].kind \notin File
      BY <2>2, <3>1, <3>2, <3>5, FirstIsCall DEF FilePlace, Underway
    <3> QED
      BY <3>4, <3>5
  <2> QED
    BY <2>1, <2>2
<1>6. ASSUME NEW w \in Workers, ReadHead(w) PROVE FilePlace(v)'
  <2>1. CASE v # w
    BY <1>6, <2>1
       DEF ReadHead, At, Move, Goto, lock, module, TypeOK, Control, Locals,
           Contents, FilePlace
  <2>2. CASE v = w
    <3> DEFINE n == IF 4 - (off[w] % 4) > left[w] THEN left[w] ELSE 4 - (off[w] % 4)
    <3>1. /\ off[w] \in Nat /\ left[w] \in Nat /\ pos[w] \in Nat
          /\ req[w] \in Requests /\ req[w].offset \in Nat /\ req[w].size \in Nat
      BY <1>6, RequestType, ConstantsType
         DEF ReadHead, At, Asked, TypeOK, Control, Locals
    <3>2. /\ pc[w] = "head" /\ req[w].kind \in File /\ FilePlace(w)
      BY <1>6 DEF ReadHead, At, File
    <3>3. n \in 1..4 /\ n <= left[w] /\ ((off[w] + n) % 4 = 0 \/ left[w] - n = 0)
      <4> DEFINE m == off[w] % 4
      <4>1. m \in 1..3 /\ left[w] > 0 /\ (off[w] + (4 - m)) % 4 = 0
        <5>1. off[w] % 4 # 0 /\ off[w] = req[w].offset
              /\ off[w] + left[w] = req[w].offset + req[w].size
          BY <3>1, <3>2 DEF FilePlace, Underway, File
        <5>2. req[w].size > 0
          BY <1>6, <3>1, <3>2 DEF Asked, Refused, File
        <5>3. left[w] > 0
          BY <3>1, <5>1, <5>2
        <5>4. m \in 1..3 /\ (off[w] + (4 - m)) % 4 = 0
          BY <3>1, <5>1
        <5> QED
          BY <5>3, <5>4
      <4> HIDE DEF m
      <4> QED
        BY <3>1, <4>1 DEF m
    <3>4. /\ off'[w] = off[w] + n /\ left'[w] = left[w] - n
          /\ pos'[w] = pos[w] + n /\ req'[w] = req[w]
          /\ pc'[w] = Stage(off[w] + n, left[w] - n)
      BY <1>6, <3>3 DEF ReadHead, Move, Goto, TypeOK, Control, Locals
    <3> HIDE DEF n
    <3>5. /\ req[w].offset <= off'[w] /\ pos'[w] = off'[w] - req[w].offset
          /\ off'[w] + left'[w] = req[w].offset + req[w].size
          /\ off'[w] \in Nat /\ left'[w] \in Nat
      <4>1. /\ req[w].offset <= off[w] /\ pos[w] = off[w] - req[w].offset
            /\ off[w] + left[w] = req[w].offset + req[w].size
        BY <3>2 DEF FilePlace, Underway
      <4> QED
        BY <3>1, <3>3, <3>4, <4>1
    <3>6. CASE left'[w] = 0
      BY <2>2, <3>4, <3>5, <3>6 DEF FilePlace, Underway, Stage
    <3>7. CASE off'[w] % 4 = 0 /\ left'[w] # 0
      <4>1. /\ pc'[w] \in {"body", "tail"}
            /\ pc'[w] = "tail" => left'[w] \in 1..3
            /\ pc'[w] = "body" => left'[w] >= (off'[w] + left'[w]) % 4
        BY <3>4, <3>5, <3>7, StageAtWord
      <4> QED
        BY <2>2, <3>4, <3>5, <3>7, <4>1 DEF FilePlace, Underway
    <3> QED
      BY <3>3, <3>4, <3>6, <3>7
  <2> QED
    BY <2>1, <2>2
<1>7. ASSUME NEW w \in Workers, ReadBody(w) PROVE FilePlace(v)'
  <2>1. CASE v # w
    BY <1>7, <2>1
       DEF ReadBody, At, Move, Goto, lock, module, TypeOK, Control, Locals,
           Contents, FilePlace
  <2>2. CASE v = w
    <3> DEFINE m == (off[w] + left[w]) % 4
    <3>1. /\ off[w] \in Nat /\ left[w] \in Nat /\ pos[w] \in Nat
          /\ req[w] \in Requests /\ req[w].offset \in Nat /\ req[w].size \in Nat
      BY <1>7, RequestType, ConstantsType
         DEF ReadBody, At, Asked, TypeOK, Control, Locals
    <3>2. /\ pc[w] = "body" /\ req[w].kind \in File /\ FilePlace(w)
      BY <1>7 DEF ReadBody, At, File
    <3>3. /\ req[w].offset <= off[w] /\ pos[w] = off[w] - req[w].offset
          /\ off[w] + left[w] = req[w].offset + req[w].size
          /\ off[w] % 4 = 0 /\ m <= left[w]
      BY <1>7, <3>2 DEF FilePlace, Underway, ReadBody, EndsInHead
    <3>5. m \in 0..3 /\ (off[w] + (left[w] - m)) % 4 = 0
      BY <3>1, <3>3, BodyEnds
    <3>4. /\ off'[w] = off[w] + (left[w] - m) /\ left'[w] = m
          /\ pos'[w] = pos[w] + (left[w] - m) /\ req'[w] = req[w]
          /\ pc'[w] = IF m = 0 THEN "close" ELSE "tail"
      BY <1>7 DEF ReadBody, Move, Goto, TypeOK, Control, Locals
    <3> HIDE DEF m
    <3>6. /\ req[w].offset <= off'[w] /\ pos'[w] = off'[w] - req[w].offset
          /\ off'[w] + left'[w] = req[w].offset + req[w].size
          /\ off'[w] % 4 = 0 /\ (left'[w] # 0 => left'[w] \in 1..3)
      <4>1. left'[w] \in 0..3 /\ off'[w] % 4 = 0
        BY <3>4, <3>5
      <4>2. /\ req[w].offset <= off[w] + (left[w] - m)
            /\ pos[w] + (left[w] - m) = (off[w] + (left[w] - m)) - req[w].offset
            /\ (off[w] + (left[w] - m)) + m = req[w].offset + req[w].size
        <5> DEFINE k == left[w] - m
        <5>1. k \in Nat /\ left[w] = k + m
          BY <3>1, <3>3, <3>5
        <5> HIDE DEF k
        <5>2. /\ req[w].offset <= off[w] + k
              /\ pos[w] + k = (off[w] + k) - req[w].offset
              /\ (off[w] + k) + m = req[w].offset + req[w].size
          <6>1. /\ req[w].offset <= off[w] /\ pos[w] = off[w] - req[w].offset
                /\ off[w] + left[w] = req[w].offset + req[w].size
                /\ off[w] \in Nat /\ req[w].offset \in Nat /\ m \in Nat
            BY <3>1, <3>3, <3>5
          <6> QED
            BY <5>1, <6>1
        <5> QED
          BY <5>2 DEF k
      <4> QED
        BY <3>4, <4>1, <4>2
    <3> QED
      BY <2>2, <3>4, <3>6 DEF FilePlace, Underway
  <2> QED
    BY <2>1, <2>2
<1>8. ASSUME NEW w \in Workers, ReadTail(w) PROVE FilePlace(v)'
  BY <1>8
     DEF ReadTail, At, Goto, lock, module, TypeOK, Control, Locals, Contents,
         DdrCalls, Asked, FilePlace, Underway, Direct, File
<1>9. ASSUME NEW w \in Workers, LoadWord(w) PROVE FilePlace(v)'
  BY <1>9
     DEF LoadWord, Goto, lock, module, TypeOK, Control, Locals, Contents,
         DdrCalls, Asked, FilePlace, Underway, Direct, File
<1>10. ASSUME NEW w \in Workers, WriteHead(w) PROVE FilePlace(v)'
  <2>1. CASE v # w
    BY <1>10, <2>1
       DEF WriteHead, At, Move, Goto, lock, module, TypeOK, Control, Locals,
           Contents, FilePlace
  <2>2. CASE v = w
    <3> DEFINE n == 4 - (off[w] % 4)
    <3>1. /\ off[w] \in Nat /\ left[w] \in Nat /\ pos[w] \in Nat
          /\ req[w] \in Requests /\ req[w].offset \in Nat /\ req[w].size \in Nat
      BY <1>10, RequestType, ConstantsType
         DEF WriteHead, At, Asked, TypeOK, Control, Locals
    <3>2. /\ pc[w] = "head_write" /\ req[w].kind \in File /\ FilePlace(w)
      BY <1>10 DEF WriteHead, At, File, Asked
    <3>3. n \in 1..3 /\ (off[w] + n) % 4 = 0
      <4>1. off[w] % 4 # 0
        BY <3>2 DEF FilePlace
      <4> QED
        BY <3>1, <4>1
    <3>4. /\ req[w].offset = off[w] /\ pos[w] = 0 /\ left[w] = req[w].size
          /\ req[w].kind = "write"
      BY <1>10, <3>1, <3>2 DEF FilePlace, Underway, Asked
    <3> DEFINE rest == IF n <= left[w] THEN left[w] - n ELSE left[w] + SizeMod - n
    <3>5. /\ off'[w] = off[w] + n /\ left'[w] = rest
          /\ pos'[w] = pos[w] + n /\ req'[w] = req[w]
          /\ pc'[w] = Stage(off[w] + n, rest)
      BY <1>10 DEF WriteHead, Move, Goto, TypeOK, Control, Locals
    <3>6. rest \in Nat
      BY <3>1, <3>3, ConstantsType
    <3>7. n <= left[w] => (off[w] + n) + rest = req[w].offset + req[w].size
      BY <3>1, <3>3, <3>4
    <3>8. ~(n <= left[w]) => EndsInHead(req'[w]) /\ rest # 0
      <4>1. ~(n <= left[w]) => rest # 0
        BY <3>1, <3>3, ConstantsType
      <4>2. ~(n <= left[w]) => EndsInHead(req[w])
        BY <3>1, <3>2, <3>4 DEF FilePlace, EndsInHead
      <4> QED
        BY <3>5, <4>1, <4>2
    <3> HIDE DEF n, rest
    <3>9. /\ req[w].offset <= off'[w] /\ pos'[w] = off'[w] - req[w].offset
          /\ off'[w] % 4 = 0
      BY <3>1, <3>3, <3>4, <3>5
    <3>10. /\ pc'[w] \in {"close", "body", "tail"} /\ (pc'[w] = "close" <=> rest = 0)
           /\ pc'[w] = "tail" => left'[w] \in 1..3
           /\ pc'[w] = "body" => left'[w] >= (off'[w] + left'[w]) % 4
      BY <3>1, <3>3, <3>5, <3>6, StageAtWord
    <3> QED
      BY <2>2, <3>5, <3>7, <3>8, <3>9, <3>10 DEF FilePlace, Underway
  <2> QED
    BY <2>1, <2>2
<1>11. ASSUME NEW w \in Workers, WriteBody(w) PROVE FilePlace(v)'
  <2>1. CASE v # w
    BY <1>11, <2>1
       DEF WriteBody, At, Move, Goto, lock, module, TypeOK, Control, Locals,
           Contents, FilePlace
  <2>2. CASE v = w
    <3> DEFINE m == (off[w] + left[w]) % 4
    <3>1. /\ off[w] \in Nat /\ left[w] \in Nat /\ pos[w] \in Nat
          /\ req[w] \in Requests /\ req[w].offset \in Nat /\ req[w].size \in Nat
      <4>1. pc[w] = "body" /\ Asked(w)
        BY <1>11 DEF WriteBody, At
      <4>2. req[w] \in Requests
        BY <4>1 DEF Asked
      <4> QED
        BY <4>2, RequestType, ConstantsType DEF TypeOK, Locals
    <3>2. /\ pc[w] = "body" /\ req[w].kind \in File /\ FilePlace(w)
      BY <1>11 DEF WriteBody, At, File
    <3>3. /\ req[w].offset <= off[w] /\ pos[w] = off[w] - req[w].offset
          /\ \/ off[w] + left[w] = req[w].offset + req[w].size
             \/ EndsInHead(req[w])
          /\ off[w] % 4 = 0 /\ m <= left[w]
      BY <3>2 DEF FilePlace, Underway
    <3>4. m \in 0..3 /\ (off[w] + (left[w] - m)) % 4 = 0
      BY <3>1, <3>3, BodyEnds
    <3>5. /\ off'[w] = off[w] + (left[w] - m) /\ left'[w] = m
          /\ pos'[w] = pos[w] + (left[w] - m) /\ req'[w] = req[w]
          /\ pc'[w] = IF m = 0 THEN "close" ELSE "tail"
      BY <1>11 DEF WriteBody, Move, Goto, TypeOK, Control, Locals
    <3> HIDE DEF m
    <3>6. PICK k \in Nat : left[w] = k + m
      <4>1. left[w] - m \in Nat /\ left[w] = (left[w] - m) + m
        BY <3>1, <3>3, <3>4
      <4> QED
        BY <4>1
    <3>7. off'[w] = off[w] + k /\ pos'[w] = pos[w] + k /\ off'[w] % 4 = 0
      BY <3>1, <3>4, <3>5, <3>6
    <3>8. /\ req[w].offset <= off'[w] /\ pos'[w] = off'[w] - req[w].offset
          /\ off'[w] + left'[w] = off[w] + left[w]
      <4>1. left'[w] = m /\ m \in Nat
        BY <3>4, <3>5
      <4>2. req[w].offset <= off[w] /\ pos[w] = off[w] - req[w].offset
        BY <3>3
      <4> QED
        BY <3>1, <3>6, <3>7, <4>1, <4>2
    <3> QED
      BY <2>2, <3>3, <3>4, <3>5, <3>7, <3>8 DEF FilePlace, Underway
  <2> QED
    BY <2>1, <2>2
<1>12. ASSUME NEW w \in Workers, WriteTail(w) PROVE FilePlace(v)'
  BY <1>12
     DEF WriteTail, At, Goto, lock, module, TypeOK, Control, Locals, Contents,
         DdrCalls, Asked, FilePlace, Underway, Direct, File
<1>13. ASSUME NEW w \in Workers, Reg(w) PROVE FilePlace(v)'
  BY <1>13
     DEF Reg, At, Goto, lock, locals, module, TypeOK, Control, Locals, Contents,
         DdrCalls, Asked, FilePlace, Underway, Direct, File
<1>14. ASSUME NEW w \in Workers, Block(w) PROVE FilePlace(v)'
  BY <1>14
     DEF Block, NextBlock, At, Goto, lock, module, TypeOK, Control, Locals,
         Contents, DdrCalls, Asked, FilePlace, Underway, Direct, File
<1>15. ASSUME NEW w \in Workers, DebugSend(w) PROVE FilePlace(v)'
  BY <1>15
     DEF DebugSend, At, Goto, lock, locals, module, TypeOK, Control, Locals,
         Contents, DdrCalls, Asked, FilePlace, Underway, Direct, File
<1>16. ASSUME NEW w \in Workers, DebugReceive(w) PROVE FilePlace(v)'
  BY <1>16
     DEF DebugReceive, At, Goto, lock, locals, module, TypeOK, Control, Locals,
         Contents, DdrCalls, Asked, FilePlace, Underway, Direct, File
<1>17. ASSUME NEW w \in Workers, Fails(w) PROVE FilePlace(v)'
  BY <1>17
     DEF Fails, CutOff, Goto, lock, locals, TypeOK, Control, Locals, Contents,
         DdrCalls, Asked, FilePlace, Underway, Direct, File
<1>18. ASSUME NEW w \in Workers, BlockFails(w) PROVE FilePlace(v)'
  BY <1>18
     DEF BlockFails, CutOff, NextBlock, Goto, lock, TypeOK, Control, Locals,
         Contents, DdrCalls, Asked, FilePlace, Underway, Direct, File
<1>19. ASSUME NEW w \in Workers, Stray(w) PROVE FilePlace(v)'
  BY <1>19
     DEF Stray, lock, locals, TypeOK, Control, Locals, Contents, DdrCalls,
         Asked, FilePlace, Underway, Direct, File
<1>20. ASSUME NEW w \in Workers, Close(w) PROVE FilePlace(v)'
  BY <1>20
     DEF Close, Return, Goto, Lock!Release, TypeOK, Control, Locals, Contents,
         DdrCalls, Asked, FilePlace, Underway, Direct, File
<1>21. ASSUME NEW w \in Workers, Crash(w) PROVE FilePlace(v)'
  BY <1>21
     DEF Crash, CutOff, Return, Goto, Lock!Release, TypeOK, Control, Locals,
         Contents, DdrCalls, Asked, FilePlace, Underway, Direct, File
<1>22. CASE Breach
  BY <1>22
     DEF Breach, Lock!Break, locals, module, TypeOK, Control, Locals, Contents,
         DdrCalls, Asked, FilePlace, Underway, Direct, File
<1>23. CASE UNCHANGED vars
  BY <1>23
     DEF vars, lock, locals, module, TypeOK, Control, Locals, Contents,
         DdrCalls, Asked, FilePlace, Underway, Direct, File
<1> QED
  BY <1>1, <1>2, <1>3, <1>4, <1>5, <1>6, <1>7, <1>8, <1>9, <1>10, <1>11, <1>12,
     <1>13, <1>14, <1>15, <1>16, <1>17, <1>18, <1>19, <1>20, <1>21, <1>22, <1>23
     DEF Next, Access

-----------------------------------------------------------------------------
(* What is stored *)

\* The DDR after the next k bytes of the caller were stored at their place.
Wrote(w, k) ==
    [x \in Addresses |-> IF off[w] <= x /\ x < off[w] + k
                         THEN <<w, x - req[w].offset>> ELSE mem[x]]

\* The bytes of a caller are bytes.
LEMMA ByteType ==
  ASSUME NEW w \in Workers, NEW i \in Nat
  PROVE  Byte(w, i) \in Bytes /\ Garbage \in Bytes
  BY DEF Byte, Bytes, Garbage

\* So is what a word holds.
LEMMA WordType ==
  ASSUME NEW a \in Nat, Contents
  PROVE  WordAt(a) \in [0..3 -> Bytes]
  BY ByteType DEF WordAt, Contents, Garbage, Bytes

\* The places of a request that is under way.
LEMMA Places ==
  ASSUME NEW w \in Workers, TypeOK, Asked(w), FilePlace(w),
         pc[w] \in Underway, req[w].kind \in File, ~EndsInHead(req[w])
  PROVE  /\ off[w] \in Nat /\ left[w] \in Nat /\ pos[w] \in Nat
         /\ req[w].offset \in Nat /\ req[w].size \in Nat
         /\ req[w].offset <= off[w] /\ pos[w] = off[w] - req[w].offset
         /\ off[w] + left[w] = req[w].offset + req[w].size
         /\ req[w].offset + req[w].size <= MemSize
<1>1. req[w] \in Requests /\ ~Refused(req[w])
  BY DEF Asked, Underway
<1>2. /\ off[w] \in Nat /\ left[w] \in Nat /\ pos[w] \in Nat
      /\ req[w].offset \in Nat /\ req[w].size \in Nat /\ MemSize \in Nat
  BY <1>1, RequestType, ConstantsType DEF TypeOK, Locals
<1>3. ~(req[w].offset + req[w].size > MemSize)
  BY <1>1 DEF Refused, File
<1>4. /\ req[w].offset <= off[w] /\ pos[w] = off[w] - req[w].offset
      /\ off[w] + left[w] = req[w].offset + req[w].size
  BY DEF FilePlace
<1> QED
  BY <1>2, <1>3, <1>4

\* WriteHead stores the bytes of the caller that are in the word of the head.
LEMMA HeadStores ==
  ASSUME NEW w \in Workers, TypeOK, ~EndsInHead(req[w]), Asked(w), FilePlace(w),
         pc[w] = "head_write"
  PROVE  /\ 4 - (off[w] % 4) \in 1..3 /\ 4 - (off[w] % 4) <= left[w]
         /\ WordLoaded(w) /\ ~broken =>
               Stored(off[w], 4, HeadBytes(w)) = Wrote(w, 4 - (off[w] % 4))
<1> DEFINE m == off[w] % 4
           b == Base(off[w])
<1>1. pc[w] \in Underway /\ req[w].kind \in File /\ req[w].kind = "write"
  BY DEF Underway, File, Asked
<1>2. /\ off[w] \in Nat /\ left[w] \in Nat /\ req[w].offset = off[w]
      /\ left[w] = req[w].size
  BY <1>1, Places DEF FilePlace
<1>3. m \in 1..3 /\ b \in Nat /\ b + m = off[w]
  <2>1. off[w] % 4 # 0
    BY DEF FilePlace
  <2>2. m \in 0..3 /\ b \in Nat /\ b + m = off[w]
    BY <1>2, Word4
  <2> HIDE DEF b
  <2> QED
    BY <2>1, <2>2
<1>4. 4 - m <= left[w]
  <2>1. req[w].offset % 4 = m
    BY <1>2
  <2> HIDE DEF m
  <2>2. ~(left[w] < 4 - m)
    <3>1. ~(req[w].kind = "write" /\ m # 0 /\ req[w].size < 4 - m)
      BY <2>1 DEF EndsInHead
    <3>2. m # 0
      BY <1>3
    <3> QED
      BY <1>1, <1>2, <3>1, <3>2
  <2> QED
    BY <1>2, <1>3, <2>2
<1>5. ASSUME WordLoaded(w), ~broken, NEW x \in Addresses
      PROVE  Stored(off[w], 4, HeadBytes(w))[x] = Wrote(w, 4 - m)[x]
  <2>1. x \in Nat
    BY DEF Addresses
  <2>2. Stored(off[w], 4, HeadBytes(w))[x] =
           IF b <= x /\ x < b + 4 THEN HeadBytes(w)[x - b] ELSE mem[x]
    BY DEF Stored
  <2>3. Wrote(w, 4 - m)[x] = IF off[w] <= x /\ x < off[w] + (4 - m)
                             THEN <<w, x - req[w].offset>> ELSE mem[x]
    BY DEF Wrote
  <2> HIDE DEF m, b
  <2>4. CASE ~(b <= x /\ x < b + 4)
    BY <1>2, <1>3, <2>1, <2>2, <2>3, <2>4
  <2>5. CASE b <= x /\ x < b + 4
    <3>1. x - b \in 0..3 /\ b + (x - b) = x
      BY <1>3, <2>1, <2>5
    <3>2. HeadBytes(w)[x - b] = IF m <= x - b /\ x - b < m + left[w]
                                THEN Byte(w, (x - b) - m) ELSE word[w][x - b]
      BY <3>1 DEF HeadBytes, m
    <3>3. word[w][x - b] = mem[x]
      BY <1>5, <3>1 DEF WordLoaded, WordAt, b
    <3>4. CASE m <= x - b
      <4>1. (x - b) - m = x - req[w].offset /\ x - req[w].offset < req[w].size
        BY <1>2, <1>3, <1>4, <2>1, <2>5, <3>4
      <4>2. x - b < m + left[w] /\ off[w] <= x /\ x < off[w] + (4 - m)
        BY <1>2, <1>3, <1>4, <2>1, <2>5, <3>4
      <4> QED
        BY <2>2, <2>3, <2>5, <3>2, <3>4, <4>1, <4>2 DEF Byte
    <3>5. CASE ~(m <= x - b)
      <4>1. ~(off[w] <= x)
        BY <1>2, <1>3, <2>1, <2>5, <3>5
      <4> QED
        BY <2>2, <2>3, <2>5, <3>2, <3>3, <3>5, <4>1
    <3> QED
      BY <3>4, <3>5
  <2> QED
    BY <2>4, <2>5
<1>6. ASSUME WordLoaded(w), ~broken
      PROVE  Stored(off[w], 4, HeadBytes(w)) = Wrote(w, 4 - m)
  BY <1>5, <1>6 DEF Stored, Wrote
<1> QED
  BY <1>3, <1>4, <1>6

\* WriteTail stores the rest of the bytes of the caller.
LEMMA TailStores ==
  ASSUME NEW w \in Workers, TypeOK, Asked(w), FilePlace(w), WordLoaded(w), ~broken,
         pc[w] = "tail_write", ~EndsInHead(req[w])
  PROVE  Stored(off[w], 4, TailBytes(w)) = Wrote(w, left[w])
<1>1. pc[w] \in Underway /\ req[w].kind \in File
  BY DEF Underway, File, Asked
<1>2. /\ off[w] \in Nat /\ left[w] \in Nat /\ req[w].offset \in Nat
      /\ req[w].size \in Nat /\ pos[w] = off[w] - req[w].offset
      /\ off[w] + left[w] = req[w].offset + req[w].size /\ left[w] \in 1..3
      /\ req[w].offset <= off[w]
  BY <1>1, Places DEF FilePlace
<1>3. Base(off[w]) = off[w]
  BY <1>2, Word4 DEF FilePlace
<1>4. ASSUME NEW x \in Addresses
      PROVE  Stored(off[w], 4, TailBytes(w))[x] = Wrote(w, left[w])[x]
  <2>1. x \in Nat
    BY DEF Addresses
  <2>2. Stored(off[w], 4, TailBytes(w))[x] =
           IF off[w] <= x /\ x < off[w] + 4 THEN TailBytes(w)[x - off[w]] ELSE mem[x]
    BY <1>3 DEF Stored
  <2>3. Wrote(w, left[w])[x] = IF off[w] <= x /\ x < off[w] + left[w]
                               THEN <<w, x - req[w].offset>> ELSE mem[x]
    BY DEF Wrote
  <2>4. CASE ~(off[w] <= x /\ x < off[w] + 4)
    BY <1>2, <2>1, <2>2, <2>3, <2>4
  <2>5. CASE off[w] <= x /\ x < off[w] + 4
    <3>1. x - off[w] \in 0..3 /\ off[w] + (x - off[w]) = x
      BY <1>2, <2>1, <2>5
    <3>2. TailBytes(w)[x - off[w]] = IF x - off[w] < left[w]
             THEN Byte(w, pos[w] + (x - off[w])) ELSE word[w][x - off[w]]
      BY <3>1 DEF TailBytes
    <3>3. word[w][x - off[w]] = mem[x]
      BY <1>3, <3>1 DEF WordLoaded, WordAt
    <3>4. CASE x - off[w] < left[w]
      <4>1. /\ pos[w] + (x - off[w]) = x - req[w].offset
            /\ x - req[w].offset < req[w].size /\ x < off[w] + left[w]
        BY <1>2, <2>1, <2>5, <3>4
      <4> QED
        BY <2>2, <2>3, <2>5, <3>2, <3>4, <4>1 DEF Byte
    <3>5. CASE ~(x - off[w] < left[w])
      <4>1. ~(x < off[w] + left[w])
        BY <1>2, <2>1, <2>5, <3>5
      <4> QED
        BY <2>2, <2>3, <2>5, <3>2, <3>3, <3>5, <4>1
    <3> QED
      BY <3>4, <3>5
  <2> QED
    BY <2>4, <2>5
<1> QED
  BY <1>4 DEF Stored, Wrote

\* WriteBody stores whole words of the caller.
LEMMA BodyStores ==
  ASSUME NEW w \in Workers, TypeOK, Asked(w), FilePlace(w),
         pc[w] = "body", req[w].kind = "write", ~EndsInHead(req[w]),
         NEW n \in Nat, n <= left[w]
  PROVE  Stored(off[w], n, BodyBytes(w)) = Wrote(w, n)
<1>1. pc[w] \in Underway /\ req[w].kind \in File
  BY DEF Underway, File
<1>2. /\ off[w] \in Nat /\ left[w] \in Nat /\ req[w].offset \in Nat
      /\ req[w].size \in Nat /\ pos[w] = off[w] - req[w].offset
      /\ off[w] + left[w] = req[w].offset + req[w].size
      /\ req[w].offset <= off[w]
  BY <1>1, Places
<1>3. Base(off[w]) = off[w]
  BY <1>2, Word4 DEF FilePlace
<1>4. ASSUME NEW x \in Addresses, off[w] <= x, x < off[w] + n
      PROVE  BodyBytes(w)[x - off[w]] = <<w, x - req[w].offset>>
  <2>1. x \in Nat
    BY DEF Addresses
  <2>2. /\ x - off[w] \in Nat /\ pos[w] + (x - off[w]) = x - req[w].offset
        /\ x - req[w].offset < req[w].size
    BY <1>2, <1>4, <2>1
  <2>3. BodyBytes(w)[x - off[w]] = Byte(w, pos[w] + (x - off[w]))
    BY <2>2 DEF BodyBytes
  <2> QED
    BY <2>2, <2>3 DEF Byte
<1> QED
  BY <1>3, <1>4 DEF Stored, Wrote

\* A block of a program is a word of its request.
LEMMA BlockStores ==
  ASSUME NEW w \in Workers, TypeOK, Asked(w), BlockPlace(w), pc[w] = "block"
  PROVE  /\ Stored(off[w], 4, BlockBytes(w)) = Wrote(w, 4)
         /\ off[w] \in Nat /\ req[w].offset \in Nat /\ req[w].size \in Nat
         /\ req[w].offset <= off[w] /\ off[w] + 4 <= req[w].offset + req[w].size
         /\ req[w].offset + req[w].size <= MemSize + 1 /\ Base(off[w]) = off[w]
<1>1. req[w] \in Requests /\ req[w].kind \in Direct
  BY DEF Asked
<1>2. /\ off[w] \in Nat /\ left[w] \in Nat /\ req[w].offset \in Nat
      /\ req[w].size \in Nat /\ off[w] + left[w] = req[w].offset + req[w].size
      /\ req[w].offset <= off[w] /\ off[w] % 4 = 0 /\ left[w] % 4 = 0 /\ left[w] > 0
      /\ req[w].offset + req[w].size <= MemSize + 1
  BY <1>1, RequestType, ConstantsType DEF TypeOK, Locals, BlockPlace
<1>3. Base(off[w]) = off[w] /\ left[w] >= 4
  <2>1. Base(off[w]) = off[w]
    BY <1>2, Word4
  <2>2. left[w] >= 4
    BY <1>2
  <2> QED
    BY <2>1, <2>2
<1>4. ASSUME NEW x \in Addresses, off[w] <= x, x < off[w] + 4
      PROVE  BlockBytes(w)[x - off[w]] = <<w, x - req[w].offset>>
  <2>1. x \in Nat
    BY DEF Addresses
  <2>2. /\ x - off[w] \in 0..3
        /\ (off[w] - req[w].offset) + (x - off[w]) = x - req[w].offset
        /\ x - req[w].offset < req[w].size
    BY <1>2, <1>3, <1>4, <2>1
  <2>3. BlockBytes(w)[x - off[w]] = Byte(w, (off[w] - req[w].offset) + (x - off[w]))
    BY <2>2 DEF BlockBytes
  <2> QED
    BY <2>2, <2>3 DEF Byte
<1>5. Stored(off[w], 4, BlockBytes(w)) = Wrote(w, 4)
  BY <1>3, <1>4 DEF Stored, Wrote
<1> QED
  BY <1>2, <1>3, <1>5

\* A session that is going on is the only one.
LEMMA OneSession ==
  ASSUME Held, ~broken, NEW v \in Workers, NEW w \in Workers,
         pc[v] \in Session, pc[w] \in Session
  PROVE  v = w
  BY DEF Held

\* The DDR holds bytes after bytes were stored.
LEMMA StoredType ==
  ASSUME Contents, NEW a \in Nat, NEW n \in Nat, NEW content,
         \A i \in Nat : i < n => content[i] \in Bytes
  PROVE  Stored(a, n, content) \in [Addresses -> Bytes]
<1>1. Base(a) \in Nat
  BY Word4
<1>2. ASSUME NEW x \in Addresses, Base(a) <= x, x < Base(a) + n
      PROVE  content[x - Base(a)] \in Bytes
  <2>1. x \in Nat
    BY DEF Addresses
  <2>2. x - Base(a) \in Nat /\ x - Base(a) < n
    BY <1>1, <1>2, <2>1
  <2> QED
    BY <2>2
<1> QED
  BY <1>2 DEF Stored, Contents

\* What an access stores are bytes.
LEMMA EffectType ==
  ASSUME NEW w \in Workers, TypeOK, Asked(w), FilePlace(w), BlockPlace(w)
  PROVE  /\ pc[w] = "head_write" =>
               Stored(off[w], 4, HeadBytes(w)) \in [Addresses -> Bytes]
         /\ pc[w] = "tail_write" =>
               Stored(off[w], 4, TailBytes(w)) \in [Addresses -> Bytes]
         /\ pc[w] = "body" /\ req[w].kind = "write" =>
               /\ left[w] - ((off[w] + left[w]) % 4) \in Nat
               /\ left[w] - ((off[w] + left[w]) % 4) <= left[w]
               /\ Stored(off[w], left[w] - ((off[w] + left[w]) % 4), BodyBytes(w))
                     \in [Addresses -> Bytes]
         /\ pc[w] = "block" =>
               Stored(off[w], 4, BlockBytes(w)) \in [Addresses -> Bytes]
         /\ Effect(w) \in [Addresses -> Bytes]
<1>1. /\ off[w] \in Nat /\ left[w] \in Nat /\ pos[w] \in Nat
      /\ word[w] \in [0..3 -> Bytes]
  BY ConstantsType DEF TypeOK, Locals, Contents
<1>2. ASSUME pc[w] = "head_write"
      PROVE  Stored(off[w], 4, HeadBytes(w)) \in [Addresses -> Bytes]
  <2>1. \A i \in 0..3 : off[w] % 4 <= i => i - (off[w] % 4) \in Nat
    BY <1>1
  <2>2. \A i \in 0..3 : HeadBytes(w)[i] \in Bytes
    BY <1>1, <2>1, ByteType DEF HeadBytes
  <2>3. \A i \in Nat : i < 4 => i \in 0..3
    OBVIOUS
  <2> QED
    BY <1>1, <2>2, <2>3, StoredType DEF TypeOK
<1>3. ASSUME pc[w] = "tail_write"
      PROVE  Stored(off[w], 4, TailBytes(w)) \in [Addresses -> Bytes]
  <2>1. \A i \in 0..3 : TailBytes(w)[i] \in Bytes
    BY <1>1, ByteType DEF TailBytes
  <2>2. \A i \in Nat : i < 4 => i \in 0..3
    OBVIOUS
  <2> QED
    BY <1>1, <2>1, <2>2, StoredType DEF TypeOK
<1>4. ASSUME pc[w] = "body", req[w].kind = "write"
      PROVE  /\ left[w] - ((off[w] + left[w]) % 4) \in Nat
             /\ left[w] - ((off[w] + left[w]) % 4) <= left[w]
             /\ Stored(off[w], left[w] - ((off[w] + left[w]) % 4), BodyBytes(w))
                   \in [Addresses -> Bytes]
  <2> DEFINE m == (off[w] + left[w]) % 4
  <2>1. off[w] + left[w] \in Nat
    BY <1>1
  <2>2. m \in 0..3 /\ m <= left[w]
    BY <1>4, <2>1 DEF FilePlace
  <2>3. \A i \in Nat : BodyBytes(w)[i] \in Bytes
    BY <1>1, ByteType DEF BodyBytes
  <2> HIDE DEF m
  <2>4. left[w] - m \in Nat /\ left[w] - m <= left[w]
    BY <1>1, <2>2
  <2>5. Stored(off[w], left[w] - m, BodyBytes(w)) \in [Addresses -> Bytes]
    BY <1>1, <2>3, <2>4, StoredType DEF TypeOK
  <2> QED
    BY <2>4, <2>5 DEF m
<1>5. ASSUME pc[w] = "block"
      PROVE  Stored(off[w], 4, BlockBytes(w)) \in [Addresses -> Bytes]
  <2>1. req[w].offset \in Nat /\ req[w].offset <= off[w]
    BY <1>5, BlockStores
  <2>2. \A i \in 0..3 : (off[w] - req[w].offset) + i \in Nat
    BY <1>1, <2>1
  <2>3. \A i \in 0..3 : BlockBytes(w)[i] \in Bytes
    BY <2>2, ByteType DEF BlockBytes
  <2>4. \A i \in Nat : i < 4 => i \in 0..3
    OBVIOUS
  <2> QED
    BY <1>1, <2>3, <2>4, StoredType DEF TypeOK
<1>6. Effect(w) \in [Addresses -> Bytes]
  BY <1>2, <1>3, <1>4, <1>5 DEF Effect, TypeOK, Contents
<1> QED
  BY <1>2, <1>3, <1>4, <1>5, <1>6

\* So is what it leaves when it is cut off.
LEMMA CutOffType ==
  ASSUME NEW w \in Workers, TypeOK, Asked(w), FilePlace(w), BlockPlace(w), CutOff(w)
  PROVE  mem' \in [Addresses -> Bytes]
<1>1. Effect(w) \in [Addresses -> Bytes] /\ mem \in [Addresses -> Bytes]
  BY EffectType DEF TypeOK, Contents
<1>2. Garbage \in Bytes
  BY DEF Garbage, Bytes
<1>3. PICK j, k : mem' = Torn(w, j, k)
  BY DEF CutOff
<1> QED
  BY <1>1, <1>2, <1>3 DEF Torn

\* The DDR and the buffers hold bytes.
LEMMA ContentsStep ==
  ASSUME TypeOK, \A u \in Workers : Asked(u) /\ FilePlace(u) /\ BlockPlace(u),
         [Next]_vars
  PROVE  Contents'
<1>1. ASSUME NEW w \in Workers, NEW r \in Requests, Call(w, r)
      PROVE  Contents'
  BY <1>1
     DEF Call, Goto, lock, locals, module, TypeOK, Contents
<1>2. ASSUME NEW w \in Workers, Open(w) PROVE Contents'
  BY <1>2
     DEF Open, Goto, module, Lock!Acquire, TypeOK, Contents
<1>3. ASSUME NEW w \in Workers, OpenFails(w) PROVE Contents'
  <2>1. ZeroWord \in [0..3 -> Bytes] /\ <<>> \in Seq(Bytes)
    BY ByteType DEF ZeroWord, Garbage, Bytes
  <2> QED
    BY <1>3, <2>1 DEF OpenFails, Return, TypeOK, Contents
<1>4. ASSUME NEW w \in Workers, Reset(w) PROVE Contents'
  BY <1>4
     DEF Reset, Goto, lock, locals, TypeOK, Contents
<1>5. ASSUME NEW w \in Workers, ResetMissed(w) PROVE Contents'
  BY <1>5
     DEF ResetMissed, Goto, lock, locals, TypeOK, Contents
<1>6. ASSUME NEW w \in Workers, ReadHead(w) PROVE Contents'
  <2>1. /\ Asked(w) /\ FilePlace(w) /\ BlockPlace(w)
        /\ off[w] \in Nat /\ left[w] \in Nat
    BY ConstantsType DEF TypeOK, Locals
  <2> DEFINE m == off[w] % 4
             n == IF 4 - m > left[w] THEN left[w] ELSE 4 - m
             part == [i \in 1..n |-> WordAt(off[w])[m + i - 1]]
  <2>2. m \in 0..3 /\ n \in 0..4 /\ n <= 4 - m
    <3>1. m \in 0..3
      BY <2>1
    <3> HIDE DEF m
    <3> QED
      BY <2>1, <3>1
  <2>4. \A i \in 1..n : WordAt(off[w])[m + i - 1] \in Bytes
    <3>1. WordAt(off[w]) \in [0..3 -> Bytes]
      BY <2>1, WordType DEF TypeOK
    <3> HIDE DEF n, m
    <3>2. \A i \in 1..n : m + i - 1 \in 0..3
      BY <2>2
    <3> QED
      BY <3>1, <3>2
  <2> HIDE DEF n, m
  <2>5. part \in Seq(Bytes)
    BY <2>2, <2>4
  <2>6. out' = [out EXCEPT ![w] = part]
    BY <1>6 DEF ReadHead, n, m
  <2> HIDE DEF part
  <2> QED
    BY <1>6, <2>5, <2>6 DEF ReadHead, TypeOK, Contents
<1>7. ASSUME NEW w \in Workers, ReadBody(w) PROVE Contents'
  <2>1. /\ Asked(w) /\ FilePlace(w) /\ BlockPlace(w)
        /\ off[w] \in Nat /\ left[w] \in Nat
    BY ConstantsType DEF TypeOK, Locals
  <2> DEFINE m == (off[w] + left[w]) % 4
             n == left[w] - m
             part == [i \in 1..n |-> mem[Base(off[w]) + i - 1]]
  <2>2. /\ m \in 0..3 /\ m <= left[w] /\ Base(off[w]) = off[w]
        /\ off[w] + left[w] <= MemSize
    <3>1. /\ pc[w] = "body" /\ pc[w] \in Underway /\ req[w].kind \in File
      BY <1>7 DEF ReadBody, At, Underway, File
    <3>2. off[w] % 4 = 0 /\ m <= left[w]
      BY <2>1, <3>1 DEF FilePlace
    <3>3. ~EndsInHead(req[w])
      BY <1>7 DEF ReadBody, EndsInHead
    <3>4. off[w] + left[w] <= MemSize /\ off[w] + left[w] \in Nat
      BY <2>1, <3>1, <3>3, Places
    <3> QED
      BY <2>1, <3>2, <3>4, Word4
  <2> HIDE DEF m
  <2>3. n \in Nat /\ \A i \in 1..n : off[w] + i - 1 \in Addresses
    BY <2>1, <2>2, ConstantsType DEF Addresses
  <2>4. \A i \in 1..n : mem[Base(off[w]) + i - 1] \in Bytes
    BY <2>2, <2>3 DEF TypeOK, Contents
  <2> HIDE DEF n
  <2>5. part \in Seq(Bytes)
    BY <2>3, <2>4
  <2>6. out' = [out EXCEPT ![w] = @ \o part]
    BY <1>7 DEF ReadBody, n, m
  <2> HIDE DEF part
  <2>7. out[w] \o part \in Seq(Bytes)
    BY <2>5, ConcatProperties DEF TypeOK, Contents
  <2> QED
    BY <1>7, <2>6, <2>7 DEF ReadBody, TypeOK, Contents
<1>8. ASSUME NEW w \in Workers, ReadTail(w) PROVE Contents'
  <2>1. /\ Asked(w) /\ FilePlace(w) /\ BlockPlace(w)
        /\ off[w] \in Nat /\ left[w] \in Nat
    BY ConstantsType DEF TypeOK, Locals
  <2> DEFINE part == [i \in 1..left[w] |-> WordAt(off[w])[i - 1]]
  <2>2. left[w] \in 1..3
    BY <1>8, <2>1 DEF ReadTail, At, FilePlace
  <2>3. \A i \in 1..left[w] : i - 1 \in 0..3
    BY <2>2
  <2>4. \A i \in 1..left[w] : WordAt(off[w])[i - 1] \in Bytes
    BY <2>1, <2>3, WordType DEF TypeOK
  <2>5. part \in Seq(Bytes)
    BY <2>1, <2>4
  <2>6. out' = [out EXCEPT ![w] = @ \o part]
    BY <1>8 DEF ReadTail
  <2> HIDE DEF part
  <2>7. out[w] \o part \in Seq(Bytes)
    BY <2>5, ConcatProperties DEF TypeOK, Contents
  <2> QED
    BY <1>8, <2>6, <2>7 DEF ReadTail, TypeOK, Contents
<1>9. ASSUME NEW w \in Workers, LoadWord(w) PROVE Contents'
  <2>1. WordAt(off[w]) \in [0..3 -> Bytes]
    BY WordType DEF TypeOK, Locals
  <2> QED
    BY <1>9, <2>1 DEF LoadWord, TypeOK, Contents
<1>10. ASSUME NEW w \in Workers, WriteHead(w) PROVE Contents'
  <2>1. /\ Asked(w) /\ FilePlace(w) /\ BlockPlace(w)
        /\ off[w] \in Nat /\ left[w] \in Nat
    BY ConstantsType DEF TypeOK, Locals
  <2>2. mem' \in [Addresses -> Bytes]
    BY <1>10, <2>1, EffectType DEF WriteHead, At, TypeOK, Control
  <2> QED
    BY <1>10, <2>2 DEF WriteHead, TypeOK, Contents
<1>11. ASSUME NEW w \in Workers, WriteBody(w) PROVE Contents'
  <2>1. /\ Asked(w) /\ FilePlace(w) /\ BlockPlace(w)
        /\ off[w] \in Nat /\ left[w] \in Nat
    BY ConstantsType DEF TypeOK, Locals
  <2>2. mem' \in [Addresses -> Bytes]
    BY <1>11, <2>1, EffectType DEF WriteBody, At, TypeOK, Control
  <2> QED
    BY <1>11, <2>2 DEF WriteBody, TypeOK, Contents
<1>12. ASSUME NEW w \in Workers, WriteTail(w) PROVE Contents'
  <2>1. /\ Asked(w) /\ FilePlace(w) /\ BlockPlace(w)
        /\ off[w] \in Nat /\ left[w] \in Nat
    BY ConstantsType DEF TypeOK, Locals
  <2>2. mem' \in [Addresses -> Bytes]
    BY <1>12, <2>1, EffectType DEF WriteTail, At, TypeOK, Control
  <2> QED
    BY <1>12, <2>2 DEF WriteTail, TypeOK, Contents
<1>13. ASSUME NEW w \in Workers, Reg(w) PROVE Contents'
  BY <1>13
     DEF Reg, At, Goto, lock, locals, module, TypeOK, Contents
<1>14. ASSUME NEW w \in Workers, Block(w) PROVE Contents'
  <2>1. /\ Asked(w) /\ FilePlace(w) /\ BlockPlace(w)
        /\ off[w] \in Nat /\ left[w] \in Nat
    BY ConstantsType DEF TypeOK, Locals
  <2> DEFINE part == [i \in 1..4 |-> mem[off[w] + i - 1]]
  <2>2. /\ off[w] + 4 <= MemSize + 1 /\ pc[w] = "block"
    <3>1. /\ pc[w] = "block" /\ req[w].offset \in Nat /\ req[w].size \in Nat
          /\ off[w] + 4 <= req[w].offset + req[w].size
          /\ req[w].offset + req[w].size <= MemSize + 1
      BY <1>14, <2>1, BlockStores DEF Block, At
    <3> QED
      BY <2>1, <3>1, ConstantsType
  <2>3. \A i \in 1..4 : off[w] + i - 1 \in Addresses
    BY <2>1, <2>2, ConstantsType DEF Addresses
  <2>4. part \in Seq(Bytes)
    BY <2>3 DEF TypeOK, Contents
  <2> HIDE DEF part
  <2>5. out[w] \o part \in Seq(Bytes)
    BY <2>4, ConcatProperties DEF TypeOK, Contents
  <2>6. CASE req[w].kind = "ddr_write"
    <3>1. mem' \in [Addresses -> Bytes]
      BY <1>14, <2>1, <2>2, <2>6, EffectType DEF Block
    <3> QED
      BY <1>14, <2>6, <3>1 DEF Block, TypeOK, Contents
  <2>7. CASE req[w].kind # "ddr_write"
    <3>1. out' = [out EXCEPT ![w] = @ \o part] /\ mem' = mem
      BY <1>14, <2>7 DEF Block, part
    <3> QED
      BY <1>14, <2>5, <3>1 DEF Block, TypeOK, Contents
  <2> QED
    BY <2>6, <2>7
<1>15. ASSUME NEW w \in Workers, DebugSend(w) PROVE Contents'
  BY <1>15
     DEF DebugSend, At, Goto, lock, locals, module, TypeOK, Contents
<1>16. ASSUME NEW w \in Workers, DebugReceive(w) PROVE Contents'
  BY <1>16
     DEF DebugReceive, At, Goto, lock, locals, module, TypeOK, Contents
<1>17. ASSUME NEW w \in Workers, Fails(w) PROVE Contents'
  <2>1. mem' \in [Addresses -> Bytes]
    BY <1>17, CutOffType DEF Fails
  <2> QED
    BY <1>17, <2>1 DEF Fails, locals, TypeOK, Contents
<1>18. ASSUME NEW w \in Workers, BlockFails(w) PROVE Contents'
  <2>1. mem' \in [Addresses -> Bytes]
    BY <1>18, CutOffType DEF BlockFails
  <2> QED
    BY <1>18, <2>1 DEF BlockFails, TypeOK, Contents
<1>19. ASSUME NEW w \in Workers, Stray(w) PROVE Contents'
  BY <1>19
     DEF Stray, lock, locals, TypeOK, Contents
<1>20. ASSUME NEW w \in Workers, Close(w) PROVE Contents'
  <2>1. ZeroWord \in [0..3 -> Bytes] /\ <<>> \in Seq(Bytes)
    BY ByteType DEF ZeroWord, Garbage, Bytes
  <2> QED
    BY <1>20, <2>1 DEF Close, Return, TypeOK, Contents
<1>21. ASSUME NEW w \in Workers, Crash(w) PROVE Contents'
  <2>1. mem' \in [Addresses -> Bytes]
    BY <1>21, CutOffType DEF Crash, TypeOK, Contents
  <2>2. ZeroWord \in [0..3 -> Bytes] /\ <<>> \in Seq(Bytes)
    BY ByteType DEF ZeroWord, Garbage, Bytes
  <2> QED
    BY <1>21, <2>1, <2>2 DEF Crash, Return, TypeOK, Contents
<1>22. CASE Breach
  BY <1>22
     DEF Breach, Lock!Break, locals, module, TypeOK, Contents
<1>23. CASE UNCHANGED vars
  BY <1>23
     DEF vars, lock, locals, module, TypeOK, Contents
<1> QED
  BY <1>1, <1>2, <1>3, <1>4, <1>5, <1>6, <1>7, <1>8, <1>9, <1>10, <1>11, <1>12,
     <1>13, <1>14, <1>15, <1>16, <1>17, <1>18, <1>19, <1>20, <1>21, <1>22, <1>23
     DEF Next, Access

-----------------------------------------------------------------------------
(* What a session has written and read *)

\* The DDR with the bytes of a caller up to the address e, and the first n bytes
\* that it asked for.
WrittenTo(w, e) ==
    [x \in Addresses |-> IF req[w].offset <= x /\ x < e
                         THEN <<w, x - req[w].offset>> ELSE before[x]]
ReadTo(w, n) == [i \in 1..n |-> before[req[w].offset + i - 1]]

\* The steps of a session that has the lock.
Own(w) ==
    \/ Reset(w) \/ ResetMissed(w) \/ Access(w) \/ Fails(w) \/ BlockFails(w)
    \/ Close(w) \/ Crash(w)
Local(w) == <<pc[w], req[w], off[w], left[w], pos[w], word[w], out[w]>>

\* What the steps of a worker leave alone.
LEMMA Elsewhere ==
  ASSUME TypeOK, Held, [Next]_vars, ~broken, NEW v \in Workers, pc[v] \in Session
  PROVE  Own(v) \/ (UNCHANGED <<mem, before>> /\ Local(v)' = Local(v))
<1> SUFFICES ASSUME ~Own(v)
             PROVE  UNCHANGED <<mem, before>> /\ Local(v)' = Local(v)
  OBVIOUS
<1>0. ASSUME NEW w \in Workers, w # v, pc[w] \in Session
      PROVE  FALSE
  BY <1>0, OneSession
<1>1. ASSUME NEW w \in Workers, NEW r \in Requests, Call(w, r)
      PROVE  UNCHANGED <<mem, before>> /\ Local(v)' = Local(v)
  BY <1>1
     DEF Call, Goto, lock, locals, module, TypeOK, Control, Locals, Contents,
         Local, Session, DdrCalls
<1>2. ASSUME NEW w \in Workers, Open(w)
      PROVE  UNCHANGED <<mem, before>> /\ Local(v)' = Local(v)
  BY <1>2
     DEF Open, Goto, module, Lock!Acquire, TypeOK, Control, Held
<1>3. ASSUME NEW w \in Workers, OpenFails(w)
      PROVE  UNCHANGED <<mem, before>> /\ Local(v)' = Local(v)
  BY <1>3
     DEF OpenFails, Return, Goto, lock, locals, TypeOK, Control, Locals,
         Contents, Local, Session, DdrCalls
<1>4. ASSUME NEW w \in Workers, Reset(w)
      PROVE  UNCHANGED <<mem, before>> /\ Local(v)' = Local(v)
  BY <1>4, <1>0
     DEF Own, Access, Reset, Session, DdrCalls
<1>5. ASSUME NEW w \in Workers, ResetMissed(w)
      PROVE  UNCHANGED <<mem, before>> /\ Local(v)' = Local(v)
  BY <1>5, <1>0
     DEF Own, Access, ResetMissed, Session, DdrCalls
<1>6. ASSUME NEW w \in Workers, ReadHead(w)
      PROVE  UNCHANGED <<mem, before>> /\ Local(v)' = Local(v)
  BY <1>6, <1>0
     DEF Own, Access, ReadHead, Session, DdrCalls, At
<1>7. ASSUME NEW w \in Workers, ReadBody(w)
      PROVE  UNCHANGED <<mem, before>> /\ Local(v)' = Local(v)
  BY <1>7, <1>0
     DEF Own, Access, ReadBody, Session, DdrCalls, At
<1>8. ASSUME NEW w \in Workers, ReadTail(w)
      PROVE  UNCHANGED <<mem, before>> /\ Local(v)' = Local(v)
  BY <1>8, <1>0
     DEF Own, Access, ReadTail, Session, DdrCalls, At
<1>9. ASSUME NEW w \in Workers, LoadWord(w)
      PROVE  UNCHANGED <<mem, before>> /\ Local(v)' = Local(v)
  BY <1>9, <1>0
     DEF Own, Access, LoadWord, Session, DdrCalls
<1>10. ASSUME NEW w \in Workers, WriteHead(w)
      PROVE  UNCHANGED <<mem, before>> /\ Local(v)' = Local(v)
  BY <1>10, <1>0
     DEF Own, Access, WriteHead, Session, DdrCalls, At
<1>11. ASSUME NEW w \in Workers, WriteBody(w)
      PROVE  UNCHANGED <<mem, before>> /\ Local(v)' = Local(v)
  BY <1>11, <1>0
     DEF Own, Access, WriteBody, Session, DdrCalls, At
<1>12. ASSUME NEW w \in Workers, WriteTail(w)
      PROVE  UNCHANGED <<mem, before>> /\ Local(v)' = Local(v)
  BY <1>12, <1>0
     DEF Own, Access, WriteTail, Session, DdrCalls, At
<1>13. ASSUME NEW w \in Workers, Reg(w)
      PROVE  UNCHANGED <<mem, before>> /\ Local(v)' = Local(v)
  BY <1>13, <1>0
     DEF Own, Access, Reg, Session, DdrCalls, At
<1>14. ASSUME NEW w \in Workers, Block(w)
      PROVE  UNCHANGED <<mem, before>> /\ Local(v)' = Local(v)
  BY <1>14, <1>0
     DEF Own, Access, Block, Session, DdrCalls, At
<1>15. ASSUME NEW w \in Workers, DebugSend(w)
      PROVE  UNCHANGED <<mem, before>> /\ Local(v)' = Local(v)
  BY <1>15, <1>0
     DEF Own, Access, DebugSend, Session, DdrCalls, At
<1>16. ASSUME NEW w \in Workers, DebugReceive(w)
      PROVE  UNCHANGED <<mem, before>> /\ Local(v)' = Local(v)
  BY <1>16, <1>0
     DEF Own, Access, DebugReceive, Session, DdrCalls, At
<1>17. ASSUME NEW w \in Workers, Fails(w)
      PROVE  UNCHANGED <<mem, before>> /\ Local(v)' = Local(v)
  BY <1>17, <1>0
     DEF Own, Access, Fails, Session, DdrCalls, CutOff
<1>18. ASSUME NEW w \in Workers, BlockFails(w)
      PROVE  UNCHANGED <<mem, before>> /\ Local(v)' = Local(v)
  BY <1>18, <1>0
     DEF Own, Access, BlockFails, Session, DdrCalls, CutOff
<1>19. ASSUME NEW w \in Workers, Stray(w)
      PROVE  UNCHANGED <<mem, before>> /\ Local(v)' = Local(v)
  BY <1>19
     DEF Stray, lock, locals, TypeOK, Control, Locals, Contents, Local, Session,
         DdrCalls
<1>20. ASSUME NEW w \in Workers, Close(w)
      PROVE  UNCHANGED <<mem, before>> /\ Local(v)' = Local(v)
  BY <1>20, <1>0
     DEF Own, Access, Close, Session, DdrCalls
<1>21. ASSUME NEW w \in Workers, Crash(w)
      PROVE  UNCHANGED <<mem, before>> /\ Local(v)' = Local(v)
  BY <1>21, <1>0
     DEF Own, Access, Crash, Session, DdrCalls, CutOff
<1>22. CASE Breach
  BY <1>22
     DEF Breach, Lock!Break, locals, module, TypeOK, Control, Locals, Contents,
         Local, Session, DdrCalls
<1>23. CASE UNCHANGED vars
  BY <1>23
     DEF vars, lock, locals, module, Local
<1> QED
  BY <1>1, <1>2, <1>3, <1>4, <1>5, <1>6, <1>7, <1>8, <1>9, <1>10, <1>11, <1>12,
     <1>13, <1>14, <1>15, <1>16, <1>17, <1>18, <1>19, <1>20, <1>21, <1>22, <1>23
     DEF Next, Access

\* A session begins with its lock, and remembers the DDR it found.
LEMMA Begins ==
  ASSUME TypeOK, [Next]_vars, NEW v \in Workers, pc[v] \notin Session
  PROVE  pc[v]' \notin Session \/ Open(v)
<1>1. ASSUME NEW w \in Workers, NEW r \in Requests, Call(w, r)
      PROVE  pc[v]' \notin Session \/ Open(v)
  BY <1>1
     DEF Call, Goto, TypeOK, Control, Session, DdrCalls
<1>2. ASSUME NEW w \in Workers, Open(w)
      PROVE  pc[v]' \notin Session \/ Open(v)
  BY <1>2
     DEF Open, Goto, TypeOK, Control
<1>3. ASSUME NEW w \in Workers, OpenFails(w)
      PROVE  pc[v]' \notin Session \/ Open(v)
  BY <1>3
     DEF OpenFails, Return, Goto, TypeOK, Control, Session, DdrCalls
<1>4. ASSUME NEW w \in Workers, Reset(w)
      PROVE  pc[v]' \notin Session \/ Open(v)
  BY <1>4
     DEF Reset, Goto, TypeOK, Control, Session, DdrCalls
<1>5. ASSUME NEW w \in Workers, ResetMissed(w)
      PROVE  pc[v]' \notin Session \/ Open(v)
  BY <1>5
     DEF ResetMissed, Goto, TypeOK, Control, Session, DdrCalls
<1>6. ASSUME NEW w \in Workers, ReadHead(w)
      PROVE  pc[v]' \notin Session \/ Open(v)
  BY <1>6
     DEF ReadHead, At, Goto, TypeOK, Control, Session, DdrCalls
<1>7. ASSUME NEW w \in Workers, ReadBody(w)
      PROVE  pc[v]' \notin Session \/ Open(v)
  BY <1>7
     DEF ReadBody, At, Goto, TypeOK, Control, Session, DdrCalls
<1>8. ASSUME NEW w \in Workers, ReadTail(w)
      PROVE  pc[v]' \notin Session \/ Open(v)
  BY <1>8
     DEF ReadTail, At, Goto, TypeOK, Control, Session, DdrCalls
<1>9. ASSUME NEW w \in Workers, LoadWord(w)
      PROVE  pc[v]' \notin Session \/ Open(v)
  BY <1>9
     DEF LoadWord, Goto, TypeOK, Control, Session, DdrCalls
<1>10. ASSUME NEW w \in Workers, WriteHead(w)
      PROVE  pc[v]' \notin Session \/ Open(v)
  BY <1>10
     DEF WriteHead, At, Goto, TypeOK, Control, Session, DdrCalls
<1>11. ASSUME NEW w \in Workers, WriteBody(w)
      PROVE  pc[v]' \notin Session \/ Open(v)
  BY <1>11
     DEF WriteBody, At, Goto, TypeOK, Control, Session, DdrCalls
<1>12. ASSUME NEW w \in Workers, WriteTail(w)
      PROVE  pc[v]' \notin Session \/ Open(v)
  BY <1>12
     DEF WriteTail, At, Goto, TypeOK, Control, Session, DdrCalls
<1>13. ASSUME NEW w \in Workers, Reg(w)
      PROVE  pc[v]' \notin Session \/ Open(v)
  BY <1>13
     DEF Reg, At, Goto, TypeOK, Control, Session, DdrCalls
<1>14. ASSUME NEW w \in Workers, Block(w)
      PROVE  pc[v]' \notin Session \/ Open(v)
  BY <1>14
     DEF Block, NextBlock, At, Goto, TypeOK, Control, Session, DdrCalls
<1>15. ASSUME NEW w \in Workers, DebugSend(w)
      PROVE  pc[v]' \notin Session \/ Open(v)
  BY <1>15
     DEF DebugSend, At, Goto, TypeOK, Control, Session, DdrCalls
<1>16. ASSUME NEW w \in Workers, DebugReceive(w)
      PROVE  pc[v]' \notin Session \/ Open(v)
  BY <1>16
     DEF DebugReceive, At, Goto, TypeOK, Control, Session, DdrCalls
<1>17. ASSUME NEW w \in Workers, Fails(w)
      PROVE  pc[v]' \notin Session \/ Open(v)
  BY <1>17
     DEF Fails, CutOff, Goto, TypeOK, Control, Session, DdrCalls
<1>18. ASSUME NEW w \in Workers, BlockFails(w)
      PROVE  pc[v]' \notin Session \/ Open(v)
  BY <1>18
     DEF BlockFails, CutOff, NextBlock, Goto, TypeOK, Control, Session, DdrCalls
<1>19. ASSUME NEW w \in Workers, Stray(w)
      PROVE  pc[v]' \notin Session \/ Open(v)
  BY <1>19
     DEF Stray, TypeOK, Control, Session, DdrCalls
<1>20. ASSUME NEW w \in Workers, Close(w)
      PROVE  pc[v]' \notin Session \/ Open(v)
  BY <1>20
     DEF Close, Return, Goto, TypeOK, Control, Session, DdrCalls
<1>21. ASSUME NEW w \in Workers, Crash(w)
      PROVE  pc[v]' \notin Session \/ Open(v)
  BY <1>21
     DEF Crash, CutOff, Return, Goto, TypeOK, Control, Session, DdrCalls
<1>22. CASE Breach
  BY <1>22
     DEF Breach, TypeOK, Control, Session, DdrCalls
<1>23. CASE UNCHANGED vars
  BY <1>23
     DEF vars
<1> QED
  BY <1>1, <1>2, <1>3, <1>4, <1>5, <1>6, <1>7, <1>8, <1>9, <1>10, <1>11, <1>12,
     <1>13, <1>14, <1>15, <1>16, <1>17, <1>18, <1>19, <1>20, <1>21, <1>22, <1>23
     DEF Next, Access

\* Once the lock protocol is breached it stays so.
LEMMA BrokenStays ==
  ASSUME [Next]_vars
  PROVE  broken => broken'
<1>1. ASSUME NEW w \in Workers, NEW r \in Requests, Call(w, r)
      PROVE  broken => broken'
  BY <1>1
     DEF Call, lock
<1>2. ASSUME NEW w \in Workers, Open(w)
      PROVE  broken => broken'
  BY <1>2
     DEF Open, Lock!Acquire
<1>3. ASSUME NEW w \in Workers, OpenFails(w)
      PROVE  broken => broken'
  BY <1>3
     DEF OpenFails, lock
<1>4. ASSUME NEW w \in Workers, Reset(w)
      PROVE  broken => broken'
  BY <1>4
     DEF Reset, lock
<1>5. ASSUME NEW w \in Workers, ResetMissed(w)
      PROVE  broken => broken'
  BY <1>5
     DEF ResetMissed, lock
<1>6. ASSUME NEW w \in Workers, ReadHead(w)
      PROVE  broken => broken'
  BY <1>6
     DEF ReadHead, lock
<1>7. ASSUME NEW w \in Workers, ReadBody(w)
      PROVE  broken => broken'
  BY <1>7
     DEF ReadBody, lock
<1>8. ASSUME NEW w \in Workers, ReadTail(w)
      PROVE  broken => broken'
  BY <1>8
     DEF ReadTail, lock
<1>9. ASSUME NEW w \in Workers, LoadWord(w)
      PROVE  broken => broken'
  BY <1>9
     DEF LoadWord, lock
<1>10. ASSUME NEW w \in Workers, WriteHead(w)
      PROVE  broken => broken'
  BY <1>10
     DEF WriteHead, lock
<1>11. ASSUME NEW w \in Workers, WriteBody(w)
      PROVE  broken => broken'
  BY <1>11
     DEF WriteBody, lock
<1>12. ASSUME NEW w \in Workers, WriteTail(w)
      PROVE  broken => broken'
  BY <1>12
     DEF WriteTail, lock
<1>13. ASSUME NEW w \in Workers, Reg(w)
      PROVE  broken => broken'
  BY <1>13
     DEF Reg, lock
<1>14. ASSUME NEW w \in Workers, Block(w)
      PROVE  broken => broken'
  BY <1>14
     DEF Block, lock
<1>15. ASSUME NEW w \in Workers, DebugSend(w)
      PROVE  broken => broken'
  BY <1>15
     DEF DebugSend, lock
<1>16. ASSUME NEW w \in Workers, DebugReceive(w)
      PROVE  broken => broken'
  BY <1>16
     DEF DebugReceive, lock
<1>17. ASSUME NEW w \in Workers, Fails(w)
      PROVE  broken => broken'
  BY <1>17
     DEF Fails, lock
<1>18. ASSUME NEW w \in Workers, BlockFails(w)
      PROVE  broken => broken'
  BY <1>18
     DEF BlockFails, lock
<1>19. ASSUME NEW w \in Workers, Stray(w)
      PROVE  broken => broken'
  BY <1>19
     DEF Stray, lock
<1>20. ASSUME NEW w \in Workers, Close(w)
      PROVE  broken => broken'
  BY <1>20
     DEF Close, Lock!Release
<1>21. ASSUME NEW w \in Workers, Crash(w)
      PROVE  broken => broken'
  BY <1>21
     DEF Crash, Lock!Release
<1>22. CASE Breach
  BY <1>22
     DEF Breach, Lock!Break
<1>23. CASE UNCHANGED vars
  BY <1>23
     DEF vars, lock
<1> QED
  BY <1>1, <1>2, <1>3, <1>4, <1>5, <1>6, <1>7, <1>8, <1>9, <1>10, <1>11, <1>12,
     <1>13, <1>14, <1>15, <1>16, <1>17, <1>18, <1>19, <1>20, <1>21, <1>22, <1>23
     DEF Next, Access

\* A write that is done has put all its bytes into the DDR, a read has got them.
WroteAll(w) ==
    pc[w] = "close" /\ req[w].kind = "write" /\ ~broken /\ ~EndsInHead(req[w])
        => mem = WrittenTo(w, req[w].offset + req[w].size)
ReadAll(w) ==
    pc[w] = "close" /\ req[w].kind = "read" /\ ~broken
        => out[w] = ReadTo(w, req[w].size)

\* The two are what WriteExact and ReadExact ask of every worker.
LEMMA AllIsExact ==
  /\ WriteExact <=> \A w \in Workers : WroteAll(w)
  /\ ReadExact <=> \A w \in Workers : ReadAll(w)
  BY DEF WriteExact, Exact, ReadExact, WroteAll, ReadAll, WrittenTo, ReadTo, InRange

\* The next k bytes follow those written before.
LEMMA WroteMore ==
  ASSUME NEW w \in Workers, off[w] \in Nat, req[w].offset \in Nat,
         req[w].offset <= off[w], mem = WrittenTo(w, off[w]), NEW k \in Nat
  PROVE  Wrote(w, k) = WrittenTo(w, off[w] + k)
<1>1. ASSUME NEW x \in Addresses
      PROVE  Wrote(w, k)[x] = WrittenTo(w, off[w] + k)[x]
  <2>1. x \in Nat
    BY DEF Addresses
  <2>2. mem[x] = IF req[w].offset <= x /\ x < off[w]
                 THEN <<w, x - req[w].offset>> ELSE before[x]
    BY DEF WrittenTo
  <2> QED
    BY <2>1, <2>2 DEF Wrote, WrittenTo
<1> QED
  BY <1>1 DEF Wrote, WrittenTo

\* The bytes up to e are written, and e is where the request stands.
LEMMA WrittenNow ==
  ASSUME NEW v \in Workers, NEW e, before' = before, req[v]' = req[v],
         mem' = WrittenTo(v, e),
         pc[v]' \in Underway => off[v]' = e,
         pc[v]' = "close" => e = req[v].offset + req[v].size
  PROVE  WrittenSoFar(v)' /\ WroteAll(v)'
  BY DEF WrittenSoFar, WroteAll, WrittenTo

\* A write has put into the DDR what its place says, up to its end.
LEMMA WrittenStep ==
  ASSUME TypeOK, Held, NEW v \in Workers, Asked(v), FilePlace(v),
         WrittenSoFar(v), WordLoaded(v), WroteAll(v), [Next]_vars
  PROVE  WrittenSoFar(v)' /\ WroteAll(v)'
<1> SUFFICES ASSUME ~broken', req[v]'.kind = "write", ~EndsInHead(req[v]'),
                    pc[v]' \in Underway \cup {"close"}
             PROVE  WrittenSoFar(v)' /\ WroteAll(v)'
  BY DEF WrittenSoFar, WroteAll
<1>1. ~broken /\ pc[v]' \in Session
  BY BrokenStays DEF Underway, Session, DdrCalls
<1>2. CASE pc[v] \notin Session
  <2>1. Open(v)
    BY <1>1, <1>2, Begins
  <2>2. /\ before' = mem /\ mem' = mem /\ req[v]' = req[v]
        /\ pc[v]' = "reset" /\ off[v]' = req[v].offset
    BY <2>1 DEF Open, Goto, TypeOK, Control, Locals
  <2>3. req[v].offset \in Nat
    <3>1. req[v] \in Requests
      BY <2>1 DEF Open, Asked
    <3> QED
      BY <3>1, RequestType
  <2>4. \A x \in Addresses : ~(req[v].offset <= x /\ x < req[v].offset)
    BY <2>3 DEF Addresses
  <2>5. mem = [x \in Addresses |-> mem[x]]
    BY DEF TypeOK, Contents
  <2> QED
    BY <2>2, <2>4, <2>5 DEF WrittenSoFar, WroteAll
<1>3. CASE pc[v] \in Session /\ ~Own(v)
  <2>1. /\ before' = before /\ mem' = mem /\ req[v]' = req[v]
        /\ pc[v]' = pc[v] /\ off[v]' = off[v]
    BY <1>1, <1>3, Elsewhere DEF Local
  <2> QED
    BY <1>1, <2>1 DEF WrittenSoFar, WroteAll, WrittenTo
<1>4. CASE pc[v] \in Session /\ Own(v)
  <2>1. /\ pc[v] \in Underway /\ before' = before /\ req[v]' = req[v]
        /\ req[v].kind = "write" /\ req[v].kind \in File /\ ~EndsInHead(req[v])
        /\ \/ Reset(v) \/ ResetMissed(v)
           \/ LoadWord(v) \/ WriteHead(v) \/ WriteBody(v) \/ WriteTail(v)
    <3>1. CASE Reset(v)
      BY <1>1, <3>1, FirstIsCall
         DEF Reset, Goto, lock, locals, TypeOK, Control, Asked, Underway, File,
             Direct
    <3>2. CASE ResetMissed(v)
      BY <1>1, <3>2, FirstIsCall
         DEF ResetMissed, Goto, lock, locals, TypeOK, Control, Asked, Underway,
             File, Direct
    <3>3. CASE ReadHead(v)
      BY <1>1, <3>3
         DEF ReadHead, At, Move, Goto, lock, module, TypeOK, Control, Asked,
             Underway, File, Direct
    <3>4. CASE ReadBody(v)
      BY <1>1, <3>4
         DEF ReadBody, At, Move, Goto, lock, module, TypeOK, Control, Asked,
             Underway, File, Direct
    <3>5. CASE ReadTail(v)
      BY <1>1, <3>5
         DEF ReadTail, At, Goto, lock, module, TypeOK, Control, Asked, Underway,
             File, Direct
    <3>6. CASE LoadWord(v)
      BY <1>1, <3>6
         DEF LoadWord, Goto, lock, module, TypeOK, Control, Asked, Underway,
             File, Direct
    <3>7. CASE WriteHead(v)
      BY <1>1, <3>7
         DEF WriteHead, At, Move, Goto, lock, module, TypeOK, Control, Asked,
             Underway, File, Direct
    <3>8. CASE WriteBody(v)
      BY <1>1, <3>8
         DEF WriteBody, At, Move, Goto, lock, module, TypeOK, Control, Asked,
             Underway, File, Direct
    <3>9. CASE WriteTail(v)
      BY <1>1, <3>9
         DEF WriteTail, At, Goto, lock, module, TypeOK, Control, Asked,
             Underway, File, Direct
    <3>10. CASE Reg(v)
      BY <1>1, <3>10
         DEF Reg, At, Goto, lock, locals, module, TypeOK, Control, Asked,
             Underway, File, Direct
    <3>11. CASE Block(v)
      BY <1>1, <3>11
         DEF Block, NextBlock, At, Goto, lock, module, TypeOK, Control, Asked,
             Underway, File, Direct
    <3>12. CASE DebugSend(v)
      BY <1>1, <3>12
         DEF DebugSend, At, Goto, lock, locals, module, TypeOK, Control, Asked,
             Underway, File, Direct
    <3>13. CASE DebugReceive(v)
      BY <1>1, <3>13
         DEF DebugReceive, At, Goto, lock, locals, module, TypeOK, Control,
             Asked, Underway, File, Direct
    <3>14. CASE Fails(v)
      BY <1>1, <3>14
         DEF Fails, CutOff, Goto, lock, locals, TypeOK, Control, Asked,
             Underway, File, Direct
    <3>15. CASE BlockFails(v)
      BY <1>1, <3>15
         DEF BlockFails, CutOff, NextBlock, Goto, lock, TypeOK, Control, Asked,
             Underway, File, Direct
    <3>16. CASE Close(v)
      BY <1>1, <3>16
         DEF Close, Return, Goto, TypeOK, Control, Asked, Underway, File, Direct
    <3>17. CASE Crash(v)
      BY <1>1, <3>17
         DEF Crash, CutOff, Return, Goto, TypeOK, Control, Asked, Underway,
             File, Direct
    <3> QED
      BY <1>4, <3>1, <3>2, <3>3, <3>4, <3>5, <3>6, <3>7, <3>8, <3>9, <3>10,
         <3>11, <3>12, <3>13, <3>14, <3>15, <3>16, <3>17
         DEF Own, Access
  <2>2. /\ off[v] \in Nat /\ left[v] \in Nat /\ req[v].offset \in Nat
        /\ req[v].size \in Nat /\ req[v].offset <= off[v]
        /\ off[v] + left[v] = req[v].offset + req[v].size
    BY <2>1, Places
  <2>3. mem = WrittenTo(v, off[v])
    BY <1>1, <2>1 DEF WrittenSoFar, WrittenTo
  <2>4. CASE Reset(v) \/ ResetMissed(v)
    <3>1. /\ mem' = mem /\ off[v]' = off[v]
          /\ pc[v]' = FirstCall(v)
      BY <1>1, <2>1, <2>4 DEF Reset, ResetMissed, Goto, locals, TypeOK, Control
    <3>2. FirstCall(v) = "close" => left[v] = 0
      <4>1. req[v] \in Requests
        BY <2>1 DEF Asked, Underway
      <4> QED
        BY <2>1, <4>1, FirstIsCall DEF Stage
    <3>3. pc[v]' = "close" => off[v] = req[v].offset + req[v].size
      BY <2>2, <3>1, <3>2
    <3> QED
      BY <2>1, <2>3, <3>1, <3>3, WrittenNow
  <2>5. CASE LoadWord(v)
    <3>1. /\ mem' = mem /\ off[v]' = off[v] /\ pc[v]' \in Underway
      BY <2>5 DEF LoadWord, Goto, TypeOK, Control, Underway
    <3> QED
      BY <2>1, <2>3, <3>1, WrittenNow DEF Underway
  <2>6. CASE WriteHead(v)
    <3> DEFINE n == 4 - (off[v] % 4)
    <3>1. /\ n \in 1..3 /\ n <= left[v]
          /\ Stored(off[v], 4, HeadBytes(v)) = Wrote(v, n)
      BY <1>1, <2>6, HeadStores DEF WriteHead, At
    <3>2. /\ mem' = Stored(off[v], 4, HeadBytes(v)) /\ off[v]' = off[v] + n
          /\ pc[v]' = Stage(off[v] + n, left[v] - n)
      BY <2>6, <3>1 DEF WriteHead, Move, Goto, TypeOK, Control, Locals
    <3> HIDE DEF n
    <3>3. mem' = WrittenTo(v, off[v] + n)
      BY <2>2, <2>3, <3>1, <3>2, WroteMore
    <3>4. pc[v]' = "close" => off[v] + n = req[v].offset + req[v].size
      <4>1. pc[v]' = "close" => left[v] - n = 0
        BY <3>2 DEF Stage
      <4> QED
        BY <2>2, <3>1, <4>1
    <3> QED
      BY <2>1, <3>2, <3>3, <3>4, WrittenNow
  <2>7. CASE WriteBody(v)
    <3> DEFINE m == (off[v] + left[v]) % 4
               n == left[v] - m
    <3>1. /\ m \in 0..3 /\ n \in Nat /\ n <= left[v]
      <4>1. m <= left[v]
        BY <2>7 DEF WriteBody, At, FilePlace
      <4>2. m \in 0..3
        BY <2>2
      <4> HIDE DEF m
      <4> QED
        BY <2>2, <4>1, <4>2
    <3>2. /\ mem' = Stored(off[v], n, BodyBytes(v)) /\ off[v]' = off[v] + n
          /\ pc[v]' = IF m = 0 THEN "close" ELSE "tail"
      BY <2>7 DEF WriteBody, Move, Goto, TypeOK, Control, Locals
    <3> HIDE DEF n
    <3>3. mem' = WrittenTo(v, off[v] + n)
      <4>1. Stored(off[v], n, BodyBytes(v)) = Wrote(v, n)
        BY <2>1, <2>7, <3>1, BodyStores DEF WriteBody, At
      <4> QED
        BY <2>2, <2>3, <3>1, <3>2, <4>1, WroteMore
    <3>4. pc[v]' = "close" => off[v] + n = req[v].offset + req[v].size
      <4> HIDE DEF m
      <4>1. n = left[v] - m
        BY DEF n
      <4> QED
        BY <2>2, <3>1, <3>2, <4>1
    <3> QED
      BY <2>1, <3>2, <3>3, <3>4, WrittenNow
  <2>8. CASE WriteTail(v)
    <3>1. /\ mem' = Stored(off[v], 4, TailBytes(v)) /\ pc[v]' = "close"
      BY <2>8 DEF WriteTail, Goto, TypeOK, Control
    <3>2. Stored(off[v], 4, TailBytes(v)) = Wrote(v, left[v])
      BY <1>1, <2>8, TailStores DEF WriteTail, At
    <3>3. mem' = WrittenTo(v, off[v] + left[v])
      BY <2>2, <2>3, <3>1, <3>2, WroteMore
    <3> QED
      BY <2>1, <2>2, <3>1, <3>3, WrittenNow DEF Underway
  <2> QED
    BY <2>1, <2>4, <2>5, <2>6, <2>7, <2>8
<1> QED
  BY <1>2, <1>3, <1>4

\* The next k bytes follow those read before.
LEMMA ReadMore ==
  ASSUME NEW w \in Workers, NEW p \in Nat, NEW k \in Nat, req[w].offset \in Nat
  PROVE  ReadTo(w, p) \o [i \in 1..k |-> before[(req[w].offset + p) + i - 1]]
            = ReadTo(w, p + k)
<1> DEFINE S == {before[x] : x \in Nat}
           part == [i \in 1..k |-> before[(req[w].offset + p) + i - 1]]
           all == ReadTo(w, p + k)
<1>1. /\ ReadTo(w, p) \in Seq(S) /\ Len(ReadTo(w, p)) = p
      /\ \A i \in 1..p : ReadTo(w, p)[i] = before[req[w].offset + i - 1]
  <2>1. \A i \in 1..p : req[w].offset + i - 1 \in Nat
    OBVIOUS
  <2> QED
    BY <2>1 DEF ReadTo
<1>2. /\ part \in Seq(S) /\ Len(part) = k
      /\ \A i \in 1..k : part[i] = before[(req[w].offset + p) + i - 1]
  <2>1. \A i \in 1..k : (req[w].offset + p) + i - 1 \in Nat
    OBVIOUS
  <2> QED
    BY <2>1
<1>3. /\ all \in Seq(S) /\ Len(all) = p + k
      /\ \A i \in 1..(p + k) : all[i] = before[req[w].offset + i - 1]
  <2>1. \A i \in 1..(p + k) : req[w].offset + i - 1 \in Nat
    OBVIOUS
  <2> QED
    BY <2>1 DEF ReadTo
<1> HIDE DEF part, all, S
<1>4. /\ ReadTo(w, p) \o part \in Seq(S)
      /\ Len(ReadTo(w, p) \o part) = p + k
      /\ \A i \in 1..(p + k) : (ReadTo(w, p) \o part)[i] =
            IF i <= p THEN ReadTo(w, p)[i] ELSE part[i - p]
  BY <1>1, <1>2, ConcatProperties
<1>5. ASSUME NEW i \in 1..(p + k)
      PROVE  (ReadTo(w, p) \o part)[i] = all[i]
  <2>1. CASE i <= p
    <3>1. i \in 1..p
      BY <2>1
    <3> QED
      BY <1>1, <1>3, <1>4, <2>1, <3>1
  <2>2. CASE ~(i <= p)
    <3>1. i - p \in 1..k /\ (req[w].offset + p) + (i - p) - 1 = req[w].offset + i - 1
      BY <2>2
    <3> QED
      BY <1>2, <1>3, <1>4, <2>2, <3>1
  <2> QED
    BY <2>1, <2>2
<1>6. ReadTo(w, p) \o part = all
  BY <1>3, <1>4, <1>5, SeqEqual
<1> QED
  BY <1>6 DEF part, all

\* A word has the bytes of the DDR at its place.
LEMMA WordReads ==
  ASSUME NEW a \in Nat, NEW n \in Nat, (a % 4) + n <= 4, a + n <= MemSize
  PROVE  [i \in 1..n |-> WordAt(a)[(a % 4) + i - 1]]
            = [i \in 1..n |-> mem[a + i - 1]]
<1> DEFINE m == a % 4
           b == Base(a)
<1>1. m \in 0..3 /\ b \in Nat /\ b + m = a
  BY Word4
<1> HIDE DEF m, b
<1>2. ASSUME NEW i \in 1..n
      PROVE  WordAt(a)[m + i - 1] = mem[a + i - 1]
  <2>1. m + i - 1 \in 0..3 /\ b + (m + i - 1) = a + i - 1 /\ a + i - 1 \in Addresses
    BY <1>1, ConstantsType DEF Addresses, m
  <2>2. WordAt(a)[m + i - 1] = mem[b + (m + i - 1)]
    BY <2>1 DEF WordAt, b
  <2> QED
    BY <2>1, <2>2
<1> QED
  BY <1>2 DEF m

\* n bytes are read, and n is how far the request stands.
LEMMA ReadNow ==
  ASSUME NEW v \in Workers, NEW n, before' = before, mem' = before,
         req[v]' = req[v], out[v]' = ReadTo(v, n),
         pc[v]' \in Underway => pos[v]' = n,
         pc[v]' = "close" => n = req[v].size
  PROVE  ReadSoFar(v)' /\ ReadAll(v)'
  BY DEF ReadSoFar, ReadAll, ReadTo

\* A read has taken from the DDR what its place says, up to its end.
LEMMA ReadStep ==
  ASSUME TypeOK, Held, NEW v \in Workers, Asked(v), FilePlace(v),
         ReadSoFar(v), ReadAll(v), [Next]_vars
  PROVE  ReadSoFar(v)' /\ ReadAll(v)'
<1> SUFFICES ASSUME ~broken', req[v]'.kind = "read",
                    pc[v]' \in Underway \cup {"close"}
             PROVE  ReadSoFar(v)' /\ ReadAll(v)'
  BY DEF ReadSoFar, ReadAll
<1>1. ~broken /\ pc[v]' \in Session
  BY BrokenStays DEF Underway, Session, DdrCalls
<1>2. CASE pc[v] \notin Session
  <2>1. Open(v)
    BY <1>1, <1>2, Begins
  <2>2. /\ before' = mem /\ mem' = mem /\ req[v]' = req[v]
        /\ pc[v]' = "reset" /\ pos[v]' = pos[v] /\ out[v]' = out[v]
    BY <2>1 DEF Open, Goto, TypeOK, Control, Locals
  <2>3. pos[v] = 0 /\ out[v] = <<>>
    BY <2>1 DEF Open, Asked
  <2>4. [i \in 1..0 |-> before'[req[v].offset + i - 1]] = <<>>
    OBVIOUS
  <2> QED
    BY <2>2, <2>3, <2>4 DEF ReadSoFar, ReadAll
<1>3. CASE pc[v] \in Session /\ ~Own(v)
  <2>1. /\ before' = before /\ mem' = mem /\ req[v]' = req[v]
        /\ pc[v]' = pc[v] /\ pos[v]' = pos[v] /\ out[v]' = out[v]
    BY <1>1, <1>3, Elsewhere DEF Local
  <2> QED
    BY <1>1, <2>1 DEF ReadSoFar, ReadAll, ReadTo
<1>4. CASE pc[v] \in Session /\ Own(v)
  <2>1. /\ pc[v] \in Underway /\ before' = before /\ mem' = mem /\ req[v]' = req[v]
        /\ req[v].kind = "read" /\ req[v].kind \in File
        /\ \/ Reset(v) \/ ResetMissed(v)
           \/ ReadHead(v) \/ ReadBody(v) \/ ReadTail(v)
    <3>1. CASE Reset(v)
      BY <1>1, <3>1, FirstIsCall
         DEF Reset, Goto, lock, locals, TypeOK, Control, Asked, Underway, File,
             Direct
    <3>2. CASE ResetMissed(v)
      BY <1>1, <3>2, FirstIsCall
         DEF ResetMissed, Goto, lock, locals, TypeOK, Control, Asked, Underway,
             File, Direct
    <3>3. CASE ReadHead(v)
      BY <1>1, <3>3
         DEF ReadHead, At, Move, Goto, lock, module, TypeOK, Control, Asked,
             Underway, File, Direct
    <3>4. CASE ReadBody(v)
      BY <1>1, <3>4
         DEF ReadBody, At, Move, Goto, lock, module, TypeOK, Control, Asked,
             Underway, File, Direct
    <3>5. CASE ReadTail(v)
      BY <1>1, <3>5
         DEF ReadTail, At, Goto, lock, module, TypeOK, Control, Asked, Underway,
             File, Direct
    <3>6. CASE LoadWord(v)
      BY <1>1, <3>6
         DEF LoadWord, Goto, lock, module, TypeOK, Control, Asked, Underway,
             File, Direct
    <3>7. CASE WriteHead(v)
      BY <1>1, <3>7
         DEF WriteHead, At, Move, Goto, lock, module, TypeOK, Control, Asked,
             Underway, File, Direct
    <3>8. CASE WriteBody(v)
      BY <1>1, <3>8
         DEF WriteBody, At, Move, Goto, lock, module, TypeOK, Control, Asked,
             Underway, File, Direct
    <3>9. CASE WriteTail(v)
      BY <1>1, <3>9
         DEF WriteTail, At, Goto, lock, module, TypeOK, Control, Asked,
             Underway, File, Direct
    <3>10. CASE Reg(v)
      BY <1>1, <3>10
         DEF Reg, At, Goto, lock, locals, module, TypeOK, Control, Asked,
             Underway, File, Direct
    <3>11. CASE Block(v)
      BY <1>1, <3>11
         DEF Block, NextBlock, At, Goto, lock, module, TypeOK, Control, Asked,
             Underway, File, Direct
    <3>12. CASE DebugSend(v)
      BY <1>1, <3>12
         DEF DebugSend, At, Goto, lock, locals, module, TypeOK, Control, Asked,
             Underway, File, Direct
    <3>13. CASE DebugReceive(v)
      BY <1>1, <3>13
         DEF DebugReceive, At, Goto, lock, locals, module, TypeOK, Control,
             Asked, Underway, File, Direct
    <3>14. CASE Fails(v)
      BY <1>1, <3>14
         DEF Fails, CutOff, Goto, lock, locals, TypeOK, Control, Asked,
             Underway, File, Direct
    <3>15. CASE BlockFails(v)
      BY <1>1, <3>15
         DEF BlockFails, CutOff, NextBlock, Goto, lock, TypeOK, Control, Asked,
             Underway, File, Direct
    <3>16. CASE Close(v)
      BY <1>1, <3>16
         DEF Close, Return, Goto, TypeOK, Control, Asked, Underway, File, Direct
    <3>17. CASE Crash(v)
      BY <1>1, <3>17
         DEF Crash, CutOff, Return, Goto, TypeOK, Control, Asked, Underway,
             File, Direct
    <3> QED
      BY <1>4, <3>1, <3>2, <3>3, <3>4, <3>5, <3>6, <3>7, <3>8, <3>9, <3>10,
         <3>11, <3>12, <3>13, <3>14, <3>15, <3>16, <3>17
         DEF Own, Access
  <2>2. /\ off[v] \in Nat /\ left[v] \in Nat /\ pos[v] \in Nat
        /\ req[v].offset \in Nat /\ req[v].size \in Nat
        /\ off[v] = req[v].offset + pos[v]
        /\ pos[v] + left[v] = req[v].size
        /\ off[v] + left[v] <= MemSize /\ MemSize \in Nat
    <3>1. /\ off[v] \in Nat /\ left[v] \in Nat /\ pos[v] \in Nat
          /\ req[v].offset \in Nat /\ req[v].size \in Nat
          /\ req[v].offset <= off[v] /\ pos[v] = off[v] - req[v].offset
          /\ off[v] + left[v] = req[v].offset + req[v].size
          /\ req[v].offset + req[v].size <= MemSize
      <4>1. ~EndsInHead(req[v])
        BY <2>1 DEF EndsInHead
      <4> QED
        BY <2>1, <4>1, Places DEF File
    <3> QED
      BY <3>1, ConstantsType
  <2>3. mem = before /\ out[v] = ReadTo(v, pos[v])
    BY <1>1, <2>1 DEF ReadSoFar, ReadTo
  <2>4. CASE Reset(v) \/ ResetMissed(v)
    <3>1. /\ out[v]' = out[v] /\ pos[v]' = pos[v]
          /\ pc[v]' = FirstCall(v)
      BY <1>1, <2>1, <2>4 DEF Reset, ResetMissed, Goto, locals, TypeOK, Control
    <3>2. FirstCall(v) = "close" => left[v] = 0
      <4>1. req[v] \in Requests
        BY <2>1 DEF Asked, Underway
      <4> QED
        BY <2>1, <4>1, FirstIsCall DEF Stage
    <3>3. pc[v]' = "close" => pos[v] = req[v].size
      BY <2>2, <3>1, <3>2
    <3> QED
      BY <2>1, <2>3, <3>1, <3>3, ReadNow
  <2>5. CASE ReadHead(v)
    <3> DEFINE m == off[v] % 4
               n == IF 4 - m > left[v] THEN left[v] ELSE 4 - m
    <3>1. n \in Nat /\ n <= left[v] /\ m + n <= 4
      <4>1. m \in 0..3
        BY <2>2
      <4> HIDE DEF m
      <4> QED
        BY <2>2, <4>1
    <3>2. pos[v] = 0
      BY <2>1, <2>5 DEF ReadHead, At, FilePlace
    <3>3. /\ out[v]' = [i \in 1..n |-> WordAt(off[v])[m + i - 1]]
          /\ pos[v]' = pos[v] + n /\ pc[v]' = Stage(off[v] + n, left[v] - n)
      BY <2>5, <3>1 DEF ReadHead, Move, Goto, TypeOK, Control, Locals, Contents
    <3> HIDE DEF n
    <3>4. [i \in 1..n |-> WordAt(off[v])[m + i - 1]]
             = [i \in 1..n |-> mem[off[v] + i - 1]]
      <4>1. off[v] + n <= MemSize
        BY <2>2, <3>1
      <4> QED
        BY <2>2, <3>1, <4>1, WordReads
    <3> HIDE DEF m
    <3>5. pos[v] + n = n /\ off[v] = req[v].offset
      BY <2>2, <3>1, <3>2
    <3>6. out[v]' = ReadTo(v, n)
      BY <2>3, <3>3, <3>4, <3>5 DEF ReadTo
    <3>7. pc[v]' = "close" => n = req[v].size
      <4>1. pc[v]' = "close" => left[v] - n = 0
        BY <3>3 DEF Stage
      <4> QED
        BY <2>2, <3>1, <3>2, <4>1
    <3> QED
      BY <2>1, <2>3, <3>3, <3>5, <3>6, <3>7, ReadNow
  <2>6. CASE ReadBody(v)
    <3> DEFINE m == (off[v] + left[v]) % 4
               n == left[v] - m
    <3>1. /\ m \in 0..3 /\ n \in Nat /\ n <= left[v]
      <4>1. m <= left[v]
        BY <2>6 DEF ReadBody, At, FilePlace
      <4>2. m \in 0..3
        BY <2>2
      <4> HIDE DEF m
      <4> QED
        BY <2>2, <4>1, <4>2
    <3>2. Base(off[v]) = off[v]
      BY <2>2, <2>6, Word4 DEF ReadBody, At, FilePlace
    <3>3. /\ out[v]' = out[v] \o [i \in 1..n |-> mem[off[v] + i - 1]]
          /\ pos[v]' = pos[v] + n /\ pc[v]' = IF m = 0 THEN "close" ELSE "tail"
      BY <2>6, <3>2 DEF ReadBody, Move, Goto, TypeOK, Control, Locals, Contents
    <3> HIDE DEF n
    <3>4. out[v]' = ReadTo(v, pos[v] + n)
      <4>1. /\ out[v]' = ReadTo(v, pos[v])
                            \o [i \in 1..n |-> before[(req[v].offset + pos[v]) + i - 1]]
        BY <2>2, <2>3, <3>3
      <4> QED
        BY <2>2, <3>1, <4>1, ReadMore
    <3>5. pc[v]' = "close" => pos[v] + n = req[v].size
      <4> HIDE DEF m
      <4>1. n = left[v] - m
        BY DEF n
      <4> QED
        BY <2>2, <3>1, <3>3, <4>1
    <3> QED
      BY <2>1, <2>3, <3>3, <3>4, <3>5, ReadNow
  <2>7. CASE ReadTail(v)
    <3> DEFINE n == left[v]
    <3>1. off[v] % 4 = 0 /\ n \in 1..3
      BY <2>7 DEF ReadTail, At, FilePlace
    <3>2. /\ out[v]' = out[v] \o [i \in 1..n |-> WordAt(off[v])[i - 1]]
          /\ pc[v]' = "close"
      BY <2>7 DEF ReadTail, Goto, TypeOK, Control, Contents
    <3>3. [i \in 1..n |-> WordAt(off[v])[i - 1]]
             = [i \in 1..n |-> mem[off[v] + i - 1]]
      <4>1. [i \in 1..n |-> WordAt(off[v])[(off[v] % 4) + i - 1]]
               = [i \in 1..n |-> mem[off[v] + i - 1]]
        <5>1. n \in Nat /\ (off[v] % 4) + n <= 4 /\ off[v] + n <= MemSize
          BY <2>2, <3>1
        <5> HIDE DEF n
        <5> QED
          BY <2>2, <5>1, WordReads
      <4>2. \A i \in 1..n : (off[v] % 4) + i - 1 = i - 1
        BY <3>1
      <4> QED
        BY <4>1, <4>2
    <3>4. out[v]' = ReadTo(v, pos[v] + n)
      <4>1. /\ out[v]' = ReadTo(v, pos[v])
                            \o [i \in 1..n |-> before[(req[v].offset + pos[v]) + i - 1]]
        BY <2>2, <2>3, <3>2, <3>3
      <4>2. n \in Nat
        BY <2>2
      <4> HIDE DEF n
      <4> QED
        BY <2>2, <4>1, <4>2, ReadMore
    <3>5. pos[v] + n = req[v].size /\ mem' = before /\ pc[v]' \notin Underway
      BY <2>1, <2>2, <2>3, <3>2 DEF Underway
    <3> HIDE DEF n
    <3> QED
      BY <2>1, <3>4, <3>5, ReadNow
  <2> QED
    BY <2>1, <2>4, <2>5, <2>6, <2>7
<1> QED
  BY <1>2, <1>3, <1>4

\* The word a session is about to write back is what the DDR holds.
LEMMA WordStep ==
  ASSUME TypeOK, Held, NEW v \in Workers, Asked(v), WordLoaded(v), [Next]_vars
  PROVE  WordLoaded(v)'
<1> SUFFICES ASSUME ~broken', pc[v]' \in {"head_write", "tail_write"}
             PROVE  WordLoaded(v)'
  BY DEF WordLoaded
<1>1. ~broken /\ pc[v]' \in Session
  BY BrokenStays DEF Session, DdrCalls
<1>2. pc[v] \in Session
  BY <1>1, Begins DEF Open, Goto, TypeOK, Control
<1>3. CASE ~Own(v)
  <2>1. mem' = mem /\ pc[v]' = pc[v] /\ off[v]' = off[v] /\ word[v]' = word[v]
    BY <1>1, <1>2, <1>3, Elsewhere DEF Local
  <2> QED
    BY <1>1, <2>1 DEF WordLoaded, WordAt
<1>4. CASE Own(v)
  <2>1. LoadWord(v)
    <3>1. CASE Reset(v)
      BY <3>1, FirstIsCall
         DEF Reset, Goto, TypeOK, Control, Asked
    <3>2. CASE ResetMissed(v)
      BY <3>2, FirstIsCall
         DEF ResetMissed, Goto, TypeOK, Control, Asked
    <3>3. CASE ReadHead(v)
      BY <3>3
         DEF ReadHead, At, Goto, TypeOK, Control, Stage
    <3>4. CASE ReadBody(v)
      BY <3>4
         DEF ReadBody, At, Goto, TypeOK, Control
    <3>5. CASE ReadTail(v)
      BY <3>5
         DEF ReadTail, At, Goto, TypeOK, Control
    <3>6. CASE LoadWord(v)
      BY <3>6
    <3>7. CASE WriteHead(v)
      BY <3>7
         DEF WriteHead, At, Goto, TypeOK, Control, Stage
    <3>8. CASE WriteBody(v)
      BY <3>8
         DEF WriteBody, At, Goto, TypeOK, Control
    <3>9. CASE WriteTail(v)
      BY <3>9
         DEF WriteTail, At, Goto, TypeOK, Control
    <3>10. CASE Reg(v)
      BY <3>10
         DEF Reg, At, Goto, TypeOK, Control
    <3>11. CASE Block(v)
      BY <3>11
         DEF Block, NextBlock, At, Goto, TypeOK, Control
    <3>12. CASE DebugSend(v)
      BY <3>12
         DEF DebugSend, At, Goto, TypeOK, Control
    <3>13. CASE DebugReceive(v)
      BY <3>13
         DEF DebugReceive, At, Goto, TypeOK, Control
    <3>14. CASE Fails(v)
      BY <3>14
         DEF Fails, CutOff, Goto, TypeOK, Control
    <3>15. CASE BlockFails(v)
      BY <3>15
         DEF BlockFails, CutOff, NextBlock, Goto, TypeOK, Control
    <3>16. CASE Close(v)
      BY <3>16
         DEF Close, Return, Goto, TypeOK, Control
    <3>17. CASE Crash(v)
      BY <3>17
         DEF Crash, CutOff, Return, Goto, TypeOK, Control
    <3> QED
      BY <1>4, <3>1, <3>2, <3>3, <3>4, <3>5, <3>6, <3>7, <3>8, <3>9, <3>10,
         <3>11, <3>12, <3>13, <3>14, <3>15, <3>16, <3>17
         DEF Own, Access
  <2>2. mem' = mem /\ off[v]' = off[v] /\ word[v]' = WordAt(off[v])
    BY <2>1 DEF LoadWord, TypeOK, Contents
  <2> QED
    BY <2>2 DEF WordLoaded, WordAt
<1> QED
  BY <1>3, <1>4

-----------------------------------------------------------------------------
(* The invariant *)

\* The invariant holds at the start.
LEMMA Starts ==
  Init => IInv
<1> SUFFICES ASSUME Init PROVE IInv
  OBVIOUS
<1>1. Control /\ Flags
  <2>1. owners = {} /\ broken = FALSE
    BY DEF Init, Lock!Init
  <2>2. Control
    BY <2>1, ConstantsType DEF Init, Control
  <2>3. Flags
    BY <2>1 DEF Init, Flags
  <2> QED
    BY <2>2, <2>3
<1>2. Locals
  BY ConstantsType DEF Init, Locals
<1>3. Contents
  <2>1. \A a \in Addresses : Original(a) \in Bytes
    BY DEF Original, Bytes, Addresses
  <2>2. ZeroWord \in [0..3 -> Bytes] /\ <<>> \in Seq(Bytes)
    BY ByteType DEF ZeroWord, Garbage, Bytes
  <2> QED
    BY <2>1, <2>2 DEF Init, Contents
<1>4. Held
  BY DEF Init, Lock!Init, Held, Session, DdrCalls
<1>5. ASSUME NEW w \in Workers
      PROVE  /\ Asked(w) /\ FilePlace(w) /\ BlockPlace(w)
             /\ WrittenSoFar(w) /\ ReadSoFar(w) /\ WordLoaded(w) /\ SteppedIn(w)
  <2>1. pc[w] = "idle" /\ pos[w] = 0 /\ out[w] = <<>>
    BY DEF Init
  <2> QED
    BY <2>1 DEF Asked, FilePlace, BlockPlace, WrittenSoFar, ReadSoFar, WordLoaded,
                SteppedIn, Underway, DdrCalls
<1>6. WriteExact /\ ReadExact /\ InStep
  BY DEF Init, WriteExact, ReadExact, InStep
<1> QED
  BY <1>1, <1>2, <1>3, <1>4, <1>5, <1>6 DEF IInv, TypeOK

\* Every step keeps it.
LEMMA Preserved ==
  ASSUME IInv, [Next]_vars
  PROVE  IInv'
<1>1. /\ TypeOK /\ Control /\ Flags /\ Locals /\ Contents /\ Held /\ InStep
      /\ \A w \in Workers : /\ Asked(w) /\ FilePlace(w) /\ BlockPlace(w)
                            /\ WrittenSoFar(w) /\ ReadSoFar(w) /\ WordLoaded(w)
                            /\ SteppedIn(w)
      /\ \A w \in Workers : WroteAll(w) /\ ReadAll(w)
  BY AllIsExact DEF IInv, TypeOK
<1>2. Control'
  BY <1>1, ControlStep
<1>3. Flags'
  BY <1>1, FlagsStep
<1>4. Locals'
  BY <1>1, LocalsStep
<1>5. Contents'
  BY <1>1, ContentsStep
<1>6. Held'
  BY <1>1, HeldStep
<1>7. \A w \in Workers : Asked(w)'
  BY <1>1, AskedStep
<1>8. \A w \in Workers : FilePlace(w)'
  BY <1>1, FilePlaceStep
<1>9. \A w \in Workers : BlockPlace(w)'
  BY <1>1, BlockPlaceStep
<1>10. \A w \in Workers : WrittenSoFar(w)' /\ WroteAll(w)'
  BY <1>1, WrittenStep
<1>11. \A w \in Workers : ReadSoFar(w)' /\ ReadAll(w)'
  BY <1>1, ReadStep
<1>12. \A w \in Workers : WordLoaded(w)'
  BY <1>1, WordStep
<1>13. \A w \in Workers : SteppedIn(w)'
  BY <1>1, SteppedStep
<1>14. InStep'
  BY <1>1, InStepStep
<1>15. (WriteExact <=> \A w \in Workers : WroteAll(w))'
  BY DEF WriteExact, Exact, WroteAll, WrittenTo, InRange
<1>16. (ReadExact <=> \A w \in Workers : ReadAll(w))'
  BY DEF ReadExact, ReadAll, ReadTo
<1>17. WriteExact' /\ ReadExact'
  BY <1>10, <1>11, <1>15, <1>16
<1> QED
  BY <1>2, <1>3, <1>4, <1>5, <1>6, <1>7, <1>8, <1>9, <1>10, <1>11, <1>12, <1>13,
     <1>14, <1>17
     DEF IInv, TypeOK

\* The sessions over the DDR keep their invariant, for every number of workers,
\* requests, calls and bytes.
THEOREM FuseInvariant == Spec => []IInv
<1>1. Init => IInv
  BY Starts
<1>2. IInv /\ [Next]_vars => IInv'
  BY Preserved
<1> QED
  BY <1>1, <1>2, PTL DEF Spec

\* A write that reports success has put the bytes of its caller in their place and
\* no other, whoever else had the lock before, whatever it did to the DDR and wherever
\* the write starts, unless it ended inside its first word.
THEOREM WritesAreExact == Spec => []WriteExact
<1>1. IInv => WriteExact
  BY DEF IInv
<1> QED
  BY <1>1, FuseInvariant, PTL

\* A read that reports success returns the bytes of one moment.
THEOREM ReadsAreExact == Spec => []ReadExact
<1>1. IInv => ReadExact
  BY DEF IInv
<1> QED
  BY <1>1, FuseInvariant, PTL

\* A failed or killed access never brings the accesses of another session out of
\* step with the DDR module, if the reset of the interface, where it is not lost, puts
\* the module in step: that it does is an assumption of Reset, not in the code.
THEOREM StaysInStep == Spec => []InStep
<1>1. IInv => InStep
  BY DEF IInv
<1> QED
  BY <1>1, FuseInvariant, PTL
-----------------------------------------------------------------------------
(* The neighbours *)

\* Only the session of a writer stores.
LEMMA EffectOfWriter ==
  ASSUME IInv, NEW w \in Workers, Effect(w) # mem
  PROVE  req[w].kind \in {"write", "ddr_write"}
  BY DEF IInv, Asked, Effect

\* Every access that stores, completely or cut off, stores bytes of its caller at
\* their place.
LEMMA EffectIs ==
  ASSUME IInv, ~broken, NEW w \in Workers, ~EndsInHead(req[w]), Effect(w) # mem
  PROVE  /\ req[w].kind \in {"write", "ddr_write"} /\ pc[w] \in Session
         /\ \E k \in Nat : /\ Effect(w) = Wrote(w, k)
                           /\ req[w].offset \in Nat /\ off[w] \in Nat
                           /\ req[w].size \in Nat /\ req[w].offset <= off[w]
                           /\ off[w] + k <= req[w].offset + req[w].size
<1>1. /\ TypeOK /\ Asked(w) /\ FilePlace(w) /\ BlockPlace(w) /\ WordLoaded(w)
  BY DEF IInv
<1>2. CASE pc[w] = "head_write"
  <2>1. /\ pc[w] \in Underway /\ req[w].kind = "write" /\ req[w].kind \in File
    BY <1>1, <1>2 DEF Asked, Underway, File
  <2> DEFINE k == 4 - (off[w] % 4)
  <2>2. /\ Effect(w) = Wrote(w, k) /\ k \in 1..3 /\ k <= left[w]
    BY <1>1, <1>2, HeadStores DEF Effect
  <2> HIDE DEF k
  <2>3. /\ req[w].offset \in Nat /\ off[w] \in Nat /\ req[w].size \in Nat
        /\ req[w].offset <= off[w] /\ left[w] \in Nat
        /\ off[w] + left[w] = req[w].offset + req[w].size
    BY <1>1, <2>1, Places
  <2>4. k \in Nat /\ off[w] + k <= req[w].offset + req[w].size
    BY <2>2, <2>3
  <2> QED
    BY <1>2, <2>1, <2>2, <2>3, <2>4 DEF Session, DdrCalls
<1>3. CASE pc[w] = "tail_write"
  <2>1. /\ pc[w] \in Underway /\ req[w].kind = "write" /\ req[w].kind \in File
    BY <1>1, <1>3 DEF Asked, Underway, File
  <2>2. Effect(w) = Wrote(w, left[w])
    BY <1>1, <1>3, TailStores DEF Effect
  <2>3. /\ req[w].offset \in Nat /\ off[w] \in Nat /\ req[w].size \in Nat
        /\ req[w].offset <= off[w] /\ left[w] \in Nat
        /\ off[w] + left[w] = req[w].offset + req[w].size
    BY <1>1, <2>1, Places
  <2> QED
    BY <1>3, <2>1, <2>2, <2>3 DEF Session, DdrCalls
<1>4. CASE pc[w] = "body" /\ req[w].kind = "write"
  <2>1. /\ pc[w] \in Underway /\ req[w].kind \in File
    BY <1>4 DEF Underway, File
  <2> DEFINE k == left[w] - ((off[w] + left[w]) % 4)
  <2>2. k \in Nat /\ k <= left[w]
    BY <1>1, <1>4, EffectType
  <2>3. Effect(w) = Stored(off[w], k, BodyBytes(w))
    BY <1>4 DEF Effect
  <2> HIDE DEF k
  <2>4. Effect(w) = Wrote(w, k)
    BY <1>1, <1>4, <2>2, <2>3, BodyStores
  <2>5. /\ req[w].offset \in Nat /\ off[w] \in Nat /\ req[w].size \in Nat
        /\ req[w].offset <= off[w] /\ left[w] \in Nat
        /\ off[w] + left[w] = req[w].offset + req[w].size
    BY <1>1, <2>1, Places
  <2>6. off[w] + k <= req[w].offset + req[w].size
    BY <2>2, <2>5
  <2> QED
    BY <1>4, <2>2, <2>4, <2>5, <2>6 DEF Session, DdrCalls
<1>5. CASE pc[w] = "block" /\ req[w].kind = "ddr_write"
  <2>1. Effect(w) = Wrote(w, 4)
    BY <1>1, <1>5, BlockStores DEF Effect
  <2> QED
    BY <1>1, <1>5, <2>1, BlockStores DEF Session, DdrCalls
<1> QED
  BY <1>2, <1>3, <1>4, <1>5 DEF Effect

\* It changes no byte that its caller was not asked to write.
LEMMA EffectKeeps ==
  ASSUME IInv, ~broken, NEW w \in Workers, NEW x \in Addresses,
         Effect(w)[x] # mem[x]
  PROVE  /\ req[w].kind \in {"write", "ddr_write"}
         /\ EndsInHead(req[w]) \/ InRange(w, x)
<1>1. Effect(w) # mem
  OBVIOUS
<1>2. req[w].kind \in {"write", "ddr_write"}
  BY <1>1, EffectOfWriter
<1>3. ASSUME ~EndsInHead(req[w]) PROVE InRange(w, x)
  <2>1. PICK k \in Nat : /\ Effect(w) = Wrote(w, k)
                         /\ req[w].offset \in Nat /\ off[w] \in Nat
                         /\ req[w].size \in Nat /\ req[w].offset <= off[w]
                         /\ off[w] + k <= req[w].offset + req[w].size
    BY <1>1, <1>3, EffectIs
  <2>2. off[w] <= x /\ x < off[w] + k
    BY <2>1 DEF Wrote
  <2>3. x \in Nat
    BY DEF Addresses
  <2> QED
    BY <2>1, <2>2, <2>3 DEF InRange
<1> QED
  BY <1>2, <1>3

\* Nor does an access that is cut off: where it stores wrong bytes, they are those of
\* whole words of its body or its block.
LEMMA CutOffKeeps ==
  ASSUME IInv, ~broken, NEW w \in Workers, CutOff(w), NEW x \in Addresses,
         mem'[x] # mem[x]
  PROVE  /\ req[w].kind \in {"write", "ddr_write"}
         /\ EndsInHead(req[w]) \/ InRange(w, x)
<1>1. /\ TypeOK /\ Asked(w) /\ FilePlace(w) /\ BlockPlace(w)
      /\ off[w] \in Nat /\ left[w] \in Nat /\ x \in Nat
  BY ConstantsType DEF IInv, TypeOK, Locals, Addresses
<1>2. PICK j, k \in {n \in 0..Span(w) : n % 4 = 0} :
         /\ j <= k
         /\ j = k \/ k < Span(w) \/ pc[w] = "block"
         /\ mem' = Torn(w, j, k)
  BY DEF CutOff
<1>3. Base(off[w]) \in Nat
  BY <1>1, Word4
<1>4. CASE x < Base(off[w]) + j
  <2>1. mem'[x] = Effect(w)[x]
    BY <1>2, <1>4 DEF Torn
  <2> QED
    BY <2>1, EffectKeeps
<1>5. CASE ~(x < Base(off[w]) + j)
  <2>1. x < Base(off[w]) + k
    BY <1>2, <1>5 DEF Torn
  <2>2. /\ Span(w) \in Nat /\ k \in 1..Span(w) /\ j # k /\ k % 4 = 0 /\ j \in Nat
    <3>1. Span(w) \in Nat
      BY <1>1, EffectType DEF Span
    <3> QED
      BY <1>1, <1>2, <1>3, <1>5, <2>1, <3>1
  <2>3. pc[w] \notin {"head_write", "tail_write"}
    <3>1. ASSUME pc[w] \in {"head_write", "tail_write"} PROVE FALSE
      <4>1. Span(w) = 4 /\ pc[w] # "block"
        BY <3>1 DEF Span
      <4> QED
        BY <1>2, <2>2, <4>1
    <3> QED
      BY <3>1
  <2>4. CASE pc[w] = "body" /\ req[w].kind = "write"
    <3>1. ASSUME ~EndsInHead(req[w]) PROVE InRange(w, x)
      <4>1. pc[w] \in Underway /\ req[w].kind \in File
        BY <2>4 DEF Underway, File
      <4>2. /\ req[w].offset \in Nat /\ req[w].size \in Nat
            /\ req[w].offset <= off[w]
            /\ off[w] + left[w] = req[w].offset + req[w].size
        BY <1>1, <3>1, <4>1, Places
      <4>3. Base(off[w]) = off[w]
        BY <1>1, <2>4, Word4 DEF FilePlace
      <4>4. Span(w) <= left[w]
        BY <1>1, <2>4, EffectType DEF Span
      <4> QED
        BY <1>1, <1>2, <1>5, <2>1, <2>2, <4>2, <4>3, <4>4 DEF InRange
    <3> QED
      BY <2>4, <3>1
  <2>5. CASE pc[w] = "block" /\ req[w].kind = "ddr_write"
    <3>1. /\ off[w] \in Nat /\ req[w].offset \in Nat /\ req[w].size \in Nat
          /\ req[w].offset <= off[w] /\ off[w] + 4 <= req[w].offset + req[w].size
          /\ Base(off[w]) = off[w]
      BY <1>1, <2>5, BlockStores
    <3>2. Span(w) = 4
      BY <2>5 DEF Span
    <3> QED
      BY <1>1, <1>2, <1>5, <2>1, <2>2, <2>5, <3>1, <3>2 DEF InRange
  <2> QED
    BY <2>2, <2>3, <2>4, <2>5 DEF Span
<1> QED
  BY <1>4, <1>5

\* Only the session that has the lock stores: the effect of the access it makes, or
\* what is left of one that is cut off.
LEMMA StoresEffect ==
  ASSUME IInv, ~broken, Next
  PROVE  mem' = mem \/ \E w \in owners : mem' = Effect(w) \/ CutOff(w)
<1>0. TypeOK /\ Control /\ Held /\ \A w \in Workers : Asked(w)
  BY DEF IInv, TypeOK
<1>1. ASSUME NEW w \in Workers, NEW r \in Requests, Call(w, r)
      PROVE  mem' = mem
  BY <1>1
     DEF Call, locals
<1>2. ASSUME NEW w \in Workers, Open(w) PROVE mem' = mem
  BY <1>2
     DEF Open
<1>3. ASSUME NEW w \in Workers, OpenFails(w) PROVE mem' = mem
  BY <1>3
     DEF OpenFails
<1>4. ASSUME NEW w \in Workers, Reset(w) PROVE mem' = mem
  BY <1>4
     DEF Reset, locals
<1>5. ASSUME NEW w \in Workers, ResetMissed(w) PROVE mem' = mem
  BY <1>5
     DEF ResetMissed, locals
<1>6. ASSUME NEW w \in Workers, ReadHead(w) PROVE mem' = mem
  BY <1>6
     DEF ReadHead, At
<1>7. ASSUME NEW w \in Workers, ReadBody(w) PROVE mem' = mem
  BY <1>7
     DEF ReadBody, At
<1>8. ASSUME NEW w \in Workers, ReadTail(w) PROVE mem' = mem
  BY <1>8
     DEF ReadTail, At
<1>9. ASSUME NEW w \in Workers, LoadWord(w) PROVE mem' = mem
  BY <1>9
     DEF LoadWord
<1>10. ASSUME NEW w \in Workers, WriteHead(w)
      PROVE  mem' = mem \/ \E u \in owners : mem' = Effect(u) \/ CutOff(u)
  <2>1. w \in owners \/ (pc[w] = "reset" /\ mem' = mem)
    BY <1>0, <1>10
       DEF WriteHead, At, Held, Session, DdrCalls
  <2>2. mem' = mem \/ mem' = Effect(w)
    BY <1>0, <1>10
       DEF WriteHead, At, Effect, Asked
  <2> QED
    BY <2>1, <2>2
<1>11. ASSUME NEW w \in Workers, WriteBody(w)
      PROVE  mem' = mem \/ \E u \in owners : mem' = Effect(u) \/ CutOff(u)
  <2>1. w \in owners \/ (pc[w] = "reset" /\ mem' = mem)
    BY <1>0, <1>11
       DEF WriteBody, At, Held, Session, DdrCalls
  <2>2. mem' = mem \/ mem' = Effect(w)
    BY <1>0, <1>11
       DEF WriteBody, At, Effect, Asked
  <2> QED
    BY <2>1, <2>2
<1>12. ASSUME NEW w \in Workers, WriteTail(w)
      PROVE  mem' = mem \/ \E u \in owners : mem' = Effect(u) \/ CutOff(u)
  <2>1. w \in owners \/ (pc[w] = "reset" /\ mem' = mem)
    BY <1>0, <1>12
       DEF WriteTail, At, Held, Session, DdrCalls
  <2>2. mem' = mem \/ mem' = Effect(w)
    BY <1>0, <1>12
       DEF WriteTail, At, Effect, Asked
  <2> QED
    BY <2>1, <2>2
<1>13. ASSUME NEW w \in Workers, Reg(w) PROVE mem' = mem
  BY <1>13
     DEF Reg, At, locals
<1>14. ASSUME NEW w \in Workers, Block(w)
      PROVE  mem' = mem \/ \E u \in owners : mem' = Effect(u) \/ CutOff(u)
  <2>1. w \in owners \/ (pc[w] = "reset" /\ mem' = mem)
    BY <1>0, <1>14
       DEF Block, At, Held, Session, DdrCalls
  <2>2. mem' = mem \/ mem' = Effect(w)
    BY <1>0, <1>14
       DEF Block, At, Effect, Asked
  <2> QED
    BY <2>1, <2>2
<1>15. ASSUME NEW w \in Workers, DebugSend(w) PROVE mem' = mem
  BY <1>15
     DEF DebugSend, At, locals
<1>16. ASSUME NEW w \in Workers, DebugReceive(w) PROVE mem' = mem
  BY <1>16
     DEF DebugReceive, At, locals
<1>17. ASSUME NEW w \in Workers, Fails(w)
      PROVE  mem' = mem \/ \E u \in owners : mem' = Effect(u) \/ CutOff(u)
  <2>1. w \in owners /\ CutOff(w)
    BY <1>0, <1>17 DEF Fails, CutOff, Held, Session, DdrCalls
  <2> QED
    BY <2>1
<1>18. ASSUME NEW w \in Workers, BlockFails(w)
      PROVE  mem' = mem \/ \E u \in owners : mem' = Effect(u) \/ CutOff(u)
  <2>1. w \in owners /\ CutOff(w)
    BY <1>0, <1>18 DEF BlockFails, CutOff, Held, Session, DdrCalls
  <2> QED
    BY <2>1
<1>19. ASSUME NEW w \in Workers, Stray(w) PROVE mem' = mem
  BY <1>19
     DEF Stray, locals
<1>20. ASSUME NEW w \in Workers, Close(w) PROVE mem' = mem
  BY <1>20
     DEF Close
<1>21. ASSUME NEW w \in Workers, Crash(w)
      PROVE  mem' = mem \/ \E u \in owners : mem' = Effect(u) \/ CutOff(u)
  <2>1. mem' = mem \/ (w \in owners /\ CutOff(w))
    BY <1>0, <1>21 DEF Crash, CutOff, Held, Session, DdrCalls
  <2> QED
    BY <2>1
<1>22. CASE Breach
  BY <1>22
     DEF Breach, locals
<1> QED
  BY <1>1, <1>2, <1>3, <1>4, <1>5, <1>6, <1>7, <1>8, <1>9, <1>10, <1>11, <1>12,
     <1>13, <1>14, <1>15, <1>16, <1>17, <1>18, <1>19, <1>20, <1>21, <1>22
     DEF Next, Access

\* Whatever fails or dies in the middle, only bytes that the worker with the lock
\* was asked to write change.
THEOREM NeighboursAreKept == Spec => NeighboursKept
<1> DEFINE Kept == ~broken => \A x \in Addresses : mem'[x] # mem[x] =>
                      \E w \in owners :
                         /\ req[w].kind \in {"write", "ddr_write"}
                         /\ EndsInHead(req[w]) \/ InRange(w, x)
<1>1. IInv /\ [Next]_vars => [Kept]_vars
  <2> SUFFICES ASSUME IInv, Next, ~broken, NEW x \in Addresses, mem'[x] # mem[x]
               PROVE  \E w \in owners :
                         /\ req[w].kind \in {"write", "ddr_write"}
                         /\ EndsInHead(req[w]) \/ InRange(w, x)
    OBVIOUS
  <2>1. PICK w \in owners : mem' = Effect(w) \/ CutOff(w)
    BY StoresEffect
  <2>2. w \in Workers
    BY <2>1 DEF IInv, TypeOK, Control
  <2> QED
    BY <2>1, <2>2, EffectKeeps, CutOffKeeps
<1> QED
  BY <1>1, FuseInvariant, PTL DEF Spec, NeighboursKept
=============================================================================
