---------------------------- MODULE FicBusProofs ----------------------------
(***************************************************************************)
(* Theorems about FicBus, for every number of address, register, command   *)
(* and payload words, both boards, with and without faults of the pins.    *)
(*                                                                         *)
(* IInv is inductive, and each of its parts is preserved with the help of  *)
(* the parts before it: the types, what the pins are at each access        *)
(* (PinsOK), the word the driver is at (Position), that the FPGA is idle   *)
(* before an operation that follows a complete one (CleanStart), that it   *)
(* gives nothing while words are sent (SendsOnly), and then, while the Pi  *)
(* has not run ahead, that both sides count the same word (InStep).  What  *)
(* an operation has moved when it returns (Delivered) is InStep at its     *)
(* last access, and GivenUp is InStep at the access it was given up at.    *)
(* Every step of the bus is then one of BusPromise, or none.               *)
(***************************************************************************)
EXTENDS FicBus, TLAPS

\* The lengths of the operations.
LEMMA Lengths ==
    /\ Header \in Nat /\ Header > 1 /\ MaxWords \in Nat /\ Header < MaxWords
    /\ HlsWords \in Nat /\ HlsWords > 0 /\ CmdWords \in Nat /\ CmdWords > 0
    /\ \A o \in Ops :
          /\ SendLen(o) \in 1..MaxWords /\ RecvLen(o) \in 0..MaxWords
          /\ o \in Reads => SendLen(o) = Header /\ RecvLen(o) > 0
          /\ o \notin Reads => RecvLen(o) = 0
          /\ o = "hls_send" => SendLen(o) = Header + HlsWords
          /\ o = "hls_write" => SendLen(o) = Header + CmdWords + HlsWords
  BY BusAssumption DEF Header, MaxWords, SendLen, RecvLen, Ops, Reads

\* The number of words in the direction the operation is in.
LEMMA LastBound == Control => Last \in 0..MaxWords
  BY Lengths DEF Control, Last, Receiving

\* The driver stays at one of its accesses and within the words of an operation.
LEMMA ControlStep ==
  ASSUME Control, [Next]_vars
  PROVE  Control'
<1> USE DEF Control, Accesses, Setup, Stopped
<1>1. CASE Driver
  BY Lengths, LastBound, <1>1 DEF Driver, Release, DataOut, StbOut, StbClr,
     ReqOut, ReqClr, ResetStb, ReqSet, BadSize, Clear, Strobe, AckUp,
     AckTimeout, Sample, Drop, Unack, Turn, End, EndWait, AfterSetup, Finish,
     Abort, Goto, Written, NextWord, pins, fpga
<1>2. CASE Fpga
  BY Lengths, LastBound, <1>2 DEF Fpga, FpgaOpen, FpgaClose, FpgaTake,
     FpgaGive, FpgaUnack, driver, pins
<1>3. CASE \E o \in Ops : Call(o)
  BY Lengths, LastBound, <1>3 DEF Call, pins, fpga
<1>4. CASE UNCHANGED vars
  BY Lengths, LastBound, <1>4 DEF vars, driver, pins, fpga
<1> QED
  BY <1>1, <1>2, <1>3, <1>4 DEF Next

\* The words on the lines and the counters of the FPGA keep their types.
LEMMA WordsStep ==
  ASSUME Control, Words, [Next]_vars
  PROVE  Words'
<1> USE DEF Words, Control
<1>1. CASE Driver
  BY Lengths, <1>1 DEF Driver, Release, DataOut, StbOut, StbClr, ReqOut,
     ReqClr, ResetStb, ReqSet, BadSize, Clear, Strobe, AckUp, AckTimeout,
     Sample, Drop, Unack, Turn, End, EndWait, AfterSetup, Finish, Abort, Goto,
     Written, NextWord, pins, fpga
<1>2. CASE Fpga
  <2>1. Word[1] \in Ops \cup {"none"}
    BY DEF Word, NoWord
  <2> QED
    BY <2>1, Lengths, <1>2 DEF Fpga, FpgaOpen, FpgaClose, FpgaTake, FpgaGive,
       FpgaUnack, driver, pins
<1>3. CASE \E o \in Ops : Call(o)
  BY Lengths, <1>3 DEF Call, pins, fpga
<1>4. CASE UNCHANGED vars
  BY Lengths, <1>4 DEF vars, driver, pins, fpga
<1> QED
  BY <1>1, <1>2, <1>3, <1>4 DEF Next

\* So do the pins and the lines of the FPGA,
LEMMA LevelsStep ==
  ASSUME Levels, [Next]_vars
  PROVE  Levels'
<1> USE DEF Levels
<1>1. CASE Driver
  BY <1>1 DEF Driver, Release, DataOut, StbOut, StbClr, ReqOut, ReqClr,
     ResetStb, ReqSet, BadSize, Clear, Strobe, AckUp, AckTimeout, Sample, Drop,
     Unack, Turn, End, EndWait, AfterSetup, Finish, Abort, Goto, Written,
     NextWord, pins, fpga
<1>2. CASE Fpga
  BY <1>2 DEF Fpga, FpgaOpen, FpgaClose, FpgaTake, FpgaGive, FpgaUnack,
     driver, pins
<1>3. CASE \E o \in Ops : Call(o)
  BY <1>3 DEF Call, pins, fpga
<1>4. CASE UNCHANGED vars
  BY <1>4 DEF vars, driver, pins, fpga
<1> QED
  BY <1>1, <1>2, <1>3, <1>4 DEF Next

\* and the flags.
LEMMA FlagsStep ==
  ASSUME Levels, Flags, [Next]_vars
  PROVE  Flags'
<1> USE DEF Flags, Levels
<1>1. CASE Driver
  BY <1>1 DEF Driver, Release, DataOut, StbOut, StbClr, ReqOut, ReqClr,
     ResetStb, ReqSet, BadSize, Clear, Strobe, AckUp, AckTimeout, Sample, Drop,
     Unack, Turn, End, EndWait, AfterSetup, Finish, Abort, Goto, Written,
     NextWord, pins, fpga, FpgaDrives
<1>2. CASE Fpga
  BY <1>2 DEF Fpga, FpgaOpen, FpgaClose, FpgaTake, FpgaGive, FpgaUnack,
     driver, pins
<1>3. CASE \E o \in Ops : Call(o)
  BY <1>3 DEF Call, pins, fpga
<1>4. CASE UNCHANGED vars
  BY <1>4 DEF vars, driver, pins, fpga
<1> QED
  BY <1>1, <1>2, <1>3, <1>4 DEF Next

\* The FPGA acknowledges within a transaction only.
LEMMA FpgaStep ==
  ASSUME Words, FpgaOK, [Next]_vars
  PROVE  FpgaOK'
<1> USE DEF FpgaOK, Words
<1>1. CASE Driver
  BY <1>1 DEF Driver, Release, DataOut, StbOut, StbClr, ReqOut, ReqClr,
     ResetStb, ReqSet, BadSize, Clear, Strobe, AckUp, AckTimeout, Sample, Drop,
     Unack, Turn, End, EndWait, AfterSetup, Finish, Abort, Goto, Written,
     NextWord, pins, fpga
<1>2. CASE Fpga
  BY <1>2 DEF Fpga, FpgaOpen, FpgaClose, FpgaTake, FpgaGive, FpgaUnack,
     driver, pins
<1>3. CASE \E o \in Ops : Call(o)
  BY <1>3 DEF Call, pins, fpga
<1>4. CASE UNCHANGED vars
  BY <1>4 DEF vars, driver, pins, fpga
<1> QED
  BY <1>1, <1>2, <1>3, <1>4 DEF Next

\* Each access leaves the pins as the next one needs them.
LEMMA PinsStep ==
  ASSUME Control, Levels, Position, PinsOK, [Next]_vars
  PROVE  PinsOK'
<1> USE DEF PinsOK, Transfer, Resting, Accesses, Setup, Stopped, Control,
            Levels, Position, Receiving, Ops, Reads
<1>1. CASE Release
  BY <1>1 DEF Release, Goto, fpga
<1>2. CASE DataOut
  BY <1>2 DEF DataOut, Written, Goto, Abort, AfterSetup, fpga
<1>3. CASE StbOut
  BY <1>3 DEF StbOut, Goto, fpga
<1>4. CASE StbClr
  BY <1>4 DEF StbClr, Written, Goto, Abort, fpga
<1>5. CASE ReqOut
  BY <1>5 DEF ReqOut, Goto, fpga
<1>6. CASE ReqClr
  BY <1>6 DEF ReqClr, Written, Goto, Abort, AfterSetup, fpga
<1>7. CASE ResetStb
  BY <1>7 DEF ResetStb, Written, Goto, Abort, fpga
<1>8. CASE ReqSet
  BY <1>8 DEF ReqSet, Written, Goto, Abort, fpga
<1>9. CASE BadSize
  BY <1>9 DEF BadSize, Abort, pins, fpga
<1>10. CASE Clear
  BY <1>10 DEF Clear, Written, Goto, Abort, fpga
<1>11. CASE Strobe
  BY <1>11 DEF Strobe, Written, Goto, Abort, fpga
<1>12. CASE AckUp
  BY <1>12 DEF AckUp, Goto, pins, fpga
<1>13. CASE AckTimeout
  BY <1>13 DEF AckTimeout, Abort, pins, fpga
<1>14. CASE Sample
  BY <1>14 DEF Sample, pins, fpga
<1>15. CASE Drop
  BY <1>15 DEF Drop, Written, Goto, Abort, NextWord, fpga
<1>16. CASE Unack
  BY <1>16 DEF Unack, Goto, Abort, NextWord, pins, fpga
<1>17. CASE Turn
  BY <1>17 DEF Turn, fpga
<1>18. CASE End
  BY <1>18 DEF End, Written, Goto, Abort, fpga
<1>19. CASE EndWait
  <2>1. CASE ~freq /\ Finish
    BY <1>19, <2>1 DEF EndWait, Finish, fpga
  <2>2. CASE freq /\ Abort /\ UNCHANGED <<pins, fpga, overrun>>
    BY <1>19, <2>2 DEF EndWait, Abort, pins, fpga
  <2> QED
    BY <1>19, <2>1, <2>2 DEF EndWait
<1>20. CASE FpgaOpen
  BY <1>20 DEF FpgaOpen, driver, pins
<1>21. CASE FpgaClose
  BY <1>21 DEF FpgaClose, driver, pins
<1>22. CASE FpgaTake
  BY <1>22 DEF FpgaTake, driver, pins
<1>23. CASE FpgaGive
  BY <1>23 DEF FpgaGive, driver, pins
<1>24. CASE FpgaUnack
  BY <1>24 DEF FpgaUnack, driver, pins
<1>25. ASSUME NEW o \in Ops, Call(o) PROVE PinsOK'
  BY <1>25 DEF Call, pins, fpga
<1>26. CASE UNCHANGED vars
  BY <1>26 DEF vars, driver, pins, fpga
<1> QED
  BY <1>1, <1>2, <1>3, <1>4, <1>5, <1>6, <1>7, <1>8, <1>9, <1>10, <1>11,
     <1>12, <1>13, <1>14, <1>15, <1>16, <1>17, <1>18, <1>19, <1>20, <1>21,
     <1>22, <1>23, <1>24, <1>25, <1>26
  DEF Next, Driver, Fpga

\* The words are counted in each direction from the first to the last.
LEMMA PositionStep ==
  ASSUME Control, Levels, Flags, PinsOK, Position, [Next]_vars
  PROVE  Position'
<1> USE DEF Position, PinsOK, Transfer, Resting, Accesses, Setup, Stopped,
            Receiving, Fast, EndsSend, Hls, Ops, Reads, Control, Levels, Flags
<1>1. CASE Release
  BY Lengths, <1>1 DEF Release, Goto, fpga, Last
<1>2. CASE DataOut
  <2>1. CASE Abort
    BY Lengths, <1>2, <2>1 DEF DataOut, Abort, Last
  <2>2. CASE Goto(IF Mk2 THEN AfterSetup ELSE "stb_out")
    BY Lengths, <1>2, <2>2 DEF DataOut, Goto, AfterSetup, Last, fpga
  <2> QED
    BY <1>2, <2>1, <2>2 DEF DataOut, Written
<1>3. CASE StbOut
  BY Lengths, <1>3 DEF StbOut, Goto, fpga, Last
<1>4. CASE StbClr
  <2>1. CASE Abort
    BY Lengths, <1>4, <2>1 DEF StbClr, Abort, Last
  <2>2. CASE Goto("req_out")
    BY Lengths, <1>4, <2>2 DEF StbClr, Goto, Last, fpga
  <2> QED
    BY <1>4, <2>1, <2>2 DEF StbClr, Written
<1>5. CASE ReqOut
  BY Lengths, <1>5 DEF ReqOut, Goto, fpga, Last
<1>6. CASE ReqClr
  <2>1. CASE Abort
    BY Lengths, <1>6, <2>1 DEF ReqClr, Abort, Last
  <2>2. CASE Goto(IF Mk2 THEN "data_out" ELSE AfterSetup)
    BY Lengths, <1>6, <2>2 DEF ReqClr, Goto, AfterSetup, Last, fpga
  <2> QED
    BY <1>6, <2>1, <2>2 DEF ReqClr, Written
<1>7. CASE ResetStb
  BY Lengths, <1>7 DEF ResetStb, Written, Goto, Abort, fpga, Last
<1>8. CASE ReqSet
  <2>1. CASE Abort
    BY Lengths, <1>8, <2>1 DEF ReqSet, Abort, Last
  <2>2. CASE Goto("clear")
    BY Lengths, <1>8, <2>2 DEF ReqSet, Goto, Last, fpga
  <2> QED
    BY <1>8, <2>1, <2>2 DEF ReqSet, Written
<1>9. CASE BadSize
  BY Lengths, <1>9 DEF BadSize, Abort, pins, fpga, Last
<1>10. CASE Clear
  BY Lengths, <1>10 DEF Clear, Written, Goto, Abort, fpga, Last
<1>11. CASE Strobe
  BY Lengths, <1>11 DEF Strobe, Written, Goto, Abort, fpga, Last
<1>12. CASE AckUp
  BY Lengths, <1>12 DEF AckUp, Goto, pins, fpga, Last
<1>13. CASE AckTimeout
  BY Lengths, <1>13 DEF AckTimeout, Abort, pins, fpga, Last
<1>14. CASE Sample
  BY Lengths, <1>14 DEF Sample, pins, fpga, Last
<1>15. CASE Drop
  BY Lengths, <1>15 DEF Drop, Written, Goto, Abort, NextWord, fpga, Last
<1>16. CASE Unack
  BY Lengths, <1>16 DEF Unack, Goto, Abort, NextWord, pins, fpga, Last
<1>17. CASE Turn
  BY Lengths, <1>17 DEF Turn, fpga, Last
<1>18. CASE End
  BY Lengths, <1>18 DEF End, Written, Goto, Abort, fpga, Last
<1>19. CASE EndWait
  <2>1. CASE ~freq /\ Finish
    BY Lengths, <1>19, <2>1 DEF EndWait, Finish, fpga, Last
  <2>2. CASE freq /\ Abort /\ UNCHANGED <<pins, fpga, overrun>>
    BY Lengths, <1>19, <2>2 DEF EndWait, Abort, pins, fpga, Last
  <2> QED
    BY <1>19, <2>1, <2>2 DEF EndWait
<1>20. CASE FpgaOpen
  BY Lengths, <1>20 DEF FpgaOpen, driver, pins, Last
<1>21. CASE FpgaClose
  BY Lengths, <1>21 DEF FpgaClose, driver, pins, Last
<1>22. CASE FpgaTake
  BY Lengths, <1>22 DEF FpgaTake, driver, pins, Last
<1>23. CASE FpgaGive
  BY Lengths, <1>23 DEF FpgaGive, driver, pins, Last
<1>24. CASE FpgaUnack
  BY Lengths, <1>24 DEF FpgaUnack, driver, pins, Last
<1>25. ASSUME NEW o \in Ops, Call(o) PROVE Position'
  BY Lengths, <1>25 DEF Call, pins, fpga
<1>26. CASE UNCHANGED vars
  BY Lengths, <1>26 DEF vars, driver, pins, fpga, Last
<1> QED
  BY <1>1, <1>2, <1>3, <1>4, <1>5, <1>6, <1>7, <1>8, <1>9, <1>10, <1>11,
     <1>12, <1>13, <1>14, <1>15, <1>16, <1>17, <1>18, <1>19, <1>20, <1>21,
     <1>22, <1>23, <1>24, <1>25, <1>26
  DEF Next, Driver, Fpga

\* An operation that returns 0 leaves the FPGA idle.
LEMMA CleanStep ==
  ASSUME Control, Levels, Position, PinsOK, CleanStart, [Next]_vars
  PROVE  CleanStart'
<1> USE DEF CleanStart, Transfer, Resting, Accesses, Setup, Stopped, PinsOK,
            Position, Control, Levels
<1>1. CASE Release
  BY <1>1 DEF Release, Goto, fpga
<1>2. CASE DataOut
  BY <1>2 DEF DataOut, Written, Goto, Abort, AfterSetup, fpga
<1>3. CASE StbOut
  BY <1>3 DEF StbOut, Goto, fpga
<1>4. CASE StbClr
  BY <1>4 DEF StbClr, Written, Goto, Abort, fpga
<1>5. CASE ReqOut
  BY <1>5 DEF ReqOut, Goto, fpga
<1>6. CASE ReqClr
  BY <1>6 DEF ReqClr, Written, Goto, Abort, AfterSetup, fpga
<1>7. CASE ResetStb
  BY <1>7 DEF ResetStb, Written, Goto, Abort, fpga
<1>8. CASE ReqSet
  BY <1>8 DEF ReqSet, Written, Goto, Abort, fpga
<1>9. CASE BadSize
  BY <1>9 DEF BadSize, Abort, pins, fpga
<1>10. CASE Clear
  BY <1>10 DEF Clear, Written, Goto, Abort, fpga
<1>11. CASE Strobe
  BY <1>11 DEF Strobe, Written, Goto, Abort, fpga
<1>12. CASE AckUp
  BY <1>12 DEF AckUp, Goto, pins, fpga
<1>13. CASE AckTimeout
  BY <1>13 DEF AckTimeout, Abort, pins, fpga
<1>14. CASE Sample
  BY <1>14 DEF Sample, pins, fpga
<1>15. CASE Drop
  BY <1>15 DEF Drop, Written, Goto, Abort, NextWord, fpga
<1>16. CASE Unack
  BY <1>16 DEF Unack, Goto, Abort, NextWord, pins, fpga
<1>17. CASE Turn
  BY <1>17 DEF Turn, fpga
<1>18. CASE End
  BY <1>18 DEF End, Written, Goto, Abort, fpga
<1>19. CASE EndWait
  <2>1. CASE ~freq /\ Finish
    BY <1>19, <2>1 DEF EndWait, Finish, fpga
  <2>2. CASE freq /\ Abort /\ UNCHANGED <<pins, fpga, overrun>>
    BY <1>19, <2>2 DEF EndWait, Abort, pins, fpga
  <2> QED
    BY <1>19, <2>1, <2>2 DEF EndWait
<1>20. CASE FpgaOpen
  BY <1>20 DEF FpgaOpen, driver, pins, Req
<1>21. CASE FpgaClose
  BY <1>21 DEF FpgaClose, driver, pins
<1>22. CASE FpgaTake
  BY <1>22 DEF FpgaTake, driver, pins
<1>23. CASE FpgaGive
  BY <1>23 DEF FpgaGive, driver, pins
<1>24. CASE FpgaUnack
  BY <1>24 DEF FpgaUnack, driver, pins
<1>25. ASSUME NEW o \in Ops, Call(o) PROVE CleanStart'
  BY <1>25 DEF Call, pins, fpga
<1>26. CASE UNCHANGED vars
  BY <1>26 DEF vars, driver, pins, fpga
<1> QED
  BY <1>1, <1>2, <1>3, <1>4, <1>5, <1>6, <1>7, <1>8, <1>9, <1>10, <1>11,
     <1>12, <1>13, <1>14, <1>15, <1>16, <1>17, <1>18, <1>19, <1>20, <1>21,
     <1>22, <1>23, <1>24, <1>25, <1>26
  DEF Next, Driver, Fpga

\* While words are sent the FPGA has nothing to give.
LEMMA SendsOnlyStep ==
  ASSUME Control, Words, Levels, Flags, FpgaOK, PinsOK, Position, CleanStart, SendsOnly, InStep, [Next]_vars
  PROVE  SendsOnly'
<1> USE DEF Control, Words, Levels, Flags, FpgaOK, PinsOK, Position,
            CleanStart, SendsOnly, InStep, Transfer, Resting, Accesses, Setup, Stopped,
            Receiving, Taken, Fast, Hls, Ops, Reads, Req, Stb, Word, NoWord, Last
<1>1. CASE Release
  BY Lengths, <1>1 DEF Release, Goto, fpga
<1>2. CASE DataOut
  BY Lengths, <1>2 DEF DataOut, Written, Goto, Abort, AfterSetup, fpga
<1>3. CASE StbOut
  BY Lengths, <1>3 DEF StbOut, Goto, fpga
<1>4. CASE StbClr
  BY Lengths, <1>4 DEF StbClr, Written, Goto, Abort, fpga
<1>5. CASE ReqOut
  BY Lengths, <1>5 DEF ReqOut, Goto, fpga
<1>6. CASE ReqClr
  BY Lengths, <1>6 DEF ReqClr, Written, Goto, Abort, AfterSetup, fpga
<1>7. CASE ResetStb
  BY Lengths, <1>7 DEF ResetStb, Written, Goto, Abort, fpga
<1>8. CASE ReqSet
  BY Lengths, <1>8 DEF ReqSet, Written, Goto, Abort, fpga
<1>9. CASE BadSize
  BY Lengths, <1>9 DEF BadSize, Abort, pins, fpga
<1>10. CASE Clear
  BY Lengths, <1>10 DEF Clear, Written, Goto, Abort, fpga
<1>11. CASE Strobe
  BY Lengths, <1>11 DEF Strobe, Written, Goto, Abort, fpga
<1>12. CASE AckUp
  BY Lengths, <1>12 DEF AckUp, Goto, pins, fpga
<1>13. CASE AckTimeout
  BY Lengths, <1>13 DEF AckTimeout, Abort, pins, fpga
<1>14. CASE Sample
  BY Lengths, <1>14 DEF Sample, pins, fpga, FpgaDrives
<1>15. CASE Drop
  BY Lengths, <1>15 DEF Drop, Written, Goto, Abort, NextWord, fpga, EndsSend
<1>16. CASE Unack
  BY Lengths, <1>16 DEF Unack, Goto, Abort, NextWord, pins, fpga, EndsSend
<1>17. CASE Turn
  BY Lengths, <1>17 DEF Turn, fpga
<1>18. CASE End
  BY Lengths, <1>18 DEF End, Written, Goto, Abort, fpga
<1>19. CASE EndWait
  BY Lengths, <1>19 DEF EndWait, Finish, Abort, pins, fpga
<1>20. CASE FpgaOpen
  BY Lengths, <1>20 DEF FpgaOpen, driver, pins
<1>21. CASE FpgaClose
  BY Lengths, <1>21 DEF FpgaClose, driver, pins
<1>22. CASE FpgaTake
  BY Lengths, <1>22 DEF FpgaTake, driver, pins, Word, ReadPhase
<1>23. CASE FpgaGive
  BY Lengths, <1>23 DEF FpgaGive, driver, pins, Word, ReadPhase
<1>24. CASE FpgaUnack
  BY Lengths, <1>24 DEF FpgaUnack, driver, pins
<1>25. ASSUME NEW o \in Ops, Call(o) PROVE SendsOnly'
  BY Lengths, <1>25 DEF Call, pins, fpga
<1>26. CASE UNCHANGED vars
  BY Lengths, <1>26 DEF vars, driver, pins, fpga
<1> QED
  BY <1>1, <1>2, <1>3, <1>4, <1>5, <1>6, <1>7, <1>8, <1>9, <1>10, <1>11,
     <1>12, <1>13, <1>14, <1>15, <1>16, <1>17, <1>18, <1>19, <1>20, <1>21,
     <1>22, <1>23, <1>24, <1>25, <1>26
  DEF Next, Driver, Fpga

\* The two sides stay at the same word.
LEMMA InStepStep ==
  ASSUME Control, Words, Levels, Flags, FpgaOK, PinsOK, Position, CleanStart, SendsOnly, InStep, [Next]_vars
  PROVE  InStep'
<1> USE DEF Control, Words, Levels, Flags, FpgaOK, PinsOK, Position,
            CleanStart, SendsOnly, InStep, Transfer, Resting, Accesses, Setup, Stopped,
            Receiving, Taken, Fast, Hls, Ops, Reads, Req, Stb, Word, NoWord, Last
<1>1. CASE Release
  BY Lengths, <1>1 DEF Release, Goto, fpga
<1>2. CASE DataOut
  BY Lengths, <1>2 DEF DataOut, Written, Goto, Abort, AfterSetup, fpga
<1>3. CASE StbOut
  BY Lengths, <1>3 DEF StbOut, Goto, fpga
<1>4. CASE StbClr
  BY Lengths, <1>4 DEF StbClr, Written, Goto, Abort, fpga
<1>5. CASE ReqOut
  BY Lengths, <1>5 DEF ReqOut, Goto, fpga
<1>6. CASE ReqClr
  BY Lengths, <1>6 DEF ReqClr, Written, Goto, Abort, AfterSetup, fpga
<1>7. CASE ResetStb
  BY Lengths, <1>7 DEF ResetStb, Written, Goto, Abort, fpga
<1>8. CASE ReqSet
  <2>1. pc' = "failed" \/ (Goto("clear") /\ overrun' = freq)
    BY <1>8 DEF ReqSet, Written, Abort
  <2>2. CASE Goto("clear") /\ ~freq
    <3>1. k' = 1 /\ dir' = "snd" /\ ~freq' /\ ~fack' /\ right' /\ pc' = "clear"
      BY <1>8, <2>2 DEF ReqSet, Goto, fpga
    <3> QED
      BY <3>1
  <2> QED
    BY <2>1, <2>2
<1>9. CASE BadSize
  BY Lengths, <1>9 DEF BadSize, Abort, pins, fpga
<1>10. CASE Clear
  BY Lengths, <1>10 DEF Clear, Written, Goto, Abort, fpga
<1>11. CASE Strobe
  BY Lengths, <1>11 DEF Strobe, Written, Goto, Abort, fpga
<1>12. CASE AckUp
  BY Lengths, <1>12 DEF AckUp, Goto, pins, fpga
<1>13. CASE AckTimeout
  BY Lengths, <1>13 DEF AckTimeout, Abort, pins, fpga
<1>14. CASE Sample
  <2>1. CASE overrun \/ err
    BY <1>14, <2>1 DEF Sample
  <2>2. CASE ~overrun /\ ~err
    <3>1. /\ dir = "rcv" /\ taken = Header /\ right /\ sent = k /\ fack /\ k > 0
          /\ Taken > 0 /\ cmd = op /\ inOrder /\ freq
      BY Lengths, <1>14, <2>2 DEF Sample
    <3>2. right' /\ pc' = "drop" /\ UNCHANGED <<op, k, pins, fpga>>
      BY <1>14, <3>1 DEF Sample, FpgaDrives
    <3> QED
      BY Lengths, <3>1, <3>2 DEF pins, fpga
  <2> QED
    BY <2>1, <2>2
<1>15. CASE Drop
  BY Lengths, <1>15 DEF Drop, Written, Goto, Abort, NextWord, fpga, EndsSend
<1>16. CASE Unack
  BY Lengths, <1>16 DEF Unack, Goto, Abort, NextWord, pins, fpga, EndsSend
<1>17. CASE Turn
  BY Lengths, <1>17 DEF Turn, fpga
<1>18. CASE End
  BY Lengths, <1>18 DEF End, Written, Goto, Abort, fpga
<1>19. CASE EndWait
  <2>1. CASE ~freq /\ Finish
    BY Lengths, <1>19, <2>1 DEF EndWait, Finish, fpga
  <2>2. CASE freq /\ Abort /\ UNCHANGED <<pins, fpga, overrun>>
    BY Lengths, <1>19, <2>2 DEF EndWait, Abort, pins, fpga
  <2> QED
    BY <1>19, <2>1, <2>2 DEF EndWait
<1>20. CASE FpgaOpen
  BY Lengths, <1>20 DEF FpgaOpen, driver, pins
<1>21. CASE FpgaClose
  BY Lengths, <1>21 DEF FpgaClose, driver, pins
<1>22. CASE FpgaTake
  BY Lengths, <1>22 DEF FpgaTake, driver, pins, Word, ReadPhase
<1>23. CASE FpgaGive
  BY Lengths, <1>23 DEF FpgaGive, driver, pins, Word, ReadPhase
<1>24. CASE FpgaUnack
  BY Lengths, <1>24 DEF FpgaUnack, driver, pins
<1>25. ASSUME NEW o \in Ops, Call(o) PROVE InStep'
  BY Lengths, <1>25 DEF Call, pins, fpga
<1>26. CASE UNCHANGED vars
  BY Lengths, <1>26 DEF vars, driver, pins, fpga
<1> QED
  BY <1>1, <1>2, <1>3, <1>4, <1>5, <1>6, <1>7, <1>8, <1>9, <1>10, <1>11,
     <1>12, <1>13, <1>14, <1>15, <1>16, <1>17, <1>18, <1>19, <1>20, <1>21,
     <1>22, <1>23, <1>24, <1>25, <1>26
  DEF Next, Driver, Fpga

\* An operation that is given up leaves the FPGA at its own words.
LEMMA GivenUpStep ==
  ASSUME Control, Words, Levels, Flags, FpgaOK, PinsOK, Position, CleanStart, SendsOnly, InStep, GivenUp, [Next]_vars
  PROVE  GivenUp'
<1> USE DEF Control, Words, Levels, Flags, FpgaOK, PinsOK, Position,
            CleanStart, SendsOnly, InStep, GivenUp, Transfer, Resting, Accesses, Setup,
            Stopped, Receiving, Taken, Fast, Hls, Ops, Reads, Req, Stb, Word, NoWord,
            Last
<1>1. CASE Release
  BY Lengths, <1>1 DEF Release, Goto, fpga
<1>2. CASE DataOut
  BY Lengths, <1>2 DEF DataOut, Written, Goto, Abort, AfterSetup, fpga
<1>3. CASE StbOut
  BY Lengths, <1>3 DEF StbOut, Goto, fpga
<1>4. CASE StbClr
  BY Lengths, <1>4 DEF StbClr, Written, Goto, Abort, fpga
<1>5. CASE ReqOut
  BY Lengths, <1>5 DEF ReqOut, Goto, fpga
<1>6. CASE ReqClr
  BY Lengths, <1>6 DEF ReqClr, Written, Goto, Abort, AfterSetup, fpga
<1>7. CASE ResetStb
  BY Lengths, <1>7 DEF ResetStb, Written, Goto, Abort, fpga
<1>8. CASE ReqSet
  BY Lengths, <1>8 DEF ReqSet, Written, Goto, Abort, fpga
<1>9. CASE BadSize
  BY Lengths, <1>9 DEF BadSize, Abort, pins, fpga
<1>10. CASE Clear
  BY Lengths, <1>10 DEF Clear, Written, Goto, Abort, fpga
<1>11. CASE Strobe
  BY Lengths, <1>11 DEF Strobe, Written, Goto, Abort, fpga
<1>12. CASE AckUp
  BY Lengths, <1>12 DEF AckUp, Goto, pins, fpga
<1>13. CASE AckTimeout
  BY Lengths, <1>13 DEF AckTimeout, Abort, pins, fpga
<1>14. CASE Sample
  BY Lengths, <1>14 DEF Sample, pins, fpga, FpgaDrives
<1>15. CASE Drop
  BY Lengths, <1>15 DEF Drop, Written, Goto, Abort, NextWord, fpga, EndsSend
<1>16. CASE Unack
  BY Lengths, <1>16 DEF Unack, Goto, Abort, NextWord, pins, fpga, EndsSend
<1>17. CASE Turn
  BY Lengths, <1>17 DEF Turn, fpga
<1>18. CASE End
  BY Lengths, <1>18 DEF End, Written, Goto, Abort, fpga
<1>19. CASE EndWait
  <2>1. CASE ~freq /\ Finish
    BY Lengths, <1>19, <2>1 DEF EndWait, Finish, fpga
  <2>2. CASE freq /\ Abort /\ UNCHANGED <<pins, fpga, overrun>>
    BY Lengths, <1>19, <2>2 DEF EndWait, Abort, pins, fpga
  <2> QED
    BY <1>19, <2>1, <2>2 DEF EndWait
<1>20. CASE FpgaOpen
  BY Lengths, <1>20 DEF FpgaOpen, driver, pins
<1>21. CASE FpgaClose
  BY Lengths, <1>21 DEF FpgaClose, driver, pins
<1>22. CASE FpgaTake
  <2>1. CASE pc # "failed" \/ overrun \/ err
    BY <1>22, <2>1 DEF FpgaTake, driver, pins
  <2>2. CASE pc = "failed" /\ ~overrun /\ ~err
    <3>1. /\ dir # "rcv" /\ freq /\ inOrder /\ Word = <<op, taken + 1>>
          /\ taken > 0 => cmd = op
      BY Lengths, <1>22, <2>2 DEF FpgaTake, ReadPhase
    <3>2. /\ cmd' = op /\ taken' = taken + 1 /\ inOrder' /\ fack'
          /\ UNCHANGED <<freq, driver, pins>>
      BY <3>1, <1>22 DEF FpgaTake
    <3> QED
      BY <3>1, <3>2 DEF driver, pins
  <2> QED
    BY <2>1, <2>2
<1>23. CASE FpgaGive
  BY Lengths, <1>23 DEF FpgaGive, driver, pins, Word, ReadPhase
<1>24. CASE FpgaUnack
  BY Lengths, <1>24 DEF FpgaUnack, driver, pins
<1>25. ASSUME NEW o \in Ops, Call(o) PROVE GivenUp'
  BY Lengths, <1>25 DEF Call, pins, fpga
<1>26. CASE UNCHANGED vars
  BY Lengths, <1>26 DEF vars, driver, pins, fpga
<1> QED
  BY <1>1, <1>2, <1>3, <1>4, <1>5, <1>6, <1>7, <1>8, <1>9, <1>10, <1>11,
     <1>12, <1>13, <1>14, <1>15, <1>16, <1>17, <1>18, <1>19, <1>20, <1>21,
     <1>22, <1>23, <1>24, <1>25, <1>26
  DEF Next, Driver, Fpga

\* What was moved when an operation returns 0.
LEMMA DeliveredStep ==
  ASSUME Control, Words, Levels, Flags, FpgaOK, PinsOK, Position, CleanStart, SendsOnly, InStep, Delivered, [Next]_vars
  PROVE  Delivered'
<1> USE DEF Control, Words, Levels, Flags, FpgaOK, PinsOK, Position,
            CleanStart, SendsOnly, InStep, Delivered, Transfer, Resting, Accesses,
            Setup, Stopped, Receiving, Taken, Fast, Hls, Ops, Reads, Req, Stb, Word,
            NoWord, Last
<1>1. CASE Release
  BY Lengths, <1>1 DEF Release, Goto, fpga
<1>2. CASE DataOut
  BY Lengths, <1>2 DEF DataOut, Written, Goto, Abort, AfterSetup, fpga
<1>3. CASE StbOut
  BY Lengths, <1>3 DEF StbOut, Goto, fpga
<1>4. CASE StbClr
  BY Lengths, <1>4 DEF StbClr, Written, Goto, Abort, fpga
<1>5. CASE ReqOut
  BY Lengths, <1>5 DEF ReqOut, Goto, fpga
<1>6. CASE ReqClr
  BY Lengths, <1>6 DEF ReqClr, Written, Goto, Abort, AfterSetup, fpga
<1>7. CASE ResetStb
  BY Lengths, <1>7 DEF ResetStb, Written, Goto, Abort, fpga
<1>8. CASE ReqSet
  BY Lengths, <1>8 DEF ReqSet, Written, Goto, Abort, fpga
<1>9. CASE BadSize
  BY Lengths, <1>9 DEF BadSize, Abort, pins, fpga
<1>10. CASE Clear
  BY Lengths, <1>10 DEF Clear, Written, Goto, Abort, fpga
<1>11. CASE Strobe
  BY Lengths, <1>11 DEF Strobe, Written, Goto, Abort, fpga
<1>12. CASE AckUp
  BY Lengths, <1>12 DEF AckUp, Goto, pins, fpga
<1>13. CASE AckTimeout
  BY Lengths, <1>13 DEF AckTimeout, Abort, pins, fpga
<1>14. CASE Sample
  BY Lengths, <1>14 DEF Sample, pins, fpga, FpgaDrives
<1>15. CASE Drop
  BY Lengths, <1>15 DEF Drop, Written, Goto, Abort, NextWord, fpga, EndsSend
<1>16. CASE Unack
  BY Lengths, <1>16 DEF Unack, Goto, Abort, NextWord, pins, fpga, EndsSend
<1>17. CASE Turn
  BY Lengths, <1>17 DEF Turn, fpga
<1>18. CASE End
  BY Lengths, <1>18 DEF End, Written, Goto, Abort, fpga
<1>19. CASE EndWait
  <2>1. CASE ~freq /\ Finish
    BY Lengths, <1>19, <2>1 DEF EndWait, Finish, fpga
  <2>2. CASE freq /\ Abort /\ UNCHANGED <<pins, fpga, overrun>>
    BY Lengths, <1>19, <2>2 DEF EndWait, Abort, pins, fpga
  <2> QED
    BY <1>19, <2>1, <2>2 DEF EndWait
<1>20. CASE FpgaOpen
  BY Lengths, <1>20 DEF FpgaOpen, driver, pins
<1>21. CASE FpgaClose
  BY Lengths, <1>21 DEF FpgaClose, driver, pins
<1>22. CASE FpgaTake
  BY Lengths, <1>22 DEF FpgaTake, driver, pins, Word, ReadPhase
<1>23. CASE FpgaGive
  BY Lengths, <1>23 DEF FpgaGive, driver, pins, Word, ReadPhase
<1>24. CASE FpgaUnack
  BY Lengths, <1>24 DEF FpgaUnack, driver, pins
<1>25. ASSUME NEW o \in Ops, Call(o) PROVE Delivered'
  BY Lengths, <1>25 DEF Call, pins, fpga
<1>26. CASE UNCHANGED vars
  BY Lengths, <1>26 DEF vars, driver, pins, fpga
<1> QED
  BY <1>1, <1>2, <1>3, <1>4, <1>5, <1>6, <1>7, <1>8, <1>9, <1>10, <1>11,
     <1>12, <1>13, <1>14, <1>15, <1>16, <1>17, <1>18, <1>19, <1>20, <1>21,
     <1>22, <1>23, <1>24, <1>25, <1>26
  DEF Next, Driver, Fpga

\* No step leaves the invariant.
LEMMA Preserved == IInv /\ [Next]_vars => IInv'
<1> SUFFICES ASSUME IInv, [Next]_vars PROVE IInv'
  OBVIOUS
<1> USE DEF IInv, TypeOK
<1>1. Control' /\ Words' /\ Levels' /\ Flags' /\ FpgaOK'
  BY ControlStep, WordsStep, LevelsStep, FlagsStep, FpgaStep
<1>2. PinsOK' /\ Position' /\ CleanStart'
  BY PinsStep, PositionStep, CleanStep
<1>3. SendsOnly' /\ InStep' /\ GivenUp' /\ Delivered'
  BY SendsOnlyStep, InStepStep, GivenUpStep, DeliveredStep
<1> QED
  BY <1>1, <1>2, <1>3

\* The program starts within it.
LEMMA Starts == Init => IInv
<1> SUFFICES ASSUME Init PROVE IInv
  OBVIOUS
<1> USE DEF Init
<1>1. TypeOK /\ FpgaOK
  <2>1. Control
    BY Lengths DEF Control, Accesses, Stopped, Ops
  <2>2. Words
    BY Lengths DEF Words
  <2>3. Levels /\ Flags
    BY DEF Levels, Flags
  <2>4. FpgaOK
    BY DEF FpgaOK
  <2> QED
    BY <2>1, <2>2, <2>3, <2>4 DEF TypeOK
<1>2. PinsOK /\ Position /\ CleanStart
  BY DEF PinsOK, Position, CleanStart, Transfer, Resting, Setup, Stopped, Receiving
<1>3. SendsOnly /\ InStep /\ GivenUp /\ Delivered
  BY DEF SendsOnly, InStep, GivenUp, Delivered, Transfer
<1> QED
  BY <1>1, <1>2, <1>3 DEF IInv

\* Pins, position of the driver and progress of the FPGA agree, whatever timed
\* out or was given up before.
THEOREM BusInvariant == Spec => []IInv
<1> QED
  BY Starts, Preserved, PTL DEF Spec

\* An operation that returns 0 has moved exactly its words, each once and in
\* order, unless the Pi ran ahead of the FPGA in that transaction.
THEOREM MovesItsWords == Spec => []Delivered
<1>1. IInv => Delivered
  BY DEF IInv
<1> QED
  BY <1>1, BusInvariant, PTL

\* While a transaction is open the FPGA has taken a prefix of the words of this
\* operation, and nothing of an earlier one that was given up.
THEOREM TakesAPrefix == Spec => []InOrder
<1>1. IInv => InOrder
  <2> SUFFICES ASSUME IInv, freq, Req, ~overrun, ~err, pc \notin Setup
               PROVE  inOrder /\ cmd \in {op, "none"}
    BY DEF InOrder
  <2> USE DEF IInv, TypeOK, Levels
  <2>1. CASE pc \in Transfer
    BY <2>1 DEF InStep, FpgaOK, Taken, Words
  <2>2. CASE pc = "failed"
    BY <2>2 DEF GivenUp
  <2>3. CASE pc \in {"idle", "reset_stb"}
    BY <2>3 DEF PinsOK, Req
  <2> QED
    BY <2>1, <2>2, <2>3 DEF Control, Accesses, Transfer, Stopped
<1> QED
  BY <1>1, BusInvariant, PTL

\* An operation that returns 0 leaves the bus released and the FPGA idle.
THEOREM LeavesTheBusIdle == Spec => []IdleAfterSuccess
<1>1. IInv => IdleAfterSuccess
  BY DEF IInv, TypeOK, Levels, IdleAfterSuccess, PinsOK, CleanStart, FpgaOK, Req, Stb
<1> QED
  BY <1>1, BusInvariant, PTL

\* Short of an operation that was given up, the data lines are never driven from
\* both ends.
THEOREM DrivesAlone == Spec => []NoContention
<1>1. IInv => NoContention
  BY DEF IInv, TypeOK, Control, Words, Levels, Accesses, NoContention, FpgaDrives,
     SendsOnly, CleanStart, FpgaOK, Transfer, Resting, Stopped
<1> QED
  BY <1>1, BusInvariant, PTL

\* Only a word of a _fast function, or the RREQ after an operation that was given
\* up, lets the Pi run ahead: the careful handshake never does.
THEOREM CarefulNeverRunsAhead == Spec => OverrunCause
<1>1. IInv /\ [Next]_vars
        => [~overrun /\ overrun' => \/ pc = "strobe" /\ Fast
                                    \/ pc = "req_set" /\ unclean]_vars
  <2> SUFFICES ASSUME IInv, [Next]_vars, ~overrun, overrun'
               PROVE  \/ pc = "strobe" /\ Fast
                      \/ pc = "req_set" /\ unclean
    OBVIOUS
  <2>1. Strobe \/ ReqSet
    BY DEF Next, Driver, Fpga, vars, driver, pins, fpga, Release, DataOut, StbOut,
       StbClr, ReqOut, ReqClr, ResetStb, BadSize, Clear, AckUp, AckTimeout, Sample,
       Drop, Unack, Turn, End, EndWait, Finish, FpgaOpen, FpgaClose, FpgaTake,
       FpgaGive, FpgaUnack, Call
  <2>2. CASE Strobe
    <3>1. pc = "strobe" /\ fack
      BY <2>2 DEF Strobe, IInv, TypeOK, Levels, Flags
    <3>2. CASE err
      BY <3>1, <3>2 DEF IInv, Position
    <3>3. CASE ~err
      BY <3>1, <3>3 DEF IInv, InStep, Transfer
    <3> QED
      BY <3>1, <3>2, <3>3
  <2>3. CASE ReqSet
    BY <2>3 DEF ReqSet, IInv, TypeOK, Flags, Levels, CleanStart, Resting, Setup
  <2> QED
    BY <2>1, <2>2, <2>3
<1> QED
  BY <1>1, BusInvariant, PTL DEF Spec, OverrunCause
\* Every step of the bus is a step of BusPromise or leaves its state as it is.
LEMMA PromiseStep ==
  ASSUME IInv, IInv', [Next]_vars
  PROVE  [Promise!Next]_Promise!vars
<1> USE DEF IInv, TypeOK, Control, Words, Levels, Flags, FpgaOK, Position, CleanStart,
            SendsOnly, InStep, Delivered, Transfer, Resting, Accesses, Setup, Stopped,
            Taken, Ops, Reads,
            Promised, Status, Voided, Moved
<1>1. CASE Release
  BY Lengths, <1>1 DEF Release, Goto, fpga,
     Promise!vars, Promise!Next, Promise!Void, Promise!Fail, Promise!Succeed,
     Promise!Move, WordsOf
<1>2. CASE DataOut
  BY Lengths, <1>2 DEF DataOut, Written, Goto, Abort, AfterSetup, fpga,
     Promise!vars, Promise!Next, Promise!Void, Promise!Fail, Promise!Succeed,
     Promise!Move, WordsOf
<1>3. CASE StbOut
  BY Lengths, <1>3 DEF StbOut, Goto, fpga,
     Promise!vars, Promise!Next, Promise!Void, Promise!Fail, Promise!Succeed,
     Promise!Move, WordsOf
<1>4. CASE StbClr
  BY Lengths, <1>4 DEF StbClr, Written, Goto, Abort, fpga,
     Promise!vars, Promise!Next, Promise!Void, Promise!Fail, Promise!Succeed,
     Promise!Move, WordsOf
<1>5. CASE ReqOut
  BY Lengths, <1>5 DEF ReqOut, Goto, fpga,
     Promise!vars, Promise!Next, Promise!Void, Promise!Fail, Promise!Succeed,
     Promise!Move, WordsOf
<1>6. CASE ReqClr
  BY Lengths, <1>6 DEF ReqClr, Written, Goto, Abort, AfterSetup, fpga,
     Promise!vars, Promise!Next, Promise!Void, Promise!Fail, Promise!Succeed,
     Promise!Move, WordsOf
<1>7. CASE ResetStb
  BY Lengths, <1>7 DEF ResetStb, Written, Goto, Abort, fpga,
     Promise!vars, Promise!Next, Promise!Void, Promise!Fail, Promise!Succeed,
     Promise!Move, WordsOf
<1>8. CASE ReqSet
  BY Lengths, <1>8 DEF ReqSet, Written, Goto, Abort, fpga,
     Promise!vars, Promise!Next, Promise!Void, Promise!Fail, Promise!Succeed,
     Promise!Move, WordsOf
<1>9. CASE BadSize
  BY Lengths, <1>9 DEF BadSize, Abort, pins, fpga,
     Promise!vars, Promise!Next, Promise!Void, Promise!Fail, Promise!Succeed,
     Promise!Move, WordsOf
<1>10. CASE Clear
  BY Lengths, <1>10 DEF Clear, Written, Goto, Abort, fpga,
     Promise!vars, Promise!Next, Promise!Void, Promise!Fail, Promise!Succeed,
     Promise!Move, WordsOf
<1>11. CASE Strobe
  BY Lengths, <1>11 DEF Strobe, Written, Goto, Abort, fpga,
     Promise!vars, Promise!Next, Promise!Void, Promise!Fail, Promise!Succeed,
     Promise!Move, WordsOf
<1>12. CASE AckUp
  BY Lengths, <1>12 DEF AckUp, Goto, pins, fpga,
     Promise!vars, Promise!Next, Promise!Void, Promise!Fail, Promise!Succeed,
     Promise!Move, WordsOf
<1>13. CASE AckTimeout
  BY Lengths, <1>13 DEF AckTimeout, Abort, pins, fpga,
     Promise!vars, Promise!Next, Promise!Void, Promise!Fail, Promise!Succeed,
     Promise!Move, WordsOf
<1>14. CASE Sample
  BY Lengths, <1>14 DEF Sample, pins, fpga, FpgaDrives,
     Promise!vars, Promise!Next, Promise!Void, Promise!Fail, Promise!Succeed,
     Promise!Move, WordsOf
<1>15. CASE Drop
  BY Lengths, <1>15 DEF Drop, Written, Goto, Abort, NextWord, fpga, EndsSend,
     Promise!vars, Promise!Next, Promise!Void, Promise!Fail, Promise!Succeed,
     Promise!Move, WordsOf
<1>16. CASE Unack
  BY Lengths, <1>16 DEF Unack, Goto, Abort, NextWord, pins, fpga, EndsSend,
     Promise!vars, Promise!Next, Promise!Void, Promise!Fail, Promise!Succeed,
     Promise!Move, WordsOf
<1>17. CASE Turn
  BY Lengths, <1>17 DEF Turn, fpga,
     Promise!vars, Promise!Next, Promise!Void, Promise!Fail, Promise!Succeed,
     Promise!Move, WordsOf
<1>18. CASE End
  BY Lengths, <1>18 DEF End, Last, Receiving, PinsOK, Written, Goto, Abort, fpga,
     Promise!vars, Promise!Next, Promise!Void, Promise!Fail, Promise!Succeed,
     Promise!Move, WordsOf
<1>19. CASE EndWait
  BY Lengths, <1>19 DEF EndWait, Finish, Abort, pins, fpga,
     Promise!vars, Promise!Next, Promise!Void, Promise!Fail, Promise!Succeed,
     Promise!Move, WordsOf
<1>20. CASE FpgaOpen
  BY Lengths, <1>20 DEF FpgaOpen, driver, pins,
     Promise!vars, Promise!Next, Promise!Void, Promise!Fail, Promise!Succeed,
     Promise!Move, WordsOf
<1>21. CASE FpgaClose
  BY Lengths, <1>21 DEF FpgaClose, Req, PinsOK, driver, pins,
     Promise!vars, Promise!Next, Promise!Void, Promise!Fail, Promise!Succeed,
     Promise!Move, WordsOf
<1>22. CASE FpgaTake
  BY Lengths, <1>22 DEF FpgaTake, Req, Stb, PinsOK, Last, Receiving, driver, pins, Word, ReadPhase,
     Promise!vars, Promise!Next, Promise!Void, Promise!Fail, Promise!Succeed,
     Promise!Move, WordsOf
<1>23. CASE FpgaGive
  BY Lengths, <1>23 DEF FpgaGive, Req, Stb, PinsOK, Last, Receiving, driver, pins, Word, ReadPhase,
     Promise!vars, Promise!Next, Promise!Void, Promise!Fail, Promise!Succeed,
     Promise!Move, WordsOf
<1>24. CASE FpgaUnack
  BY Lengths, <1>24 DEF FpgaUnack, driver, pins,
     Promise!vars, Promise!Next, Promise!Void, Promise!Fail, Promise!Succeed,
     Promise!Move, WordsOf
<1>25. ASSUME NEW o \in Ops, Call(o) PROVE [Promise!Next]_Promise!vars
  BY Lengths, <1>25 DEF Call, pins, fpga, Promise!Next, Promise!Call
<1>26. CASE UNCHANGED vars
  BY <1>26 DEF vars, driver, pins, fpga, Promise!vars
<1> QED
  BY <1>1, <1>2, <1>3, <1>4, <1>5, <1>6, <1>7, <1>8, <1>9, <1>10, <1>11,
     <1>12, <1>13, <1>14, <1>15, <1>16, <1>17, <1>18, <1>19, <1>20, <1>21,
     <1>22, <1>23, <1>24, <1>25, <1>26
  DEF Next, Driver, Fpga

\* FicBus implements BusPromise: however long the FPGA takes and whatever was given
\* up before, an operation moves its words one by one and returns 0 after the last.
THEOREM BusKeepsPromise == Spec => KeepsPromise
<1>1. Init => Promise!Init
  BY DEF Init, Promise!Init, Promised, Status, Voided, Moved, Stopped, Transfer, Ops
<1>2. IInv /\ IInv' /\ [Next]_vars => [Promise!Next]_Promise!vars
  BY PromiseStep
<1> QED
  BY <1>1, <1>2, BusInvariant, PTL DEF Spec, KeepsPromise, Promise!Spec
=============================================================================
