---------------------------- MODULE SelectMapProofs ----------------------------
(***************************************************************************)
(* Theorems about SelectMap, for every set of streams, words, functions    *)
(* and modes, and whatever lies behind the buffers.                        *)
(*                                                                         *)
(* A burst is clocked only over words that are equal to the one on the     *)
(* pins (BurstEqual), and the pins hold the last word of the stream that   *)
(* was clocked (Progress); so each round appends the next words of the     *)
(* stream, and behind its end the last one again (StreamStep).  The other  *)
(* parts of IInv follow the lines of the FPGA from the reset to DONE.      *)
(***************************************************************************)
EXTENDS SelectMap, SequenceTheorems, TLAPS

\* A word of a stream is one, and streams have a last.
LEMMA StreamWords ==
  ASSUME NEW s \in Streams
  PROVE  /\ s \in Seq(Words) /\ Len(s) \in Nat \ {0}
         /\ \A n \in 1..Len(s) : s[n] \in Words
         /\ Last(s) \in Words /\ Last(s) = s[Len(s)]
<1>1. s \in Seq(Words) /\ s # <<>>
  BY SelectMapAssumption
<1>2. Len(s) \in Nat \ {0}
  BY <1>1, EmptySeq
<1>3. \A n \in 1..Len(s) : s[n] \in Words
  BY <1>1, ElementOfSeq
<1> QED
  BY <1>1, <1>2, <1>3 DEF Last

\* The look-ahead of a round: it passes over equal words only, in the stream and,
\* behind its end, as long as they are equal to the last.
LEMMA BurstEqual ==
  ASSUME TypeOK, Progress, pc \in {"words", "spin"}, i < Len(data)
  PROVE  /\ Burst \in 1..16 /\ (~Fast => Burst = 1)
         /\ At(i + 1) = data[i + 1] /\ data[i + 1] \in Words
         /\ \A j \in 1..Burst : At(i + j) = At(i + 1)
<1> DEFINE fits == {b \in Bursts(fn) : \A j \in 1..b : At(i + j) = At(i + 1)}
<1>1. data \in Streams /\ i \in Nat /\ i + 1 \in 1..Len(data)
  BY StreamWords DEF TypeOK, Progress
<1>2. At(i + 1) = data[i + 1] /\ data[i + 1] \in Words
  BY <1>1, StreamWords DEF At
<1>3. Bursts(fn) \subseteq {4, 8, 12, 16} /\ (~Fast => Bursts(fn) = {})
  BY DEF Bursts, Fast
<1>4. CASE At(i + 1) = prev /\ fits # {}
  <2>1. fits \subseteq {4, 8, 12, 16}
    BY <1>3
  <2>2. \E b \in fits : \A c \in fits : b >= c
    <3>1. CASE 16 \in fits
      BY <2>1, <3>1
    <3>2. CASE 16 \notin fits /\ 12 \in fits
      BY <2>1, <3>2
    <3>3. CASE 16 \notin fits /\ 12 \notin fits /\ 8 \in fits
      BY <2>1, <3>3
    <3>4. CASE fits \subseteq {4}
      BY <1>4, <3>4
    <3> QED
      BY <2>1, <3>1, <3>2, <3>3, <3>4
  <2>3. Max(fits) \in fits
    BY <2>2 DEF Max
  <2>4. Burst = Max(fits)
    BY <1>4 DEF Burst
  <2>5. Burst \in {4, 8, 12, 16} /\ \A j \in 1..Burst : At(i + j) = At(i + 1)
    BY <2>1, <2>3, <2>4
  <2>6. Fast
    BY <1>3, <1>4
  <2> QED
    BY <1>2, <2>5, <2>6
<1>5. CASE ~(At(i + 1) = prev /\ fits # {})
  <2>1. Burst = 1
    BY <1>5 DEF Burst
  <2> QED
    BY <1>2, <2>1
<1> QED
  BY <1>4, <1>5

\* What the initial values are.
LEMMA DataTypes ==
  /\ Zero \in Words /\ <<>> \in Seq(Words) /\ Len(<<>>) = 0
  /\ \A s \in Streams \cup {<<>>} : Len(s) \in Nat
<1>1. Zero \in Words
  BY SelectMapAssumption
<1>2. <<>> \in Seq(Words) /\ Len(<<>>) = 0
  BY EmptySeq
<1>3. \A s \in Streams : Len(s) \in Nat
  BY StreamWords
<1> QED
  BY <1>1, <1>2, <1>3

\* The size in bytes that the return value is compared with.
LEMMA SizeBound ==
  Control /\ Progress /\ Counted /\ pc # "idle"
    => /\ Size \in Nat /\ Size > 0 /\ Size <= Bytes(fn) * Len(data)
       /\ Len(data) \in Nat
<1> SUFFICES ASSUME Control, Progress, Counted, pc # "idle"
             PROVE  /\ Size \in Nat /\ Size > 0 /\ Size <= Bytes(fn) * Len(data)
                    /\ Len(data) \in Nat
  OBVIOUS
<1>1. Len(data) \in Nat \ {0}
  BY StreamWords DEF Progress
<1>2. CASE Bytes(fn) = 1
  BY <1>1, <1>2 DEF Counted, Size
<1>3. CASE Bytes(fn) = 2
  BY <1>1, <1>3 DEF Size
<1>4. Bytes(fn) \in {1, 2}
  BY DEF Bytes
<1> QED
  BY <1>1, <1>2, <1>3, <1>4

\* What one round of the loop clocks.
LEMMA WordClocks ==
  ASSUME TypeOK, Progress, Word \/ PinFollows
  PROVE  /\ lines' = data[i + 1] /\ lines' \in Words /\ prev' = lines'
         /\ Burst \in 1..16 /\ (~Fast => Burst = 1)
         /\ i' = i + Burst /\ i < Len(data) /\ data \in Streams
         /\ clocked' \in Seq(Words) /\ Len(clocked') = i + Burst
         /\ \A n \in 1..(i + Burst) :
               clocked'[n] = IF n <= i THEN clocked[n] ELSE lines'
<1> DEFINE burst == [n \in 1..Burst |-> lines']
<1>1. /\ pc \in {"words", "spin"} /\ i < Len(data) /\ lines = prev
      /\ data \in Streams /\ Round
  BY DEF Word, PinFollows, Progress
<1>2. /\ Burst \in 1..16 /\ (~Fast => Burst = 1)
      /\ At(i + 1) = data[i + 1] /\ data[i + 1] \in Words
  BY <1>1, BurstEqual
<1>3. lines' = data[i + 1] /\ prev' = lines' /\ i' = i + Burst
  BY <1>1, <1>2 DEF Round
<1>4. burst \in Seq(Words) /\ Len(burst) = Burst
  <2>1. Burst \in Nat /\ \A n \in 1..Burst : burst[n] \in Words
    BY <1>2, <1>3
  <2> QED
    BY <2>1, IsASeq, LenProperties
<1>5. clocked \in Seq(Words) /\ Len(clocked) = i /\ clocked' = clocked \o burst
  BY <1>1 DEF TypeOK, Transfer, Progress, Round
<1>6. /\ clocked' \in Seq(Words) /\ Len(clocked') = i + Burst
      /\ \A n \in 1..(i + Burst) :
            clocked'[n] = IF n <= i THEN clocked[n] ELSE burst[n - i]
  <2> HIDE DEF burst
  <2>1. /\ Len(clocked \o burst) = Len(clocked) + Len(burst)
        /\ clocked \o burst \in Seq(Words)
        /\ \A n \in 1..(Len(clocked) + Len(burst)) : (clocked \o burst)[n] =
              IF n <= Len(clocked) THEN clocked[n] ELSE burst[n - Len(clocked)]
    BY <1>4, <1>5, ConcatProperties
  <2> QED
    BY <1>4, <1>5, <2>1
<1>7. i \in Nat
  BY <1>1, StreamWords DEF TypeOK, Transfer, Progress
<1>8. ASSUME NEW n \in 1..(i + Burst)
      PROVE  clocked'[n] = IF n <= i THEN clocked[n] ELSE lines'
  <2>1. CASE n <= i
    BY <1>6, <2>1
  <2>2. CASE ~(n <= i)
    <3>1. n - i \in 1..Burst
      BY <1>2, <1>7, <2>2
    <3>2. burst[n - i] = lines'
      BY <3>1
    <3> QED
      BY <1>6, <2>2, <3>2
  <2> QED
    BY <2>1, <2>2
<1> HIDE DEF burst
<1> QED
  BY <1>1, <1>2, <1>3, <1>6, <1>7, <1>8

\* The step, the function, the mode and the status keep their types.
LEMMA ControlStep ==
  ASSUME Control, [Next]_vars
  PROVE  Control'
<1> USE DEF Control
<1>1. CASE Pins
  BY <1>1 DEF Pins, Continue, Fail, Return, Told, fpga, status
<1>2. CASE Pulse
  BY <1>2 DEF Pulse, Continue, Fail, Return, Told, fpga, status
<1>3. CASE NoPulse
  BY <1>3 DEF NoPulse, Continue, Fail, Return, Told, fpga, status
<1>4. CASE WaitInit
  BY <1>4 DEF WaitInit, Continue, Fail, Return, Told, fpga, status
<1>5. CASE Word \/ PinFollows
  BY <1>5 DEF Word, PinFollows, Round, fpga
<1>6. CASE WordFails
  BY <1>6 DEF WordFails, Fail, Return, Told, fpga
<1>16. CASE WordSpins
  BY <1>16 DEF WordSpins, Continue, Fail, Return, Told, fpga, status
<1>7. CASE Check
  BY <1>7 DEF Check, Continue, Fail, Return, Told, fpga, status
<1>8. CASE WordsDone
  BY <1>8 DEF WordsDone, Continue, Fail, Return, Told, fpga, status
<1>9. CASE WaitDone
  BY <1>9 DEF WaitDone, Continue, Fail, Return, Told, fpga, status
<1>10. CASE Success
  BY <1>10 DEF Success, Return, Told, fpga
<1>11. CASE FpgaReady
  BY <1>11 DEF FpgaReady, call, status
<1>12. CASE FpgaError
  BY <1>12 DEF FpgaError, call, status
<1>13. CASE FpgaDone
  BY <1>13 DEF FpgaDone, call, status
<1>14. ASSUME NEW f \in Functions, NEW m \in Modes, NEW s \in Streams,
       NEW o \in BOOLEAN, NEW n \in Behind, Call(f, m, s, o, n)
      PROVE Control'
  BY <1>14 DEF Call
<1>15. CASE UNCHANGED vars
  BY <1>15 DEF vars, call, status, fpga
<1> QED
  BY <1>1, <1>2, <1>3, <1>4, <1>5, <1>6, <1>7, <1>8, <1>9, <1>10, <1>11, <1>12,
     <1>13, <1>14, <1>15, <1>16
  DEF Next, Driver

\* The flags are Boolean.
LEMMA FlagsStep ==
  ASSUME Control, Flags, [Next]_vars
  PROVE  Flags'
<1> USE DEF Flags
<1>1. CASE Pins
  BY <1>1 DEF Pins, Continue, Fail, Return, Told, fpga, status
<1>2. CASE Pulse
  BY <1>2 DEF Pulse, Continue, Fail, Return, Told, fpga, status
<1>3. CASE NoPulse
  BY <1>3 DEF NoPulse, Continue, Fail, Return, Told, fpga, status
<1>4. CASE WaitInit
  BY <1>4 DEF WaitInit, Continue, Fail, Return, Told, fpga, status
<1>5. CASE Word \/ PinFollows
  BY <1>5 DEF Word, PinFollows, Round, fpga
<1>6. CASE WordFails
  BY <1>6 DEF WordFails, Fail, Return, Told, fpga
<1>16. CASE WordSpins
  BY <1>16 DEF WordSpins, Continue, Fail, Return, Told, fpga, status
<1>7. CASE Check
  BY <1>7 DEF Check, Continue, Fail, Return, Told, fpga, status
<1>8. CASE WordsDone
  BY <1>8 DEF WordsDone, Continue, Fail, Return, Told, fpga, status
<1>9. CASE WaitDone
  BY <1>9 DEF WaitDone, Continue, Fail, Return, Told, fpga, status
<1>10. CASE Success
  BY <1>10 DEF Success, Return, Told, fpga
<1>11. CASE FpgaReady
  BY <1>11 DEF FpgaReady, call, status
<1>12. CASE FpgaError
  BY <1>12 DEF FpgaError, call, status
<1>13. CASE FpgaDone
  BY <1>13 DEF FpgaDone, call, status
<1>14. ASSUME NEW f \in Functions, NEW m \in Modes, NEW s \in Streams,
       NEW o \in BOOLEAN, NEW n \in Behind, Call(f, m, s, o, n)
      PROVE Flags'
  BY <1>14 DEF Call
<1>15. CASE UNCHANGED vars
  BY <1>15 DEF vars, call, status, fpga
<1> QED
  BY <1>1, <1>2, <1>3, <1>4, <1>5, <1>6, <1>7, <1>8, <1>9, <1>10, <1>11, <1>12,
     <1>13, <1>14, <1>15, <1>16
  DEF Next, Driver

\* The locals of a call that has ended.
LEMMA EndTypes ==
  ASSUME Fail \/ Success
  PROVE  /\ data' = <<>> /\ behind' \in Behind \cup {0}
         /\ i' = 0 /\ prev' \in Words
         /\ clocked' = <<>> /\ tx_size' = tx_size
         /\ data' \in Streams \cup {<<>>} /\ i' \in 0..(Len(data') + 15)
         /\ clocked' \in Seq(Words)
<1>1. /\ data' = <<>> /\ behind' = 0 /\ i' = 0 /\ prev' = Zero
      /\ clocked' = <<>> /\ tx_size' = tx_size
  BY DEF Fail, Success, Return, Told
<1>2. Len(data') = 0
  BY <1>1, DataTypes
<1> QED
  BY <1>1, <1>2, DataTypes

\* The stream, the words and the counters keep their types.
LEMMA TransferStep ==
  ASSUME TypeOK, Progress, [Next]_vars
  PROVE  Transfer'
<1> USE DEF Transfer, TypeOK
<1>1. CASE Pins
  <2>1. CASE Fail
    BY <1>1, <2>1, EndTypes, DataTypes DEF Pins, fpga
  <2>2. CASE ~Fail
    BY <1>1, <2>2, DataTypes DEF Pins, Continue, status, fpga
  <2> QED
    BY <2>1, <2>2
<1>2. CASE Pulse
  <2>1. CASE Fail
    BY <1>2, <2>1, EndTypes, DataTypes DEF Pulse, fpga
  <2>2. CASE ~Fail
    BY <1>2, <2>2, DataTypes DEF Pulse, Continue, status, fpga
  <2> QED
    BY <2>1, <2>2
<1>3. CASE NoPulse
  <2>1. CASE Fail
    BY <1>3, <2>1, EndTypes, DataTypes DEF NoPulse, fpga
  <2>2. CASE ~Fail
    BY <1>3, <2>2, DataTypes DEF NoPulse, Continue, status, fpga
  <2> QED
    BY <2>1, <2>2
<1>4. CASE WaitInit
  <2>1. CASE Fail
    BY <1>4, <2>1, EndTypes, DataTypes DEF WaitInit, fpga
  <2>2. CASE ~Fail
    BY <1>4, <2>2, DataTypes DEF WaitInit, Continue, status, fpga
  <2> QED
    BY <2>1, <2>2
<1>5. CASE Word \/ PinFollows
  <2>1. /\ Burst \in 1..16 /\ i < Len(data)
        /\ data \in Streams /\ Len(data) \in Nat
    BY <1>5, WordClocks, StreamWords DEF Bytes
  <2>2. /\ lines' \in Words /\ prev' \in Words
        /\ clocked' \in Seq(Words) /\ i' = i + Burst
    BY <1>5, WordClocks
  <2>3. tx_size' \in Nat /\ late' \in Nat
    BY <1>5, <2>1 DEF Word, PinFollows, Round, Bytes
  <2>4. i' \in 0..(Len(data) + 15)
    BY <2>1, <2>2
  <2> QED
    BY <1>5, <2>1, <2>2, <2>3, <2>4 DEF Word, PinFollows, Round
<1>6. CASE WordFails
  BY <1>6, EndTypes, DataTypes DEF WordFails
<1>16. CASE WordSpins
  <2>1. CASE Fail
    BY <1>16, <2>1, EndTypes, DataTypes DEF WordSpins, fpga
  <2>2. CASE ~Fail
    BY <1>16, <2>2, DataTypes DEF WordSpins, Continue, status, fpga
  <2> QED
    BY <2>1, <2>2
<1>7. CASE Check
  <2>1. CASE Fail
    BY <1>7, <2>1, EndTypes, DataTypes DEF Check, fpga
  <2>2. CASE ~Fail
    BY <1>7, <2>2, DataTypes DEF Check, Continue, status, fpga
  <2> QED
    BY <2>1, <2>2
<1>8. CASE WordsDone
  <2>1. CASE Fail
    BY <1>8, <2>1, EndTypes, DataTypes DEF WordsDone, fpga
  <2>2. CASE ~Fail
    BY <1>8, <2>2, DataTypes DEF WordsDone, Continue, status, fpga
  <2> QED
    BY <2>1, <2>2
<1>9. CASE WaitDone
  <2>1. CASE Fail
    BY <1>9, <2>1, EndTypes, DataTypes DEF WaitDone, fpga
  <2>2. CASE ~Fail
    BY <1>9, <2>2, DataTypes DEF WaitDone, Continue, status, fpga
  <2> QED
    BY <2>1, <2>2
<1>10. CASE Success
  BY <1>10, EndTypes, DataTypes DEF Success
<1>11. CASE FpgaReady
  BY DataTypes, <1>11 DEF FpgaReady, call, status
<1>12. CASE FpgaError
  BY DataTypes, <1>12 DEF FpgaError, call, status
<1>13. CASE FpgaDone
  BY DataTypes, <1>13 DEF FpgaDone, call, status
<1>14. ASSUME NEW f \in Functions, NEW m \in Modes, NEW s \in Streams,
       NEW o \in BOOLEAN, NEW n \in Behind, Call(f, m, s, o, n)
      PROVE Transfer'
  BY DataTypes, <1>14 DEF Call, Progress, Working
<1>15. CASE UNCHANGED vars
  BY <1>15 DEF vars, call, status, fpga
<1> QED
  BY <1>1, <1>2, <1>3, <1>4, <1>5, <1>6, <1>7, <1>8, <1>9, <1>10, <1>11, <1>12,
     <1>13, <1>14, <1>15, <1>16
  DEF Next, Driver

\* The call is where its step and its pins say.
LEMMA ProgressStep ==
  ASSUME TypeOK, Progress, [Next]_vars
  PROVE  Progress'
<1> USE DEF TypeOK, Control, Flags, Transfer, Progress, Working, Fast
<1>1. CASE Pins
  BY SelectMapAssumption, StreamWords, <1>1
     DEF Pins, Continue, Fail, Return, Told, fpga, status
<1>2. CASE Pulse
  BY SelectMapAssumption, StreamWords, <1>2
     DEF Pulse, Continue, Fail, Return, Told, fpga, status
<1>3. CASE NoPulse
  BY SelectMapAssumption, StreamWords, <1>3
     DEF NoPulse, Continue, Fail, Return, Told, fpga, status
<1>4. CASE WaitInit
  BY SelectMapAssumption, StreamWords, <1>4
     DEF WaitInit, Continue, Fail, Return, Told, fpga, status
<1>5. CASE Word \/ PinFollows
  <2>1. /\ data \in Streams /\ Len(data) \in Nat /\ i < Len(data) /\ i \in Nat
        /\ Burst \in 1..16 /\ (~Fast => Burst = 1)
        /\ i' = i + Burst /\ Len(clocked') = i + Burst /\ lines' = prev'
    BY <1>5, WordClocks, StreamWords
  <2>2. pc' \in {"words", "check"} /\ data' = data /\ fn' = fn
    BY <1>5 DEF Word, PinFollows, Round
  <2> QED
    BY <2>1, <2>2
<1>6. CASE WordFails
  BY SelectMapAssumption, StreamWords, <1>6 DEF WordFails, Fail, Return, Told, fpga
<1>16. CASE WordSpins
  BY SelectMapAssumption, StreamWords, <1>16
     DEF WordSpins, Continue, Fail, Return, Told, fpga, status
<1>7. CASE Check
  BY SelectMapAssumption, StreamWords, <1>7
     DEF Check, Continue, Fail, Return, Told, fpga, status
<1>8. CASE WordsDone
  BY SelectMapAssumption, StreamWords, <1>8
     DEF WordsDone, Continue, Fail, Return, Told, fpga, status
<1>9. CASE WaitDone
  BY SelectMapAssumption, StreamWords, <1>9
     DEF WaitDone, Continue, Fail, Return, Told, fpga, status
<1>10. CASE Success
  BY SelectMapAssumption, StreamWords, <1>10 DEF Success, Return, Told, fpga
<1>11. CASE FpgaReady
  BY SelectMapAssumption, StreamWords, <1>11 DEF FpgaReady, call, status
<1>12. CASE FpgaError
  BY SelectMapAssumption, StreamWords, <1>12 DEF FpgaError, call, status
<1>13. CASE FpgaDone
  BY SelectMapAssumption, StreamWords, <1>13 DEF FpgaDone, call, status
<1>14. ASSUME NEW f \in Functions, NEW m \in Modes, NEW s \in Streams,
       NEW o \in BOOLEAN, NEW n \in Behind, Call(f, m, s, o, n)
      PROVE Progress'
  BY SelectMapAssumption, StreamWords, <1>14 DEF Call
<1>15. CASE UNCHANGED vars
  BY SelectMapAssumption, StreamWords, <1>15 DEF vars, call, status, fpga
<1> QED
  BY <1>1, <1>2, <1>3, <1>4, <1>5, <1>6, <1>7, <1>8, <1>9, <1>10, <1>11, <1>12,
     <1>13, <1>14, <1>15, <1>16
  DEF Next, Driver

\* What is clocked is the stream, and its last word behind its end.
LEMMA StreamStep ==
  ASSUME TypeOK, Progress, StreamClocked, [Next]_vars
  PROVE  StreamClocked'
<1> USE DEF TypeOK, Control, Flags, Transfer, Progress, StreamClocked, Working
<1>1. CASE Pins
  BY StreamWords, <1>1 DEF Pins, Continue, Fail, Return, Told, fpga, status
<1>2. CASE Pulse
  BY StreamWords, <1>2 DEF Pulse, Continue, Fail, Return, Told, fpga, status
<1>3. CASE NoPulse
  BY StreamWords, <1>3 DEF NoPulse, Continue, Fail, Return, Told, fpga, status
<1>4. CASE WaitInit
  BY StreamWords, <1>4 DEF WaitInit, Continue, Fail, Return, Told, fpga, status
<1>5. CASE Word \/ PinFollows
  <2>1. /\ i \in Nat /\ Len(clocked) = i /\ Burst \in 1..16 /\ i < Len(data)
        /\ data \in Streams /\ Len(data) \in Nat
        /\ Len(clocked') = i + Burst /\ data' = data /\ lines' = data[i + 1]
        /\ \A n \in 1..(i + Burst) :
              clocked'[n] = IF n <= i THEN clocked[n] ELSE lines'
    <3>1. data \in Streams /\ Len(data) \in Nat /\ i \in Nat /\ data' = data
      BY <1>5, WordClocks, StreamWords DEF Word, PinFollows, Round
    <3> QED
      BY <1>5, <3>1, WordClocks
  <2>2. \A j \in 1..Burst : At(i + j) = data[i + 1]
    BY <1>5, BurstEqual DEF Word, PinFollows, Round
  <2>3. ASSUME NEW n \in 1..Len(clocked')
        PROVE  clocked'[n] = IF n <= Len(data) THEN data[n] ELSE Last(data)
    <3>1. CASE n <= i
      BY <2>1, <3>1
    <3>2. CASE n > i
      <4>1. At(n) = data[i + 1]
        <5>1. n - i \in 1..Burst /\ i + (n - i) = n
          BY <2>1, <3>2
        <5> QED
          BY <2>2, <5>1
      <4>2. data[i + 1] # Outside
        BY <2>1, StreamWords, SelectMapAssumption DEF Outside
      <4>3. At(n) = IF n <= Len(data) THEN data[n] ELSE Last(data)
        BY <4>1, <4>2 DEF At
      <4> QED
        BY <2>1, <3>2, <4>1, <4>3
    <3> QED
      BY <2>1, <3>1, <3>2
  <2>4. pc' \in {"words", "check"}
    BY <1>5 DEF Word, PinFollows, Round
  <2> QED
    BY <2>1, <2>3, <2>4
<1>6. CASE WordFails
  BY StreamWords, <1>6 DEF WordFails, Fail, Return, Told, fpga
<1>16. CASE WordSpins
  BY StreamWords, <1>16 DEF WordSpins, Continue, Fail, Return, Told, fpga, status
<1>7. CASE Check
  BY StreamWords, <1>7 DEF Check, Continue, Fail, Return, Told, fpga, status
<1>8. CASE WordsDone
  BY StreamWords, <1>8 DEF WordsDone, Continue, Fail, Return, Told, fpga, status
<1>9. CASE WaitDone
  BY StreamWords, <1>9 DEF WaitDone, Continue, Fail, Return, Told, fpga, status
<1>10. CASE Success
  BY StreamWords, <1>10 DEF Success, Return, Told, fpga
<1>11. CASE FpgaReady
  BY StreamWords, <1>11 DEF FpgaReady, call, status
<1>12. CASE FpgaError
  BY StreamWords, <1>12 DEF FpgaError, call, status
<1>13. CASE FpgaDone
  BY StreamWords, <1>13 DEF FpgaDone, call, status
<1>14. ASSUME NEW f \in Functions, NEW m \in Modes, NEW s \in Streams,
       NEW o \in BOOLEAN, NEW n \in Behind, Call(f, m, s, o, n)
      PROVE StreamClocked'
  BY StreamWords, <1>14 DEF Call
<1>15. CASE UNCHANGED vars
  BY StreamWords, <1>15 DEF vars, call, status, fpga
<1> QED
  BY <1>1, <1>2, <1>3, <1>4, <1>5, <1>6, <1>7, <1>8, <1>9, <1>10, <1>11, <1>12,
     <1>13, <1>14, <1>15, <1>16
  DEF Next, Driver

\* tx_size counts what was clocked, or the rounds.
LEMMA CountStep ==
  ASSUME TypeOK, Progress, Counted, [Next]_vars
  PROVE  Counted'
<1> USE DEF TypeOK, Control, Flags, Transfer, Progress, Counted, Working,
            Starting, Fast, Bytes
<1>1. CASE Pins
  BY <1>1 DEF Pins, Continue, Fail, Return, Told, fpga, status
<1>2. CASE Pulse
  BY <1>2 DEF Pulse, Continue, Fail, Return, Told, fpga, status
<1>3. CASE NoPulse
  BY <1>3 DEF NoPulse, Continue, Fail, Return, Told, fpga, status
<1>4. CASE WaitInit
  BY <1>4 DEF WaitInit, Continue, Fail, Return, Told, fpga, status
<1>5. CASE Word \/ PinFollows
  <2>1. /\ i' = i + Burst /\ Burst \in 1..16 /\ (~Fast => Burst = 1)
        /\ tx_size' = tx_size + Bytes(fn) /\ fn' = fn /\ odd' = odd
        /\ pc' \in {"words", "check"} /\ pc \in {"words", "spin"}
    BY <1>5, WordClocks DEF Word, PinFollows, Round
  <2> QED
    BY <2>1
<1>6. CASE WordFails
  BY <1>6 DEF WordFails, Fail, Return, Told, fpga
<1>16. CASE WordSpins
  BY <1>16 DEF WordSpins, Continue, Fail, Return, Told, fpga, status
<1>7. CASE Check
  BY <1>7 DEF Check, Continue, Fail, Return, Told, fpga, status
<1>8. CASE WordsDone
  BY <1>8 DEF WordsDone, Continue, Fail, Return, Told, fpga, status
<1>9. CASE WaitDone
  BY <1>9 DEF WaitDone, Continue, Fail, Return, Told, fpga, status
<1>10. CASE Success
  BY <1>10 DEF Success, Return, Told, fpga
<1>11. CASE FpgaReady
  BY <1>11 DEF FpgaReady, call, status
<1>12. CASE FpgaError
  BY <1>12 DEF FpgaError, call, status
<1>13. CASE FpgaDone
  BY <1>13 DEF FpgaDone, call, status
<1>14. ASSUME NEW f \in Functions, NEW m \in Modes, NEW s \in Streams,
       NEW o \in BOOLEAN, NEW n \in Behind, Call(f, m, s, o, n)
      PROVE Counted'
  BY <1>14 DEF Call
<1>15. CASE UNCHANGED vars
  BY <1>15 DEF vars, call, status, fpga
<1> QED
  BY <1>1, <1>2, <1>3, <1>4, <1>5, <1>6, <1>7, <1>8, <1>9, <1>10, <1>11, <1>12,
     <1>13, <1>14, <1>15, <1>16
  DEF Next, Driver

\* A reset ends before the first word.
LEMMA ResetStep ==
  ASSUME TypeOK, ResetSeen, [Next]_vars
  PROVE  ResetSeen'
<1> USE DEF TypeOK, Control, Flags, Transfer, ResetSeen, Working
<1>1. CASE Pins
  BY <1>1 DEF Pins, Continue, Fail, Return, Told, fpga, status
<1>2. CASE Pulse
  BY <1>2 DEF Pulse, Continue, Fail, Return, Told, fpga, status
<1>3. CASE NoPulse
  BY <1>3 DEF NoPulse, Continue, Fail, Return, Told, fpga, status
<1>4. CASE WaitInit
  BY <1>4 DEF WaitInit, Continue, Fail, Return, Told, fpga, status
<1>5. CASE Word \/ PinFollows
  BY <1>5 DEF Word, PinFollows, Round, fpga
<1>6. CASE WordFails
  BY <1>6 DEF WordFails, Fail, Return, Told, fpga
<1>16. CASE WordSpins
  BY <1>16 DEF WordSpins, Continue, Fail, Return, Told, fpga, status
<1>7. CASE Check
  BY <1>7 DEF Check, Continue, Fail, Return, Told, fpga, status
<1>8. CASE WordsDone
  BY <1>8 DEF WordsDone, Continue, Fail, Return, Told, fpga, status
<1>9. CASE WaitDone
  BY <1>9 DEF WaitDone, Continue, Fail, Return, Told, fpga, status
<1>10. CASE Success
  BY <1>10 DEF Success, Return, Told, fpga
<1>11. CASE FpgaReady
  BY <1>11 DEF FpgaReady, call, status
<1>12. CASE FpgaError
  BY <1>12 DEF FpgaError, call, status
<1>13. CASE FpgaDone
  BY <1>13 DEF FpgaDone, call, status
<1>14. ASSUME NEW f \in Functions, NEW m \in Modes, NEW s \in Streams,
       NEW o \in BOOLEAN, NEW n \in Behind, Call(f, m, s, o, n)
      PROVE ResetSeen'
  BY <1>14 DEF Call
<1>15. CASE UNCHANGED vars
  BY <1>15 DEF vars, call, status, fpga
<1> QED
  BY <1>1, <1>2, <1>3, <1>4, <1>5, <1>6, <1>7, <1>8, <1>9, <1>10, <1>11, <1>12,
     <1>13, <1>14, <1>15, <1>16
  DEF Next, Driver

\* DONE and the return value are those of this stream.
LEMMA DoneStep ==
  ASSUME TypeOK, Progress, Counted, DoneSeen, [Next]_vars
  PROVE  DoneSeen'
<1> USE DEF TypeOK, Control, Flags, Transfer, Progress, DoneSeen, Working,
            DoneIsConfigured, ReturnTellsResult, Starting
<1>1. CASE Pins
  BY SizeBound, <1>1 DEF Pins, Continue, Fail, Return, Told, fpga, status
<1>2. CASE Pulse
  BY SizeBound, <1>2 DEF Pulse, Continue, Fail, Return, Told, fpga, status
<1>3. CASE NoPulse
  BY SizeBound, <1>3 DEF NoPulse, Continue, Fail, Return, Told, fpga, status
<1>4. CASE WaitInit
  BY SizeBound, <1>4 DEF WaitInit, Continue, Fail, Return, Told, fpga, status
<1>5. CASE Word \/ PinFollows
  BY SizeBound, <1>5 DEF Word, PinFollows, Round, fpga
<1>6. CASE WordFails
  BY SizeBound, <1>6 DEF WordFails, Fail, Return, Told, fpga
<1>16. CASE WordSpins
  BY SizeBound, <1>16 DEF WordSpins, Continue, Fail, Return, Told, fpga, status
<1>7. CASE Check
  BY SizeBound, <1>7 DEF Check, Continue, Fail, Return, Told, fpga, status
<1>8. CASE WordsDone
  BY SizeBound, <1>8 DEF WordsDone, Continue, Fail, Return, Told, fpga, status
<1>9. CASE WaitDone
  BY SizeBound, <1>9 DEF WaitDone, Continue, Fail, Return, Told, fpga, status
<1>10. CASE Success
  <2>1. Bytes(fn) * i >= Size
    <3>1. /\ i \in Nat /\ i >= Len(data)
          /\ Size <= Bytes(fn) * Len(data) /\ Size \in Nat
          /\ Len(data) \in Nat
      BY <1>10, SizeBound DEF Success
    <3>2. Bytes(fn) \in {1, 2}
      BY DEF Bytes
    <3> QED
      BY <3>1, <3>2
  <2> QED
    BY <1>10, <2>1 DEF Success, Return, Told, fpga
<1>11. CASE FpgaReady
  BY SizeBound, <1>11 DEF FpgaReady, call, status
<1>12. CASE FpgaError
  BY SizeBound, <1>12 DEF FpgaError, call, status
<1>13. CASE FpgaDone
  BY SizeBound, <1>13 DEF FpgaDone, call, status
<1>14. ASSUME NEW f \in Functions, NEW m \in Modes, NEW s \in Streams,
       NEW o \in BOOLEAN, NEW n \in Behind, Call(f, m, s, o, n)
      PROVE DoneSeen'
  BY SizeBound, <1>14 DEF Call
<1>15. CASE UNCHANGED vars
  BY SizeBound, <1>15 DEF vars, call, status, fpga
<1> QED
  BY <1>1, <1>2, <1>3, <1>4, <1>5, <1>6, <1>7, <1>8, <1>9, <1>10, <1>11, <1>12,
     <1>13, <1>14, <1>15, <1>16
  DEF Next, Driver

\* No word but the one after which INIT fell.
LEMMA ErrorStep ==
  ASSUME TypeOK, Progress, ErrorSeen, [Next]_vars
  PROVE  ErrorSeen'
<1> USE DEF TypeOK, Control, Flags, Transfer, Progress, ErrorSeen, Working,
            Starting, Fast
<1>1. CASE Pins
  BY <1>1 DEF Pins, Continue, Fail, Return, Told, fpga, status
<1>2. CASE Pulse
  BY <1>2 DEF Pulse, Continue, Fail, Return, Told, fpga, status
<1>3. CASE NoPulse
  BY <1>3 DEF NoPulse, Continue, Fail, Return, Told, fpga, status
<1>4. CASE WaitInit
  BY <1>4 DEF WaitInit, Continue, Fail, Return, Told, fpga, status
<1>5. CASE Word \/ PinFollows
  <2>1. /\ pc \in {"words", "spin"} /\ fn' = fn /\ init' = init
        /\ pc' = IF Fast THEN "words" ELSE "check"
        /\ late' = IF init THEN late ELSE late + Burst
    BY <1>5 DEF Word, PinFollows, Round, fpga
  <2>2. ~Fast => Burst = 1
    BY <1>5, WordClocks
  <2> QED
    BY <2>1, <2>2
<1>6. CASE WordFails
  BY <1>6 DEF WordFails, Fail, Return, Told, fpga
<1>16. CASE WordSpins
  BY <1>16 DEF WordSpins, Continue, Fail, Return, Told, fpga, status
<1>7. CASE Check
  BY <1>7 DEF Check, Continue, Fail, Return, Told, fpga, status
<1>8. CASE WordsDone
  BY <1>8 DEF WordsDone, Continue, Fail, Return, Told, fpga, status
<1>9. CASE WaitDone
  BY <1>9 DEF WaitDone, Continue, Fail, Return, Told, fpga, status
<1>10. CASE Success
  BY <1>10 DEF Success, Return, Told, fpga
<1>11. CASE FpgaReady
  BY <1>11 DEF FpgaReady, call, status
<1>12. CASE FpgaError
  BY <1>12 DEF FpgaError, call, status
<1>13. CASE FpgaDone
  BY <1>13 DEF FpgaDone, call, status
<1>14. ASSUME NEW f \in Functions, NEW m \in Modes, NEW s \in Streams,
       NEW o \in BOOLEAN, NEW n \in Behind, Call(f, m, s, o, n)
      PROVE ErrorSeen'
  BY <1>14 DEF Call
<1>15. CASE UNCHANGED vars
  BY <1>15 DEF vars, call, status, fpga
<1> QED
  BY <1>1, <1>2, <1>3, <1>4, <1>5, <1>6, <1>7, <1>8, <1>9, <1>10, <1>11, <1>12,
     <1>13, <1>14, <1>15, <1>16
  DEF Next, Driver

\* No step leaves the invariant, and the program starts within it.
LEMMA Preserved == IInv /\ [Next]_vars => IInv'
<1> SUFFICES ASSUME IInv, [Next]_vars PROVE IInv'
  OBVIOUS
<1>1. TypeOK' /\ Progress' /\ StreamClocked'
  BY ControlStep, FlagsStep, TransferStep, ProgressStep, StreamStep
     DEF IInv, TypeOK
<1>2. Counted' /\ ResetSeen' /\ DoneSeen' /\ ErrorSeen'
  BY CountStep, ResetStep, DoneStep, ErrorStep DEF IInv
<1> QED
  BY <1>1, <1>2 DEF IInv

LEMMA Starts == Init => IInv
<1> SUFFICES ASSUME Init PROVE IInv
  OBVIOUS
<1> USE DEF Init
<1>1. Len(<<>>) = 0
  BY DataTypes
<1>2. TypeOK
  <2>1. Control
    BY DEF Control
  <2>2. Flags
    BY DEF Flags
  <2>3. Transfer
    <3>1. data = <<>> /\ <<>> \in Seq(Words)
      BY DataTypes
    <3> QED
      BY <1>1, <3>1, SelectMapAssumption DEF Transfer
  <2> QED
    BY <2>1, <2>2, <2>3 DEF TypeOK
<1>3. Progress /\ StreamClocked
  BY <1>1 DEF Progress, StreamClocked, Working
<1>4. Counted /\ ResetSeen /\ DoneSeen /\ ErrorSeen
  BY DEF Counted, ResetSeen, DoneSeen, ErrorSeen, DoneIsConfigured,
     ReturnTellsResult, Working, Starting
<1> QED
  BY <1>2, <1>3, <1>4 DEF IInv

\* The pins, the words clocked and the lines of the FPGA agree at every step.
THEOREM MapInvariant == Spec => []IInv
<1> QED
  BY Starts, Preserved, PTL DEF Spec

\* Whatever the runs of equal words and whatever lies behind the buffer, the
\* words clocked are the stream, and after it its last word again.
THEOREM ClocksTheStream == Spec => []StreamClocked
<1>1. IInv => StreamClocked
  BY DEF IInv, StreamClocked
<1> QED
  BY <1>1, MapInvariant, PTL

\* A DONE reported after a normal configuration is that of this very stream.
THEOREM DoneMeansConfigured == Spec => []DoneIsConfigured
<1>1. IInv => DoneIsConfigured
  BY DEF IInv, DoneSeen
<1> QED
  BY <1>1, MapInvariant, PTL

\* No word of a normal configuration reaches an FPGA that is in reset.
THEOREM ResetIsAwaited == Spec => []NoWordInReset
<1>1. IInv => NoWordInReset
  BY EmptySeq, LenProperties
     DEF IInv, TypeOK, Control, Flags, Transfer, Progress, ResetSeen,
         NoWordInReset, Working
<1> QED
  BY <1>1, MapInvariant, PTL

\* A plain function stops at the word after which INIT is low.
THEOREM ErrorStops == Spec => []StopsAtError
<1>1. IInv => StopsAtError
  BY DEF IInv, TypeOK, Control, Flags, Transfer, Progress, ErrorSeen,
         StopsAtError, Working
<1> QED
  BY <1>1, MapInvariant, PTL

\* tx_size is the bytes that were clocked, or at most them in a _fast function.
THEOREM CountsItsBytes == Spec => []TxSizeIsTransferred
<1>1. ASSUME IInv PROVE TxSizeIsTransferred
  <2> SUFFICES ASSUME pc = "success"
               PROVE  IF Fast THEN tx_size <= Bytes(fn) * Len(clocked)
                      ELSE /\ tx_size = Bytes(fn) * Len(clocked)
                           /\ Size <= tx_size /\ tx_size < Size + Bytes(fn)
    BY DEF TxSizeIsTransferred
  <2>1. /\ Len(clocked) = i /\ i \in Nat /\ tx_size <= Bytes(fn) * i
        /\ ~Fast => tx_size = Bytes(fn) * i
    BY <1>1 DEF IInv, TypeOK, Transfer, Progress, Counted, Working
  <2>2. CASE ~Fast
    <3>1. i = Len(data) /\ (odd => Bytes(fn) = 2)
      BY <1>1, <2>2, StreamWords
         DEF IInv, TypeOK, Transfer, Progress, Counted, Working
    <3>2. Bytes(fn) \in {1, 2}
      BY DEF Bytes
    <3> QED
      BY <2>1, <2>2, <3>1, <3>2 DEF Size
  <2> QED
    BY <2>1, <2>2
<1> QED
  BY <1>1, MapInvariant, PTL

\* The return value reaches the size exactly after a success.
THEOREM ReturnValue == Spec => []ReturnTellsResult
<1>1. IInv => ReturnTellsResult
  BY DEF IInv, DoneSeen
<1> QED
  BY <1>1, MapInvariant, PTL
=============================================================================
