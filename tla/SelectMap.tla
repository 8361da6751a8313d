------------------------------ MODULE SelectMap ------------------------------
(***************************************************************************)
(* Configuring the FPGA over SelectMAP: fic_prog_sm8, fic_prog_sm16, their *)
(* _fast forms, and fic_prog_init and fic_prog_init_sm8/16 which they      *)
(* call.  One action per round of a loop or per wait.                      *)
(*                                                                         *)
(* The plain functions clock one word of the stream at a time and look at  *)
(* INIT after each.  The _fast ones look ahead: while the coming words are *)
(* equal to the one on the pins they only toggle CCLK, a burst at a time,  *)
(* and look at INIT at the end.  Past the end of the caller's buffer they  *)
(* see whatever memory holds there.                                        *)
(*                                                                         *)
(* A word is a byte in the x8 functions and two in the x16 ones.  Those    *)
(* make a last word out of a last byte and the byte behind the buffer.     *)
(* The FPGA is external: it answers PROG_B on INIT, takes a word at each   *)
(* rising edge of CCLK, may pull INIT low, and raises DONE for a stream it *)
(* has received.                                                           *)
(***************************************************************************)
EXTENDS Naturals, Sequences, FiniteSetsExt, SequencesExt

CONSTANTS
    Functions,  \* the functions that are called
    Modes,      \* enum PROG_MODE: "normal", or "pr" for partial
    Words,      \* the values of a word
    Streams,    \* the words to send
    Zero,       \* the word that is on the pins after fic_prog_init_sm
    Behind,     \* numbers of words behind a buffer that are equal to its last
    DeadFpga    \* the FPGA may ignore PROG_B

ASSUME SelectMapAssumption ==
    /\ Functions \subseteq {"sm8", "sm16", "sm8_fast", "sm16_fast"}
    /\ Modes \subseteq {"normal", "pr"}
    /\ Streams \subseteq Seq(Words) \ {<<>>}
    /\ Zero \in Words /\ "outside" \notin Words
    /\ Behind \subseteq Nat /\ DeadFpga \in BOOLEAN

VARIABLES
    pc, fn, pm, data,   \* the call: next step, function, mode, stream
    odd,                \* its size is odd: one byte less than these words
    behind,             \* words behind data that are equal to its last
    i, prev,            \* words done, and the one before (_d)
    stat, tx_size,      \* of PROG_STAT
    ret,                \* what the last call returned: the "whole" of the size it
                        \* was given, or more, or what is "short" of it
    lines,              \* the word on the data pins
    init, done,         \* the lines of the FPGA
    clearing,           \* the FPGA is in reset
    clocked,            \* the words it took since the call
    loaded,             \* it raised DONE for the stream of the last call
    late                \* history: the words clocked since INIT fell

call == <<pc, fn, pm, data, odd, behind, i, prev>>
status == <<stat, tx_size, ret>>
fpga == <<init, done, clearing, loaded>>
vars == <<call, status, lines, fpga, clocked, late>>

Fast == fn \in {"sm8_fast", "sm16_fast"}
Bytes(f) == IF f \in {"sm8", "sm8_fast"} THEN 1 ELSE 2
\* _toggle_cclk4, 8, 12 and 16
Bursts(f) ==
    CASE f = "sm8_fast"  -> {4, 8, 12, 16}
      [] f = "sm16_fast" -> {4, 8}
      [] OTHER           -> {}

\* What the function reads at data[n], in and behind the buffer.
Outside == "outside"
At(n) ==
    IF n <= Len(data) THEN data[n]
    ELSE IF n <= Len(data) + behind THEN Last(data) ELSE Outside

Init ==
    /\ pc = "idle" /\ fn = "sm8" /\ pm = "normal"
    /\ data = <<>> /\ odd = FALSE /\ behind = 0 /\ i = 0 /\ prev = Zero
    /\ stat = "INIT" /\ tx_size = 0 /\ ret = "none"
    /\ lines = Zero
    /\ init = TRUE /\ done = FALSE /\ clearing = FALSE
    /\ clocked = <<>> /\ loaded = FALSE /\ late = 0
-----------------------------------------------------------------------------
Continue(step) ==
    /\ pc' = step
    /\ UNCHANGED <<fn, pm, data, odd, behind, i, prev, status, clocked>>

\* prog_size in bytes.  The last word of an odd size holds one that is not the
\* caller's.
Size == Bytes(fn) * Len(data) - (IF odd THEN 1 ELSE 0)

\* What the methods of pyficlib2.c make of the value: below the size it is NULL.
Told(value) == IF value >= Size THEN "whole" ELSE "short"

\* SET_ALL_INPUT and the end of the call.  The locals are dead, and the stream
\* is the caller's again.
Return(result, value) ==
    /\ stat' = result /\ ret' = Told(value)
    /\ pc' = "idle" /\ data' = <<>> /\ behind' = 0 /\ i' = 0 /\ prev' = Zero
    /\ fn' = "sm8" /\ odd' = FALSE /\ clocked' = <<>>
    /\ UNCHANGED <<pm, tx_size>>

\* The label EXIT_ERROR of each function.  0 stands for the failure.
Fail == Return("FAIL", 0)

\* Mutant: the counter of the last call is not reset.
CallKeepsCount(f, m, s, o, n) ==
    /\ pc = "idle"
    /\ o => Bytes(f) = 2
    /\ pc' = "pins" /\ fn' = f /\ pm' = m /\ data' = s /\ odd' = o /\ behind' = n
    /\ stat' = "PROG" /\ ret' = "none"
    /\ clocked' = <<>> /\ loaded' = FALSE /\ late' = 0
    /\ UNCHANGED <<i, prev, tx_size, lines, init, done, clearing>>

Call(f, m, s, o, n) ==
    /\ pc = "idle"
    /\ o => Bytes(f) = 2
    /\ pc' = "pins" /\ fn' = f /\ pm' = m /\ data' = s /\ odd' = o /\ behind' = n
    /\ stat' = "PROG" /\ tx_size' = 0 /\ ret' = "none"
    /\ clocked' = <<>> /\ loaded' = FALSE /\ late' = 0
    /\ UNCHANGED <<i, prev, lines, init, done, clearing>>

\* fic_prog_init_sm8, fic_prog_init_sm16: every pin is driven and checked.
Pins ==
    /\ pc = "pins"
    /\ \/ Continue("reset") /\ lines' = Zero
       \/ Fail /\ UNCHANGED lines
    /\ UNCHANGED <<fpga, late>>

\* fic_prog_init: a pulse of PROG_B resets the FPGA, unless a pin fails before
\* it or the FPGA is dead.
Pulse ==
    /\ pc = "reset" /\ pm = "normal"
    /\ \/ /\ init' = FALSE /\ done' = FALSE /\ clearing' = TRUE
          /\ Continue("wait_init") \/ Fail
          /\ UNCHANGED loaded
       \/ /\ (DeadFpga /\ Continue("wait_init")) \/ Fail
          /\ UNCHANGED fpga
    /\ UNCHANGED <<lines, late>>

\* Partial reconfiguration sends no pulse.
NoPulse ==
    /\ pc = "reset" /\ pm = "pr"
    /\ Continue("words") \/ Fail
    /\ UNCHANGED <<lines, fpga, late>>

\* Mutant: INIT is not waited for.
WaitInitMissing ==
    /\ pc = "wait_init"
    /\ (~done /\ Continue("words")) \/ Fail
    /\ UNCHANGED <<lines, fpga, late>>

\* This wait has no timeout.  DONE must be low after a reset, and the function
\* clears CCLK, which may fail.
WaitInit ==
    /\ pc = "wait_init" /\ init
    /\ (~done /\ Continue("words")) \/ Fail
    /\ UNCHANGED <<lines, fpga, late>>

\* Mutant: the last word of a burst is not compared.
BurstLooksShort ==
    LET fits == {b \in Bursts(fn) : \A j \in 1..(b - 1) : At(i + j) = At(i + 1)}
    IN  IF At(i + 1) = prev /\ fits # {} THEN Max(fits) ELSE 1

\* The number of equal words clocked in one round.
Burst ==
    LET fits == {b \in Bursts(fn) : \A j \in 1..b : At(i + j) = At(i + 1)}
    IN  IF At(i + 1) = prev /\ fits # {} THEN Max(fits) ELSE 1

\* One round of the loop.  The pins are only written when the word changes.
Round ==
    /\ lines' = IF At(i + 1) = prev THEN lines ELSE At(i + 1)
    /\ clocked' = clocked \o [n \in 1..Burst |-> lines']
    /\ late' = IF init THEN late ELSE late + Burst
    /\ i' = i + Burst
    /\ prev' = At(i + 1)
    /\ tx_size' = tx_size + Bytes(fn)
    /\ pc' = IF Fast THEN "words" ELSE "check"
    /\ UNCHANGED <<fn, pm, data, odd, behind, stat, ret, fpga>>

\* Mutant: the loop has one round too many.
WordOneMore == pc = "words" /\ i <= Len(data) /\ Round

Word == pc = "words" /\ i < Len(data) /\ Round

\* A single word equal to the one before goes through fic_clr_gpio_fast, and in
\* fic_prog_sm16 fic_set_gpio_fast, which look at CCLK until it has followed:
\* without a timeout, in the plain functions too.
WordSpins ==
    /\ pc = "words" /\ i < Len(data)
    /\ At(i + 1) = prev /\ Burst = 1
    /\ Continue("spin")
    /\ UNCHANGED <<lines, fpga, late>>

\* CCLK has followed after all, which nothing promises.
PinFollows == pc = "spin" /\ Round

\* fic_prog_sm16 checks the pins of a word that changes them, with a timeout.
WordFails ==
    /\ pc = "words" /\ i < Len(data) /\ fn = "sm16" /\ At(i + 1) # prev
    /\ Fail
    /\ UNCHANGED <<lines, fpga, late>>

\* Mutant: INIT is looked at once, at the end.
CheckOmitted ==
    /\ pc = "check"
    /\ Continue("words")
    /\ UNCHANGED <<lines, fpga, late>>

\* The look at INIT after a word.
Check ==
    /\ pc = "check"
    /\ IF init THEN Continue("words") ELSE Fail
    /\ UNCHANGED <<lines, fpga, late>>

\* The end of the loop, where the _fast functions look at INIT.
WordsDone ==
    /\ pc = "words" /\ i >= Len(data)
    /\ IF Fast /\ ~init THEN Fail
       ELSE Continue(IF pm = "normal" THEN "wait_done" ELSE "success")
    /\ UNCHANGED <<lines, fpga, late>>

\* Mutant: the wait for DONE has no timeout either.
WaitDoneForEver ==
    /\ pc = "wait_done"
    /\ \/ done /\ lines' = Zero /\ Continue("success")
       \/ ~done /\ ~init /\ Fail /\ UNCHANGED lines
    /\ UNCHANGED <<fpga, late>>

\* Mutant: the timeout ends the wait and not the call.
WaitDoneGoesOn ==
    /\ pc = "wait_done"
    /\ lines' = Zero /\ Continue("success")
    /\ UNCHANGED <<fpga, late>>

\* The clocks of this loop are the FPGA's start-up clocks, not words.  It ends
\* with DONE, with INIT low, after COMM_TIMEOUT or at a pin that fails.
WaitDone ==
    /\ pc = "wait_done"
    /\ \/ done /\ lines' = Zero /\ Continue("success")
       \/ Fail /\ UNCHANGED lines
    /\ UNCHANGED <<fpga, late>>

\* Mutant: the rounds of the loop are returned.
SuccessReturnsRounds ==
    /\ pc = "success"
    /\ Return("DONE", tx_size)
    /\ UNCHANGED <<lines, fpga, late>>

\* return i, which counts bytes: a burst, and the last word of an odd size, take it
\* past the size.
Success ==
    /\ pc = "success"
    /\ Return("DONE", Bytes(fn) * i)
    /\ UNCHANGED <<lines, fpga, late>>
-----------------------------------------------------------------------------
(* The FPGA, as the driver uses it *)

FpgaReady ==
    /\ clearing
    /\ clearing' = FALSE /\ init' = TRUE
    /\ UNCHANGED <<call, status, lines, done, clocked, loaded, late>>

FpgaError ==
    /\ init /\ clocked # <<>>
    /\ init' = FALSE /\ late' = 0
    /\ UNCHANGED <<call, status, lines, done, clearing, clocked, loaded>>

FpgaDone ==
    /\ init /\ ~done /\ pc = "wait_done" /\ IsPrefix(data, clocked)
    /\ done' = TRUE /\ loaded' = TRUE
    /\ UNCHANGED <<call, status, lines, init, clearing, clocked, late>>
-----------------------------------------------------------------------------
Driver ==
    \/ Pins \/ Pulse \/ NoPulse \/ WaitInit \/ Word \/ WordSpins \/ WordFails
    \/ Check \/ WordsDone \/ WaitDone \/ Success

Next ==
    \/ Driver
    \/ \E f \in Functions, m \in Modes, s \in Streams, o \in BOOLEAN, n \in Behind :
          Call(f, m, s, o, n)
    \/ PinFollows \/ FpgaReady \/ FpgaError \/ FpgaDone

Spec == Init /\ [][Next]_vars

\* The driver runs, and an FPGA that was reset leaves the reset.  A pin the driver
\* spins on need not follow.
FairSpec == Spec /\ WF_vars(Driver) /\ WF_vars(FpgaReady)
-----------------------------------------------------------------------------
(* Properties *)

Control ==
    /\ pc \in {"idle", "pins", "reset", "wait_init", "words", "spin",
               "check", "wait_done", "success"}
    /\ fn \in Functions \cup {"sm8"} /\ pm \in Modes \cup {"normal"}
    /\ stat \in {"INIT", "PROG", "DONE", "FAIL"} /\ ret \in {"none", "short", "whole"}
Flags ==
    /\ odd \in BOOLEAN /\ init \in BOOLEAN /\ done \in BOOLEAN
    /\ clearing \in BOOLEAN /\ loaded \in BOOLEAN
Transfer ==
    /\ data \in Streams \cup {<<>>} /\ behind \in Behind \cup {0}
    /\ i \in 0..(Len(data) + 15) /\ prev \in Words /\ lines \in Words
    /\ clocked \in Seq(Words) /\ late \in Nat /\ tx_size \in Nat
TypeOK == Control /\ Flags /\ Transfer

\* Whatever the runs of equal words in a stream, and whatever lies behind it in
\* memory, the words clocked are those of the stream in order; a burst that
\* reaches past its end clocks nothing but its last word again.
StreamClocked ==
    /\ \A n \in 1..Len(clocked) :
          clocked[n] = IF n <= Len(data) THEN data[n] ELSE Last(data)
    /\ pc \in {"wait_done", "success"} => Len(clocked) >= Len(data)

\* PM_STAT_DONE after a normal configuration: the FPGA has raised DONE for the
\* stream of this very call, not for an earlier one.
DoneIsConfigured == stat = "DONE" /\ pm = "normal" => loaded /\ done

\* No word of a normal configuration is clocked into an FPGA in reset, also
\* when an earlier call was given up between the pulse and the wait for INIT.
NoWordInReset == pm = "normal" /\ clearing => clocked = <<>>

\* A plain function stops at the word after which INIT is low.
StopsAtError == ~Fast /\ clocked # <<>> => late <= 1

\* ficlib2.h: tx_size is the size that was transferred.  In the _fast functions
\* it counts their rounds, so it only is that size without a burst; and for an odd
\* size in x16 it counts the byte that is not the caller's.
TxSizeIsTransferred ==
    pc = "success" =>
        IF Fast THEN tx_size <= Bytes(fn) * Len(clocked)
        ELSE /\ tx_size = Bytes(fn) * Len(clocked)
             /\ Size <= tx_size /\ tx_size < Size + Bytes(fn)

\* The return value alone tells the caller the result, as pyficlib2.c relies on: it
\* reaches the size exactly if the configuration has succeeded, however far bursts
\* or an odd size have taken i, and whatever tx_size says.
ReturnTellsResult ==
    pc = "idle" /\ stat # "INIT" => (stat = "DONE" <=> ret = "whole")

\* A call returns, whether the FPGA accepts its stream or not and whichever pin
\* fails, but for the two waits that have no timeout.  In that for INIT it stays with
\* an FPGA that ignores PROG_B and holds INIT low after an error; in a word equal to
\* the one before it stays with a CCLK that does not follow.
CallReturns ==
    pc # "idle" ~> \/ pc = "idle"
                   \/ pc = "wait_init" /\ ~init /\ ~clearing
                   \/ pc = "spin"
-----------------------------------------------------------------------------
(* The inductive invariant behind them.                                     *)

Starting == {"pins", "reset", "wait_init"}
Working == {"words", "spin", "check", "wait_done", "success"}

\* How far the call is.  Before a word is clocked, the pins hold the one before.
Progress ==
    /\ pc = "idle" => data = <<>>
    /\ pc # "idle" => data \in Streams
    /\ pc \notin Working => i = 0 /\ prev = Zero
    /\ Len(clocked) = i
    /\ pc \in {"reset", "wait_init", "words", "spin", "check"} => lines = prev
    /\ pc = "spin" => i < Len(data)
    /\ pc \in {"wait_done", "success"} => i >= Len(data)
    /\ ~Fast => i <= Len(data)

\* tx_size grows with i, once in a round.
Counted ==
    /\ pc \in Starting => tx_size = 0
    /\ pc \in Working => /\ tx_size <= Bytes(fn) * i
                         /\ ~Fast => tx_size = Bytes(fn) * i
    /\ odd => Bytes(fn) = 2

\* A reset is over when its INIT was seen.
ResetSeen ==
    /\ clearing => ~init
    /\ pc \in Working /\ pm = "normal" => ~clearing

\* DONE was low after that, so a high one is that of this stream.
DoneSeen ==
    /\ stat = "PROG" <=> pc # "idle"
    /\ pc \in Working /\ pm = "normal" /\ done => loaded
    /\ pc = "success" /\ pm = "normal" => done
    /\ DoneIsConfigured
    /\ ReturnTellsResult

\* INIT is looked at between two words.
ErrorSeen ==
    /\ pc \in Starting => late = 0
    /\ pc \in Working /\ ~Fast => late <= 1
    /\ pc \in {"words", "spin"} /\ ~Fast /\ ~init => late = 0

IInv ==
    /\ TypeOK
    /\ Progress /\ StreamClocked /\ Counted
    /\ ResetSeen /\ DoneSeen /\ ErrorSeen
=============================================================================
