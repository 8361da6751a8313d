------------------------------- MODULE FicBus -------------------------------
(***************************************************************************)
(* The parallel bus between the Raspberry Pi and the FPGA: fic_comm_setup, *)
(* fic_comm_reset, fic_write, fic_read, fic_hls_send, fic_hls_receive,     *)
(* fic_hls_write, fic_hls_start and fic_hls_reset of ficlib2.c, one action *)
(* per access to the GPIO registers.                                       *)
(*                                                                         *)
(* RREQ opens a transaction and FREQ answers it; for every word RSTB is    *)
(* raised, FACK answers, RSTB falls, FACK falls.  The HLS payload is moved *)
(* by the _fast functions, which do not wait for FACK to fall.  Every wait *)
(* gives up after a time, and the caller may start another operation.      *)
(*                                                                         *)
(* The FPGA is external: it is what the driver takes it to be, an FSM that *)
(* follows RREQ and RSTB, each step as late as it likes.  A line the Pi    *)
(* does not drive is low.                                                  *)
(***************************************************************************)
EXTENDS Naturals

CONSTANTS
    Mk2,          \* FICMK2: the order of the pins, and payload sizes are checked
    AddrWords,    \* words of an address: 4 on the mk1 board, 1 on mk2
    DataWords,    \* words of a register: 2 on mk1, 1 on mk2
    CmdWords,     \* words of a rasddr command
    HlsWords,     \* words of an HLS payload
    PinFaults     \* a pin may read back another level than the one driven

ASSUME BusAssumption ==
    /\ AddrWords \in Nat \ {0} /\ DataWords \in Nat \ {0}
    /\ CmdWords \in Nat \ {0} /\ HlsWords \in Nat \ {0}
    /\ Mk2 \in BOOLEAN /\ PinFaults \in BOOLEAN

VARIABLES
    pc, op, k,              \* the driver: next access, operation, word
    err, right,             \* a fast word timed out; the samples were right
    rreq, rstb, bus,        \* output latches of RREQ, RSTB and the data lines
    outReq, outStb, dir,    \* which of those pins are outputs
    freq, fack,             \* the lines of the FPGA
    cmd, taken, inOrder,    \* its first word, the number of words it took, and
                            \* whether each was the next one of that operation
    sent,                   \* the number of words it gave
    overrun,                \* history: the Pi ran ahead in this transaction
    unclean                 \* history: the last transaction was given up

driver == <<pc, op, k, err, right>>
pins == <<rreq, rstb, bus, outReq, outStb, dir>>
fpga == <<freq, fack, cmd, taken, inOrder, sent>>
vars == <<driver, pins, fpga, overrun, unclean>>

Ops == {"write", "read", "hls_send", "hls_receive", "hls_write", "hls_cmd",
        "comm_reset"}
Reads == {"read", "hls_receive"}
Hls == {"hls_send", "hls_receive", "hls_write"}
Setup == {"release", "data_out", "stb_out", "stb_clr", "req_out", "req_clr",
          "req_set"}
Stopped == {"idle", "failed"}
NoWord == <<"none", 0>>

\* The command and the address, and what is sent and received after them.
Header == 1 + AddrWords
SendLen(o) ==
    CASE o = "hls_cmd"   -> 1
      [] o = "write"     -> Header + DataWords
      [] o = "hls_send"  -> Header + HlsWords
      [] o = "hls_write" -> Header + CmdWords + HlsWords
      [] OTHER           -> Header
RecvLen(o) ==
    CASE o = "read"        -> DataWords
      [] o = "hls_receive" -> HlsWords
      [] OTHER             -> 0
\* Bound: the FPGA counts the words of a transaction as far as this.
MaxWords == Header + DataWords + CmdWords + HlsWords

\* The levels the FPGA sees.
Req == outReq /\ rreq
Stb == outStb /\ rstb
Word == IF dir = "snd" THEN bus ELSE NoWord

Receiving == dir = "rcv"
Last == IF Receiving THEN RecvLen(op) ELSE SendLen(op)
\* The payload of an HLS operation is moved by the _fast functions.
Fast == op \in Hls /\ (Receiving \/ k > Header)
\* The words that end a call of _fic_hls_send_bytes.
EndsSend == k = Last \/ (op = "hls_write" /\ k = Header + CmdWords)
\* The first word of the caller's payload.
FirstData == k = Last - HlsWords + 1

\* The FPGA answers the strobes that follow the address of a read.
ReadPhase == taken = Header /\ cmd \in Reads
FpgaDrives == fack /\ sent > 0

Init ==
    /\ pc = "idle" /\ op = "comm_reset" /\ k = 1
    /\ err = FALSE /\ right = TRUE
    /\ rreq = FALSE /\ rstb = FALSE /\ bus = NoWord
    /\ outReq = FALSE /\ outStb = FALSE /\ dir = "off"
    /\ freq = FALSE /\ fack = FALSE
    /\ cmd = "none" /\ taken = 0 /\ inOrder = TRUE /\ sent = 0
    /\ overrun = FALSE /\ unclean = FALSE
-----------------------------------------------------------------------------
Goto(access) == pc' = access /\ UNCHANGED <<op, k, err, right, unclean>>

\* return -1: the pins stay as they are.
Abort ==
    /\ pc' = "failed" /\ k' = 1 /\ unclean' = TRUE
    /\ UNCHANGED <<op, err, right>>

\* fic_set_gpio and fic_clr_gpio read the pins back and time out; their _fast
\* forms spin.
Written(access) ==
    \/ Goto(access)
    \/ PinFaults /\ Abort

Call(o) ==
    /\ pc \in Stopped
    /\ pc' = "release" /\ op' = o /\ k' = 1
    /\ err' = FALSE /\ right' = TRUE
    /\ UNCHANGED <<pins, fpga, overrun, unclean>>
-----------------------------------------------------------------------------
(* fic_comm_setup.  A pin is made an output before it is cleared, so a line *)
(* left high by an operation that was given up is high again for a moment.  *)
(* The pins come in the order of their numbers, the data lines first on mk1 *)
(* and last on mk2.                                                         *)

AfterSetup == IF op = "comm_reset" THEN "reset_stb" ELSE "req_set"

Release ==
    /\ pc = "release"
    /\ outReq' = FALSE /\ outStb' = FALSE /\ dir' = "off"
    /\ Goto(IF Mk2 THEN "stb_out" ELSE "data_out")
    /\ UNCHANGED <<rreq, rstb, bus, fpga, overrun>>

DataOut ==
    /\ pc = "data_out"
    /\ dir' = "snd" /\ bus' = NoWord
    /\ Written(IF Mk2 THEN AfterSetup ELSE "stb_out")
    /\ UNCHANGED <<rreq, rstb, outReq, outStb, fpga, overrun>>

StbOut ==
    /\ pc = "stb_out"
    /\ outStb' = TRUE
    /\ Goto("stb_clr")
    /\ UNCHANGED <<rreq, rstb, bus, outReq, dir, fpga, overrun>>

StbClr ==
    /\ pc = "stb_clr"
    /\ rstb' = FALSE
    /\ Written("req_out")
    /\ UNCHANGED <<rreq, bus, outReq, outStb, dir, fpga, overrun>>

ReqOut ==
    /\ pc = "req_out"
    /\ outReq' = TRUE
    /\ Goto("req_clr")
    /\ UNCHANGED <<rreq, rstb, bus, outStb, dir, fpga, overrun>>

ReqClr ==
    /\ pc = "req_clr"
    /\ rreq' = FALSE
    /\ Written(IF Mk2 THEN "data_out" ELSE AfterSetup)
    /\ UNCHANGED <<rstb, bus, outReq, outStb, dir, fpga, overrun>>

\* The end of fic_comm_reset: RSTB without RREQ resets the FSM of the FPGA.
\* Nothing waits for that.
ResetStb ==
    /\ pc = "reset_stb"
    /\ rstb' = TRUE
    /\ Written("idle")
    /\ UNCHANGED <<rreq, bus, outReq, outStb, dir, fpga, overrun>>

\* Every other operation asserts RREQ.  Nothing looks at FREQ: it may still be
\* high from a transaction that was given up.
ReqSet ==
    /\ pc = "req_set"
    /\ rreq' = TRUE
    /\ overrun' = freq
    /\ Written("clear")
    /\ UNCHANGED <<rstb, bus, outReq, outStb, dir, fpga>>
-----------------------------------------------------------------------------
(* One word: fic_comm_send, fic_comm_receive and their _fast forms *)

\* _fic_hls_send_bytes and _fic_hls_receive_bytes of mk2 refuse a payload of odd
\* or of too small a size, with the transaction open.
BadSize ==
    /\ Mk2
    /\ pc = "clear" /\ Fast /\ FirstData
    /\ Abort
    /\ UNCHANGED <<pins, fpga, overrun>>

\* fic_comm_send_fast notes that a pin did not fall and goes on.
Clear ==
    /\ pc = "clear"
    /\ rstb' = FALSE
    /\ bus' = IF Receiving THEN bus ELSE NoWord
    /\ \/ Goto("strobe")
       \/ PinFaults /\ ~Fast /\ Abort
       \/ /\ PinFaults /\ Fast /\ ~Receiving
          /\ pc' = "strobe" /\ err' = TRUE
          /\ UNCHANGED <<op, k, right, unclean>>
    /\ UNCHANGED <<rreq, outReq, outStb, dir, fpga, overrun>>

Strobe ==
    /\ pc = "strobe"
    /\ rstb' = TRUE
    /\ bus' = IF Receiving THEN bus ELSE <<op, k>>
    /\ overrun' = (overrun \/ fack)
    /\ IF Fast THEN Goto("ack") ELSE Written("ack")
    /\ UNCHANGED <<rreq, outReq, outStb, dir, fpga>>

\* Mutant: the strobe is held for a while, and FACK is not looked at.
AckUnchecked ==
    /\ pc = "ack"
    /\ Goto(IF Receiving THEN "sample" ELSE "drop")
    /\ UNCHANGED <<pins, fpga, overrun>>

AckUp ==
    /\ pc = "ack"
    /\ fack
    /\ Goto(IF Receiving THEN "sample" ELSE "drop")
    /\ UNCHANGED <<pins, fpga, overrun>>

\* Mutant: a fast word that timed out is sent again.
AckTimeoutRetries ==
    /\ pc = "ack"
    /\ ~fack
    /\ IF Fast THEN Goto("clear") ELSE Abort
    /\ UNCHANGED <<pins, fpga, overrun>>

\* Mutant: only the fast functions count their rounds.
AckTimeoutMissing ==
    /\ pc = "ack"
    /\ ~fack
    /\ Fast /\ Abort
    /\ UNCHANGED <<pins, fpga, overrun>>

\* A fast word that is sent and not acknowledged is noted, and the loop of
\* _fic_hls_send_bytes goes on with the next one.
AckTimeout ==
    /\ pc = "ack"
    /\ ~fack
    /\ IF Fast /\ ~Receiving
       THEN pc' = "drop" /\ err' = TRUE /\ UNCHANGED <<op, k, right, unclean>>
       ELSE Abort
    /\ UNCHANGED <<pins, fpga, overrun>>

Sample ==
    /\ pc = "sample"
    /\ right' = (right /\ FpgaDrives /\ sent = k)
    /\ pc' = "drop"
    /\ UNCHANGED <<op, k, err, pins, fpga, overrun, unclean>>

\* Mutant: one word too many.
NextWordOneMore ==
    IF k <= Last
    THEN pc' = "clear" /\ k' = k + 1 /\ UNCHANGED <<op, err, right, unclean>>
    ELSE Goto(IF op \in Reads /\ ~Receiving THEN "turn" ELSE "end")

\* The next word of the operation, the change of direction, or the end.
NextWord ==
    \/ err /\ EndsSend /\ Abort
    \/ /\ ~(err /\ EndsSend) /\ k < Last
       /\ pc' = "clear" /\ k' = k + 1
       /\ UNCHANGED <<op, err, right, unclean>>
    \/ /\ ~err /\ k = Last
       /\ Goto(IF op \in Reads /\ ~Receiving THEN "turn" ELSE "end")

\* Mutant: the careful functions omit the check of FACK as the fast ones do.
DropOmitsCheck ==
    /\ pc = "drop"
    /\ rstb' = FALSE
    /\ NextWord
    /\ UNCHANGED <<rreq, bus, outReq, outStb, dir, fpga, overrun>>

Drop ==
    /\ pc = "drop"
    /\ rstb' = FALSE
    /\ IF Fast THEN NextWord ELSE Written("unack")
    /\ UNCHANGED <<rreq, bus, outReq, outStb, dir, fpga, overrun>>

Unack ==
    /\ pc = "unack"
    /\ \/ ~fack /\ NextWord
       \/ fack /\ Abort
    /\ UNCHANGED <<pins, fpga, overrun>>

\* Mutant: the data lines stay outputs.
TurnForgotten ==
    /\ pc = "turn"
    /\ pc' = "clear" /\ k' = 1
    /\ UNCHANGED <<op, err, right, unclean, pins, fpga, overrun>>

\* fic_comm_portdir(COMM_PORT_RCV)
Turn ==
    /\ pc = "turn"
    /\ dir' = "rcv"
    /\ pc' = "clear" /\ k' = 1
    /\ UNCHANGED <<op, err, right, unclean, rreq, rstb, bus, outReq, outStb, fpga,
                   overrun>>

End ==
    /\ pc = "end"
    /\ rreq' = FALSE /\ rstb' = FALSE
    /\ bus' = IF op = "write" THEN NoWord ELSE bus
    /\ Written("end_wait")
    /\ UNCHANGED <<outReq, outStb, dir, fpga, overrun>>

\* SET_ALL_INPUT and return 0
Finish ==
    /\ pc' = "idle" /\ k' = 1 /\ unclean' = FALSE
    /\ outReq' = FALSE /\ outStb' = FALSE /\ dir' = "off"
    /\ UNCHANGED <<op, err, right, rreq, rstb, bus, fpga, overrun>>

\* Mutant: RREQ is negated and FREQ is not looked at.
EndWaitUnchecked ==
    /\ pc = "end_wait"
    /\ Finish

\* fic_comm_wait_freq_down
EndWait ==
    /\ pc = "end_wait"
    /\ \/ ~freq /\ Finish
       \/ freq /\ Abort /\ UNCHANGED <<pins, fpga, overrun>>
-----------------------------------------------------------------------------
(* The FPGA side, as the driver uses it *)

FpgaOpen ==
    /\ Req /\ ~freq
    /\ freq' = TRUE
    /\ cmd' = "none" /\ taken' = 0 /\ inOrder' = TRUE /\ sent' = 0
    /\ UNCHANGED <<fack, driver, pins, overrun, unclean>>

FpgaClose ==
    /\ freq /\ ~Req
    /\ freq' = FALSE /\ fack' = FALSE
    /\ UNCHANGED <<cmd, taken, inOrder, sent, driver, pins, overrun, unclean>>

\* It takes the word on the data lines.
FpgaTake ==
    /\ freq /\ Req /\ Stb /\ ~fack /\ ~ReadPhase
    /\ taken < MaxWords
    /\ fack' = TRUE
    /\ taken' = taken + 1
    /\ cmd' = IF taken = 0 THEN Word[1] ELSE cmd
    /\ inOrder' = (inOrder /\ Word = <<cmd', taken'>>)
    /\ UNCHANGED <<freq, sent, driver, pins, overrun, unclean>>

\* It puts the next word there.
FpgaGive ==
    /\ freq /\ Req /\ Stb /\ ~fack /\ ReadPhase
    /\ sent < MaxWords
    /\ fack' = TRUE
    /\ sent' = sent + 1
    /\ UNCHANGED <<freq, cmd, taken, inOrder, driver, pins, overrun, unclean>>

FpgaUnack ==
    /\ fack /\ ~Stb
    /\ fack' = FALSE
    /\ UNCHANGED <<freq, cmd, taken, inOrder, sent, driver, pins, overrun, unclean>>
-----------------------------------------------------------------------------
Driver ==
    \/ Release \/ DataOut \/ StbOut \/ StbClr \/ ReqOut \/ ReqClr \/ ResetStb
    \/ ReqSet \/ BadSize \/ Clear \/ Strobe \/ AckUp \/ AckTimeout \/ Sample
    \/ Drop \/ Unack \/ Turn \/ End \/ EndWait

Fpga == FpgaOpen \/ FpgaClose \/ FpgaTake \/ FpgaGive \/ FpgaUnack

Next == Driver \/ Fpga \/ \E o \in Ops : Call(o)

Spec == Init /\ [][Next]_vars

\* The Pi runs; nothing is assumed of the FPGA, it may be dead.
FairSpec == Spec /\ WF_vars(Driver)
-----------------------------------------------------------------------------
(* Properties *)

Accesses == Setup \cup Stopped \cup
            {"reset_stb", "clear", "strobe", "ack", "sample", "drop", "unack",
             "turn", "end", "end_wait"}

Control == pc \in Accesses /\ op \in Ops /\ k \in 1..MaxWords
Words ==
    /\ bus \in (Ops \X (1..MaxWords)) \cup {NoWord}
    /\ cmd \in Ops \cup {"none"}
    /\ taken \in 0..MaxWords /\ sent \in 0..MaxWords
Levels ==
    /\ rreq \in BOOLEAN /\ rstb \in BOOLEAN
    /\ outReq \in BOOLEAN /\ outStb \in BOOLEAN /\ dir \in {"off", "snd", "rcv"}
    /\ freq \in BOOLEAN /\ fack \in BOOLEAN
Flags ==
    /\ err \in BOOLEAN /\ right \in BOOLEAN /\ inOrder \in BOOLEAN
    /\ overrun \in BOOLEAN /\ unclean \in BOOLEAN
TypeOK == Control /\ Words /\ Levels /\ Flags

\* An operation that returns 0 moved exactly its words, each once and in order,
\* unless the Pi ran ahead of the FPGA in that transaction: whatever failed,
\* timed out or was given up before does not matter.
Delivered ==
    pc = "idle" /\ op # "comm_reset" /\ ~overrun
        => /\ cmd = op /\ taken = SendLen(op) /\ inOrder
           /\ sent = RecvLen(op) /\ right

\* While a transaction is open, and after it was given up, the FPGA has taken a
\* prefix of its words and nothing of an earlier transaction, as long as no fast
\* word timed out.
InOrder ==
    freq /\ Req /\ ~overrun /\ ~err /\ pc \notin Setup
        => inOrder /\ cmd \in {op, "none"}

\* An operation that returns 0 leaves the bus released and the FPGA idle, also
\* after an overrun.
IdleAfterSuccess ==
    pc = "idle" /\ op # "comm_reset"
        => ~Req /\ ~Stb /\ dir = "off" /\ ~freq /\ ~fack

\* The data lines are never driven from both ends, as long as no operation was
\* given up with the FPGA still in it.
NoContention == ~unclean /\ ~overrun => ~(dir = "snd" /\ FpgaDrives)

\* The careful handshake does not depend on the speed of the FPGA: the Pi can
\* run ahead only at a word of a _fast function, whose check of FACK is omitted,
\* or at the RREQ that follows an operation that was given up.
OverrunCause ==
    [][~overrun /\ overrun' => \/ pc = "strobe" /\ Fast
                               \/ pc = "req_set" /\ unclean]_vars

\* Every operation returns, also when the FPGA answers nothing.
OperationReturns == pc \notin Stopped ~> pc \in Stopped
-----------------------------------------------------------------------------
(* The inductive invariant behind them: how far the driver is determines    *)
(* the pins, and, while the Pi has not run ahead, what the FPGA has done.   *)

Transfer == {"clear", "strobe", "ack", "sample", "drop", "unack", "turn", "end",
             "end_wait"}
Resting == Setup \cup Stopped \cup {"reset_stb"}
\* The words taken in this transaction.
Taken == IF freq THEN taken ELSE 0

\* The output latches and directions at each access.
PinsOK ==
    /\ pc \in {"req_out", "req_clr", "req_set", "clear", "strobe", "unack", "turn",
               "end", "end_wait"} => ~rstb
    /\ Mk2 /\ pc = "data_out" => ~rstb /\ ~rreq /\ outReq /\ outStb
    /\ pc \in {"stb_clr", "req_out"} => outStb /\ ~outReq
    /\ pc \in {"stb_out", "data_out"} /\ ~(Mk2 /\ pc = "data_out") => ~outReq
    /\ pc \in {"req_clr", "req_set", "reset_stb"} \cup Transfer => outReq /\ outStb
    /\ ~Mk2 /\ pc \in {"stb_out", "stb_clr", "req_out", "req_clr"} => dir = "snd"
    /\ pc \in {"req_set", "reset_stb"} => dir = "snd" /\ ~rreq
    /\ pc \in Transfer => dir \in {"snd", "rcv"} /\ (rreq <=> pc # "end_wait")
    /\ pc = "idle" => ~rreq
    /\ pc = "idle" /\ op # "comm_reset" => ~outReq /\ ~outStb /\ dir = "off"
    /\ pc \in Transfer /\ Receiving => op \in Reads
    /\ pc \in {"ack", "sample", "drop"} => rstb
    /\ pc \in {"ack", "drop"} /\ dir = "snd" => bus = <<op, k>>

\* The word an operation is at.
Position ==
    /\ pc \in Resting => k = 1
    /\ pc = "reset_stb" => op = "comm_reset"
    /\ pc = "req_set" => op # "comm_reset"
    /\ pc \in Setup \/ (pc \in Transfer /\ dir = "snd") => right
    /\ pc \in Transfer => op # "comm_reset" /\ k \in 1..Last
    /\ pc \in {"turn", "end", "end_wait"} => k = Last
    /\ pc = "turn" => dir = "snd" /\ op \in Reads
    /\ pc = "sample" => dir = "rcv"
    /\ pc \in {"end", "end_wait"} /\ op \in Reads => dir = "rcv"
    /\ err /\ pc # "failed" => /\ pc \in {"clear", "strobe", "ack", "drop"}
                             /\ Fast /\ dir = "snd"

\* FACK is up only within a transaction, and the first word is the command.
FpgaOK == (fack => freq) /\ (taken = 0 => cmd = "none")

\* Short of an operation that was given up, the FPGA is idle between two.
CleanStart ==
    /\ pc = "failed" => unclean
    /\ ~unclean /\ pc \in Resting => ~freq /\ ~rreq
    /\ pc = "idle" /\ op # "comm_reset" => ~freq

\* While words are sent, the FPGA knows the command and gives nothing.
SendsOnly ==
    pc \in Transfer /\ dir = "snd" /\ freq /\ ~overrun
        => sent = 0 /\ (taken > 0 => cmd = op)

\* Word by word, both sides are at the same place.
InStep ==
    pc \in Transfer /\ ~overrun /\ ~err =>
        LET done == IF dir = "snd" THEN Taken ELSE sent
        IN  /\ Taken > 0 => cmd = op
            /\ freq => inOrder
            /\ dir = "rcv" => taken = Header /\ right /\ (freq \/ pc = "end_wait")
            /\ pc \in {"clear", "strobe"} => done = k - 1 /\ (fack => Fast)
            /\ pc = "ack" => done = IF fack THEN k ELSE k - 1
            /\ pc \in {"sample", "drop"} => done = k /\ fack
            /\ pc \in {"unack", "turn", "end"} => done = k
            /\ pc = "turn" => ~fack
            /\ pc = "end_wait" => /\ taken = SendLen(op) /\ cmd = op /\ inOrder
                                 /\ sent = RecvLen(op)

\* An operation that was given up leaves at most its own next word to take.
GivenUp ==
    pc = "failed" /\ Req /\ ~overrun /\ ~err =>
        /\ freq => inOrder /\ cmd \in {op, "none"}
        /\ Taken > 0 => cmd = op
        /\ dir = "rcv" => freq /\ taken = Header /\ cmd \in Reads
        /\ Stb /\ ~fack /\ dir # "rcv" => Word = <<op, Taken + 1>>

IInv ==
    /\ TypeOK /\ FpgaOK
    /\ PinsOK /\ Position /\ CleanStart /\ SendsOnly /\ InStep /\ GivenUp
    /\ Delivered
-----------------------------------------------------------------------------
(* The abstract specification *)

\* Every operation keeps the promise of BusPromise: its words reach the other side
\* one by one, nothing but a new call makes it start again, and 0 is returned after
\* the last of them, whatever state the pins and the FPGA were left in.
Promised == pc \in Transfer \/ (pc = "idle" /\ op # "comm_reset")
Status == IF pc \in Stopped THEN pc ELSE "busy"
Voided == Promised /\ (overrun \/ err)
Moved ==
    IF Promised /\ ~Voided /\ (freq \/ pc \in {"end_wait", "idle"})
    THEN taken + sent ELSE 0
WordsOf == [o \in Ops |-> IF o = "comm_reset" THEN 0 ELSE SendLen(o) + RecvLen(o)]
Promise == INSTANCE BusPromise WITH
    Words <- WordsOf, status <- Status, moved <- Moved, void <- Voided
KeepsPromise == Promise!Spec
=============================================================================
