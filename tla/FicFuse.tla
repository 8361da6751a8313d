------------------------------- MODULE FicFuse -------------------------------
(***************************************************************************)
(* The accesses to the DDR of the FPGA: ficfuse.c with its files /mem and  *)
(* /reg, called by the threads of the FUSE session, and the programs that  *)
(* call fic_hls_ddr_read, _write and _debug in a session of their own, all *)
(* over the same lock file.  One action per access.                        *)
(*                                                                         *)
(* The DDR takes whole words of 4 bytes, so a request to /mem is cut into  *)
(* a head that does not start at a word, a body of whole words and a tail; *)
(* _write reads, modifies and writes the words it covers in part.  The     *)
(* lock is the abstract one of ExclusiveLock, which GpioLock implements.   *)
(*                                                                         *)
(* The DDR and its module in the FPGA are external.  An access is a        *)
(* command of 12 bytes with a size, and data.  A call that is cut off      *)
(* behind its command leaves the module out of step: it takes what comes   *)
(* next for that data, until a reset.  _read and _write give it the        *)
(* unaligned offset of a head and then expect the word around it, so it is *)
(* taken to ignore the two low bits of an address.                         *)
(***************************************************************************)
EXTENDS Naturals, Sequences

CONSTANTS
    Workers,    \* threads and processes that access the DDR
    Requests,   \* the calls they make: [kind, offset, size]
    Turns,      \* bound: the number of calls of a worker
    MemSize,    \* FIC_MEM_SIZE, one less than a multiple of 4
    SizeMod     \* size_t counts modulo this: 2^32

\* /mem, /reg, the start of ficfuse, and the programs without it: testddr, mmread
\* and those in Python, which give the DDR whole words.
Direct == {"ddr_read", "ddr_write", "ddr_debug"}
Kinds == {"read", "write", "reg_read", "reg_write", "init"} \cup Direct

ASSUME FuseAssumption ==
    /\ Requests \subseteq [kind : Kinds, offset : Nat, size : 0..(SizeMod - 1)]
    /\ \A r \in Requests : r.kind \in Direct =>
          /\ r.offset % 4 = 0 /\ r.size % 4 = 0 /\ r.size > 0
          /\ r.offset + r.size <= MemSize + 1
    /\ {Turns, MemSize, SizeMod} \subseteq Nat
    /\ Workers \cap {"ddr", "outside"} = {}
    /\ MemSize % 4 = 3 /\ SizeMod % 4 = 0 /\ MemSize < SizeMod

VARIABLES
    owners, broken,     \* the lock
    mem,                \* the bytes of the DDR
    pc,                 \* the next call a worker makes
    turns,              \* how many calls it has begun
    req,                \* its request
    off, left, pos,     \* offset, size_left, and how far buf_p has moved
    word,               \* r_buf
    out,                \* the bytes read so far
    instep,             \* the DDR module expects a command
    before,             \* history: the DDR when the lock was last taken
    missed,             \* history: the workers whose reset has not reached the FPGA
    astray              \* history: an access has met a module that is out of step

lock == <<owners, broken>>
locals == <<off, left, pos, word, out>>
module == <<instep, missed, astray>>
vars == <<lock, mem, pc, turns, req, locals, before, module>>

Lock == INSTANCE ExclusiveLock WITH Threads <- Workers

Addresses == 0..MemSize
DdrCalls == {"head", "head_write", "body", "tail", "tail_write",
             "reg", "block", "debug", "reply"}

\* A byte: where it comes from, and its place there.
Original(a) == <<"ddr", a>>
Garbage == <<"outside", 0>>     \* from outside the caller's buffer, or shifted
Bytes == ({"ddr", "outside"} \cup Workers) \X Nat

\* The byte i of the buffer of a writer.
Byte(w, i) == IF i < req[w].size THEN <<w, i>> ELSE Garbage

\* The word around an address, and the DDR after n bytes were stored there.
Base(a) == a - (a % 4)
WordAt(a) ==
    [i \in 0..3 |-> IF Base(a) + i \in Addresses THEN mem[Base(a) + i] ELSE Garbage]
Stored(a, n, content) ==
    [x \in Addresses |->
        IF Base(a) <= x /\ x < Base(a) + n THEN content[x - Base(a)] ELSE mem[x]]

\* What comes next, with n bytes left from offset o.
Stage(o, n) ==
    IF n = 0 THEN "close"
    ELSE IF (o + n) % 4 = 0 \/ n > 3 + ((o + n) % 4) THEN "body" ELSE "tail"

\* What comes first.
FirstCall(w) ==
    CASE req[w].kind \in {"read", "write"} ->
             IF off[w] % 4 # 0 THEN "head" ELSE Stage(off[w], left[w])
      [] req[w].kind \in {"reg_read", "reg_write"} -> "reg"
      [] req[w].kind \in {"ddr_read", "ddr_write"} -> "block"
      [] req[w].kind = "ddr_debug" -> "debug"
      [] req[w].kind = "init" -> "close"

NoRequest == [kind |-> "read", offset |-> 0, size |-> 0]
ZeroWord == [i \in 0..3 |-> Garbage]

Init ==
    /\ Lock!Init
    /\ mem = [a \in Addresses |-> Original(a)]
    /\ pc = [w \in Workers |-> "idle"] /\ turns = [w \in Workers |-> 0]
    /\ req = [w \in Workers |-> NoRequest]
    /\ off = [w \in Workers |-> 0] /\ left = [w \in Workers |-> 0]
    /\ pos = [w \in Workers |-> 0]
    /\ word = [w \in Workers |-> ZeroWord] /\ out = [w \in Workers |-> <<>>]
    /\ before = mem /\ instep = TRUE /\ missed = {} /\ astray = FALSE
-----------------------------------------------------------------------------
Goto(w, call) == pc' = [pc EXCEPT ![w] = call]

\* An access that the module takes for what it is.
At(w, call) == pc[w] = call /\ instep

\* Locals are dead when the call returns.
Return(w) ==
    /\ Goto(w, "idle")
    /\ req' = [req EXCEPT ![w] = NoRequest]
    /\ off' = [off EXCEPT ![w] = 0] /\ left' = [left EXCEPT ![w] = 0]
    /\ pos' = [pos EXCEPT ![w] = 0]
    /\ word' = [word EXCEPT ![w] = ZeroWord] /\ out' = [out EXCEPT ![w] = <<>>]
    /\ missed' = missed \ {w} /\ UNCHANGED astray

\* n bytes of the request are done.
Move(w, n, rest) ==
    /\ off' = [off EXCEPT ![w] = @ + n]
    /\ pos' = [pos EXCEPT ![w] = @ + n]
    /\ left' = [left EXCEPT ![w] = rest]

\* A request out of range or of no bytes is refused at once.  /reg is compared with
\* the size of /mem, and its size with nothing.
Refused(r) ==
    \/ r.kind \in {"read", "write"} /\ (r.offset + r.size > MemSize \/ r.size = 0)
    \/ r.kind \in {"reg_read", "reg_write"} /\ r.offset > MemSize

Call(w, r) ==
    /\ pc[w] = "idle" /\ turns[w] < Turns
    /\ turns' = [turns EXCEPT ![w] = @ + 1]
    /\ IF Refused(r)
       THEN UNCHANGED <<pc, req>>
       ELSE Goto(w, "open") /\ req' = [req EXCEPT ![w] = r]
    /\ UNCHANGED <<lock, mem, locals, before, module>>

\* Mutant: the result of fic_gpio_open is not looked at.
OpenUnchecked(w) ==
    /\ pc[w] = "open"
    /\ owners' = owners \cup {w} /\ UNCHANGED broken
    /\ off' = [off EXCEPT ![w] = req[w].offset]
    /\ left' = [left EXCEPT ![w] = req[w].size]
    /\ Goto(w, "reset")
    /\ before' = mem
    /\ UNCHANGED <<mem, turns, req, pos, word, out, module>>

\* fic_gpio_open
Open(w) ==
    /\ pc[w] = "open"
    /\ Lock!Acquire(w)
    /\ off' = [off EXCEPT ![w] = req[w].offset]
    /\ left' = [left EXCEPT ![w] = req[w].size]
    /\ Goto(w, "reset")
    /\ before' = mem
    /\ UNCHANGED <<mem, turns, req, pos, word, out, module>>

OpenFails(w) ==
    /\ pc[w] = "open"
    /\ Return(w)
    /\ UNCHANGED <<lock, mem, turns, before, instep>>

\* Mutant: ficfuse resets the module only when it starts.
ResetAtStart(w) ==
    /\ pc[w] = "reset"
    /\ Goto(w, FirstCall(w))
    /\ instep' = (instep \/ req[w].kind = "init") /\ missed' = missed \ {w}
    /\ UNCHANGED <<lock, mem, turns, req, locals, before, astray>>

\* fic_comm_reset; before each block of testddr, fic_hls_reset and fic_hls_start.
\* ficlib2.c says of it "Reset I/F FSM", and it drops RREQ and raises RSTB.  That this puts
\* the DDR module behind the interface in step is an assumption.
Reset(w) ==
    /\ pc[w] = "reset"
    /\ Goto(w, FirstCall(w))
    /\ instep' = TRUE /\ missed' = missed \ {w}
    /\ UNCHANGED <<lock, mem, turns, req, locals, before, astray>>

\* Only _init_fic looks at its result.  A program in Python may not call it.
ResetMissed(w) ==
    /\ pc[w] = "reset"
    /\ IF req[w].kind = "init"
       THEN Goto(w, "eio") /\ UNCHANGED missed
       ELSE Goto(w, FirstCall(w)) /\ missed' = missed \cup {w}
    /\ UNCHANGED <<lock, mem, turns, req, locals, before, instep, astray>>
-----------------------------------------------------------------------------
(* _read *)

ReadHead(w) ==
    LET mis == off[w] % 4
        n   == IF 4 - mis > left[w] THEN left[w] ELSE 4 - mis
    IN  /\ At(w, "head") /\ req[w].kind = "read"
        /\ out' = [out EXCEPT ![w] = [i \in 1..n |-> WordAt(off[w])[mis + i - 1]]]
        /\ Move(w, n, left[w] - n)
        /\ Goto(w, Stage(off'[w], left'[w]))
        /\ UNCHANGED <<lock, mem, turns, req, word, before, module>>

ReadBody(w) ==
    LET mis == (off[w] + left[w]) % 4
        n   == left[w] - mis
    IN  /\ At(w, "body") /\ req[w].kind = "read"
        /\ out' = [out EXCEPT ![w] = @ \o [i \in 1..n |-> mem[Base(off[w]) + i - 1]]]
        /\ Move(w, n, mis)
        /\ Goto(w, IF mis = 0 THEN "close" ELSE "tail")
        /\ UNCHANGED <<lock, mem, turns, req, word, before, module>>

\* Mutant: the bytes of the tail are taken from the end of its word.
ReadTailFromEnd(w) ==
    /\ At(w, "tail") /\ req[w].kind = "read"
    /\ out' = [out EXCEPT ![w] =
                 @ \o [i \in 1..left[w] |-> WordAt(off[w])[3 - left[w] + i]]]
    /\ Goto(w, "close")
    /\ UNCHANGED <<lock, mem, turns, req, off, left, pos, word, before, module>>

ReadTail(w) ==
    /\ At(w, "tail") /\ req[w].kind = "read"
    /\ out' = [out EXCEPT ![w] = @ \o [i \in 1..left[w] |-> WordAt(off[w])[i - 1]]]
    /\ Goto(w, "close")
    /\ UNCHANGED <<lock, mem, turns, req, off, left, pos, word, before, module>>
-----------------------------------------------------------------------------
(* _write *)

LoadWord(w) ==
    /\ pc[w] \in {"head", "tail"} /\ instep /\ req[w].kind = "write"
    /\ word' = [word EXCEPT ![w] = WordAt(off[w])]
    /\ Goto(w, IF pc[w] = "head" THEN "head_write" ELSE "tail_write")
    /\ UNCHANGED <<lock, mem, turns, req, off, left, pos, out, before, module>>

\* memcpy of the head into r_buf, and of the tail.
HeadBytes(w) ==
    LET mis == off[w] % 4
    IN  [i \in 0..3 |->
           IF mis <= i /\ i < mis + left[w] THEN Byte(w, i - mis) ELSE word[w][i]]
TailBytes(w) ==
    [i \in 0..3 |-> IF i < left[w] THEN Byte(w, pos[w] + i) ELSE word[w][i]]
\* What follows in the buffer of the caller, and the block of a program.
BlockBytes(w) == [i \in 0..3 |-> Byte(w, off[w] - req[w].offset + i)]
BodyBytes(w) == [i \in Nat |-> Byte(w, pos[w] + i)]

\* Mutant: the subtraction does not wrap at the width of size_t.
WriteHeadWide(w) ==
    LET n == 4 - (off[w] % 4)
    IN  /\ At(w, "head_write")
        /\ mem' = Stored(off[w], 4, HeadBytes(w))
        /\ Move(w, n, left[w] + SizeMod - n)
        /\ Goto(w, Stage(off'[w], left'[w]))
        /\ UNCHANGED <<lock, turns, req, word, out, before, module>>

\* size_left -= tx_size, also where the request ends inside the head.
WriteHead(w) ==
    LET n == 4 - (off[w] % 4)
    IN  /\ At(w, "head_write")
        /\ mem' = Stored(off[w], 4, HeadBytes(w))
        /\ Move(w, n, IF n <= left[w] THEN left[w] - n ELSE left[w] + SizeMod - n)
        /\ Goto(w, Stage(off'[w], left'[w]))
        /\ UNCHANGED <<lock, turns, req, word, out, before, module>>

WriteBody(w) ==
    LET mis == (off[w] + left[w]) % 4
        n   == left[w] - mis
    IN  /\ At(w, "body") /\ req[w].kind = "write"
        /\ mem' = Stored(off[w], n, BodyBytes(w))
        /\ Move(w, n, mis)
        /\ Goto(w, IF mis = 0 THEN "close" ELSE "tail")
        /\ UNCHANGED <<lock, turns, req, word, out, before, module>>

\* Mutant: the word of the tail is written without what it held.
WriteTailWhole(w) ==
    /\ At(w, "tail_write")
    /\ mem' = Stored(off[w], 4, BodyBytes(w))
    /\ Goto(w, "close")
    /\ UNCHANGED <<lock, turns, req, off, left, pos, word, out, before, module>>

WriteTail(w) ==
    /\ At(w, "tail_write")
    /\ mem' = Stored(off[w], 4, TailBytes(w))
    /\ Goto(w, "close")
    /\ UNCHANGED <<lock, turns, req, off, left, pos, word, out, before, module>>
-----------------------------------------------------------------------------
(* /reg, and the programs without ficfuse *)

\* One fic_hls_read or fic_hls_write.  The registers are not in the DDR.
Reg(w) ==
    /\ At(w, "reg")
    /\ Goto(w, "close")
    /\ UNCHANGED <<lock, mem, turns, req, locals, before, module>>

\* Behind a block comes the next.
NextBlock(w) ==
    /\ off' = [off EXCEPT ![w] = @ + 4] /\ left' = [left EXCEPT ![w] = @ - 4]
    /\ Goto(w, IF left[w] > 4 THEN "reset" ELSE "close")

Block(w) ==
    /\ At(w, "block")
    /\ NextBlock(w)
    /\ IF req[w].kind = "ddr_write"
       THEN /\ mem' = Stored(off[w], 4, BlockBytes(w))
            /\ UNCHANGED out
       ELSE /\ out' = [out EXCEPT ![w] = @ \o [i \in 1..4 |-> mem[off[w] + i - 1]]]
            /\ UNCHANGED mem
    /\ UNCHANGED <<lock, turns, req, pos, word, before, module>>

\* fic_hls_ddr_debug, a command and its reply of 12 bytes.
DebugSend(w) ==
    /\ At(w, "debug")
    /\ Goto(w, "reply")
    /\ UNCHANGED <<lock, mem, turns, req, locals, before, module>>

DebugReceive(w) ==
    /\ At(w, "reply")
    /\ Goto(w, "close")
    /\ UNCHANGED <<lock, mem, turns, req, locals, before, module>>
-----------------------------------------------------------------------------
(* Failures *)

\* What an access that succeeds stores, and the number of bytes of its words.
Effect(w) ==
    CASE pc[w] = "head_write" -> Stored(off[w], 4, HeadBytes(w))
      [] pc[w] = "tail_write" -> Stored(off[w], 4, TailBytes(w))
      [] pc[w] = "body" /\ req[w].kind = "write" ->
             Stored(off[w], left[w] - ((off[w] + left[w]) % 4), BodyBytes(w))
      [] pc[w] = "block" /\ req[w].kind = "ddr_write" ->
             Stored(off[w], 4, BlockBytes(w))
      [] OTHER -> mem
Span(w) ==
    CASE pc[w] \in {"head_write", "tail_write"} -> 4
      [] pc[w] = "body" /\ req[w].kind = "write" ->
             left[w] - ((off[w] + left[w]) % 4)
      [] pc[w] = "block" /\ req[w].kind = "ddr_write" -> 4
      [] OTHER -> 0

\* The DDR with the first j bytes of an access right and those up to k wrong.
Torn(w, j, k) ==
    [x \in Addresses |->
        IF x < Base(off[w]) + j THEN Effect(w)[x]
        ELSE IF x < Base(off[w]) + k THEN Garbage ELSE mem[x]]

\* An access fails, or its caller is killed in it.  _fic_hls_send_bytes goes on behind
\* a word that was not acknowledged, and if that one was lost, all behind it are
\* shifted: the DDR has right words, then wrong ones, and waits for the end of the
\* last, which it takes whole or not.  A block here stands for one of many words, so
\* it may be wrong from its start to its end.  If the command went out, the module
\* may wait for the rest of the data.
CutOff(w) ==
    /\ pc[w] \in DdrCalls /\ instep
    /\ \E j, k \in {n \in 0..Span(w) : n % 4 = 0} :
          /\ j <= k
          /\ j = k \/ k < Span(w) \/ pc[w] = "block"
          /\ mem' = Torn(w, j, k)
    /\ instep' \in BOOLEAN

\* Mutant: an access that fails is not noticed, and the request reports its size.
FailsUnnoticed(w) ==
    /\ CutOff(w) /\ pc[w] # "block"
    /\ Goto(w, IF pc[w] = "debug" THEN "reply" ELSE "close")
    /\ UNCHANGED <<lock, turns, req, locals, before, missed, astray>>

\* goto READ_IO_ERROR or WRITE_IO_ERROR.  The result of the send of
\* fic_hls_ddr_debug is overwritten.
Fails(w) ==
    /\ CutOff(w) /\ pc[w] # "block"
    /\ Goto(w, IF pc[w] = "debug" THEN "reply" ELSE "eio")
    /\ UNCHANGED <<lock, turns, req, locals, before, missed, astray>>

\* testddr goes on with its next block.
BlockFails(w) ==
    /\ CutOff(w) /\ pc[w] = "block"
    /\ NextBlock(w)
    /\ UNCHANGED <<lock, turns, req, pos, word, out, before, missed, astray>>

\* An access meets a module that waits for data of an earlier one, or has a reply
\* for it.  What it does with this command, and with all that follows, is not in
\* the code; the model ends here.
Stray(w) ==
    /\ pc[w] \in DdrCalls /\ ~instep
    /\ astray' = TRUE
    /\ UNCHANGED <<lock, mem, pc, turns, req, locals, before, instep, missed>>

\* fic_gpio_close, and return size or -EIO.
Close(w) ==
    /\ pc[w] \in {"close", "eio"}
    /\ Lock!Release({w})
    /\ Return(w)
    /\ UNCHANGED <<mem, turns, before, instep>>

\* The worker is killed in an access, or before it.
Crash(w) ==
    /\ CutOff(w) \/ (pc[w] = "reset" /\ UNCHANGED <<mem, instep>>)
    /\ Lock!Release({w})
    /\ Return(w)
    /\ UNCHANGED <<turns, before>>

\* The lock protocol is breached, in one of the ways GpioLock names.
Breach ==
    /\ ~broken
    /\ Lock!Break
    /\ UNCHANGED <<mem, pc, turns, req, locals, before, module>>

Access(w) ==
    \/ ReadHead(w) \/ ReadBody(w) \/ ReadTail(w)
    \/ LoadWord(w) \/ WriteHead(w) \/ WriteBody(w) \/ WriteTail(w)
    \/ Reg(w) \/ Block(w) \/ DebugSend(w) \/ DebugReceive(w)

Next ==
    /\ ~astray
    /\ \/ \E w \in Workers :
             \/ \E r \in Requests : Call(w, r)
             \/ Open(w) \/ OpenFails(w) \/ Reset(w) \/ ResetMissed(w)
             \/ Access(w) \/ Fails(w) \/ BlockFails(w) \/ Stray(w)
             \/ Close(w) \/ Crash(w)
       \/ Breach

Spec == Init /\ [][Next]_vars
-----------------------------------------------------------------------------
(* Properties *)

InRange(w, x) == req[w].offset <= x /\ x < req[w].offset + req[w].size

Control ==
    /\ owners \subseteq Workers
    /\ pc \in [Workers -> DdrCalls \cup {"idle", "open", "reset", "close", "eio"}]
    /\ turns \in [Workers -> 0..Turns]
    /\ req \in [Workers -> Requests \cup {NoRequest}]
Flags ==
    /\ broken \in BOOLEAN /\ instep \in BOOLEAN /\ astray \in BOOLEAN
    /\ missed \subseteq Workers
Locals ==
    /\ off \in [Workers -> Nat] /\ pos \in [Workers -> Nat]
    /\ left \in [Workers -> 0..(SizeMod - 1)]
Contents ==
    /\ mem \in [Addresses -> Bytes] /\ before \in [Addresses -> Bytes]
    /\ word \in [Workers -> [0..3 -> Bytes]]
    /\ out \in [Workers -> Seq(Bytes)]
TypeOK == Control /\ Flags /\ Locals /\ Contents

\* A write that starts inside a word and ends before the end of that word.
EndsInHead(r) ==
    r.kind = "write" /\ r.offset % 4 # 0 /\ r.size < 4 - (r.offset % 4)

\* The caller's bytes are in their place, and no other has changed.
Exact(w) ==
    mem = [x \in Addresses |-> IF InRange(w, x) THEN <<w, x - req[w].offset>>
                                                ELSE before[x]]

\* "Read out 1st 4B and modify then write": a write that is about to return its
\* size is exact.
EveryWriteExact ==
    \A w \in Workers :
        pc[w] = "close" /\ req[w].kind = "write" /\ ~broken => Exact(w)

\* A write that is about to return its size has put the caller's bytes in their
\* place and changed no other, unless it ended inside its first word: also one that
\* comes behind such a write.
WriteExact ==
    \A w \in Workers :
        pc[w] = "close" /\ req[w].kind = "write" /\ ~broken
            => EndsInHead(req[w]) \/ Exact(w)

\* A read that is about to return its size has the bytes of one moment, the one
\* at which it got the lock.
ReadExact ==
    \A w \in Workers :
        pc[w] = "close" /\ req[w].kind = "read" /\ ~broken
            => out[w] = [i \in 1..req[w].size |-> before[req[w].offset + i - 1]]

\* Whatever fails or dies in the middle, a byte changes only when the worker
\* that has the lock was asked to write it: the neighbours that a word carries
\* along are never written back with an old value.  A write that ends inside its
\* first word changes any, but only while it has the lock.
NeighboursKept ==
    [][~broken => \A x \in Addresses : mem'[x] # mem[x] =>
          \E w \in owners :
              /\ req[w].kind \in {"write", "ddr_write"}
              /\ EndsInHead(req[w]) \/ InRange(w, x)]_vars

\* Whoever fails or dies behind its command, the access of another session, or of a
\* later one of its own, finds the module in step: the only ones that do not are a
\* caller whose own reset was lost, and fic_hls_ddr_debug, which goes on behind a
\* command that failed.  This rests on the assumption at Reset.
InStep ==
    astray /\ ~broken => \E w \in owners : w \in missed \/ req[w].kind = "ddr_debug"
-----------------------------------------------------------------------------
(* The inductive invariant behind them.                                     *)

File == {"read", "write"}
Session == DdrCalls \cup {"reset", "close", "eio"}
\* The steps of a request to /mem at which off and left are its place in it.
Underway == {"reset", "head", "head_write", "body", "tail", "tail_write"}

\* A session has the lock, and no other has.
Held ==
    /\ \A w \in Workers : w \in owners <=> pc[w] \in Session
    /\ ~broken => \A v, w \in owners : v = w

\* What a worker is in the middle of.
Asked(w) ==
    /\ pc[w] # "idle" => req[w] \in Requests /\ ~Refused(req[w])
    /\ pc[w] \in {"idle", "open"} => pos[w] = 0 /\ out[w] = <<>>
    /\ pc[w] \in {"head", "body", "tail"} => req[w].kind \in File
    /\ pc[w] \in {"head_write", "tail_write"} => req[w].kind = "write"
    /\ pc[w] = "reg" => req[w].kind \in {"reg_read", "reg_write"}
    /\ pc[w] = "block" => req[w].kind \in Direct
    /\ pc[w] \in {"debug", "reply"} => req[w].kind = "ddr_debug"

\* Where it is: a head at the start, a body and a tail at a word.  A write that
\* ended inside its head has lost its end.
FilePlace(w) ==
    /\ pc[w] \in Underway /\ req[w].kind \in File =>
          /\ req[w].offset <= off[w] /\ pos[w] = off[w] - req[w].offset
          /\ \/ off[w] + left[w] = req[w].offset + req[w].size
             \/ pc[w] \in {"body", "tail", "tail_write"} /\ EndsInHead(req[w])
    /\ pc[w] \in {"reset", "head", "head_write"} /\ req[w].kind \in File =>
          pos[w] = 0 /\ out[w] = <<>>
    /\ pc[w] \in {"head", "head_write"} => off[w] % 4 # 0
    /\ pc[w] \in {"body", "tail", "tail_write"} => off[w] % 4 = 0
    /\ pc[w] = "body" => left[w] >= (off[w] + left[w]) % 4
    /\ pc[w] \in {"tail", "tail_write"} => left[w] \in 1..3
BlockPlace(w) ==
    pc[w] \in {"reset", "block"} /\ req[w].kind \in Direct =>
        /\ off[w] % 4 = 0 /\ req[w].offset <= off[w]
        /\ left[w] % 4 = 0 /\ left[w] > 0
        /\ off[w] + left[w] = req[w].offset + req[w].size

\* What a write has put into the DDR, what a read has taken from it, and that the
\* word about to be written back is still what the DDR holds.
WrittenSoFar(w) ==
    ~broken /\ pc[w] \in Underway /\ req[w].kind = "write" /\ ~EndsInHead(req[w]) =>
        mem = [x \in Addresses |->
                  IF req[w].offset <= x /\ x < off[w]
                  THEN <<w, x - req[w].offset>> ELSE before[x]]
ReadSoFar(w) ==
    ~broken /\ pc[w] \in Underway /\ req[w].kind = "read" =>
        /\ mem = before
        /\ out[w] = [i \in 1..pos[w] |-> before[req[w].offset + i - 1]]
WordLoaded(w) ==
    ~broken /\ pc[w] \in {"head_write", "tail_write"} => word[w] = WordAt(off[w])

\* Behind its reset, a session finds the module in step.
SteppedIn(w) ==
    ~broken /\ pc[w] \in DdrCalls /\ w \notin missed =>
        instep \/ req[w].kind = "ddr_debug"

IInv ==
    /\ TypeOK
    /\ Held
    /\ \A w \in Workers :
          /\ Asked(w) /\ FilePlace(w) /\ BlockPlace(w)
          /\ WrittenSoFar(w) /\ ReadSoFar(w) /\ WordLoaded(w)
          /\ SteppedIn(w)
    /\ WriteExact /\ ReadExact /\ InStep
-----------------------------------------------------------------------------
(* What the callers see, as the steps of a ByteStore. *)

\* A write that is under way has not taken effect: it does in the access that
\* completes it, or where it fails.
Writing == \E w \in Workers : pc[w] \in Underway /\ req[w].kind = "write"
Content == IF Writing THEN before ELSE mem

Status ==
    [w \in Workers |->
        IF pc[w] \in {"idle", "eio"} THEN "idle"
        ELSE IF pc[w] = "close" THEN "answered" ELSE "asked"]
Wanted == [w \in Workers |-> IF pc[w] = "eio" THEN NoRequest ELSE req[w]]
Answer ==
    [w \in Workers |->
        IF pc[w] = "close" /\ req[w].kind = "read" THEN out[w] ELSE <<>>]

Store == INSTANCE ByteStore WITH
    Clients <- Workers, Initial <- [a \in Addresses |-> Original(a)],
    Spoiling <- {r \in Requests : EndsInHead(r)},
    content <- Content, status <- Status, req <- Wanted, answer <- Answer

\* Every read and every write of /mem that reports its size takes effect at one
\* moment between its call and its return, whatever the other sessions do.  One that
\* fails or dies is not undone, and what it leaves in the place it was asked to write,
\* right, shifted or old bytes, is open; no other byte of the store is changed by it,
\* and none by a read.  Of a write that ends inside its first word only the moment is
\* promised.
KeepsStore == Store!Spec
=============================================================================
