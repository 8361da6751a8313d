# Verification of libfic2

libfic2 is the C library of the FiC FPGA boards: a Raspberry Pi drives the FPGA
through its GPIO pins.  This directory holds TLA+ models of the library, the TLC
runs that check them on small instances, and theorems that TLAPS proves for every
instance.  `PROJECT.json` lists the components, the runs, a mutant for every
property (a plausible bug that the property must catch), the source lines of each
definition, the findings, the hazards and the theorems.

    tlc -workers 2 -config MCGpioLock_faults.cfg MCGpioLock     # one of the runs
    tlapm GpioLockProofs.tla                                    # proofs

## 1. The system

| Part | Source | State | Operations |
|---|---|---|---|
| GPIO session and lock file | `ficlib2.c` 1557-1655 | the file `LOCK_FILE`, its `flock`, `lock_fd`, the global `gpio` | `fic_gpio_open`, `fic_gpio_close`, `gpio_lock`, `gpio_unlock` |
| Parallel bus, registers, HLS, DDR | `ficlib2.c` 15-833, 1507-1551 | the pins and their directions | `fic_comm_*`, `fic_write`, `fic_read`, `fic_hls_*`, `fic_hls_ddr_*` |
| FPGA configuration (SelectMAP) | `ficlib2.c` 838-1504 | the pins, `PROG_STAT` | `fic_prog_init*`, `fic_prog_sm8`, `fic_prog_sm16`, their `_fast` forms |
| Asynchronous configuration | `ficlib2.c` 1036-1069, 1276-1306 | `PROG_STAT.prog_data`, `prog_size`, `stat`; a detached thread | `fic_prog_sm8_async`, `fic_prog_sm16_async` |
| Managed memory | `mmalloc.c` | a list of entries over a file | `mmallocInit`, `mmalloc`, `mfree`, `mmsync`, `mmread`, `minfo` |
| FUSE driver | `ficfuse.c` | none but the DDR and its module behind it | `_read`, `_write` of `/mem` and `/reg`, `_init_fic` |
| Python bindings | `pyficlib2.c` | none but the library's | one method per function, `prog_status` for `PROG_STAT` |
| Programs | `pyficprog.py`, `testddr.c`, `testprog.c`, `pyficlibtest.py` | none | fixed sequences of calls |

How they interact.  Every user opens a GPIO session first; the lock file is what
keeps processes, and the threads of `ficfuse`, apart.  In a session it calls
operations of the bus or of SelectMAP, which only share the pins: what an
operation that failed left on them is what the next one starts from.  A thread of
`fic_prog_*_async` outlives the call that made it and uses the session's mapping.
`mmalloc` hands out areas of the file that `ficfuse` serves; `ficfuse` turns a
request into DDR operations of whole words.  A DDR operation is a command of 12
bytes with a size, and data; one that is cut off between the two leaves the module
behind the bus waiting, whoever opens the next session.

What is hard in it, and what makes each part correct:

* **Lock file.**  `stat` and `open(O_CREAT)` are two calls, `close` drops the lock
  before `unlink` removes the file, `flock` has no timeout, errors leave the
  descriptor open, callers ignore -1, SIGINT kills without clean-up.  Correct: no
  two users at once, a session's registers stay mapped, the file goes away, an
  open returns.
* **Bus.**  A four-phase handshake with timeouts at every wait, given up without
  cleaning the pins; the `_fast` words omit one phase.  Correct: an operation that
  returns 0 has moved its words, once and in order, whatever went before it.
* **SelectMAP.**  Look-ahead over runs of equal words past the end of the buffer,
  INIT that falls at any word, DONE and INIT of earlier calls, waits with and
  without timeout, odd sizes in words of two bytes.  Correct: the words clocked are
  the stream; a reported DONE is the one of this call; the return value tells the
  result; a call returns.
* **Asynchronous configuration.**  One global record carries the arguments of every
  call, and a program that polls closes the GPIO as soon as it sees the result.
  Correct: a thread sends and frees its own copy, with the registers mapped.
* **mmalloc.**  A first-fit scan with a carried offset over a list with removal in
  the middle.  Correct: the list loses nothing, areas do not overlap.
* **ficfuse and the programs beside it.**  Head, body and tail of misaligned
  requests, read-modify-write of words that two requests share, unsigned sizes,
  workers that fail or die between the command and the data of an access, resets
  whose result is ignored.  Correct: exactly the bytes asked for are read or
  changed; no session suffers from what an earlier one left in the DDR module.

## 2. The modules

| Module | Models | Used by |
|---|---|---|
| `ExclusiveLock` | the promise of the lock: one owner until something is breached | `GpioLock` implements it, `FicFuse` relies on it |
| `GpioLock` | the lock file protocol, one action per system call of a thread | `MCGpioLock`, `GpioLockProofs` |
| `GpioLockProofs` | theorems about `GpioLock` | |
| `BusPromise` | what a bus operation promises its caller, without pins: words one by one, 0 after the last | `FicBus` implements it |
| `FicBus` | the pins and every bus operation, one action per access to the GPIO registers, with the FPGA beside it | `MCFicBus`, `FicBusProofs` |
| `FicBusProofs` | theorems about `FicBus` | |
| `SelectMap` | the four configuration functions, one action per round of a loop or wait | `MCSelectMap`, `SelectMapProofs` |
| `SelectMapProofs` | theorems about `SelectMap` | |
| `ProgAsync` | the two asynchronous functions, one action per access to `PROG_STAT`, heap or registers | `MCProgAsync`, `ProgAsyncProofs` |
| `ProgAsyncProofs` | theorems about `ProgAsync` | |
| `AreaPool` | what `mmalloc` and `mfree` promise a program: areas of the size asked for that stay where they are, apart until a gap was skipped | `Mmalloc` implements it |
| `Mmalloc` | `mmalloc` (one action per round of its scan) and `mfree` | `MCMmalloc`, `MmallocProofs` |
| `MmallocProofs` | theorems about `Mmalloc` | |
| `ByteStore` | what the requests to the DDR promise: each read and write of `/mem` at one moment | `FicFuse` implements it |
| `FicFuse` | `_read`, `_write` and `_init_fic` of `ficfuse.c` and the programs that use the DDR without it, one action per access to the DDR, over the abstract lock | `MCFicFuse`, `FicFuseProofs` |
| `FicFuseProofs` | theorems about `FicFuse` | `FicFuseStoreProofs` |
| `FicFuseStoreProofs` | the refinement of `ByteStore` | |

`MCGpioLock`, `MCFicBus`, `MCSelectMap`, `MCProgAsync`, `MCMmalloc` and `MCFicFuse` give
the constants their values for TLC; the definitions they add are those values.

The composition in two steps is deliberate: `GpioLock` is shown to implement
`ExclusiveLock` (checked and proved), and `FicFuse` uses an instance of
`ExclusiveLock` as its lock, breaches included, so its guarantees are those of
requests under the real lock until a breach.  On top of it `FicFuse` implements
`ByteStore`: a reader who trusts the lock needs to know no more of the two than a
store of bytes on which requests take effect one at a time.

### GpioLock

`pc[t]` is the next system call of thread `t`; `fd`, `path` and `flock` are the
lock descriptor, the inode at `LOCK_FILE` and the owner of each inode's lock;
`gpio` and `mapped` are the global pointer of each process and the mappings that
exist.  `elapsed` counts seconds of polling (`sleep(1)` per `stat`).  `events` is a
history variable: `contended` (a session's file was opened by a second thread),
`removed` (by hand, by `make clean`), `stray` (a caller that ignored -1 unmapped
and unlinked), `killed`, `failed`.  The first three are *breaches*.

Abstractions: inodes are only told apart, so a new file takes any inode without a
name or descriptor (one more inode than threads is always enough); a descriptor
that a failed `flock` leaks holds no lock and is forgotten; use of a null `gpio`
ends the process, use of a dangling one ends it or hits another session's page.
`Careless` are the callers that go on after -1 (`mmread`, `testddr`, `testprog`).

### FicBus

`pc` is the next register access of the driver, `op` and `k` the operation and the
word it is at.  `rreq`, `rstb`, `bus` are output latches, `outReq`, `outStb`, `dir`
the directions; what the FPGA sees (`Req`, `Stb`, `Word`) follows from both, with an
undriven line low.  A word is abstracted to `<<operation, position>>`, so a word of
an earlier operation, a word twice or a word lost are all told apart.  The FPGA is
external and is what the driver takes it to be: it answers RREQ with FREQ and RSTB
with FACK, each as late as it likes or never.  `taken`, `sent` and `inOrder` record
what reached it.  `overrun` records that the Pi got ahead (strobed under a FACK
still high, or raised RREQ under a FREQ still high), `unclean` that the last
operation was given up.  `fic_hls_read` is an `hls_send` followed by an
`hls_receive`; `hls_cmd` is `fic_hls_start`/`fic_hls_reset`.  `MaxWords` bounds the
FPGA's counters.

`BusPromise` is its abstract specification.  `KeepsPromise` maps the words the FPGA
has taken and given in this operation to `moved`, and an operation in which the Pi
ran ahead, or a fast word timed out, to `void`: what `overrun` and `err` mean to a
caller is that nothing is promised.  `fic_comm_reset` moves no words.

### SelectMap

A word is a byte (x8) or two (x16).  With `odd`, the size is one byte less than the
stream's words: the x16 loops make a last word out of the last byte and the byte
behind the buffer, and count both.  `ret` keeps of the returned size only what
`pyficlib2.c` looks at, whether it reaches the size given (`Told`).  Streams are not
empty: with a size of 0, the comparison 0 < 0 of `pyficlib2.c` would take every
failure for a success.  `Round` is one round
of the loop: a burst of clocks where the look-ahead allows one, else one word (`Word`).
A single word equal to the one before is clocked through `fic_clr_gpio_fast` or
`fic_set_gpio_fast`, in the plain functions too; these look at CCLK until it has
followed, without a timeout.  `WordSpins` is the round that gets stuck there, and
`PinFollows` the pin that moves in the end.  `WaitInit` can fail behind INIT, where the
function clears CCLK.
`behind` is the number of words in memory behind the buffer that happen to equal
its last one; the look-ahead may see and clock them.  The clocks of `WaitDone` are
the start-up clocks of the FPGA and are not counted as words.  `late` counts words
clocked since INIT fell.  A dead FPGA (`DeadFpga`) ignores PROG_B.

### ProgAsync

`patience` is what the caller waits for before it calls again or closes (`Over`,
`Ready`): the end of the thread, which a C program can join through
`PROG_STAT.prog_th`; the status, which is all a program in Python gets; or the
status, for one call in a process (`"once"`).  It is chosen in `Init` and stays.  The
transfer itself is one step that needs the buffer and the registers, up to
SET_ALL_INPUT; its detail is `SelectMap`.  `prog_status` reads the fields of the
record one by one; the model looks at `stat` alone.

### Mmalloc

Addresses and sizes are blocks.  Entries stand for the pointers `mmalloc` returns.
`malloc` and `mmap` failing are one failure.  `skipped` records that the scan went
past a gap too small for its request, the step that does not move `free_offset`.

`AreaPool` is its abstract specification, without list and scan: a call asks, and is
given an area or nothing.  `KeepsPool` shows the entries in `alloc` as areas, the
request of a running call as `asked`, and `skipped` as `careless`: until then a new
area is apart from all in use; whatever happened, it has the size asked for and lies
inside the whole area, and no other area moves.

### FicFuse

A worker is a thread of `ficfuse` or a program.  A call is a request of one of the
`Kinds`: `read` and `write` of `/mem`; `reg_read` and `reg_write`; `init`, the start of
`ficfuse`; and `ddr_read`, `ddr_write` and `ddr_debug` of programs without `ficfuse`
(`mmread`, `testddr`, programs in Python), in whole words.  A call opens the session
(`Open`), resets the I/O interface (`Reset`), makes its accesses and closes.  A
`ddr_read` or `ddr_write` of more than one block of 4 bytes is `testddr`: it resets
before every block (`fic_hls_reset`, `fic_hls_start`) and goes on after one that failed;
a single block is a program with one call.

`mem` is the DDR by bytes; a written byte is `<<worker, index in its buffer>>`, an
original one names its address, so every misplaced byte is visible.  `left` counts
modulo `SizeMod`, standing for the width of `size_t`.  The DDR is external; as
`_read` and `_write` pass unaligned offsets for the first word and then use the
word around it, it is taken to ignore the two low address bits.  This is an
*assumption*: README.md:153 of the library asks for aligned addresses.  `Turns`
bounds the calls of a worker.

`instep` says whether the DDR module expects a command.  An access that is cut off,
because a call returned -1 or because its worker was killed, may leave the module
out of step and its words stored in part (`CutOff`).  `_fic_hls_send_bytes` goes on behind
a word that was not acknowledged and fails only at the end (ficlib2.c:583-585,
607-608), so if that word was lost, all behind it are shifted: the DDR holds right
words, then wrong ones, then its old ones (`Torn`), by whole words, as it does not take
one of which the end is missing.  None lies outside the words of the access.

A reset that reaches the FPGA puts the module in step again.  This is an *assumption*:
of `fic_comm_reset` the code says no more than "Reset I/F FSM" (ficlib2.c:131-133), and
what it does is to set up the pins, drop RREQ and raise RSTB.  That this also clears the
DDR module behind the interface is what the code relies on, which calls nothing else
before its accesses.  `InStep` and its theorem `StaysInStep` rest on it: that a later
session does not suffer from a command that was cut off holds under it only.
The result of that reset is ignored everywhere but in `_init_fic`, and programs in
Python may leave it out, so it can be missed (`ResetMissed`).  What an
out-of-step module does with a command is not in the repository: at the first
access that meets one the model sets `astray` and stops, and `InStep` says whose
access that can be.  So the other properties speak of behaviours up to there.
A caller that goes on after a failed `fic_gpio_open` is a breach, which the model
takes from `ExclusiveLock`, and not a session.

`ByteStore` is its abstract specification.  A request of `/mem` is asked, takes effect
in one step, and returns.  `KeepsStore` shows the DDR as the store, but while a write is
under way the DDR as it was when the lock was taken (`Content`): a write takes effect
in the access that completes it, a read in the one that completes its bytes (`Answer`).
A write that fails or dies leaves anything in the place it was asked to write, shifted
bytes among it, and changes no byte elsewhere.  Blocks of
a program without `ficfuse` take effect one by one.  A write that ends inside its first
word is one of the `Spoiling` ones: when it takes effect is the same, of the bytes
nothing is promised.

## 3. The runs

| Run | Shows | Bounds and why they are enough |
|---|---|---|
| `gpio_faults` | exclusion, removal and no orphan file with every failure; the refinement of `ExclusiveLock`; liveness | two processes, one careless; any third caller meets the same file states; 3 inodes are never used up; a timeout of 1 has a round that waits and one that gives up |
| `gpio_threads` | the inductive invariant, with mappings through the shared `gpio` | two threads of one process and one of another: the least with a shared `gpio` and a rival |
| `gpio_race` | *violation*: two callers hold the lock, no fault needed | two processes |
| `bus_mk1` | delivery, order, release, contention, cause of overruns, with pins that fail; the refinement of `BusPromise` | 4 address words, 2 per register, as on the board; payloads of 2 words have a first, a next and a last word; any sequence of operations |
| `bus_mk2` | the same for the other pin order and its size checks (`Delivered` and `InOrder` are parts of `IInv` or follow from it); every operation returns | 1 word per address and register, as on the board |
| `select_map` | the invariant of the proofs; the stream, DONE, reset, error, size, return value and termination properties for the four functions | even and odd sizes; runs of 0 to 16 words around the burst sizes 4, 8, 12 and 16, three runs in a row, 0 to 16 equal words behind the buffer |
| `async_join` | a caller that waits for the thread can call again and again, one that polls once per process is safe; the invariant of its proof | three calls, one copy left by a failed `pthread_create`; `Patiences` are `"thread"` and `"once"` |
| `async_poll` | *violation*: a caller that goes by `stat` again and again | the same, with `"status"` |
| `mmalloc_mixed` | the list; overlap only after a skipped gap; the invariant of its proof; the refinement of `AreaPool` | four entries, sizes 1 to 3, an area that fills up |
| `mmalloc_overlap` | *violation*: two areas overlap | the same |
| `fuse_rw` | exact reads and writes, neighbours kept, the DDR module in step (under the assumption on its reset), for two workers with failures that leave shifted words, deaths and breaches; the invariant of the proofs; the refinement of `ByteStore` | a DDR of three words: head, body and tail at once; every misalignment class of offset and size, writes that end inside their first word among them, a request past the end and an empty one, `/reg`, `_init_fic`, a program of two blocks in each direction, `ddr_debug`; one call per worker (the second meets whatever the first left); workers are symmetric |
| `fuse_short` | *violation*: a write that ends inside its first word | the same; `EveryWriteExact` is `WriteExact` without the exception for those writes |

Deadlock is checked except where the system really stops: `CHECK_DEADLOCK FALSE`
in `select_map` (an FPGA that ignores PROG_B with INIT low, or a CCLK that does not
follow, stops the driver for good) and in the runs of `FicFuse` (the workers use up `Turns`, and the model ends
at `Stray`).
The writes of `fuse_short` are the only requests for which `_write` goes wrong; they
are requests of `fuse_rw` too, whose properties say that they harm no other request
but by the bytes they write.

The liveness properties say exactly how far termination goes.  `OpenReturns`: an
open ends, unless it waits in `flock` for a lock that a process leaked.
`CallReturns`: a configuration ends, unless it waits for INIT with an FPGA that is
not in reset and holds INIT low, or spins in a word equal to the one before on a CCLK
that does not follow.  `LockFileRemoved`: the file goes, unless a call
failed or a process was killed.  `OperationReturns`: every bus operation ends.

**Fairness.**  The Pi's program runs (`WF` of the driver, of each thread's next
system call); in `GpioLock` a thread that holds the lock reaches its
`fic_gpio_close`.  Of the FPGA nothing is assumed on the bus, where every wait has
a timeout; in `SelectMap` an FPGA that was reset leaves the reset.
`fic_set_gpio_fast` and `fic_clr_gpio_fast` (ficlib2.c:18-28) spin until a pin reads
back as driven; with a stuck pin they do not return.  `SelectMap` has this spin, with no
fairness for the pin (`PinFollows`), and `CallReturns` names it.  `bus_mk2`, the run with
`OperationReturns`, has no pin faults instead: what it shows is termination with
whatever the FPGA does, on pins that follow.

## 4. What the code does differently from what it says

Shown by violation runs:

* `gpio_race`: the lock file does not prevent conflicts (README.md:239): `stat`,
  then `open` without `O_EXCL`, and `close` before `unlink`, let two callers in.
* `async_poll`: `fic_prog_sm*_async` return 0 with `stat` still DONE or FAIL from
  the call before.
* `mmalloc_overlap`: the scan passes a small gap without moving its offset, and
  takes the room before a later entry although other areas lie in it.
* `fuse_short`: `_write` subtracts `4 - misalignment` where the request ends before
  that, and `size_left` wraps.  `_read` handles this case (ficfuse.c:122).

Met while modelling, without a run of their own:

* `flock` has no timeout, `GPIO_LOCK_TIMEOUT` covers only the polling
  (`OpenReturns` has the exception); the wait for INIT has none either, and the
  "FPGA reset failed" message after it can only be about DONE (`CallReturns`).
* `fic_set_gpio_fast` and `fic_clr_gpio_fast` have no timeout, and the configuration
  functions without `_fast` in their names call them too, for words equal to the one
  before (ficlib2.c:1098, 1334).
* `_fic_hls_send_bytes` sends the rest of a payload behind a word that was not
  acknowledged, so a DDR write that returns -1 can have left shifted bytes.
* the `_fast` functions add to `tx_size` once per round and not per word
  (`TxSizeIsTransferred` says what it is).
* `mmalloc` starts at 0 and adds `info.offset` only to the end (mmalloc.c:58).
* `_read` and `_write` pass unaligned addresses to the DDR functions.
* `fic_prog_*` return 0 on failure; README.md:107 and :113 of the library say -1,
  which a `size_t` does not hold.  `pyficlib2.c` compares with the size, and
  `ReturnTellsResult` says that this is enough, for streams that are not empty.
* `fic_prog_async_status` is declared (ficlib2.h:417) and not defined anywhere.
* the results of `fic_comm_reset`, `fic_hls_reset` and `fic_hls_start` are ignored at
  the start of a session (ficfuse.c:105, 187, 236, 325, testddr.c:57, 68, mmalloc.c:46)
  and by `pyficlib2.c` (46, 189, 229, 234); `fic_hls_ddr_debug` ignores the result of
  its send (ficlib2.c:828).  `InStep` says what can follow.
* `/reg` is checked against the size of `/mem` (ficfuse.c:177, 315).
* `pyficlib2.c` parses the 16-bit data of `write` with the format `b` (199), which sets
  its low byte alone, and `size_t` with `I` (262, 286), which sets 32 bits; releases a
  `Py_buffer` that a failed parse may not have set (70 and its like); keeps the
  export of the buffer when an asynchronous call fails (75, 137); and never frees the
  block behind the result of `hls_receive` and `ddr_read` (266, 290).
* `mget_phy_addr` returns 0 for a pointer it does not know, which is also the address
  of the first area.
* README.md:144 of the library says that data are masked with 0x0f, which is not done.

## 5. The proofs

`GpioLockProofs` proves, for any number of threads, processes and inodes, any set of
faults and any timeout, from `LockAssumption` alone:

* `Exclusion`, `RegistersMapped`, `UnlockSucceeds`, `NoOrphan`: the safety properties
  of the `GpioLock` runs.
* `SameFile`: after a breach too, `flock` keeps apart those that opened one file.
* `Refinement`: `GpioLock` implements `ExclusiveLock` under the mapping
  `owners <- {t : Holding(t)}`, `broken <- Breached`.

`MutualExclusion` by itself says nothing about a thread that has passed `stat` or
waits in `flock`, so it is not inductive.  `IInv` adds that a holder owns the lock of
the inode behind its descriptor (`LockOwned`, breach or not), that a stray unlink was
recorded before it happens (`StrayRecorded`), and, while nothing is breached, that
a session's file is linked (`SessionLinked`), that at most one thread is between
`open` and `unlink` (`OneSession`), and that its mapping is the one `gpio` points to
(`OwnMapping`).  The step that matters is `OpenLockFile`: with a session open its
file is linked, so a second open is a `contended` one and voids the promise;
without one the new session is alone.  Each part has a lemma with one case per
action; breaches only grow (`EventsGrow`), so the parts need only be shown
for steps that end unbreached.  `NoOrphanFile` is inductive with `TypeOK`.
`gpio_threads` checks `IInv` with TLC as well.

`FicBusProofs` proves, for both boards, any number of words of an address, a
register, a command and a payload, with and without faults of the pins, from
`BusAssumption`: `BusInvariant`, `MovesItsWords` (`Delivered`), `TakesAPrefix`
(`InOrder`), `LeavesTheBusIdle`, `DrivesAlone` (`NoContention`) and
`CarefulNeverRunsAhead` (`OverrunCause`): every property of `bus_mk1`.  `Delivered`
speaks of the end of an operation only.  `IInv` says where both sides are at each
access before it: the pins (`PinsOK`), the word the driver is at (`Position`), that
the FPGA is idle before an operation that follows a complete one (`CleanStart`),
that it gives nothing while words are sent (`SendsOnly`), and that it has taken or
given as many words as the driver has counted (`InStep`), all of it under `~overrun`
once the Pi may have run ahead.  An operation that is given up leaves RREQ, RSTB and
the data lines as they are, and the FPGA may still take the word there; `GivenUp` is
what remains of `InStep` then.  The overrun is recorded at the only two accesses
that can start it, so the next `RREQ` under a low FREQ starts from nothing again.

`BusKeepsPromise` is the refinement of `BusPromise`.  It follows from the same invariant:
`InStep` says that `moved` grows by one with each word (`PromiseStep`), and
`Delivered` that `Succeed` has all of them.

`SelectMapProofs` proves, for any streams, functions, modes and anything behind the
buffers, from `SelectMapAssumption`: `MapInvariant`, `ClocksTheStream`,
`DoneMeansConfigured`, `ResetIsAwaited`, `ErrorStops`, `CountsItsBytes` and `ReturnValue`,
every safety property of `select_map`.  `StreamClocked` and the others speak of the
words the FPGA has seen, the code of its own `i`; `IInv` ties the two: how many words
`i` stands for, bursts and odd sizes included (`Counted`), that the words are clocked
only after the reset of this call (`ResetSeen`), that DONE was seen after the last of
them (`DoneSeen`), and that a plain function has looked at INIT since the last word
(`ErrorSeen`).

`ProgAsyncProofs` proves `JoinInvariant`, `OwnStreams`, `StaysMapped`, `Frees` and
`PollsOnce` for any number of calls, copies and sizes.  They are about callers that
wait for the thread or poll once in a process; `OwnStreams`, `StaysMapped` and
`Frees` assume `Waiting`, that no other is among the `Patiences`.  `JoinInv` says that
one call at a time owns `PROG_STAT`: no thread runs while a call fills the record, but
for its last `free` (`OneThread`), a polling caller has one thread, and the status is
INIT until that begins and PROG until it is done with the registers (`Once`), what
has been filled is the copy and size of this call (`CallFills`), the thread finds
exactly them (`ThreadFinds`), and no thread meets a copy that was freed nor leaves
its own (`CopiesFreed`).  For `"status"` the first of these fails, which is
`async_poll`.

`MmallocProofs` proves `OrderInvariant`, `AreasApart` (`SeparatedUnlessSkipped`),
`ListStaysIntact`, `OneSizeApart` and `ImplementsPool` for any number of entries, sizes,
offset and size of the area, from `MmallocAssumption`.  Areas do not overlap
because the list is sorted by address (`Sorted`, `Apart`) and the scan is right
behind the entry it passed last (`Scanning`, `Below`, `After`), so the gap it takes
ends before the next entry.  Everything is conditional on `~skipped`: after a gap
that was passed without moving the offset, `Scanning` is false, and
`mmalloc_overlap` shows what follows.

The list itself survives that.  `ListIntact` says that following `next` from the head
meets every entry once and ends; it is stated by what it means, that the entries have
`place`s counted from the head, each one more than that of the entry before, and so
needs no recursion.  `ListInv` adds that `prev` leads back (`Linked`) and that the scan
holds two neighbours (`Standing`).  An insertion moves the places behind the new entry up
by one, a release moves them down (`CountUp`, `CountDown`), whatever the addresses are.

`OneSizeApart`: a program whose requests all have one size never gets overlapping areas.
Then every area lies on a grid of its size and a free block (`OnGrid`), so does
`free_offset`, a gap is as large as the request or not there, and no gap is skipped.
The two sizes of `mmalloc_overlap` are needed.

`ImplementsPool` maps every step of `Mmalloc` to one of `AreaPool` or to none
(`PoolStep`): `PoolGives` takes from `OrderInv` that the room found is apart from every
area, `Asking` that a size is asked for exactly during a scan, and `ScanSkip` maps to
`Lapse`.

`FicFuseProofs` proves, for any number of workers, calls, bytes and requests and any
width of `size_t`, from `FuseAssumption` alone:
`FuseInvariant`, `WritesAreExact`, `ReadsAreExact`, `StaysInStep` and `NeighboursAreKept`.
Writes that end inside their first word (`EndsInHead`) are among the requests: their own
bytes are open, and everybody else's reads and writes are as exact as without them,
since what counts is the DDR at the `Open` of the next session.  `WriteExact` and `ReadExact` speak of the end of a call.
`IInv` says where a session stands before it: that exactly the sessions hold the lock
(`Held`), which accesses belong to which request (`Asked`), that `off`, `left` and
`pos` are at the start, at a word, or at a block (`FilePlace`, `BlockPlace`), that the
DDR is what it was at the `Open` but for the bytes from the offset up to `off`
(`WrittenSoFar`, `ReadSoFar`; the end of a request is lost, and `WrittenSoFar` void,
for a write that ended inside its head), that a word about to be written back is what the DDR
holds (`WordLoaded`), and that behind its reset a session finds the module in step
(`SteppedIn`).  The parts about the DDR are local to a session: with the lock kept, a
step is one of this session or changes nothing of it (`Elsewhere`).
`NeighboursKept` is an action property; each access that stores has a lemma that
says which bytes it changes (`HeadStores`, `TailStores`, `BodyStores`, `BlockStores`),
and `CutOffKeeps` says it of one that is cut off, whatever it leaves in its place.

`FicFuseStoreProofs` proves `ImplementsStore`, the refinement of `ByteStore`, from the same
invariant.  A step of one worker leaves what the others show (`WorksAlone`,
`ShowsOne`).  With the lock kept, the session alone decides what `Content` is
(`ContentIs`): a step in the middle of a request shows nothing (`Continues`), the last
one of a write puts in all its bytes by `WriteExact'` (`CompletesWrite`), the last one of
a read has the bytes of the store by `ReadExact'` (`CompletesRead`), and one that is cut
off has changed no byte but those it was asked to write, because `WrittenSoFar` says so
of the accesses before it and `CutOffTouches` of the one that failed (`Stops`).  What it
left there is open: after a lost word the bytes of the caller may be shifted.

Only model-checked: the liveness properties `OpenReturns`, `LockFileRemoved`,
`OperationReturns` and `CallReturns`, as fairness and ENABLED are outside the provers'
reach.  Every other property of a passing run is a theorem.

## 6. Not modelled

* `pyficlib2.c` beyond what is named above: parsing of arguments around one library
  call per method.  Its mismatches are in section 4.
* `fic_done`, `fic_power`, `fic_comm_busdebug`, `minfo`, `mget_phy_addr`, `mmsync`:
  they read and keep no state.
* `_getattr`, `_readdir`, `_open`, `_truncate` of `ficfuse.c`: constants.
* what the DDR module does with a command it meets out of step: it is not in this
  repository, so the model ends there.  An access is one step in `FicFuse`; its words
  on the bus are in `FicBus`, and the two are joined by `KeepsPromise` (an operation
  moves all its words, or fails) and not by one composed module.
* an overrun of the bus in `FicFuse`: a 0 returned for words that did not arrive
  (section 2, `void`) is not a failure its callers can see.
* empty streams in `SelectMap`.
* file I/O, timing and messages of the programs.

## 7. Plan

Done: the modules of section 2 with their runs and proofs, three of the abstract
specifications (`ByteStore`, `AreaPool`, `BusPromise`) for a caller and one
(`ExclusiveLock`) between two modules.  Further work, where it
would add something:

1. `ProgAsync` composed with `GpioLock`: a close under a running thread, and a second
   process that then takes the lock.
2. `FicFuse` with an access that returns 0 although the Pi ran ahead, to show which
   properties depend on it.
3. an abstract specification of a configuration for `SelectMap`, which `ProgAsync` could
   then use for the transfer that is one step there.
