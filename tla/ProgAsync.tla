------------------------------ MODULE ProgAsync ------------------------------
(***************************************************************************)
(* fic_prog_sm8_async and fic_prog_sm16_async: a copy of the stream is     *)
(* left in the one global PROG_STAT, and a thread that is never joined     *)
(* picks it up there, configures the FPGA through the global `gpio`, and   *)
(* frees it.  One action per access to PROG_STAT, to the heap or to the    *)
(* registers.                                                              *)
(*                                                                         *)
(* The caller may be any program, so what it waits for before it calls     *)
(* again or closes the GPIO is a parameter.  A program in Python cannot    *)
(* join the thread: pyficlib2.c has no method for it, and gives it the     *)
(* status alone.  The work of fic_prog_sm8/16 is that of SelectMap, here   *)
(* one step that needs the buffer and the registers, up to SET_ALL_INPUT.  *)
(***************************************************************************)
EXTENDS Naturals, FiniteSets

CONSTANTS
    Buffers,    \* what malloc returns, all of them different
    Tasks,      \* the threads, one per call
    NULL,
    Sizes,      \* sizes of streams
    Patiences   \* what callers wait for: the end of the "thread", which they could
                \* join; the "status"; or the status, "once" in a process

ASSUME AsyncAssumption ==
    /\ NULL \notin Buffers
    /\ Sizes \subseteq Nat
    /\ Patiences \subseteq {"thread", "status", "once"}

VARIABLES
    pc,                     \* the caller's next step
    patience,               \* what it waits for
    buf, size,              \* its locals
    stat, prog_data, prog_size,     \* of PROG_STAT
    heap,                   \* the buffers that are allocated, with their sizes
    mapped,                 \* fic_gpio_open was called, and not closed
    task,                   \* the next step of a thread
    data, length,           \* the arguments its fic_prog_sm8/16 was called with
    wanted,                 \* history: the buffer it was created for
    misused                 \* history: a free() of what was not allocated

caller == <<pc, patience, buf, size>>
status == <<stat, prog_data, prog_size>>
thread == <<task, data, length>>
vars == <<caller, status, heap, mapped, thread, wanted, misused>>

Steps == {"new", "load_data", "load_size", "begin", "program", "result", "free",
          "clear", "ended"}
Running(t) == task[t] \notin {"new", "ended"}
Allocated == DOMAIN heap

Without(b) == [x \in Allocated \ {b} |-> heap[x]]

Init ==
    /\ pc = "closed" /\ patience \in Patiences /\ buf = NULL /\ size = 0
    /\ stat = "INIT" /\ prog_data = NULL /\ prog_size = 0
    /\ heap = [b \in {} |-> 0]
    /\ mapped = FALSE
    /\ task = [t \in Tasks |-> "new"]
    /\ data = [t \in Tasks |-> NULL] /\ length = [t \in Tasks |-> 0]
    /\ wanted = [t \in Tasks |-> NULL]
    /\ misused = FALSE
-----------------------------------------------------------------------------
(* The caller *)

\* Mutant: it looks at the status once more, and takes that of an earlier call.
OverByStatus == stat # "PROG"

\* What prog_status of pyficlib2.c shows of the end of a configuration.
StatusOver == stat \in {"DONE", "FAIL"}

\* What it takes for the end of the configuration it asked for.
Over ==
    \/ \A t \in Tasks : task[t] = "new"
    \/ patience = "thread" /\ \A t \in Tasks : ~Running(t)
    \/ patience # "thread" /\ StatusOver

\* When it may call: one that does so once has not, or was refused a thread.
Ready ==
    IF patience = "once" THEN stat = "INIT" /\ \A t \in Tasks : task[t] = "new"
                         ELSE Over

GpioOpen ==
    /\ pc = "closed"
    /\ pc' = "open" /\ mapped' = TRUE
    /\ UNCHANGED <<patience, buf, size, status, heap, thread, wanted, misused>>

GpioClose ==
    /\ pc = "open" /\ Over
    /\ pc' = "closed" /\ mapped' = FALSE
    /\ UNCHANGED <<patience, buf, size, status, heap, thread, wanted, misused>>

\* malloc and memcpy.  A copy has a name of its own, so that a use of it after its
\* free() is told apart from the use of a later copy.
Malloc(b, n) ==
    /\ pc = "open" /\ Ready
    /\ \E t \in Tasks : task[t] = "new"
    /\ b \notin Allocated /\ \A t \in Tasks : wanted[t] # b
    /\ heap' = [x \in Allocated \cup {b} |-> IF x = b THEN n ELSE heap[x]]
    /\ buf' = b /\ size' = n
    /\ pc' = "set_data"
    /\ UNCHANGED <<patience, status, mapped, thread, wanted, misused>>

\* stat tells of this failure although a thread may be at work.
MallocFails ==
    /\ pc = "open" /\ Ready
    /\ stat' = "FAIL"
    /\ UNCHANGED <<caller, prog_data, prog_size, heap, mapped, thread, wanted,
                   misused>>

SetData ==
    /\ pc = "set_data"
    /\ prog_data' = buf
    /\ pc' = "set_size"
    /\ UNCHANGED <<patience, buf, size, stat, prog_size, heap, mapped, thread, wanted, misused>>

\* Mutant: the size of the last call stays.
SetSizeForgotten ==
    /\ pc = "set_size"
    /\ pc' = "create"
    /\ UNCHANGED <<patience, buf, size, status, heap, mapped, thread, wanted, misused>>

SetSize ==
    /\ pc = "set_size"
    /\ prog_size' = size
    /\ pc' = "create"
    /\ UNCHANGED <<patience, buf, size, stat, prog_data, heap, mapped, thread, wanted, misused>>

Create(t) ==
    /\ pc = "create"
    /\ task[t] = "new"
    /\ task' = [task EXCEPT ![t] = "load_data"]
    /\ wanted' = [wanted EXCEPT ![t] = buf]
    /\ pc' = "open"
    /\ UNCHANGED <<patience, buf, size, status, heap, mapped, data, length, misused>>

\* Mutant: the copy is freed, and prog_data still points to it.
CreateFailsFrees ==
    /\ pc = "create"
    /\ pc' = "open" /\ heap' = Without(buf)
    /\ UNCHANGED <<patience, buf, size, status, mapped, thread, wanted, misused>>

\* return -1: the copy stays allocated, and prog_data points to it until the
\* next call.
CreateFails ==
    /\ pc = "create"
    /\ pc' = "open"
    /\ UNCHANGED <<patience, buf, size, status, heap, mapped, thread, wanted, misused>>
-----------------------------------------------------------------------------
(* The thread: _fic_prog_sm8_async_wrap, _fic_prog_sm16_async_wrap *)

Continue(t, step) == task' = [task EXCEPT ![t] = step]

LoadData(t) ==
    /\ task[t] = "load_data"
    /\ data' = [data EXCEPT ![t] = prog_data]
    /\ Continue(t, "load_size")
    /\ UNCHANGED <<caller, status, heap, mapped, length, wanted, misused>>

LoadSize(t) ==
    /\ task[t] = "load_size"
    /\ length' = [length EXCEPT ![t] = prog_size]
    /\ Continue(t, "begin")
    /\ UNCHANGED <<caller, status, heap, mapped, data, wanted, misused>>

\* fic_prog_sm8, fic_prog_sm16 begin with their status.
Begin(t) ==
    /\ task[t] = "begin"
    /\ stat' = "PROG" /\ prog_size' = length[t]
    /\ Continue(t, "program")
    /\ UNCHANGED <<caller, prog_data, heap, mapped, data, length, wanted, misused>>

\* Mutant: the result is written before SET_ALL_INPUT.
ProgramReports(t) ==
    /\ task[t] = "program"
    /\ \/ stat = "PROG" /\ stat' \in {"DONE", "FAIL"} /\ UNCHANGED task
       \/ stat # "PROG" /\ Continue(t, "free") /\ UNCHANGED stat
    /\ UNCHANGED <<caller, prog_data, prog_size, heap, mapped, data, length, wanted,
                   misused>>

\* The stream is read and sent, up to SET_ALL_INPUT.
Program(t) ==
    /\ task[t] = "program"
    /\ Continue(t, "result")
    /\ UNCHANGED <<caller, status, heap, mapped, data, length, wanted, misused>>

Result(t) ==
    /\ task[t] = "result"
    /\ stat' \in {"DONE", "FAIL"}
    /\ Continue(t, "free")
    /\ UNCHANGED <<caller, prog_data, prog_size, heap, mapped, data, length, wanted,
                   misused>>

\* Mutant: nothing is freed.
FreeForgotten(t) ==
    /\ task[t] = "free"
    /\ Continue(t, "clear")
    /\ UNCHANGED <<caller, status, heap, mapped, data, length, wanted, misused>>

\* free(PROG_STAT.prog_data), whatever that is by now.
Free(t) ==
    /\ task[t] = "free"
    /\ heap' = Without(prog_data)
    /\ misused' = (misused \/ prog_data \notin Allocated \cup {NULL})
    /\ Continue(t, "clear")
    /\ UNCHANGED <<caller, status, mapped, data, length, wanted>>

Clear(t) ==
    /\ task[t] = "clear"
    /\ prog_data' = NULL
    /\ Continue(t, "ended")
    /\ UNCHANGED <<caller, stat, prog_size, heap, mapped, data, length, wanted,
                   misused>>
-----------------------------------------------------------------------------
Thread(t) ==
    \/ LoadData(t) \/ LoadSize(t) \/ Begin(t) \/ Program(t) \/ Result(t) \/ Free(t)
    \/ Clear(t)

Next ==
    \/ GpioOpen \/ GpioClose
    \/ \E b \in Buffers, n \in Sizes : Malloc(b, n)
    \/ MallocFails \/ SetData \/ SetSize \/ CreateFails
    \/ \E t \in Tasks : Create(t) \/ Thread(t)

Spec == Init /\ [][Next]_vars
-----------------------------------------------------------------------------
(* Properties *)

TypeOK ==
    /\ pc \in {"closed", "open", "set_data", "set_size", "create"}
    /\ patience \in Patiences
    /\ buf \in Buffers \cup {NULL} /\ size \in Sizes \cup {0}
    /\ stat \in {"INIT", "PROG", "DONE", "FAIL"}
    /\ prog_data \in Buffers \cup {NULL} /\ prog_size \in Sizes \cup {0}
    /\ Allocated \subseteq Buffers /\ \A b \in Allocated : heap[b] \in Sizes
    /\ task \in [Tasks -> Steps]
    /\ data \in [Tasks -> Buffers \cup {NULL}]
    /\ length \in [Tasks -> Sizes \cup {0}]
    /\ wanted \in [Tasks -> Buffers \cup {NULL}]
    /\ {mapped, misused} \subseteq BOOLEAN

\* A thread sends the stream it was created for, which is still allocated, with
\* its own size, although both come to it through the global PROG_STAT.
OwnStream ==
    \A t \in Tasks : task[t] = "program" =>
        /\ data[t] = wanted[t] /\ data[t] \in Allocated
        /\ length[t] = heap[data[t]]

\* The registers stay mapped for as long as a thread uses them.
RegistersMapped == \A t \in Tasks : task[t] = "program" => mapped

\* Every copy is freed once, by the thread it was made for, also after a call
\* whose pthread_create failed; PROG_STAT does not keep a pointer to it.
FreedOnce ==
    /\ ~misused
    /\ prog_data \in Allocated \cup {NULL} \/ \E t \in Tasks : task[t] = "clear"
    /\ \A t \in Tasks : task[t] = "ended" => wanted[t] \notin Allocated

\* A program that polls may go by the status for one call, in a process whose status
\* is still INIT: it is over only when the thread is done with the registers, so
\* that it can close the GPIO and end.
PolledOnce ==
    patience = "once" =>
        \A t \in Tasks : Running(t) /\ StatusOver => task[t] \in {"free", "clear"}

\* ficlib2.h, "Configuration status": once the call has returned 0, stat does not
\* say that the configuration is over before it is.
StatusIsCurrent ==
    \A t \in Tasks : Running(t) /\ task[t] \notin {"free", "clear"}
                        => stat \notin {"DONE", "FAIL"}
-----------------------------------------------------------------------------
(* The invariant behind them for a caller that waits for the thread, or     *)
(* calls once: one call at a time has PROG_STAT to itself.                   *)

Calling == pc \in {"set_data", "set_size", "create"}

\* A caller that polls goes on when its thread has only its copy to free.
OneThread ==
    /\ \A t, u \in Tasks : Running(t) /\ Running(u) => t = u
    /\ \A t \in Tasks : Running(t) =>
          pc = "open" \/ (patience = "once" /\ task[t] \in {"free", "clear"})

\* Until its one call has a thread, the status is that of a new process, or tells
\* of a failed malloc; then it is that of the thread.
Once ==
    patience = "once" =>
        /\ Calling => stat = "INIT" /\ \A t \in Tasks : task[t] = "new"
        /\ \A t, u \in Tasks : task[t] # "new" /\ task[u] # "new" => t = u
        /\ \A t \in Tasks :
              /\ task[t] \in {"load_data", "load_size", "begin"} => stat = "INIT"
              /\ task[t] \in {"program", "result"} => stat = "PROG"

\* What a call has put where, up to pthread_create.
CallFills ==
    /\ pc # "closed" => mapped
    /\ Calling => buf \in Allocated /\ heap[buf] = size
    /\ pc \in {"set_size", "create"} => prog_data = buf
    /\ pc = "create" => prog_size = size

\* What its thread finds there.
ThreadFinds ==
    \A t \in Tasks :
        /\ Running(t) => prog_data = wanted[t] /\ wanted[t] \in Buffers
        /\ Running(t) => (wanted[t] \in Allocated <=> task[t] # "clear")
        /\ task[t] \in {"load_data", "load_size"} => prog_size = heap[wanted[t]]
        /\ task[t] \in {"load_size", "begin", "program"} => data[t] = wanted[t]
        /\ task[t] \in {"begin", "program"} => length[t] = heap[wanted[t]]

\* What is left when it has ended, or could not be created.
CopiesFreed ==
    /\ ~misused
    /\ (\A t \in Tasks : ~Running(t)) => prog_data \in Allocated \cup {NULL}
    /\ \A t \in Tasks : task[t] = "ended" => wanted[t] \notin Allocated

JoinInv ==
    patience # "status" =>
        TypeOK /\ OneThread /\ Once /\ CallFills /\ ThreadFinds /\ CopiesFreed
=============================================================================
