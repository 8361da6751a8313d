------------------------------ MODULE GpioLock ------------------------------
(***************************************************************************)
(* The lock file that serialises the users of the GPIO block: gpio_lock,   *)
(* gpio_unlock, fic_gpio_open and fic_gpio_close of ficlib2.c, one action  *)
(* per system call, run by the threads of several processes.               *)
(*                                                                         *)
(* A thread waits until stat() finds no lock file, creates it with         *)
(* open(O_CREAT), takes flock(LOCK_EX) on what it opened and maps the GPIO *)
(* registers.  stat and open are two calls and O_EXCL is not given, so a   *)
(* thread can open the file of another one: the history variable events    *)
(* records that, and every other way in which the protocol is broken.      *)
(***************************************************************************)
EXTENDS Naturals

CONSTANTS
    Threads,            \* callers of fic_gpio_open / fic_gpio_close
    Processes,          \* each has one global pointer `gpio`
    ProcessOf,          \* the process of a thread
    Inodes,             \* identities of lock files, created and unlinked
    NoInode,            \* no file, no open descriptor
    NoOne,              \* no owner of a flock, no mapping
    Careless,           \* callers that go on after fic_gpio_open returned -1
    Faults,             \* the failures the environment may inject
    GPIO_LOCK_TIMEOUT   \* seconds of polling, one stat() a second

FaultKinds == {"open", "flock", "device", "munmap", "kill", "rm"}

ASSUME LockAssumption ==
    /\ ProcessOf \in [Threads -> Processes]
    /\ Careless \subseteq Threads
    /\ Threads \cap Processes = {}
    /\ NoInode \notin Inodes
    /\ NoOne \notin Threads \cup Processes
    /\ Faults \subseteq FaultKinds
    /\ GPIO_LOCK_TIMEOUT \in Nat

VARIABLES
    pc,         \* the next system call of a thread
    elapsed,    \* seconds a thread has polled for the lock file
    fd,         \* the inode behind a thread's lock descriptor
    path,       \* the inode linked at LOCK_FILE
    flock,      \* owner of the flock on an inode: a thread, or the process
                \* that leaked the descriptor
    gpio,       \* the thread whose mapping a process's `gpio` points to
    mapped,     \* the threads whose mapping still exists
    events      \* history: what has gone wrong so far

vars == <<pc, elapsed, fd, path, flock, gpio, mapped, events>>
files == <<path, flock>>
maps == <<gpio, mapped>>

Calls == {"idle", "stat", "open", "flock", "map", "held", "close", "unlink",
          "stray", "stray_unlink"}
Events == {"contended", "removed", "stray", "killed", "failed"}

\* From the return of flock() to the close() that drops the lock.
Holding(t) == pc[t] \in {"map", "held", "close"}
\* From the open() of the lock file to the unlink() that ends the session.
InSession(t) == pc[t] \in {"flock", "map", "held", "close", "unlink"}
\* A lock file was shared or removed under a session: no promise is left.
Breached == events \cap {"contended", "removed", "stray"} # {}

\* An inode without a name or a descriptor of a thread is free: nobody can meet
\* a lock that a process leaked there any more.  Inodes are only told apart, so
\* one choice stands for all.
FreshInodes == {i \in Inodes \ {path} : \A t \in Threads : fd[t] # i}

Goto(t, call) == pc' = [pc EXCEPT ![t] = call]

\* fic_gpio_open returns -1.  mmread, testprog and testddr do not look at it.
ReturnError(t) ==
    /\ Goto(t, IF t \in Careless THEN "stray" ELSE "idle")
    /\ elapsed' = [elapsed EXCEPT ![t] = 0]

Init ==
    /\ pc = [t \in Threads |-> "idle"]
    /\ elapsed = [t \in Threads |-> 0]
    /\ fd = [t \in Threads |-> NoInode]
    /\ path = NoInode
    /\ flock = [i \in Inodes |-> NoOne]
    /\ gpio = [p \in Processes |-> NoOne]
    /\ mapped = {}
    /\ events = {}
-----------------------------------------------------------------------------
(* gpio_lock *)

CallOpen(t) ==
    /\ pc[t] = "idle"
    /\ Goto(t, "stat")
    /\ UNCHANGED <<elapsed, fd, files, maps, events>>

StatFree(t) ==
    /\ pc[t] = "stat"
    /\ path = NoInode
    /\ Goto(t, "open")
    /\ elapsed' = [elapsed EXCEPT ![t] = 0]
    /\ UNCHANGED <<fd, files, maps, events>>

\* Mutant: the start of the wait is read again in every round.
StatBusyRestartsClock(t) ==
    /\ pc[t] = "stat"
    /\ path # NoInode
    /\ UNCHANGED vars

StatBusy(t) ==
    /\ pc[t] = "stat"
    /\ path # NoInode
    /\ elapsed[t] < GPIO_LOCK_TIMEOUT
    /\ elapsed' = [elapsed EXCEPT ![t] = @ + 1]
    /\ UNCHANGED <<pc, fd, files, maps, events>>

\* Mutant: the error path cleans up a lock file that is not the caller's.
GiveUpUnlinks(t) ==
    /\ pc[t] = "stat"
    /\ path # NoInode
    /\ elapsed[t] = GPIO_LOCK_TIMEOUT
    /\ ReturnError(t)
    /\ path' = NoInode
    /\ UNCHANGED <<fd, flock, maps, events>>

GiveUp(t) ==
    /\ pc[t] = "stat"
    /\ path # NoInode
    /\ elapsed[t] = GPIO_LOCK_TIMEOUT
    /\ ReturnError(t)
    /\ UNCHANGED <<fd, files, maps, events>>

\* open(LOCK_FILE, O_CREAT|O_RDONLY) creates the file or opens the one there.
OpenLockFile(t) ==
    /\ pc[t] = "open"
    /\ \/ /\ path = NoInode
          /\ path' \in FreshInodes
          /\ path' = CHOOSE i \in FreshInodes : TRUE
          /\ flock' = [flock EXCEPT ![path'] = NoOne]
          /\ UNCHANGED events
       \/ /\ path # NoInode
          /\ events' = events \cup {"contended"}
          /\ UNCHANGED files
    /\ fd' = [fd EXCEPT ![t] = path']
    /\ Goto(t, "flock")
    /\ UNCHANGED <<elapsed, maps>>

OpenFails(t) ==
    /\ "open" \in Faults
    /\ pc[t] = "open"
    /\ ReturnError(t)
    /\ UNCHANGED <<fd, files, maps, events>>

\* flock(lock_fd, LOCK_EX) blocks, with no timeout, while another one owns it.
Flock(t) ==
    /\ pc[t] = "flock"
    /\ flock[fd[t]] = NoOne
    /\ flock' = [flock EXCEPT ![fd[t]] = t]
    /\ Goto(t, "map")
    /\ UNCHANGED <<elapsed, fd, path, maps, events>>

\* The descriptor stays open for ever, without the lock: nothing refers to it.
FlockFails(t) ==
    /\ "flock" \in Faults
    /\ pc[t] = "flock"
    /\ ReturnError(t)
    /\ fd' = [fd EXCEPT ![t] = NoInode]
    /\ events' = events \cup {"failed"}
    /\ UNCHANGED <<files, maps>>
-----------------------------------------------------------------------------
(* The rest of fic_gpio_open, and fic_gpio_close with gpio_unlock *)

\* Mutant: the global pointer keeps the address of an earlier mapping.
MapGpioKeepsPointer(t) ==
    /\ pc[t] = "map"
    /\ mapped' = mapped \cup {t}
    /\ Goto(t, "held")
    /\ UNCHANGED <<elapsed, fd, files, gpio, events>>

MapGpio(t) ==
    /\ pc[t] = "map"
    /\ gpio' = [gpio EXCEPT ![ProcessOf[t]] = t]
    /\ mapped' = mapped \cup {t}
    /\ Goto(t, "held")
    /\ UNCHANGED <<elapsed, fd, files, events>>

\* A return between flock() and close() leaves the descriptor, and the lock,
\* to the process until it exits.
LeakLock(t) ==
    /\ flock' = [flock EXCEPT ![fd[t]] = ProcessOf[t]]
    /\ fd' = [fd EXCEPT ![t] = NoInode]
    /\ events' = events \cup {"failed"}
    /\ UNCHANGED <<path, maps>>

\* GPIO_DEV cannot be opened, or cannot be mapped.
MapFails(t) ==
    /\ "device" \in Faults
    /\ pc[t] = "map"
    /\ ReturnError(t)
    /\ LeakLock(t)

Munmap(t) ==
    /\ pc[t] = "held"
    /\ mapped' = mapped \ {gpio[ProcessOf[t]]}
    /\ Goto(t, "close")
    /\ UNCHANGED <<elapsed, fd, files, gpio, events>>

\* fic_gpio_close returns before it reaches gpio_unlock.
MunmapFails(t) ==
    /\ "munmap" \in Faults
    /\ pc[t] = "held"
    /\ Goto(t, "idle")
    /\ LeakLock(t)
    /\ UNCHANGED elapsed

\* Mutant: gpio_unlock removes the file before it closes, and once more after.
CloseFdUnlinks(t) ==
    /\ pc[t] = "close"
    /\ flock' = [flock EXCEPT ![fd[t]] = NoOne]
    /\ fd' = [fd EXCEPT ![t] = NoInode]
    /\ path' = NoInode
    /\ Goto(t, "unlink")
    /\ UNCHANGED <<elapsed, maps, events>>

CloseFd(t) ==
    /\ pc[t] = "close"
    /\ flock' = [flock EXCEPT ![fd[t]] = NoOne]
    /\ fd' = [fd EXCEPT ![t] = NoInode]
    /\ Goto(t, "unlink")
    /\ UNCHANGED <<elapsed, path, maps, events>>

\* Mutant: gpio_unlock only closes the descriptor.
UnlinkForgotten(t) ==
    /\ pc[t] = "unlink"
    /\ Goto(t, "idle")
    /\ UNCHANGED <<elapsed, fd, files, maps, events>>

\* Whatever is linked at LOCK_FILE goes, whoever created it.
Unlink(t) ==
    /\ pc[t] = "unlink"
    /\ path' = NoInode
    /\ Goto(t, "idle")
    /\ UNCHANGED <<elapsed, fd, flock, maps, events>>
-----------------------------------------------------------------------------
(* Death of a process, careless callers, and the operator *)

\* The kernel closes the descriptors and drops the mappings; LOCK_FILE stays.
Die(p) ==
    LET Of(t) == ProcessOf[t] = p
    IN  /\ pc' = [t \in Threads |-> IF Of(t) THEN "idle" ELSE pc[t]]
        /\ elapsed' = [t \in Threads |-> IF Of(t) THEN 0 ELSE elapsed[t]]
        /\ fd' = [t \in Threads |-> IF Of(t) THEN NoInode ELSE fd[t]]
        /\ flock' = [i \in Inodes |->
                       IF flock[i] = p \/ \E t \in Threads : Of(t) /\ flock[i] = t
                       THEN NoOne ELSE flock[i]]
        /\ gpio' = [gpio EXCEPT ![p] = NoOne]
        /\ mapped' = {t \in mapped : ~Of(t)}
        /\ events' = events \cup {"killed"}
        /\ UNCHANGED path

\* pyficprog.py restores SIG_DFL for SIGINT: Ctrl-C runs no clean-up.
Kill(p) ==
    /\ "kill" \in Faults
    /\ \E t \in Threads : ProcessOf[t] = p /\ pc[t] # "idle"
    /\ Die(p)

\* Registers are used after a failed open.  A null `gpio` is fatal; a dangling
\* one is fatal or, where its page is mapped again, is not, and then
\* fic_gpio_close(-1) unmaps that page.
StrayUse(t) ==
    /\ pc[t] = "stray"
    /\ \/ Die(ProcessOf[t])
       \/ /\ gpio[ProcessOf[t]] # NoOne
          /\ mapped' = mapped \ {gpio[ProcessOf[t]]}
          /\ events' = events \cup {"stray"}
          /\ Goto(t, "stray_unlink")
          /\ UNCHANGED <<elapsed, fd, files, gpio>>

\* close(-1) fails unnoticed and unlink() removes another caller's lock file.
StrayUnlink(t) ==
    /\ pc[t] = "stray_unlink"
    /\ path' = NoInode
    /\ Goto(t, "idle")
    /\ UNCHANGED <<elapsed, fd, flock, maps, events>>

\* `make clean` and `make run` remove LOCK_FILE without looking.
MakeClean ==
    /\ "rm" \in Faults
    /\ path # NoInode
    /\ path' = NoInode
    /\ events' = events \cup
                 (IF \E t \in Threads : InSession(t) THEN {"removed"} ELSE {})
    /\ UNCHANGED <<pc, elapsed, fd, flock, maps>>
-----------------------------------------------------------------------------
Step(t) ==
    \/ StatFree(t) \/ StatBusy(t) \/ GiveUp(t)
    \/ OpenLockFile(t) \/ Flock(t) \/ MapGpio(t)
    \/ Munmap(t) \/ CloseFd(t) \/ Unlink(t)
    \/ StrayUse(t) \/ StrayUnlink(t)

Fail(t) ==
    OpenFails(t) \/ FlockFails(t) \/ MapFails(t) \/ MunmapFails(t)

Next ==
    \/ \E t \in Threads : CallOpen(t) \/ Step(t) \/ Fail(t)
    \/ \E p \in Processes : Kill(p)
    \/ MakeClean

Spec == Init /\ [][Next]_vars

\* A running thread reaches its next system call and, in a session, closes it.
FairSpec == Spec /\ \A t \in Threads : WF_vars(Step(t))
-----------------------------------------------------------------------------
(* Properties *)

TypeOK ==
    /\ pc \in [Threads -> Calls]
    /\ elapsed \in [Threads -> 0..GPIO_LOCK_TIMEOUT]
    /\ fd \in [Threads -> Inodes \cup {NoInode}]
    /\ path \in Inodes \cup {NoInode}
    /\ flock \in [Inodes -> Threads \cup Processes \cup {NoOne}]
    /\ gpio \in [Processes -> Threads \cup {NoOne}]
    /\ mapped \subseteq Threads
    /\ events \subseteq Events

\* README.md: the lock file prevents conflicting GPIO manipulation, so two
\* threads never hold the lock together.
MutualExclusion ==
    \A t, u \in Threads : Holding(t) /\ Holding(u) => t = u

\* gpio_lock keeps the GPIO users apart until a session's file is opened by a
\* second thread, removed by hand, or removed by a caller that holds nothing:
\* crashes, timeouts and failed calls alone never let two threads in.
ExclusiveUnlessBreached == Breached \/ MutualExclusion

\* The registers of a session stay mapped at the global `gpio` although every
\* thread of a process opens and closes through that one pointer.
MappedUnlessBreached ==
    Breached \/ \A t \in Threads : pc[t] = "held" =>
                    gpio[ProcessOf[t]] = t /\ t \in mapped

\* gpio_unlock finds a lock file to remove, so a session ends without the
\* "Cant remove LOCK_FILE" error.
UnlinkFindsFile ==
    Breached \/ \A t \in Threads : pc[t] = "unlink" => path # NoInode

\* A lock file is left behind, to time out every later caller, only by a
\* killed process or by an error return that skips gpio_unlock.
NoOrphanFile ==
    path # NoInode /\ events \cap {"killed", "failed"} = {}
        => \E t \in Threads : InSession(t)

\* Whatever happens, flock keeps apart the threads that opened one same file.
SameFileExclusive ==
    \A t, u \in Threads : Holding(t) /\ Holding(u) /\ fd[t] = fd[u] => t = u

\* GPIO_LOCK_TIMEOUT: a call of fic_gpio_open returns, with the lock or with -1.
\* Only flock() has no timeout: a call that passed stat before the owner of the
\* same file leaked its descriptor waits for the end of that process.
OpenReturns ==
    \A t \in Threads :
        pc[t] = "stat" ~> \/ pc[t] \in {"held", "idle"}
                          \/ pc[t] = "flock" /\ flock[fd[t]] \in Processes

\* A lock file does not stay: its session, or one that shares it, removes it,
\* unless a call failed with the lock or was killed.
LockFileRemoved ==
    path # NoInode ~> path = NoInode \/ events \cap {"killed", "failed"} # {}

\* The protocol implements the exclusive lock, breaches included.
Abstract == INSTANCE ExclusiveLock WITH
                owners <- {t \in Threads : Holding(t)}, broken <- Breached
ImplementsLock == Abstract!Spec
-----------------------------------------------------------------------------
(* The inductive invariant behind ExclusiveUnlessBreached: while nothing is *)
(* breached, one thread at a time is in a session, and its file is linked.  *)

LockOwned ==
    \A t \in Threads :
        /\ pc[t] \in {"flock", "map", "held", "close"} => fd[t] \in Inodes
        /\ Holding(t) => flock[fd[t]] = t

StrayRecorded ==
    \A t \in Threads : pc[t] = "stray_unlink" => "stray" \in events

SessionLinked == \A t \in Threads : InSession(t) => path # NoInode

OneSession ==
    \A t, u \in Threads : InSession(t) /\ InSession(u) => t = u

OwnMapping ==
    \A t \in Threads : pc[t] = "held" => gpio[ProcessOf[t]] = t /\ t \in mapped

IInv ==
    /\ TypeOK
    /\ LockOwned
    /\ StrayRecorded
    /\ Breached \/ (SessionLinked /\ OneSession /\ OwnMapping)
=============================================================================
