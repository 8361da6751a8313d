--------------------------- MODULE ExclusiveLock ---------------------------
(***************************************************************************)
(* What the lock file of libfic2 promises its users: one owner of the GPIO *)
(* block at a time, for as long as nothing has broken the protocol.  The   *)
(* promise is void after a breach, which only GpioLock can name.           *)
(***************************************************************************)
CONSTANT Threads    \* whoever calls fic_gpio_open and fic_gpio_close

VARIABLES owners,   \* the threads that may use the GPIO block now
          broken    \* TRUE once exclusion is no longer promised

vars == <<owners, broken>>

Init == owners = {} /\ broken = FALSE

Acquire(t) ==
    /\ t \notin owners
    /\ broken \/ owners = {}
    /\ owners' = owners \cup {t}
    /\ UNCHANGED broken

\* One owner closes, or a process dies with every thread it has.
Release(gone) ==
    /\ owners' = owners \ gone
    /\ UNCHANGED broken

Break ==
    /\ broken' = TRUE
    /\ UNCHANGED owners

Next ==
    \/ \E t \in Threads : Acquire(t)
    \/ \E gone \in SUBSET Threads : Release(gone)
    \/ Break

Spec == Init /\ [][Next]_vars
=============================================================================
