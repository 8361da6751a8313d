--------------------------- MODULE GpioLockProofs ---------------------------
(***************************************************************************)
(* The theorems of GpioLock, for every set of threads, processes, inodes   *)
(* and faults, and every timeout.                                          *)
(***************************************************************************)
EXTENDS GpioLock, TLAPS

USE LockAssumption DEF LockAssumption

\* A breach on record stays on record.
LEMMA BreachStays == events \subseteq events' /\ Breached => Breached'
  BY DEF Breached

\* Every step, one case for each action of Next, keeps the types.
LEMMA TypeStep == TypeOK /\ [Next]_vars => TypeOK'
<1> SUFFICES ASSUME TypeOK, [Next]_vars PROVE TypeOK'
  OBVIOUS
<1> USE DEF TypeOK, Calls, Events, Goto, ReturnError, files, maps
<1>1. ASSUME NEW t \in Threads, CallOpen(t) PROVE TypeOK'
  BY <1>1 DEF CallOpen
<1>2. ASSUME NEW t \in Threads, StatFree(t) PROVE TypeOK'
  BY <1>2 DEF StatFree
<1>3. ASSUME NEW t \in Threads, StatBusy(t) PROVE TypeOK'
  BY <1>3 DEF StatBusy
<1>4. ASSUME NEW t \in Threads, GiveUp(t) PROVE TypeOK'
  BY <1>4 DEF GiveUp
<1>5. ASSUME NEW t \in Threads, OpenLockFile(t) PROVE TypeOK'
  BY <1>5 DEF OpenLockFile, FreshInodes
<1>6. ASSUME NEW t \in Threads, Flock(t) PROVE TypeOK'
  BY <1>6 DEF Flock
<1>7. ASSUME NEW t \in Threads, MapGpio(t) PROVE TypeOK'
  BY <1>7 DEF MapGpio
<1>8. ASSUME NEW t \in Threads, Munmap(t) PROVE TypeOK'
  BY <1>8 DEF Munmap
<1>9. ASSUME NEW t \in Threads, CloseFd(t) PROVE TypeOK'
  BY <1>9 DEF CloseFd
<1>10. ASSUME NEW t \in Threads, Unlink(t) PROVE TypeOK'
  BY <1>10 DEF Unlink
<1>11. ASSUME NEW p \in Processes, Die(p) PROVE TypeOK'
  BY <1>11 DEF Die
<1>12. ASSUME NEW t \in Threads, StrayUse(t) PROVE TypeOK'
  BY <1>12, <1>11 DEF StrayUse
<1>13. ASSUME NEW t \in Threads, StrayUnlink(t) PROVE TypeOK'
  BY <1>13 DEF StrayUnlink
<1>14. ASSUME NEW t \in Threads, OpenFails(t) PROVE TypeOK'
  BY <1>14 DEF OpenFails
<1>15. ASSUME NEW t \in Threads, FlockFails(t) PROVE TypeOK'
  BY <1>15 DEF FlockFails
<1>16. ASSUME NEW t \in Threads, MapFails(t) PROVE TypeOK'
  <2>1. pc' \in [Threads -> Calls] /\ elapsed' \in [Threads -> 0..GPIO_LOCK_TIMEOUT]
    BY <1>16 DEF MapFails
  <2>2. ProcessOf[t] \in Processes
    OBVIOUS
  <2>3. flock' \in [Inodes -> Threads \cup Processes \cup {NoOne}]
    BY <1>16, <2>2 DEF MapFails, LeakLock
  <2>4. QED
    BY <1>16, <2>1, <2>3 DEF MapFails, LeakLock
<1>17. ASSUME NEW t \in Threads, MunmapFails(t) PROVE TypeOK'
  BY <1>17 DEF MunmapFails, LeakLock
<1>18. CASE MakeClean
  BY <1>18 DEF MakeClean
<1>19. CASE UNCHANGED vars
  BY <1>19 DEF vars
<1>20. QED
  BY <1>1, <1>2, <1>3, <1>4, <1>5, <1>6, <1>7, <1>8, <1>9, <1>10, <1>11,
     <1>12, <1>13, <1>14, <1>15, <1>16, <1>17, <1>18, <1>19
     DEF Next, Step, Fail, Kill

\* A thread between flock() and close() owns the flock of its own file.
LEMMA OwnedStep == TypeOK /\ LockOwned /\ [Next]_vars => LockOwned'
<1> SUFFICES ASSUME TypeOK, LockOwned, [Next]_vars PROVE LockOwned'
  OBVIOUS
<1> USE DEF TypeOK, Goto, ReturnError, files, maps, LockOwned, Holding
<1>1. ASSUME NEW p \in Processes, Die(p) PROVE LockOwned'
  BY <1>1 DEF Die
<1>2. ASSUME NEW t \in Threads, CallOpen(t) PROVE LockOwned'
  BY <1>2 DEF CallOpen
<1>3. ASSUME NEW t \in Threads, StatFree(t) PROVE LockOwned'
  BY <1>3 DEF StatFree
<1>4. ASSUME NEW t \in Threads, StatBusy(t) PROVE LockOwned'
  BY <1>4 DEF StatBusy
<1>5. ASSUME NEW t \in Threads, GiveUp(t) PROVE LockOwned'
  BY <1>5 DEF GiveUp
<1>6. ASSUME NEW t \in Threads, OpenLockFile(t) PROVE LockOwned'
  BY <1>6 DEF OpenLockFile, FreshInodes
<1>7. ASSUME NEW t \in Threads, Flock(t) PROVE LockOwned'
  BY <1>7 DEF Flock
<1>8. ASSUME NEW t \in Threads, MapGpio(t) PROVE LockOwned'
  BY <1>8 DEF MapGpio
<1>9. ASSUME NEW t \in Threads, Munmap(t) PROVE LockOwned'
  BY <1>9 DEF Munmap
<1>10. ASSUME NEW t \in Threads, CloseFd(t) PROVE LockOwned'
  BY <1>10 DEF CloseFd
<1>11. ASSUME NEW t \in Threads, Unlink(t) PROVE LockOwned'
  BY <1>11 DEF Unlink
<1>12. ASSUME NEW t \in Threads, StrayUse(t) PROVE LockOwned'
  BY <1>12, <1>1 DEF StrayUse
<1>13. ASSUME NEW t \in Threads, StrayUnlink(t) PROVE LockOwned'
  BY <1>13 DEF StrayUnlink
<1>14. ASSUME NEW t \in Threads, OpenFails(t) PROVE LockOwned'
  BY <1>14 DEF OpenFails
<1>15. ASSUME NEW t \in Threads, FlockFails(t) PROVE LockOwned'
  BY <1>15 DEF FlockFails
<1>16. ASSUME NEW t \in Threads, MapFails(t) PROVE LockOwned'
  BY <1>16 DEF MapFails, LeakLock
<1>17. ASSUME NEW t \in Threads, MunmapFails(t) PROVE LockOwned'
  BY <1>17 DEF MunmapFails, LeakLock
<1>18. CASE MakeClean
  BY <1>18 DEF MakeClean
<1>19. CASE UNCHANGED vars
  BY <1>19 DEF vars
<1>20. QED
  BY <1>1, <1>2, <1>3, <1>4, <1>5, <1>6, <1>7, <1>8, <1>9, <1>10, <1>11,
     <1>12, <1>13, <1>14, <1>15, <1>16, <1>17, <1>18, <1>19
     DEF Next, Step, Fail, Kill

\* Nothing but a death or an error return ends a session without unlink().
LEMMA OrphanStep == TypeOK /\ NoOrphanFile /\ [Next]_vars => NoOrphanFile'
<1> SUFFICES ASSUME TypeOK, NoOrphanFile, [Next]_vars PROVE NoOrphanFile'
  OBVIOUS
<1> USE DEF TypeOK, Goto, ReturnError, files, maps, NoOrphanFile, InSession
<1>1. ASSUME NEW p \in Processes, Die(p) PROVE NoOrphanFile'
  BY <1>1 DEF Die
<1>2. ASSUME NEW t \in Threads, CallOpen(t) PROVE NoOrphanFile'
  BY <1>2 DEF CallOpen
<1>3. ASSUME NEW t \in Threads, StatFree(t) PROVE NoOrphanFile'
  BY <1>3 DEF StatFree
<1>4. ASSUME NEW t \in Threads, StatBusy(t) PROVE NoOrphanFile'
  BY <1>4 DEF StatBusy
<1>5. ASSUME NEW t \in Threads, GiveUp(t) PROVE NoOrphanFile'
  BY <1>5 DEF GiveUp
<1>6. ASSUME NEW t \in Threads, OpenLockFile(t) PROVE NoOrphanFile'
  BY <1>6 DEF OpenLockFile, FreshInodes
<1>7. ASSUME NEW t \in Threads, Flock(t) PROVE NoOrphanFile'
  BY <1>7 DEF Flock
<1>8. ASSUME NEW t \in Threads, MapGpio(t) PROVE NoOrphanFile'
  BY <1>8 DEF MapGpio
<1>9. ASSUME NEW t \in Threads, Munmap(t) PROVE NoOrphanFile'
  BY <1>9 DEF Munmap
<1>10. ASSUME NEW t \in Threads, CloseFd(t) PROVE NoOrphanFile'
  BY <1>10 DEF CloseFd
<1>11. ASSUME NEW t \in Threads, Unlink(t) PROVE NoOrphanFile'
  BY <1>11 DEF Unlink
<1>12. ASSUME NEW t \in Threads, StrayUse(t) PROVE NoOrphanFile'
  BY <1>12, <1>1 DEF StrayUse
<1>13. ASSUME NEW t \in Threads, StrayUnlink(t) PROVE NoOrphanFile'
  BY <1>13 DEF StrayUnlink
<1>14. ASSUME NEW t \in Threads, OpenFails(t) PROVE NoOrphanFile'
  BY <1>14 DEF OpenFails
<1>15. ASSUME NEW t \in Threads, FlockFails(t) PROVE NoOrphanFile'
  BY <1>15 DEF FlockFails
<1>16. ASSUME NEW t \in Threads, MapFails(t) PROVE NoOrphanFile'
  BY <1>16 DEF MapFails, LeakLock
<1>17. ASSUME NEW t \in Threads, MunmapFails(t) PROVE NoOrphanFile'
  BY <1>17 DEF MunmapFails, LeakLock
<1>18. CASE MakeClean
  BY <1>18 DEF MakeClean
<1>19. CASE UNCHANGED vars
  BY <1>19 DEF vars
<1>20. QED
  BY <1>1, <1>2, <1>3, <1>4, <1>5, <1>6, <1>7, <1>8, <1>9, <1>10, <1>11,
     <1>12, <1>13, <1>14, <1>15, <1>16, <1>17, <1>18, <1>19
     DEF Next, Step, Fail, Kill

\* A careless caller is on record before it removes a lock file.
LEMMA StrayStep == TypeOK /\ StrayRecorded /\ [Next]_vars => StrayRecorded'
<1> SUFFICES ASSUME TypeOK, StrayRecorded, [Next]_vars PROVE StrayRecorded'
  OBVIOUS
<1> USE DEF TypeOK, Goto, ReturnError, files, maps, StrayRecorded
<1>1. ASSUME NEW p \in Processes, Die(p) PROVE StrayRecorded'
  BY <1>1 DEF Die
<1>2. ASSUME NEW t \in Threads, CallOpen(t) PROVE StrayRecorded'
  BY <1>2 DEF CallOpen
<1>3. ASSUME NEW t \in Threads, StatFree(t) PROVE StrayRecorded'
  BY <1>3 DEF StatFree
<1>4. ASSUME NEW t \in Threads, StatBusy(t) PROVE StrayRecorded'
  BY <1>4 DEF StatBusy
<1>5. ASSUME NEW t \in Threads, GiveUp(t) PROVE StrayRecorded'
  BY <1>5 DEF GiveUp
<1>6. ASSUME NEW t \in Threads, OpenLockFile(t) PROVE StrayRecorded'
  BY <1>6 DEF OpenLockFile, FreshInodes
<1>7. ASSUME NEW t \in Threads, Flock(t) PROVE StrayRecorded'
  BY <1>7 DEF Flock
<1>8. ASSUME NEW t \in Threads, MapGpio(t) PROVE StrayRecorded'
  BY <1>8 DEF MapGpio
<1>9. ASSUME NEW t \in Threads, Munmap(t) PROVE StrayRecorded'
  BY <1>9 DEF Munmap
<1>10. ASSUME NEW t \in Threads, CloseFd(t) PROVE StrayRecorded'
  BY <1>10 DEF CloseFd
<1>11. ASSUME NEW t \in Threads, Unlink(t) PROVE StrayRecorded'
  BY <1>11 DEF Unlink
<1>12. ASSUME NEW t \in Threads, StrayUse(t) PROVE StrayRecorded'
  BY <1>12, <1>1 DEF StrayUse
<1>13. ASSUME NEW t \in Threads, StrayUnlink(t) PROVE StrayRecorded'
  BY <1>13 DEF StrayUnlink
<1>14. ASSUME NEW t \in Threads, OpenFails(t) PROVE StrayRecorded'
  BY <1>14 DEF OpenFails
<1>15. ASSUME NEW t \in Threads, FlockFails(t) PROVE StrayRecorded'
  BY <1>15 DEF FlockFails
<1>16. ASSUME NEW t \in Threads, MapFails(t) PROVE StrayRecorded'
  BY <1>16 DEF MapFails, LeakLock
<1>17. ASSUME NEW t \in Threads, MunmapFails(t) PROVE StrayRecorded'
  BY <1>17 DEF MunmapFails, LeakLock
<1>18. CASE MakeClean
  BY <1>18 DEF MakeClean
<1>19. CASE UNCHANGED vars
  BY <1>19 DEF vars
<1>20. QED
  BY <1>1, <1>2, <1>3, <1>4, <1>5, <1>6, <1>7, <1>8, <1>9, <1>10, <1>11,
     <1>12, <1>13, <1>14, <1>15, <1>16, <1>17, <1>18, <1>19
     DEF Next, Step, Fail, Kill

\* The history only grows, so a breach is never forgotten.
LEMMA EventsGrow ==
  [Next]_vars => events \subseteq events'
<1> SUFFICES ASSUME [Next]_vars
             PROVE events \subseteq events'
  OBVIOUS
<1> USE DEF files, maps
<1>1. ASSUME NEW p \in Processes, Die(p) PROVE events \subseteq events'
  BY <1>1 DEF Die
<1>2. ASSUME NEW t \in Threads, CallOpen(t) PROVE events \subseteq events'
  BY <1>2 DEF CallOpen
<1>3. ASSUME NEW t \in Threads, StatFree(t) PROVE events \subseteq events'
  BY <1>3 DEF StatFree
<1>4. ASSUME NEW t \in Threads, StatBusy(t) PROVE events \subseteq events'
  BY <1>4 DEF StatBusy
<1>5. ASSUME NEW t \in Threads, GiveUp(t) PROVE events \subseteq events'
  BY <1>5 DEF GiveUp
<1>6. ASSUME NEW t \in Threads, OpenLockFile(t) PROVE events \subseteq events'
  BY <1>6 DEF OpenLockFile, FreshInodes
<1>7. ASSUME NEW t \in Threads, Flock(t) PROVE events \subseteq events'
  BY <1>7 DEF Flock
<1>8. ASSUME NEW t \in Threads, MapGpio(t) PROVE events \subseteq events'
  BY <1>8 DEF MapGpio
<1>9. ASSUME NEW t \in Threads, Munmap(t) PROVE events \subseteq events'
  BY <1>9 DEF Munmap
<1>10. ASSUME NEW t \in Threads, CloseFd(t) PROVE events \subseteq events'
  BY <1>10 DEF CloseFd
<1>11. ASSUME NEW t \in Threads, Unlink(t) PROVE events \subseteq events'
  BY <1>11 DEF Unlink
<1>12. ASSUME NEW t \in Threads, StrayUse(t) PROVE events \subseteq events'
  BY <1>12, <1>1 DEF StrayUse
<1>13. ASSUME NEW t \in Threads, StrayUnlink(t) PROVE events \subseteq events'
  BY <1>13 DEF StrayUnlink
<1>14. ASSUME NEW t \in Threads, OpenFails(t) PROVE events \subseteq events'
  BY <1>14 DEF OpenFails
<1>15. ASSUME NEW t \in Threads, FlockFails(t) PROVE events \subseteq events'
  BY <1>15 DEF FlockFails
<1>16. ASSUME NEW t \in Threads, MapFails(t) PROVE events \subseteq events'
  BY <1>16 DEF MapFails, LeakLock
<1>17. ASSUME NEW t \in Threads, MunmapFails(t) PROVE events \subseteq events'
  BY <1>17 DEF MunmapFails, LeakLock
<1>18. CASE MakeClean
  BY <1>18 DEF MakeClean
<1>19. CASE UNCHANGED vars
  BY <1>19 DEF vars
<1>20. QED
  BY <1>1, <1>2, <1>3, <1>4, <1>5, <1>6, <1>7, <1>8, <1>9, <1>10, <1>11,
     <1>12, <1>13, <1>14, <1>15, <1>16, <1>17, <1>18, <1>19
     DEF Next, Step, Fail, Kill

\* A session starts by creating a file where there was none, and ends by
\* removing it: short of a breach no second session starts in between.
LEMMA OneSessionStep ==
  ASSUME TypeOK, StrayRecorded, SessionLinked, OneSession, ~Breached', [Next]_vars
  PROVE  SessionLinked' /\ OneSession'
<1> USE DEF TypeOK, Goto, ReturnError, files, maps, StrayRecorded, SessionLinked, OneSession,
            InSession
<1>1. ASSUME NEW p \in Processes, Die(p) PROVE SessionLinked' /\ OneSession'
  BY <1>1 DEF Die
<1>2. ASSUME NEW t \in Threads, CallOpen(t) PROVE SessionLinked' /\ OneSession'
  BY <1>2 DEF CallOpen
<1>3. ASSUME NEW t \in Threads, StatFree(t) PROVE SessionLinked' /\ OneSession'
  BY <1>3 DEF StatFree
<1>4. ASSUME NEW t \in Threads, StatBusy(t) PROVE SessionLinked' /\ OneSession'
  BY <1>4 DEF StatBusy
<1>5. ASSUME NEW t \in Threads, GiveUp(t) PROVE SessionLinked' /\ OneSession'
  BY <1>5 DEF GiveUp
<1>6. ASSUME NEW t \in Threads, OpenLockFile(t) PROVE SessionLinked' /\ OneSession'
  BY <1>6 DEF OpenLockFile, FreshInodes, Breached
<1>7. ASSUME NEW t \in Threads, Flock(t) PROVE SessionLinked' /\ OneSession'
  BY <1>7 DEF Flock
<1>8. ASSUME NEW t \in Threads, MapGpio(t) PROVE SessionLinked' /\ OneSession'
  BY <1>8 DEF MapGpio
<1>9. ASSUME NEW t \in Threads, Munmap(t) PROVE SessionLinked' /\ OneSession'
  BY <1>9 DEF Munmap
<1>10. ASSUME NEW t \in Threads, CloseFd(t) PROVE SessionLinked' /\ OneSession'
  BY <1>10 DEF CloseFd
<1>11. ASSUME NEW t \in Threads, Unlink(t) PROVE SessionLinked' /\ OneSession'
  BY <1>11 DEF Unlink
<1>12. ASSUME NEW t \in Threads, StrayUse(t) PROVE SessionLinked' /\ OneSession'
  BY <1>12, <1>1 DEF StrayUse, Breached
<1>13. ASSUME NEW t \in Threads, StrayUnlink(t) PROVE SessionLinked' /\ OneSession'
  BY <1>13 DEF StrayUnlink, Breached
<1>14. ASSUME NEW t \in Threads, OpenFails(t) PROVE SessionLinked' /\ OneSession'
  BY <1>14 DEF OpenFails
<1>15. ASSUME NEW t \in Threads, FlockFails(t) PROVE SessionLinked' /\ OneSession'
  BY <1>15 DEF FlockFails
<1>16. ASSUME NEW t \in Threads, MapFails(t) PROVE SessionLinked' /\ OneSession'
  BY <1>16 DEF MapFails, LeakLock
<1>17. ASSUME NEW t \in Threads, MunmapFails(t) PROVE SessionLinked' /\ OneSession'
  BY <1>17 DEF MunmapFails, LeakLock
<1>18. CASE MakeClean
  BY <1>18 DEF MakeClean, Breached
<1>19. CASE UNCHANGED vars
  BY <1>19 DEF vars
<1>20. QED
  BY <1>1, <1>2, <1>3, <1>4, <1>5, <1>6, <1>7, <1>8, <1>9, <1>10, <1>11,
     <1>12, <1>13, <1>14, <1>15, <1>16, <1>17, <1>18, <1>19
     DEF Next, Step, Fail, Kill

\* Only the one session sets the global pointer or unmaps behind it.
LEMMA OwnMappingStep ==
  ASSUME TypeOK, OneSession, OwnMapping, ~Breached', [Next]_vars
  PROVE  OwnMapping'
<1> USE DEF TypeOK, Goto, ReturnError, files, maps, OneSession, OwnMapping, InSession
<1>1. ASSUME NEW p \in Processes, Die(p) PROVE OwnMapping'
  BY <1>1 DEF Die
<1>2. ASSUME NEW t \in Threads, CallOpen(t) PROVE OwnMapping'
  BY <1>2 DEF CallOpen
<1>3. ASSUME NEW t \in Threads, StatFree(t) PROVE OwnMapping'
  BY <1>3 DEF StatFree
<1>4. ASSUME NEW t \in Threads, StatBusy(t) PROVE OwnMapping'
  BY <1>4 DEF StatBusy
<1>5. ASSUME NEW t \in Threads, GiveUp(t) PROVE OwnMapping'
  BY <1>5 DEF GiveUp
<1>6. ASSUME NEW t \in Threads, OpenLockFile(t) PROVE OwnMapping'
  BY <1>6 DEF OpenLockFile, FreshInodes, Breached
<1>7. ASSUME NEW t \in Threads, Flock(t) PROVE OwnMapping'
  BY <1>7 DEF Flock
<1>8. ASSUME NEW t \in Threads, MapGpio(t) PROVE OwnMapping'
  BY <1>8 DEF MapGpio
<1>9. ASSUME NEW t \in Threads, Munmap(t) PROVE OwnMapping'
  BY <1>9 DEF Munmap
<1>10. ASSUME NEW t \in Threads, CloseFd(t) PROVE OwnMapping'
  BY <1>10 DEF CloseFd
<1>11. ASSUME NEW t \in Threads, Unlink(t) PROVE OwnMapping'
  BY <1>11 DEF Unlink
<1>12. ASSUME NEW t \in Threads, StrayUse(t) PROVE OwnMapping'
  BY <1>12, <1>1 DEF StrayUse, Breached
<1>13. ASSUME NEW t \in Threads, StrayUnlink(t) PROVE OwnMapping'
  BY <1>13 DEF StrayUnlink
<1>14. ASSUME NEW t \in Threads, OpenFails(t) PROVE OwnMapping'
  BY <1>14 DEF OpenFails
<1>15. ASSUME NEW t \in Threads, FlockFails(t) PROVE OwnMapping'
  BY <1>15 DEF FlockFails
<1>16. ASSUME NEW t \in Threads, MapFails(t) PROVE OwnMapping'
  BY <1>16 DEF MapFails, LeakLock
<1>17. ASSUME NEW t \in Threads, MunmapFails(t) PROVE OwnMapping'
  BY <1>17 DEF MunmapFails, LeakLock
<1>18. CASE MakeClean
  BY <1>18 DEF MakeClean, Breached
<1>19. CASE UNCHANGED vars
  BY <1>19 DEF vars
<1>20. QED
  BY <1>1, <1>2, <1>3, <1>4, <1>5, <1>6, <1>7, <1>8, <1>9, <1>10, <1>11,
     <1>12, <1>13, <1>14, <1>15, <1>16, <1>17, <1>18, <1>19
     DEF Next, Step, Fail, Kill

\* IInv holds before the first fic_gpio_open.
LEMMA InitIInv == Init => IInv
  BY DEF Init, IInv, TypeOK, Calls, LockOwned, Holding, StrayRecorded,
         SessionLinked, OneSession, OwnMapping, InSession

\* IInv is inductive: the parts about one session are kept as long as nothing is
\* breached, and once something is, it stays so.
LEMMA NextIInv == IInv /\ [Next]_vars => IInv'
<1> SUFFICES ASSUME IInv, [Next]_vars PROVE IInv'
  OBVIOUS
<1>1. TypeOK' /\ LockOwned' /\ StrayRecorded'
  BY TypeStep, OwnedStep, StrayStep DEF IInv
<1>2. CASE Breached'
  BY <1>1, <1>2 DEF IInv
<1>3. CASE ~Breached'
  <2>1. ~Breached
    BY <1>3, EventsGrow, BreachStays
  <2>2. SessionLinked' /\ OneSession' /\ OwnMapping'
    BY <2>1, <1>3, OneSessionStep, OwnMappingStep DEF IInv
  <2>3. QED
    BY <1>1, <2>2 DEF IInv
<1>4. QED
  BY <1>2, <1>3

\* IInv holds in every state of the lock protocol.
THEOREM InductiveInvariant == Spec => []IInv
  BY InitIInv, NextIInv, PTL DEF Spec

\* The variables keep their types.
THEOREM Typed == Spec => []TypeOK
<1>1. IInv => TypeOK
  BY DEF IInv
<1>2. QED
  BY <1>1, InductiveInvariant, PTL

\* Two threads hold the GPIO lock together only after a breach: the conclusion
\* for gpio_lock / gpio_unlock, any number of threads, crashes and timeouts.
THEOREM Exclusion == Spec => []ExclusiveUnlessBreached
<1>1. IInv => ExclusiveUnlessBreached
  BY DEF IInv, OneSession, InSession, ExclusiveUnlessBreached,
         MutualExclusion, Holding
<1>2. QED
  BY <1>1, InductiveInvariant, PTL

\* The thread that uses the registers finds them mapped at the global `gpio`.
THEOREM RegistersMapped == Spec => []MappedUnlessBreached
<1>1. IInv => MappedUnlessBreached
  BY DEF IInv, OwnMapping, MappedUnlessBreached
<1>2. QED
  BY <1>1, InductiveInvariant, PTL

\* gpio_unlock does not fail on a missing lock file.
THEOREM UnlockSucceeds == Spec => []UnlinkFindsFile
<1>1. IInv => UnlinkFindsFile
  BY DEF IInv, SessionLinked, InSession, UnlinkFindsFile
<1>2. QED
  BY <1>1, InductiveInvariant, PTL

\* Threads that opened one file are kept apart even after a breach.
THEOREM SameFile == Spec => []SameFileExclusive
<1>1. IInv => SameFileExclusive
  BY DEF IInv, LockOwned, SameFileExclusive
<1>2. QED
  BY <1>1, InductiveInvariant, PTL

\* Only a killed process or an error return leaves a lock file with no session.
THEOREM NoOrphan == Spec => []NoOrphanFile
<1>1. Init => NoOrphanFile
  BY DEF Init, NoOrphanFile
<1>2. QED
  BY <1>1, OrphanStep, Typed, PTL DEF Spec
-----------------------------------------------------------------------------
(* Refinement of ExclusiveLock *)

Owners == {t \in Threads : Holding(t)}

\* A step of the lock file is a step, or a stutter, of the exclusive lock.
LEMMA StepRefines ==
  ASSUME IInv, IInv', [Next]_vars
  PROVE  [Abstract!Next]_<<Owners, Breached>>
<1>1. events \subseteq events' /\ (Breached => Breached')
  BY EventsGrow, BreachStays
<1>2. CASE \E t \in Threads : Flock(t)
  <2>1. PICK t \in Threads : Flock(t)
    BY <1>2
  <2>2. Owners' = Owners \cup {t} /\ t \notin Owners
    BY <2>1 DEF Flock, Owners, Holding, Goto, IInv, TypeOK
  <2>3. UNCHANGED Breached
    BY <2>1 DEF Flock, Breached
  <2>4. Breached \/ Owners = {}
    BY <2>1 DEF Flock, IInv, OneSession, InSession, Owners, Holding
  <2>5. Abstract!Acquire(t)
    BY <2>2, <2>3, <2>4 DEF Abstract!Acquire, Owners
  <2>6. QED
    BY <2>5 DEF Abstract!Next
<1>3. ASSUME Owners' \subseteq Owners, UNCHANGED Breached
      PROVE  Abstract!Next
  <2> DEFINE gone == Owners \ Owners'
  <2>1. gone \in SUBSET Threads /\ Owners' = Owners \ gone
    BY <1>3 DEF Owners
  <2>2. Abstract!Release(gone)
    BY <2>1, <1>3 DEF Abstract!Release, Owners
  <2>3. QED
    BY <2>1, <2>2 DEF Abstract!Next
<1>4. ASSUME UNCHANGED Owners, Breached'
      PROVE  [Abstract!Next]_<<Owners, Breached>>
  BY <1>4 DEF Abstract!Next, Abstract!Break, Owners, Breached
<1>5. ASSUME NEW p \in Processes, Die(p)
      PROVE  Owners' \subseteq Owners /\ UNCHANGED Breached
  BY <1>5 DEF Die, Owners, Holding, Breached
<1>6. ASSUME NEW t \in Threads, CallOpen(t)
      PROVE  Owners' \subseteq Owners /\ UNCHANGED Breached
  BY <1>6 DEF CallOpen, Owners, Holding, Breached, Goto, ReturnError, files,
     maps, IInv, TypeOK
<1>7. ASSUME NEW t \in Threads, StatFree(t)
      PROVE  Owners' \subseteq Owners /\ UNCHANGED Breached
  BY <1>7 DEF StatFree, Owners, Holding, Breached, Goto, ReturnError, files,
     maps, IInv, TypeOK
<1>8. ASSUME NEW t \in Threads, StatBusy(t)
      PROVE  Owners' \subseteq Owners /\ UNCHANGED Breached
  BY <1>8 DEF StatBusy, Owners, Holding, Breached, Goto, ReturnError, files,
     maps, IInv, TypeOK
<1>9. ASSUME NEW t \in Threads, GiveUp(t)
      PROVE  Owners' \subseteq Owners /\ UNCHANGED Breached
  BY <1>9 DEF GiveUp, Owners, Holding, Breached, Goto, ReturnError, files,
     maps, IInv, TypeOK
<1>10. ASSUME NEW t \in Threads, MapGpio(t)
      PROVE  Owners' \subseteq Owners /\ UNCHANGED Breached
  BY <1>10 DEF MapGpio, Owners, Holding, Breached, Goto, ReturnError, files,
     maps, IInv, TypeOK
<1>11. ASSUME NEW t \in Threads, Munmap(t)
      PROVE  Owners' \subseteq Owners /\ UNCHANGED Breached
  BY <1>11 DEF Munmap, Owners, Holding, Breached, Goto, ReturnError, files,
     maps, IInv, TypeOK
<1>12. ASSUME NEW t \in Threads, CloseFd(t)
      PROVE  Owners' \subseteq Owners /\ UNCHANGED Breached
  BY <1>12 DEF CloseFd, Owners, Holding, Breached, Goto, ReturnError, files,
     maps, IInv, TypeOK
<1>13. ASSUME NEW t \in Threads, Unlink(t)
      PROVE  Owners' \subseteq Owners /\ UNCHANGED Breached
  BY <1>13 DEF Unlink, Owners, Holding, Breached, Goto, ReturnError, files,
     maps, IInv, TypeOK
<1>14. ASSUME NEW t \in Threads, StrayUnlink(t)
      PROVE  Owners' \subseteq Owners /\ UNCHANGED Breached
  BY <1>14 DEF StrayUnlink, Owners, Holding, Breached, Goto, ReturnError, files,
     maps, IInv, TypeOK
<1>15. ASSUME NEW t \in Threads, OpenFails(t)
      PROVE  Owners' \subseteq Owners /\ UNCHANGED Breached
  BY <1>15 DEF OpenFails, Owners, Holding, Breached, Goto, ReturnError, files,
     maps, IInv, TypeOK
<1>16. ASSUME NEW t \in Threads, FlockFails(t)
      PROVE  Owners' \subseteq Owners /\ UNCHANGED Breached
  BY <1>16 DEF FlockFails, Owners, Holding, Breached, Goto, ReturnError, files,
     maps, IInv, TypeOK
<1>17. ASSUME NEW t \in Threads, MapFails(t)
      PROVE  Owners' \subseteq Owners /\ UNCHANGED Breached
  BY <1>17 DEF MapFails, LeakLock, Owners, Holding, Breached, Goto, ReturnError, files,
     maps, IInv, TypeOK
<1>18. ASSUME NEW t \in Threads, MunmapFails(t)
      PROVE  Owners' \subseteq Owners /\ UNCHANGED Breached
  BY <1>18 DEF MunmapFails, LeakLock, Owners, Holding, Breached, Goto, ReturnError, files,
     maps, IInv, TypeOK
<1>19. CASE UNCHANGED vars
  BY <1>19 DEF vars, Owners, Holding, Breached
<1>20. ASSUME NEW t \in Threads, OpenLockFile(t)
      PROVE  UNCHANGED Owners /\ (Breached' \/ UNCHANGED Breached)
  BY <1>20 DEF OpenLockFile, Owners, Holding, Breached, Goto, IInv, TypeOK
<1>21. CASE MakeClean
  BY <1>21, <1>1, <1>4 DEF MakeClean, Owners, Holding, Breached, Abstract!Next,
     Abstract!Break
<1>22. ASSUME NEW t \in Threads, StrayUse(t), ~Die(ProcessOf[t])
      PROVE  UNCHANGED Owners /\ Breached'
  BY <1>22 DEF StrayUse, Owners, Holding, Breached, Goto, IInv, TypeOK
<1>23. QED
  BY <1>1, <1>2, <1>3, <1>4, <1>5, <1>6, <1>7, <1>8, <1>9, <1>10, <1>11, <1>12, <1>13, <1>14, <1>15, <1>16, <1>17, <1>18, <1>19, <1>20, <1>21, <1>22
     DEF Next, Step, Fail, Kill

\* The lock-file protocol implements the exclusive lock with breaches.
THEOREM Refinement == Spec => ImplementsLock
<1>1. Init => Abstract!Init
  BY DEF Init, Abstract!Init, Holding, Breached
<1>2. IInv /\ IInv' /\ [Next]_vars => [Abstract!Next]_Abstract!vars
  BY StepRefines DEF Owners, Abstract!vars
<1>3. QED
  BY <1>1, <1>2, InductiveInvariant, PTL DEF Spec, ImplementsLock, Abstract!Spec
=============================================================================
