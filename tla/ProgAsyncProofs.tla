---------------------------- MODULE ProgAsyncProofs ----------------------------
(***************************************************************************)
(* Theorems about ProgAsync: a caller that waits for the end of the thread *)
(* may configure as often as it likes, and one that polls may do so once   *)
(* in a process, for any number of buffers, threads and sizes.             *)
(***************************************************************************)
EXTENDS ProgAsync, TLAPS

Waits == patience # "status"
Waiting == "status" \notin Patiences
Joined == TypeOK /\ OneThread /\ Once /\ CallFills /\ ThreadFinds /\ CopiesFreed

\* Every step keeps the types.
LEMMA TypeStep ==
  ASSUME Waits, Joined, [Next]_vars
  PROVE  TypeOK'
<1> USE AsyncAssumption
       DEF Waits, Joined, caller, status, thread, TypeOK, Steps, Allocated,
           Running, OneThread, Once, CallFills, ThreadFinds
<1>1. ASSUME GpioOpen PROVE TypeOK'
  BY <1>1 DEF GpioOpen
<1>2. ASSUME GpioClose PROVE TypeOK'
  BY <1>2 DEF GpioClose, Over, StatusOver
<1>3. ASSUME NEW b \in Buffers, NEW n \in Sizes, Malloc(b, n) PROVE TypeOK'
  BY <1>3 DEF Malloc, Ready, Over, StatusOver
<1>4. ASSUME MallocFails PROVE TypeOK'
  BY <1>4 DEF MallocFails, Ready, Over, StatusOver
<1>5. ASSUME SetData PROVE TypeOK'
  BY <1>5 DEF SetData
<1>6. ASSUME SetSize PROVE TypeOK'
  BY <1>6 DEF SetSize
<1>7. ASSUME CreateFails PROVE TypeOK'
  BY <1>7 DEF CreateFails
<1>8. ASSUME NEW t \in Tasks, Create(t) PROVE TypeOK'
  BY <1>8 DEF Create
<1>9. ASSUME NEW t \in Tasks, LoadData(t) PROVE TypeOK'
  BY <1>9 DEF LoadData, Continue
<1>10. ASSUME NEW t \in Tasks, LoadSize(t) PROVE TypeOK'
  BY <1>10 DEF LoadSize, Continue
<1>11. ASSUME NEW t \in Tasks, Begin(t) PROVE TypeOK'
  BY <1>11 DEF Begin, Continue
<1>12. ASSUME NEW t \in Tasks, Program(t) PROVE TypeOK'
  BY <1>12 DEF Program, Continue
<1>13. ASSUME NEW t \in Tasks, Result(t) PROVE TypeOK'
  BY <1>13 DEF Result, Continue
<1>14. ASSUME NEW t \in Tasks, Free(t) PROVE TypeOK'
  BY <1>14 DEF Free, Without, Continue
<1>15. ASSUME NEW t \in Tasks, Clear(t) PROVE TypeOK'
  BY <1>15 DEF Clear, Continue
<1>16. CASE UNCHANGED vars
  BY <1>16 DEF vars
<1> QED
  BY <1>1, <1>2, <1>3, <1>4, <1>5, <1>6, <1>7, <1>8, <1>9, <1>10, <1>11,
     <1>12, <1>13, <1>14, <1>15, <1>16 DEF Next, Thread

\* A thread is created when no other runs, because the caller has waited.
LEMMA OneThreadStep ==
  ASSUME Waits, Joined, [Next]_vars
  PROVE  OneThread'
<1> USE AsyncAssumption
       DEF Waits, Joined, caller, status, thread, TypeOK, Steps, Running,
           OneThread, Once, Calling
<1>1. ASSUME GpioOpen PROVE OneThread'
  BY <1>1 DEF GpioOpen
<1>2. ASSUME GpioClose PROVE OneThread'
  BY <1>2 DEF GpioClose, Over, StatusOver
<1>3. ASSUME NEW b \in Buffers, NEW n \in Sizes, Malloc(b, n) PROVE OneThread'
  BY <1>3 DEF Malloc, Ready, Over, StatusOver
<1>4. ASSUME MallocFails PROVE OneThread'
  BY <1>4 DEF MallocFails, Ready, Over, StatusOver
<1>5. ASSUME SetData PROVE OneThread'
  BY <1>5 DEF SetData
<1>6. ASSUME SetSize PROVE OneThread'
  BY <1>6 DEF SetSize
<1>7. ASSUME CreateFails PROVE OneThread'
  BY <1>7 DEF CreateFails
<1>8. ASSUME NEW t \in Tasks, Create(t) PROVE OneThread'
  BY <1>8 DEF Create
<1>9. ASSUME NEW t \in Tasks, LoadData(t) PROVE OneThread'
  BY <1>9 DEF LoadData, Continue
<1>10. ASSUME NEW t \in Tasks, LoadSize(t) PROVE OneThread'
  BY <1>10 DEF LoadSize, Continue
<1>11. ASSUME NEW t \in Tasks, Begin(t) PROVE OneThread'
  BY <1>11 DEF Begin, Continue
<1>12. ASSUME NEW t \in Tasks, Program(t) PROVE OneThread'
  BY <1>12 DEF Program, Continue
<1>13. ASSUME NEW t \in Tasks, Result(t) PROVE OneThread'
  BY <1>13 DEF Result, Continue
<1>14. ASSUME NEW t \in Tasks, Free(t) PROVE OneThread'
  BY <1>14 DEF Free, Without, Continue
<1>15. ASSUME NEW t \in Tasks, Clear(t) PROVE OneThread'
  BY <1>15 DEF Clear, Continue
<1>16. CASE UNCHANGED vars
  BY <1>16 DEF vars
<1> QED
  BY <1>1, <1>2, <1>3, <1>4, <1>5, <1>6, <1>7, <1>8, <1>9, <1>10, <1>11,
     <1>12, <1>13, <1>14, <1>15, <1>16 DEF Next, Thread

\* A caller that polls has one thread, which finds the status of a new process.
LEMMA OnceStep ==
  ASSUME Waits, Joined, [Next]_vars
  PROVE  Once'
<1> USE AsyncAssumption
       DEF Waits, Joined, caller, status, thread, TypeOK, Steps, Running,
           OneThread, Once, Calling
<1>1. ASSUME GpioOpen PROVE Once'
  BY <1>1 DEF GpioOpen
<1>2. ASSUME GpioClose PROVE Once'
  BY <1>2 DEF GpioClose, Over, StatusOver
<1>3. ASSUME NEW b \in Buffers, NEW n \in Sizes, Malloc(b, n) PROVE Once'
  BY <1>3 DEF Malloc, Ready, Over, StatusOver
<1>4. ASSUME MallocFails PROVE Once'
  BY <1>4 DEF MallocFails, Ready, Over, StatusOver
<1>5. ASSUME SetData PROVE Once'
  BY <1>5 DEF SetData
<1>6. ASSUME SetSize PROVE Once'
  BY <1>6 DEF SetSize
<1>7. ASSUME CreateFails PROVE Once'
  BY <1>7 DEF CreateFails
<1>8. ASSUME NEW t \in Tasks, Create(t) PROVE Once'
  BY <1>8 DEF Create
<1>9. ASSUME NEW t \in Tasks, LoadData(t) PROVE Once'
  BY <1>9 DEF LoadData, Continue
<1>10. ASSUME NEW t \in Tasks, LoadSize(t) PROVE Once'
  BY <1>10 DEF LoadSize, Continue
<1>11. ASSUME NEW t \in Tasks, Begin(t) PROVE Once'
  BY <1>11 DEF Begin, Continue
<1>12. ASSUME NEW t \in Tasks, Program(t) PROVE Once'
  BY <1>12 DEF Program, Continue
<1>13. ASSUME NEW t \in Tasks, Result(t) PROVE Once'
  BY <1>13 DEF Result, Continue
<1>14. ASSUME NEW t \in Tasks, Free(t) PROVE Once'
  BY <1>14 DEF Free, Without, Continue
<1>15. ASSUME NEW t \in Tasks, Clear(t) PROVE Once'
  BY <1>15 DEF Clear, Continue
<1>16. CASE UNCHANGED vars
  BY <1>16 DEF vars
<1> QED
  BY <1>1, <1>2, <1>3, <1>4, <1>5, <1>6, <1>7, <1>8, <1>9, <1>10, <1>11,
     <1>12, <1>13, <1>14, <1>15, <1>16 DEF Next, Thread

\* No thread touches PROG_STAT or the heap between malloc and pthread_create.
LEMMA CallFillsStep ==
  ASSUME Waits, Joined, [Next]_vars
  PROVE  CallFills'
<1> USE AsyncAssumption
       DEF Waits, Joined, caller, status, thread, TypeOK, Steps, Allocated,
           Running, OneThread, Once, CallFills, Calling
<1>1. ASSUME GpioOpen PROVE CallFills'
  BY <1>1 DEF GpioOpen
<1>2. ASSUME GpioClose PROVE CallFills'
  BY <1>2 DEF GpioClose, Over, StatusOver
<1>3. ASSUME NEW b \in Buffers, NEW n \in Sizes, Malloc(b, n) PROVE CallFills'
  BY <1>3 DEF Malloc, Ready, Over, StatusOver
<1>4. ASSUME MallocFails PROVE CallFills'
  BY <1>4 DEF MallocFails, Ready, Over, StatusOver
<1>5. ASSUME SetData PROVE CallFills'
  BY <1>5 DEF SetData
<1>6. ASSUME SetSize PROVE CallFills'
  BY <1>6 DEF SetSize
<1>7. ASSUME CreateFails PROVE CallFills'
  BY <1>7 DEF CreateFails
<1>8. ASSUME NEW t \in Tasks, Create(t) PROVE CallFills'
  BY <1>8 DEF Create
<1>9. ASSUME NEW t \in Tasks, LoadData(t) PROVE CallFills'
  BY <1>9 DEF LoadData, Continue
<1>10. ASSUME NEW t \in Tasks, LoadSize(t) PROVE CallFills'
  BY <1>10 DEF LoadSize, Continue
<1>11. ASSUME NEW t \in Tasks, Begin(t) PROVE CallFills'
  BY <1>11 DEF Begin, Continue
<1>12. ASSUME NEW t \in Tasks, Program(t) PROVE CallFills'
  BY <1>12 DEF Program, Continue
<1>13. ASSUME NEW t \in Tasks, Result(t) PROVE CallFills'
  BY <1>13 DEF Result, Continue
<1>14. ASSUME NEW t \in Tasks, Free(t) PROVE CallFills'
  BY <1>14 DEF Free, Without, Continue
<1>15. ASSUME NEW t \in Tasks, Clear(t) PROVE CallFills'
  BY <1>15 DEF Clear, Continue
<1>16. CASE UNCHANGED vars
  BY <1>16 DEF vars
<1> QED
  BY <1>1, <1>2, <1>3, <1>4, <1>5, <1>6, <1>7, <1>8, <1>9, <1>10, <1>11,
     <1>12, <1>13, <1>14, <1>15, <1>16 DEF Next, Thread

\* No call touches PROG_STAT or the heap while a thread runs.
LEMMA ThreadFindsStep ==
  ASSUME Waits, Joined, [Next]_vars
  PROVE  ThreadFinds'
<1> USE AsyncAssumption
       DEF Waits, Joined, caller, status, thread, TypeOK, Steps, Allocated,
           Running, OneThread, Once, CallFills, Calling, ThreadFinds
<1>1. ASSUME GpioOpen PROVE ThreadFinds'
  BY <1>1 DEF GpioOpen
<1>2. ASSUME GpioClose PROVE ThreadFinds'
  BY <1>2 DEF GpioClose, Over, StatusOver
<1>3. ASSUME NEW b \in Buffers, NEW n \in Sizes, Malloc(b, n) PROVE ThreadFinds'
  BY <1>3 DEF Malloc, Ready, Over, StatusOver
<1>4. ASSUME MallocFails PROVE ThreadFinds'
  BY <1>4 DEF MallocFails, Ready, Over, StatusOver
<1>5. ASSUME SetData PROVE ThreadFinds'
  BY <1>5 DEF SetData
<1>6. ASSUME SetSize PROVE ThreadFinds'
  BY <1>6 DEF SetSize
<1>7. ASSUME CreateFails PROVE ThreadFinds'
  BY <1>7 DEF CreateFails
<1>8. ASSUME NEW t \in Tasks, Create(t) PROVE ThreadFinds'
  BY <1>8 DEF Create
<1>9. ASSUME NEW t \in Tasks, LoadData(t) PROVE ThreadFinds'
  BY <1>9 DEF LoadData, Continue
<1>10. ASSUME NEW t \in Tasks, LoadSize(t) PROVE ThreadFinds'
  BY <1>10 DEF LoadSize, Continue
<1>11. ASSUME NEW t \in Tasks, Begin(t) PROVE ThreadFinds'
  BY <1>11 DEF Begin, Continue
<1>12. ASSUME NEW t \in Tasks, Program(t) PROVE ThreadFinds'
  BY <1>12 DEF Program, Continue
<1>13. ASSUME NEW t \in Tasks, Result(t) PROVE ThreadFinds'
  BY <1>13 DEF Result, Continue
<1>14. ASSUME NEW t \in Tasks, Free(t) PROVE ThreadFinds'
  BY <1>14 DEF Free, Without, Continue
<1>15. ASSUME NEW t \in Tasks, Clear(t) PROVE ThreadFinds'
  BY <1>15 DEF Clear, Continue
<1>16. CASE UNCHANGED vars
  BY <1>16 DEF vars
<1> QED
  BY <1>1, <1>2, <1>3, <1>4, <1>5, <1>6, <1>7, <1>8, <1>9, <1>10, <1>11,
     <1>12, <1>13, <1>14, <1>15, <1>16 DEF Next, Thread

\* The thread frees the copy it was created for, and nothing allocates it again.
LEMMA CopiesFreedStep ==
  ASSUME Waits, Joined, [Next]_vars
  PROVE  CopiesFreed'
<1> USE AsyncAssumption
       DEF Waits, Joined, caller, status, thread, TypeOK, Steps, Allocated,
           Running, OneThread, Once, CallFills, Calling, ThreadFinds,
           CopiesFreed
<1>1. ASSUME GpioOpen PROVE CopiesFreed'
  BY <1>1 DEF GpioOpen
<1>2. ASSUME GpioClose PROVE CopiesFreed'
  BY <1>2 DEF GpioClose, Over, StatusOver
<1>3. ASSUME NEW b \in Buffers, NEW n \in Sizes, Malloc(b, n) PROVE CopiesFreed'
  BY <1>3 DEF Malloc, Ready, Over, StatusOver
<1>4. ASSUME MallocFails PROVE CopiesFreed'
  BY <1>4 DEF MallocFails, Ready, Over, StatusOver
<1>5. ASSUME SetData PROVE CopiesFreed'
  BY <1>5 DEF SetData
<1>6. ASSUME SetSize PROVE CopiesFreed'
  BY <1>6 DEF SetSize
<1>7. ASSUME CreateFails PROVE CopiesFreed'
  BY <1>7 DEF CreateFails
<1>8. ASSUME NEW t \in Tasks, Create(t) PROVE CopiesFreed'
  BY <1>8 DEF Create
<1>9. ASSUME NEW t \in Tasks, LoadData(t) PROVE CopiesFreed'
  BY <1>9 DEF LoadData, Continue
<1>10. ASSUME NEW t \in Tasks, LoadSize(t) PROVE CopiesFreed'
  BY <1>10 DEF LoadSize, Continue
<1>11. ASSUME NEW t \in Tasks, Begin(t) PROVE CopiesFreed'
  BY <1>11 DEF Begin, Continue
<1>12. ASSUME NEW t \in Tasks, Program(t) PROVE CopiesFreed'
  BY <1>12 DEF Program, Continue
<1>13. ASSUME NEW t \in Tasks, Result(t) PROVE CopiesFreed'
  BY <1>13 DEF Result, Continue
<1>14. ASSUME NEW t \in Tasks, Free(t) PROVE CopiesFreed'
  BY <1>14 DEF Free, Without, Continue
<1>15. ASSUME NEW t \in Tasks, Clear(t) PROVE CopiesFreed'
  BY <1>15 DEF Clear, Continue
<1>16. CASE UNCHANGED vars
  BY <1>16 DEF vars
<1> QED
  BY <1>1, <1>2, <1>3, <1>4, <1>5, <1>6, <1>7, <1>8, <1>9, <1>10, <1>11,
     <1>12, <1>13, <1>14, <1>15, <1>16 DEF Next, Thread

\* The invariant holds at first, and every step keeps it.
THEOREM JoinInvariant == Spec => []JoinInv
<1>1. Init => JoinInv
  BY AsyncAssumption DEF Init, JoinInv, TypeOK, Steps, Allocated, OneThread, Once,
       Running, CallFills, Calling, ThreadFinds, CopiesFreed
<1>2. JoinInv /\ [Next]_vars => JoinInv'
  <2> SUFFICES ASSUME JoinInv, [Next]_vars, patience' # "status"
               PROVE  JoinInv'
    BY DEF JoinInv
  <2>1. patience' = patience
    BY DEF Next, Thread, vars, caller, GpioOpen, GpioClose, Malloc, MallocFails,
           SetData, SetSize, CreateFails, Create, LoadData, LoadSize, Begin,
           Program, Result, Free, Clear
  <2>2. Waits /\ Joined
    BY <2>1 DEF Waits, Joined, JoinInv
  <2>3. QED
    BY <2>2, TypeStep, OneThreadStep, OnceStep, CallFillsStep, ThreadFindsStep,
       CopiesFreedStep
       DEF JoinInv
<1>3. QED
  BY <1>1, <1>2, PTL DEF Spec

\* No caller goes by the status more than once.
LEMMA AllWait == Waiting => (Spec => []Waits)
<1> SUFFICES ASSUME Waiting PROVE Spec => []Waits
  OBVIOUS
<1>1. Init => Waits
  BY DEF Init, Waiting, Waits
<1>2. Waits /\ [Next]_vars => Waits'
  BY DEF Waits, Next, Thread, vars, caller, GpioOpen, GpioClose, Malloc,
         MallocFails, SetData, SetSize, CreateFails, Create, LoadData, LoadSize,
         Begin, Program, Result, Free, Clear
<1>3. QED
  BY <1>1, <1>2, PTL DEF Spec

\* A thread sends the stream and the size it was created for, although both
\* come to it through the global PROG_STAT, if the caller waits for it.
THEOREM OwnStreams == Waiting => (Spec => []OwnStream)
<1> SUFFICES ASSUME Waiting PROVE Spec => []OwnStream
  OBVIOUS
<1>1. JoinInv /\ Waits => OwnStream
  BY DEF Waits, JoinInv, OwnStream, ThreadFinds, Running
<1>2. QED
  BY <1>1, JoinInvariant, AllWait, PTL

\* The registers stay mapped for as long as a thread uses them, also if the caller
\* closes the GPIO as soon as the status says that the configuration is over.
THEOREM StaysMapped == Waiting => (Spec => []RegistersMapped)
<1> SUFFICES ASSUME Waiting PROVE Spec => []RegistersMapped
  OBVIOUS
<1>1. JoinInv /\ Waits => RegistersMapped
  BY DEF Waits, JoinInv, RegistersMapped, OneThread, CallFills, Running
<1>2. QED
  BY <1>1, JoinInvariant, AllWait, PTL

\* Every copy is freed once, by the thread it was made for.
THEOREM Frees == Waiting => (Spec => []FreedOnce)
<1> SUFFICES ASSUME Waiting PROVE Spec => []FreedOnce
  OBVIOUS
<1>1. JoinInv /\ Waits => FreedOnce
  <2> SUFFICES ASSUME JoinInv, Waits, ~(\E t \in Tasks : task[t] = "clear")
               PROVE  FreedOnce
    BY DEF FreedOnce, JoinInv, Waits, CopiesFreed
  <2>1. CASE \E t \in Tasks : Running(t)
    BY <2>1 DEF FreedOnce, JoinInv, Waits, CopiesFreed, ThreadFinds
  <2>2. CASE \A t \in Tasks : ~Running(t)
    BY <2>2 DEF FreedOnce, JoinInv, Waits, CopiesFreed
  <2>3. QED
    BY <2>1, <2>2
<1>2. QED
  BY <1>1, JoinInvariant, AllWait, PTL

\* The status tells the truth to a program that polls for its one call.
THEOREM PollsOnce == Spec => []PolledOnce
<1>1. JoinInv => PolledOnce
  <2> SUFFICES ASSUME JoinInv, patience = "once", NEW t \in Tasks, Running(t),
                      stat \in {"DONE", "FAIL"}
               PROVE  task[t] \in {"free", "clear"}
    BY DEF PolledOnce, StatusOver
  <2>1. TypeOK /\ Once
    BY DEF JoinInv
  <2>2. QED
    BY <2>1 DEF TypeOK, Once, Steps, Running
<1>2. QED
  BY <1>1, JoinInvariant, PTL
=============================================================================
