-------------------------- MODULE V4l2VideoProofs --------------------------
(***************************************************************************)
(* Proofs about V4l2Video, for every number of channels, buffers and event *)
(* threads, either camera mode, and whatever the application does.         *)
(***************************************************************************)
EXTENDS V4l2Video, FiniteSetTheorems, TLAPS

(***************************************************************************)
(* Why there is never a second event thread.  event_loop_started is set by *)
(* the thread itself, a while after pthread_create returned; what closes   *)
(* that window is that the one thread that can create another waits in     *)
(* mxuvc_video_start until the flag is up.                                 *)
(***************************************************************************)

\* Where a thread can be, and where its calls of stop and buf_done return to.
ThreadPlaces ==
  /\ pc \in [Threads -> Labels]
  /\ sret \in [Threads -> Labels]
  /\ bret \in [Loops -> {"cb", "final"}]
  /\ loopStarted \in BOOLEAN
  /\ pc[App] \in AppLabels \cup StopLabels \cup {"crashed"}
  /\ pc[App] \in StopLabels => sret[App] \in {"idle", "deinit_close"}
  /\ \A l \in Loops :
       /\ pc[l] \in LoopLabels \cup StopLabels \cup DoneLabels \cup {"crashed"}
       /\ pc[l] \in StopLabels => sret[l] \in {"next", "cb", "final"}

\* An event thread that has come up has the flag set; while one is still to
\* come up the flag is down and the application waits for it.
FlagCoversLoop ==
  \A l \in Loops :
    /\ pc[l] \notin {"none", "born", "crashed"} => loopStarted
    /\ pc[l] = "born" => ~loopStarted /\ pc[App] = "start_wait"

LoopInv == ThreadPlaces /\ FlagCoversLoop /\ SingleLoop

\* The application thread is not one of the event threads.
LEMMA AppIsNoLoop == App \notin Loops
  BY VideoAssumption DEF VideoAssumption

\* Before the first start there is no event thread and the flag is down.
LEMMA LoopInvInit == Init => LoopInv
<1> SUFFICES ASSUME Init PROVE LoopInv
  OBVIOUS
<1>1. pc[App] = "idle" /\ (\A l \in Loops : pc[l] = "none")
  BY AppIsNoLoop DEF Init, Threads
<1>2. pc \in [Threads -> Labels] /\ sret \in [Threads -> Labels]
  BY DEF Init, Labels, AppLabels, LoopLabels
<1>3. bret \in [Loops -> {"cb", "final"}] /\ loopStarted \in BOOLEAN
  BY DEF Init
<1> QED
  BY <1>1, <1>2, <1>3
  DEF LoopInv, ThreadPlaces, FlagCoversLoop, SingleLoop, Live, AppLabels,
      LoopLabels, StopLabels, DoneLabels

\* Every step keeps the invariant: only StartLoop creates a thread, and only
\* while no thread is up, LoopEnter raises the flag and LoopExit lowers it.
LEMMA LoopInvNext == LoopInv /\ [Next]_vars => LoopInv'
<1> SUFFICES ASSUME LoopInv, [Next]_vars PROVE LoopInv'
  OBVIOUS
<1> USE AppIsNoLoop DEF LoopInv, ThreadPlaces, FlagCoversLoop, SingleLoop,
      Live, Threads, Labels, AppLabels, LoopLabels, StopLabels, DoneLabels,
      Goto, At, flags, driver, stopArgs, doneArgs, locals, client
<1>1. CASE UNCHANGED vars
  BY <1>1 DEF vars
<1>2. ASSUME NEW c \in Channels, StartChannel(c) PROVE LoopInv'
  BY <1>2 DEF StartChannel, InitMmap
<1>3. CASE StartQueue
  BY <1>3 DEF StartQueue
<1>4. CASE StartLoop
  BY <1>4 DEF StartLoop, CallStop
<1>5. CASE StartWait
  BY <1>5 DEF StartWait
<1>6. CASE StartMux \/ StartLoad \/ StartRef
  BY <1>6 DEF StartMux, StartLoad, StartRef
<1>7. ASSUME NEW c \in Channels, StopChannel(c) PROVE LoopInv'
  BY <1>7 DEF StopChannel, CallStop
<1>8. ASSUME NEW t \in Threads, StopEnter(t) PROVE LoopInv'
  BY <1>8 DEF StopEnter, StopReturn
<1>9. ASSUME NEW t \in Threads, StopLoad(t) \/ StopDec(t) \/ StopClear(t)
      PROVE LoopInv'
  BY <1>9 DEF StopLoad, StopDec, StopClear, StopReturn
<1>10. ASSUME NEW t \in Threads,
              StopFlags(t) \/ StopStream(t) \/ StopUnmap(t)
       PROVE LoopInv'
  BY <1>10 DEF StopFlags, StopStream, StopUnmap, StopReturn
<1>11. CASE Deinit
  BY <1>11 DEF Deinit
<1>12. CASE DeinitChannel
  BY <1>12 DEF DeinitChannel, CallStop
<1>13. CASE DeinitClose \/ DeinitBeyond
  <2>1. CASE DeinitClose
    BY <2>1 DEF DeinitClose
  <2>2. CASE DeinitBeyond
    BY <2>2 DEF DeinitBeyond, Crash
  <2> QED
    BY <1>13, <2>1, <2>2
<1>14. CASE Camera
  BY <1>14 DEF Camera, Unplug, Fill
<1>15. ASSUME NEW l \in Loops, LoopEnter(l) PROVE LoopInv'
  BY <1>15 DEF LoopEnter
<1>16. ASSUME NEW l \in Loops, LoopTop(l) PROVE LoopInv'
  BY <1>16 DEF LoopTop
<1>17. ASSUME NEW l \in Loops, LoopScan(l) PROVE LoopInv'
  BY <1>17 DEF LoopScan
<1>18. ASSUME NEW l \in Loops, LoopSelect(l) \/ LoopPass(l) \/ LoopCheck(l)
       PROVE LoopInv'
  BY <1>18 DEF LoopSelect, LoopPass, LoopCheck
<1>19. ASSUME NEW l \in Loops, LoopDequeue(l) PROVE LoopInv'
  BY <1>19 DEF LoopDequeue, CallStop
<1>20. ASSUME NEW l \in Loops, LoopHandle(l) PROVE LoopInv'
  BY <1>20 DEF LoopHandle, HandleMux, HandleOwn, CallClient, CallBufDone
<1>21. ASSUME NEW l \in Loops, CbRead(l) \/ CbReturn(l) PROVE LoopInv'
  BY <1>21 DEF CbRead, CbReturn
<1>22. ASSUME NEW l \in Loops, Segfault(l) PROVE LoopInv'
  BY <1>22 DEF Segfault, Crash
<1>23. ASSUME NEW l \in Loops, NEW b \in Buffers, CbBufDone(l, b)
       PROVE LoopInv'
  BY <1>23 DEF CbBufDone, CallBufDone
<1>24. ASSUME NEW l \in Loops, BufDoneCheck(l) PROVE LoopInv'
  BY <1>24 DEF BufDoneCheck, DoneReturn
<1>25. ASSUME NEW l \in Loops, BufDoneQueue(l) PROVE LoopInv'
  BY <1>25 DEF BufDoneQueue, DoneReturn, CallStop
<1>26. ASSUME NEW l \in Loops, LoopFinal(l) PROVE LoopInv'
  BY <1>26 DEF LoopFinal
<1>27. ASSUME NEW l \in Loops, LoopQueue(l) PROVE LoopInv'
  BY <1>27 DEF LoopQueue, CallStop
<1>28. ASSUME NEW l \in Loops, LoopNext(l) PROVE LoopInv'
  BY <1>28 DEF LoopNext
<1>29. ASSUME NEW l \in Loops, LoopExit(l) PROVE LoopInv'
  <2>1. \A k \in Loops \ {l} : pc[k] \in {"none", "crashed"}
    BY <1>29 DEF LoopExit
  <2>2. \A k \in Loops : pc'[k] \in {"none", "crashed"}
    BY <1>29, <2>1 DEF LoopExit
  <2>3. ThreadPlaces'
    BY <1>29 DEF LoopExit
  <2> QED
    BY <2>2, <2>3
<1> HIDE DEF LoopInv
<1>30. ASSUME NEW t \in Threads, Stop(t) PROVE LoopInv'
  BY <1>30, <1>8, <1>9, <1>10 DEF Stop
<1>31. CASE AppCall
  BY <1>31, <1>2, <1>7, <1>11 DEF AppCall
<1>32. CASE AppStep
  BY <1>32, <1>3, <1>4, <1>5, <1>6, <1>12, <1>13, <1>30 DEF AppStep, DeinitNext
<1>33. ASSUME NEW l \in Loops, LoopStep(l) PROVE LoopInv'
  BY <1>33, <1>15, <1>16, <1>17, <1>18, <1>19, <1>20, <1>21, <1>22, <1>23,
     <1>24, <1>25, <1>26, <1>27, <1>28, <1>29, <1>30
  DEF LoopStep, ClientStep, EventStep
<1> QED
  BY <1>1, <1>14, <1>31, <1>32, <1>33 DEF Next

\* However the application starts, stops and deinitialises channels, whatever
\* fails, and at every point where one thread can overtake another, the process
\* has at most one event thread.
THEOREM OneEventThread == Spec => []SingleLoop
<1>1. LoopInv => SingleLoop
  BY DEF LoopInv
<1> QED
  BY LoopInvInit, LoopInvNext, <1>1, PTL DEF Spec
-----------------------------------------------------------------------------
(* Type correctness. *)

\* Channel and buffer indices are in range wherever they are used to index
\* video_stream[] and vstream->buffers[].
InRange ==
  /\ ch[App] \in Channels
  /\ \A l \in Loops :
       /\ \/ pc[l] \in {"check", "dqbuf", "handle", "cb_read", "cb", "final",
                        "qbuf", "done", "done_qbuf"}
          \/ pc[l] \in StopLabels /\ sret[l] \in {"cb", "final"}
          => ch[l] \in Channels
       /\ pc[l] = "handle" => buf[l] \in Buffers

ThreadsInv ==
  ThreadsOK /\ InRange /\ held \in [Fds -> SUBSET Buffers]
            /\ starts \in [Channels -> Nat] /\ chCount \in 0 .. NumChannels + 2

\* Channel 0 exists, channels are numbers, and each has a descriptor.
LEMMA ChannelFacts ==
  /\ 0 \in Channels
  /\ Channels \subseteq Nat
  /\ \A c \in Channels : Fd(c) \in Fds
  BY VideoAssumption DEF VideoAssumption, Channels, Fds

\* A loop index below NumChannels is a channel, and so is the id of a video box.
LEMMA IndexFacts ==
  /\ NumChannels \in Nat /\ MuxCount \in Nat
  /\ \A c \in Nat : c < NumChannels => c \in Channels
  /\ IpcamMode => \A id \in BoxIds : id <= MuxCount => id \in Channels
  BY VideoAssumption DEF VideoAssumption, Channels

\* An update within its type keeps a function's type.
LEMMA ExceptType ==
  ASSUME NEW S, NEW T, NEW f \in [S -> T], NEW x, NEW v \in T
  PROVE  [f EXCEPT ![x] = v] \in [S -> T]
  OBVIOUS

\* An update of one entry of a table keeps its type.
LEMMA ExceptType2 ==
  ASSUME NEW S, NEW R, NEW T, NEW f \in [S -> [R -> T]],
         NEW x, NEW y, NEW v \in T
  PROVE  [f EXCEPT ![x][y] = v] \in [S -> [R -> T]]
  OBVIOUS

\* The initial state is well typed.
LEMMA TypeInit == Init => FlagsOK /\ DriverOK /\ ThreadsInv
<1> SUFFICES ASSUME Init PROVE FlagsOK /\ DriverOK /\ ThreadsInv
  OBVIOUS
<1>1. FlagsOK /\ DriverOK
  <2>1. refCount \in Int
    BY DEF Init
  <2>2. FlagsOK
    BY <2>1 DEF Init, FlagsOK
  <2>3. DriverOK
    BY DEF Init, DriverOK, BufState
  <2> QED
    BY <2>2, <2>3
<1>2. ThreadsOK
  BY ChannelFacts
  DEF Init, ThreadsOK, Labels, AppLabels, LoopLabels, DoneLabels
<1>3. InRange
  BY AppIsNoLoop, ChannelFacts DEF Init, InRange, Threads, StopLabels
<1> QED
  BY <1>1, <1>2, <1>3, ChannelFacts, IndexFacts DEF Init, ThreadsInv

\* Only these actions write the library's flags.
LEMMA FlagsNext == FlagsOK /\ ThreadsInv /\ [Next]_vars => FlagsOK'
<1> SUFFICES ASSUME FlagsOK, ThreadsInv, [Next]_vars PROVE FlagsOK'
  OBVIOUS
<1> USE DEF FlagsOK, ThreadsInv, ThreadsOK
<1>1. CASE UNCHANGED flags
  BY <1>1 DEF flags
<1>2. StartQueue => FlagsOK'
  BY DEF StartQueue
<1>3. StartLoop \/ StartMux \/ StartRef => FlagsOK'
  <2>1. StartLoop => FlagsOK'
    BY DEF StartLoop
  <2>2. StartMux => FlagsOK'
    BY DEF StartMux
  <2>3. StartRef => FlagsOK'
    BY DEF StartRef
  <2> QED
    BY <2>1, <2>2, <2>3
<1>4. ASSUME NEW t \in Threads, Stop(t) PROVE FlagsOK'
  <2>1. StopDec(t) => FlagsOK'
    BY DEF StopDec
  <2>2. StopClear(t) => FlagsOK'
    BY DEF StopClear
  <2>3. StopFlags(t) => FlagsOK'
    BY DEF StopFlags
  <2>4. StopEnter(t) \/ StopLoad(t) \/ StopStream(t) \/ StopUnmap(t)
          => UNCHANGED flags
    BY DEF StopEnter, StopLoad, StopStream, StopUnmap
  <2> QED
    BY <1>1, <1>4, <2>1, <2>2, <2>3, <2>4 DEF Stop
<1>5. DeinitChannel \/ DeinitClose \/ DeinitBeyond => FlagsOK'
  BY DEF DeinitChannel, DeinitClose, DeinitBeyond, Crash
<1>6. ASSUME NEW l \in Loops,
             LoopEnter(l) \/ LoopScan(l) \/ LoopExit(l) \/ Segfault(l)
      PROVE FlagsOK'
  BY <1>6 DEF LoopEnter, LoopScan, LoopExit, Segfault, Crash
<1> HIDE DEF FlagsOK, ThreadsInv
<1>7. CASE AppCall \/ Camera
  BY <1>1, <1>7
  DEF AppCall, StartChannel, StopChannel, Deinit, Camera, Unplug, Fill
<1>8. CASE AppStep
  BY <1>1, <1>2, <1>3, <1>4, <1>5, <1>8
  DEF AppStep, DeinitNext, StartWait, StartLoad, Threads
<1>9. ASSUME NEW l \in Loops, LoopStep(l) PROVE FlagsOK'
  BY <1>1, <1>4, <1>6, <1>9
  DEF LoopStep, ClientStep, EventStep, LoopTop, LoopSelect, LoopPass,
      LoopCheck, LoopDequeue, LoopHandle, CbRead, CbBufDone, CbReturn, BufDoneCheck,
      BufDoneQueue, LoopFinal, LoopQueue, LoopNext, Threads
<1> QED
  BY <1>1, <1>7, <1>8, <1>9 DEF Next, vars

\* Only these actions reach the driver.
LEMMA DriverNext == DriverOK /\ ThreadsInv /\ [Next]_vars => DriverOK'
<1> SUFFICES ASSUME DriverOK, ThreadsInv, [Next]_vars PROVE DriverOK'
  OBVIOUS
<1> DEFINE FdsOK == /\ opened \in SUBSET Fds /\ mapped \in SUBSET Fds
                    /\ streaming \in SUBSET Fds /\ gone \in BOOLEAN
           BufsOK == bufs \in [Fds -> [Buffers -> BufState]]
<1> USE DEF DriverOK, BufState
<1>1. CASE UNCHANGED driver
  BY <1>1 DEF driver
<1>2. ASSUME NEW c \in Channels, StartChannel(c) PROVE DriverOK'
  <2>1. FdsOK'
    BY <1>2, ChannelFacts DEF StartChannel, InitMmap
  <2>2. BufsOK'
    BY <1>2, ExceptType DEF StartChannel, InitMmap
  <2> QED
    BY <2>1, <2>2
<1>3. CASE StartQueue
  <2>1. FdsOK'
    BY <1>3, ChannelFacts DEF StartQueue, ThreadsInv, InRange
  <2>2. BufsOK'
    <3>1. ASSUME NEW f \in Fds, NEW Q \in [Buffers -> BufState],
                 bufs' = [bufs EXCEPT ![f] = Q]
          PROVE  BufsOK'
      BY <3>1
    <3>2. Fd(ch[App]) \in Fds
      BY <1>3, ChannelFacts DEF StartQueue, ThreadsInv, InRange, At
    <3>3. \A Q \in SUBSET Buffers :
            [b \in Buffers |-> IF b \in Q THEN "queued" ELSE bufs[Fd(ch[App])][b]]
              \in [Buffers -> BufState]
      BY <3>2
    <3> QED
      BY <1>3, <3>1, <3>2, <3>3 DEF StartQueue
  <2> QED
    BY <2>1, <2>2
<1>4. ASSUME NEW t \in Threads, StopStream(t) \/ StopUnmap(t) PROVE DriverOK'
  BY <1>4 DEF StopStream, StopUnmap
<1>5. CASE DeinitClose \/ DeinitBeyond
  BY <1>5 DEF DeinitClose, DeinitBeyond, Crash
<1>6. CASE Camera
  <2>1. Unplug => DriverOK'
    BY DEF Unplug
  <2>2. ASSUME NEW f \in Fds, Fill(f) PROVE DriverOK'
    <3>1. FdsOK'
      BY <2>2 DEF Fill
    <3>2. BufsOK'
      BY <2>2, ExceptType2 DEF Fill
    <3> QED
      BY <3>1, <3>2
  <2> QED
    BY <1>6, <2>1, <2>2 DEF Camera
<1>7. ASSUME NEW l \in Loops, LoopDequeue(l) PROVE DriverOK'
  <2>1. FdsOK'
    BY <1>7 DEF LoopDequeue
  <2>2. \/ bufs' = bufs
        \/ \E b \in Buffers : bufs' = [bufs EXCEPT ![Fd(ch[l])][b] = "user"]
    BY <1>7 DEF LoopDequeue
  <2>3. BufsOK'
    <3>1. CASE bufs' = bufs
      BY <3>1
    <3>2. ASSUME NEW b \in Buffers,
                 bufs' = [bufs EXCEPT ![Fd(ch[l])][b] = "user"]
          PROVE BufsOK'
      BY <3>2, ExceptType2
    <3> QED
      BY <2>2, <3>1, <3>2
  <2> QED
    BY <2>1, <2>3
<1>8. ASSUME NEW l \in Loops, BufDoneQueue(l) \/ LoopQueue(l) PROVE DriverOK'
  <2>1. FdsOK'
    BY <1>8 DEF BufDoneQueue, LoopQueue
  <2>2. BufsOK'
    <3>1. BufDoneQueue(l) => BufsOK'
      BY ExceptType2 DEF BufDoneQueue
    <3>2. LoopQueue(l) => BufsOK'
      BY ExceptType2 DEF LoopQueue
    <3> QED
      BY <1>8, <3>1, <3>2
  <2> QED
    BY <2>1, <2>2
<1>9. ASSUME NEW l \in Loops, Segfault(l) PROVE DriverOK'
  BY <1>9 DEF Segfault, Crash
<1> HIDE DEF DriverOK, ThreadsInv
<1>10. ASSUME NEW t \in Threads, Stop(t) PROVE DriverOK'
  BY <1>1, <1>4, <1>10 DEF Stop, StopEnter, StopLoad, StopDec, StopClear,
      StopFlags
<1>11. CASE AppCall
  BY <1>1, <1>2, <1>11 DEF AppCall, StopChannel, Deinit
<1>12. CASE AppStep
  BY <1>1, <1>3, <1>5, <1>10, <1>12
  DEF AppStep, DeinitNext, StartLoop, StartWait, StartMux, StartLoad, StartRef,
      DeinitChannel, Threads
<1>13. ASSUME NEW l \in Loops, LoopStep(l) PROVE DriverOK'
  BY <1>1, <1>7, <1>8, <1>9, <1>10, <1>13
  DEF LoopStep, ClientStep, EventStep, LoopEnter, LoopTop, LoopScan,
      LoopSelect, LoopPass, LoopCheck, LoopHandle, CbRead, CbBufDone, CbReturn,
      BufDoneCheck, LoopFinal, LoopNext, LoopExit, Threads
<1> QED
  BY <1>1, <1>6, <1>11, <1>12, <1>13 DEF Next, vars

\* Every step keeps what the threads work with in range.  LoopInv says where a
\* call of stop or of buf_done returns to, with the channel it had.
LEMMA ThreadsNext ==
  ThreadsInv /\ LoopInv /\ FlagsOK /\ [Next]_vars => ThreadsInv'
<1> SUFFICES ASSUME ThreadsInv, LoopInv, FlagsOK, [Next]_vars
             PROVE  ThreadsInv'
  OBVIOUS
<1>0. refCount \in Int
  BY DEF FlagsOK
<1> USE AppIsNoLoop, ChannelFacts
  DEF ThreadsInv, ThreadsOK, InRange, LoopInv, ThreadPlaces, Threads, Labels,
      AppLabels, LoopLabels, StopLabels, DoneLabels, Goto, At, locals, client,
      stopArgs, doneArgs
<1>1. CASE UNCHANGED vars
  BY <1>1 DEF vars
<1>2. ASSUME NEW c \in Channels, StartChannel(c) PROVE ThreadsInv'
  BY <1>2 DEF StartChannel, InitMmap
<1>3. CASE StartQueue
  BY <1>3 DEF StartQueue
<1>4. CASE StartLoop
  BY <1>4 DEF StartLoop, CallStop
<1>5. CASE StartWait
  BY <1>5 DEF StartWait
<1>6. CASE StartMux \/ StartLoad \/ StartRef
  BY <1>0, <1>6 DEF StartMux, StartLoad, StartRef
<1>7. ASSUME NEW c \in Channels, StopChannel(c) PROVE ThreadsInv'
  BY <1>7 DEF StopChannel, CallStop
<1>8. ASSUME NEW t \in Threads, StopEnter(t) PROVE ThreadsInv'
  BY <1>8 DEF StopEnter, StopReturn
<1>9. ASSUME NEW t \in Threads, StopLoad(t) \/ StopDec(t) \/ StopClear(t)
      PROVE ThreadsInv'
  <2>1. StopLoad(t) => ThreadsInv'
    BY <1>0 DEF StopLoad
  <2>2. StopDec(t) => ThreadsInv'
    BY DEF StopDec
  <2>3. ASSUME StopClear(t) PROVE ThreadsInv'
    <3>1. reg' \in [Threads -> Int]
      BY <2>3 DEF StopClear
    <3>2. \/ Goto(t, sret[t]) /\ sch' = [sch EXCEPT ![t] = 0]
             /\ sret' = [sret EXCEPT ![t] = "idle"]
          \/ Goto(t, "stop_flags") /\ UNCHANGED stopArgs
      BY <2>3 DEF StopClear, StopReturn
    <3> QED
      BY <2>3, <3>1, <3>2 DEF StopClear
  <2> QED
    BY <1>9, <2>1, <2>2, <2>3
<1>10. ASSUME NEW t \in Threads, StopFlags(t) \/ StopStream(t)
       PROVE ThreadsInv'
  BY <1>10 DEF StopFlags, StopStream
<1>11. ASSUME NEW t \in Threads, StopUnmap(t) PROVE ThreadsInv'
  BY <1>11 DEF StopUnmap, StopReturn
<1>12. CASE Deinit
  BY <1>12, IndexFacts DEF Deinit, ChannelCounts
<1>13. CASE DeinitChannel
  BY <1>13 DEF DeinitChannel, CallStop
<1>14. CASE DeinitClose \/ DeinitBeyond
  BY <1>14, IndexFacts DEF DeinitClose, DeinitBeyond, Crash
<1>15. CASE Camera
  BY <1>15 DEF Camera, Unplug, Fill
<1>16. ASSUME NEW l \in Loops, LoopEnter(l) PROVE ThreadsInv'
  BY <1>16 DEF LoopEnter
<1>17. ASSUME NEW l \in Loops, LoopTop(l) PROVE ThreadsInv'
  BY <1>17 DEF LoopTop
<1>18. ASSUME NEW l \in Loops, LoopScan(l) PROVE ThreadsInv'
  <2>1. ready' \in [Loops -> SUBSET Fds]
    BY <1>18, IndexFacts, Z3 DEF LoopScan
  <2>2. ch' \in [Threads -> Nat]
    BY <1>18 DEF LoopScan
  <2> QED
    BY <1>18, <2>1, <2>2 DEF LoopScan
<1>19. ASSUME NEW l \in Loops, LoopSelect(l) PROVE ThreadsInv'
  BY <1>19 DEF LoopSelect
<1>20. ASSUME NEW l \in Loops, LoopPass(l) PROVE ThreadsInv'
  BY <1>20, IndexFacts DEF LoopPass
<1>21. ASSUME NEW l \in Loops, LoopCheck(l) \/ LoopDequeue(l)
       PROVE ThreadsInv'
  BY <1>21 DEF LoopCheck, LoopDequeue, CallStop
<1>22. ASSUME NEW l \in Loops, LoopHandle(l) PROVE ThreadsInv'
  <2> USE DEF HandleMux, HandleOwn, CallClient, CallBufDone, IsMux
  <2>1. bch' \in [Loops -> Channels]
    BY <1>22, IndexFacts DEF LoopHandle
  <2>2. held' \in [Fds -> SUBSET Buffers]
    BY <1>22 DEF LoopHandle
  <2> QED
    BY <1>22, <2>1, <2>2 DEF LoopHandle
<1>23. ASSUME NEW l \in Loops, CbRead(l) \/ CbReturn(l) PROVE ThreadsInv'
  BY <1>23 DEF CbRead, CbReturn
<1>24. ASSUME NEW l \in Loops, Segfault(l) PROVE ThreadsInv'
  BY <1>24 DEF Segfault, Crash
<1>25. ASSUME NEW l \in Loops, NEW b \in Buffers, CbBufDone(l, b)
       PROVE ThreadsInv'
  BY <1>25 DEF CbBufDone, CallBufDone
<1>26. ASSUME NEW l \in Loops, BufDoneCheck(l) PROVE ThreadsInv'
  <2>1. held' \in [Fds -> SUBSET Buffers]
    BY <1>26 DEF BufDoneCheck
  <2>2. /\ bch' \in [Loops -> Channels] /\ bret' \in [Loops -> Labels]
        /\ bidx' \in [Loops -> Buffers \cup {NoBuf}]
    BY <1>26 DEF BufDoneCheck, DoneReturn
  <2>3. /\ pc' \in [Threads -> Labels]
        /\ pc' = [pc EXCEPT ![l] = bret[l]]
           \/ pc' = [pc EXCEPT ![l] = "done_qbuf"]
    BY <1>26 DEF BufDoneCheck
  <2>4. ThreadsOK'
    BY <1>26, <2>2, <2>3 DEF BufDoneCheck
  <2>5. InRange'
    BY <1>26, <2>3 DEF BufDoneCheck
  <2> QED
    BY <1>26, <2>1, <2>4, <2>5 DEF BufDoneCheck
<1>27. ASSUME NEW l \in Loops, BufDoneQueue(l) PROVE ThreadsInv'
  BY <1>27 DEF BufDoneQueue, DoneReturn, CallStop
<1>28. ASSUME NEW l \in Loops, LoopFinal(l) PROVE ThreadsInv'
  <2>1. ch' \in [Threads -> Nat]
    BY <1>28, IndexFacts DEF LoopFinal, AfterFrame
  <2> QED
    BY <1>28, <2>1 DEF LoopFinal
<1>29. ASSUME NEW l \in Loops, LoopQueue(l) PROVE ThreadsInv'
  <2>1. \/ Goto(l, "next") /\ UNCHANGED stopArgs
        \/ CallStop(l, ch[l], "next")
    BY <1>29 DEF LoopQueue
  <2>2. CASE Goto(l, "next") /\ UNCHANGED stopArgs
    BY <1>29, <2>2 DEF LoopQueue
  <2>3. CASE CallStop(l, ch[l], "next")
    BY <1>29, <2>3 DEF LoopQueue, CallStop
  <2> QED
    BY <2>1, <2>2, <2>3
<1>30. ASSUME NEW l \in Loops, LoopNext(l) PROVE ThreadsInv'
  BY <1>30 DEF LoopNext
<1>31. ASSUME NEW l \in Loops, LoopExit(l) PROVE ThreadsInv'
  BY <1>31 DEF LoopExit
<1> HIDE DEF ThreadsInv
<1>32. ASSUME NEW t \in Threads, Stop(t) PROVE ThreadsInv'
  BY <1>32, <1>8, <1>9, <1>10, <1>11 DEF Stop
<1>33. CASE AppCall
  BY <1>33, <1>2, <1>7, <1>12 DEF AppCall
<1>34. CASE AppStep
  BY <1>34, <1>3, <1>4, <1>5, <1>6, <1>13, <1>14, <1>32 DEF AppStep, DeinitNext
<1>35. ASSUME NEW l \in Loops, LoopStep(l) PROVE ThreadsInv'
  BY <1>35, <1>16, <1>17, <1>18, <1>19, <1>21, <1>22, <1>23, <1>24, <1>25,
     <1>26, <1>27, <1>28, <1>29, <1>30, <1>31, <1>32, <1>20
  DEF LoopStep, ClientStep, EventStep
<1> QED
  BY <1>1, <1>15, <1>33, <1>34, <1>35 DEF Next

\* Every variable keeps its type for every value of the constants; in
\* particular no channel or buffer index leaves its range.
THEOREM TypeCorrect == Spec => []TypeOK
<1> DEFINE Inv == LoopInv /\ FlagsOK /\ DriverOK /\ ThreadsInv
<1>1. Inv => TypeOK
  BY DEF TypeOK, ThreadsInv
<1>2. Init => Inv
  BY LoopInvInit, TypeInit
<1>3. Inv /\ [Next]_vars => Inv'
  BY LoopInvNext, FlagsNext, DriverNext, ThreadsNext
<1> QED
  BY <1>1, <1>2, <1>3, PTL DEF Spec

-----------------------------------------------------------------------------
(***************************************************************************)
(* When the application starts all its channels and then stops them, as    *)
(* the capture tools do: the books that the library keeps about its        *)
(* channels agree with each other and with the driver, the error stops of  *)
(* the event thread never take effect, no frame is overwritten under its   *)
(* reader, and deinit releases everything; for every number of channels    *)
(* and buffers and either camera mode.                                     *)
(***************************************************************************)

\* What the theorems below assume of the application and the camera: every
\* channel is started, then channels are stopped and not started again; the
\* camera stays and threads can be created; and no box names the raw stream.
Orderly == Faults = {} /\ ~Restarts /\ MuxCount \notin BoxIds

StartLabels == {"start_queue", "start_loop", "start_wait", "start_mux",
                "start_load", "start_ref"}

\* The started mux channels.
Muxed == {c \in Channels : IsMux(c) /\ started[c]}

\* Is a channel of descriptor f started?
FdStarted(f) == \E c \in Channels : Fd(c) = f /\ started[c]

\* Was channel c ever marked as started, and is one stopped by now?
Begun(c) == starts[c] > 0 /\ ~(pc[App] = "start_queue" /\ ch[App] = c)
FdBegun(f) == \E c \in Channels : Fd(c) = f /\ Begun(c)
Stopping == \E c \in Channels : Begun(c) /\ ~started[c]

\* A start in progress: everything started before still runs.
StartsInTurn ==
  /\ \A c \in Channels : started[c] => starts[c] > 0
  /\ pc[App] \in StartLabels =>
       /\ starts[ch[App]] > 0
       /\ started[ch[App]] <=> pc[App] # "start_queue"
       /\ \A c \in Channels \ {ch[App]} : starts[c] > 0 => started[c]
  /\ pc[App] \in {"start_mux", "start_load", "start_ref"} => IsMux(ch[App])
  /\ pc[App] \in {"start_loop", "start_wait", "start_mux"} /\ IsMux(ch[App]) =>
       Muxed = {ch[App]}

\* A stop in progress: its channel, and what it has left of it.
StopsInTurn ==
  pc[App] \in StopLabels =>
    /\ enabled[sch[App]] /\ starts[sch[App]] > 0
    /\ sret[App] = "deinit_close" => sch[App] = ch[App]
    /\ pc[App] \in {"stop", "stop_load", "stop_dec", "stop_clear"} =>
         started[sch[App]]
    /\ pc[App] \in {"stop_load", "stop_dec", "stop_clear"} => IsMux(sch[App])
    /\ pc[App] = "stop_flags" =>
         IF IsMux(sch[App]) THEN Muxed = {} ELSE started[sch[App]]
    /\ pc[App] \in {"stop_stream", "stop_unmap"} => ~FdStarted(Fd(sch[App]))

\* The reference count is the number of started mux channels, but for the
\* one that is being started or stopped.
Uncounted ==
  \/ pc[App] \in StartLabels \ {"start_queue"} /\ IsMux(ch[App])
  \/ pc[App] = "stop_clear"
Counted ==
  /\ Cardinality(Muxed) = IF Uncounted THEN refCount + 1 ELSE refCount
  /\ pc[App] \in {"start_ref", "stop_dec", "stop_clear"} =>
       reg[App] = refCount

\* The shared stream is on while a mux channel is started, from when the first
\* has its event thread to when the last stops.
SharedOn ==
  muxStarted <=>
    \/ /\ Muxed # {}
       /\ ~(pc[App] \in {"start_loop", "start_wait", "start_mux"}
            /\ IsMux(ch[App]))
    \/ pc[App] = "stop_flags" /\ IsMux(sch[App])

\* The driver streams for the started channels and has their buffers mapped;
\* a start maps them first, a stop unmaps them last.
DriverFollows ==
  /\ ~gone
  /\ \A f \in Fds :
       /\ f \in streaming <=>
            \/ FdStarted(f)
            \/ pc[App] \in {"stop_flags", "stop_stream"} /\ Fd(sch[App]) = f
       /\ f \in mapped <=>
            \/ FdStarted(f)
            \/ pc[App] \in {"stop_flags", "stop_stream", "stop_unmap"}
               /\ Fd(sch[App]) = f
            \/ pc[App] = "start_queue" /\ Fd(ch[App]) = f

\* mxuvc_video_deinit has stopped, disabled and closed the channels below the
\* one it is at; before, every channel is enabled and open.  The camera is
\* there to tell their number.
Deiniting ==
  \/ pc[App] \in {"deinit", "deinit_close"}
  \/ pc[App] \in StopLabels /\ sret[App] = "deinit_close"
DeinitsInTurn ==
  /\ chCount = NumChannels
  /\ \A c \in Channels : started[c] => enabled[c] /\ Fd(c) \in opened
  /\ IF Deiniting
       THEN /\ \A c \in Channels : enabled[c] <=> c >= ch[App]
            /\ pc[App] = "deinit_close" => ~started[ch[App]]
            /\ \A f \in opened : \E c \in Channels : c >= ch[App] /\ Fd(c) = f
       ELSE IF pc[App] = "finished"
         THEN opened = {} /\ \A c \in Channels : ~enabled[c]
         ELSE opened = Fds /\ \A c \in Channels : enabled[c]

Books ==
  /\ StartsInTurn /\ StopsInTurn /\ Counted /\ SharedOn
  /\ DriverFollows /\ DeinitsInTurn
-----------------------------------------------------------------------------
\* The event thread works on a channel that was started.
Handling(l) ==
  \/ pc[l] \in {"handle", "cb_read", "cb", "final", "qbuf", "done",
                "done_qbuf"}
  \/ pc[l] = "stop" /\ sret[l] \in {"cb", "final"}

\* An error stop of an event thread finds its channel stopped already.
StopVain(l) ==
  pc[l] \in StopLabels => pc[l] = "stop" /\ ~started[sch[l]] /\ Stopping
StopsVain == \A l \in Loops : StopVain(l)

\* An event thread waits for, and takes frames of, channels that were started,
\* and the callback is about the same descriptor as the frame.
OnBegun(l) ==
  /\ \A f \in ready[l] : FdBegun(f)
  /\ pc[l] \in {"check", "dqbuf"} => Fd(ch[l]) \in ready[l]
  /\ pc[l] \in {"check", "dqbuf"} \/ Handling(l) => Begun(ch[l])
  /\ \/ pc[l] \in {"cb_read", "cb", "done", "done_qbuf"}
     \/ pc[l] = "stop" /\ sret[l] = "cb"
     => Fd(bch[l]) = Fd(ch[l])

\* The buffer an event thread has in hand is outside the queues.
FrameInHand(l) ==
  /\ \/ pc[l] \in {"handle", "cb_read"}
     \/ ~IpcamMode /\ pc[l] \in {"cb", "final", "qbuf"}
     => buf[l] \in Buffers /\ bufs[Fd(ch[l])][buf[l]] = "user"
  /\ pc[l] \in {"done", "done_qbuf"} =>
       /\ IpcamMode
       /\ bidx[l] \in Buffers /\ bufs[Fd(bch[l])][bidx[l]] = "user"
  /\ pc[l] = "qbuf" => ~IpcamMode
  /\ pc[l] = "stop" => IpcamMode \/ sret[l] = "next"
  /\ pc[l] = "done_qbuf" => bidx[l] \notin held[Fd(bch[l])]

\* A descriptor that select reported, and that the pass has yet to come to, has
\* a frame, unless its stream was stopped.
FirstLeft(l) ==
  IF pc[l] \in {"pass", "check", "dqbuf"} THEN ch[l]
  ELSE IF Handling(l) THEN AfterFrame(ch[l])
  ELSE ch[l] + 1
FramesLeft(l) ==
  pc[l] \in {"pass", "check", "dqbuf", "next", "stop"} \/ Handling(l) =>
    \A c \in Channels :
      c >= FirstLeft(l) /\ Fd(c) \in ready[l] /\ Fd(c) \in streaming =>
        \E b \in Buffers : bufs[Fd(c)][b] = "done"

\* What the client holds is outside the queues; of a descriptor no channel was
\* started on, everything is.
WithClient ==
  \A f \in Fds :
    /\ \A b \in held[f] : bufs[f][b] = "user"
    /\ ~IpcamMode => held[f] = {}
    /\ ~FdBegun(f) => held[f] = {} /\ \A b \in Buffers : bufs[f][b] = "user"

AtHand(l) == StopVain(l) /\ OnBegun(l) /\ FrameInHand(l) /\ FramesLeft(l)
Hands == WithClient /\ \A l \in Loops : AtHand(l)
-----------------------------------------------------------------------------
(* Facts about the model's operators. *)

\* The invariant of V4l2VideoProofs: one event thread, and the types.
Base == LoopInv /\ FlagsOK /\ DriverOK /\ ThreadsInv

\* The initial state has its types and its threads.
LEMMA BaseInit == Init => Base
  BY LoopInvInit, TypeInit DEF Base

\* Every step keeps the types and the threads.
LEMMA BaseNext == Base /\ [Next]_vars => Base'
  BY LoopInvNext, FlagsNext, DriverNext, ThreadsNext DEF Base

\* Two channels share a descriptor only in the mux stream.
LEMMA FdShared ==
  \A c, d \in Channels : Fd(c) = Fd(d) <=> c = d \/ (IsMux(c) /\ IsMux(d))
  BY VideoAssumption DEF VideoAssumption, Channels, Fd, IsMux

\* In ipcam mode the channels after the mux channels are one; after a frame
\* the pass is past every channel of its descriptor.
LEMMA PastFrame ==
  \A c, d \in Channels : d >= AfterFrame(c) => Fd(d) # Fd(c) /\ d >= c + 1
  BY VideoAssumption DEF VideoAssumption, Channels, Fd, IsMux, AfterFrame

\* Channels are numbers.
LEMMA ChannelOrder ==
  \A c, d \in Channels :
    /\ ~(c > c) /\ c >= c /\ (d > c <=> d >= c + 1)
    /\ d # c => (d >= c <=> d > c)
  BY VideoAssumption DEF VideoAssumption, Channels

\* The started mux channels are finitely many.
LEMMA MuxedFinite ==
  ASSUME FlagsOK
  PROVE  IsFiniteSet(Muxed) /\ Cardinality(Muxed) \in Nat
<1>1. IsFiniteSet(Channels)
  <2>1. NumChannels \in Nat /\ 0 \in Int /\ NumChannels - 1 \in Int
    BY VideoAssumption DEF VideoAssumption
  <2> QED
    BY <2>1, FS_Interval DEF Channels
<1> QED
  BY <1>1, FS_Subset, FS_CardinalityType DEF Muxed

\* What the application's thread and the flags and the driver's sets are: all
\* that Books speaks of.
SameBooks ==
  /\ UNCHANGED <<enabled, started, muxStarted, refCount, opened, mapped,
                 streaming, gone, starts, chCount>>
  /\ pc'[App] = pc[App] /\ ch'[App] = ch[App] /\ reg'[App] = reg[App]
  /\ sch'[App] = sch[App] /\ sret'[App] = sret[App]

\* A step that writes none of it keeps the books.
LEMMA BooksElsewhere == Books /\ SameBooks => Books'
<1> SUFFICES ASSUME Books, SameBooks PROVE Books'
  OBVIOUS
<1>1. Muxed' = Muxed /\ \A f : FdStarted(f)' <=> FdStarted(f)
  BY DEF SameBooks, Muxed, FdStarted
<1>2. StartsInTurn' /\ StopsInTurn'
  BY <1>1 DEF Books, SameBooks, StartsInTurn, StopsInTurn
<1>3. Counted' /\ SharedOn'
  BY <1>1 DEF Books, SameBooks, Counted, SharedOn, Uncounted
<1>4. DriverFollows'
  BY <1>1 DEF Books, SameBooks, DriverFollows
<1>5. DeinitsInTurn'
  BY DEF Books, SameBooks, DeinitsInTurn, Deiniting
<1> QED
  BY <1>2, <1>3, <1>4, <1>5 DEF Books

\* The camera and the event threads write none of it, as long as no error stop
\* takes effect and the process does not crash.
LEMMA LoopsLeaveBooks ==
  ASSUME Base, StopsVain, NEW l \in Loops, LoopStep(l)
  PROVE  SameBooks \/ Segfault(l)
<1> USE AppIsNoLoop
    DEF SameBooks, Base, LoopInv, ThreadPlaces, ThreadsInv, ThreadsOK, Threads,
        Goto, At, flags, driver, client, locals, stopArgs, doneArgs
<1>1. l # App
  OBVIOUS
<1>2. CASE Stop(l)
  <2>1. StopEnter(l)
    BY <1>2 DEF Stop, StopEnter, StopLoad, StopDec, StopClear, StopFlags,
                StopStream, StopUnmap, StopsVain, StopVain, StopLabels
  <2> QED
    BY <2>1 DEF StopEnter, StopReturn, StopsVain, StopVain, StopLabels
<1>3. CASE LoopEnter(l) \/ LoopTop(l) \/ LoopSelect(l) \/ LoopPass(l)
  BY <1>3 DEF LoopEnter, LoopTop, LoopSelect, LoopPass
<1>4. CASE LoopScan(l) \/ LoopCheck(l)
  BY <1>4 DEF LoopScan, LoopCheck
<1>5. CASE LoopDequeue(l)
  BY <1>5 DEF LoopDequeue, CallStop
<1>6. CASE LoopHandle(l)
  BY <1>6 DEF LoopHandle, HandleMux, HandleOwn, CallClient, CallBufDone
<1>7. CASE BufDoneCheck(l)
  BY <1>7 DEF BufDoneCheck, DoneReturn
<1>8. CASE BufDoneQueue(l)
  BY <1>8 DEF BufDoneQueue, DoneReturn, CallStop
<1>9. CASE LoopFinal(l) \/ LoopNext(l) \/ LoopExit(l)
  BY <1>9 DEF LoopFinal, LoopNext, LoopExit
<1>10. CASE LoopQueue(l)
  BY <1>10 DEF LoopQueue, CallStop
<1>11. CASE ClientStep(l)
  BY <1>11 DEF ClientStep, CbRead, CbReturn, CbBufDone, CallBufDone
<1> QED
  BY <1>2, <1>3, <1>4, <1>5, <1>6, <1>7, <1>8, <1>9, <1>10, <1>11
  DEF LoopStep, EventStep

\* The camera writes frames and no books.
LEMMA CameraLeavesBooks == ASSUME Orderly, Camera PROVE SameBooks
  BY DEF Orderly, Camera, Unplug, Fill, SameBooks, flags, client, locals,
         stopArgs, doneArgs

\* Before the first call the books are empty.
LEMMA BooksInit == Init => Books
<1> SUFFICES ASSUME Init PROVE Books
  OBVIOUS
<1>1. pc[App] = "idle" /\ (\A c \in Channels : ~started[c])
  BY DEF Init, Threads
<1>2. Muxed = {} /\ \A f : ~FdStarted(f)
  BY <1>1 DEF Muxed, FdStarted
<1>3. Counted
  BY <1>1, <1>2, FS_EmptySet DEF Init, Counted, Uncounted, StartLabels
<1> QED
  BY <1>1, <1>2, <1>3, ChannelFacts
  DEF Init, Books, StartsInTurn, StopsInTurn, SharedOn, DriverFollows,
      DeinitsInTurn, Deiniting, StartLabels, StopLabels
-----------------------------------------------------------------------------
(* The books: every step of the application's thread keeps them. *)

\* A descriptor has a started channel when its channel is, or, for the mux
\* descriptor, when any mux channel is.
LEMMA FdStartedMux ==
  \A c \in Channels : FdStarted(Fd(c)) <=> started[c] \/ (IsMux(c) /\ Muxed # {})
  BY FdShared DEF FdStarted, Muxed

\* Starting a channel adds it to the started ones, stopping one removes it.
LEMMA MuxedSet ==
  ASSUME FlagsOK, NEW c \in Channels, NEW v \in BOOLEAN,
         started' = [started EXCEPT ![c] = v]
  PROVE  /\ Muxed' = IF v /\ IsMux(c) THEN Muxed \cup {c} ELSE Muxed \ {c}
         /\ c \in Muxed <=> IsMux(c) /\ started[c]
         /\ Cardinality(Muxed \cup {c}) =
              IF c \in Muxed THEN Cardinality(Muxed) ELSE Cardinality(Muxed) + 1
         /\ Cardinality(Muxed \ {c}) =
              IF c \in Muxed THEN Cardinality(Muxed) - 1 ELSE Cardinality(Muxed)
<1>1. Muxed' = IF v /\ IsMux(c) THEN Muxed \cup {c} ELSE Muxed \ {c}
  BY DEF FlagsOK, Muxed, IsMux
<1>2. c \in Muxed <=> IsMux(c) /\ started[c]
  BY DEF Muxed
<1> QED
  BY <1>1, <1>2, MuxedFinite, FS_AddElement, FS_RemoveElement

\* Where the flags stay as they are, so does everything counted from them.
LEMMA SameStarted ==
  UNCHANGED started => Muxed' = Muxed /\ \A f : FdStarted(f)' <=> FdStarted(f)
  BY DEF Muxed, FdStarted

\* mxuvc_video_start finds a descriptor that is free unless it joins, and goes
\* on to start_queue.
LEMMA StartChannelGoesOn ==
  ASSUME Base, Orderly, Books, NEW c \in Channels, StartChannel(c)
  PROVE  InitMmap(c) /\ Goto(App, "start_queue")
<1>1. /\ ~Deiniting /\ pc[App] = "idle"
      /\ ~Joins(c) => ~FdStarted(Fd(c))
  <2>1. pc[App] = "idle" /\ ~started[c]
    BY DEF StartChannel, At
  <2>2. IsMux(c) /\ ~muxStarted => Muxed = {}
    BY <2>1 DEF Books, SharedOn, StartLabels
  <2>3. ~Joins(c) => ~FdStarted(Fd(c))
    BY <2>1, <2>2, FdStartedMux DEF Joins
  <2> QED
    BY <2>1, <2>3 DEF Deiniting, StopLabels
<1>2. Usable(Fd(c))
  BY <1>1, ChannelFacts DEF Books, DeinitsInTurn, DriverFollows, Usable
<1>3. ~Joins(c) => CanMap(Fd(c))
  BY <1>1, <1>2, ChannelFacts DEF CanMap, Books, DriverFollows
<1> QED
  BY <1>3 DEF StartChannel

\* The call of start records which channel is asked for.
LEMMA BooksStartChannel ==
  ASSUME Base, Orderly, Books, NEW c \in Channels, StartChannel(c)
  PROVE  Books'
<1> USE AppIsNoLoop, ChannelFacts DEF Threads
<1>1. /\ pc[App] = "idle" /\ pc'[App] = "start_queue"
      /\ ch'[App] = c /\ starts' = [starts EXCEPT ![c] = @ + 1]
      /\ UNCHANGED <<enabled, started, muxStarted, refCount, opened, streaming,
                     gone, chCount>>
      /\ ~started[c] /\ MayStart(c)
  BY StartChannelGoesOn
  DEF StartChannel, At, Goto, Base, ThreadsInv, ThreadsOK, flags
<1>2. Muxed' = Muxed /\ \A f : FdStarted(f)' <=> FdStarted(f)
  BY <1>1, SameStarted
<1>3. starts \in [Channels -> Nat] /\ \A d \in Channels : starts[d] > 0 => started[d]
  BY <1>1 DEF Orderly, MayStart, Base, ThreadsInv
<1>4. starts'[c] > 0 /\ \A d \in Channels \ {c} : starts'[d] = starts[d]
  BY <1>1, <1>3
<1>5. StartsInTurn'
  BY <1>1, <1>2, <1>3, <1>4 DEF StartsInTurn, Books, StartLabels
<1>6. StopsInTurn'
  BY <1>1 DEF StopsInTurn, StopLabels
<1>7. Counted' /\ SharedOn'
  BY <1>1, <1>2 DEF Books, Counted, SharedOn, Uncounted, StartLabels
<1>8. DriverFollows'
  <2>1. Joins(c) => FdStarted(Fd(c))
    BY <1>1, FdStartedMux DEF Joins, Books, SharedOn
  <2>2. mapped' = mapped \cup {Fd(c)}
    <3>1. Joins(c) => Fd(c) \in mapped
      BY <2>1 DEF Books, DriverFollows
    <3> QED
      BY <3>1, StartChannelGoesOn DEF InitMmap
  <2> QED
    BY <1>1, <1>2, <2>2 DEF Books, DriverFollows
<1>9. DeinitsInTurn'
  BY <1>1 DEF Books, DeinitsInTurn, Deiniting, StopLabels
<1> QED
  BY <1>5, <1>6, <1>7, <1>8, <1>9 DEF Books

\* At start_queue of a channel that does not join, its descriptor has no channel
\* that was ever started, and every buffer can be queued.
LEMMA StartQueueFresh ==
  ASSUME Base, Books, pc[App] = "start_queue", ~Joins(ch[App])
  PROVE  /\ ch[App] \in Channels /\ ~FdStarted(Fd(ch[App]))
         /\ ~FdBegun(Fd(ch[App]))
<1>1. ch[App] \in Channels
  BY DEF Base, ThreadsInv, InRange
<1>2. ~started[ch[App]] /\ \A d \in Channels \ {ch[App]} : starts[d] > 0 => started[d]
  BY DEF Books, StartsInTurn, StartLabels
<1>3. IsMux(ch[App]) => Muxed = {}
  BY DEF Joins, Books, SharedOn, StartLabels
<1>4. ~FdStarted(Fd(ch[App]))
  BY <1>1, <1>2, <1>3, FdStartedMux
<1>5. ASSUME NEW d \in Channels, Fd(d) = Fd(ch[App]), Begun(d) PROVE FALSE
  BY <1>2, <1>4, <1>5 DEF Begun, FdStarted
<1> QED
  BY <1>1, <1>4, <1>5 DEF FdBegun

\* A first start finds every buffer of its device free to queue.
LEMMA StartQueueSucceeds ==
  ASSUME Base, Books, WithClient, pc[App] = "start_queue", ~Joins(ch[App])
  PROVE  \A b \in Buffers : CanQueue(Fd(ch[App]), b)
<1>1. Fd(ch[App]) \in Fds
  BY StartQueueFresh, ChannelFacts
<1>2. Usable(Fd(ch[App])) /\ Fd(ch[App]) \in mapped
  BY <1>1 DEF Books, DriverFollows, DeinitsInTurn, Deiniting, StopLabels, Usable
<1>3. \A b \in Buffers : bufs[Fd(ch[App])][b] = "user"
  BY <1>1, StartQueueFresh DEF WithClient
<1> QED
  BY <1>2, <1>3 DEF CanQueue

\* start queues the buffers, or joins the stream that runs.
LEMMA BooksStartQueue ==
  ASSUME Base, Orderly, Books, WithClient, StartQueue
  PROVE  Books'
<1> DEFINE c == ch[App]
<1>1. /\ pc[App] = "start_queue" /\ c \in Channels
      /\ ~started[c] /\ starts[c] > 0
      /\ \A d \in Channels \ {c} : starts[d] > 0 => started[d]
      /\ \A d \in Channels : started[d] => starts[d] > 0
  BY DEF StartQueue, At, Base, ThreadsInv, InRange, Books, StartsInTurn,
         StartLabels
<1>2. /\ started' = [started EXCEPT ![c] = TRUE]
      /\ pc'[App] = IF Joins(c) THEN "start_load" ELSE "start_loop"
      /\ streaming' = IF Joins(c) THEN streaming ELSE streaming \cup {Fd(c)}
      /\ UNCHANGED <<enabled, muxStarted, refCount, opened, mapped, gone, ch,
                     starts, chCount>>
  BY <1>1, StartQueueSucceeds
  DEF StartQueue, Goto, Base, ThreadsInv, ThreadsOK, Threads, locals, client
<1>3. /\ started'[c] /\ started' \in [Channels -> BOOLEAN]
      /\ \A d \in Channels \ {c} : started'[d] = started[d]
  BY <1>1, <1>2 DEF Base, FlagsOK
<1>4. \A f : FdStarted(f)' <=> FdStarted(f) \/ Fd(c) = f
  BY <1>1, <1>3 DEF FdStarted
<1>5. Muxed' = IF IsMux(c) THEN Muxed \cup {c} ELSE Muxed
  <2>1. /\ Muxed' = IF TRUE /\ IsMux(c) THEN Muxed \cup {c} ELSE Muxed \ {c}
        /\ c \in Muxed <=> IsMux(c) /\ started[c]
    BY <1>1, <1>2, MuxedSet DEF Base
  <2> QED
    BY <2>1
<1>6. ~Joins(c) /\ IsMux(c) => Muxed = {}
  BY <1>1 DEF Joins, Books, SharedOn, StartLabels
<1>7. StartsInTurn'
  <2>1. Joins(c) => IsMux(c)
    BY DEF Joins
  <2>2. pc'[App] # "start_queue" /\ ch'[App] = c
    BY <1>2
  <2> QED
    BY <1>1, <1>2, <1>3, <1>5, <1>6, <2>1, <2>2 DEF StartsInTurn
<1>8. StopsInTurn'
  BY <1>2 DEF StopsInTurn, StopLabels
<1>9. Counted'
  <2>1. Cardinality(Muxed) = refCount
    BY <1>1 DEF Books, Counted, Uncounted, StartLabels
  <2>2. Cardinality(Muxed)' = IF IsMux(c) THEN refCount + 1 ELSE refCount
    BY <1>1, <1>2, <1>5, <2>1, MuxedSet DEF Base
  <2>3. Uncounted' <=> IsMux(c)
    BY <1>2 DEF Uncounted, StartLabels
  <2> QED
    BY <1>2, <2>2, <2>3 DEF Counted
<1>10. SharedOn'
  BY <1>1, <1>2, <1>5, <1>6 DEF SharedOn, Books, Joins
<1>11. DriverFollows'
  <2>1. Joins(c) => FdStarted(Fd(c))
    BY <1>1, FdStartedMux DEF Joins, Books, SharedOn
  <2> QED
    BY <1>1, <1>2, <1>4, <2>1 DEF Books, DriverFollows
<1>12. DeinitsInTurn'
  BY <1>1, <1>2, <1>3, ChannelFacts DEF Books, DeinitsInTurn, Deiniting, StopLabels
<1> QED
  BY <1>7, <1>8, <1>9, <1>10, <1>11, <1>12 DEF Books

\* The rest of mxuvc_video_start.
LEMMA BooksStartRest ==
  ASSUME Base, Orderly, Books,
         StartLoop \/ StartWait \/ StartMux \/ StartLoad \/ StartRef
  PROVE  Books'
<1> DEFINE c == ch[App]
<1> USE AppIsNoLoop DEF Threads
<1>1. /\ pc[App] \in StartLabels \ {"start_queue"} /\ started[c] /\ c \in Channels
      /\ UNCHANGED <<enabled, started, opened, mapped, streaming, gone, starts, ch,
                     chCount>>
      /\ pc'[App] \in StartLabels \cup {"idle"} /\ pc'[App] # "start_queue"
  BY DEF StartLoop, StartWait, StartMux, StartLoad, StartRef, At, Goto, Base,
         ThreadsInv, ThreadsOK, InRange, Books, StartsInTurn, StartLabels,
         Orderly, driver, client, flags, locals
<1>2. Muxed' = Muxed /\ \A f : FdStarted(f)' <=> FdStarted(f)
  BY <1>1, SameStarted
<1>3. IsMux(c) => c \in Muxed /\ Cardinality(Muxed) # 0
  <2>1. IsMux(c) => c \in Muxed
    BY <1>1 DEF Muxed
  <2> QED
    BY <2>1, MuxedFinite, FS_EmptySet DEF Base
<1>4. StopsInTurn' /\ DriverFollows' /\ DeinitsInTurn'
  BY <1>1, <1>2
  DEF Books, StopsInTurn, DriverFollows, DeinitsInTurn, Deiniting, StopLabels,
      StartLabels
<1>5. /\ StartsInTurn'
      /\ SharedOn'
      /\ Counted'
  <2>1. CASE StartLoop \/ StartWait
    <3>1. /\ pc[App] \in {"start_loop", "start_wait"}
          /\ pc'[App] \in {"start_wait", "start_mux", "idle"}
          /\ pc'[App] = "start_mux" => IsMux(c)
          /\ pc'[App] = "idle" => ~IsMux(c)
          /\ UNCHANGED <<muxStarted, refCount>>
      BY <2>1
      DEF StartLoop, StartWait, At, Goto, Base, ThreadsInv, ThreadsOK,
          Orderly, flags
    <3> QED
      BY <1>1, <1>2, <3>1
      DEF Books, StartsInTurn, SharedOn, Counted, Uncounted, StartLabels,
          StopLabels
  <2>2. CASE StartMux
    <3>1. /\ pc[App] = "start_mux" /\ pc'[App] = "start_load"
          /\ muxStarted' = TRUE /\ refCount' = refCount
      BY <2>2 DEF StartMux, At, Goto, Base, ThreadsInv, ThreadsOK
    <3> QED
      BY <1>1, <1>2, <1>3, <3>1
      DEF Books, StartsInTurn, SharedOn, Counted, Uncounted, StartLabels
  <2>3. CASE StartLoad
    <3>1. /\ pc[App] = "start_load" /\ pc'[App] = "start_ref"
          /\ reg'[App] = refCount /\ UNCHANGED <<muxStarted, refCount>>
      BY <2>3 DEF StartLoad, At, Goto, Base, ThreadsInv, ThreadsOK, flags
    <3> QED
      BY <1>1, <1>2, <3>1
      DEF Books, StartsInTurn, SharedOn, Counted, Uncounted, StartLabels
  <2>4. CASE StartRef
    <3>1. /\ pc[App] = "start_ref" /\ pc'[App] = "idle"
          /\ refCount' = reg[App] + 1 /\ UNCHANGED muxStarted
      BY <2>4 DEF StartRef, At, Goto, Base, ThreadsInv, ThreadsOK
    <3>2. refCount' = Cardinality(Muxed)
      BY <1>1, <3>1 DEF Books, StartsInTurn, Counted, Uncounted
    <3> QED
      BY <1>1, <1>2, <1>3, <3>1, <3>2
      DEF Books, StartsInTurn, SharedOn, Counted, Uncounted, StartLabels,
          StopLabels
  <2> QED
    BY <2>1, <2>2, <2>3, <2>4
<1> QED
  BY <1>4, <1>5 DEF Books

\* mxuvc_video_stop up to the test of the reference count.
LEMMA BooksStopCount ==
  ASSUME Base, Books,
         \/ \E c \in Channels : StopChannel(c)
         \/ StopEnter(App) \/ StopLoad(App) \/ StopDec(App)
  PROVE  Books'
<1> USE AppIsNoLoop DEF Threads
<1>1. UNCHANGED <<enabled, started, muxStarted, opened, mapped, streaming, gone,
                  starts, ch, chCount>>
  BY DEF StopChannel, StopEnter, StopLoad, StopDec, StopReturn, At, driver,
         client, flags, locals, Books, StopsInTurn, StopLabels
<1>2. Muxed' = Muxed /\ \A f : FdStarted(f)' <=> FdStarted(f)
  BY <1>1, SameStarted
<1>3. /\ pc[App] \in {"idle", "stop", "stop_load", "stop_dec"}
      /\ pc'[App] \in {"stop", "stop_load", "stop_dec", "stop_clear", "stop_flags"}
  BY DEF StopChannel, StopEnter, StopLoad, StopDec, At, Goto, CallStop, Base,
         ThreadsInv, ThreadsOK, Books, StopsInTurn, StopLabels
<1>4. ASSUME NEW c \in Channels, StopChannel(c) PROVE Books'
  <2>1. /\ pc[App] = "idle" /\ pc'[App] = "stop" /\ started[c] /\ enabled[c]
        /\ sch'[App] = c /\ sret'[App] = "idle" /\ UNCHANGED <<refCount, reg>>
    BY <1>4
    DEF StopChannel, At, Goto, CallStop, Base, ThreadsInv, ThreadsOK, flags
  <2> QED
    BY <1>1, <1>2, <2>1
    DEF Books, StartsInTurn, StopsInTurn, Counted, Uncounted, SharedOn,
        DriverFollows, DeinitsInTurn, Deiniting, StartLabels, StopLabels
<1>5. CASE StopEnter(App)
  <2>1. /\ pc[App] = "stop" /\ UNCHANGED <<sch, sret, reg, refCount>>
        /\ pc'[App] = IF IsMux(sch[App]) THEN "stop_load" ELSE "stop_flags"
    BY <1>5
    DEF StopEnter, At, Goto, Base, ThreadsInv, ThreadsOK, Books, StopsInTurn,
        StopLabels, stopArgs, flags
  <2>2. FdStarted(Fd(sch[App]))
    BY <2>1, FdStartedMux
    DEF Books, StopsInTurn, StopLabels, Base, ThreadsInv, ThreadsOK
  <2> QED
    BY <1>1, <1>2, <2>1, <2>2
    DEF Books, StartsInTurn, StopsInTurn, Counted, Uncounted, SharedOn,
        DriverFollows, DeinitsInTurn, Deiniting, StartLabels, StopLabels
<1>6. CASE StopLoad(App)
  <2>1. /\ pc[App] = "stop_load" /\ pc'[App] = "stop_dec"
        /\ reg'[App] = refCount /\ UNCHANGED <<sch, sret, refCount>>
    BY <1>6
    DEF StopLoad, At, Goto, Base, ThreadsInv, ThreadsOK, stopArgs, flags
  <2> QED
    BY <1>1, <1>2, <2>1
    DEF Books, StartsInTurn, StopsInTurn, Counted, Uncounted, SharedOn,
        DriverFollows, DeinitsInTurn, Deiniting, StartLabels, StopLabels
<1>7. CASE StopDec(App)
  <2>1. /\ pc[App] = "stop_dec" /\ pc'[App] = "stop_clear"
        /\ reg'[App] = reg[App] - 1 /\ refCount' = reg[App] - 1
        /\ UNCHANGED <<sch, sret>>
    BY <1>7 DEF StopDec, At, Goto, Base, ThreadsInv, ThreadsOK, stopArgs
  <2>2. reg[App] = refCount /\ refCount \in Int
    BY <2>1 DEF Books, Counted, Base, FlagsOK
  <2>3. Counted'
    BY <1>2, <2>1, <2>2 DEF Books, Counted, Uncounted, StartLabels
  <2> QED
    BY <1>1, <1>2, <2>1, <2>3
    DEF Books, StartsInTurn, StopsInTurn, SharedOn,
        DriverFollows, DeinitsInTurn, Deiniting, StartLabels, StopLabels
<1> QED
  BY <1>4, <1>5, <1>6, <1>7

\* Where a stop returns to.
LEMMA StopReturnsTo ==
  Base /\ pc[App] \in StopLabels => sret[App] \in {"idle", "deinit_close"}
  BY DEF Base, LoopInv, ThreadPlaces

\* The test of the reference count: the last mux channel goes on to stop the
\* stream, any other is done.
LEMMA BooksStopClear ==
  ASSUME Base, Books, StopClear(App)
  PROVE  Books'
<1> DEFINE c == sch[App]
<1> USE AppIsNoLoop DEF Threads
<1>1. /\ pc[App] = "stop_clear" /\ c \in Channels /\ started[c] /\ IsMux(c)
      /\ enabled[c] /\ starts[c] > 0
      /\ sret[App] = "deinit_close" => c = ch[App]
  BY DEF StopClear, At, Base, ThreadsInv, ThreadsOK, Books, StopsInTurn, StopLabels
<1>2. /\ started' = [started EXCEPT ![c] = FALSE]
      /\ UNCHANGED <<enabled, muxStarted, refCount, opened, mapped, streaming,
                     gone, ch, starts, chCount>>
      /\ IF refCount # 0
           THEN pc'[App] = sret[App]
           ELSE pc'[App] = "stop_flags" /\ UNCHANGED <<sch, sret>>
  BY DEF StopClear, Goto, StopReturn, Base, ThreadsInv, ThreadsOK, driver,
         client, Books, Counted, At, stopArgs
<1>3. /\ ~started'[c] /\ started' \in [Channels -> BOOLEAN]
      /\ \A d \in Channels \ {c} : started'[d] = started[d]
  BY <1>1, <1>2 DEF Base, FlagsOK
<1>4. /\ Muxed' = Muxed \ {c} /\ Cardinality(Muxed)' = refCount
      /\ Muxed' = {} <=> refCount = 0
  <2>1. Cardinality(Muxed) = refCount + 1
    BY <1>1 DEF Books, Counted, Uncounted
  <2>2. Muxed' = IF FALSE /\ IsMux(c) THEN Muxed \cup {c} ELSE Muxed \ {c}
    BY <1>1, <1>2, MuxedSet DEF Base
  <2>3. Cardinality(Muxed \ {c}) = Cardinality(Muxed) - 1
    BY <1>1, MuxedFinite, FS_RemoveElement DEF Base, Muxed
  <2>4. refCount \in Int
    BY DEF Base, FlagsOK
  <2>5. Muxed' = {} <=> Cardinality(Muxed') = 0
    BY <2>2, MuxedFinite, FS_RemoveElement, FS_EmptySet DEF Base
  <2> QED
    BY <2>1, <2>2, <2>3, <2>4, <2>5
<1>5. \A f \in Fds :
        FdStarted(f)' <=> IF f = Fd(c) THEN refCount # 0 ELSE FdStarted(f)
  <2>1. \A d \in Channels : Fd(d) = Fd(c) /\ started'[d] <=> d \in Muxed'
    BY <1>1, <1>3, FdShared DEF Muxed
  <2>2. (\E d \in Channels : Fd(d) = Fd(c) /\ started'[d]) <=> refCount # 0
    BY <1>4, <2>1 DEF Muxed
  <2>3. \A d \in Channels : Fd(d) # Fd(c) => started'[d] = started[d]
    BY <1>3
  <2> QED
    BY <2>2, <2>3 DEF FdStarted
<1>6. FdStarted(Fd(c))
  BY <1>1 DEF FdStarted
<1>7. DriverFollows'
  <2>1. CASE refCount # 0
    <3>1. pc'[App] \in {"idle", "deinit_close"}
      BY <1>1, <1>2, <2>1, StopReturnsTo DEF StopLabels
    <3>2. \A f \in Fds : FdStarted(f)' <=> FdStarted(f)
      BY <1>5, <1>6, <2>1
    <3> QED
      BY <1>1, <1>2, <3>1, <3>2 DEF Books, DriverFollows
  <2>2. CASE refCount = 0
    BY <1>1, <1>2, <1>5, <1>6, <2>2 DEF Books, DriverFollows
  <2> QED
    BY <2>1, <2>2 DEF Base, FlagsOK
<1>8. ASSUME refCount # 0 PROVE Books'
  <2>1. pc'[App] = sret[App] /\ sret[App] \in {"idle", "deinit_close"}
    BY <1>1, <1>2, <1>8, StopReturnsTo DEF StopLabels
  <2>2. StartsInTurn' /\ StopsInTurn' /\ Counted' /\ SharedOn'
    BY <1>1, <1>2, <1>3, <1>4, <1>8, <2>1
    DEF Books, StartsInTurn, StopsInTurn, Counted, Uncounted, SharedOn,
        StartLabels, StopLabels
  <2>3. DeinitsInTurn'
    BY <1>1, <1>2, <1>3, <2>1 DEF Books, DeinitsInTurn, Deiniting, StopLabels
  <2> QED
    BY <1>7, <2>2, <2>3 DEF Books
<1>9. ASSUME refCount = 0 PROVE Books'
  <2>1. pc'[App] = "stop_flags" /\ UNCHANGED <<sch, sret>>
    BY <1>2, <1>9
  <2>2. StartsInTurn' /\ StopsInTurn' /\ Counted' /\ SharedOn'
    BY <1>1, <1>2, <1>3, <1>4, <1>9, <2>1
    DEF Books, StartsInTurn, StopsInTurn, Counted, Uncounted, SharedOn,
        StartLabels, StopLabels
  <2>3. DeinitsInTurn'
    BY <1>1, <1>2, <1>3, <2>1 DEF Books, DeinitsInTurn, Deiniting, StopLabels
  <2> QED
    BY <1>7, <2>2, <2>3 DEF Books
<1> QED
  BY <1>8, <1>9

\* The rest of mxuvc_video_stop takes the channel off the driver.
LEMMA BooksStopFlags ==
  ASSUME Base, Books, StopFlags(App)
  PROVE  Books'
<1> DEFINE c == sch[App]
<1> USE AppIsNoLoop DEF Threads
<1>1. /\ pc[App] = "stop_flags" /\ c \in Channels
      /\ enabled[c] /\ starts[c] > 0
      /\ sret[App] = "deinit_close" => c = ch[App]
      /\ IF IsMux(c) THEN Muxed = {} ELSE started[c]
  BY DEF StopFlags, At, Base, ThreadsInv, ThreadsOK, Books, StopsInTurn, StopLabels
<1>2. /\ started' = [started EXCEPT ![c] = FALSE]
      /\ muxStarted' = (muxStarted /\ ~IsMux(c))
      /\ pc'[App] = "stop_stream"
      /\ UNCHANGED <<enabled, refCount, opened, mapped, streaming, gone, ch,
                     starts, sch, sret, chCount>>
  BY DEF StopFlags, Goto, Base, ThreadsInv, ThreadsOK, driver, client, locals,
         stopArgs
<1>3. /\ ~started'[c] /\ started' \in [Channels -> BOOLEAN]
      /\ \A d \in Channels \ {c} : started'[d] = started[d]
  BY <1>1, <1>2 DEF Base, FlagsOK
<1>4. Muxed' = Muxed
  BY <1>1, <1>3 DEF Muxed
<1>5. \A f : FdStarted(f)' <=> f # Fd(c) /\ FdStarted(f)
  <2>1. \A d \in Channels : Fd(d) = Fd(c) => ~started'[d]
    BY <1>1, <1>3, FdShared DEF Muxed
  <2> QED
    BY <1>3, <2>1 DEF FdStarted
<1>6. Fd(sch[App])' = Fd(c)
  BY <1>2
<1>7. StartsInTurn' /\ StopsInTurn'
  BY <1>1, <1>2, <1>3, <1>5, <1>6
  DEF Books, StartsInTurn, StopsInTurn, StartLabels, StopLabels
<1>8. Counted' /\ SharedOn'
  BY <1>1, <1>2, <1>4
  DEF Books, Counted, Uncounted, SharedOn, StartLabels
<1>9. DriverFollows'
  BY <1>1, <1>2, <1>5, <1>6 DEF Books, DriverFollows, Fds
<1>10. DeinitsInTurn'
  BY <1>1, <1>2, <1>3 DEF Books, DeinitsInTurn, Deiniting, StopLabels
<1> QED
  BY <1>7, <1>8, <1>9, <1>10 DEF Books

\* STREAMOFF ends the stream of a device none of whose channels is started.
LEMMA BooksStopStream ==
  ASSUME Base, Books, StopStream(App)
  PROVE  Books'
<1> USE AppIsNoLoop DEF Threads
<1>1. /\ pc[App] = "stop_stream" /\ pc'[App] = "stop_unmap"
      /\ streaming' = streaming \ {Fd(sch[App])}
      /\ UNCHANGED <<enabled, started, muxStarted, refCount, opened, mapped, gone,
                     ch, starts, sch, sret, chCount>>
  BY DEF StopStream, At, Goto, Base, ThreadsInv, ThreadsOK, flags, client, locals,
         stopArgs
<1>2. Muxed' = Muxed /\ \A f : FdStarted(f)' <=> FdStarted(f)
  BY <1>1, SameStarted
<1>3. DriverFollows'
  BY <1>1, <1>2 DEF Books, DriverFollows, StopsInTurn, StopLabels
<1> QED
  BY <1>1, <1>2, <1>3
  DEF Books, StartsInTurn, StopsInTurn, Counted, Uncounted, SharedOn,
      DeinitsInTurn, Deiniting, StartLabels, StopLabels

\* stop gives the buffers back once the stream is off.
LEMMA BooksStopUnmap ==
  ASSUME Base, Books, StopUnmap(App)
  PROVE  Books'
<1> DEFINE c == sch[App]
<1> USE AppIsNoLoop DEF Threads
<1>1. /\ pc[App] = "stop_unmap" /\ c \in Channels /\ enabled[c]
      /\ ~FdStarted(Fd(c))
      /\ sret[App] = "deinit_close" => c = ch[App]
      /\ sret[App] \in {"idle", "deinit_close"}
  BY StopReturnsTo
  DEF StopUnmap, At, Base, ThreadsInv, ThreadsOK, Books, StopsInTurn, StopLabels
<1>2. IsMux(c) => Muxed = {} /\ refCount = 0
  <2>1. IsMux(c) => Muxed = {}
    BY <1>1, FdStartedMux
  <2>2. Cardinality(Muxed) = refCount
    BY <1>1 DEF Books, Counted, Uncounted, StartLabels
  <2> QED
    BY <2>1, <2>2, FS_EmptySet
<1>3. /\ pc'[App] = sret[App]
      /\ mapped' = mapped \ {Fd(c)}
      /\ UNCHANGED <<enabled, started, muxStarted, refCount, opened, streaming,
                     gone, ch, starts, chCount>>
  BY <1>1, <1>2
  DEF StopUnmap, Goto, StopReturn, Base, ThreadsInv, ThreadsOK, flags, client
<1>4. Muxed' = Muxed /\ \A f : FdStarted(f)' <=> FdStarted(f)
  BY <1>3, SameStarted
<1>5. DriverFollows'
  BY <1>1, <1>3, <1>4 DEF Books, DriverFollows
<1>6. DeinitsInTurn'
  BY <1>1, <1>3 DEF Books, DeinitsInTurn, Deiniting, StopLabels, FdStarted
<1> QED
  BY <1>1, <1>3, <1>4, <1>5, <1>6
  DEF Books, StartsInTurn, StopsInTurn, Counted, Uncounted, SharedOn,
      StartLabels, StopLabels

\* mxuvc_video_deinit.
LEMMA BooksDeinit ==
  ASSUME Base, Books, Deinit \/ DeinitChannel
  PROVE  Books'
<1> USE AppIsNoLoop, ChannelFacts DEF Threads
<1>1. UNCHANGED <<enabled, started, muxStarted, refCount, opened, mapped,
                  streaming, gone, starts>>
  BY DEF Deinit, DeinitChannel, driver, client, flags
<1>0. chCount' = NumChannels
  BY DEF Deinit, DeinitChannel, ChannelCounts, client, Books, DriverFollows,
         DeinitsInTurn
<1>2. Muxed' = Muxed /\ \A f : FdStarted(f)' <=> FdStarted(f)
  BY <1>1, SameStarted
<1>3. CASE Deinit
  <2>1. pc[App] = "idle" /\ pc'[App] = "deinit" /\ ch'[App] = 0
    BY <1>0, <1>3, VideoAssumption
    DEF Deinit, At, Goto, Base, ThreadsInv, ThreadsOK, VideoAssumption
  <2>2. DeinitsInTurn'
    <3>1. \A d \in Channels : d >= 0
      OBVIOUS
    <3> QED
      BY <1>0, <1>1, <2>1, <3>1
      DEF Books, DeinitsInTurn, Deiniting, StopLabels, Fds
  <2> QED
    BY <1>1, <1>2, <2>1, <2>2
    DEF Books, StartsInTurn, StopsInTurn, Counted, Uncounted, SharedOn,
        DriverFollows, StartLabels, StopLabels
<1>4. CASE DeinitChannel
  <2>1. /\ pc[App] = "deinit" /\ UNCHANGED <<ch, reg>> /\ ch[App] \in Channels
        /\ IF started[ch[App]]
             THEN /\ pc'[App] = "stop" /\ sch'[App] = ch[App]
                  /\ sret'[App] = "deinit_close"
             ELSE pc'[App] = "deinit_close"
    BY <1>4
    DEF DeinitChannel, At, Goto, CallStop, Base, ThreadsInv, ThreadsOK, InRange
  <2>2. started[ch[App]] => enabled[ch[App]] /\ starts[ch[App]] > 0
    BY <2>1 DEF Books, DeinitsInTurn, StartsInTurn
  <2> QED
    BY <1>0, <1>1, <1>2, <2>1, <2>2
    DEF Books, StartsInTurn, StopsInTurn, Counted, Uncounted, SharedOn,
        DriverFollows, DeinitsInTurn, Deiniting, StartLabels, StopLabels
<1> QED
  BY <1>3, <1>4

\* deinit closes the device of a channel, that of the mux once no stream is left.
LEMMA BooksDeinitClose ==
  ASSUME Base, Books, DeinitClose
  PROVE  Books'
<1> DEFINE c == ch[App]
<1> USE AppIsNoLoop, ChannelFacts DEF Threads
<1>1. /\ pc[App] = "deinit_close" /\ c \in Channels /\ ~started[c]
      /\ \A d \in Channels : enabled[d] <=> d >= c
      /\ \A d \in Channels : started[d] => enabled[d] /\ Fd(d) \in opened
      /\ \A f \in opened : \E d \in Channels : d >= c /\ Fd(d) = f
  BY DEF DeinitClose, At, Base, ThreadsInv, InRange, Books, DeinitsInTurn, Deiniting
<1>0. chCount = NumChannels /\ chCount' = NumChannels
  BY DEF Books, DeinitsInTurn, DeinitClose, client
<1>2. /\ enabled' = [enabled EXCEPT ![c] = FALSE]
      /\ opened' = IF IsMux(c) /\ refCount # 0 THEN opened ELSE opened \ {Fd(c)}
      /\ IF c + 1 < NumChannels
           THEN ch'[App] = c + 1 /\ pc'[App] = "deinit"
           ELSE pc'[App] = "finished"
      /\ UNCHANGED <<started, muxStarted, refCount, mapped, streaming, gone, starts>>
  BY <1>0 DEF DeinitClose, Goto, Base, ThreadsInv, ThreadsOK, client
<1>3. Muxed' = Muxed /\ \A f : FdStarted(f)' <=> FdStarted(f)
  BY <1>2, SameStarted
<1>4. Cardinality(Muxed) = refCount
  BY <1>1 DEF Books, Counted, Uncounted, StartLabels
<1>5. /\ ~(c > c)
      /\ \A d \in Channels :
           (d # c => (d >= c <=> d > c)) /\ (d > c <=> d >= c + 1)
  BY <1>1, ChannelOrder
<1>6. /\ \A d \in Channels : started'[d] => d > c
      /\ \A d \in Channels : enabled'[d] <=> d > c
  <2>1. /\ ~enabled'[c] /\ ~(c > c)
        /\ \A d \in Channels \ {c} : enabled'[d] = enabled[d]
    BY <1>1, <1>2, <1>5 DEF Base, FlagsOK
  <2> QED
    BY <1>1, <1>2, <1>5, <2>1
<1>7. \A d \in Channels : started'[d] => enabled'[d] /\ Fd(d) \in opened'
  <2> SUFFICES ASSUME NEW d \in Channels, started[d] PROVE Fd(d) \in opened'
    BY <1>2, <1>6
  <2>1. Fd(d) = Fd(c) => IsMux(c) /\ d \in Muxed
    BY <1>1, FdShared DEF Muxed
  <2>2. Fd(d) = Fd(c) => refCount # 0
    BY <2>1, <1>4, MuxedFinite, FS_EmptySet DEF Base
  <2> QED
    BY <1>1, <1>2, <2>1, <2>2
<1>8. \A f \in opened' : \E d \in Channels : d > c /\ Fd(d) = f
  <2> SUFFICES ASSUME NEW f \in opened' PROVE \E d \in Channels : d > c /\ Fd(d) = f
    OBVIOUS
  <2>1. CASE IsMux(c) /\ refCount # 0 /\ f = Fd(c)
    <3>1. Muxed # {}
      BY <1>4, <2>1, FS_EmptySet
    <3>2. PICK d \in Channels : IsMux(d) /\ started[d]
      BY <3>1 DEF Muxed
    <3> QED
      BY <1>1, <1>2, <1>6, <2>1, <3>2, FdShared
  <2>2. CASE f # Fd(c)
    <3>1. PICK d \in Channels : d >= c /\ Fd(d) = f
      BY <1>1, <1>2
    <3> QED
      BY <1>1, <1>5, <2>2, <3>1
  <2> QED
    BY <1>2, <2>1, <2>2
<1>9. DeinitsInTurn'
  <2>1. CASE c + 1 < NumChannels
    <3>1. \A d \in Channels : d > c <=> d >= c + 1
      BY <1>5
    <3> QED
      BY <1>0, <1>2, <1>6, <1>7, <1>8, <2>1, <3>1
      DEF DeinitsInTurn, Deiniting, StopLabels
  <2>2. CASE ~(c + 1 < NumChannels)
    <3>1. \A d \in Channels : ~(d > c)
      BY <1>1, <2>2, VideoAssumption DEF VideoAssumption, Channels
    <3> QED
      BY <1>0, <1>2, <1>6, <1>7, <1>8, <2>2, <3>1
      DEF DeinitsInTurn, Deiniting, StopLabels
  <2> QED
    BY <2>1, <2>2
<1> QED
  BY <1>1, <1>2, <1>3, <1>9
  DEF Books, StartsInTurn, StopsInTurn, Counted, Uncounted, SharedOn,
      DriverFollows, StartLabels, StopLabels

\* With the right count deinit does not leave video_stream[].
LEMMA NothingBeyond == Books /\ DeinitNext => DeinitClose
  BY VideoAssumption DEF Books, DeinitsInTurn, DeinitNext, DeinitBeyond, VideoAssumption

\* All of the application's steps.
LEMMA BooksAppStep ==
  ASSUME Base, Orderly, Books, WithClient, AppCall \/ AppStep
  PROVE  Books'
<1>1. CASE AppCall
  BY <1>1, BooksStartChannel, BooksStopCount, BooksDeinit DEF AppCall
<1>2. CASE AppStep
  BY <1>2, BooksStartQueue, BooksStartRest, BooksStopCount, BooksStopClear,
     BooksStopFlags, BooksStopStream, BooksStopUnmap, BooksDeinit,
     BooksDeinitClose, NothingBeyond
  DEF AppStep, Stop
<1> QED
  BY <1>1, <1>2
-----------------------------------------------------------------------------
(* The event threads: what the application and the camera do around them. *)

\* A step of the application or the camera leaves an event thread where it is
\* with what it has in hand.  A channel that was marked as started stays so;
\* once one is stopped none is started; and on a descriptor with a channel that
\* was started, a buffer outside the queues stays outside and, as long as it
\* streams, a frame stays until it is taken.
Outside ==
  /\ \A l \in Loops :
       /\ pc'[l] = pc[l] \/ pc'[l] = "born"
       /\ ch'[l] = ch[l] /\ ready'[l] = ready[l] /\ buf'[l] = buf[l]
       /\ sch'[l] = sch[l] /\ sret'[l] = sret[l]
       /\ bch'[l] = bch[l] /\ bidx'[l] = bidx[l]
  /\ held' = held
  /\ \A c \in Channels : Begun(c) => Begun(c)'
  /\ Stopping => \A c \in Channels : started'[c] => started[c]
  /\ \A f \in Fds :
       IF FdBegun(f)
         THEN /\ f \in streaming' => f \in streaming
              /\ \A b \in Buffers :
                   /\ bufs[f][b] = "user" => bufs'[f][b] = "user"
                   /\ bufs[f][b] = "done" /\ f \in streaming' =>
                        bufs'[f][b] = "done"
         ELSE FdBegun(f)' \/ \A b \in Buffers : bufs'[f][b] = "user"

\* What happens outside the event threads leaves them what they hold.
LEMMA OutsideKeepsHands ==
  ASSUME Base, Base', Books, Hands, Outside PROVE Hands'
<1>1. \A f \in Fds : FdBegun(f) => FdBegun(f)'
  BY DEF Outside, FdBegun
<1>2. \A l \in Loops :
        /\ ch'[l] = ch[l] /\ ready'[l] = ready[l] /\ buf'[l] = buf[l]
        /\ sch'[l] = sch[l] /\ sret'[l] = sret[l]
        /\ bch'[l] = bch[l] /\ bidx'[l] = bidx[l]
        /\ pc'[l] = pc[l] \/ pc'[l] = "born"
  BY DEF Outside
<1>3. \A l \in Loops : Handling(l)' => Handling(l)
  BY <1>2 DEF Handling
<1>4. \A l \in Loops : StopVain(l)'
  <2>1. ASSUME NEW l \in Loops, pc'[l] \in StopLabels
        PROVE  pc'[l] = "stop" /\ ~started'[sch'[l]] /\ Stopping'
    <3>1. pc'[l] = pc[l] /\ sch'[l] = sch[l] /\ sch[l] \in Channels
      BY <1>2, <2>1 DEF StopLabels, Base, ThreadsInv, ThreadsOK, Threads
    <3>2. pc[l] = "stop" /\ ~started[sch[l]] /\ Stopping
      BY <2>1, <3>1 DEF Hands, AtHand, StopVain
    <3>3. Stopping'
      BY <3>2 DEF Outside, Stopping
    <3>4. started' \in [Channels -> BOOLEAN] /\ started \in [Channels -> BOOLEAN]
      BY DEF Base, FlagsOK
    <3> QED
      BY <3>1, <3>2, <3>3, <3>4 DEF Outside
  <2> QED
    BY <2>1 DEF StopVain
<1>5. \A l \in Loops : OnBegun(l)'
  <2>1. ASSUME NEW l \in Loops
        PROVE  \A f \in ready'[l] : FdBegun(f)'
    <3>1. ready[l] \subseteq Fds
      BY DEF Base, ThreadsInv, ThreadsOK
    <3> QED
      BY <1>1, <1>2, <3>1 DEF Hands, AtHand, OnBegun
  <2>2. ASSUME NEW l \in Loops, pc'[l] \in {"check", "dqbuf"} \/ Handling(l)'
        PROVE  Begun(ch[l])'
    <3>1. Begun(ch[l])
      BY <1>2, <1>3, <2>2 DEF Hands, AtHand, OnBegun
    <3>2. ch[l] \in Channels /\ ch'[l] = ch[l]
      BY <1>2, <1>3, <2>2
      DEF Base, ThreadsInv, InRange, Handling, StopLabels
    <3> QED
      BY <3>1, <3>2 DEF Outside, Begun
  <2>3. ASSUME NEW l \in Loops,
               \/ pc'[l] \in {"cb_read", "cb", "done", "done_qbuf"}
               \/ pc'[l] = "stop" /\ sret'[l] = "cb"
        PROVE  Fd(bch'[l]) = Fd(ch'[l])
    BY <1>2, <2>3 DEF Hands, AtHand, OnBegun
  <2>4. ASSUME NEW l \in Loops, pc'[l] \in {"check", "dqbuf"}
        PROVE  Fd(ch'[l]) \in ready'[l]
    BY <1>2, <2>4 DEF Hands, AtHand, OnBegun
  <2> QED
    BY <2>1, <2>2, <2>3, <2>4 DEF OnBegun
<1>6. \A l \in Loops : Handling(l) =>
        /\ FdBegun(Fd(ch[l])) /\ Fd(ch[l]) \in Fds
        /\ pc[l] \in {"done", "done_qbuf"} => Fd(bch[l]) = Fd(ch[l])
  BY ChannelFacts
  DEF Hands, AtHand, OnBegun, FdBegun, Handling, Base, ThreadsInv, InRange, StopLabels
<1>7. \A f \in Fds : FdBegun(f) =>
        \A b \in Buffers : bufs[f][b] = "user" => bufs'[f][b] = "user"
  BY DEF Outside
<1>8. \A l \in Loops : FrameInHand(l)'
  <2> SUFFICES ASSUME NEW l \in Loops
               PROVE  /\ \/ pc'[l] \in {"handle", "cb_read"}
                         \/ ~IpcamMode /\ pc'[l] \in {"cb", "final", "qbuf"}
                         => buf[l] \in Buffers /\ bufs'[Fd(ch[l])][buf[l]] = "user"
                      /\ pc'[l] \in {"done", "done_qbuf"} =>
                           /\ IpcamMode /\ bidx[l] \in Buffers
                           /\ bufs'[Fd(bch[l])][bidx[l]] = "user"
                      /\ pc'[l] = "qbuf" => ~IpcamMode
                      /\ pc'[l] = "stop" => IpcamMode \/ sret[l] = "next"
                      /\ pc'[l] = "done_qbuf" => bidx[l] \notin held[Fd(bch[l])]
    BY <1>2 DEF FrameInHand, Outside
  <2> QED
    BY <1>2, <1>6, <1>7 DEF Hands, AtHand, FrameInHand, Handling
<1>9. WithClient'
  <2> SUFFICES ASSUME NEW f \in Fds
               PROVE  /\ \A b \in held[f] : bufs'[f][b] = "user"
                      /\ ~IpcamMode => held[f] = {}
                      /\ ~FdBegun(f)' =>
                           held[f] = {} /\ \A b \in Buffers : bufs'[f][b] = "user"
    BY DEF WithClient, Outside
  <2>1. held[f] \subseteq Buffers
    BY DEF Base, ThreadsInv
  <2>2. /\ \A b \in held[f] : bufs[f][b] = "user"
        /\ ~IpcamMode => held[f] = {}
        /\ ~FdBegun(f) => held[f] = {}
    BY DEF Hands, WithClient
  <2>3. ~FdBegun(f)' => ~FdBegun(f) /\ \A b \in Buffers : bufs'[f][b] = "user"
    BY <1>1 DEF Outside
  <2> QED
    BY <1>7, <2>1, <2>2, <2>3
<1>10. \A l \in Loops : FramesLeft(l)'
  <2> SUFFICES ASSUME NEW l \in Loops, NEW c \in Channels,
                      pc'[l] \in {"pass", "check", "dqbuf", "next", "stop"} \/ Handling(l)',
                      c >= FirstLeft(l)', Fd(c) \in ready'[l], Fd(c) \in streaming'
               PROVE  \E b \in Buffers : bufs'[Fd(c)][b] = "done"
    BY DEF FramesLeft
  <2>1. pc'[l] = pc[l]
    BY <1>2 DEF Handling
  <2>2. FirstLeft(l)' = FirstLeft(l)
    BY <1>2, <2>1 DEF FirstLeft, Handling, AfterFrame, IsMux
  <2>3. FdBegun(Fd(c)) /\ Fd(c) \in Fds
    BY <1>2, ChannelFacts DEF Hands, AtHand, OnBegun
  <2>4. Fd(c) \in streaming
    BY <2>3 DEF Outside
  <2>5. \E b \in Buffers : bufs[Fd(c)][b] = "done"
    BY <1>2, <1>3, <2>1, <2>2, <2>4 DEF Hands, AtHand, FramesLeft
  <2> QED
    BY <2>3, <2>5 DEF Outside
<1> QED
  BY <1>4, <1>5, <1>8, <1>9, <1>10 DEF Hands, AtHand

\* The driver streams only for channels that were marked as started.
LEMMA StreamingBegun ==
  ASSUME Base, Books, NEW f \in Fds, f \in streaming PROVE FdBegun(f)
<1>1. CASE FdStarted(f)
  BY <1>1 DEF Books, StartsInTurn, StartLabels, FdStarted, FdBegun, Begun
<1>2. CASE pc[App] \in {"stop_flags", "stop_stream"} /\ Fd(sch[App]) = f
  BY <1>2 DEF Books, StopsInTurn, StopLabels, FdBegun, Begun, Base, ThreadsInv,
              ThreadsOK, Threads
<1> QED
  BY <1>1, <1>2 DEF Books, DriverFollows

\* The camera fills queued buffers, which no event thread holds.
LEMMA CameraOutside ==
  ASSUME Base, Orderly, Books, Hands, Camera PROVE Outside
<1>1. PICK f \in Fds : Fill(f)
  BY DEF Camera, Unplug, Orderly
<1>2. PICK b \in Buffers :
        bufs[f][b] = "queued" /\ bufs' = [bufs EXCEPT ![f][b] = "done"]
  BY <1>1 DEF Fill
<1>3. FdBegun(f)
  BY <1>1, StreamingBegun DEF Fill
<1>4. \A g \in Fds, a \in Buffers :
        bufs'[g][a] = IF g = f /\ a = b THEN "done" ELSE bufs[g][a]
  BY <1>2 DEF Base, DriverOK
<1>5. \A c \in Channels : Begun(c)' <=> Begun(c)
  BY <1>1 DEF Fill, Begun, client, locals
<1> QED
  BY <1>1, <1>2, <1>3, <1>4, <1>5
  DEF Outside, Fill, flags, client, locals, stopArgs, doneArgs, Hands, WithClient

\* A step of the application does not touch what the event threads work with.
LEMMA AppLeavesLoops ==
  ASSUME Base, Orderly, Books, AppCall \/ AppStep
  PROVE  /\ \A l \in Loops :
              /\ pc'[l] = pc[l] \/ pc'[l] = "born"
              /\ ch'[l] = ch[l] /\ ready'[l] = ready[l] /\ buf'[l] = buf[l]
              /\ sch'[l] = sch[l] /\ sret'[l] = sret[l]
              /\ bch'[l] = bch[l] /\ bidx'[l] = bidx[l]
         /\ held' = held
<1> USE AppIsNoLoop
    DEF Base, ThreadsInv, ThreadsOK, Threads, Goto, At, client, locals, stopArgs,
        doneArgs, CallStop, StopReturn
<1>1. ASSUME NEW c \in Channels, StartChannel(c) \/ StopChannel(c)
      PROVE  /\ \A l \in Loops :
                  /\ pc'[l] = pc[l]
                  /\ ch'[l] = ch[l] /\ ready'[l] = ready[l] /\ buf'[l] = buf[l]
                  /\ sch'[l] = sch[l] /\ sret'[l] = sret[l]
                  /\ bch'[l] = bch[l] /\ bidx'[l] = bidx[l]
             /\ held' = held
  BY <1>1 DEF StartChannel, StopChannel
<1>2. CASE Deinit \/ DeinitChannel \/ DeinitClose
  BY <1>2 DEF Deinit, DeinitChannel, DeinitClose
<1>8. DeinitNext => DeinitClose
  BY NothingBeyond
<1>3. CASE StartQueue \/ StartWait \/ StartMux \/ StartLoad \/ StartRef
  BY <1>3 DEF StartQueue, StartWait, StartMux, StartLoad, StartRef
<1>4. CASE StartLoop
  BY <1>4 DEF StartLoop, Orderly
<1>5. CASE StopEnter(App) \/ StopLoad(App) \/ StopDec(App) \/ StopFlags(App)
  BY <1>5 DEF StopEnter, StopLoad, StopDec, StopFlags
<1>6. CASE StopClear(App)
  BY <1>6 DEF StopClear
<1>7. CASE StopStream(App) \/ StopUnmap(App)
  BY <1>7 DEF StopStream, StopUnmap
<1> QED
  BY <1>1, <1>2, <1>3, <1>4, <1>5, <1>6, <1>7, <1>8 DEF AppCall, AppStep, Stop

\* What a step of the application does to the books: only StartChannel goes to
\* start_queue, and only StartQueue raises a flag of a channel.
LEMMA AppMarks ==
  ASSUME Base, Orderly, Books, AppCall \/ AppStep
  PROVE  /\ \A c \in Channels : Begun(c) => Begun(c)'
         /\ Stopping => \A c \in Channels : started'[c] => started[c]
<1> USE AppIsNoLoop DEF Threads, Goto, At
<1>1. ASSUME NEW c \in Channels, StartChannel(c)
      PROVE  /\ \A d \in Channels : Begun(d) => Begun(d)'
             /\ started' = started
  <2>1. /\ starts[c] = 0 /\ started' = started /\ starts \in [Channels -> Nat]
        /\ starts' = [starts EXCEPT ![c] = @ + 1] /\ pc[App] = "idle"
        /\ ch'[App] = c
    BY <1>1
    DEF StartChannel, MayStart, Orderly, flags, Base, ThreadsInv, ThreadsOK
  <2> QED
    BY <2>1 DEF Begun
<1>2. CASE StartQueue
  <2>1. /\ ~Stopping /\ starts' = starts /\ pc[App] = "start_queue"
        /\ pc'[App] # "start_queue"
    BY <1>2 DEF StartQueue, Base, ThreadsInv, ThreadsOK, client, Stopping, Begun,
                Books, StartsInTurn, StartLabels
  <2> QED
    BY <2>1 DEF Begun
<1>3. ASSUME starts' = starts, pc[App] # "start_queue", pc'[App] # "start_queue",
             \A c \in Channels : started'[c] => started[c]
      PROVE  /\ \A c \in Channels : Begun(c) => Begun(c)'
             /\ Stopping => \A c \in Channels : started'[c] => started[c]
  BY <1>3 DEF Begun
<1>4. ASSUME NEW c \in Channels, StopChannel(c)
      PROVE  /\ starts' = starts /\ pc[App] # "start_queue"
             /\ pc'[App] # "start_queue" /\ started' = started
  BY <1>4 DEF StopChannel, CallStop, Base, ThreadsInv, ThreadsOK, client, flags
<1>5. CASE \/ Deinit \/ DeinitChannel \/ DeinitClose
           \/ StartLoop \/ StartWait \/ StartMux \/ StartLoad \/ StartRef
  <2>1. /\ starts' = starts /\ pc[App] # "start_queue"
        /\ pc'[App] # "start_queue" /\ started' = started
    BY <1>5
    DEF Deinit, DeinitChannel, DeinitClose, StartLoop, StartWait, StartMux,
        StartLoad, StartRef, CallStop, Base, ThreadsInv, ThreadsOK, client, flags
  <2> QED
    BY <1>3, <2>1
<1>6. CASE Stop(App)
  <2>1. starts' = starts /\ pc[App] \in StopLabels
    BY <1>6
    DEF Stop, StopEnter, StopLoad, StopDec, StopClear, StopFlags, StopStream,
        StopUnmap, client, StopLabels
  <2>2. pc'[App] # "start_queue"
    BY <1>6, <2>1, StopReturnsTo
    DEF Stop, StopEnter, StopLoad, StopDec, StopClear, StopFlags, StopStream,
        StopUnmap, StopReturn, Base, ThreadsInv, ThreadsOK
  <2>3. \A c \in Channels : started'[c] => started[c]
    BY <1>6
    DEF Stop, StopEnter, StopLoad, StopDec, StopClear, StopFlags, StopStream,
        StopUnmap, flags, Base, FlagsOK
  <2> QED
    BY <1>3, <2>1, <2>2, <2>3 DEF StopLabels
<1> QED
  BY <1>1, <1>2, <1>3, <1>4, <1>5, <1>6, NothingBeyond DEF AppCall, AppStep

\* What it does to the buffers: only a start that does not join and the end of a
\* stop write them.
LEMMA AppBuffers ==
  ASSUME Base, Orderly, Books, Hands, AppCall \/ AppStep
  PROVE  \A f \in Fds :
           IF FdBegun(f)
             THEN /\ f \in streaming' => f \in streaming
                  /\ \A b \in Buffers :
                       /\ bufs[f][b] = "user" => bufs'[f][b] = "user"
                       /\ bufs[f][b] = "done" /\ f \in streaming' =>
                            bufs'[f][b] = "done"
             ELSE FdBegun(f)' \/ \A b \in Buffers : bufs'[f][b] = "user"
<1> SUFFICES ASSUME NEW f \in Fds
             PROVE  IF FdBegun(f)
                      THEN /\ f \in streaming' => f \in streaming
                           /\ \A b \in Buffers :
                                /\ bufs[f][b] = "user" => bufs'[f][b] = "user"
                                /\ bufs[f][b] = "done" /\ f \in streaming' =>
                                     bufs'[f][b] = "done"
                      ELSE FdBegun(f)' \/ \A b \in Buffers : bufs'[f][b] = "user"
  OBVIOUS
<1>1. ~FdBegun(f) => \A b \in Buffers : bufs[f][b] = "user"
  BY DEF Hands, WithClient
<1>2. \/ /\ f \in streaming' => f \in streaming
         /\ \/ bufs'[f] = bufs[f]
            \/ f \notin streaming' /\ \A b \in Buffers : bufs'[f][b] = "user"
      \/ ~FdBegun(f) /\ FdBegun(f)'
  <2>1. ASSUME NEW c \in Channels, StartChannel(c)
        PROVE  /\ streaming' = streaming
               /\ \/ bufs'[f] = bufs[f]
                  \/ f \notin streaming' /\ \A b \in Buffers : bufs'[f][b] = "user"
    BY <2>1, StartChannelGoesOn
    DEF StartChannel, InitMmap, CanMap, Base, DriverOK
  <2>2. CASE StartQueue
    <3>1. pc[App] = "start_queue" /\ ch[App] \in Channels
      BY <2>2 DEF StartQueue, At, Base, ThreadsInv, InRange
    <3>2. CASE Joins(ch[App])
      BY <2>2, <3>2 DEF StartQueue
    <3>3. CASE ~Joins(ch[App])
      <4>1. /\ bufs' = [bufs EXCEPT ![Fd(ch[App])] = [b \in Buffers |-> "queued"]]
            /\ streaming' = streaming \cup {Fd(ch[App])}
            /\ pc'[App] = "start_loop" /\ UNCHANGED <<ch, starts>>
        BY <2>2, <3>1, <3>3, StartQueueSucceeds
        DEF StartQueue, Hands, Goto, Base, ThreadsInv, ThreadsOK, Threads, locals,
            client
      <4>2. f = Fd(ch[App]) => ~FdBegun(f)
        BY <3>1, <3>3, StartQueueFresh
      <4>3. Begun(ch[App])' /\ ch'[App] = ch[App]
        BY <3>1, <4>1 DEF Begun, Books, StartsInTurn, StartLabels
      <4>4. f = Fd(ch[App]) => FdBegun(f)'
        <5>1. PICK c \in Channels : c = ch[App]
          BY <3>1
        <5>2. Begun(c)'
          BY <4>1, <4>3, <5>1 DEF Begun
        <5> QED
          BY <5>1, <5>2 DEF FdBegun
      <4>5. f # Fd(ch[App]) => bufs'[f] = bufs[f] /\ (f \in streaming' => f \in streaming)
        BY <4>1 DEF Base, DriverOK
      <4> QED
        BY <4>2, <4>4, <4>5
    <3> QED
      BY <3>2, <3>3
  <2>3. CASE StopStream(App)
    BY <2>3 DEF StopStream, Base, DriverOK
  <2>4. ASSUME NEW c \in Channels, StopChannel(c)
        PROVE  streaming' = streaming /\ bufs' = bufs
    BY <2>4 DEF StopChannel, driver
  <2>5. CASE \/ Deinit \/ DeinitChannel \/ DeinitClose
             \/ StartLoop \/ StartWait \/ StartMux \/ StartLoad \/ StartRef
    BY <2>5
    DEF Deinit, DeinitChannel, DeinitClose, StartLoop, StartWait, StartMux,
        StartLoad, StartRef, driver
  <2>6. CASE \/ StopEnter(App) \/ StopLoad(App) \/ StopDec(App) \/ StopClear(App)
             \/ StopFlags(App) \/ StopUnmap(App)
    BY <2>6
    DEF StopEnter, StopLoad, StopDec, StopClear, StopFlags, StopUnmap, driver
  <2> QED
    BY <2>1, <2>2, <2>3, <2>4, <2>5, <2>6, NothingBeyond
    DEF AppCall, AppStep, Stop
<1> QED
  BY <1>1, <1>2

\* No call of the application takes a buffer from an event thread.
LEMMA AppOutside ==
  ASSUME Base, Orderly, Books, Hands, AppCall \/ AppStep PROVE Outside
  BY AppLeavesLoops, AppMarks, AppBuffers DEF Outside
-----------------------------------------------------------------------------
(* The event threads: their own steps. *)

\* While one event thread is up, no other is.
LEMMA OthersDown ==
  ASSUME Base, NEW l \in Loops, pc[l] \notin {"none", "crashed"},
         NEW k \in Loops \ {l}
  PROVE  pc[k] \in {"none", "crashed"}
  BY DEF Base, LoopInv, SingleLoop, Live

\* What the steps of event thread l leave alone.
Inside(l) ==
  /\ SameBooks
  /\ pc[l] \notin {"none", "crashed"}
  /\ \A k \in Loops \ {l} : pc'[k] = pc[k] /\ ready'[k] = ready[k]

\* An event thread changes its own buffer, and no other one's.
LEMMA InsideStep ==
  ASSUME Base, Hands, NEW l \in Loops, LoopStep(l), ~Segfault(l)
  PROVE  Inside(l)
<1> USE DEF Inside, Base, ThreadsInv, ThreadsOK, Threads, Goto, At, locals
<1>1. SameBooks
  BY LoopsLeaveBooks DEF Hands, AtHand, StopsVain
<1>2. CASE Stop(l)
  BY <1>1, <1>2
  DEF Stop, StopEnter, StopLoad, StopDec, StopClear, StopFlags, StopStream,
      StopUnmap, StopReturn
<1>3. CASE LoopEnter(l) \/ LoopTop(l) \/ LoopScan(l)
  BY <1>1, <1>3 DEF LoopEnter, LoopTop, LoopScan
<1>4. CASE LoopSelect(l) \/ LoopPass(l) \/ LoopCheck(l) \/ LoopDequeue(l)
  BY <1>1, <1>4 DEF LoopSelect, LoopPass, LoopCheck, LoopDequeue, CallStop
<1>5. CASE LoopHandle(l)
  BY <1>1, <1>5 DEF LoopHandle, HandleMux, HandleOwn, CallClient, CallBufDone
<1>6. CASE BufDoneCheck(l) \/ BufDoneQueue(l)
  BY <1>1, <1>6 DEF BufDoneCheck, BufDoneQueue, DoneReturn, CallStop
<1>7. CASE LoopFinal(l) \/ LoopQueue(l) \/ LoopNext(l) \/ LoopExit(l)
  BY <1>1, <1>7 DEF LoopFinal, LoopQueue, LoopNext, LoopExit, CallStop
<1>8. CASE ClientStep(l)
  BY <1>1, <1>8 DEF ClientStep, CbRead, CbReturn, CbBufDone, CallBufDone
<1> QED
  BY <1>2, <1>3, <1>4, <1>5, <1>6, <1>7, <1>8 DEF LoopStep, EventStep

\* Which channels were started, and which stopped, is the same after it.
LEMMA InsideSame ==
  ASSUME SameBooks
  PROVE  /\ \A c : Begun(c)' <=> Begun(c)
         /\ \A f : FdBegun(f)' <=> FdBegun(f)
         /\ Stopping' <=> Stopping
         /\ streaming' = streaming /\ started' = started
<1>1. \A c : Begun(c)' <=> Begun(c)
  BY DEF SameBooks, Begun
<1> QED
  BY <1>1 DEF SameBooks, FdBegun, Stopping

\* So it is enough to look at thread l.
LEMMA OneAtHand ==
  ASSUME Base, Hands, NEW l \in Loops, Inside(l), WithClient', AtHand(l)'
  PROVE  Hands'
<1>1. ASSUME NEW k \in Loops \ {l} PROVE AtHand(k)'
  <2>1. pc'[k] \in {"none", "crashed"} /\ ready'[k] = ready[k]
    BY OthersDown DEF Inside
  <2>2. \A f \in ready'[k] : FdBegun(f)'
    BY <2>1, InsideSame DEF Inside, Hands, AtHand, OnBegun
  <2> QED
    BY <2>1, <2>2
    DEF AtHand, StopVain, OnBegun, FrameInHand, FramesLeft, Handling, StopLabels
<1> QED
  BY <1>1 DEF Hands

\* A started channel was marked as started, and has its descriptor open, mapped
\* and streaming.
LEMMA StartedFacts ==
  ASSUME Base, Books, NEW c \in Channels, started[c]
  PROVE  /\ Begun(c) /\ Usable(Fd(c))
         /\ Fd(c) \in streaming /\ Fd(c) \in mapped
<1>1. Begun(c)
  BY DEF Books, StartsInTurn, StartLabels, Begun
<1>2. FdStarted(Fd(c)) /\ Fd(c) \in Fds
  BY ChannelFacts DEF FdStarted
<1> QED
  BY <1>1, <1>2 DEF Books, DriverFollows, DeinitsInTurn, Usable

\* A channel that was started and whose descriptor the driver no longer serves
\* has been stopped, with every other channel of it.
LEMMA UnservedStopped ==
  ASSUME Base, Books, NEW c \in Channels, NEW d \in Channels, Begun(c),
         Fd(d) = Fd(c),
         ~Usable(Fd(c)) \/ Fd(c) \notin streaming \/ Fd(c) \notin mapped
  PROVE  ~started[d] /\ Stopping
  BY StartedFacts DEF Stopping

\* The thread comes up, looks for channels to watch, and waits for them.
LEMMA HandsWatch ==
  ASSUME Base, Books, Hands, NEW l \in Loops, Inside(l),
         LoopEnter(l) \/ LoopTop(l) \/ LoopScan(l) \/ LoopSelect(l) \/ LoopExit(l)
  PROVE  Hands'
<1>1. bufs' = bufs /\ held' = held
  BY DEF LoopEnter, LoopTop, LoopScan, LoopSelect, LoopExit, driver, client
<1>2. WithClient'
  BY <1>1, InsideSame DEF Inside, Hands, WithClient
<1>3. /\ pc'[l] \in {"top", "scan", "select", "exit", "pass", "none"}
      /\ pc'[l] = "pass" => LoopSelect(l)
  BY DEF LoopEnter, LoopTop, LoopScan, LoopSelect, LoopExit, Goto, At, Base,
         ThreadsInv, ThreadsOK, Threads
<1>4. \A f \in ready'[l] : FdBegun(f)
  <2>1. CASE LoopScan(l)
    <3>1. \/ ready'[l] = ready[l]
          \/ /\ ch[l] \in Channels /\ started[ch[l]]
             /\ ready'[l] = ready[l] \cup {Fd(ch[l])}
      BY <2>1, IndexFacts
      DEF LoopScan, Base, ThreadsInv, ThreadsOK, Threads
    <3> QED
      BY <3>1, StartedFacts DEF FdBegun, Hands, AtHand, OnBegun
  <2>2. CASE LoopEnter(l) \/ LoopTop(l) \/ LoopSelect(l) \/ LoopExit(l)
    <3>1. ready'[l] \subseteq ready[l]
      BY <2>2
      DEF LoopEnter, LoopTop, LoopSelect, LoopExit, Base, ThreadsInv, ThreadsOK,
          locals
    <3> QED
      BY <3>1 DEF Hands, AtHand, OnBegun
  <2> QED
    BY <2>1, <2>2
<1>5. ASSUME LoopSelect(l), pc'[l] = "pass"
      PROVE  \A f \in ready'[l] : f \in streaming => \E b \in Buffers : bufs[f][b] = "done"
  <2>1. \A f \in ready'[l] : Readable(f)
    BY <1>5 DEF LoopSelect, Base, ThreadsInv, ThreadsOK
  <2> QED
    BY <2>1 DEF Readable, Books, DriverFollows
<1>6. AtHand(l)'
  BY <1>1, <1>3, <1>4, <1>5, InsideSame
  DEF Inside, AtHand, StopVain, OnBegun, FrameInHand, FramesLeft, Handling,
      StopLabels
<1> QED
  BY <1>2, <1>6, OneAtHand

\* The pass over the channels.
LEMMA HandsPass ==
  ASSUME Base, Books, Hands, NEW l \in Loops, Inside(l), LoopPass(l) \/ LoopNext(l)
  PROVE  Hands'
<1>1. bufs' = bufs /\ held' = held
  BY DEF LoopPass, LoopNext, driver, client
<1>2. WithClient'
  BY <1>1, InsideSame DEF Inside, Hands, WithClient
<1>3. /\ pc[l] \in {"pass", "next"} /\ ch[l] \in Nat
      /\ \/ pc'[l] = "top" /\ ready'[l] = {}
         \/ pc'[l] = "pass" /\ ready'[l] = ready[l] /\ ch'[l] = ch[l] + 1
         \/ /\ pc[l] = "pass" /\ pc'[l] = "check"
            /\ ready'[l] = ready[l] /\ ch'[l] = ch[l]
            /\ ch[l] \in Channels /\ started[ch[l]] /\ Fd(ch[l]) \in ready[l]
  BY IndexFacts
  DEF LoopPass, LoopNext, Goto, At, Base, ThreadsInv, ThreadsOK, Threads
<1>4. \A f \in ready'[l] : FdBegun(f)
  BY <1>3 DEF Hands, AtHand, OnBegun
<1>5. pc'[l] = "check" => Begun(ch'[l])
  BY <1>3, StartedFacts
<1>6. \A c \in Channels :
        pc'[l] # "top" /\ c >= ch'[l] /\ Fd(c) \in ready'[l] /\ Fd(c) \in streaming =>
          \E b \in Buffers : bufs[Fd(c)][b] = "done"
  <2> SUFFICES ASSUME NEW c \in Channels, pc'[l] # "top", c >= ch'[l],
                      Fd(c) \in ready'[l], Fd(c) \in streaming
               PROVE  \E b \in Buffers : bufs[Fd(c)][b] = "done"
    OBVIOUS
  <2>1. c >= FirstLeft(l)
    BY <1>3, ChannelFacts DEF FirstLeft, Handling
  <2> QED
    BY <1>3, <2>1 DEF Hands, AtHand, FramesLeft
<1>7. AtHand(l)'
  BY <1>1, <1>3, <1>4, <1>5, <1>6, InsideSame
  DEF Inside, AtHand, StopVain, OnBegun, FrameInHand, FramesLeft, FirstLeft,
      Handling, StopLabels
<1> QED
  BY <1>2, <1>7, OneAtHand

\* What is left of the pass has its frames as long as a step takes none of them
\* and goes no channel back.
LEMMA FramesKept ==
  ASSUME Base, Hands, NEW l \in Loops, Inside(l),
         pc[l] \in {"pass", "check", "dqbuf", "next", "stop"} \/ Handling(l),
         ready'[l] = ready[l],
         \A c \in Channels : c >= FirstLeft(l)' =>
           /\ c >= FirstLeft(l)
           /\ \A b \in Buffers : bufs[Fd(c)][b] = "done" => bufs'[Fd(c)][b] = "done"
  PROVE  FramesLeft(l)'
<1>1. streaming' = streaming
  BY InsideSame DEF Inside
<1> QED
  BY <1>1 DEF Hands, AtHand, FramesLeft

\* A step that leaves the buffers as they are keeps what the client holds.
LEMMA ClientKept ==
  ASSUME Hands, NEW l \in Loops, Inside(l), bufs' = bufs, held' = held
  PROVE  WithClient'
  BY InsideSame DEF Inside, Hands, WithClient

\* The check before VIDIOC_DQBUF goes on with the channel or passes it over.
LEMMA HandsCheck ==
  ASSUME Base, Hands, NEW l \in Loops, Inside(l), LoopCheck(l)
  PROVE  Hands'
<1>1. /\ pc[l] = "check" /\ pc'[l] \in {"dqbuf", "next"} /\ ch[l] \in Channels
      /\ ready'[l] = ready[l] /\ ch'[l] = ch[l] /\ ch[l] \in Nat
      /\ bufs' = bufs /\ held' = held
  BY ChannelFacts
  DEF LoopCheck, At, Goto, Base, ThreadsInv, ThreadsOK, InRange, Threads, locals,
      driver, client
<1>2. WithClient'
  BY <1>1, ClientKept
<1>3. FramesLeft(l)'
  <2>1. FirstLeft(l) = ch[l] /\ FirstLeft(l)' \in {ch[l], ch[l] + 1}
    BY <1>1 DEF FirstLeft, Handling
  <2>2. \A d \in Channels : d >= FirstLeft(l)' => d >= FirstLeft(l)
    <3>1. \A d, i \in Nat : (d >= i => d >= i) /\ (d >= i + 1 => d >= i)
      OBVIOUS
    <3> QED
      BY <1>1, <2>1, <3>1, ChannelFacts
  <2> QED
    BY <1>1, <2>2, FramesKept
<1>4. StopVain(l)' /\ OnBegun(l)' /\ FrameInHand(l)'
  BY <1>1, InsideSame
  DEF Inside, Hands, AtHand, StopVain, OnBegun, FrameInHand, Handling, StopLabels
<1> QED
  BY <1>2, <1>3, <1>4, OneAtHand DEF AtHand

\* VIDIOC_DQBUF: there is a frame as long as the channel is started.
LEMMA HandsDequeue ==
  ASSUME Base, Books, Hands, NEW l \in Loops, Inside(l), LoopDequeue(l)
  PROVE  Hands'
<1> DEFINE c == ch[l]
           f == Fd(c)
<1>1. /\ pc[l] = "dqbuf" /\ c \in Channels /\ Begun(c) /\ f \in ready[l]
      /\ f \in Fds /\ FdBegun(f) /\ c \in Nat
  BY ChannelFacts
  DEF LoopDequeue, At, Base, ThreadsInv, InRange, Hands, AtHand, OnBegun, FdBegun
<1>2. ready'[l] = ready[l] /\ ch'[l] = c /\ held' = held
  BY DEF LoopDequeue, client
<1>3. ASSUME NEW b \in Buffers, bufs[f][b] = "done",
             bufs' = [bufs EXCEPT ![f][b] = "user"], buf'[l] = b, pc'[l] = "handle"
      PROVE  Hands'
  <2>1. \A g \in Fds, a \in Buffers :
          bufs'[g][a] = IF g = f /\ a = b THEN "user" ELSE bufs[g][a]
    BY <1>3 DEF Base, DriverOK
  <2>2. WithClient'
    BY <1>1, <1>2, <2>1, InsideSame
    DEF Hands, WithClient, Base, ThreadsInv, Inside
  <2>3. FirstLeft(l)' = AfterFrame(c) /\ FirstLeft(l) = c
    BY <1>1, <1>2, <1>3 DEF FirstLeft, Handling, AfterFrame, IsMux
  <2>4. \A d \in Channels : d >= AfterFrame(c) => d >= c /\ Fd(d) # f
    BY <1>1, PastFrame, ChannelOrder
  <2>5. FramesLeft(l)'
    BY <1>1, <1>2, <2>1, <2>3, <2>4, FramesKept, ChannelFacts
  <2>6. StopVain(l)' /\ OnBegun(l)' /\ FrameInHand(l)'
    BY <1>1, <1>2, <1>3, <2>1, InsideSame
    DEF Inside, Hands, AtHand, StopVain, OnBegun, FrameInHand, Handling, StopLabels
  <2> QED
    BY <2>2, <2>5, <2>6, OneAtHand DEF AtHand
<1>4. ASSUME bufs' = bufs, pc'[l] = "stop" /\ sret'[l] = "next",
             sch'[l] = c /\ ~started[c] /\ Stopping
      PROVE  Hands'
  <2>1. WithClient'
    BY <1>2, <1>4, ClientKept
  <2>2. FirstLeft(l)' = c + 1 /\ FirstLeft(l) = c
    BY <1>1, <1>2, <1>4 DEF FirstLeft, Handling
  <2>3. \A d \in Channels : d >= c + 1 => d >= c
    BY <1>1, ChannelOrder, ChannelFacts
  <2>4. FramesLeft(l)'
    BY <1>1, <1>2, <1>4, <2>2, <2>3, FramesKept
  <2>5. StopVain(l)' /\ OnBegun(l)' /\ FrameInHand(l)'
    BY <1>1, <1>2, <1>4, InsideSame
    DEF Inside, Hands, AtHand, StopVain, OnBegun, FrameInHand, Handling, StopLabels
  <2> QED
    BY <2>1, <2>4, <2>5, OneAtHand DEF AtHand
<1>5. CASE \E b \in Buffers : bufs[f][b] = "done" /\ bufs' = [bufs EXCEPT ![f][b] = "user"]
             /\ buf' = [buf EXCEPT ![l] = b] /\ Goto(l, "handle")
  BY <1>3, <1>5 DEF Goto, Base, ThreadsInv, ThreadsOK, Threads
<1>7. CASE /\ bufs' = bufs /\ CallStop(l, c, "next")
           /\ ~(Usable(f) /\ f \in streaming /\ \E b \in Buffers : bufs[f][b] = "done")
  <2>1. c >= FirstLeft(l)
    BY <1>1 DEF FirstLeft
  <2>2. f \in streaming => \E b \in Buffers : bufs[f][b] = "done"
    BY <1>1, <2>1 DEF Hands, AtHand, FramesLeft
  <2>3. ~started[c] /\ Stopping
    BY <1>1, <1>7, <2>2, UnservedStopped
  <2> QED
    BY <1>4, <1>7, <2>3 DEF CallStop, Goto, Base, ThreadsInv, ThreadsOK, Threads
<1> QED
  BY <1>5, <1>7 DEF LoopDequeue

\* Where the thread has the channel of its frame from, and its descriptor.
LEMMA HandlingFacts ==
  ASSUME Base, Hands, NEW l \in Loops, Handling(l)
  PROVE  /\ ch[l] \in Channels /\ Begun(ch[l]) /\ Fd(ch[l]) \in Fds
         /\ FdBegun(Fd(ch[l])) /\ ch[l] \in Nat /\ bch[l] \in Channels
         /\ FirstLeft(l) = AfterFrame(ch[l])
<1>1. ch[l] \in Channels
  BY DEF Handling, Base, ThreadsInv, InRange, StopLabels
<1> QED
  BY <1>1, ChannelFacts
  DEF Hands, AtHand, OnBegun, FdBegun, Base, ThreadsInv, ThreadsOK, FirstLeft,
      Handling

\* A step within the handling of a frame: what is left of the pass stays.
LEMMA HandlingKeeps ==
  ASSUME Base, Hands, NEW l \in Loops, Inside(l), Handling(l),
         ready'[l] = ready[l],
         \A g \in Fds, b \in Buffers : bufs[g][b] = "done" => bufs'[g][b] = "done",
         \/ Handling(l)' /\ ch'[l] = ch[l]
         \/ pc'[l] = "pass" /\ ch'[l] = AfterFrame(ch[l])
         \/ /\ ~IpcamMode /\ ch'[l] = ch[l]
            /\ pc'[l] = "next" \/ (pc'[l] = "stop" /\ sret'[l] = "next")
  PROVE  FramesLeft(l)'
<1>1. FirstLeft(l)' = AfterFrame(ch[l])
  <2>1. AfterFrame(ch[l])' = AfterFrame(ch[l]) \/ ch'[l] # ch[l]
    BY DEF AfterFrame, IsMux
  <2>2. ~IpcamMode => AfterFrame(ch[l]) = ch[l] + 1
    BY DEF AfterFrame, IsMux
  <2> QED
    BY <2>1, <2>2 DEF FirstLeft, Handling
<1>2. FirstLeft(l) = AfterFrame(ch[l])
  BY HandlingFacts
<1> QED
  BY <1>1, <1>2, FramesKept, ChannelFacts

\* The frame goes to the client, back to the driver, or to nobody.
LEMMA HandsHandle ==
  ASSUME Base, Orderly, Books, Hands, NEW l \in Loops, Inside(l), LoopHandle(l)
  PROVE  Hands'
<1> DEFINE c == ch[l]
           f == Fd(c)
<1>1. /\ pc[l] = "handle" /\ Handling(l) /\ c \in Channels /\ f \in Fds
      /\ FdBegun(f) /\ Begun(c)
      /\ buf[l] \in Buffers /\ bufs[f][buf[l]] = "user"
  BY HandlingFacts
  DEF LoopHandle, At, Handling, Hands, AtHand, FrameInHand
<1>2. bufs' = bufs /\ ready'[l] = ready[l] /\ ch'[l] = c /\ buf'[l] = buf[l]
  BY DEF LoopHandle, driver
<1>3. \/ /\ pc'[l] = "final" /\ held' = held
      \/ /\ pc'[l] = "cb_read" /\ Fd(bch'[l]) = f
         /\ held' = IF IpcamMode
                    THEN [held EXCEPT ![f] = @ \cup {buf[l]}] ELSE held
      \/ /\ pc'[l] = "done" /\ Fd(bch'[l]) = f /\ bidx'[l] = buf[l]
         /\ IpcamMode /\ held' = held
  <2>1. ASSUME NEW d \in Nat, CallClient(l, d), Fd(d) = f
        PROVE  /\ pc'[l] = "cb_read" /\ Fd(bch'[l]) = f
               /\ held' = IF IpcamMode
                          THEN [held EXCEPT ![f] = @ \cup {buf[l]}] ELSE held
    <3>1. pc'[l] = "cb_read" /\ bch'[l] = d
      BY <2>1 DEF CallClient, Goto, Base, ThreadsInv, ThreadsOK, Threads
    <3> QED
      BY <2>1, <3>1 DEF CallClient
  <2>2. CASE IsMux(c)
    <3>1. PICK id \in BoxIds :
            \/ id > MuxCount /\ Goto(l, "final") /\ held' = held
            \/ id <= MuxCount /\ CallClient(l, id)
            \/ id <= MuxCount /\ CallBufDone(l, id, buf[l], "final") /\ held' = held
      BY <2>2 DEF LoopHandle, HandleMux
    <3>2. id <= MuxCount => IsMux(id) /\ id \in Nat
      <4>1. id \in Nat /\ MuxCount \in Nat /\ id # MuxCount
        BY VideoAssumption DEF VideoAssumption, Orderly
      <4> QED
        BY <2>2, <4>1 DEF IsMux
    <3>3. id <= MuxCount => Fd(id) = f
      BY <2>2, <3>2 DEF Fd
    <3>4. CASE Goto(l, "final") /\ held' = held
      BY <3>4 DEF Goto, Base, ThreadsInv, ThreadsOK, Threads
    <3>5. CASE id <= MuxCount /\ CallClient(l, id)
      BY <2>1, <3>2, <3>3, <3>5
    <3>6. CASE id <= MuxCount /\ CallBufDone(l, id, buf[l], "final") /\ held' = held
      <4>1. pc'[l] = "done" /\ bch'[l] = id /\ bidx'[l] = buf[l]
        BY <3>6 DEF CallBufDone, Goto, Base, ThreadsInv, ThreadsOK, Threads
      <4>2. Fd(bch'[l]) = f
        BY <3>3, <3>6, <4>1
      <4> QED
        BY <2>2, <3>6, <4>1, <4>2 DEF IsMux
    <3> QED
      BY <3>1, <3>4, <3>5, <3>6
  <2>3. CASE ~IsMux(c)
    <3>1. CallClient(l, c) \/ (Goto(l, "final") /\ held' = held)
      BY <2>3 DEF LoopHandle, HandleOwn
    <3> QED
      BY <1>1, <2>1, <3>1, ChannelFacts DEF Goto, Base, ThreadsInv, ThreadsOK, Threads
  <2> QED
    BY <2>2, <2>3
<1>4. WithClient'
  <2>1. \/ held' = held
        \/ IpcamMode /\ held' = [held EXCEPT ![f] = @ \cup {buf[l]}]
    BY <1>3
  <2>2. CASE held' = held
    BY <1>2, <2>2, ClientKept
  <2>3. CASE IpcamMode /\ held' = [held EXCEPT ![f] = @ \cup {buf[l]}]
    <3>1. \A g \in Fds : held'[g] = IF g = f THEN held[f] \cup {buf[l]} ELSE held[g]
      BY <2>3 DEF Base, ThreadsInv
    <3> QED
      BY <1>1, <1>2, <2>3, <3>1, InsideSame DEF Inside, Hands, WithClient
  <2> QED
    BY <2>1, <2>2, <2>3
<1>5. FramesLeft(l)'
  BY <1>1, <1>2, <1>3, HandlingKeeps DEF Handling
<1>6. StopVain(l)' /\ OnBegun(l)' /\ FrameInHand(l)'
  BY <1>1, <1>2, <1>3, InsideSame
  DEF Inside, Hands, AtHand, StopVain, OnBegun, FrameInHand, Handling, StopLabels
<1> QED
  BY <1>4, <1>5, <1>6, OneAtHand DEF AtHand

\* The callback, and the event loop's last steps with a frame.
LEMMA HandsClient ==
  ASSUME Base, Books, Hands, NEW l \in Loops, Inside(l),
         ClientStep(l) \/ LoopFinal(l)
  PROVE  Hands'
<1> USE DEF Handling
<1>1. /\ Handling(l) /\ bufs' = bufs /\ held' = held /\ ready'[l] = ready[l]
      /\ pc[l] \in {"cb_read", "cb", "final"}
  BY DEF ClientStep, CbRead, CbReturn, CbBufDone, CallBufDone, LoopFinal, At,
         driver, client, locals
<1>2. WithClient'
  BY <1>1, ClientKept
<1>3. CASE CbRead(l)
  <2>1. /\ pc[l] = "cb_read" /\ pc'[l] = "cb" /\ ch'[l] = ch[l]
        /\ buf'[l] = buf[l] /\ bch'[l] = bch[l]
    BY <1>3 DEF CbRead, At, Goto, Base, ThreadsInv, ThreadsOK, Threads, locals, doneArgs
  <2>2. FramesLeft(l)'
    BY <1>1, <2>1, HandlingKeeps
  <2>3. StopVain(l)' /\ OnBegun(l)' /\ FrameInHand(l)'
    BY <1>1, <2>1, InsideSame
    DEF Inside, Hands, AtHand, StopVain, OnBegun, FrameInHand, StopLabels
  <2> QED
    BY <1>2, <2>2, <2>3, OneAtHand DEF AtHand
<1>4. CASE CbReturn(l)
  <2>1. /\ pc[l] = "cb" /\ pc'[l] = "final" /\ ch'[l] = ch[l] /\ buf'[l] = buf[l]
    BY <1>4 DEF CbReturn, At, Goto, Base, ThreadsInv, ThreadsOK, Threads
  <2>2. FramesLeft(l)'
    BY <1>1, <2>1, HandlingKeeps
  <2>3. StopVain(l)' /\ OnBegun(l)' /\ FrameInHand(l)'
    BY <1>1, <2>1, InsideSame
    DEF Inside, Hands, AtHand, StopVain, OnBegun, FrameInHand, StopLabels
  <2> QED
    BY <1>2, <2>2, <2>3, OneAtHand DEF AtHand
<1>5. ASSUME NEW b \in Buffers, CbBufDone(l, b) PROVE Hands'
  <2>1. /\ pc[l] = "cb" /\ pc'[l] = "done" /\ ch'[l] = ch[l]
        /\ bch'[l] = bch[l] /\ bidx'[l] = b /\ b \in held[Fd(bch[l])]
    BY <1>5 DEF CbBufDone, CallBufDone, At, Goto, Base, ThreadsInv, ThreadsOK, Threads
  <2>2. /\ Fd(bch[l]) = Fd(ch[l]) /\ Fd(bch[l]) \in Fds
        /\ bufs[Fd(bch[l])][b] = "user" /\ IpcamMode
    BY <1>1, <2>1, HandlingFacts DEF Hands, AtHand, OnBegun, WithClient
  <2>3. FramesLeft(l)'
    BY <1>1, <2>1, HandlingKeeps
  <2>4. StopVain(l)' /\ OnBegun(l)' /\ FrameInHand(l)'
    BY <1>1, <2>1, <2>2, InsideSame
    DEF Inside, Hands, AtHand, StopVain, OnBegun, FrameInHand, StopLabels
  <2> QED
    BY <1>2, <2>3, <2>4, OneAtHand DEF AtHand
<1>6. CASE LoopFinal(l)
  <2>1. /\ pc[l] = "final"
        /\ \/ pc'[l] = "pass" /\ ch'[l] = AfterFrame(ch[l])
           \/ /\ pc'[l] = "qbuf" /\ ~IpcamMode /\ ch'[l] = ch[l]
              /\ buf'[l] = buf[l]
    BY <1>6 DEF LoopFinal, At, Goto, Base, ThreadsInv, ThreadsOK, Threads
  <2>2. FramesLeft(l)'
    BY <1>1, <2>1, HandlingKeeps
  <2>3. StopVain(l)' /\ OnBegun(l)' /\ FrameInHand(l)'
    BY <1>1, <2>1, InsideSame
    DEF Inside, Hands, AtHand, StopVain, OnBegun, FrameInHand, StopLabels
  <2> QED
    BY <1>2, <2>2, <2>3, OneAtHand DEF AtHand
<1> QED
  BY <1>3, <1>4, <1>5, <1>6 DEF ClientStep

\* A buffer comes back from the client: it is no longer the client's ...
LEMMA HandsDone ==
  ASSUME Base, Books, Hands, NEW l \in Loops, Inside(l), BufDoneCheck(l)
  PROVE  Hands'
<1> USE DEF Handling
<1> DEFINE f == Fd(bch[l])
<1>1. /\ pc[l] = "done" /\ Handling(l) /\ bufs' = bufs /\ ready'[l] = ready[l]
      /\ ch'[l] = ch[l] /\ f = Fd(ch[l]) /\ f \in Fds /\ IpcamMode
      /\ bidx[l] \in Buffers /\ bufs[f][bidx[l]] = "user"
      /\ bret[l] \in {"cb", "final"}
  BY HandlingFacts
  DEF BufDoneCheck, At, driver, Hands, AtHand, OnBegun, FrameInHand, Base,
      LoopInv, ThreadPlaces
<1>2. /\ held' = [held EXCEPT ![f] = @ \ {bidx[l]}]
      /\ held \in [Fds -> SUBSET Buffers]
  BY DEF BufDoneCheck, Base, ThreadsInv
<1>3. WithClient'
  BY <1>1, <1>2, InsideSame DEF Inside, Hands, WithClient
<1>4. \/ pc'[l] \in {"cb", "final"} /\ (pc'[l] = "cb" => bch'[l] = bch[l])
      \/ pc'[l] = "done_qbuf" /\ bch'[l] = bch[l] /\ bidx'[l] = bidx[l]
  BY <1>1 DEF BufDoneCheck, DoneReturn, Goto, Base, ThreadsInv, ThreadsOK, Threads,
              doneArgs
<1>5. FramesLeft(l)'
  BY <1>1, <1>4, HandlingKeeps
<1>6. pc'[l] = "done_qbuf" => bidx[l] \notin held'[f]
  BY <1>1, <1>2
<1>7. StopVain(l)' /\ OnBegun(l)' /\ FrameInHand(l)'
  BY <1>1, <1>4, <1>6, InsideSame
  DEF Inside, Hands, AtHand, StopVain, OnBegun, FrameInHand, StopLabels
<1> QED
  BY <1>3, <1>5, <1>7, OneAtHand DEF AtHand

\* ... and goes back to the driver, unless its channel was stopped meanwhile.
LEMMA HandsRequeue ==
  ASSUME Base, Books, Hands, NEW l \in Loops, Inside(l), BufDoneQueue(l)
  PROVE  Hands'
<1> USE DEF Handling
<1> DEFINE f == Fd(bch[l])
           b == bidx[l]
<1>1. /\ pc[l] = "done_qbuf" /\ Handling(l) /\ held' = held /\ ready'[l] = ready[l]
      /\ ch'[l] = ch[l] /\ f = Fd(ch[l]) /\ f \in Fds /\ IpcamMode /\ FdBegun(f)
      /\ Begun(ch[l]) /\ ch[l] \in Channels /\ bch[l] \in Channels
      /\ b \in Buffers /\ bufs[f][b] = "user" /\ b \notin held[f]
      /\ bret[l] \in {"cb", "final"}
  BY HandlingFacts
  DEF BufDoneQueue, At, client, Hands, AtHand, OnBegun, FrameInHand, Base,
      LoopInv, ThreadPlaces
<1>2. bret[l] = "cb" => bch'[l] = bch[l]
  BY DEF BufDoneQueue, DoneReturn, Base, ThreadsInv, ThreadsOK
<1>3. CASE bufs' = [bufs EXCEPT ![f][b] = "queued"] /\ Goto(l, bret[l])
  <2>1. \A g \in Fds, a \in Buffers :
          bufs'[g][a] = IF g = f /\ a = b THEN "queued" ELSE bufs[g][a]
    BY <1>3 DEF Base, DriverOK
  <2>2. pc'[l] = bret[l]
    BY <1>3 DEF Goto, Base, ThreadsInv, ThreadsOK, Threads
  <2>3. WithClient'
    BY <1>1, <2>1, InsideSame DEF Inside, Hands, WithClient, Base, ThreadsInv
  <2>4. FramesLeft(l)'
    BY <1>1, <2>1, <2>2, HandlingKeeps
  <2>5. StopVain(l)' /\ OnBegun(l)' /\ FrameInHand(l)'
    BY <1>1, <1>2, <2>2, InsideSame
    DEF Inside, Hands, AtHand, StopVain, OnBegun, FrameInHand, StopLabels
  <2> QED
    BY <2>3, <2>4, <2>5, OneAtHand DEF AtHand
<1>4. CASE ~CanQueue(f, b) /\ CallStop(l, bch[l], bret[l]) /\ bufs' = bufs
  <2>1. pc'[l] = "stop" /\ sch'[l] = bch[l] /\ sret'[l] = bret[l]
    BY <1>4 DEF CallStop, Goto, Base, ThreadsInv, ThreadsOK, Threads
  <2>2. ~started[bch[l]] /\ Stopping
    BY <1>1, <1>4, UnservedStopped DEF CanQueue
  <2>3. WithClient'
    BY <1>1, <1>4, ClientKept
  <2>4. FramesLeft(l)'
    BY <1>1, <1>4, <2>1, HandlingKeeps
  <2>5. StopVain(l)' /\ OnBegun(l)' /\ FrameInHand(l)'
    BY <1>1, <1>2, <2>1, <2>2, InsideSame
    DEF Inside, Hands, AtHand, StopVain, OnBegun, FrameInHand, StopLabels
  <2> QED
    BY <2>3, <2>4, <2>5, OneAtHand DEF AtHand
<1> QED
  BY <1>3, <1>4 DEF BufDoneQueue

\* Outside ipcam mode the event loop itself gives the buffer back.
LEMMA HandsQueue ==
  ASSUME Base, Books, Hands, NEW l \in Loops, Inside(l), LoopQueue(l)
  PROVE  Hands'
<1> USE DEF Handling
<1> DEFINE f == Fd(ch[l])
           b == buf[l]
<1>1. /\ pc[l] = "qbuf" /\ Handling(l) /\ held' = held /\ ready'[l] = ready[l]
      /\ ch'[l] = ch[l] /\ f \in Fds /\ ~IpcamMode /\ FdBegun(f)
      /\ Begun(ch[l]) /\ ch[l] \in Channels
      /\ b \in Buffers /\ bufs[f][b] = "user"
  BY HandlingFacts DEF LoopQueue, At, client, Hands, AtHand, FrameInHand
<1>2. CASE bufs' = [bufs EXCEPT ![f][b] = "queued"] /\ Goto(l, "next")
  <2>1. \A g \in Fds, a \in Buffers :
          bufs'[g][a] = IF g = f /\ a = b THEN "queued" ELSE bufs[g][a]
    BY <1>2 DEF Base, DriverOK
  <2>2. pc'[l] = "next"
    BY <1>2 DEF Goto, Base, ThreadsInv, ThreadsOK, Threads
  <2>3. WithClient'
    BY <1>1, <2>1, InsideSame DEF Inside, Hands, WithClient, Base, ThreadsInv
  <2>4. FramesLeft(l)'
    BY <1>1, <2>1, <2>2, HandlingKeeps
  <2>5. StopVain(l)' /\ OnBegun(l)' /\ FrameInHand(l)'
    BY <1>1, <2>2, InsideSame
    DEF Inside, Hands, AtHand, StopVain, OnBegun, FrameInHand, StopLabels
  <2> QED
    BY <2>3, <2>4, <2>5, OneAtHand DEF AtHand
<1>3. CASE ~CanQueue(f, b) /\ CallStop(l, ch[l], "next") /\ bufs' = bufs
  <2>1. pc'[l] = "stop" /\ sch'[l] = ch[l] /\ sret'[l] = "next"
    BY <1>3 DEF CallStop, Goto, Base, ThreadsInv, ThreadsOK, Threads
  <2>2. ~started[ch[l]] /\ Stopping
    BY <1>1, <1>3, UnservedStopped DEF CanQueue
  <2>3. WithClient'
    BY <1>1, <1>3, ClientKept
  <2>4. FramesLeft(l)'
    BY <1>1, <1>3, <2>1, HandlingKeeps
  <2>5. StopVain(l)' /\ OnBegun(l)' /\ FrameInHand(l)'
    BY <1>1, <2>1, <2>2, InsideSame
    DEF Inside, Hands, AtHand, StopVain, OnBegun, FrameInHand, StopLabels
  <2> QED
    BY <2>3, <2>4, <2>5, OneAtHand DEF AtHand
<1> QED
  BY <1>2, <1>3 DEF LoopQueue

\* An error stop that comes too late returns to where it was called.
LEMMA HandsStop ==
  ASSUME Base, Books, Hands, NEW l \in Loops, Inside(l), Stop(l)
  PROVE  Hands'
<1>1. /\ pc[l] = "stop" /\ ~started[sch[l]] /\ Stopping /\ StopEnter(l)
      /\ sret[l] \in {"next", "cb", "final"}
  BY DEF Stop, StopEnter, StopLoad, StopDec, StopClear, StopFlags, StopStream,
         StopUnmap, At, Hands, AtHand, StopVain, StopLabels, Base, LoopInv,
         ThreadPlaces
<1>2. /\ pc'[l] = sret[l] /\ bufs' = bufs /\ held' = held /\ ready'[l] = ready[l]
      /\ ch'[l] = ch[l] /\ bch'[l] = bch[l] /\ buf'[l] = buf[l]
  BY <1>1 DEF StopEnter, StopReturn, Goto, Base, ThreadsInv, ThreadsOK, Threads,
              driver, client, doneArgs
<1>3. WithClient'
  BY <1>2, ClientKept
<1>4. FirstLeft(l)' = FirstLeft(l)
  <2>1. AfterFrame(ch[l])' = AfterFrame(ch[l]) \/ ch'[l] # ch[l]
    BY DEF AfterFrame, IsMux
  <2> QED
    BY <1>1, <1>2, <2>1 DEF FirstLeft, Handling
<1>5. FramesLeft(l)'
  BY <1>1, <1>2, <1>4, FramesKept
<1>6. StopVain(l)' /\ OnBegun(l)' /\ FrameInHand(l)'
  BY <1>1, <1>2, InsideSame
  DEF Inside, Hands, AtHand, StopVain, OnBegun, FrameInHand, Handling, StopLabels
<1> QED
  BY <1>3, <1>5, <1>6, OneAtHand DEF AtHand
-----------------------------------------------------------------------------
(* The invariant and what follows from it. *)

\* No event thread holds a buffer at first.
LEMMA HandsInit == Init => Hands
<1> SUFFICES ASSUME Init PROVE Hands
  OBVIOUS
<1>1. ASSUME NEW l \in Loops PROVE AtHand(l)
  <2>1. pc[l] = "none" /\ ready[l] = {}
    BY AppIsNoLoop DEF Init, Threads
  <2> QED
    BY <2>1 DEF AtHand, StopVain, OnBegun, FrameInHand, FramesLeft, Handling,
                StopLabels
<1>2. WithClient
  BY DEF Init, WithClient
<1> QED
  BY <1>1, <1>2 DEF Hands

\* Every step of an event thread keeps what the threads have in hand.
LEMMA HandsLoopStep ==
  ASSUME Base, Orderly, Books, Hands, NEW l \in Loops, LoopStep(l), ~Segfault(l)
  PROVE  Hands'
<1>1. Inside(l)
  BY InsideStep
<1> QED
  BY <1>1, HandsWatch, HandsPass, HandsCheck, HandsDequeue, HandsHandle, HandsClient,
     HandsDone, HandsRequeue, HandsQueue, HandsStop
  DEF LoopStep, EventStep

\* A crash ends the process.
Dead == (\A t \in Threads : pc[t] = "crashed") /\ streaming = {}

\* After the crash of the process nothing moves.
LEMMA DeadStays == Dead /\ Orderly /\ [Next]_vars => UNCHANGED vars
<1> SUFFICES ASSUME Dead, Orderly, Next PROVE FALSE
  OBVIOUS
<1>1. pc[App] = "crashed" /\ \A l \in Loops : pc[l] = "crashed"
  BY DEF Dead, Threads
<1>2. ~AppCall
  BY <1>1 DEF AppCall, StartChannel, StopChannel, Deinit, At
<1>3. \A t \in Threads : ~Stop(t)
  BY DEF Dead, Stop, StopEnter, StopLoad, StopDec, StopClear, StopFlags,
         StopStream, StopUnmap, At
<1>4. ~AppStep
  BY <1>1, <1>3
  DEF AppStep, DeinitNext, StartQueue, StartLoop, StartWait, StartMux, StartLoad, StartRef,
      DeinitChannel, DeinitClose, DeinitBeyond, At, Threads
<1>5. ~Camera
  BY DEF Camera, Unplug, Fill, Dead, Orderly
<1>6. \A l \in Loops : ~LoopStep(l)
  BY <1>1, <1>3
  DEF LoopStep, ClientStep, EventStep, LoopEnter, LoopTop, LoopScan, LoopSelect,
      LoopPass, LoopCheck, LoopDequeue, LoopHandle, Segfault, CbRead, CbBufDone, CbReturn,
      BufDoneCheck, BufDoneQueue, LoopFinal, LoopQueue, LoopNext, LoopExit, At,
      Threads
<1> QED
  BY <1>2, <1>4, <1>5, <1>6 DEF Next

\* No buffer that is read is in the driver's queues.
LEMMA HandsExclusive == Hands => ExclusiveBuffers
  BY DEF Hands, AtHand, FrameInHand, WithClient, ExclusiveBuffers

\* The inductive invariant of an orderly run.
Sound == Base /\ ExclusiveBuffers /\ (Dead \/ (Books /\ Hands))

\* The invariants hold at first.
LEMMA SoundInit == Init => Sound
  BY BaseInit, BooksInit, HandsInit, HandsExclusive DEF Sound

\* Every step keeps the invariants.
LEMMA SoundNext == ASSUME Orderly, Sound, [Next]_vars PROVE Sound'
<1>1. Base /\ Base' /\ ExclusiveBuffers
  BY BaseNext DEF Sound
<1>2. CASE Dead
  <2>1. UNCHANGED <<pc, streaming, bufs, held, ch, buf>>
    BY <1>2, DeadStays DEF vars, driver, locals, client
  <2> QED
    BY <1>1, <1>2, <2>1 DEF Sound, Dead, ExclusiveBuffers
<1>3. Books' /\ Hands' => Sound'
  BY <1>1 DEF Sound, Hands, AtHand, FrameInHand, WithClient, ExclusiveBuffers
<1>4. ASSUME Books, Hands, AppCall \/ AppStep PROVE Sound'
  <2>1. Books'
    BY <1>1, <1>4, BooksAppStep DEF Hands
  <2>2. Hands'
    BY <1>1, <1>4, AppOutside, OutsideKeepsHands
  <2> QED
    BY <1>3, <2>1, <2>2
<1>5. ASSUME Books, Hands, Camera PROVE Sound'
  <2>1. Books'
    BY <1>5, CameraLeavesBooks, BooksElsewhere
  <2>2. Hands'
    BY <1>1, <1>5, CameraOutside, OutsideKeepsHands
  <2> QED
    BY <1>3, <2>1, <2>2
<1>6. ASSUME Books, Hands, NEW l \in Loops, LoopStep(l), ~Segfault(l) PROVE Sound'
  <2>1. Books'
    BY <1>1, <1>6, InsideStep, BooksElsewhere DEF Inside
  <2>2. Hands'
    BY <1>1, <1>6, HandsLoopStep
  <2> QED
    BY <1>3, <2>1, <2>2
<1>7. ASSUME NEW l \in Loops, Segfault(l) PROVE Sound'
  <2>1. Dead'
    BY <1>7 DEF Segfault, Crash, Dead
  <2>2. ExclusiveBuffers'
    BY <1>1, <1>7 DEF Segfault, Crash, ExclusiveBuffers, Threads, client, locals
  <2> QED
    BY <1>1, <2>1, <2>2 DEF Sound
<1>8. ASSUME Books, Hands, UNCHANGED vars PROVE Sound'
  <2>1. Books'
    BY <1>8, BooksElsewhere
    DEF SameBooks, vars, flags, driver, client, locals, stopArgs
  <2>2. Outside
    BY <1>8 DEF Outside, Hands, WithClient, FdBegun, Begun, vars, flags, driver,
                client, locals, stopArgs, doneArgs
  <2>3. Hands'
    BY <1>1, <1>8, <2>2, OutsideKeepsHands
  <2> QED
    BY <1>3, <2>1, <2>3
<1> QED
  BY <1>2, <1>4, <1>5, <1>6, <1>7, <1>8 DEF Next, Sound

\* In every reachable state of an orderly run.
LEMMA SoundAlways == ASSUME Orderly PROVE Spec => []Sound
  BY SoundInit, SoundNext, PTL DEF Spec

\* In an orderly run the reference count is, between two calls, the number of
\* started mux channels, and the shared stream is on, for the library and for
\* the driver, exactly while there is one: however the event thread and the
\* client's callback interleave with the calls, no count is lost.
THEOREM CountFollowsChannels == ASSUME Orderly PROVE Spec => []RefCountExact
<1>1. Sound => RefCountExact
  <2> SUFFICES ASSUME Sound, pc[App] \in {"idle", "finished"}
               PROVE  /\ refCount = Cardinality({c \in Channels : IsMux(c) /\ started[c]})
                      /\ muxStarted <=> refCount > 0
                      /\ IpcamMode => (muxStarted <=> 0 \in streaming)
    BY DEF RefCountExact
  <2>1. Base /\ Books
    BY DEF Sound, Dead, Threads
  <2>2. refCount = Cardinality(Muxed) /\ (muxStarted <=> Muxed # {})
    BY <2>1 DEF Books, Counted, SharedOn, Uncounted, StartLabels
  <2>3. Muxed # {} <=> refCount > 0
    BY <2>1, <2>2, MuxedFinite, FS_EmptySet DEF Base
  <2>4. IpcamMode => IsMux(0) /\ Fd(0) = 0
    BY VideoAssumption DEF VideoAssumption, IsMux, Fd
  <2>5. IpcamMode => (FdStarted(0) <=> Muxed # {})
    BY <2>4, ChannelFacts, FdStartedMux DEF Muxed
  <2>6. IpcamMode => (0 \in streaming <=> FdStarted(0))
    BY <2>1, <2>4, ChannelFacts DEF Books, DriverFollows
  <2> QED
    BY <2>2, <2>3, <2>5, <2>6 DEF Muxed
<1> QED
  BY <1>1, SoundAlways, PTL

\* In an orderly run an error stop of the event loop or of
\* mxuvc_video_cb_buf_done never takes effect: a failing VIDIOC_DQBUF or
\* VIDIOC_QBUF means that the application has stopped the channel before.
THEOREM ErrorStopsAreVain == ASSUME Orderly PROVE Spec => []NoSpuriousStop
<1>1. Sound => NoSpuriousStop
  BY DEF Sound, Dead, Threads, StopLabels, Hands, AtHand, StopVain, NoSpuriousStop
<1> QED
  BY <1>1, SoundAlways, PTL

\* In an orderly run no buffer is given back to the driver while the event loop
\* reads it or the client has it, whatever the client keeps and returns.
THEOREM FramesExclusive == ASSUME Orderly PROVE Spec => []ExclusiveBuffers
<1>1. Sound => ExclusiveBuffers
  BY DEF Sound
<1> QED
  BY <1>1, SoundAlways, PTL

\* In an orderly run, in which the camera stays and tells how many channels it
\* has, once mxuvc_video_deinit has returned, nothing is streaming, mapped or open,
\* whichever channels the application had left running.
THEOREM DeinitReleases == ASSUME Orderly PROVE Spec => []AllReleased
<1>1. Sound => AllReleased
  <2> SUFFICES ASSUME Sound, pc[App] = "finished"
               PROVE  streaming = {} /\ mapped = {} /\ opened = {}
    BY DEF AllReleased
  <2>1. Base /\ Books
    BY DEF Sound, Dead, Threads
  <2>2. opened = {} /\ \A f \in Fds : ~FdStarted(f)
    BY <2>1 DEF Books, DeinitsInTurn, Deiniting, StopLabels, FdStarted
  <2>3. \A f \in Fds : f \notin streaming /\ f \notin mapped
    BY <2>1, <2>2 DEF Books, DriverFollows
  <2> QED
    BY <2>1, <2>2, <2>3 DEF Base, DriverOK
<1> QED
  BY <1>1, SoundAlways, PTL
=============================================================================
