-------------------------- MODULE CaptureMuxProofs --------------------------
(***************************************************************************)
(* Proofs about CaptureMux: the tool is a client that the library allows,  *)
(* no buffer is lost between the callback and the SPI thread, and none is  *)
(* written by the driver while it is in the pipe.  They hold for every     *)
(* number of buffers, channels and event threads, every FIFO that has room *)
(* for the buffers, and every fault, on a camera in ipcam mode.            *)
(***************************************************************************)
EXTENDS CaptureMux, V4l2VideoProofs, SequenceTheorems

\* What is known of the library by itself.
LibraryInv == LoopInv /\ FlagsOK /\ DriverOK /\ ThreadsInv

PipeOK ==
  /\ fifoOut \in Seq(Buffers) /\ fifoIn \in Seq(Buffers)
  /\ spi \in Buffers \cup {NoBuf}

\* Before CH1 runs there is no event thread and nothing is in the pipe.
Quiet ==
  /\ fifoOut = <<>> /\ fifoIn = <<>> /\ spi = NoBuf /\ held[0] = {}
  /\ \A l \in Loops : pc[l] = "none"

\* main starts channel 0 once and no other, so the event thread dequeues from
\* channel 0 only, the callback it is in, or returns to, is that of channel 0,
\* and the client holds buffers of no other descriptor.
OneChannel ==
  /\ main = "start" \/ pc[App] = "start_queue" => Quiet
  /\ main = "start" => pc[App] = "idle"
  /\ pc[App] \in StartLabels => ch[App] = 0
  /\ \A c \in Channels : started[c] => c = 0
  /\ \A f \in Fds : f # 0 => held[f] = {}
  /\ \A l \in Loops :
       /\ pc[l] # "qbuf"
       /\ pc[l] \in {"check", "dqbuf", "handle", "cb_read"} => ch[l] = 0
       /\ \/ pc[l] \in {"cb_read", "cb"}
          \/ pc[l] \in DoneLabels /\ bret[l] = "cb"
          \/ pc[l] \in StopLabels /\ sret[l] = "cb"
          => bch[l] = 0

Distinct(q) == \A i, j \in DOMAIN q : q[i] = q[j] => i = j

\* No buffer is in the pipe twice; the client holds all of them, and what it
\* holds is not with the driver.
PipeInv ==
  /\ Distinct(fifoOut) /\ Distinct(fifoIn)
  /\ InFifo(fifoOut) \cap InFifo(fifoIn) = {}
  /\ spi \notin InFifo(fifoOut) \cup InFifo(fifoIn)
  /\ InPipe \subseteq held[0]
  /\ \A b \in held[0] : bufs[0][b] = "user"

\* The buffer that the event thread has in hand is not in the pipe, nor with
\* the driver; the client holds it from the call of its callback until
\* mxuvc_video_cb_buf_done takes it back.
InHand ==
  \A l \in Loops :
    /\ pc[l] \in {"handle", "cb_read"} =>
         /\ buf[l] \in Buffers /\ bufs[0][buf[l]] = "user" /\ buf[l] \notin InPipe
         /\ buf[l] \in held[0] <=> pc[l] = "cb_read"
    /\ pc[l] \in DoneLabels =>
         /\ bidx[l] \in Buffers /\ bufs[0][bidx[l]] = "user" /\ bidx[l] \notin InPipe
         /\ bidx[l] \in held[0] => pc[l] = "done" /\ Fd(bch[l]) = 0

CaptureInv == LibraryInv /\ PipeOK /\ OneChannel /\ PipeInv /\ InHand
-----------------------------------------------------------------------------
(* Fifos. *)

\* A write adds the entry, which stays distinct from the others.
LEMMA FifoAppend ==
  ASSUME NEW q \in Seq(Buffers), NEW b \in Buffers
  PROVE  /\ Append(q, b) \in Seq(Buffers)
         /\ InFifo(Append(q, b)) = InFifo(q) \cup {b}
         /\ Distinct(q) /\ b \notin InFifo(q) => Distinct(Append(q, b))
<1>1. /\ Append(q, b) \in Seq(Buffers) /\ Len(Append(q, b)) = Len(q) + 1
      /\ \A i \in 1 .. Len(q) : Append(q, b)[i] = q[i]
      /\ Append(q, b)[Len(q) + 1] = b
  BY AppendProperties
<1>2. Len(q) \in Nat /\ DOMAIN q = 1 .. Len(q) /\ DOMAIN Append(q, b) = 1 .. Len(q) + 1
  BY <1>1, LenProperties
<1>3. InFifo(Append(q, b)) = InFifo(q) \cup {b}
  BY <1>1, <1>2 DEF InFifo
<1>4. Distinct(q) /\ b \notin InFifo(q) => Distinct(Append(q, b))
  BY <1>1, <1>2 DEF InFifo, Distinct
<1> QED
  BY <1>1, <1>3, <1>4

\* A read removes the entry, which was there once.
LEMMA FifoTail ==
  ASSUME NEW q \in Seq(Buffers), q # <<>>
  PROVE  /\ Tail(q) \in Seq(Buffers) /\ Head(q) \in Buffers /\ Head(q) \in InFifo(q)
         /\ InFifo(Tail(q)) \subseteq InFifo(q)
         /\ InFifo(q) = InFifo(Tail(q)) \cup {Head(q)}
         /\ Distinct(q) => Distinct(Tail(q)) /\ Head(q) \notin InFifo(Tail(q))
<1>1. /\ Head(q) \in Buffers /\ Tail(q) \in Seq(Buffers)
      /\ Len(Tail(q)) = Len(q) - 1
      /\ \A i \in 1 .. Len(Tail(q)) : Tail(q)[i] = q[i + 1]
  BY HeadTailProperties
<1>2. Len(q) \in Nat \ {0} /\ DOMAIN q = 1 .. Len(q) /\ DOMAIN Tail(q) = 1 .. Len(q) - 1
  BY <1>1, EmptySeq, LenProperties
<1>3. Head(q) = q[1]
  OBVIOUS
<1>4. Head(q) \in InFifo(q)
  BY <1>2, <1>3 DEF InFifo
<1>5. \A i \in 1 .. Len(q) - 1 : Tail(q)[i] = q[i + 1] /\ i + 1 \in 1 .. Len(q) /\ i + 1 # 1
  BY <1>1, <1>2
<1>6. \A j \in 1 .. Len(q) : j = 1 \/ (j - 1 \in 1 .. Len(q) - 1 /\ q[j] = Tail(q)[j - 1])
  BY <1>1, <1>2
<1>7. InFifo(Tail(q)) \subseteq InFifo(q)
  BY <1>2, <1>5 DEF InFifo
<1>8. InFifo(q) \subseteq InFifo(Tail(q)) \cup {Head(q)}
  <2> SUFFICES ASSUME NEW j \in 1 .. Len(q) PROVE q[j] \in InFifo(Tail(q)) \cup {Head(q)}
    BY <1>2 DEF InFifo
  <2>1. CASE j = 1
    BY <1>3, <2>1
  <2>2. CASE j # 1
    BY <1>2, <1>6, <2>2 DEF InFifo
  <2> QED
    BY <2>1, <2>2
<1>9. ASSUME Distinct(q) PROVE Distinct(Tail(q)) /\ Head(q) \notin InFifo(Tail(q))
  <2>1. Head(q) \notin InFifo(Tail(q))
    BY <1>2, <1>3, <1>5, <1>9 DEF InFifo, Distinct
  <2>2. Distinct(Tail(q))
    BY <1>2, <1>5, <1>9 DEF Distinct
  <2> QED
    BY <2>1, <2>2
<1> QED
  BY <1>1, <1>4, <1>7, <1>8, <1>9

\* An empty FIFO.
LEMMA EmptyFifo == InFifo(<<>>) = {} /\ <<>> \in Seq(Buffers) /\ Distinct(<<>>)
  BY EmptySeq DEF InFifo, Distinct
-----------------------------------------------------------------------------
(* The tool is a client that the library allows. *)

\* Each step of the tool is a step of the library and its client.
LEMMA ClientStepAllowed ==
  ASSUME CaptureInv, [CaptureNext]_captureVars PROVE [Next]_vars
<1>1. CASE MainStart
  BY <1>1, ChannelFacts DEF MainStart, Next, AppCall
<1>2. CASE MainStop
  BY <1>2, ChannelFacts DEF MainStop, Next, AppCall
<1>3. CASE MainDeinit \/ MainError
  BY <1>3 DEF MainDeinit, MainError, Next, AppCall
<1>4. CASE MainInLibrary \/ World
  BY <1>4 DEF MainInLibrary, World, Next
<1>5. ASSUME NEW l \in Loops, EventThread(l) PROVE [Next]_vars
  <2>1. CASE CbQueue(l)
    BY <2>1 DEF CbQueue, Next, LoopStep, ClientStep
  <2>2. CASE CbDrain(l)
    <3>1. Head(fifoIn) \in Buffers /\ Head(fifoIn) \in held[0]
      BY <2>2, FifoTail DEF CbDrain, CaptureInv, PipeOK, PipeInv, InPipe
    <3>2. bch[l] = 0 /\ Fd(0) = 0
      BY <2>2 DEF CbDrain, At, CaptureInv, OneChannel, Fd
    <3>3. CbBufDone(l, Head(fifoIn))
      BY <2>2, <3>1, <3>2 DEF CbDrain, CbBufDone
    <3> QED
      BY <3>1, <3>3 DEF Next, LoopStep, ClientStep
  <2>3. CASE CbLeave(l)
    BY <2>3 DEF CbLeave, Next, LoopStep, ClientStep
  <2>4. CASE LibraryStep(l)
    BY <2>4 DEF LibraryStep, Next, LoopStep
  <2> QED
    BY <1>5, <2>1, <2>2, <2>3, <2>4 DEF EventThread, CallbackStep
<1>6. CASE SpiTake \/ SpiSent
  BY <1>6 DEF SpiTake, SpiSent
<1>7. CASE UNCHANGED captureVars
  BY <1>7 DEF captureVars
<1> QED
  BY <1>1, <1>2, <1>3, <1>4, <1>5, <1>6, <1>7 DEF CaptureNext

\* What the library keeps by itself it keeps under this client.
LEMMA LibraryNext == LibraryInv /\ [Next]_vars => LibraryInv'
  BY LoopInvNext, FlagsNext, DriverNext, ThreadsNext DEF LibraryInv
-----------------------------------------------------------------------------
(* The invariant. *)

\* The pipe carries buffers.
LEMMA PipeOKNext ==
  ASSUME CaptureInv, [CaptureNext]_captureVars PROVE PipeOK'
<1> USE DEF CaptureInv, PipeOK
<1>1. CASE UNCHANGED pipe
  BY <1>1 DEF pipe
<1>2. ASSUME NEW l \in Loops, EventThread(l) PROVE PipeOK'
  <2>1. CASE CbQueue(l)
    <3>1. buf[l] \in Buffers
      BY <2>1 DEF CbQueue, CbRead, At, InHand
    <3> QED
      BY <2>1, <3>1, FifoAppend DEF CbQueue, FifoWrite
  <2>2. CASE CbDrain(l)
    BY <2>2, FifoTail DEF CbDrain
  <2>3. CASE CbLeave(l) \/ LibraryStep(l)
    BY <1>1, <2>3 DEF CbLeave, LibraryStep
  <2> QED
    BY <1>2, <2>1, <2>2, <2>3 DEF EventThread, CallbackStep
<1>3. CASE SpiTake
  BY <1>3, FifoTail DEF SpiTake
<1>4. CASE SpiSent
  BY <1>4, FifoAppend DEF SpiSent, FifoWrite
<1> QED
  BY <1>1, <1>2, <1>3, <1>4 DEF CaptureNext, MainStart, MainStop, MainDeinit, MainError,
     MainInLibrary, World, captureVars

\* In ipcam mode channel 0 is a mux channel, and the descriptor 0 is theirs.
LEMMA MuxFacts == IpcamMode => IsMux(0) /\ Fd(0) = 0 /\ 0 \in Fds
  BY ChannelFacts, VideoAssumption DEF VideoAssumption, IsMux, Fd

\* Before anything starts all is quiet.
LEMMA CaptureInitOK == CaptureInit => CaptureInv
<1> SUFFICES ASSUME CaptureInit PROVE CaptureInv
  OBVIOUS
<1>1. Init /\ fifoOut = <<>> /\ fifoIn = <<>> /\ spi = NoBuf /\ main = "start"
  BY DEF CaptureInit
<1>2. LibraryInv
  BY <1>1, LoopInvInit, TypeInit DEF LibraryInv
<1>3. pc[App] = "idle" /\ \A l \in Loops : pc[l] = "none"
  BY <1>1, AppIsNoLoop DEF Init, Threads
<1>4. /\ held[0] = {} /\ \A c \in Channels : ~started[c]
      /\ \A f \in Fds : held[f] = {}
  <2>1. 0 \in Fds
    BY ChannelFacts DEF Fd
  <2> QED
    BY <1>1, <2>1 DEF Init
<1>5. PipeOK /\ InPipe = {}
  BY <1>1, EmptyFifo DEF PipeOK, InPipe
<1>6. OneChannel
  BY <1>1, <1>3, <1>4 DEF OneChannel, Quiet, StartLabels, StopLabels, DoneLabels
<1>7. PipeInv
  <2>1. NoBuf \notin InFifo(<<>>)
    BY EmptyFifo
  <2> QED
    BY <1>1, <1>4, <1>5, <2>1, EmptyFifo DEF PipeInv
<1>8. InHand
  BY <1>3 DEF InHand, DoneLabels
<1> QED
  BY <1>2, <1>5, <1>6, <1>7, <1>8 DEF CaptureInv

\* main and its library calls stay on channel 0.
LEMMA OneChannelMain ==
  ASSUME CaptureInv,
         MainStart \/ MainStop \/ MainDeinit \/ MainError \/ MainInLibrary
  PROVE  OneChannel'
<1> USE AppIsNoLoop, ChannelFacts
  DEF CaptureInv, LibraryInv, OneChannel, Quiet, StartLabels, LoopInv, ThreadPlaces,
      FlagsOK, ThreadsInv, ThreadsOK, Threads, StopLabels, DoneLabels, Goto, At, flags,
      driver, stopArgs, doneArgs, locals, client, pipe
<1>1. CASE MainStart
  BY <1>1 DEF MainStart, StartChannel, InitMmap
<1>2. CASE MainStop
  BY <1>2 DEF MainStop, StopChannel, CallStop, vars
<1>3. CASE MainDeinit \/ MainError
  BY <1>3 DEF MainDeinit, MainError, Deinit
<1>4. ASSUME UNCHANGED <<pipe, main>>, AppStep PROVE OneChannel'
  <2>1. CASE StartQueue
    BY <1>4, <2>1 DEF StartQueue
  <2>2. CASE StartLoop
    BY <1>4, <2>2 DEF StartLoop, CallStop
  <2>3. CASE StartWait \/ StartMux \/ StartLoad \/ StartRef
    BY <1>4, <2>3 DEF StartWait, StartMux, StartLoad, StartRef
  <2>4. CASE DeinitChannel \/ DeinitClose
    BY <1>4, <2>4 DEF DeinitChannel, DeinitClose, CallStop
  <2>9. CASE DeinitBeyond
    BY <1>4, <2>9 DEF DeinitBeyond, Crash
  <2>5. CASE StopEnter(App) \/ StopLoad(App) \/ StopDec(App)
    BY <1>4, <2>5 DEF StopEnter, StopLoad, StopDec, StopReturn
  <2>6. CASE StopClear(App)
    BY <1>4, <2>6 DEF StopClear, StopReturn
  <2>7. CASE StopFlags(App)
    BY <1>4, <2>7 DEF StopFlags
  <2>8. CASE StopStream(App) \/ StopUnmap(App)
    BY <1>4, <2>8 DEF StopStream, StopUnmap, StopReturn
  <2> QED
    BY <1>4, <2>1, <2>2, <2>3, <2>4, <2>5, <2>6, <2>7, <2>8, <2>9
    DEF AppStep, DeinitNext, Stop
<1> QED
  BY <1>1, <1>2, <1>3, <1>4 DEF MainInLibrary

\* So do the event thread, whose library knows of no other started channel, and
\* its callback.
LEMMA OneChannelLoop ==
  ASSUME IpcamMode, CaptureInv, NEW l \in Loops, EventThread(l) PROVE OneChannel'
<1> USE AppIsNoLoop, ChannelFacts, MuxFacts
  DEF CaptureInv, LibraryInv, OneChannel, StartLabels, LoopInv, ThreadPlaces,
      FlagsOK, ThreadsInv, ThreadsOK, Threads, StopLabels, DoneLabels, Goto, At, flags,
      driver, stopArgs, doneArgs, locals, client, pipe
<1>0. pc[l] # "none" /\ main # "start" /\ pc[App] # "start_queue"
  <2>1. pc[l] # "none"
    BY DEF EventThread, CallbackStep, LibraryStep, EventStep, CbQueue, CbRead, CbDrain,
       CbLeave, CbReturn, LoopEnter, LoopTop, LoopScan, LoopSelect, LoopPass,
       LoopCheck, LoopDequeue, LoopHandle, Segfault, BufDoneCheck, BufDoneQueue, Stop, StopEnter,
       StopLoad, StopDec, StopClear, StopFlags, StopStream, StopUnmap, LoopFinal,
       LoopQueue, LoopNext, LoopExit
  <2> QED
    BY <2>1 DEF Quiet
<1>1. CASE CallbackStep(l)
  BY <1>0, <1>1 DEF CallbackStep, CbQueue, CbRead, CbDrain, CallBufDone, CbLeave, CbReturn
<1>2. ASSUME UNCHANGED <<pipe, main>>, EventStep(l) PROVE OneChannel'
  <2>1. CASE LoopEnter(l) \/ LoopTop(l)
    BY <1>0, <1>2, <2>1 DEF LoopEnter, LoopTop
  <2>2. CASE LoopScan(l)
    BY <1>0, <1>2, <2>2 DEF LoopScan
  <2>3. CASE LoopSelect(l)
    BY <1>0, <1>2, <2>3 DEF LoopSelect
  <2>4. CASE LoopPass(l)
    BY <1>0, <1>2, <2>4, IndexFacts DEF LoopPass
  <2>5. CASE LoopCheck(l) \/ LoopDequeue(l)
    BY <1>0, <1>2, <2>5 DEF LoopCheck, LoopDequeue, CallStop
  <2>6. CASE LoopHandle(l)
    <3>1. HandleMux(l)
      BY <2>6 DEF LoopHandle
    <3>2. \A id \in BoxIds : id <= MuxCount /\ started[id] => id = 0
      BY IndexFacts
    <3> QED
      BY <1>0, <1>2, <2>6, <3>1, <3>2 DEF LoopHandle, HandleMux, CallClient, CallBufDone
  <2>7. CASE Segfault(l)
    BY <1>2, <2>7, <1>0 DEF Segfault, Crash
  <2>8. CASE BufDoneCheck(l)
    BY <1>0, <1>2, <2>8 DEF BufDoneCheck, DoneReturn
  <2>9. CASE BufDoneQueue(l)
    BY <1>0, <1>2, <2>9 DEF BufDoneQueue, DoneReturn, CallStop
  <2>10. CASE StopEnter(l) \/ StopLoad(l) \/ StopDec(l)
    BY <1>0, <1>2, <2>10 DEF StopEnter, StopLoad, StopDec, StopReturn
  <2>11. CASE StopClear(l)
    BY <1>0, <1>2, <2>11 DEF StopClear, StopReturn
  <2>12. CASE StopFlags(l)
    BY <1>0, <1>2, <2>12 DEF StopFlags
  <2>13. CASE StopStream(l) \/ StopUnmap(l)
    BY <1>0, <1>2, <2>13 DEF StopStream, StopUnmap, StopReturn
  <2>14. CASE LoopFinal(l)
    BY <1>0, <1>2, <2>14 DEF LoopFinal
  <2>15. CASE LoopQueue(l)
    BY <2>15 DEF LoopQueue
  <2>16. CASE LoopNext(l) \/ LoopExit(l)
    BY <1>0, <1>2, <2>16 DEF LoopNext, LoopExit
  <2> QED
    BY <1>2, <2>1, <2>2, <2>3, <2>4, <2>5, <2>6, <2>7, <2>8, <2>9, <2>10, <2>11,
       <2>12, <2>13, <2>14, <2>15, <2>16 DEF EventStep, Stop
<1> QED
  BY <1>1, <1>2 DEF EventThread, LibraryStep

\* No step leads to another channel.
LEMMA OneChannelNext ==
  ASSUME IpcamMode, CaptureInv, [CaptureNext]_captureVars PROVE OneChannel'
<1>1. CASE SpiTake \/ SpiSent
  <2>1. ~Quiet
    BY <1>1 DEF SpiTake, SpiSent, Quiet
  <2> QED
    BY <1>1, <2>1 DEF SpiTake, SpiSent, CaptureInv, OneChannel, vars, flags, locals,
       client, stopArgs, doneArgs
<1>2. CASE World
  BY <1>2 DEF World, Camera, Unplug, Fill, CaptureInv, OneChannel, Quiet, flags, client,
     locals, stopArgs, doneArgs, pipe
<1>3. CASE UNCHANGED captureVars
  BY <1>3 DEF captureVars, CaptureInv, OneChannel, Quiet, vars, flags, client, locals,
     stopArgs, doneArgs, pipe
<1> QED
  BY <1>1, <1>2, <1>3, OneChannelMain, OneChannelLoop DEF CaptureNext
-----------------------------------------------------------------------------
(* The buffers. *)

HandLabels == {"handle", "cb_read", "done", "done_qbuf"}

\* Steps that have nothing to do with the pipe or a buffer in hand: they move no
\* buffer of channel 0 from outside the driver's queues into them.
Elsewhere ==
  /\ UNCHANGED <<pipe, held>>
  /\ \A b \in Buffers : bufs[0][b] = "user" => bufs'[0][b] = "user"
  /\ Crashed => Crashed'
  /\ \A l \in Loops :
       pc[l] \in HandLabels \/ pc'[l] \in HandLabels =>
         /\ pc'[l] = pc[l] /\ buf'[l] = buf[l] /\ bidx'[l] = bidx[l]
         /\ bch'[l] = bch[l]

\* Such a step disturbs nothing here.
LEMMA ElsewhereKeeps ==
  ASSUME IpcamMode, CaptureInv, Elsewhere
  PROVE  PipeInv' /\ InHand' /\ (NoLeak => NoLeak')
<1>1. held[0] \subseteq Buffers /\ InPipe' = InPipe
  BY MuxFacts DEF CaptureInv, LibraryInv, ThreadsInv, Elsewhere, pipe, InPipe, InFifo
<1>2. PipeInv'
  BY <1>1 DEF CaptureInv, PipeInv, Elsewhere, pipe, Distinct, InFifo
<1>3. InHand'
  BY <1>1 DEF CaptureInv, InHand, Elsewhere, HandLabels, DoneLabels, Fd, IsMux
<1>4. NoLeak => NoLeak'
  <2>1. {buf'[l] : l \in {k \in Loops : pc'[k] = "cb_read"}}
          = {buf[l] : l \in {k \in Loops : pc[k] = "cb_read"}}
    BY DEF Elsewhere, HandLabels
  <2>2. {bidx'[l] : l \in {k \in Loops : pc'[k] = "done"}}
          = {bidx[l] : l \in {k \in Loops : pc[k] = "done"}}
    BY DEF Elsewhere, HandLabels
  <2>3. held' = held /\ (Crashed => Crashed')
    BY DEF Elsewhere
  <2> QED
    BY <1>1, <2>1, <2>2, <2>3 DEF NoLeak
<1> QED
  BY <1>2, <1>3, <1>4

\* What main and the camera do is elsewhere, but for the start of the stream.
LEMMA MainElsewhere ==
  ASSUME IpcamMode, CaptureInv, ~StartQueue, ~DeinitBeyond,
         \/ MainStart \/ MainStop \/ MainDeinit \/ MainError \/ MainInLibrary \/ World
         \/ UNCHANGED captureVars
  PROVE  Elsewhere
<1> USE AppIsNoLoop, MuxFacts
  DEF CaptureInv, LibraryInv, LoopInv, ThreadPlaces, ThreadsInv, ThreadsOK, Threads,
      DriverOK, BufState, Elsewhere, Crashed, HandLabels, StopLabels, AppLabels, Goto, At,
      flags, driver, client, stopArgs, doneArgs, locals
<1>1. CASE MainStart
  BY <1>1, ChannelFacts DEF MainStart, StartChannel, InitMmap
<1>2. CASE MainStop
  BY <1>2 DEF MainStop, StopChannel, CallStop, vars
<1>3. CASE MainDeinit \/ MainError
  BY <1>3 DEF MainDeinit, MainError, Deinit
<1>4. CASE World
  <2>1. CASE Unplug
    BY <1>4, <2>1 DEF World, Unplug
  <2>2. ASSUME NEW f \in Fds, Fill(f) PROVE Elsewhere
    <3>1. \A b \in Buffers : bufs[0][b] = "user" => bufs'[0][b] = "user"
      BY <2>2 DEF Fill
    <3> QED
      BY <1>4, <2>2, <3>1 DEF World, Fill
  <2> QED
    BY <1>4, <2>1, <2>2 DEF World, Camera
<1>5. CASE UNCHANGED captureVars
  BY <1>5 DEF captureVars, vars
<1>6. ASSUME UNCHANGED pipe, AppStep PROVE Elsewhere
  <2>1. CASE StartLoop
    BY <1>6, <2>1 DEF StartLoop, CallStop
  <2>2. CASE StartWait \/ StartMux \/ StartLoad \/ StartRef
    BY <1>6, <2>2 DEF StartWait, StartMux, StartLoad, StartRef
  <2>3. CASE DeinitChannel \/ DeinitClose
    BY <1>6, <2>3 DEF DeinitChannel, DeinitClose, CallStop
  <2>4. CASE StopEnter(App) \/ StopLoad(App) \/ StopDec(App)
    BY <1>6, <2>4 DEF StopEnter, StopLoad, StopDec, StopReturn
  <2>5. CASE StopClear(App) \/ StopFlags(App)
    BY <1>6, <2>5 DEF StopClear, StopFlags, StopReturn
  <2>6. CASE StopStream(App) \/ StopUnmap(App)
    BY <1>6, <2>6 DEF StopStream, StopUnmap, StopReturn
  <2> QED
    BY <1>6, <2>1, <2>2, <2>3, <2>4, <2>5, <2>6 DEF AppStep, DeinitNext, Stop
<1> QED
  BY <1>1, <1>2, <1>3, <1>4, <1>5, <1>6 DEF MainInLibrary

\* So is most of what the event thread does in the library, and its return from
\* the callback.
LEMMA LoopElsewhere ==
  ASSUME IpcamMode, CaptureInv, NEW l \in Loops, UNCHANGED pipe,
         \/ CbReturn(l)
         \/ LoopEnter(l) \/ LoopTop(l) \/ LoopScan(l) \/ LoopSelect(l) \/ LoopPass(l)
         \/ Stop(l) \/ LoopFinal(l) \/ LoopQueue(l) \/ LoopNext(l) \/ LoopExit(l)
         \/ LoopCheck(l)
         \/ LoopDequeue(l) /\ pc'[l] # "handle"
  PROVE  Elsewhere
<1> USE AppIsNoLoop, MuxFacts
  DEF CaptureInv, LibraryInv, LoopInv, ThreadPlaces, ThreadsInv, ThreadsOK, Threads,
      DriverOK, BufState, Elsewhere, Crashed, HandLabels, StopLabels, Goto, At,
      flags, driver, client, stopArgs, doneArgs, locals
<1>1. CASE CbReturn(l) \/ LoopEnter(l) \/ LoopTop(l) \/ LoopScan(l)
  BY <1>1 DEF CbReturn, LoopEnter, LoopTop, LoopScan
<1>2. CASE LoopSelect(l) \/ LoopPass(l)
  BY <1>2 DEF LoopSelect, LoopPass
<1>3. CASE StopEnter(l) \/ StopLoad(l) \/ StopDec(l)
  BY <1>3 DEF StopEnter, StopLoad, StopDec, StopReturn
<1>4. CASE StopClear(l) \/ StopFlags(l)
  BY <1>4 DEF StopClear, StopFlags, StopReturn
<1>5. CASE StopStream(l)
  BY <1>5 DEF StopStream
<1>6. CASE StopUnmap(l)
  BY <1>6 DEF StopUnmap, StopReturn
<1>7. CASE LoopFinal(l) \/ LoopNext(l) \/ LoopExit(l)
  BY <1>7 DEF LoopFinal, LoopNext, LoopExit
<1>8. CASE LoopQueue(l)
  BY <1>8 DEF LoopQueue, OneChannel
<1>9. CASE LoopDequeue(l) /\ pc'[l] # "handle"
  BY <1>9 DEF LoopDequeue, CallStop
<1>10. CASE LoopCheck(l)
  BY <1>10 DEF LoopCheck
<1> QED
  BY <1>1, <1>2, <1>3, <1>4, <1>5, <1>6, <1>7, <1>8, <1>9, <1>10 DEF Stop

\* What happens to the buffers while the pipe stands still.
LEMMA PipeSame ==
  ASSUME PipeInv, UNCHANGED pipe, InPipe \subseteq held'[0],
         \A b \in held'[0] : bufs'[0][b] = "user"
  PROVE  PipeInv'
<1>1. /\ Distinct(fifoOut)' /\ Distinct(fifoIn)' /\ InPipe' = InPipe
      /\ InFifo(fifoOut)' = InFifo(fifoOut) /\ InFifo(fifoIn)' = InFifo(fifoIn)
      /\ spi' = spi
  BY DEF pipe, PipeInv, Distinct, InFifo, InPipe
<1> QED
  BY <1>1 DEF PipeInv

\* The start of the stream queues buffers that nobody has.
LEMMA QueueKeeps ==
  ASSUME IpcamMode, CaptureInv, StartQueue, UNCHANGED pipe
  PROVE  PipeInv' /\ InHand' /\ (NoLeak => NoLeak')
<1>1. Quiet
  BY DEF StartQueue, At, CaptureInv, OneChannel
<1>2. held' = held /\ (\A l \in Loops : pc'[l] = "none") /\ Quiet'
  BY <1>1, AppIsNoLoop
  DEF StartQueue, Quiet, client, Goto, CaptureInv, LibraryInv, LoopInv, ThreadPlaces,
      Threads, pipe
<1>3. InFifo(<<>>) = {} /\ Distinct(<<>>) /\ held'[0] = {}
  BY <1>1, <1>2, EmptyFifo DEF Quiet
<1>4. PipeInv'
  BY <1>2, <1>3 DEF PipeInv, Quiet, InPipe
<1>5. InHand' /\ NoLeak'
  BY <1>2, <1>3 DEF InHand, DoneLabels, NoLeak
<1> QED
  BY <1>4, <1>5

\* Of the event threads only one is at work.
LEMMA OtherLoops ==
  ASSUME CaptureInv, NEW l \in Loops, pc[l] \notin {"none", "crashed"},
         NEW k \in Loops, k # l
  PROVE  pc[k] \in {"none", "crashed"}
  BY DEF CaptureInv, LibraryInv, LoopInv, SingleLoop, Live

\* A dequeued buffer was with the driver, so neither the client nor the pipe
\* has it.
LEMMA DequeueKeeps ==
  ASSUME IpcamMode, CaptureInv, NEW l \in Loops, LoopDequeue(l), UNCHANGED pipe,
         pc'[l] = "handle"
  PROVE  PipeInv' /\ InHand' /\ (NoLeak => NoLeak')
<1> USE AppIsNoLoop, MuxFacts
  DEF CaptureInv, LibraryInv, LoopInv, ThreadPlaces, ThreadsInv, ThreadsOK, Threads,
      DriverOK, BufState
<1>1. PICK b \in Buffers :
        /\ bufs[0][b] = "done" /\ bufs' = [bufs EXCEPT ![0][b] = "user"]
        /\ buf' = [buf EXCEPT ![l] = b] /\ pc' = [pc EXCEPT ![l] = "handle"]
        /\ pc[l] = "dqbuf" /\ UNCHANGED <<held, bidx, bch>>
  <2>1. Fd(ch[l]) = 0
    BY DEF LoopDequeue, At, OneChannel
  <2> QED
    BY <2>1 DEF LoopDequeue, At, Goto, CallStop, client, doneArgs
<1>2. b \notin held[0] /\ b \notin InPipe /\ InPipe' = InPipe
  BY <1>1 DEF PipeInv, InPipe, InFifo, pipe
<1>3. \A c \in Buffers : bufs'[0][c] = IF c = b THEN "user" ELSE bufs[0][c]
  BY <1>1
<1>4. PipeInv'
  <2>1. \A c \in held'[0] : bufs'[0][c] = "user"
    BY <1>1, <1>3 DEF PipeInv
  <2> QED
    BY <1>1, <2>1, PipeSame DEF PipeInv
<1>5. \A k \in Loops \ {l} : pc'[k] \in {"none", "crashed"}
  BY <1>1, OtherLoops
<1>6. InHand'
  BY <1>1, <1>2, <1>3, <1>5 DEF InHand, DoneLabels
<1>7. ASSUME NoLeak PROVE NoLeak'
  <2>1. ~Crashed' => held[0] \subseteq InPipe
          \cup {buf[k] : k \in {j \in Loops : pc[j] = "cb_read"}}
          \cup {bidx[k] : k \in {j \in Loops : pc[j] = "done"}}
    BY <1>1, <1>7 DEF NoLeak, Crashed
  <2>2. \A k \in Loops : pc[k] \notin {"cb_read", "done"}
    BY <1>1, OtherLoops
  <2> QED
    BY <1>1, <1>2, <2>1, <2>2 DEF NoLeak
<1> QED
  BY <1>4, <1>6, <1>7

\* event_loop gives the client the buffer it has in hand, or drops it.
LEMMA HandleKeeps ==
  ASSUME IpcamMode, CaptureInv, NEW l \in Loops, LoopHandle(l), UNCHANGED pipe
  PROVE  PipeInv' /\ InHand' /\ (NoLeak => NoLeak')
<1> USE AppIsNoLoop, MuxFacts
  DEF CaptureInv, LibraryInv, LoopInv, ThreadPlaces, ThreadsInv, ThreadsOK, Threads
<1>1. /\ pc[l] = "handle" /\ buf[l] \in Buffers /\ bufs[0][buf[l]] = "user"
      /\ buf[l] \notin InPipe /\ buf[l] \notin held[0] /\ UNCHANGED <<buf, bufs>>
  BY DEF LoopHandle, At, InHand, driver
<1>2. InPipe' = InPipe /\ held[0] \subseteq Buffers
  BY DEF pipe, InPipe, InFifo
<1>3. \A k \in Loops \ {l} : pc[k] \in {"none", "crashed"}
  BY <1>1, OtherLoops
<1>4. \/ /\ pc' = [pc EXCEPT ![l] = "cb_read"] /\ bidx' = bidx
         /\ held' = [held EXCEPT ![0] = @ \cup {buf[l]}]
      \/ /\ pc' = [pc EXCEPT ![l] = "done"] /\ bidx' = [bidx EXCEPT ![l] = buf[l]]
         /\ held' = held
      \/ /\ pc' = [pc EXCEPT ![l] = "final"] /\ UNCHANGED <<held, bidx>>
  <2>1. HandleMux(l)
    BY <1>1 DEF LoopHandle, OneChannel
  <2>2. \A id \in BoxIds : id <= MuxCount /\ started[id] => id = 0
    BY IndexFacts DEF OneChannel
  <2> QED
    BY <2>1, <2>2 DEF HandleMux, CallClient, CallBufDone, Goto, doneArgs
<1>5. PipeInv'
  <2>1. InPipe \subseteq held'[0] /\ held'[0] \subseteq held[0] \cup {buf[l]}
    BY <1>4 DEF PipeInv
  <2>2. \A c \in held'[0] : bufs'[0][c] = "user"
    BY <1>1, <2>1 DEF PipeInv
  <2> QED
    BY <2>1, <2>2, PipeSame
<1>6. InHand'
  BY <1>1, <1>2, <1>3, <1>4 DEF InHand, DoneLabels
<1>7. ASSUME NoLeak PROVE NoLeak'
  <2>1. \A k \in Loops : pc[k] \notin {"cb_read", "done"}
    BY <1>1, <1>3
  <2>2. ~Crashed' => held[0] \subseteq InPipe
    BY <1>4, <1>7, <2>1 DEF NoLeak, Crashed
  <2>3. pc'[l] = "cb_read" \/ held'[0] = held[0]
    BY <1>4
  <2>4. held'[0] \subseteq held[0] \cup {buf'[l]}
    BY <1>1, <1>4
  <2> QED
    BY <1>2, <2>2, <2>3, <2>4 DEF NoLeak
<1> QED
  BY <1>5, <1>6, <1>7
-----------------------------------------------------------------------------
(* The callback and the SPI thread. *)

\* A FIFO without duplicates is as long as its set of entries is large.
LEMMA FifoCard ==
  ASSUME NEW q \in Seq(Buffers), Distinct(q)
  PROVE  IsFiniteSet(InFifo(q)) /\ Cardinality(InFifo(q)) = Len(q)
<1>1. Len(q) \in Nat /\ DOMAIN q = 1 .. Len(q) /\ q = [i \in 1 .. Len(q) |-> q[i]]
  BY LenProperties
<1>2. IsFiniteSet(1 .. Len(q)) /\ Cardinality(1 .. Len(q)) = Len(q)
  <2>1. 1 \in Int /\ Len(q) \in Int
    BY <1>1
  <2>2. /\ IsFiniteSet(1 .. Len(q))
        /\ Cardinality(1 .. Len(q)) = IF 1 > Len(q) THEN 0 ELSE Len(q) - 1 + 1
    BY ONLY <2>1, FS_Interval
  <2> QED
    BY <1>1, <2>2
<1>3. q \in [1 .. Len(q) -> InFifo(q)]
  BY <1>1 DEF InFifo
<1>4. q \in Surjection(1 .. Len(q), InFifo(q))
  BY <1>1, <1>3 DEF Surjection, InFifo
<1>5. q \in Injection(1 .. Len(q), InFifo(q))
  BY <1>1, <1>3 DEF Injection, IsInjective, Distinct
<1> QED
  BY <1>2, <1>4, <1>5, FS_Surjection

\* A FIFO that can hold every buffer has room for one that is not in it.
LEMMA RoomForOne ==
  ASSUME Cardinality(Buffers) < FifoSize,
         NEW q \in Seq(Buffers), Distinct(q), NEW b \in Buffers \ InFifo(q)
  PROVE  FifoWrite(q, b) = Append(q, b)
<1>1. IsFiniteSet(Buffers) /\ FifoSize \in Nat
  BY VideoAssumption, CaptureAssumption DEF VideoAssumption, CaptureAssumption
<1>2. InFifo(q) \in SUBSET (Buffers \ {b})
  BY LenProperties DEF InFifo
<1>3. /\ IsFiniteSet(Buffers \ {b}) /\ Cardinality(Buffers \ {b}) = Cardinality(Buffers) - 1
      /\ Cardinality(Buffers) \in Nat
  BY <1>1, FS_RemoveElement, FS_CardinalityType
<1>4. Len(q) <= Cardinality(Buffers) - 1 /\ Len(q) \in Nat
  BY <1>2, <1>3, FifoCard, FS_Subset, LenProperties
<1> QED
  BY <1>1, <1>3, <1>4 DEF FifoWrite

\* When no thread has a buffer in hand.
LEMMA HandsFree ==
  ASSUME \A k \in Loops : pc'[k] \notin HandLabels PROVE InHand'
  BY DEF InHand, HandLabels, DoneLabels

\* Before the callback of l passes its buffer on, that is the one outside the pipe.
LEMMA OneOutside ==
  ASSUME NoLeak, ~Crashed, NEW l \in Loops,
         \A k \in Loops : pc[k] # "done" /\ (pc[k] = "cb_read" => k = l)
  PROVE  held[0] \subseteq InPipe \cup {buf[l]}
  BY DEF NoLeak

\* The callback passes the buffer on.
LEMMA CbQueueKeeps ==
  ASSUME IpcamMode, CaptureInv, NEW l \in Loops, CbQueue(l)
  PROVE  /\ PipeInv' /\ InHand'
         /\ Cardinality(Buffers) < FifoSize /\ NoLeak => NoLeak'
<1> USE AppIsNoLoop, MuxFacts
  DEF CaptureInv, LibraryInv, LoopInv, ThreadPlaces, ThreadsInv, ThreadsOK, Threads, PipeOK
<1>1. /\ pc[l] = "cb_read" /\ pc' = [pc EXCEPT ![l] = "cb"]
      /\ buf[l] \in Buffers /\ buf[l] \notin InPipe /\ buf[l] \in held[0]
      /\ UNCHANGED <<buf, bufs, bidx, bch, held, fifoIn, spi>>
      /\ fifoOut' = FifoWrite(fifoOut, buf[l])
  BY DEF CbQueue, CbRead, At, Goto, InHand, driver, locals, doneArgs, client
<1>2. \A k \in Loops \ {l} : pc[k] \in {"none", "crashed"}
  BY <1>1, OtherLoops
<1>3. \/ fifoOut' = fifoOut
      \/ /\ fifoOut' = Append(fifoOut, buf[l])
         /\ InFifo(fifoOut') = InFifo(fifoOut) \cup {buf[l]}
         /\ Distinct(fifoOut')
  BY <1>1, FifoAppend DEF FifoWrite, PipeInv, InPipe
<1>4. InFifo(fifoOut') \subseteq InFifo(fifoOut) \cup {buf[l]} /\ Distinct(fifoOut')
  BY <1>3 DEF PipeInv
<1>5. InFifo(fifoIn)' = InFifo(fifoIn) /\ Distinct(fifoIn)'
  BY <1>1 DEF PipeInv, InFifo, Distinct
<1>6. InPipe' \subseteq InPipe \cup {buf[l]}
  BY <1>1, <1>4, <1>5 DEF InPipe
<1>7. PipeInv'
  <2>1. buf[l] \notin InFifo(fifoIn) /\ buf[l] # spi
    BY <1>1, CaptureAssumption DEF InPipe, CaptureAssumption
  <2> QED
    BY <1>1, <1>4, <1>5, <1>6, <2>1 DEF PipeInv
<1>8. InHand'
  <2>1. \A k \in Loops : pc'[k] \notin HandLabels
    BY <1>1, <1>2 DEF HandLabels
  <2> QED
    BY <2>1, HandsFree
<1>9. ASSUME Cardinality(Buffers) < FifoSize, NoLeak PROVE NoLeak'
  <2>1. InPipe' = InPipe \cup {buf[l]}
    <3>1. fifoOut' = Append(fifoOut, buf[l])
      BY <1>1, <1>9, RoomForOne DEF PipeInv, InPipe
    <3>2. InFifo(fifoOut') = InFifo(fifoOut) \cup {buf[l]}
      BY <1>1, <3>1, FifoAppend
    <3> QED
      BY <1>1, <1>5, <3>2 DEF InPipe
  <2>2. ~Crashed' => held[0] \subseteq InPipe \cup {buf[l]}
    <3>1. \A k \in Loops : pc[k] # "done" /\ (pc[k] = "cb_read" => k = l)
      BY <1>1, <1>2
    <3>2. Crashed => Crashed'
      BY <1>1 DEF Crashed
    <3> QED
      BY <1>9, <3>1, <3>2, OneOutside
  <2> QED
    BY <1>1, <2>1, <2>2 DEF NoLeak
<1> QED
  BY <1>7, <1>8, <1>9

\* The callback returns what came back.
LEMMA CbDrainKeeps ==
  ASSUME IpcamMode, CaptureInv, NEW l \in Loops, CbDrain(l)
  PROVE  PipeInv' /\ InHand' /\ (NoLeak => NoLeak')
<1> DEFINE b == Head(fifoIn)
<1> USE AppIsNoLoop, MuxFacts
  DEF CaptureInv, LibraryInv, LoopInv, ThreadPlaces, ThreadsInv, ThreadsOK, Threads, PipeOK
<1>1. /\ pc[l] = "cb" /\ pc' = [pc EXCEPT ![l] = "done"]
      /\ fifoIn # <<>> /\ fifoIn' = Tail(fifoIn)
      /\ bidx' = [bidx EXCEPT ![l] = b] /\ bch' = [bch EXCEPT ![l] = 0]
      /\ UNCHANGED <<buf, bufs, held, fifoOut, spi>>
  BY DEF CbDrain, CallBufDone, At, Goto, driver, client
<1>2. \A k \in Loops \ {l} : pc[k] \in {"none", "crashed"}
  BY <1>1, OtherLoops
<1>3. /\ b \in Buffers /\ b \in InFifo(fifoIn)
      /\ InFifo(fifoIn) = InFifo(fifoIn') \cup {b}
      /\ Distinct(fifoIn') /\ b \notin InFifo(fifoIn')
  BY <1>1, FifoTail DEF PipeInv
<1>4. InFifo(fifoOut)' = InFifo(fifoOut) /\ Distinct(fifoOut)'
  BY <1>1 DEF PipeInv, InFifo, Distinct
<1>5. InPipe = InPipe' \cup {b} /\ b \notin InPipe' /\ b \in held[0]
  BY <1>1, <1>3, <1>4 DEF InPipe, PipeInv
<1> HIDE DEF b
<1>6. PipeInv'
  BY <1>1, <1>3, <1>4, <1>5 DEF PipeInv
<1>7. InHand'
  BY <1>1, <1>2, <1>3, <1>5 DEF InHand, DoneLabels, PipeInv
<1>8. ASSUME NoLeak PROVE NoLeak'
  <2>1. ~Crashed' => held[0] \subseteq InPipe
    BY <1>1, <1>2, <1>8 DEF NoLeak, Crashed
  <2>2. bidx'[l] = b /\ pc'[l] = "done"
    BY <1>1
  <2> QED
    BY <1>1, <1>5, <2>1, <2>2 DEF NoLeak
<1> QED
  BY <1>6, <1>7, <1>8

\* mxuvc_video_cb_buf_done takes the buffer back from the client, and then queues
\* it.
LEMMA BufDoneKeeps ==
  ASSUME IpcamMode, CaptureInv, NEW l \in Loops, UNCHANGED pipe,
         BufDoneCheck(l) \/ BufDoneQueue(l)
  PROVE  PipeInv' /\ InHand' /\ (NoLeak => NoLeak')
<1> USE AppIsNoLoop, MuxFacts
  DEF CaptureInv, LibraryInv, LoopInv, ThreadPlaces, ThreadsInv, ThreadsOK, Threads
<1>0. InPipe' = InPipe /\ held[0] \subseteq Buffers
  BY DEF pipe, InPipe, InFifo
<1>1. CASE BufDoneCheck(l)
  <2>1. /\ pc[l] = "done" /\ pc'[l] \in {"cb", "final", "done_qbuf"}
        /\ \A t \in Threads \ {l} : pc'[t] = pc[t]
        /\ pc'[l] = "done_qbuf" => UNCHANGED <<bidx, bch>>
        /\ UNCHANGED <<buf, bufs>>
        /\ held'[0] = IF Fd(bch[l]) = 0 THEN held[0] \ {bidx[l]} ELSE held[0]
    BY <1>1 DEF BufDoneCheck, At, Goto, driver, doneArgs
  <2>2. /\ bidx[l] \in Buffers /\ bufs[0][bidx[l]] = "user" /\ bidx[l] \notin InPipe
        /\ bidx[l] \in held[0] => Fd(bch[l]) = 0
    BY <2>1 DEF InHand, DoneLabels
  <2>3. held'[0] = held[0] \ {bidx[l]}
    BY <2>1, <2>2
  <2>4. \A k \in Loops \ {l} : pc'[k] \in {"none", "crashed"}
    BY <2>1, OtherLoops
  <2>5. PipeInv'
    BY <2>1, <2>2, <2>3, PipeSame DEF PipeInv
  <2>6. InHand'
    BY <1>0, <2>1, <2>2, <2>3, <2>4 DEF InHand, DoneLabels
  <2>7. ASSUME NoLeak PROVE NoLeak'
    <3>1. ~Crashed' => held[0] \subseteq InPipe \cup {bidx[l]}
      BY <2>1, <2>7, OtherLoops DEF NoLeak, Crashed
    <3> QED
      BY <1>0, <2>3, <3>1 DEF NoLeak
  <2> QED
    BY <2>5, <2>6, <2>7
<1>2. CASE BufDoneQueue(l)
  <2> USE DEF DriverOK, BufState
  <2>1. /\ pc[l] = "done_qbuf" /\ pc'[l] \in {"cb", "final", "stop"}
        /\ \A t \in Threads \ {l} : pc'[t] = pc[t]
        /\ UNCHANGED <<buf, held>>
    BY <1>2 DEF BufDoneQueue, At, Goto, CallStop, client
  <2>2. bidx[l] \in Buffers /\ bidx[l] \notin held[0]
    BY <2>1 DEF InHand, DoneLabels
  <2>3. \A b \in Buffers : b # bidx[l] => bufs'[0][b] = bufs[0][b]
    BY <1>2, <2>2 DEF BufDoneQueue
  <2>4. \A k \in Loops \ {l} : pc'[k] \in {"none", "crashed"}
    BY <2>1, OtherLoops
  <2>5. PipeInv'
    <3>1. \A b \in held'[0] : bufs'[0][b] = "user"
      BY <1>0, <2>1, <2>2, <2>3 DEF PipeInv
    <3> QED
      BY <2>1, <3>1, PipeSame DEF PipeInv
  <2>6. InHand'
    BY <2>1, <2>4 DEF InHand, DoneLabels
  <2>7. ASSUME NoLeak PROVE NoLeak'
    <3>1. ~Crashed' => held[0] \subseteq InPipe
      BY <2>1, <2>7, OtherLoops DEF NoLeak, Crashed
    <3> QED
      BY <1>0, <2>1, <3>1 DEF NoLeak
  <2> QED
    BY <2>5, <2>6, <2>7
<1> QED
  BY <1>1, <1>2

\* The SPI thread moves the oldest buffer from fifo_out to its own hands ...
LEMMA SpiTakeKeeps ==
  ASSUME CaptureInv, SpiTake PROVE PipeInv' /\ InHand' /\ (NoLeak => NoLeak')
<1> DEFINE b == Head(fifoOut)
<1>1. /\ spi = NoBuf /\ spi' = b /\ fifoOut' = Tail(fifoOut) /\ fifoOut # <<>>
      /\ UNCHANGED <<fifoIn, held, bufs, buf, bidx, bch, pc>>
  BY DEF SpiTake, vars, client, driver, locals, doneArgs
<1>2. /\ b \in Buffers /\ b \in InFifo(fifoOut)
      /\ InFifo(fifoOut) = InFifo(fifoOut') \cup {b}
      /\ Distinct(fifoOut') /\ b \notin InFifo(fifoOut')
  BY <1>1, FifoTail DEF CaptureInv, PipeOK, PipeInv
<1>3. b # NoBuf
  BY <1>2, CaptureAssumption DEF CaptureAssumption
<1> HIDE DEF b
<1>4. InPipe' = InPipe
  BY <1>1, <1>2, <1>3 DEF InPipe
<1>5. PipeInv'
  BY <1>1, <1>2, <1>4 DEF CaptureInv, PipeInv
<1>6. InHand' /\ (NoLeak => NoLeak')
  BY <1>1, <1>4 DEF CaptureInv, InHand, NoLeak, Crashed
<1> QED
  BY <1>5, <1>6

\* ... and passes it back through fifo_in.
LEMMA SpiSentKeeps ==
  ASSUME CaptureInv, SpiSent
  PROVE  /\ PipeInv' /\ InHand'
         /\ Cardinality(Buffers) < FifoSize /\ NoLeak => NoLeak'
<1>1. /\ spi # NoBuf /\ spi' = NoBuf /\ fifoIn' = FifoWrite(fifoIn, spi)
      /\ UNCHANGED <<fifoOut, held, bufs, buf, bidx, bch, pc>>
  BY DEF SpiSent, vars, client, driver, locals, doneArgs
<1>2. /\ spi \in Buffers /\ spi \notin InFifo(fifoIn) /\ spi \notin InFifo(fifoOut)
      /\ fifoIn \in Seq(Buffers) /\ fifoOut \in Seq(Buffers) /\ Distinct(fifoIn)
  BY <1>1 DEF CaptureInv, PipeOK, PipeInv
<1>3. \/ fifoIn' = fifoIn
      \/ /\ fifoIn' = Append(fifoIn, spi)
         /\ InFifo(fifoIn') = InFifo(fifoIn) \cup {spi}
         /\ Distinct(fifoIn')
  BY <1>1, <1>2, FifoAppend DEF FifoWrite
<1>4. InFifo(fifoIn') \subseteq InFifo(fifoIn) \cup {spi} /\ Distinct(fifoIn')
  BY <1>2, <1>3
<1>5. NoBuf \notin InFifo(fifoIn') \cup InFifo(fifoOut)
  <2>1. InFifo(fifoIn) \subseteq Buffers /\ InFifo(fifoOut) \subseteq Buffers
    BY <1>2, LenProperties DEF InFifo
  <2> QED
    BY <1>2, <1>4, <2>1, CaptureAssumption DEF CaptureAssumption
<1>6. InPipe' \subseteq InPipe
  BY <1>1, <1>4 DEF InPipe
<1>7. PipeInv'
  BY <1>1, <1>2, <1>4, <1>5, <1>6 DEF CaptureInv, PipeInv
<1>8. InHand'
  BY <1>1, <1>6 DEF CaptureInv, InHand
<1>9. ASSUME Cardinality(Buffers) < FifoSize, NoLeak PROVE NoLeak'
  <2>1. fifoIn' = Append(fifoIn, spi)
    BY <1>1, <1>2, <1>9, RoomForOne
  <2>2. InFifo(fifoIn') = InFifo(fifoIn) \cup {spi}
    BY <1>2, <2>1, FifoAppend
  <2>3. InPipe' = InPipe
    BY <1>1, <2>2 DEF InPipe
  <2> QED
    BY <1>1, <1>9, <2>3 DEF NoLeak, Crashed
<1> QED
  BY <1>7, <1>8, <1>9

\* The end of the process.
LEMMA CrashKeeps ==
  ASSUME CaptureInv, Crash, UNCHANGED pipe
  PROVE  PipeInv' /\ InHand' /\ NoLeak'
<1>1. (\A t \in Threads : pc'[t] = "crashed") /\ UNCHANGED <<held, bufs>>
  BY DEF Crash, client
<1>2. PipeInv'
  BY <1>1, PipeSame DEF CaptureInv, PipeInv
<1>3. InHand'
  BY <1>1, HandsFree DEF HandLabels, Threads
<1>4. NoLeak'
  BY <1>1 DEF NoLeak, Crashed, Threads
<1> QED
  BY <1>2, <1>3, <1>4

\* The event thread keeps track of its buffers.
LEMMA LoopKeeps ==
  ASSUME IpcamMode, CaptureInv, NEW l \in Loops, EventThread(l)
  PROVE  /\ PipeInv' /\ InHand'
         /\ Cardinality(Buffers) < FifoSize /\ NoLeak => NoLeak'
<1>1. CASE CbLeave(l)
  BY <1>1, LoopElsewhere, ElsewhereKeeps DEF CbLeave
<1>2. CASE LibraryStep(l)
  <2>1. UNCHANGED pipe /\ EventStep(l)
    BY <1>2 DEF LibraryStep
  <2>2. CASE LoopDequeue(l)
    BY <2>1, <2>2, DequeueKeeps, LoopElsewhere, ElsewhereKeeps
  <2>3. CASE LoopHandle(l)
    BY <2>1, <2>3, HandleKeeps
  <2>4. CASE Segfault(l)
    BY <2>1, <2>4, CrashKeeps DEF Segfault
  <2>5. CASE BufDoneCheck(l) \/ BufDoneQueue(l)
    BY <2>1, <2>5, BufDoneKeeps
  <2>6. CASE \/ LoopEnter(l) \/ LoopTop(l) \/ LoopScan(l) \/ LoopSelect(l)
             \/ LoopPass(l) \/ LoopCheck(l) \/ Stop(l) \/ LoopFinal(l)
             \/ LoopQueue(l) \/ LoopNext(l) \/ LoopExit(l)
    <3>1. Elsewhere
      BY <2>1, <2>6, LoopElsewhere
    <3> QED
      BY <3>1, ElsewhereKeeps
  <2> QED
    BY <2>1, <2>2, <2>3, <2>4, <2>5, <2>6 DEF EventStep
<1> QED
  BY <1>1, <1>2, CbQueueKeeps, CbDrainKeeps DEF EventThread, CallbackStep

\* So does every step.
LEMMA BuffersKept ==
  ASSUME IpcamMode, CaptureInv, [CaptureNext]_captureVars
  PROVE  /\ PipeInv' /\ InHand'
         /\ Cardinality(Buffers) < FifoSize /\ NoLeak => NoLeak'
<1>1. CASE StartQueue /\ UNCHANGED pipe
  BY <1>1, QueueKeeps
<1>2. ASSUME ~(StartQueue /\ UNCHANGED pipe), ~(DeinitBeyond /\ UNCHANGED pipe),
             \/ MainStart \/ MainStop \/ MainDeinit \/ MainError
             \/ MainInLibrary \/ World \/ UNCHANGED captureVars
      PROVE  Elsewhere
  <2>1. UNCHANGED pipe
    BY <1>2 DEF MainStart, MainStop, MainDeinit, MainError, MainInLibrary, World,
       captureVars
  <2> QED
    BY <1>2, <2>1, MainElsewhere
<1>3. CASE DeinitBeyond /\ UNCHANGED pipe
  BY <1>3, CrashKeeps DEF DeinitBeyond
<1> QED
  BY <1>1, <1>2, <1>3, ElsewhereKeeps, LoopKeeps, SpiTakeKeeps, SpiSentKeeps DEF CaptureNext

\* The invariant is inductive on a camera in ipcam mode.
LEMMA CaptureInvNext ==
  ASSUME IpcamMode PROVE CaptureInv /\ [CaptureNext]_captureVars => CaptureInv'
<1> SUFFICES ASSUME CaptureInv, [CaptureNext]_captureVars PROVE CaptureInv'
  OBVIOUS
<1>1. LibraryInv'
  BY ClientStepAllowed, LibraryNext DEF CaptureInv
<1> QED
  BY <1>1, PipeOKNext, OneChannelNext, BuffersKept DEF CaptureInv
-----------------------------------------------------------------------------
(* Results. *)

\* mxuvc_video_cb_buf_done gets only buffers that the client was given and has
\* not returned, and only from its callback: capture_mux.c, as main, ch_cb and
\* spi_thread, implements the library and a client it allows.
THEOREM ToolKeepsContract == ASSUME IpcamMode PROVE CaptureSpec => ClientContract
<1>1. CaptureInit => CaptureInv /\ Init
  BY CaptureInitOK DEF CaptureInit
<1>2. CaptureInv /\ [CaptureNext]_captureVars => CaptureInv' /\ [Next]_vars
  BY CaptureInvNext, ClientStepAllowed
<1> QED
  BY <1>1, <1>2, PTL DEF CaptureSpec, ClientContract, Spec

\* The tool is an orderly application, so with it the library counts its mux
\* channels right, error stops have no effect, and deinit releases everything.
THEOREM ToolLeavesNothing ==
  ASSUME IpcamMode, Orderly
  PROVE  CaptureSpec => [](RefCountExact /\ NoSpuriousStop /\ AllReleased)
  BY ToolKeepsContract, CountFollowsChannels, ErrorStopsAreVain, DeinitReleases,
     PTL
  DEF ClientContract

\* The FIFOs hold buffer indices, and main is where it can be.
THEOREM CaptureTypeCorrect == ASSUME IpcamMode PROVE CaptureSpec => []CaptureTypeOK
<1> DEFINE MainOK == main \in {"start", "poll", "deinit", "done"}
<1>1. CaptureInit => CaptureInv /\ MainOK
  BY CaptureInitOK DEF CaptureInit
<1>2. MainOK /\ [CaptureNext]_captureVars => MainOK'
  BY DEF CaptureNext, MainStart, MainStop, MainDeinit, MainError, MainInLibrary,
     EventThread, CallbackStep, LibraryStep, CbQueue, CbDrain, CbLeave, SpiTake, SpiSent,
     World, captureVars
<1>3. CaptureInv /\ MainOK => CaptureTypeOK
  BY DEF CaptureInv, PipeOK, CaptureTypeOK
<1>4. CaptureInv /\ [CaptureNext]_captureVars => CaptureInv'
  BY CaptureInvNext
<1> QED
  BY <1>1, <1>2, <1>3, <1>4, PTL DEF CaptureSpec

\* A buffer on its way to the SPI bus, on it or on its way back is not with the
\* driver, and it is there only once.
THEOREM NoFrameOverwritten == ASSUME IpcamMode PROVE CaptureSpec => []PipeExclusive
<1>1. CaptureInv => PipeExclusive
  <2> SUFFICES ASSUME CaptureInv PROVE PipeExclusive
    OBVIOUS
  <2>1. /\ fifoOut \in Seq(Buffers) /\ fifoIn \in Seq(Buffers)
        /\ Distinct(fifoOut) /\ Distinct(fifoIn)
        /\ InFifo(fifoOut) \cap InFifo(fifoIn) = {}
        /\ spi \notin InFifo(fifoOut) \cup InFifo(fifoIn)
        /\ \A b \in InPipe : bufs[0][b] = "user"
    BY DEF CaptureInv, PipeOK, PipeInv
  <2> DEFINE Fifos == InFifo(fifoOut) \cup InFifo(fifoIn)
  <2>2. /\ IsFiniteSet(InFifo(fifoOut)) /\ Cardinality(InFifo(fifoOut)) = Len(fifoOut)
        /\ IsFiniteSet(InFifo(fifoIn)) /\ Cardinality(InFifo(fifoIn)) = Len(fifoIn)
        /\ Len(fifoOut) \in Nat /\ Len(fifoIn) \in Nat
    BY <2>1, FifoCard, LenProperties
  <2>3. IsFiniteSet(Fifos) /\ Cardinality(Fifos) = Len(fifoOut) + Len(fifoIn)
    <3>1. Cardinality(InFifo(fifoOut) \cap InFifo(fifoIn)) = 0
      BY <2>1, FS_EmptySet
    <3>2. /\ IsFiniteSet(Fifos)
          /\ Cardinality(Fifos)
               = Cardinality(InFifo(fifoOut)) + Cardinality(InFifo(fifoIn))
                   - Cardinality(InFifo(fifoOut) \cap InFifo(fifoIn))
      BY <2>2, FS_Union
    <3> HIDE DEF Fifos
    <3> QED
      BY <2>2, <3>1, <3>2
  <2>4. CASE spi = NoBuf
    <3>1. InPipe = Fifos
      BY <2>4 DEF InPipe
    <3> QED
      BY <2>1, <2>3, <2>4, <3>1, <2>2 DEF PipeExclusive
  <2>5. CASE spi # NoBuf
    <3>1. InPipe = Fifos \cup {spi}
      BY <2>5 DEF InPipe
    <3>2. Cardinality(InPipe) = Cardinality(Fifos) + 1
      BY <2>1, <2>3, <3>1, FS_AddElement
    <3> QED
      BY <2>1, <2>2, <2>3, <2>5, <3>2 DEF PipeExclusive
  <2> QED
    BY <2>4, <2>5
<1> QED
  BY <1>1, CaptureInitOK, CaptureInvNext, PTL DEF CaptureSpec

\* Under this tool the driver never writes into a buffer that the event loop
\* reads or the client holds.
THEOREM ReaderUndisturbed == ASSUME IpcamMode PROVE CaptureSpec => []ExclusiveBuffers
<1>1. CaptureInv => ExclusiveBuffers
  BY MuxFacts DEF CaptureInv, OneChannel, PipeInv, InHand, ExclusiveBuffers
<1> QED
  BY <1>1, CaptureInitOK, CaptureInvNext, PTL DEF CaptureSpec

\* With FIFOs that hold every buffer, none is lost: FifoWrite, whose result
\* nobody looks at, never finds one full.
THEOREM NothingLeaks ==
  ASSUME IpcamMode, Cardinality(Buffers) < FifoSize PROVE CaptureSpec => []NoLeak
<1>1. CaptureInit => CaptureInv /\ NoLeak
  <2>1. CaptureInit => held[0] = {}
    BY ChannelFacts, MuxFacts DEF CaptureInit, Init
  <2> QED
    BY <2>1, CaptureInitOK DEF NoLeak
<1>2. CaptureInv /\ NoLeak /\ [CaptureNext]_captureVars => CaptureInv' /\ NoLeak'
  BY CaptureInvNext, BuffersKept
<1> QED
  BY <1>1, <1>2, PTL DEF CaptureSpec
=============================================================================
