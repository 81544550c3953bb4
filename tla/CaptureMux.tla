----------------------------- MODULE CaptureMux -----------------------------
(***************************************************************************)
(* The capture-mux tool (capture-mux/src/capture_mux.c) on top of the      *)
(* library: main starts CH1 and polls mxuvc_video_alive; the callback      *)
(* ch_cb, on the library's event thread, passes each buffer through        *)
(* fifo_out to a thread of the tool's own that transmits it over SPI, and  *)
(* returns to the driver what comes back through fifo_in.                  *)
(***************************************************************************)
EXTENDS V4l2Video, Sequences

CONSTANT FifoSize   \* entries of a spi_fifo; one stays unused

\* NoBuf stands for no buffer at all.
ASSUME CaptureAssumption == FifoSize \in Nat \ {0} /\ NoBuf \notin Buffers

VARIABLES
  fifoOut, fifoIn,  \* fifo_out (to the SPI thread), fifo_in (back from it)
  spi,              \* the buffer the SPI thread transmits, or NoBuf
  main              \* what main is about to do

pipe == <<fifoOut, fifoIn, spi>>
captureVars == <<vars, pipe, main>>

CaptureTypeOK ==
  /\ fifoOut \in Seq(Buffers) /\ fifoIn \in Seq(Buffers)
  /\ spi \in Buffers \cup {NoBuf}
  /\ main \in {"start", "poll", "deinit", "done"}

CaptureInit ==
  /\ Init
  /\ fifoOut = <<>> /\ fifoIn = <<>> /\ spi = NoBuf
  /\ main = "start"

\* A write to a full FIFO has no effect, and nobody looks at its result.
FifoWrite(q, b) == IF Len(q) < FifoSize - 1 THEN Append(q, b) ELSE q
-----------------------------------------------------------------------------
(* main *)

MainStart ==
  /\ main = "start" /\ main' = "poll"
  /\ StartChannel(0)
  /\ UNCHANGED pipe

\* The capture time is over: mxuvc_video_stop, which may find that an error
\* has stopped the channel.
MainStop ==
  /\ main = "poll" /\ At(App, "idle") /\ main' = "deinit"
  /\ IF started[0] THEN StopChannel(0) ELSE UNCHANGED vars
  /\ UNCHANGED pipe

MainDeinit ==
  /\ main = "deinit" /\ main' = "done"
  /\ Deinit
  /\ UNCHANGED pipe

\* mxuvc_video_start failed, or mxuvc_video_alive says 0.
MainError ==
  /\ main = "poll" /\ ~loopStarted /\ main' = "done"
  /\ Deinit
  /\ UNCHANGED pipe
-----------------------------------------------------------------------------
(* ch_cb *)

\* Pass the buffer on and signal the SPI thread.
CbQueue(l) ==
  /\ CbRead(l)
  /\ fifoOut' = FifoWrite(fifoOut, buf[l])
  /\ UNCHANGED <<fifoIn, spi, main>>

\* (Seeded fault: the FIFO is read without consuming the entry.)
CbDrainPeeks(l) ==
  /\ At(l, "cb") /\ fifoIn # <<>>
  /\ CallBufDone(l, 0, Head(fifoIn), "cb")
  /\ UNCHANGED <<flags, driver, client, ch, ready, buf, stopArgs, pipe, main,
                 reg>>

\* Return what came back, one buffer after the other ...
CbDrain(l) ==
  /\ At(l, "cb") /\ fifoIn # <<>>
  /\ CallBufDone(l, 0, Head(fifoIn), "cb")
  /\ fifoIn' = Tail(fifoIn)
  /\ UNCHANGED <<flags, driver, client, ch, ready, buf, stopArgs, fifoOut, spi,
                 main, reg>>

\* ... until fifo_in is empty.
CbLeave(l) ==
  /\ fifoIn = <<>>
  /\ CbReturn(l)
  /\ UNCHANGED <<pipe, main>>
-----------------------------------------------------------------------------
(* spi_thread: it waits for the signal or one second, then empties fifo_out. *)

SpiTake ==
  /\ ~Crashed /\ spi = NoBuf /\ fifoOut # <<>>
  /\ spi' = Head(fifoOut)
  /\ fifoOut' = Tail(fifoOut)
  /\ UNCHANGED <<vars, fifoIn, main>>

\* (Seeded fault: the thread passes on a buffer it never had.)
SpiSentBlind ==
  /\ ~Crashed
  /\ fifoIn' = FifoWrite(fifoIn, spi)
  /\ spi' = NoBuf
  /\ UNCHANGED <<vars, fifoOut, main>>

\* (Seeded fault: the buffer is not passed back.)
SpiSentLost ==
  /\ ~Crashed /\ spi # NoBuf
  /\ spi' = NoBuf
  /\ UNCHANGED <<vars, fifoIn, fifoOut, main>>

\* The transfer is over; its failure is only reported.
SpiSent ==
  /\ ~Crashed /\ spi # NoBuf
  /\ fifoIn' = FifoWrite(fifoIn, spi)
  /\ spi' = NoBuf
  /\ UNCHANGED <<vars, fifoOut, main>>
-----------------------------------------------------------------------------
CallbackStep(l) == CbQueue(l) \/ CbDrain(l) \/ CbLeave(l)
LibraryStep(l) == EventStep(l) /\ UNCHANGED <<pipe, main>>
EventThread(l) == CallbackStep(l) \/ LibraryStep(l)
MainInLibrary == AppStep /\ UNCHANGED <<pipe, main>>
World == Camera /\ UNCHANGED <<pipe, main>>

CaptureNext ==
  \/ MainStart \/ MainStop \/ MainDeinit \/ MainError \/ MainInLibrary
  \/ (\E l \in Loops : EventThread(l))
  \/ SpiTake \/ SpiSent \/ World

CaptureSpec == CaptureInit /\ [][CaptureNext]_captureVars

\* Every thread runs, main looks at mxuvc_video_alive every second, and the
\* camera fills what it is given; main need not stop by itself.
CaptureFairSpec ==
  /\ CaptureSpec
  /\ WF_captureVars(MainInLibrary) /\ WF_captureVars(MainStart)
  /\ WF_captureVars(MainDeinit) /\ WF_captureVars(MainError)
  /\ WF_captureVars(SpiTake) /\ WF_captureVars(SpiSent)
  /\ \A l \in Loops : WF_captureVars(EventThread(l))
  /\ \A f \in Fds : WF_captureVars(Fill(f) /\ UNCHANGED <<pipe, main>>)
-----------------------------------------------------------------------------
(* Properties. *)

InFifo(q) == {q[i] : i \in DOMAIN q}
InPipe == InFifo(fifoOut) \cup InFifo(fifoIn) \cup ({spi} \ {NoBuf})

\* Every buffer the client holds is somewhere on its way through the tool: in
\* the hands of the callback, in a FIFO, with the SPI thread, or just being
\* returned.  None falls out at a full FIFO.
NoLeak ==
  ~Crashed =>
    held[0] \subseteq InPipe
      \cup {buf[l] : l \in {k \in Loops : pc[k] = "cb_read"}}
      \cup {bidx[l] : l \in {k \in Loops : pc[k] = "done"}}

\* While the SPI thread works on a buffer, or has yet to, the driver does not
\* write into it, and no buffer is in the pipe twice.
PipeExclusive ==
  /\ \A b \in InPipe : bufs[0][b] = "user"
  /\ Cardinality(InPipe) =
       Len(fifoOut) + Len(fifoIn) + IF spi = NoBuf THEN 0 ELSE 1

\* The tool keeps the contract of a client of the library: it returns a buffer
\* only from its callback, and only one it was given and has not returned.
ClientContract == Spec

\* Once mxuvc_video_start is back, an unplugged camera makes main finish: the
\* event thread leaves, and mxuvc_video_alive tells main.
CaptureEnds ==
  gone /\ main = "poll" /\ At(App, "idle") ~> At(App, "finished") \/ Crashed

\* A buffer that is back from the SPI thread goes back to the driver, as long
\* as CH1 runs.
Recycled ==
  \A b \in Buffers :
    b \in InFifo(fifoIn)
      ~> b \notin InFifo(fifoIn) \/ ~started[0] \/ Crashed
=============================================================================
