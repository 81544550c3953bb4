----------------------------- MODULE V4l2Video -----------------------------
(***************************************************************************)
(* The streaming core of libmxuvc's V4L2 backend                           *)
(* (libmxuvc/src/video/v4l2/uvc.c): the application thread that calls      *)
(* mxuvc_video_start, mxuvc_video_stop and mxuvc_video_deinit, the event   *)
(* thread that runs event_loop and the client's callback, and the kernel's *)
(* buffer queues they both work on.  Nothing in this code takes a lock:    *)
(* the flags below are plain ints, and every access that another thread    *)
(* can interleave with is a step of its own here.                          *)
(*                                                                         *)
(* In ipcam mode channels 0 .. MuxCount-1 are multiplexed on one device    *)
(* and share its file descriptor, its buffers and a reference count; the   *)
(* last channel is the raw one, with a device of its own.  In skype mode   *)
(* every channel has its own device.  A descriptor is named here by the    *)
(* lowest channel that uses it.                                            *)
(***************************************************************************)
EXTENDS Integers, FiniteSets

CONSTANTS
  IpcamMode,    \* ipcam_mode: does the camera offer the MUX format?
  MuxCount,     \* mux_channel_count
  NumChannels,  \* number of initialised channels
  Buffers,      \* indices of the buffers that VIDIOC_REQBUFS grants
  Loops,        \* identities for the threads pthread_create may make
  BoxIds,       \* what a mux frame can be: the stream id of its QBOX, where
                \*   anything above MuxCount stands for audio or no QBOX at all
  ClientKeeps,  \* may the callback return and keep its buffer for later?
  Used,         \* the channels the application starts
  Restarts,     \* does the application start channels after it stopped some?
  MaxStarts,    \* bound: how often the application starts each channel
  Faults        \* what may fail: "unplug" (the camera disappears while it is
                \*   in use), "create" (pthread_create)

App == "app"
NoBuf == "no buffer"

Channels == 0 .. NumChannels - 1
Threads  == Loops \cup {App}

ASSUME VideoAssumption ==
  /\ IpcamMode \in BOOLEAN
  /\ MuxCount \in Nat \ {0}
  /\ NumChannels \in Nat \ {0}
  /\ IpcamMode => NumChannels = MuxCount + 1
  /\ IsFiniteSet(Buffers) /\ Buffers # {}
  /\ Loops # {} /\ App \notin Loops
  /\ BoxIds \subseteq Nat
  /\ ClientKeeps \in BOOLEAN
  /\ Used \subseteq Channels /\ Restarts \in BOOLEAN
  /\ MaxStarts \in Nat
  /\ Faults \subseteq {"unplug", "create"}

VARIABLES
  enabled, started,     \* per channel: struct video_stream
  muxStarted, refCount, \* mux_stream.started, mux_stream.ref_count
  exitLoop,             \* exit_event_loop
  loopStarted,          \* event_loop_started
  opened,               \* descriptors not yet closed
  mapped,               \* descriptors whose buffers are requested and mapped
  streaming,            \* descriptors between STREAMON and STREAMOFF
  bufs,                 \* kernel's view of each buffer: see BufState
  gone,                 \* the camera was unplugged
  held,                 \* buffers handed to the client and not yet returned
  pc,                   \* where each thread is
  ch,                   \* the channel it works on (loop index in event_loop)
  ready,                \* fd_set of a select
  buf,                  \* buf.index of the last VIDIOC_DQBUF
  reg,                  \* the register that mux_stream.ref_count is counted in
  sch, sret,            \* mxuvc_video_stop: its channel and where it returns
  bch, bidx, bret,      \* mxuvc_video_cb_buf_done: its arguments and return
  chCount,              \* ch_count of mxuvc_video_deinit
  starts                \* how often the application started each channel

flags  == <<enabled, started, muxStarted, refCount, exitLoop, loopStarted>>
driver == <<opened, mapped, streaming, bufs, gone>>
stopArgs == <<sch, sret>>
doneArgs == <<bch, bidx, bret>>
locals == <<ch, ready, buf, reg, stopArgs, doneArgs>>
client == <<held, starts, chCount>>
vars == <<flags, driver, pc, locals, client>>

\* is_mux_stream: only ipcam mode has a mux descriptor to compare with.
IsMux(c) == IpcamMode /\ c < MuxCount

\* channel_init gives every mux channel mux_stream.fd and opens the others.
Fd(c) == IF IsMux(c) THEN 0 ELSE c
Fds == {Fd(c) : c \in Channels}

\* A buffer is outside the queues ("user"), waiting for a frame ("queued")
\* or filled and waiting for VIDIOC_DQBUF ("done").
BufState == {"user", "queued", "done"}

AppLabels ==
  {"idle", "start_queue", "start_loop", "start_wait", "start_mux",
   "start_load", "start_ref", "deinit", "deinit_close", "finished"}
LoopLabels ==
  {"none", "born", "top", "scan", "select", "pass", "check", "dqbuf",
   "handle", "cb_read", "cb", "final", "qbuf", "next", "exit"}
StopLabels == {"stop", "stop_load", "stop_dec", "stop_clear", "stop_flags",
               "stop_stream", "stop_unmap"}
DoneLabels == {"done", "done_qbuf"}
Labels ==
  AppLabels \cup LoopLabels \cup StopLabels \cup DoneLabels \cup {"crashed"}

FlagsOK ==
  /\ enabled \in [Channels -> BOOLEAN] /\ started \in [Channels -> BOOLEAN]
  /\ muxStarted \in BOOLEAN /\ refCount \in Int
  /\ exitLoop \in BOOLEAN /\ loopStarted \in BOOLEAN

DriverOK ==
  /\ opened \in SUBSET Fds /\ mapped \in SUBSET Fds
  /\ streaming \in SUBSET Fds /\ gone \in BOOLEAN
  /\ bufs \in [Fds -> [Buffers -> BufState]]

ThreadsOK ==
  /\ pc \in [Threads -> Labels] /\ ch \in [Threads -> Nat]
  /\ ready \in [Loops -> SUBSET Fds]
  /\ buf \in [Loops -> Buffers \cup {NoBuf}] /\ reg \in [Threads -> Int]
  /\ sch \in [Threads -> Channels] /\ sret \in [Threads -> Labels]
  /\ bch \in [Loops -> Channels] /\ bidx \in [Loops -> Buffers \cup {NoBuf}]
  /\ bret \in [Loops -> Labels]

TypeOK ==
  /\ FlagsOK /\ DriverOK /\ ThreadsOK
  /\ held \in [Fds -> SUBSET Buffers]
  /\ starts \in [Channels -> Nat] /\ chCount \in 0 .. NumChannels + 2

\* After mxuvc_video_init: every channel is open and enabled, none started.
Init ==
  /\ enabled = [c \in Channels |-> TRUE]
  /\ started = [c \in Channels |-> FALSE]
  /\ muxStarted = FALSE /\ refCount = 0
  /\ exitLoop = FALSE /\ loopStarted = FALSE
  /\ opened = Fds /\ mapped = {} /\ streaming = {}
  /\ bufs = [f \in Fds |-> [b \in Buffers |-> "user"]]
  /\ gone = FALSE
  /\ held = [f \in Fds |-> {}]
  /\ pc = [t \in Threads |-> IF t = App THEN "idle" ELSE "none"]
  /\ ch = [t \in Threads |-> 0]
  /\ ready = [l \in Loops |-> {}]
  /\ buf = [l \in Loops |-> NoBuf] /\ reg = [t \in Threads |-> 0]
  /\ sch = [t \in Threads |-> 0] /\ sret = [t \in Threads |-> "idle"]
  /\ bch = [l \in Loops |-> 0]
  /\ bidx = [l \in Loops |-> NoBuf]
  /\ bret = [l \in Loops |-> "cb"]
  /\ starts = [c \in Channels |-> 0] /\ chCount = NumChannels

Goto(t, label) == pc' = [pc EXCEPT ![t] = label]
At(t, label) == pc[t] = label

Usable(f) == f \in opened /\ ~gone

\* A call of mxuvc_video_stop(c) from thread t that returns to label.
CallStop(t, c, label) ==
  /\ Goto(t, "stop")
  /\ sch' = [sch EXCEPT ![t] = c]
  /\ sret' = [sret EXCEPT ![t] = label]
\* mxuvc_video_stop returns to where it was called from.
StopReturn(t) ==
  /\ Goto(t, sret[t])
  /\ sch' = [sch EXCEPT ![t] = 0]
  /\ sret' = [sret EXCEPT ![t] = "idle"]

\* The process is taken down; the kernel then closes what it had open.
Crash ==
  /\ pc' = [t \in Threads |-> "crashed"]
  /\ opened' = {} /\ mapped' = {} /\ streaming' = {}
  /\ loopStarted' = FALSE
  /\ UNCHANGED <<enabled, started, muxStarted, refCount, exitLoop, bufs, gone,
                 client, locals>>
-----------------------------------------------------------------------------
(* The camera and the kernel driver (external). *)

Fill(f) ==
  /\ f \in streaming /\ ~gone
  /\ \E b \in Buffers :
       /\ bufs[f][b] = "queued"
       /\ bufs' = [bufs EXCEPT ![f][b] = "done"]
  /\ UNCHANGED <<flags, opened, mapped, streaming, gone, client, pc, locals>>

Unplug ==
  /\ "unplug" \in Faults /\ ~gone
  /\ gone' = TRUE
  /\ UNCHANGED <<flags, opened, mapped, streaming, bufs, client, pc, locals>>

\* select reports a descriptor that has a frame, or whose poll is in error.
Readable(f) ==
  \/ gone \/ f \notin streaming
  \/ \E b \in Buffers : bufs[f][b] = "done"

\* VIDIOC_QBUF takes only a mapped buffer that is outside the queues.
CanQueue(f, b) == Usable(f) /\ f \in mapped /\ bufs[f][b] = "user"
-----------------------------------------------------------------------------
(* mxuvc_video_start, on the application thread. *)

\* The capture tools start all their channels, then stop all of them.
MayStart(c) ==
  /\ c \in Used /\ starts[c] < MaxStarts
  /\ Restarts \/ \A d \in Channels : starts[d] > 0 => started[d]

\* Does channel c find the shared stream running?
Joins(c) == IsMux(c) /\ muxStarted

\* VIDIOC_REQBUFS is refused while buffers of the descriptor are in use.
CanMap(f) == Usable(f) /\ f \notin streaming \cup mapped

\* init_mmap: a channel that joins the mux stream shares its buffers, any other
\* requests and maps its own.
InitMmap(c) ==
  \/ /\ Joins(c)
     /\ UNCHANGED <<mapped, bufs>>
  \/ /\ ~Joins(c) /\ CanMap(Fd(c))
     /\ mapped' = mapped \cup {Fd(c)}
     /\ bufs' = [bufs EXCEPT ![Fd(c)] = [b \in Buffers |-> "user"]]

\* The checks of mxuvc_video_start, then init_mmap, whose failure returns -1.
StartChannel(c) ==
  /\ At(App, "idle") /\ enabled[c] /\ ~started[c]
  /\ MayStart(c)
  /\ starts' = [starts EXCEPT ![c] = @ + 1]
  /\ ch' = [ch EXCEPT ![App] = c]
  /\ \/ InitMmap(c) /\ Goto(App, "start_queue")
     \/ ~Joins(c) /\ ~CanMap(Fd(c)) /\ UNCHANGED <<pc, mapped, bufs>>
  /\ UNCHANGED <<flags, opened, streaming, gone, held, chCount, ready, buf,
                 stopArgs, doneArgs, reg>>

\* Queue every buffer and VIDIOC_STREAMON, or only join the mux stream.  When
\* one of these fails, -1: the buffers queued so far stay with the driver.
StartQueue ==
  LET c == ch[App]
      f == Fd(c)
      canStart == \A b \in Buffers : CanQueue(f, b)
  IN
  /\ At(App, "start_queue")
  /\ \/ /\ Joins(c)
        /\ started' = [started EXCEPT ![c] = TRUE]
        /\ Goto(App, "start_load")
        /\ UNCHANGED <<bufs, streaming>>
     \/ /\ ~Joins(c) /\ canStart
        /\ bufs' = [bufs EXCEPT ![f] = [b \in Buffers |-> "queued"]]
        /\ streaming' = streaming \cup {f}
        /\ started' = [started EXCEPT ![c] = TRUE]
        /\ Goto(App, "start_loop")
     \/ /\ ~Joins(c) /\ ~canStart
        /\ \E queued \in SUBSET Buffers :
             bufs' = [bufs EXCEPT ![f] =
                        [b \in Buffers |->
                           IF b \in queued THEN "queued" ELSE bufs[f][b]]]
        /\ Goto(App, "idle")
        /\ UNCHANGED <<started, streaming>>
  /\ UNCHANGED <<enabled, muxStarted, refCount, exitLoop, loopStarted, opened,
                 mapped, gone, client, locals>>

\* Create the event thread unless event_loop_started says there is one.
StartLoop ==
  /\ At(App, "start_loop")
  /\ \/ /\ loopStarted
        /\ Goto(App, "start_wait")
        /\ UNCHANGED <<exitLoop, stopArgs>>
     \/ /\ ~loopStarted
        /\ exitLoop' = FALSE
        /\ \E l \in Loops :
             /\ At(l, "none")
             /\ pc' = [pc EXCEPT ![App] = "start_wait", ![l] = "born"]
        /\ UNCHANGED stopArgs
     \/ /\ ~loopStarted /\ "create" \in Faults
        /\ exitLoop' = FALSE
        /\ CallStop(App, ch[App], "idle")
  /\ UNCHANGED <<enabled, started, muxStarted, refCount, loopStarted, driver,
                 client, ch, ready, buf, doneArgs, reg>>

\* (Seeded fault: no wait.)
StartNoWait ==
  /\ At(App, "start_wait")
  /\ Goto(App, IF IsMux(ch[App]) THEN "start_mux" ELSE "idle")
  /\ UNCHANGED <<flags, driver, client, locals>>

\* while (event_loop_started == 0) usleep(50);
StartWait ==
  /\ At(App, "start_wait") /\ loopStarted
  /\ Goto(App, IF IsMux(ch[App]) THEN "start_mux" ELSE "idle")
  /\ UNCHANGED <<flags, driver, client, locals>>

StartMux ==
  /\ At(App, "start_mux")
  /\ muxStarted' = TRUE
  /\ Goto(App, "start_load")
  /\ UNCHANGED <<enabled, started, refCount, exitLoop, loopStarted, driver,
                 client, locals>>

\* mux_stream.ref_count++ is a load and, later, a store.
StartLoad ==
  /\ At(App, "start_load")
  /\ reg' = [reg EXCEPT ![App] = refCount]
  /\ Goto(App, "start_ref")
  /\ UNCHANGED <<flags, driver, client, ch, ready, buf, stopArgs, doneArgs>>

StartRef ==
  /\ At(App, "start_ref")
  /\ refCount' = reg[App] + 1
  /\ reg' = [reg EXCEPT ![App] = 0]
  /\ Goto(App, "idle")
  /\ UNCHANGED <<enabled, started, muxStarted, exitLoop, loopStarted, driver,
                 client, ch, ready, buf, stopArgs, doneArgs>>
-----------------------------------------------------------------------------
(* mxuvc_video_stop, on whichever thread calls it. *)

\* The application asks for a stop.
StopChannel(c) ==
  /\ At(App, "idle") /\ enabled[c] /\ started[c]
  /\ CallStop(App, c, "idle")
  /\ UNCHANGED <<flags, driver, client, ch, ready, buf, doneArgs, reg>>

\* (Seeded fault: the check for a started channel is gone.)
StopEnterUnchecked(t) ==
  /\ At(t, "stop")
  /\ Goto(t, IF IsMux(sch[t]) THEN "stop_load" ELSE "stop_flags")
  /\ UNCHANGED <<flags, driver, client, locals>>

\* A channel that is not enabled or not started is refused.
StopEnter(t) ==
  LET c == sch[t] IN
  /\ At(t, "stop")
  /\ IF ~enabled[c] \/ ~started[c]
       THEN StopReturn(t)
       ELSE /\ Goto(t, IF IsMux(c) THEN "stop_load" ELSE "stop_flags")
            /\ UNCHANGED stopArgs
  /\ UNCHANGED <<flags, driver, client, ch, ready, buf, doneArgs, reg>>

\* mux_stream.ref_count-- is a load and a store, too ...
StopLoad(t) ==
  /\ At(t, "stop_load")
  /\ reg' = [reg EXCEPT ![t] = refCount]
  /\ Goto(t, "stop_dec")
  /\ UNCHANGED <<flags, driver, client, ch, ready, buf, stopArgs, doneArgs>>

\* (Seeded fault: the reference is not dropped.)
StopDecLost(t) ==
  /\ At(t, "stop_dec")
  /\ Goto(t, "stop_clear")
  /\ UNCHANGED <<flags, driver, client, locals>>

StopDec(t) ==
  /\ At(t, "stop_dec")
  /\ refCount' = reg[t] - 1
  /\ reg' = [reg EXCEPT ![t] = @ - 1]
  /\ Goto(t, "stop_clear")
  /\ UNCHANGED <<enabled, started, muxStarted, exitLoop, loopStarted, driver,
                 client, ch, ready, buf, stopArgs, doneArgs>>

\* ... and the test that follows may read memory again or use what is still in
\* the register.  Other channels use the mux stream: leave it running.
StopClear(t) ==
  /\ At(t, "stop_clear")
  /\ started' = [started EXCEPT ![sch[t]] = FALSE]
  /\ reg' = [reg EXCEPT ![t] = 0]
  /\ \E count \in {refCount, reg[t]} :
       IF count # 0
         THEN StopReturn(t)
         ELSE Goto(t, "stop_flags") /\ UNCHANGED stopArgs
  /\ UNCHANGED <<enabled, muxStarted, refCount, exitLoop, loopStarted, driver,
                 client, ch, ready, buf, doneArgs>>

StopFlags(t) ==
  /\ At(t, "stop_flags")
  /\ started' = [started EXCEPT ![sch[t]] = FALSE]
  /\ muxStarted' = (muxStarted /\ ~IsMux(sch[t]))
  /\ Goto(t, "stop_stream")
  /\ UNCHANGED <<enabled, refCount, exitLoop, loopStarted, driver, client,
                 locals>>

\* VIDIOC_STREAMOFF takes every buffer out of the driver's queues.  Its
\* failure is only a warning.
StopStream(t) ==
  LET f == Fd(sch[t]) IN
  /\ At(t, "stop_stream")
  /\ streaming' = streaming \ {f}
  /\ bufs' = [bufs EXCEPT ![f] = [b \in Buffers |-> "user"]]
  /\ Goto(t, "stop_unmap")
  /\ UNCHANGED <<flags, opened, mapped, gone, client, locals>>

\* uninit_mmap
StopUnmap(t) ==
  LET c == sch[t] IN
  /\ At(t, "stop_unmap")
  /\ mapped' = IF ~enabled[c] \/ (IsMux(c) /\ refCount # 0)
               THEN mapped ELSE mapped \ {Fd(c)}
  /\ StopReturn(t)
  /\ UNCHANGED <<flags, opened, streaming, bufs, gone, client, ch, ready, buf,
                 doneArgs, reg>>

Stop(t) == \/ StopEnter(t) \/ StopLoad(t) \/ StopDec(t)
           \/ StopClear(t) \/ StopFlags(t) \/ StopStream(t) \/ StopUnmap(t)
-----------------------------------------------------------------------------
(* mxuvc_video_deinit: channel_deinit for each channel in turn. *)

\* mxuvc_video_get_channel_count: in ipcam mode a request on CH1, whose failure
\* is ignored.  The count is then what was on the stack: NumChannels + 1 stands
\* for one that is too high, NumChannels + 2 for one beyond video_stream[].
ChannelCounts ==
  IF IpcamMode /\ gone THEN 0 .. NumChannels + 2 ELSE {NumChannels}

Deinit ==
  /\ At(App, "idle")
  /\ chCount' \in ChannelCounts
  /\ ch' = [ch EXCEPT ![App] = 0]
  /\ Goto(App, IF chCount' = 0 THEN "finished" ELSE "deinit")
  /\ UNCHANGED <<flags, driver, held, starts, ready, buf, stopArgs, doneArgs,
                 reg>>

\* (Seeded fault: a started channel is not stopped.)
DeinitChannelNoStop ==
  /\ At(App, "deinit")
  /\ exitLoop' = TRUE
  /\ Goto(App, "deinit_close")
  /\ UNCHANGED <<enabled, started, muxStarted, refCount, loopStarted, driver,
                 client, locals>>

DeinitChannel ==
  LET c == ch[App] IN
  /\ At(App, "deinit")
  /\ exitLoop' = TRUE
  /\ IF started[c]
       THEN CallStop(App, c, "deinit_close")
       ELSE Goto(App, "deinit_close") /\ UNCHANGED stopArgs
  /\ UNCHANGED <<enabled, started, muxStarted, refCount, loopStarted, driver,
                 client, ch, ready, buf, doneArgs, reg>>

\* The mux descriptor is closed once nothing counts on it.  The entries of
\* video_stream[] past the channels are not enabled, and nothing is done there.
DeinitClose ==
  LET c == ch[App] IN
  /\ At(App, "deinit_close")
  /\ enabled' = [enabled EXCEPT ![c] = FALSE]
  /\ opened' = IF IsMux(c) /\ refCount # 0 THEN opened ELSE opened \ {Fd(c)}
  /\ IF c + 1 < chCount /\ c + 1 < NumChannels
       THEN ch' = [ch EXCEPT ![App] = c + 1] /\ Goto(App, "deinit")
       ELSE Goto(App, "finished") /\ UNCHANGED ch
  /\ UNCHANGED <<started, muxStarted, refCount, exitLoop, loopStarted, mapped,
                 streaming, bufs, gone, client, ready, buf, stopArgs, doneArgs,
                 reg>>

\* Past its end the process may be taken down.
DeinitBeyond == At(App, "deinit_close") /\ Crash

DeinitNext ==
  IF chCount = NumChannels + 2 /\ ch[App] + 1 = NumChannels
    THEN DeinitBeyond ELSE DeinitClose
-----------------------------------------------------------------------------
(* event_loop, on the event thread l. *)

\* (Seeded fault: the flag is not raised.)
LoopEnterSilent(l) ==
  /\ At(l, "born")
  /\ Goto(l, "top")
  /\ UNCHANGED <<flags, driver, client, locals>>

LoopEnter(l) ==
  /\ At(l, "born")
  /\ loopStarted' = TRUE
  /\ Goto(l, "top")
  /\ UNCHANGED <<enabled, started, muxStarted, refCount, exitLoop, driver,
                 client, locals>>

\* (Seeded fault: the scan begins with channel 1.)
LoopTopFromOne(l) ==
  /\ At(l, "top")
  /\ Goto(l, IF exitLoop THEN "exit" ELSE "scan")
  /\ ready' = [ready EXCEPT ![l] = {}]
  /\ ch' = [ch EXCEPT ![l] = 1]
  /\ UNCHANGED <<flags, driver, client, buf, stopArgs, doneArgs, reg>>

\* Test exit_event_loop.
LoopTop(l) ==
  /\ At(l, "top")
  /\ Goto(l, IF exitLoop THEN "exit" ELSE "scan")
  /\ ready' = [ready EXCEPT ![l] = {}]
  /\ ch' = [ch EXCEPT ![l] = 0]
  /\ UNCHANGED <<flags, driver, client, buf, stopArgs, doneArgs, reg>>

\* Build the fd_set of the started channels, one channel at a time; with none
\* to watch, leave.
LoopScan(l) ==
  LET c == ch[l] IN
  /\ At(l, "scan")
  /\ \/ /\ c < NumChannels
        /\ ready' = [ready EXCEPT ![l] =
                       IF started[c] THEN @ \cup {Fd(c)} ELSE @]
        /\ ch' = [ch EXCEPT ![l] = c + 1]
        /\ UNCHANGED <<pc, exitLoop>>
     \/ /\ c >= NumChannels
        /\ ch' = [ch EXCEPT ![l] = 0]
        /\ IF ready[l] # {}
             THEN Goto(l, "select") /\ UNCHANGED exitLoop
             ELSE Goto(l, "exit") /\ exitLoop' = TRUE
        /\ UNCHANGED ready
  /\ UNCHANGED <<enabled, started, muxStarted, refCount, loopStarted, driver,
                 client, buf, stopArgs, doneArgs, reg>>

\* select: a closed descriptor is an error that ends the loop; readable ones
\* start a pass over the channels; with none it times out after 5 seconds.
LoopSelect(l) ==
  LET hit == {f \in ready[l] : Readable(f)}
      bad == ~(ready[l] \subseteq opened)
  IN
  /\ At(l, "select")
  /\ ready' = [ready EXCEPT ![l] = IF bad THEN {} ELSE hit]
  /\ Goto(l, IF bad THEN "exit" ELSE IF hit = {} THEN "top" ELSE "pass")
  /\ UNCHANGED <<flags, driver, client, ch, buf, stopArgs, doneArgs, reg>>

\* The head of the loop over the channels.
LoopPass(l) ==
  LET c == ch[l] IN
  /\ At(l, "pass")
  /\ \/ /\ c >= NumChannels
        /\ Goto(l, "top")
        /\ ch' = [ch EXCEPT ![l] = 0]
        /\ ready' = [ready EXCEPT ![l] = {}]
     \/ /\ c < NumChannels
        /\ ~started[c] \/ Fd(c) \notin ready[l]
        /\ ch' = [ch EXCEPT ![l] = c + 1]
        /\ UNCHANGED <<pc, ready>>
     \/ /\ c < NumChannels
        /\ started[c] /\ Fd(c) \in ready[l]
        /\ Goto(l, "check")
        /\ UNCHANGED <<ch, ready>>
  /\ UNCHANGED <<flags, driver, client, buf, stopArgs, doneArgs, reg>>

\* The check against a concurrent stop.
LoopCheck(l) ==
  LET c == ch[l] IN
  /\ At(l, "check")
  /\ Goto(l, IF ~IsMux(c) /\ ~started[c] THEN "next" ELSE "dqbuf")
  /\ UNCHANGED <<flags, driver, client, locals>>

\* VIDIOC_DQBUF; any error stops the channel.
LoopDequeue(l) ==
  LET c == ch[l]
      f == Fd(c)
      filled == {b \in Buffers : bufs[f][b] = "done"}
      ok == Usable(f) /\ f \in streaming /\ filled # {}
  IN
  /\ At(l, "dqbuf")
  /\ \/ /\ ok
        /\ \E b \in filled :
             /\ bufs' = [bufs EXCEPT ![f][b] = "user"]
             /\ buf' = [buf EXCEPT ![l] = b]
        /\ Goto(l, "handle")
        /\ UNCHANGED stopArgs
     \/ /\ ~ok
        /\ CallStop(l, c, "next")
        /\ UNCHANGED <<bufs, buf>>
  /\ UNCHANGED <<flags, opened, mapped, streaming, gone, client, ch, ready,
                 doneArgs, reg>>

\* Call mxuvc_video_cb_buf_done(c, b) and come back to label.
CallBufDone(l, c, b, label) ==
  /\ Goto(l, "done")
  /\ bch' = [bch EXCEPT ![l] = c]
  /\ bidx' = [bidx EXCEPT ![l] = b]
  /\ bret' = [bret EXCEPT ![l] = label]

\* Call the callback of channel c with the buffer just dequeued.  In ipcam
\* mode the client keeps the buffer until it returns it.
CallClient(l, c) ==
  /\ Goto(l, "cb_read")
  /\ bch' = [bch EXCEPT ![l] = c]
  /\ held' = IF IpcamMode
             THEN [held EXCEPT ![Fd(c)] = @ \cup {buf[l]}] ELSE held
  /\ UNCHANGED <<bidx, bret>>

\* (Seeded fault: the stream id is not checked.)
HandleMuxUnchecked(l) ==
  \E id \in BoxIds : CallBufDone(l, id, buf[l], "final") /\ UNCHANGED held

\* event_loop_handle_ipcam for a mux channel: the frame belongs to the stream
\* its QBOX names.  What is no video box is passed over.
HandleMux(l) ==
  \E id \in BoxIds :
    \/ /\ id > MuxCount
       /\ Goto(l, "final")
       /\ UNCHANGED <<held, doneArgs>>
    \/ /\ id <= MuxCount /\ started[id]
       /\ CallClient(l, id)
    \/ /\ id <= MuxCount /\ ~started[id]
       /\ CallBufDone(l, id, buf[l], "final")
       /\ UNCHANGED held

\* The SECS and default handlers; a SECS frame that does not parse is dropped.
HandleOwn(l) ==
  \/ CallClient(l, ch[l])
  \/ /\ ~IpcamMode
     /\ Goto(l, "final")
     /\ UNCHANGED <<held, doneArgs>>

LoopHandle(l) ==
  /\ At(l, "handle") /\ Fd(ch[l]) \in mapped
  /\ IF IsMux(ch[l]) THEN HandleMux(l) ELSE HandleOwn(l)
  /\ UNCHANGED <<flags, driver, ch, ready, buf, stopArgs, starts, chCount,
                 reg>>

\* The client has read the frame, or has passed it on unread.
CbRead(l) ==
  /\ At(l, "cb_read")
  /\ Goto(l, "cb")
  /\ UNCHANGED <<flags, driver, client, locals>>

\* Reading a frame whose buffer was unmapped.
Segfault(l) ==
  /\ pc[l] \in {"handle", "cb_read"} /\ Fd(ch[l]) \notin mapped
  /\ Crash

\* The callback returns a buffer it holds on the same descriptor.
CbBufDone(l, b) ==
  /\ At(l, "cb") /\ b \in held[Fd(bch[l])]
  /\ CallBufDone(l, bch[l], b, "cb")
  /\ UNCHANGED <<flags, driver, client, ch, ready, buf, stopArgs, reg>>

CbReturn(l) ==
  /\ At(l, "cb")
  /\ ClientKeeps \/ buf[l] \notin held[Fd(bch[l])]
  /\ Goto(l, "final")
  /\ bch' = [bch EXCEPT ![l] = 0]
  /\ UNCHANGED <<flags, driver, client, ch, ready, buf, stopArgs, bidx, bret,
                 reg>>
-----------------------------------------------------------------------------
(* mxuvc_video_cb_buf_done: every client calls it on the event thread. *)

\* Back to the callback, which knows its channel, or to the event loop.
DoneReturn(l) ==
  /\ bidx' = [bidx EXCEPT ![l] = NoBuf]
  /\ bret' = [bret EXCEPT ![l] = "cb"]
  /\ bch' = [bch EXCEPT ![l] = IF bret[l] = "cb" THEN @ ELSE 0]

\* Outside ipcam mode it does nothing; of a stopped stream it drops the buffer.
BufDoneCheck(l) ==
  LET c == bch[l]
      stopped == IF IsMux(c) THEN ~muxStarted ELSE ~started[c]
      f == Fd(c)
  IN
  /\ At(l, "done")
  /\ held' = [held EXCEPT ![f] = @ \ {bidx[l]}]
  /\ IF ~IpcamMode \/ stopped
       THEN Goto(l, bret[l]) /\ DoneReturn(l)
       ELSE Goto(l, "done_qbuf") /\ UNCHANGED doneArgs
  /\ UNCHANGED <<flags, driver, ch, ready, buf, stopArgs, starts, chCount,
                 reg>>

\* VIDIOC_QBUF; an error stops the channel.
BufDoneQueue(l) ==
  LET c == bch[l]
      f == Fd(c)
  IN
  /\ At(l, "done_qbuf")
  /\ \/ /\ CanQueue(f, bidx[l])
        /\ bufs' = [bufs EXCEPT ![f][bidx[l]] = "queued"]
        /\ Goto(l, bret[l])
        /\ UNCHANGED stopArgs
     \/ /\ ~CanQueue(f, bidx[l])
        /\ CallStop(l, c, bret[l])
        /\ UNCHANGED bufs
  /\ DoneReturn(l)
  /\ UNCHANGED <<flags, opened, mapped, streaming, gone, client, ch, ready,
                 buf, reg>>
-----------------------------------------------------------------------------
(* event_loop again: after the frame was handled. *)

\* After a mux frame the loop index jumps to mux_channel_count before its
\* increment, past the other mux channels.
AfterFrame(c) == IF IsMux(c) THEN MuxCount + 1 ELSE c + 1

\* (Seeded fault: the event loop requeues in ipcam mode, too.)
LoopFinalRequeues(l) ==
  /\ At(l, "final")
  /\ Goto(l, "qbuf")
  /\ UNCHANGED <<flags, driver, client, locals>>

\* The check against a concurrent stop; in ipcam mode the client requeues.
LoopFinal(l) ==
  LET c == ch[l]
      raced == IF IsMux(c) THEN ~muxStarted ELSE ~started[c]
  IN
  /\ At(l, "final")
  /\ IF raced \/ IpcamMode
       THEN /\ Goto(l, "pass")
            /\ ch' = [ch EXCEPT ![l] = AfterFrame(c)]
            /\ buf' = [buf EXCEPT ![l] = NoBuf]
       ELSE Goto(l, "qbuf") /\ UNCHANGED <<ch, buf>>
  /\ UNCHANGED <<flags, driver, client, ready, stopArgs, doneArgs, reg>>

LoopQueue(l) ==
  LET f == Fd(ch[l]) IN
  /\ At(l, "qbuf")
  /\ \/ /\ CanQueue(f, buf[l])
        /\ bufs' = [bufs EXCEPT ![f][buf[l]] = "queued"]
        /\ Goto(l, "next")
        /\ UNCHANGED stopArgs
     \/ /\ ~CanQueue(f, buf[l])
        /\ CallStop(l, ch[l], "next")
        /\ UNCHANGED bufs
  /\ UNCHANGED <<flags, opened, mapped, streaming, gone, client, ch, ready,
                 buf, doneArgs, reg>>

\* (Seeded fault: the pass ends with the first frame.)
LoopNextLeaves(l) ==
  /\ At(l, "next")
  /\ ch' = [ch EXCEPT ![l] = NumChannels]
  /\ Goto(l, "pass")
  /\ buf' = [buf EXCEPT ![l] = NoBuf]
  /\ UNCHANGED <<flags, driver, client, ready, stopArgs, doneArgs, reg>>

LoopNext(l) ==
  /\ At(l, "next")
  /\ ch' = [ch EXCEPT ![l] = @ + 1]
  /\ Goto(l, "pass")
  /\ buf' = [buf EXCEPT ![l] = NoBuf]
  /\ UNCHANGED <<flags, driver, client, ready, stopArgs, doneArgs, reg>>

\* (Seeded fault: event_loop_started stays set.)
LoopExitKeepsFlag(l) ==
  /\ At(l, "exit")
  /\ Goto(l, "none")
  /\ UNCHANGED <<flags, driver, client, locals>>

LoopExit(l) ==
  /\ At(l, "exit")
  /\ loopStarted' = FALSE
  /\ Goto(l, "none")
  /\ UNCHANGED <<enabled, started, muxStarted, refCount, exitLoop, driver,
                 client, locals>>
-----------------------------------------------------------------------------
AppStep ==
  \/ StartQueue \/ StartLoop \/ StartWait \/ StartMux
  \/ StartLoad \/ StartRef
  \/ DeinitChannel \/ DeinitNext \/ Stop(App)

\* What the application decides to do next, and is under no duty to do.
AppCall ==
  \/ \E c \in Channels : StartChannel(c) \/ StopChannel(c)
  \/ Deinit

\* The callback, and what the event thread does around it.
ClientStep(l) ==
  CbRead(l) \/ CbReturn(l) \/ \E b \in Buffers : CbBufDone(l, b)

EventStep(l) ==
  \/ LoopEnter(l) \/ LoopTop(l) \/ LoopScan(l) \/ LoopSelect(l) \/ LoopPass(l)
  \/ LoopCheck(l) \/ LoopDequeue(l) \/ LoopHandle(l) \/ Segfault(l)
  \/ BufDoneCheck(l) \/ BufDoneQueue(l) \/ Stop(l)
  \/ LoopFinal(l) \/ LoopQueue(l) \/ LoopNext(l) \/ LoopExit(l)

LoopStep(l) == ClientStep(l) \/ EventStep(l)

Camera == Unplug \/ \E f \in Fds : Fill(f)

Next == AppCall \/ AppStep \/ Camera \/ \E l \in Loops : LoopStep(l)

Spec == Init /\ [][Next]_vars

\* The scheduler runs every thread that can run; the camera keeps filling the
\* buffers it is given.
Fairness ==
  /\ WF_vars(AppStep)
  /\ \A l \in Loops : WF_vars(LoopStep(l))
  /\ \A f \in Fds : WF_vars(Fill(f))

FairSpec == Spec /\ Fairness
-----------------------------------------------------------------------------
(* Properties. *)

Live(l) == pc[l] \notin {"none", "crashed"}
Crashed == pc[App] = "crashed"
AppInApi == pc[App] \notin {"idle", "finished", "crashed"}
StopInProgress == \E t \in Threads : pc[t] \in StopLabels
NobodyStarted == \A c \in Channels : ~started[c]
SomeStopped == \E c \in Channels : starts[c] > 0 /\ ~started[c]

\* event_loop_started is an unlocked flag that one thread sets and another
\* tests, and still there are never two event threads: mxuvc_video_start
\* creates one only when the last has left, and waits for it to come up.
SingleLoop ==
  \A k, l \in Loops : Live(k) /\ Live(l) => k = l

\* When the application is between two calls and no error stop is under way,
\* the reference count is the number of started mux channels, and the shared
\* stream is on, both for the library and for the driver, exactly while there
\* is one.
RefCountExact ==
  pc[App] \in {"idle", "finished"} /\ ~StopInProgress =>
    /\ refCount = Cardinality({c \in Channels : IsMux(c) /\ started[c]})
    /\ muxStarted <=> refCount > 0
    /\ IpcamMode => (muxStarted <=> 0 \in streaming)

\* The driver never gets a buffer back while the event loop reads the frame in
\* it or the client holds it: no frame is overwritten under its reader.
ExclusiveBuffers ==
  /\ \A f \in Fds : \A b \in held[f] : bufs[f][b] = "user"
  /\ \A l \in Loops :
       pc[l] \in {"handle", "cb_read"} => bufs[Fd(ch[l])][buf[l]] = "user"

\* The memory of a buffer stays mapped while the event loop reads the frame in
\* it or passes it to the client's callback.
FramesMapped ==
  \A l \in Loops : pc[l] \in {"handle", "cb_read"} => Fd(ch[l]) \in mapped

\* While the camera is there, the error stops of the event loop and of
\* mxuvc_video_cb_buf_done never take effect: when one is reached because a
\* stop won the race to the driver, the channel is found stopped already.
NoSpuriousStop ==
  ~gone => \A l \in Loops : pc[l] \in StopLabels => pc[l] = "stop"

\* After mxuvc_video_deinit nothing is left streaming, mapped or open, in
\* whatever state the channels were, if the camera was there to say how many
\* channels it has.
AllReleased ==
  pc[App] = "finished" /\ ~gone =>
    streaming = {} /\ mapped = {} /\ opened = {}

\* Between calls, every buffer of a running stream is in the driver's queues,
\* with the client, or in the hands of the event thread: none is lost.
NoBufferLost ==
  pc[App] = "idle" =>
    \A f \in streaming : \A b \in Buffers :
      bufs[f][b] = "user" =>
        \/ b \in held[f]
        \/ \E l \in Loops :
             \/ buf[l] = b /\ Fd(ch[l]) = f
             \/ bidx[l] = b /\ Fd(bch[l]) = f
        \/ StopInProgress

\* Between calls, a started channel has an event thread that is not leaving.
StartedHasLoop ==
  pc[App] = "idle" /\ ~NobodyStarted =>
    \E l \in Loops : Live(l) /\ pc[l] # "exit"

\* Every call of the API returns, the wait for the event thread included.
CallsReturn == AppInApi ~> ~AppInApi

\* Once every channel stays stopped the event thread leaves.
LoopEnds == <>[]NobodyStarted => <>[](~loopStarted)

\* While all channels that were started run, a frame the driver has filled for
\* one of them is taken out: no channel starves another.
FrameServed ==
  \A c \in Channels :
    started[c] /\ (\E b \in Buffers : bufs[Fd(c)][b] = "done")
      ~> \/ SomeStopped \/ Crashed
         \/ \E l \in Loops : pc[l] = "handle" /\ Fd(ch[l]) = Fd(c)

\* Unplugging the camera ends the event thread, so that mxuvc_video_alive
\* tells the application, which polls it.
UnplugEndsLoop == gone ~> ~loopStarted
=============================================================================
