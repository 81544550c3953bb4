# Verification of usbtx

This directory holds TLA+ specifications of `usbtx`: the `capture-mux` tools and
the library under them, `libmxuvc`, which drives a Maxim USB camera. The
specifications are checked on small instances with TLC; the theorems are checked
with TLAPS for every value of the constants. Paths below are relative to the
root of the repository; `uvc.c` without a path is
`libmxuvc/src/video/v4l2/uvc.c`.

## Inventory of the system

| component | state it keeps | operations | what makes it hard | correct when |
|---|---|---|---|---|
| V4L2 streaming core, `uvc.c` | `video_stream[]` (enabled, started, fd, buffers), `mux_stream` (fd, started, ref_count), `event_loop_started`, `exit_event_loop` | init, start, stop, cb_buf_done, deinit, alive; the event thread | no lock anywhere: the application, the event thread and the client's callback share plain ints and the kernel's buffer queues | one event thread while something is started; no buffer lost or overwritten; the count matches the started channels; calls return; everything is released |
| capture-mux, `capture-mux/src/capture_mux.c` | `fifo_out`, `fifo_in`, the signal | main, `ch_cb`, `spi_thread` | three threads and a ring of buffers through two FIFOs and the driver | every buffer circulates; none is written while it is sent; main ends when the camera goes |
| packet queue, `libmxuvc/src/common/queue.c` | ring, first, last, prefill, prefilled | stash, pop, reset, getsize, is_prefilled | the overflow rule at the boundary; `queue_pop` hands out a pointer into the ring | order, newest packets kept, popped packet intact |
| libusb context and event thread, `common/libusb/handle_events.c` | `libusb_ctx`, `init_refcnt`, `event_loop_refcnt`, table of removal callbacks | init/exit_libusb, start/stop_libusb_events, (de)register, the event thread | counters read after the unlock, an exited context that is never reset, a full table that says nothing | the context lives while it has a user; one thread while there are listeners, none after the last |
| libusb backends, `video/libusb-uvc/uvc.c`, `audio/libusb-uac/uac.c` | `active_transfers`, `xfers[]`, started and disconnected flags | init, start, stop, deinit, the transfer callbacks, removal | transfers resubmitted while stop waits for them; one mutex per counter function; a shared thread and context | stop waits for exactly the transfers in flight; nothing is closed under them; calls return; an unplug is noticed |
| frame assembly, `demux_uvc` in `video/libusb-uvc/uvc.c` | static per-channel buffer, frame id, continuity counter | one payload at a time | payloads get lost and carry no number | frames reach the client whole; none is dropped without a loss |
| descriptor parsers, `desc-parser.c`, `adesc-parser.c` | `mxuvc_vcfg[]`, `aud_cfg`, and the parsers' statics | one walk over a configuration per init | indices that count on from one interface, or one init, to the next | the tables say what the descriptors do |
| ALSA backend, `audio/alsa/uac.c` | `AudioEngine_started`, `AudioEngine_aborted`, `exit_AudioEngine`, `astream->started`, the PCM handles | init, start, stop, deinit, formats, alive, the engine thread | a handshake through `exit_AudioEngine`, an abort racing a stop, restarts | one engine; it reads an open device; it is gone after a stop; stop returns |
| settings, `video/v4l2/uvc.c` 1437-1562 and 1781-3756, `video/libusb-uvc/uvc.c` 420-599 and 1814-2513 | cached format, size, rate, bit rate, pan and tilt, `secs_enabled`; the camera's controls | the get and set functions, set_format, probe and commit | several requests per setting, any of which may fail; caches beside the camera | what is reported is what is delivered; what was set stays set; a running stream keeps running |
| alert plugin, `plugins/alert` | `alert_thread_state`, `alert_state`, `disable_alarm`, `alarm_thread_id`, flags and callbacks of two alarms, regions | init, deinit, enable, disable, threshold, regions, the alert thread | a condition variable without a predicate; one thread and one flag for two alarms; a transfer without timeout | one thread serves the alarms that are on; deinit ends it before it closes the handle |
| burn-in plugin, `plugins/burnin/burnin.c` | handle, interface, `open_counter` | init, deinit, text and time | shares the context; inits that fail half way | the context lives while the handle is open |
| QBOX parser, Skype extension unit parser, option parser | none | parsing | - | - |
| other tools `capture_avmux.c`, `capture_audmux.c`, `capture_raw.c` | file descriptors | main and callbacks | as capture-mux, without a second thread | - |

How they interact. A tool calls the library on its main thread
(`mxuvc_video_init`, `_register_cb`, `_start`, polls `_alive`, `_stop`,
`_deinit`). The library's event thread selects on the camera's descriptors,
dequeues a filled buffer, parses it, and calls the tool's callback with a pointer
into the mapped buffer. In ipcam mode (the camera offers the MUX format) all
channels but the last share one descriptor, one set of buffers and a reference
count, and the client returns each buffer with `mxuvc_video_cb_buf_done`;
outside it ("skype mode") each channel has its own device and the event loop
requeues. Both `cb_buf_done` and the event loop stop a channel when the driver
refuses a request, so `mxuvc_video_stop` runs on two threads. In capture-mux the
callback passes buffers to a third thread and returns those it gets back.

With the libusb backends the roles are others: a shared event thread runs the
callbacks of completed transfers, `capture_callback` assembles frames with
`demux_uvc`, calls the client and submits the transfer again, and `stop` polls a
counter of transfers in flight. At init both backends walk the camera's
descriptors; the tables they fill are what `set_format` later chooses from. The
ALSA backend has a thread of its own. The plugins use libusb beside either
backend, with the same context but without its event thread.

`PROJECT.json` lists what can go wrong, each hazard at its line with the
properties that would catch it.

## Modules

| module | models |
|---|---|
| `V4l2Video` | the V4L2 streaming core, the kernel's buffer queues and the client at their interface |
| `CaptureMux` | capture-mux, on top of `V4l2Video` |
| `DropQueue` | what a packet queue promises |
| `PacketQueue` | the ring of `queue.c`, shown to implement `DropQueue` |
| `LibusbContext` | the reference-counted context of `handle_events.c` |
| `LibusbEvents` | the reference-counted event thread and the removal callbacks; EXTENDS `LibusbContext` |
| `UsbStreaming` | the libusb video and audio backends, which share `LibusbEvents` |
| `Plugins` | the alert and burn-in plugins, which share `LibusbContext` |
| `AlsaEngine` | the ALSA backend |
| `ChannelSettings` | the state of one channel's settings, for either backend |
| `V4l2Settings`, `UsbSettings` | the setting calls of the two backends |
| `VideoSettings` | both, and what settings promise |
| `UsbDescriptors` | the descriptor parsers, and what a configuration describes |
| `UvcDemux` | `demux_uvc`, and the camera that sends to it |
| `UsbInput` | both: the parsed tables say how a stream is put together |
| `V4l2VideoProofs`, `CaptureMuxProofs`, `PacketQueueProofs`, `UsbStreamingProofs`, `AlsaEngineProofs`, `PluginsProofs` | theorems about the modules of these names |
| `UsbInputProofs` | theorems about `UvcDemux` and `UsbDescriptors` in the steps of `UsbInput` |
| `VideoSettingsProofs` | theorems about the settings of both backends |
| `MC...` | the small instances that TLC checks |

### V4l2Video

*State.* `enabled`, `started`, `muxStarted`, `refCount`, `exitLoop` and
`loopStarted` are the fields and globals of the same names. `opened`, `mapped`,
`streaming`, `bufs` and `gone` are the kernel's view of each descriptor and the
mapping of its buffers. `held` is what the client has and owes. `pc`, `ch`,
`ready`, `buf`, `reg`, and the arguments `sch`, `sret`, `bch`, `bidx`, `bret`
are the program counters and locals of the threads: `mxuvc_video_stop` and
`mxuvc_video_cb_buf_done` are procedures called from several places, so their
arguments and return labels are state.

*Steps.* Nothing takes a lock, so an action ends wherever another thread can
change what the next access sees. `mxuvc_video_start` is StartChannel (checks and
`init_mmap`), StartQueue (VIDIOC_QBUF of all buffers, STREAMON, started),
StartLoop (test of the flag, `pthread_create`), StartWait (the polling loop),
StartMux, StartLoad and StartRef (`ref_count++`). `mxuvc_video_stop`, on either
thread, is StopEnter to StopUnmap. A `++` or `--` of `ref_count` is a load and a
store, and the test after the decrement may use the register or memory. The scan
of the `started` flags in `event_loop` is one step per channel; LoopCheck is its
test of `started` before VIDIOC_DQBUF (1333), LoopDequeue the ioctl. Each ioctl is
one step, with its error path; a StartQueue that fails has queued any part of the
buffers. `chCount` is the number of channels that `mxuvc_video_deinit` walks. It
asks the camera for it (1761), and without a camera the request fails unseen
(2264-2267) and the number is what the stack held (3548-3555): too low, right, too
high (`NumChannels + 1`, where nothing is done for the channels that are not there)
or beyond `video_stream[]` (`NumChannels + 2`, DeinitBeyond).

*Abstractions.* A descriptor is named by the lowest channel that uses it. Frame
contents are reduced to the stream id in the QBOX header (`BoxIds`). Statistics,
sequence numbers and messages are left out. Requests to the camera's extension
unit at start and stop have no effect on this state and their results are
ignored by the code. A read of an unmapped frame ends the process (`Segfault`);
all descriptors then close and the event thread is gone. Compiler reordering of
the flags is not modelled: between any two of them the code makes a system call
or a call into another translation unit, except for the adjacent stores of
`started` and `ref_count`, where only the load and store are split. `V4l2_skype`
has one buffer per channel, for which `init_mmap` asks two at least (935).

*Assumptions on the client.* It calls start, stop and deinit from one thread,
registers its callbacks before the first start, and returns buffers only inside
its callback (as every tool here does); it may keep buffers (`ClientKeeps`).
While it is in the callback of one channel it returns buffers of the same
descriptor.

### CaptureMux

It EXTENDS `V4l2Video` and conjoins its actions with steps of the tool: main's
calls are StartChannel(0), StopChannel(0) and Deinit under main's own control
flow, the callback replaces the arbitrary client, and the SPI thread runs beside
them. `c_signal` may be lost without effect, since the SPI thread also wakes once
per second and empties the whole FIFO, so the model lets it run whenever the
FIFO is not empty. The FIFO type comes from a header outside the repository; it
is modelled from its use: writing to a full FIFO has no effect.

### PacketQueue

One action per locked operation, as all of its code is inside the mutex. Packets
are numbers in order of arrival. The indices follow the code: `Threshold` is the
stored `prefill - 1`, `Size` is C's remainder corrected when negative. The
history variables `popped` and `dropped` remember what the consumer was handed.

### LibusbContext, LibusbEvents and UsbStreaming

*State.* `ctx`, `initRefs`, `eventRefs`, `eventThread` and `removal` are the
statics of `handle_events.c`; `running` is the set of event threads that exist.
Of each backend (`"video"`, `"audio"`) `started`, `disconnected`, `active` and
`xfer` are the code's flags, its counter of transfers and its table `xfers[]`;
`life` says how far init and deinit have come (`"half"` after a deinit that could
not release an interface, which leaves the backend initialised but without its
removal callback).  `broken` is set while the event thread is gone because
`libusb_handle_events_timeout` failed (`handle_events.c`:64-68). `cb` is the callback that the
event thread runs, as there is at most one. `raced` remembers the backends whose
counter lost an update.

*Steps.* A call of a backend is a few steps: `InitCall` and `Listen`;
`StartCall`, then `Submit` and `Count` for each transfer; `StopCall` and
`Waited`; `DeinitCall`, `Release`, `Unlisten`, `Join`, `Close`. The event thread
leaves by `EventLoop` or, on an error, by `EventLoopError`. A callback is entered with a
status, handled, then resubmits and counts. The boundaries are those between
accesses to what another thread writes: in particular the counter, whose three
functions each have their own mutex, and the tests of `event_loop_refcnt`, which
follow the unlock. `libusb` is external: a submitted transfer ends once, with one
of the statuses that the callback looks at. The channels of the video backend
share no state, so one of them stands for all.

*Left out.* A second init of a backend after its deinit, which the parsers do not
survive (see `UsbDescriptors`), and the assembly of audio samples. libusb may also
handle events on a thread that waits for a control transfer of its own; the model
has them handled by the event thread only.

### Plugins

The variables are the statics of `alert_main.c`, `audio_alert.c` and
`motion_alert.c`; `at` is the place of each alert thread, `armed` what the camera
was told to report, and `on` the alarms that the application has successfully
enabled. `set_alert` is `Request` (the control transfer), `Start`
(`start_alert_thread`), `Sleep` (sleep and signal) and `SetState`; the enabling
call ends with `Store`, deinit is `DeinitCall`, `DeinitSignal`, `DeinitJoin` and
`DeinitClose`. `Lowered` is the alternate setting that deinit's unchecked request
leaves (`alert_main.c`:162-164). A deinit without a camera goes the same way, with
the thread id of an earlier session, which a join is taken to return for. The
thread's steps are `Test`, `Wait`, `Woken`, `Receive` or
`TransferFails`, and `CallbackReturns`; `top` is an audio alarm of an intensity of
32767 or above. Setting the interface back to its
alternate setting 0 ends a pending transfer, as the kernel does. `sleep(1)` is
the constant `Slow`: when FALSE, the second is long enough for a new thread to
reach its wait, which is what the code counts on. `Client` names two orders of
calls that break the plugin (a deinit that is refused, an init while the thread
runs); an empty set is a client that keeps to the rules. Neither plugin is
initialised with an exited context: the code then uses it, as nothing resets
`libusb_ctx`.

### AlsaEngine

`started`, `exitEngine`, `engineStarted` and `aborted` are the code's flags,
written by both sides without a lock; `handle` is the PCM of each channel, with
`"closed"` for a pointer that was closed and not reset. Start, stop and deinit
share `_mxuvc_audio_start` and `_stop`, so their return label (`then`) is state.
The engine is at `begin` (thread created), `top` (its loop condition), `pcm` or
`aac` (a read), `abort`, `exit` and `leave` (the store to `exit_AudioEngine`).
The sizes of reads and what is in them are left out. `OpenFails` is a device that
`snd_pcm_open` refuses, `Open(c, FALSE)` one that cannot be configured.

### Settings

A call is one step, since no other thread writes these settings. Each request of
a call that may fail is in a set, and a call picks the set of those that do
(`Failures`): the code's order and its early returns decide what is changed.
`s` is the library's record of a channel, `dev` what the camera does, `ctl` its
controls. `wish` is what a successful call last set, `lapse` what the code itself
has left in disagreement. The audio bit rate is always CH1's (3566-3609), whichever
channel the other calls are about. A libusb start whose submit fails leaves
`started` set, as the code does. Each name of `lapse` is a place where the code
does so (see "What the models showed").

### UsbDescriptors, UvcDemux and UsbInput

A configuration is a sequence of descriptors, records of the fields the parsers
use. The steps walk it as `parse_usb_interface` and the functions below it do,
with their statics. What the tables should say is stated separately, from the
whole sequence at once (`ChannelDescribed`), by counting: the k-th format of a
channel is the one with k formats of its video function up to it (`Rank`). Every
configuration is `WellFormed`: terminals and units stand in interfaces of video
control, formats and frames in those of video streaming, as `parse_usb_interface`
(321-341) takes them, and each video control interface is followed by at most one
streaming interface, as `mxuvc_vcfg[]` has one `vs` per channel. Two more clauses
are what the code relies on and does not test: a frame descriptor comes after a
format (`desc-parser.c`:574 indexes `formats[format_idx - 1]`), and a function has at
most `MAX_ALT_PER_INT` alternate settings (867-879 write `alt_ep[]` and
`alt_maxpacketsize[]` unchecked). Without them the parser writes outside its tables,
so nothing is claimed of such configurations. TLC checks all of this of every
configuration it reads.

`UvcDemux` sends frames as payloads (isochronous) or at once (bulk), as transport
packets or raw, loses or damages them, and follows `demux_uvc` on the other side;
`wire` is the history against which the frames given to the client are judged.
`UsbInput` composes the two: the format and the endpoint found by the parser
decide how the stream is cut.

## Runs

Every run switches deadlock checking off: the system may stop (deinitialised,
nothing started, all packets produced).

| run | instance | shows |
|---|---|---|
| `V4l2_ipcam` | ipcam, 2 mux channels and raw, 2 buffers, each started once | `RefCountExact`, `ExclusiveBuffers`, `NoSpuriousStop`, `AllReleased`, types |
| `V4l2_skype` | skype mode, 2 channels, one started after the other was stopped, 1 buffer, unplug and failing `pthread_create`, fair | `SingleLoop`, `FrameServed`, `UnplugEndsLoop` |
| `V4l2_live` | ipcam, 2 mux channels used, fair | `LoopEnds`, `CallsReturn`, `FrameServed` |
| `Capture` | capture-mux, 2 buffers, 2 usable FIFO entries, unplug, failing `pthread_create`, fair | `NoLeak`, `PipeExclusive`, `ClientContract`, `CaptureEnds`, types |
| `Queue_ring` | 4 slots, prefill 2, 9 packets | `PoppedIntact`, `ImplementsPromise` (refinement) |
| `Usb_streaming` | video with 2 transfers and restarts, audio with 1, failing inits and releases, unplug, an error of the event handling, fair | `CountExact`, `StoppedIsQuiet`, `ThreadServes`, `ContextLives`, `CallsReturn`, `UnplugNoticed` |
| `Alsa` | 2 channels used one at a time, all faults, fair | `SingleEngine`, `ReadsOpenPcm`, `QuietWhenStopped`, `StopAnswered` |
| `Settings` | one channel, either backend, one failing request per call | `FormatTrue`, `Honoured`, `StreamingKept`, types |
| `Usb_input` | 62 configurations, 4 of them streamed | `ParsedAsDescribed`, `DeliveredWhole`, `NoFalseDrop` |
| `Alert` | both plugins, failing inits, requests and thread creation, unplug, fair | `SingleWorker`, `HandleHeld`, `AlarmsServed`, `AlarmDelivered`, `AlertReturns` |

The type invariants of the queue, the libusb backends, ALSA and the plugins, and
`CloseIsQuiet` and `PluginContextLives`, are proved and need no run of their own.

Runs that are expected to find a violation, each a disagreement of the code with
one of its own comments (quoted in `PROJECT.json`, "findings"):

| run | what the counterexample shows |
|---|---|
| `V4l2_no_loop` | The event thread reads `started` of channel after channel. With one channel stopped and another started meanwhile it sees none started and leaves, while `event_loop_started` is still 1, so the start creates no thread. The channel is started and nobody reads it. |
| `V4l2_raw_starves` | After a mux frame the index is set to `mux_channel_count` and then incremented, so the raw channel is skipped in every pass that finds a mux frame. |

## What the models showed

Besides the runs above, the following came out of the modelling. Some are
properties that are defined in a module and fail; changing a configuration as
said shows them.

V4L2 streaming.
- `CallsReturn` with restarts (`Restarts = TRUE`, `MaxStarts = 2` in
  `V4l2_live.cfg`): the flag falls between the test at 1879 and the wait at 1891,
  and `mxuvc_video_start` polls for ever.
- `CallsReturn` with `Faults = {"unplug"}` in `V4l2_live.cfg`: when the camera goes
  during a start, the event thread may come up, stop everything and leave before
  `mxuvc_video_start` looks at the flag (1891), which then polls for ever.
- `RefCountExact` with `Faults = {"unplug"}` in `V4l2_ipcam.cfg`: the error stop that
  follows may take its count off between the load and the store of `ref_count++`
  (1895): the decrement is lost, and the mux stream stays marked as started.
- `NoBufferLost`: the first frames of a mux stream may reach the client before
  `mux_stream.started` is set; the buffer it returns is dropped.
- `FramesMapped`: stop unmaps the buffers while the event thread parses one or
  the callback reads it.
- `Recycled` of `CaptureMux`: buffers come back to the driver only from the
  callback of the next frame; with all in `fifo_in` capture stands still while
  `mxuvc_video_alive` says 1.
- `NoSpuriousStop` with restarts: a DQBUF refused because of a stop calls stop
  itself, and kills the stream if it was started again in between.
- `ImplementsPromise` with `Prefill = MaxSize`: the overflow rule keeps no packet,
  although `queue_init` accepts such a queue and `queue.c:145` promises `prefill`
  items.

- After an unplug `mxuvc_video_deinit` may release nothing, or run past
  `video_stream[]`, as it uses a channel count that nobody wrote (see `V4l2Video`);
  `AllReleased` therefore speaks of a camera that is there, and `CaptureEnds` ends
  with a finished or a crashed process.

Settings. `lapse` and the exceptions in `Honoured` list what the code leaves in
disagreement. V4L2: a set_format that returns -1 after it has changed the cached
format; a driver that replaces the requested format, which set_format does not
look at; a SECS size under a format without a SECS type; `get_tilt` reads the pan
(2650); `pict_timing` is declared with the id of `vui`; the result of a request
to a mux channel is not looked at. libusb: `quirk_demuxts` is never cleared
(1847); AAC muxing left on by an earlier program.

libusb backends.
- Two overlapping updates of `active_transfers` can lose one: the counter then is
  too high and `stop` waits for ever, or too low. `raced` marks these histories,
  and the properties about the counter exclude them.
- With a single transfer the callback is past the test of `started` but counted
  as ended while it resubmits, so `stop` can return too early. The audio backend
  with one transfer is such a case, and `StoppedIsQuiet` excludes it.
- A failed submit in audio's start leaves a freed transfer in its table
  (`uac.c:844`); an init that fails after `init_libusb` never gives its reference
  back, because deinit refuses to run.
- If `libusb_handle_events_timeout` fails, the event thread leaves although the
  comment at `handle_events.c`:85-91 promises event handling until all listeners have
  stopped it. The count stays, so that no later init starts a thread; a stop whose
  transfers are in flight then waits for ever (`Abandoned`), and an unplug is not
  noticed. `ThreadServes`, `CallsReturn` and `UnplugNoticed` except exactly this.
- A deinit that cannot release its interface returns -1 after it has deregistered
  its removal callback: the backend stays initialised and learns of no unplug.
- If two application threads call the backends (`Serial = FALSE`), the tests of
  `event_loop_refcnt` after the unlock allow no thread, or a join of the wrong one.

Frame assembly. Payloads have no number: two frames of equal frame id whose
boundary is lost are joined; a gap of sixteen packets is invisible to the
continuity counter; `find_default_frame` (1127) keeps the frame of another
format; more than five discrete intervals leave the list unset; merged frames
can reach the `assert` on `MAX_FRAME_SIZE`.

Parsers. The channel index of the video parser is never reset, so that a second
init fails or finds freed tables; the audio parser's `fmt_idx` (396) grows over
inits until its table is full; a descriptor of length zero is an endless loop in
the audio parser.

ALSA.
- `AliveHasEngine` fails: the engine may leave by itself with `AudioEngine_started`
  set and nothing aborted. A stop that passes the test at 386 just before the
  engine aborts then waits at 398 for a thread that is gone; `StopAnswered` speaks
  of engines that exist.
- With two channels in use (`MaxUsed = 2`) a stop of one ends the engine of both,
  and the engine may read the closed device of one while the other is open:
  `ReadsOpenPcm` excepts a client that has opened another channel.
- A failed configuration closes the mixer and leaks the PCM; set_samplerate
  configures the handle it has just closed; the loop buffer's size is taken at
  init; the engine thread is never joined; an unplug is not noticed in AAC.

Plugins.
- With `Client = {"refused"}` `AlarmDelivered` fails: `mxuvc_alert_deinit` has told
  the thread to stop and disabled the alarms before `alert_main.c:158` refuses the
  call because an alarm is on, and nothing undoes it. The next alarm is received
  and dropped.
- `ClosedWhenOff` fails: `alert_state` (76, "alert count") is set to 1 and 0 for
  both alarms (256-259), so disabling one lets deinit close the camera under the
  other.
- With `Tunings <- TooHigh` `LevelInRange` fails: `motion_alert.c:197-200` assigns
  `MAX_LEVEL` to the sensitivity where the level is too high.
- With `Client = {"again"}` `HandleHeld` fails: an init of an open plugin is
  refused only after it has forgotten the thread's id, so that deinit closes the
  handle under the thread. With `Client = {"refused"}` there can be two threads.
- With `Slow = TRUE` `AlarmsServed` fails: the signal is lost and the thread waits.
- After the last user has exited the context the next init uses it.
- An audio alarm of an intensity of 32767 or above, the loudest, is dropped
  (`audio_alert.c`:139): `AlarmDelivered` excepts it.
- If the camera refuses the alternate setting 0, which deinit does not look at, the
  thread stays in a transfer without timeout, and deinit in the join, until an alarm
  comes (`LeftInTransfer`); `AlertReturns` excepts it.
- `alarm_thread_id` is not cleared after the join: a deinit without a camera joins
  the ended thread again.
- Alarms that arrive before the enabling call has stored its callback are lost.
- A deinit after an init that could not read the configuration reads through a
  null pointer (`alert_main.c:175`); the test of a region's number refuses only
  one number (`motion_alert.c:135`).

## Bounds and fairness

*Bounds and why they are enough.* Two buffers instead of eight: the code treats
buffers alike, and two distinguish "one lost", "all out" and "one read while
another is filled"; `V4l2_skype` has one, as its properties are about the
thread. Two mux channels and the raw one are the fewest with a shared count
above one and a channel of the other kind. Two event thread identities allow a
second thread to appear; an identity is reused after its thread has left.
`MaxStarts` is 1 where the tools' own use is the question (start all, then stop
all; `Restarts = FALSE`), 1 per channel in `V4l2_skype`, where stopping one
channel and starting another already needs a second thread, and 2 where the
restart of a stream is the question. The ring of 4 with 9 packets wraps twice
and overflows several times. `MaxPackets` and `MaxStarts` are the only bounds on
unbounded behaviour. Symmetry over buffers and threads is used in runs without
liveness.

`Usb_streaming` has two transfers for video and one for audio, the fewest with a
stop that catches one in a callback and one in flight; two thread identities, so
that a second thread can appear; one application thread (`Serial = TRUE`), as in
the tools; video restarted without a bound, audio started once. Failing transfers
and submits (`"error"`, `"submit"`) are left to the theorems on the counter and
the types: the count stays exact, but a slot is then lost for good. `Alsa` has two
channels, the library's number, and two threads; retries are bounded by 2 instead
of the code's limit, as only "one left" and "none left" differ. The invariants of
its proofs were also checked with both channels in use. In `Settings` an
application uses the calls about the format or one of seven groups of controls,
since these share no state; five formats, three of which the camera has, cover
each branch of the translation between formats and fourccs; one failure per call
(and one of the start that ends it) reaches every error path. `Usb_input` has
configurations with each kind of descriptor, of one to three video functions for two
channels, with formats and frames more than announced and a length of zero. The counter's
modulus is 8 instead of 16 so that a gap of a whole round fits in the frames, of three
payloads of four packets each; three frames are the fewest of which two can be put
together (the first and the third, across the loss of the second). The buffer holds 16
packets, more than the 12 of a frame and fewer than two of them: a merged frame is
cut in a transport stream (762) and runs into the assertion in a raw one. Audio is
initialised up to three times with room for three formats instead of eight, so that the
third init finds the table full, which the run reaches. `MaxAlts` is 2, what the
configurations have. `Alert` has two thread identities
and at most three references to the context, so that both plugins, a failed init
and a second session fit.

`NoSpuriousStop`, `StartedHasLoop` and `CallsReturn` depend on whether the
application starts channels again after a stop: `NoSpuriousStop` and
`CallsReturn` hold for the start-all, stop-all use of the tools (`V4l2_ipcam`,
`V4l2_live`) and fail with restarts; `StartedHasLoop` fails in both.
`FrameServed` holds among mux channels and in skype mode and fails for the raw
channel. `AllReleased`, `ExclusiveBuffers` and `RefCountExact` are likewise
properties of the start-all, stop-all use without a failing `pthread_create`.
With restarts the first two fail as well: the new start queues again the buffer
that a callback or a client of the old stream still holds, and an error stop of
the old stream decrements the count of the new one. After a failing
`pthread_create`, `AllReleased` fails because the start that took no thread has
counted itself. Only `SingleLoop` holds in every configuration. The theorems of
`V4l2VideoProofs` state the conditions of the others (`Orderly`).

*Fairness.* Threads are scheduled: weak fairness of the application's steps
inside a call and of each event thread, callback included (a callback that never
returns is not the library's fault, so it is assumed to return). The camera keeps
filling buffers of a running stream: weak fairness of Fill per descriptor. The
application owes nothing: no fairness on its decisions to start, stop or deinit.
In `CaptureMux` main reacts to a dead event thread (it polls every second) but
need not stop by itself, and the SPI thread keeps sending.

In `Usb_streaming` calls that were begun, callbacks and event threads go on (weak
fairness). The event thread looks at all devices that have something, so the
completions of each backend and the removal are strongly fair: they are disabled
while another callback runs. Transfers end, since they have timeouts. In `Alsa`
and `Alert` calls that were begun and each thread go on; alarms need not come.

*Seeded faults.* Operators whose comment says "Seeded fault" or "Mutant" are
variants of the definition that follows them. Each property is known to fail when
one of them takes the place of its original (`PROJECT.json`, "mutants"), so no
property holds by the shape of the model alone. No specification refers to them.

## Theorems

`V4l2VideoProofs`, from `VideoAssumption` only (any number of channels, buffers
and threads, either mode, restarts, all failures):

- `OneEventThread`: `Spec => []SingleLoop`. `SingleLoop` is not inductive: that no
  thread is up when StartLoop creates one follows from the flag. The invariant
  `LoopInv` adds `FlagCoversLoop` (a thread that has come up has the flag set;
  while one has yet to, the flag is down and the application is at the wait) and
  `ThreadPlaces` (which labels belong to which thread, and where its calls
  return). The heart of the argument is that the only thread that creates event
  threads is also the one that waits, so the window between `pthread_create` and
  the flag is closed; the theorem says nothing of an application that starts
  channels from two threads.
- `TypeCorrect`: `Spec => []TypeOK`. It needs `LoopInv` for where calls return to,
  and `InRange`: the loop index is a channel wherever it indexes `video_stream[]`
  and the dequeued index is a buffer where the handlers use it. The proof follows
  who writes what: flags, driver state, thread-local state.

The second half of `V4l2VideoProofs` adds `Orderly`: no channel is started once one was
stopped (`~Restarts`), threads can be created and the camera stays (`Faults = {}`),
and no frame of the mux stream names the raw one (`MuxCount \notin BoxIds`). Without
any one of them TLC finds a counterexample to one of the four in the instance of
`V4l2_ipcam`: without the first through the buffers that a restart queues again,
without the second through the count of a start that failed and what a lost camera
leaves undone, without the third because `event_loop_handle_ipcam` (1116) lets the id of the raw
channel through, whose callback would then return a buffer of the mux stream to
another queue. Any number of channels, buffers and threads, either mode, any client
that returns buffers inside its callback, whatever it keeps:

- `CountFollowsChannels`: `[]RefCountExact`; `ErrorStopsAreVain`: `[]NoSpuriousStop`;
  `FramesExclusive`: `[]ExclusiveBuffers`; `DeinitReleases`: `[]AllReleased`.

None of the four is inductive, and none is without the others: the count is exact
only if no error stop decrements it, an error stop is vain only if a descriptor
that refuses an ioctl belongs to a stopped channel, and that depends on the count.
`Sound` is the invariant. `Books` is about the application's side: for each step of
a call, how `started`, `muxStarted`, `refCount`, `mapped` and `streaming` relate to
each other and to the driver; while a channel is being started or stopped the count
is one behind (`Uncounted`). `Hands` is about the event threads: the buffer that
each has at hand is outside the driver's queues, a descriptor that `select` has
reported still has a frame while its stream is on, and so an ioctl fails, and a
stop is entered, only for a channel that is stopped already. The steps are split
accordingly: those of the application change the books and nothing in hand
(`Outside`), those of an event thread its own hand and no book (`Inside`). A client
that reads memory that stop has unmapped ends the process; `Dead` says that
nothing happens then.

`CaptureMuxProofs`, from `CaptureAssumption`, on a camera in ipcam mode (any number
of buffers, channels and event threads, unplugging, failing `pthread_create`):

- `ToolKeepsContract`: `CaptureSpec => ClientContract`: each step of main, `ch_cb`
  and `spi_thread` is a step of `V4l2Video` or a stutter, so that what is proved of
  the library holds under the tool. Only `CbDrain` needs an argument: what comes out
  of `fifo_in` is held by the client, for the channel the callback belongs to.
- `NoFrameOverwritten`: `[]PipeExclusive`; `ReaderUndisturbed`: `[]ExclusiveBuffers`
  of the library, under this tool; `NothingLeaks`: `[]NoLeak`, if
  `Cardinality(Buffers) < FifoSize`; `CaptureTypeCorrect`: `[]CaptureTypeOK`.
- `ToolLeavesNothing`: what `V4l2VideoProofs` says of the count, the error stops and
  deinit holds under the tool, by `ToolKeepsContract`, if the run is orderly.

They share `CaptureInv`. `OneChannel`: only channel 0 is ever started, and before
that nothing moves. `PipeInv`: the FIFOs and the SPI thread have no buffer in
common, the client holds all they have, and what it holds is outside the driver's
queues. `InHand`: the buffer the event thread is working on is in neither. The
invariant of `V4l2VideoProofs` is reused for the library's side: it is what says
that no second event thread is at work on a buffer.

`PacketQueueProofs`, from `QueueAssumption` only (rings of every size, every
prefill up to it, any number of packets):

- `QueueTypeCorrect`: `Spec => []TypeOK`; the indices stay in the ring, which is
  what the assertion at `queue.c:135` relies on. Rests on lemmas about the
  remainder.
- `PoppedPacketIntact`: `Spec => []PoppedIntact`, by `PoppedInv`: the popped slot is
  the one just before `first` until a drop moves `first`, and a stash that does
  not fill the ring writes elsewhere.
- `RingImplementsPromise`: `Spec => ImplementsPromise`, for `Prefill < MaxSize`; it
  is false for equality. The sequence of `DropQueue` is the stretch of the ring
  from `first`, so each step is compared element by element: `Place` and `Count`
  lemmas say how the remainder moves when an index does.

`UsbStreamingProofs`, from `UsbAssumption` and `LibusbAssumption` (any numbers of
transfers, threads and callbacks, all faults):

- `UsbTypeCorrect`: `Spec => []UsbTypeOK`.
- `ContextOutlivesUsers`: `Spec => []ContextLives`. `ContextInv` relates `initRefs`
  to the backends that hold a reference, failed ones included.
- `OneThreadServes`: `Spec => []ThreadServes`, if the backends are called from one
  thread (`Serial`): one event thread while a backend is initialised, unless an error
  of libusb ended it, and then none. `ThreadInv` says which step of a call goes with which count
  and which thread.
- `CountIsExact`: `Spec => []CountExact`, if only video is restarted. `CountInv`
  follows each transfer through start, callback and stop; restarts are sound
  because stop has waited.

If in addition no transfer is refused or fails (`KeepsTransfers`):

- `QuietAfterStop` and `ClosesQuietly`: `[]StoppedIsQuiet` and `[]CloseIsQuiet`. The
  counter alone does not give it, since a callback that has counted its transfer
  as ended may submit it again. `StreamInv` adds that while a callback is past its
  test of `started`, all other transfers are in flight, so that the counter is not
  zero unless there is one transfer.

`AlsaEngineProofs`, from `AlsaAssumption` (any channels used in any number, any
threads, retries and faults):

- `AlsaTypeCorrect`; `OneEngine`: `Spec => []SingleEngine`, by `EngineInv`: without
  `AudioEngine_started`, and between the call's test of it and the creation, there
  is no thread; `NoReadsAfterStop`: `Spec => []QuietWhenStopped`, by `QuietInv`: an
  aborted engine reads no more.
- `ReadsAreOpen`: `Spec => []ReadsOpenPcm`. Devices are closed and opened by start,
  stop and the settings while the engine runs, so the invariant cannot say that
  the engine's device is open. `PcmInv` says what makes it so: when the only device
  ever opened is closed, a channel is still marked as started, or chosen by an
  engine, only after an abort, and an aborted engine reads no more (`QuietInv`).
  Where start clears the abort it has opened the device first.

`VideoSettingsProofs`, from `SettingsAssumption` (any set of formats that the
application asks for and the camera offers, any number of failing requests per
call, either backend). The camera's formats are pixel formats, MJPEG among them:
the names of transport streams are made by the library and never offered, which
the assumption now says:

- `SettingsTypeCorrect`: `[]SettingsTypeOK`; `FormatStaysTrue`: `[]FormatTrue`;
  `StreamIsKept`: `Spec => StreamingKept`; `CallsAreHonoured`: `[]Honoured`.

`AllInv` adds to the types `FormatInv` and `HonourInv`. `FormatInv` is `FormatTrue`
freed of what the application sees: which fourcc goes with which format in the
record, what a SECS probe offers (`ProbeAgrees`), which descriptor, quirk and format
go together with libusb (`RecordAgrees`), and that the library knows whether the
camera multiplexes AAC (`AacKnown`). Each operation is a lemma over all its
paths: what it leaves in the record is compared with what it leaves in the camera,
and where it leaves them apart there is a lapse. `HonourInv` says of each setting
that, wished and without a lapse, it is the value of the control that its accessor
addresses (`Honest`), and of the libusb pan and tilt that the cache is the camera's
(`PantiltCached`); a call then only has to keep the settings it does not concern
(`StepOn`).

`PluginsProofs`, from `PluginsAssumption`:

- `PluginsTypeCorrect`, and `PluginContextOutlives`: `Spec => []PluginContextLives`,
  for any client: the count of the context covers the open handles.
- `OneAlertThread` and `HandleOutlivesThread`: `[]SingleWorker` and `[]HandleHeld`,
  for `Client = {}`. `WorkerInv`: the one thread that may be alive is the one that
  deinit joins; it is alive only while the camera is open, and with the state at
  STOP only while deinit waits for it.
- `AlarmsAreServed`: `[]AlarmsServed`, for `Client = {}` and `Slow = FALSE`.
  `ServedInv` adds that a running thread has got its signal.
- `AlarmsReachCallbacks`: `Spec => AlarmDelivered`, for `Client = {}`. `DeliverInv`:
  an alarm that is on has its flag and its callback (audio alarms at the top of the
  range are not passed on), and `disable_alarm` of an
  earlier session is set only while the camera is closed or deinit is at work.

`UsbInputProofs`, from `DemuxAssumption` (any number of frames, of payloads of a
frame and of packets of a payload, any modulus of the counter and any buffer larger
than a frame, any number of starts):

- `DemuxInvariant`: `Spec => []DemuxInv`; `DeliveredWholeHolds`: `[]DeliveredWhole`;
  `NoFalseDropHolds`: `[]NoFalseDrop`.

Neither property is inductive: both speak of what was delivered, and what is
delivered was buffered over several payloads. `DemuxInv` follows the buffer. That
frames are not mixed needs `Buffered`: since the first of what is buffered arrived,
nothing of the other frame id did and no end of a frame, by `Toggle` and by
`Deliver`. That a frame is whole needs `Grown`: without an error, what is buffered in
the middle of a frame is the beginning of that frame (`Prefix`), or begins with a
packet that was the first of the stream; and for that the counter must be known,
`Counted`: it is behind the camera's by what was lost, so that a packet which does
not jump follows without a gap, or the gap is one that the counter cannot show.
That no frame is dropped needs the converse, `Lossless`: a frame that lost nothing
and follows an end, or the start, has no error and its beginning in the buffer;
`Boundary` says that after an end without a gap nothing is left of the old frame.
`demux_uvc` takes the packets of a payload one by one, a fold in the model.
`FoldRun` turns `FoldLeft` into a run, a value for each packet and what `TsPacket`
makes of it, and `DemuxedSound` and `DemuxedGood` go along the run by induction:
that rests on `LeastNat`, from the library's theorem that the numbers are
well-founded, in a form without an operator as a parameter (`NatInducts`, `UpTo`).

The second half of `UsbInputProofs` is about the descriptor parsers, from
`DescriptorAssumption` and `DevicesAssumption` (any configurations that are
`WellFormed`, of any number of descriptors, with any number of channels, slots,
intervals and inits, and rates above 0). Well-formed is what the code relies on: of a
configuration with more alternate settings than its tables hold, or a frame before any
format, they say nothing:

- `DescriptorsInvariant`: `Spec => []DescInv`; `ParsedAsDescribedHolds`:
  `[]ParsedAsDescribed`.

`ParsedAsDescribed` speaks of accepted configurations only, so nothing of it holds
in the middle of a walk. `VideoInv` says what does: after n descriptors the tables
hold what the first n describe, which is why `VideoDescribed` has n as a parameter,
and the statics agree with the configuration (`Walked`): `chan` is the number of
video functions so far, the counts of formats and frames are those of the last table
and of its last format, and descriptors are skipped exactly behind one of length
zero. That a new table begins at nothing needs `WellFormed`: a second streaming
interface in one function would drop the formats of the first. Each descriptor adds
one position to at most one set (`OfStep`, `FramesStep`) and is the last of it, so
that all earlier places stay (`Joins`, `RanksOf`); cardinalities come from the
library's theorems on finite sets. `AudioInv` says that each slot of `aud_cfg` is
free or an alternate setting of this camera, over all inits, stale slots included:
a rate above 0 is therefore never found in a free slot.

*Only model-checked:* the liveness properties (`FrameServed`, `UnplugEndsLoop`,
`LoopEnds`, `CallsReturn`, `CaptureEnds`, `UnplugNoticed`, `StopAnswered`,
`AlertReturns`), which fairness puts out of TLAPS's reach. All invariants of the
passing runs, the refinement of `DropQueue`, `ClientContract` and the action
properties `StreamingKept` and `AlarmDelivered` are theorems.

## Not modelled, and why

`mxuvc_video_init` of the V4L2 backend searches `/dev/video*` and probes devices;
its success is the initial state. `force_iframe`, the getters of channel
information and the single requests of the plugins (text, time, audio intensity,
voice activity, removing a region) have no state that anything else reads. The
QBOX parser reads fields of a header; its result, the stream id, is an input of
`V4l2Video`. The Skype extension unit parser is vendored; its result is an input
too. The option parser and the tables of names are string handling. In the ALSA
backend the volume and the reads' arithmetic are left out, in the libusb audio
backend the assembly of access units, the timestamps and the volume. A second
init of the libusb backends is modelled for the parsers only. The other capture
tools write each frame to a file inside the callback: as clients they are the
`ClientKeeps = FALSE` instances of `V4l2Video`. The board support files, kernel
configuration and patches are not part of the program.

## Plan

Done: the V4L2 core with capture-mux and the queue; the libusb context, event
thread and backends; the ALSA engine; the settings of both backends; parsers and
frame assembly; the plugins; the theorems above.

Left, in this order:

1. `ExclusiveBuffers` with an unplugged camera, for which StartQueue has to be split
   into its requests: as one step, a start that fails after the unplug may have
   queued buffers that the driver took before it.
2. The assembly of audio access units in the libusb audio backend, and the ring of
   the ALSA backend's AAC frames, against a reference definition.
3. The QBOX parser as operators over bounded headers.
