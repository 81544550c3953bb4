---------------------------- MODULE UsbStreaming ----------------------------
(***************************************************************************)
(* Streaming in the libusb backends (video/libusb-uvc/uvc.c,               *)
(* audio/libusb-uac/uac.c). Each keeps NumTransfers transfers in flight:   *)
(* the callback, on the event thread of LibusbEvents, handles a completed  *)
(* transfer and submits it again; active_transfers counts those in flight, *)
(* and stop waits until it is zero. A video channel and the audio backend  *)
(* are the two users; channels of the video backend share no state.        *)
(***************************************************************************)
EXTENDS LibusbEvents

CONSTANTS
  NumTransfers,  \* num_transfers of each backend
  Faults,        \* what may fail or happen, a subset of FaultKinds
  Restarted      \* the users that the application may start more than once

FaultKinds == {"init", "submit", "error", "unplug", "events", "release"}

ASSUME UsbAssumption ==
  /\ NumTransfers \in [Users -> Nat \ {0}]
  /\ Users = {"video", "audio"}
  /\ Faults \subseteq FaultKinds

VARIABLES
  life,          \* "new"; "open" and, once it was started, "used" (the flag
                 \* _initialized); "half": a deinit has failed, which leaves it
                 \* initialised; "closed"; "failed"
  started,       \* vset->started, aud_started
  disconnected,  \* video_disconnected, audio_disconnected
  active,        \* active_transfers
  xfer,          \* xfers[]: what has become of each transfer
  cursor,        \* the loop index of start
  ret,           \* where stop returns to
  raced,         \* the users of whose count an update was lost
  cb,            \* the running callback: user, transfer, and its next step
  unplugged      \* the camera is gone

local == <<life, started, disconnected, active, xfer, cursor, ret, raced, cb>>
vars == <<libusb, events, pc, local, unplugged>>

Transfers(u) == 1 .. NumTransfers[u]
Statuses == {"completed", "timedout", "cancelled", "error", "nodev"}
NoCb == [user |-> "none", id |-> 0, status |-> "none", at |-> "none"]

Open(u) == life[u] \in {"open", "used", "half"}

\* In flight for libusb: submitted, and its callback has not been entered.
InFlight(u) == {i \in Transfers(u) : xfer[u][i] = "flight"}

UsbTypeOK ==
  /\ LibusbTypeOK
  /\ pc \in [Users -> {"idle", "spawn", "submit", "count", "wait", "cancel",
                       "release", "unlisten", "join", "close"}]
  /\ life \in [Users -> {"new", "open", "used", "half", "closed", "failed"}]
  /\ started \in [Users -> BOOLEAN] /\ disconnected \in [Users -> BOOLEAN]
  /\ active \in [Users -> Int]
  /\ \A u \in Users : xfer[u] \in [Transfers(u) -> {"null", "ready", "flight", "callback"}]
  /\ \A u \in Users : cursor[u] \in Transfers(u)
  /\ ret \in [Users -> {"idle", "release"}]
  /\ raced \subseteq Users
  /\ cb \in {NoCb} \cup [user : Users, id : Nat, status : Statuses,
                         at : {"entered", "handled", "resubmit", "count"}]
  /\ unplugged \in BOOLEAN

Init ==
  /\ LibusbInit
  /\ pc = [u \in Users |-> "idle"]
  /\ life = [u \in Users |-> "new"]
  /\ started = [u \in Users |-> FALSE] /\ disconnected = [u \in Users |-> FALSE]
  /\ active = [u \in Users |-> 0]
  /\ xfer = [u \in Users |-> [i \in Transfers(u) |-> "null"]]
  /\ cursor = [u \in Users |-> 1] /\ ret = [u \in Users |-> "idle"]
  /\ raced = {}
  /\ cb = NoCb /\ unplugged = FALSE
-----------------------------------------------------------------------------
(* init: nothing that fails after init_libusb gives the context back, since *)
(* deinit refuses to run before the backend is initialised.                 *)

\* The parser of the video descriptors counts on over a second init, which then
\* fails or finds channels with freed tables; that of audio carries on, up to a
\* limit (UsbDescriptors). Here each backend is initialised once, a bound, and
\* never with an exited context.
InitCall(u) ==
  /\ Turn(u) /\ life[u] = "new" /\ ctx # "dead" /\ ~unplugged
  /\ InitLibusb
  /\ \/ RegisterRemoval(u) /\ StartEvents(u) /\ UNCHANGED life
     \/ /\ "init" \in Faults
        /\ life' = [life EXCEPT ![u] = "failed"] /\ UNCHANGED <<removal, pc, events>>
  /\ disconnected' = [disconnected EXCEPT ![u] = FALSE]
  /\ UNCHANGED <<active, xfer, cursor, ret, raced, cb, unplugged>>

VideoInit == InitCall("video") /\ UNCHANGED started
AudioInit == InitCall("audio") /\ started' = [started EXCEPT !["audio"] = FALSE]

Listen(u) ==
  /\ \/ Spawn(u) /\ life' = [life EXCEPT ![u] = "open"]
     \/ "init" \in Faults /\ SpawnFails(u) /\ life' = [life EXCEPT ![u] = "failed"]
  /\ UNCHANGED <<libusb, started, disconnected, active, xfer, cursor, ret, raced, cb, unplugged>>
-----------------------------------------------------------------------------
(* start: without the camera the requests that precede the transfers fail   *)
(* (probe and commit, alternate setting), and nothing is started.           *)

\* A transfer each, in place of those that an earlier start has left.
Allocate(u) ==
  /\ active' = [active EXCEPT ![u] = 0]
  /\ xfer' = [xfer EXCEPT ![u] = [i \in Transfers(u) |-> "ready"]]

StartCall(u) ==
  /\ Turn(u) /\ Open(u) /\ ~started[u] /\ ~disconnected[u] /\ ~unplugged
  /\ life[u] # "open" => u \in Restarted
  /\ life' = [life EXCEPT ![u] = IF @ = "half" THEN "half" ELSE "used"]
  /\ Allocate(u)
  /\ started' = [started EXCEPT ![u] = TRUE]
  /\ Goto(u, "submit")
  /\ raced' = raced \ {u}
  /\ UNCHANGED <<libusb, events, disconnected, cursor, ret, cb, unplugged>>

\* Probe and commit are control transfers: the event thread, which must reap
\* them, has left any callback before the transfers are allocated.
VideoStart == StartCall("video") /\ cb = NoCb
AudioStart == StartCall("audio")

\* A refused transfer ends the call: its predecessors stay in flight.
Submit(u) ==
  /\ pc[u] = "submit"
  /\ \/ /\ ~unplugged /\ UNCHANGED cursor
        /\ Goto(u, "count") /\ xfer' = [xfer EXCEPT ![u][cursor[u]] = "flight"]
     \/ /\ unplugged \/ "submit" \in Faults
        /\ Goto(u, "idle") /\ xfer' = [xfer EXCEPT ![u][cursor[u]] = "null"]
        /\ cursor' = [cursor EXCEPT ![u] = 1]
  /\ UNCHANGED <<libusb, events, life, started, disconnected, active, ret, raced, cb, unplugged>>

\* Increment and decrement have a mutex each, so that one of two updates that
\* overlap may be lost: here the increment to the decrement of a callback that
\* has just been entered.
Count(u) ==
  /\ pc[u] = "count"
  /\ \/ active' = [active EXCEPT ![u] = @ + 1] /\ UNCHANGED raced
     \/ u \notin raced /\ cb.user = u /\ cb.at = "entered" /\ raced' = raced \cup {u} /\ UNCHANGED active
  /\ IF cursor[u] = NumTransfers[u]
       THEN Goto(u, "idle") /\ cursor' = [cursor EXCEPT ![u] = 1]
       ELSE Goto(u, "submit") /\ cursor' = [cursor EXCEPT ![u] = @ + 1]
  /\ UNCHANGED <<libusb, events, life, started, disconnected, xfer, ret, cb, unplugged>>
-----------------------------------------------------------------------------
(* stop *)

Stop(u, then) ==
  /\ started' = [started EXCEPT ![u] = FALSE]
  /\ ret' = [ret EXCEPT ![u] = then]
  /\ Goto(u, IF disconnected[u] THEN "wait" ELSE "cancel")

StopCall(u) ==
  /\ Turn(u) /\ started[u] /\ Open(u)
  /\ Stop(u, "idle")
  /\ UNCHANGED <<libusb, events, life, disconnected, active, xfer, cursor, raced, cb, unplugged>>

VideoStop == StopCall("video")
AudioStop == StopCall("audio")

\* Mutant: stop does not wait for the last transfer.
WaitedAlmost(u) ==
  /\ pc[u] \in {"wait", "cancel"} /\ active[u] <= 1
  /\ Goto(u, ret[u]) /\ ret' = [ret EXCEPT ![u] = "idle"]
  /\ UNCHANGED <<libusb, events, life, started, disconnected, active, xfer, cursor, raced, cb, unplugged>>

\* After a second in "cancel" the transfers in flight are cancelled, which
\* only adds a status they may end with (EndsWith).
Waited(u) ==
  /\ pc[u] \in {"wait", "cancel"} /\ active[u] = 0
  /\ Goto(u, ret[u]) /\ ret' = [ret EXCEPT ![u] = "idle"]
  /\ UNCHANGED <<libusb, events, life, started, disconnected, active, xfer, cursor, raced, cb, unplugged>>
-----------------------------------------------------------------------------
(* deinit *)

DeinitCall(u) ==
  /\ Turn(u) /\ Open(u)
  /\ DeregisterRemoval(u)
  /\ IF ~disconnected[u] /\ started[u]
       THEN Stop(u, "release")
       ELSE /\ Goto(u, IF disconnected[u] THEN "unlisten" ELSE "release")
            /\ UNCHANGED <<started, ret>>
  /\ UNCHANGED <<ctx, initRefs, events, life, disconnected, active, xfer, cursor, raced, cb, unplugged>>

VideoDeinit == DeinitCall("video")
AudioDeinit == DeinitCall("audio")

\* An interface that cannot be released ends the call: the backend stays
\* initialised, but has no callback for an unplugged camera any more.
Release(u) ==
  /\ pc[u] = "release"
  /\ \/ Goto(u, "unlisten") /\ UNCHANGED life
     \/ /\ "release" \in Faults
        /\ Goto(u, "idle") /\ life' = [life EXCEPT ![u] = "half"]
  /\ UNCHANGED <<libusb, events, started, disconnected, active, xfer, cursor, ret, raced,
                 cb, unplugged>>

Unlisten(u) ==
  /\ \/ pc[u] = "unlisten" /\ StopEvents(u, "close")
     \/ Join(u, "close")
  /\ UNCHANGED <<libusb, local, unplugged>>

\* libusb_close and exit_libusb; the array of transfers is freed.
Close(u) ==
  /\ pc[u] = "close"
  /\ ExitLibusb /\ UNCHANGED removal
  /\ life' = [life EXCEPT ![u] = "closed"]
  /\ xfer' = [xfer EXCEPT ![u] = [i \in Transfers(u) |->
                IF xfer[u][i] = "ready" THEN "null" ELSE xfer[u][i]]]
  /\ Goto(u, "idle")
  /\ UNCHANGED <<events, started, disconnected, active, cursor, ret, raced, cb, unplugged>>
-----------------------------------------------------------------------------
(* the camera and the kernel *)

\* What a transfer of u in flight may end with; nodev after an unplug, or a
\* completion that had been there before it.
EndsWith(u, s) ==
  /\ s = "nodev" => unplugged
  /\ s = "timedout" => ~unplugged
  /\ s = "error" => "error" \in Faults
  /\ s = "cancelled" => pc[u] = "cancel"

Unplug ==
  /\ "unplug" \in Faults /\ ~unplugged /\ unplugged' = TRUE
  /\ UNCHANGED <<libusb, events, pc, local>>

\* usb_removed calls video_removed or audio_removed on the event thread.
Removed(u) ==
  /\ unplugged /\ cb = NoCb /\ u \in removal /\ ~disconnected[u]
  /\ running # {}
  /\ disconnected' = [disconnected EXCEPT ![u] = TRUE]
  /\ UNCHANGED <<libusb, events, pc, life, started, active, xfer, cursor, ret, raced, cb, unplugged>>
-----------------------------------------------------------------------------
(* capture_callback and aud_cap_callback. A callback that stops the stream  *)
(* would wait for itself: the client does not.                              *)

Enter(u, i) ==
  /\ cb = NoCb /\ running # {}
  /\ xfer[u][i] = "flight"
  /\ xfer' = [xfer EXCEPT ![u][i] = "callback"]
  /\ \E s \in Statuses :
       /\ EndsWith(u, s)
       /\ cb' = [user |-> u, id |-> i, status |-> s, at |-> "entered"]
  /\ \/ active' = [active EXCEPT ![u] = @ - 1] /\ UNCHANGED raced
     \/ u \notin raced /\ pc[u] = "count" /\ raced' = raced \cup {u} /\ UNCHANGED active
  /\ UNCHANGED <<libusb, events, pc, life, started, disconnected, cursor, ret, unplugged>>

Free == xfer' = [xfer EXCEPT ![cb.user][cb.id] = "null"] /\ cb' = NoCb
CbGoto(label) == cb' = [cb EXCEPT !.at = label] /\ UNCHANGED xfer

\* The test of started before the data is handled (completed) or before the
\* transfer is submitted again (timed out, stalled, overflowed).
CbStatus ==
  /\ cb.at = "entered"
  /\ IF cb.status \in {"cancelled", "nodev", "error"} \/ ~started[cb.user]
       THEN Free
       ELSE CbGoto(IF cb.status = "completed" THEN "handled" ELSE "resubmit")
  /\ disconnected' = [disconnected EXCEPT
                       ![cb.user] = @ \/ cb.status \in {"nodev", "error"}]
  /\ UNCHANGED <<libusb, events, pc, life, started, active, cursor, ret, raced, unplugged>>

\* The data was handled and the client called; started is tested again.
CbHandled ==
  /\ cb.at = "handled"
  /\ IF started[cb.user] THEN CbGoto("resubmit") ELSE Free
  /\ UNCHANGED <<libusb, events, pc, life, started, disconnected, active, cursor, ret, raced, unplugged>>

\* Mutant: a transfer that is submitted again is not counted again.
CbResubmitUncounted ==
  /\ cb.at = "resubmit" /\ ~unplugged
  /\ xfer' = [xfer EXCEPT ![cb.user][cb.id] = "flight"]
  /\ cb' = NoCb
  /\ UNCHANGED <<libusb, events, pc, life, started, disconnected, active, cursor, ret, raced, unplugged>>

CbResubmit ==
  /\ cb.at = "resubmit"
  /\ \/ /\ ~unplugged
        /\ xfer' = [xfer EXCEPT ![cb.user][cb.id] = "flight"]
        /\ cb' = [cb EXCEPT !.at = "count"]
     \/ (unplugged \/ "submit" \in Faults) /\ Free
  /\ UNCHANGED <<libusb, events, pc, life, started, disconnected, active, cursor, ret, raced, unplugged>>

\* Only start could interfere, by an increment: the mutex is the same.
CbCount ==
  /\ cb.at = "count"
  /\ active' = [active EXCEPT ![cb.user] = @ + 1]
  /\ cb' = NoCb
  /\ UNCHANGED <<libusb, events, pc, life, started, disconnected, xfer, cursor, ret, raced, unplugged>>

Callback == CbStatus \/ CbHandled \/ CbResubmit \/ CbCount
VideoCallback == cb.user = "video" /\ Callback
AudioCallback == cb.user = "audio" /\ Callback

\* event_loop; a callback runs inside libusb_handle_events_timeout.
EventLoop(t) ==
  /\ cb = NoCb /\ Leave(t)
  /\ UNCHANGED <<libusb, pc, local, unplugged>>

EventLoopError(t) ==
  /\ "events" \in Faults /\ cb = NoCb /\ LeaveError(t)
  /\ UNCHANGED <<libusb, pc, local, unplugged>>
-----------------------------------------------------------------------------
Calls ==
  \/ VideoInit \/ VideoStart \/ VideoStop \/ VideoDeinit
  \/ AudioInit \/ AudioStart \/ AudioStop \/ AudioDeinit

AppStep(u) ==
  \/ Listen(u) \/ Submit(u) \/ Count(u) \/ Waited(u)
  \/ Release(u) \/ Unlisten(u) \/ Close(u)

Next ==
  \/ Calls \/ Unplug \/ VideoCallback \/ AudioCallback
  \/ \E u \in Users : AppStep(u) \/ Removed(u)
  \/ \E u \in Users : \E i \in Transfers(u) : Enter(u, i)
  \/ \E t \in Threads : EventLoop(t) \/ EventLoopError(t)

Spec == Init /\ [][Next]_vars

\* Calls that were begun go on, the threads run, transfers end (they have
\* timeouts), and the event thread looks at every device: it serves each user
\* that keeps having something for it. Nothing obliges the application to call.
FairSpec ==
  /\ Spec
  /\ WF_vars(Callback) /\ WF_vars(\E u \in Users : AppStep(u))
  /\ WF_vars(\E t \in Threads : EventLoop(t)) /\ SF_vars(\E u \in Users : Removed(u))
  /\ \A u \in Users : SF_vars(\E i \in Transfers(u) : Enter(u, i))
-----------------------------------------------------------------------------
(* Properties *)

One(condition) == IF condition THEN 1 ELSE 0

\* active_transfers counts the transfers in flight, less the one that start or
\* the callback has submitted and is about to count: neither submitting, ending
\* nor freeing a transfer (uvc.c:837-1023, 1722-1734) loses one.
CountExact ==
  \A u \in Users \ raced :
    Cardinality(InFlight(u)) =
      active[u] + One(pc[u] = "count") + One(cb.user = u /\ cb.at = "count")

\* When stop has returned (uvc.c:1767-1789) no transfer of the stream is in
\* flight and none will be submitted again, so that the next start, which
\* clears the count, may use the slots. (With one transfer it is not so: its
\* callback, past the test of started, is not counted while it submits. A start
\* that an unplug cuts short may leave a single transfer as well.)
StoppedIsQuiet ==
  \A u \in Users \ raced :
    NumTransfers[u] > 1 /\ pc[u] = "idle" /\ Open(u) /\ ~started[u] /\ ~unplugged =>
      InFlight(u) = {} /\ ~(cb.user = u /\ cb.at \in {"resubmit", "count"})

\* Event handling serves every backend that is initialised (handle_events.c:
\* 85-91): one thread runs, and it ends with the last of them. Only an error of
\* libusb (64-68) ends it earlier, and then no backend is served until all have
\* been deinitialised.
ThreadServes ==
  /\ Cardinality(running) <= 1
  /\ broken => running = {}
  /\ \A u \in Users :
       pc[u] \notin {"close", "join"} /\ Open(u) => running # {} \/ broken
  /\ (\A u \in Users : pc[u] = "idle" /\ ~Open(u)) => running = {}

\* The context is used while it exists: an initialised backend has a live one,
\* which goes only with the last user; a failed init keeps it for good.
ContextLives ==
  /\ (\E u \in Users : Open(u)) => ctx = "live"
  /\ ctx = "dead" <=> initRefs = 0 /\ \E u \in Users : life[u] = "closed"

\* A handle is closed with transfers in flight (deinit) only when the camera
\* was lost: deinit then need not have stopped the stream first.
CloseIsQuiet ==
  \A u \in Users \ raced :
    NumTransfers[u] > 1 /\ pc[u] = "close" /\ InFlight(u) # {} => unplugged

\* Transfers that nobody will complete, since the event thread left on an error.
Abandoned(u) == broken /\ pc[u] \in {"wait", "cancel"} /\ active[u] > 0

\* Every call returns: stop does not wait for transfers that are not there,
\* deinit not for a thread that does not end. What hangs is a stop whose
\* transfers the event thread has abandoned.
CallsReturn ==
  \A u \in Users : (pc[u] # "idle") ~> (pc[u] = "idle" \/ u \in raced \/ Abandoned(u))

\* An unplugged camera is noticed by each backend that streams, unless its deinit
\* has failed, as long as there is an event thread to tell it.
UnplugNoticed ==
  \A u \in Users :
    (unplugged /\ started[u] /\ life[u] = "used" /\ pc[u] = "idle")
      ~> (disconnected[u] \/ ~started[u] \/ ~Open(u) \/ broken)
=============================================================================
