------------------------------ MODULE Plugins ------------------------------
(***************************************************************************)
(* The alert plugin (plugins/alert) and the burn-in plugin                 *)
(* (plugins/burnin), which share the libusb context. One thread of the     *)
(* application calls them. Enabling an alarm starts the alert thread,      *)
(* which waits for a signal and then reads alarms with interrupt transfers *)
(* that have no timeout; deinit ends and joins it.                         *)
(***************************************************************************)
EXTENDS LibusbContext, FiniteSets

CONSTANTS
  Workers,    \* identities of alert threads, positive numbers
  Faults,     \* what may fail: subset of {"init", "control", "create", "unplug"}
  Client,     \* what the application may do besides: "refused", a deinit while
              \* alert_state is set, "again", an init while there is a thread
  Slow,       \* TRUE: a new thread may take longer than the sleep(1) of set_alert
  Tunings,    \* pairs of a sensitivity and a level for the motion region
  MaxRefs     \* bound on initRefs, and so on the inits

ASSUME PluginsAssumption ==
  /\ Workers \subseteq Nat \ {0} /\ Workers # {} /\ IsFiniteSet(Workers)
  /\ Faults \subseteq {"init", "control", "create", "unplug"}
  /\ Client \subseteq {"refused", "again"} /\ Slow \in BOOLEAN
  /\ Tunings \subseteq Int \X Int /\ MaxRefs \in Nat

Alarms == {"audio", "motion"}

VARIABLES
  camera, intf, \* alert_main.c: whether these pointers are set
  alt,          \* the alternate setting of the interface
  state,        \* alert_thread_state
  disabled,     \* disable_alarm
  alertState,   \* alert_state
  tid,          \* alarm_thread_id, 0 for none
  enabled,      \* alert_enable of audio_alert.c and motion_alert.c
  callback,     \* whether audio_callback, motion_callback is set
  region,       \* sensitivity and level of a region of region_params
  pc, arg, act, \* the call: its next step, its alarm and what it asks for
  at,           \* each alert thread's place
  burn,         \* burnin.c: "closed"; "open" without and "ready" with intf
  armed,        \* the alarms that the camera reports
  on,           \* the alarms whose enabling returned 0, until they are disabled
  unplugged

context == <<ctx, initRefs>>
handle == <<camera, intf, alt>>
thread == <<state, disabled, alertState, tid>>
alarms == <<enabled, callback, armed, on>>
call == <<pc, arg, act>>
vars == <<context, handle, thread, alarms, region, call, at, burn, unplugged>>

Alive == {t \in Workers : at[t] \notin {"none", "done"}}

PluginsTypeOK ==
  /\ ctx \in {"null", "live", "dead"} /\ initRefs \in Int
  /\ camera \in BOOLEAN /\ intf \in BOOLEAN /\ alt \in {0, 1}
  /\ state \in {"STOP", "RUNNING"} /\ disabled \in BOOLEAN /\ alertState \in {0, 1}
  /\ tid \in Workers \cup {0}
  /\ enabled \in [Alarms -> BOOLEAN] /\ callback \in [Alarms -> BOOLEAN]
  /\ armed \subseteq Alarms /\ on \subseteq Alarms
  /\ region \in Int \X Int
  /\ pc \in {"idle", "start", "sleep", "state", "store", "signal", "join", "close"}
  /\ arg \in Alarms /\ act \in {"enable", "threshold", "disable"}
  /\ at \in [Workers -> {"none", "test", "lock", "wait", "woken", "transfer", "callback", "done"}]
  /\ burn \in {"closed", "open", "ready"}
  /\ unplugged \in BOOLEAN

\* region_params starts with MOTION_SENSITIVITY_DEFAULT and MOTION_LEVEL_DEFAULT.
Init ==
  /\ ctx = "null" /\ initRefs = 0
  /\ camera = FALSE /\ intf = FALSE /\ alt = 0
  /\ state = "STOP" /\ disabled = FALSE /\ alertState = 0 /\ tid = 0
  /\ enabled = [a \in Alarms |-> FALSE] /\ callback = [a \in Alarms |-> FALSE]
  /\ armed = {} /\ on = {} /\ region = <<255, 100>>
  /\ pc = "idle" /\ arg = "audio" /\ act = "disable"
  /\ at = [t \in Workers |-> "none"]
  /\ burn = "closed" /\ unplugged = FALSE
-----------------------------------------------------------------------------
(* mxuvc_alert_init. A second init is refused, but only after it has reset  *)
(* alarm_thread_id and disable_alarm. An open that fails keeps its count of *)
(* the context. After an interface that cannot be claimed camera and intf   *)
(* stay set, so that only a deinit helps.                                   *)

Prepare == pc = "idle" /\ tid' = 0 /\ disabled' = FALSE /\ UNCHANGED <<state, alertState>>

InitOpens ==
  /\ Prepare /\ ~camera /\ ctx # "dead" /\ initRefs < MaxRefs
  /\ InitLibusb
  /\ \/ (unplugged \/ "init" \in Faults) /\ UNCHANGED handle
     \/ /\ ~unplugged /\ camera' = TRUE /\ intf' = TRUE
        /\ alt' = 1 \/ ("init" \in Faults /\ alt' = 0)
  /\ UNCHANGED <<alarms, region, call, at, burn, unplugged>>

InitAgain ==
  /\ tid = 0 \/ "again" \in Client
  /\ Prepare /\ camera
  /\ UNCHANGED <<context, handle, alarms, region, call, at, burn, unplugged>>
-----------------------------------------------------------------------------
(* Enabling and disabling: audio_alert.c and motion_alert.c set their flag, *)
(* set_alert tells the camera, starts or wakes the thread and keeps         *)
(* alert_state, and the enabling call stores the callback last.             *)

\* The control transfer of set_alert; a failed one ends the call.
Request(a, what, armedAfter) ==
  /\ arg' = a /\ act' = what
  /\ \/ camera /\ ~unplugged /\ armed' = armedAfter /\ pc' = "start"
     \/ /\ ~camera \/ unplugged \/ "control" \in Faults
        /\ UNCHANGED armed /\ pc' = "idle"
  /\ UNCHANGED <<context, handle, thread, callback, region, at, burn, unplugged>>

\* Audio may be enabled while it is, motion not.
EnableCall(a) ==
  /\ pc = "idle" /\ camera /\ intf
  /\ a = "motion" => ~enabled[a]
  /\ enabled' = [enabled EXCEPT ![a] = TRUE]
  /\ Request(a, "enable", armed \cup {a})
  /\ UNCHANGED on

\* mxuvc_alert_audio_set_threshold tells an enabled alarm.
ThresholdCall ==
  /\ pc = "idle" /\ camera /\ intf /\ enabled["audio"]
  /\ Request("audio", "threshold", armed \cup {"audio"})
  /\ UNCHANGED <<enabled, on>>

DisableCall(a) ==
  /\ pc = "idle" /\ enabled[a]
  /\ enabled' = [enabled EXCEPT ![a] = FALSE]
  /\ on' = on \ {a}
  /\ Request(a, "disable", armed \ {a})

\* Mutant: a new thread each time that the first alarm is enabled.
StartAlways ==
  /\ pc = "start"
  /\ IF alertState # 0 \/ act = "disable"
       THEN pc' = "state" /\ UNCHANGED <<state, tid, at>>
       ELSE \E t \in Workers \ Alive :
              /\ state' = "RUNNING" /\ tid' = t /\ at' = [at EXCEPT ![t] = "test"]
              /\ pc' = "sleep"
  /\ UNCHANGED <<context, handle, disabled, alertState, alarms, region, arg, act, burn, unplugged>>

\* start_alert_thread, for the first alarm.
Start ==
  /\ pc = "start"
  /\ \/ /\ alertState # 0 \/ act = "disable"
        /\ pc' = "state" /\ UNCHANGED <<state, tid, at>>
     \/ /\ alertState = 0 /\ act # "disable" /\ (state = "RUNNING" \/ ~intf)
        /\ pc' = "sleep" /\ UNCHANGED <<state, tid, at>>
     \/ /\ alertState = 0 /\ act # "disable" /\ state = "STOP" /\ intf
        /\ \/ \E t \in Workers \ Alive :
                /\ state' = "RUNNING" /\ tid' = t /\ at' = [at EXCEPT ![t] = "test"]
                /\ pc' = "sleep"
           \/ "create" \in Faults /\ pc' = "idle" /\ UNCHANGED <<state, tid, at>>
  /\ UNCHANGED <<context, handle, disabled, alertState, alarms, region, arg, act, burn, unplugged>>

\* pthread_cond_signal wakes a waiting thread; without one it is lost.
SignalWakes ==
  IF \E t \in Workers : at[t] = "wait"
    THEN \E t \in Workers : at[t] = "wait" /\ at' = [at EXCEPT ![t] = "woken"]
    ELSE UNCHANGED at

\* Mutant: nothing is signalled.
SleepOnly ==
  /\ pc = "sleep"
  /\ Slow \/ \A t \in Workers : at[t] \notin {"test", "lock"}
  /\ pc' = "state"
  /\ UNCHANGED <<context, handle, thread, alarms, region, arg, act, at, burn, unplugged>>

\* Unless Slow, the sleep is long enough for the new thread to wait.
Sleep ==
  /\ pc = "sleep"
  /\ Slow \/ \A t \in Workers : at[t] \notin {"test", "lock"}
  /\ SignalWakes
  /\ pc' = "state"
  /\ UNCHANGED <<context, handle, thread, alarms, region, arg, act, burn, unplugged>>

\* The alert state is a flag for both alarms.
SetState ==
  /\ pc = "state"
  /\ alertState' = IF act = "disable" THEN 0 ELSE 1
  /\ pc' = IF act = "enable" THEN "store" ELSE "idle"
  /\ UNCHANGED <<context, handle, state, disabled, tid, alarms, region, arg, act, at, burn, unplugged>>

\* Mutant: the callback is not stored.
StoreNothing ==
  /\ pc = "store" /\ pc' = "idle"
  /\ on' = on \cup {arg}
  /\ UNCHANGED <<context, handle, thread, enabled, callback, armed, region, arg, act, at, burn, unplugged>>

\* The callback and the pointer passed to it are taken as one.
Store ==
  /\ pc = "store" /\ pc' = "idle"
  /\ callback' = [callback EXCEPT ![arg] = TRUE]
  /\ on' = on \cup {arg}
  /\ UNCHANGED <<context, handle, thread, enabled, armed, region, arg, act, at, burn, unplugged>>

Clamp(x, low, high) == IF x < low THEN low ELSE IF x > high THEN high ELSE x

\* mxuvc_alert_motion_sensitivity_and_level: a level that is too high changes
\* the sensitivity. The table is written before the camera is asked.
Tune ==
  /\ pc = "idle" /\ enabled["motion"]
  /\ \E tuning \in Tunings :
       region' = IF tuning[2] > 100 THEN <<100, tuning[2]>>
                 ELSE <<Clamp(tuning[1], 16, 200), Clamp(tuning[2], 1, 100)>>
  /\ UNCHANGED <<context, handle, thread, alarms, call, at, burn, unplugged>>
-----------------------------------------------------------------------------
(* mxuvc_alert_deinit. A deinit that is refused has already stopped the     *)
(* thread and disabled the alarms.                                          *)

\* The alternate setting after a request for 0: a request that fails leaves it.
Lowered ==
  (IF camera /\ intf /\ ~unplugged THEN {0} ELSE {alt})
    \cup (IF "control" \in Faults THEN {alt} ELSE {})

\* Mutant: the thread is not told to stop.
DeinitCallRunning ==
  /\ pc = "idle"
  /\ alertState # 0 => "refused" \in Client
  /\ disabled' = TRUE
  /\ \/ alertState # 0 /\ pc' = "idle" /\ UNCHANGED alt
     \/ alertState = 0 /\ alt' \in Lowered /\ pc' = IF tid # 0 THEN "signal" ELSE "close"
  /\ UNCHANGED <<context, camera, intf, state, alertState, tid, alarms, region, arg, act, at, burn, unplugged>>

\* Whether the alternate setting could be lowered is not looked at. The id of
\* the thread is kept, so that a deinit without a camera may join it again.
DeinitCall ==
  /\ pc = "idle"
  /\ alertState # 0 => "refused" \in Client
  /\ state' = "STOP" /\ disabled' = TRUE
  /\ \/ alertState # 0 /\ pc' = "idle" /\ UNCHANGED alt
     \/ alertState = 0 /\ alt' \in Lowered /\ pc' = IF tid # 0 THEN "signal" ELSE "close"
  /\ UNCHANGED <<context, camera, intf, alertState, tid, alarms, region, arg, act, at, burn, unplugged>>

DeinitSignal ==
  /\ pc = "signal" /\ SignalWakes /\ pc' = "join"
  /\ UNCHANGED <<context, handle, thread, alarms, region, arg, act, burn, unplugged>>

\* Mutant: deinit does not wait for the thread.
DeinitNoJoin ==
  /\ pc = "join" /\ pc' = "close"
  /\ UNCHANGED <<context, handle, thread, alarms, region, arg, act, at, burn, unplugged>>

\* A second join of a thread is taken to return.
DeinitJoin ==
  /\ pc = "join" /\ at[tid] \in {"done", "none"}
  /\ at' = [at EXCEPT ![tid] = "none"]
  /\ pc' = "close"
  /\ UNCHANGED <<context, handle, thread, alarms, region, arg, act, burn, unplugged>>

\* Releasing the interface lowers its alternate setting.
DeinitClose ==
  /\ pc = "close" /\ pc' = "idle"
  /\ \/ /\ camera /\ ExitLibusb
        /\ camera' = FALSE /\ intf' = FALSE /\ alt' = 0
        /\ on' = {}
     \/ ~camera /\ UNCHANGED <<context, handle, on>>
  /\ UNCHANGED <<thread, enabled, callback, armed, region, arg, act, at, burn, unplugged>>
-----------------------------------------------------------------------------
(* mxuvc_burnin_init and deinit. A second init only goes on when the first  *)
(* did not find the interface; a font that cannot be loaded leaves          *)
(* everything open. open_counter is one while the camera is open.           *)

BurninInit ==
  /\ pc = "idle" /\ burn # "ready"
  /\ IF burn = "closed" THEN ctx # "dead" /\ initRefs < MaxRefs /\ InitLibusb ELSE UNCHANGED context
  /\ \/ (unplugged \/ "init" \in Faults) /\ UNCHANGED burn
     \/ ~unplugged /\ burn' \in {"open", "ready"}
  /\ UNCHANGED <<handle, thread, alarms, region, call, at, unplugged>>

BurninDeinit ==
  /\ pc = "idle" /\ burn = "ready"
  /\ burn' = "closed" /\ ExitLibusb
  /\ UNCHANGED <<handle, thread, alarms, region, call, at, unplugged>>
-----------------------------------------------------------------------------
(* mxuvc_alert_thread *)

Go(t, place) ==
  /\ at' = [at EXCEPT ![t] = place]
  /\ UNCHANGED <<context, handle, thread, alarms, region, call, burn, unplugged>>

Test(t) == at[t] = "test" /\ Go(t, IF state = "RUNNING" THEN "lock" ELSE "done")

Wait(t) == at[t] = "lock" /\ Go(t, "wait")

\* pthread_cond_wait may return without a signal.
Spurious(t) == at[t] = "wait" /\ Go(t, "woken")

Woken(t) == at[t] = "woken" /\ Go(t, IF state = "RUNNING" THEN "transfer" ELSE "test")

\* An alarm arrives, and is given to the callback unless it is disabled. An
\* audio alarm whose intensity is at the top of its range is not (audio_alert.c:139).
Receive(t, a, top) ==
  /\ at[t] = "transfer" /\ a \in armed /\ alt = 1 /\ ~unplugged
  /\ top => a = "audio"
  /\ Go(t, IF ~disabled /\ ~top /\ enabled[a] /\ callback[a] THEN "callback" ELSE "woken")

\* A transfer fails without the camera or the alternate setting.
TransferFails(t) == at[t] = "transfer" /\ (alt = 0 \/ unplugged) /\ Go(t, "woken")

CallbackReturns(t) == at[t] = "callback" /\ Go(t, "woken")

Unplug ==
  /\ "unplug" \in Faults /\ ~unplugged /\ unplugged' = TRUE
  /\ UNCHANGED <<context, handle, thread, alarms, region, call, at, burn>>
-----------------------------------------------------------------------------
Calls ==
  \/ InitOpens \/ InitAgain \/ DeinitCall \/ ThresholdCall \/ Tune
  \/ \E a \in Alarms : EnableCall(a) \/ DisableCall(a)
  \/ BurninInit \/ BurninDeinit

AppStep ==
  \/ Start \/ Sleep \/ SetState \/ Store
  \/ DeinitSignal \/ DeinitJoin \/ DeinitClose

WorkerStep(t) ==
  Test(t) \/ Wait(t) \/ Woken(t) \/ TransferFails(t) \/ CallbackReturns(t)

Next ==
  \/ Calls \/ AppStep \/ Unplug
  \/ \E t \in Workers : WorkerStep(t) \/ Spurious(t) \/ (\E a \in Alarms, top \in BOOLEAN : Receive(t, a, top))

Spec == Init /\ [][Next]_vars

\* A call goes on, and so does each alert thread; alarms need not come.
FairSpec == Spec /\ WF_vars(AppStep) /\ \A t \in Workers : WF_vars(WorkerStep(t))
-----------------------------------------------------------------------------
\* There is at most one alert thread, over enabling and disabling of two alarms
\* that share it, failed calls, and new sessions (start_alert_thread).
SingleWorker == Cardinality(Alive) <= 1

\* The alert thread uses the camera's handle only while it is open: deinit has
\* joined it before it closes the handle.
HandleHeld == \A t \in Workers : at[t] \in {"woken", "transfer", "callback"} => camera

\* Between calls, while an alarm is on, some thread reads alarms or is about to.
AlarmsServed ==
  pc = "idle" /\ on # {} =>
    \E t \in Workers : at[t] \in {"woken", "transfer", "callback"} /\ state = "RUNNING"

\* An alarm that the thread receives while it is on reaches its callback, unless
\* it is an audio alarm at the top of the range (proces_audio_alert).
AlarmDelivered ==
  [][\A t \in Workers, a \in Alarms :
       Receive(t, a, FALSE) /\ a \in on /\ pc = "idle" => at'[t] = "callback"]_vars

\* An open handle has a context that is not exited, whichever plugin came first
\* and whichever of their inits failed.
PluginContextLives == camera \/ burn # "closed" => ctx = "live"

\* The alternate setting could not be lowered and the thread's transfer, which
\* has no timeout, goes on: only an alarm ends it.
LeftInTransfer == pc = "join" /\ alt = 1 /\ ~unplugged /\ at[tid] = "transfer"

\* Every call returns: deinit wakes a waiting thread and ends a transfer that
\* has no timeout, unless its request to the camera failed.
AlertReturns == pc # "idle" ~> (pc = "idle" \/ LeftInTransfer)

\* A deinit closes the camera only when no alarm is on (alert_main.c:158 refuses
\* it while alert_state, the "alert count" of line 76, is not zero).
ClosedWhenOff == pc = "close" => on = {}

\* The level of a region, a percentage, is at most MAX_LEVEL.
LevelInRange == region[2] <= 100
=============================================================================
