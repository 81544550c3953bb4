--------------------------- MODULE PluginsProofs ---------------------------
(***************************************************************************)
(* Proofs about Plugins, for every set of thread identities, bound on the  *)
(* inits and set of faults. The invariants of the alert thread assume what *)
(* the client keeps to: no deinit while alert_state is set and no init     *)
(* while there is a thread (Client = {}).                                  *)
(***************************************************************************)
EXTENDS Plugins, FiniteSetTheorems, TLAPS

\* The steps of the alert threads, alarms included, and what they do to a thread.
ThreadSteps == \E t \in Workers : WorkerStep(t) \/ Spurious(t) \/ (\E a \in Alarms, top \in BOOLEAN : Receive(t, a, top))

\* A step of the threads is one of those of a single worker.
LEMMA StepsOfThreads ==
  ASSUME ThreadSteps
  PROVE  \E t \in Workers :
           /\ \/ at[t] = "test" /\ Go(t, IF state = "RUNNING" THEN "lock" ELSE "done")
              \/ at[t] = "lock" /\ Go(t, "wait")
              \/ at[t] = "wait" /\ Go(t, "woken")
              \/ at[t] = "woken" /\ Go(t, IF state = "RUNNING" THEN "transfer" ELSE "test")
              \/ at[t] = "transfer" /\ (Go(t, "callback") \/ Go(t, "woken"))
              \/ at[t] = "callback" /\ Go(t, "woken")
  BY DEF ThreadSteps, WorkerStep, Spurious, Receive, Test, Wait, Woken, TransferFails, CallbackReturns
-----------------------------------------------------------------------------
\* The initial state has its type.
LEMMA InitType == Init => PluginsTypeOK
<1> SUFFICES ASSUME Init PROVE PluginsTypeOK
  OBVIOUS
<1>1. region \in Int \X Int
  BY DEF Init
<1>2. /\ enabled \in [Alarms -> BOOLEAN] /\ callback \in [Alarms -> BOOLEAN]
      /\ armed \subseteq Alarms /\ on \subseteq Alarms /\ arg \in Alarms
  BY DEF Init, Alarms
<1>3. at \in [Workers -> {"none", "test", "lock", "wait", "woken", "transfer", "callback", "done"}]
  BY DEF Init
<1>4. ctx \in {"null", "live", "dead"} /\ initRefs \in Int /\ alt \in {0, 1}
  BY DEF Init
<1>5. camera \in BOOLEAN /\ intf \in BOOLEAN
  BY DEF Init
<1>6. /\ state \in {"STOP", "RUNNING"} /\ disabled \in BOOLEAN /\ alertState \in {0, 1}
      /\ unplugged \in BOOLEAN
  BY DEF Init
<1>7. tid \in Workers \cup {0}
  BY DEF Init
<1>8. /\ pc \in {"idle", "start", "sleep", "state", "store", "signal", "join", "close"}
      /\ act \in {"enable", "threshold", "disable"} /\ burn \in {"closed", "open", "ready"}
  BY DEF Init
<1> QED
  BY <1>1, <1>2, <1>3, <1>4, <1>5, <1>6, <1>7, <1>8 DEF PluginsTypeOK

\* Every step keeps the types.
LEMMA NextType == PluginsTypeOK /\ [Next]_vars => PluginsTypeOK'
<1> SUFFICES ASSUME PluginsTypeOK, [Next]_vars PROVE PluginsTypeOK'
  OBVIOUS
<1> USE PluginsAssumption DEF PluginsTypeOK
<1>1. CASE InitOpens
  <2>1. ctx' \in {"null", "live", "dead"} /\ initRefs' \in Int
    BY <1>1 DEF InitOpens, InitLibusb
  <2>2. camera' \in BOOLEAN /\ intf' \in BOOLEAN /\ alt' \in {0, 1}
    BY <1>1 DEF InitOpens, handle
  <2>3. state' \in {"STOP", "RUNNING"} /\ disabled' \in BOOLEAN /\ alertState' \in {0, 1} /\ tid' = 0
    BY <1>1 DEF InitOpens, Prepare
  <2> QED
    BY <1>1, <2>1, <2>2, <2>3 DEF InitOpens, alarms, call
<1>2. CASE InitAgain
  BY <1>2 DEF InitAgain, Prepare, context, handle, alarms, call
<1>3. CASE DeinitCall
  BY <1>3 DEF DeinitCall, Lowered, context, alarms
<1>4. CASE ThresholdCall
  BY <1>4 DEF ThresholdCall, Request, Alarms, context, handle, thread
<1>5. CASE Tune
  <2>1. PICK tuning \in Tunings : region' = IF tuning[2] > 100 THEN <<100, tuning[2]>>
                 ELSE <<Clamp(tuning[1], 16, 200), Clamp(tuning[2], 1, 100)>>
    BY <1>5 DEF Tune
  <2>2. region' \in Int \X Int
    BY <2>1 DEF Clamp
  <2> QED
    BY <1>5, <2>2 DEF Tune, context, handle, thread, alarms, call
<1>6. ASSUME NEW a \in Alarms, EnableCall(a) PROVE PluginsTypeOK'
  BY <1>6 DEF EnableCall, Request, context, handle, thread
<1>7. ASSUME NEW a \in Alarms, DisableCall(a) PROVE PluginsTypeOK'
  BY <1>7 DEF DisableCall, Request, context, handle, thread
<1>8. CASE BurninInit
  BY <1>8 DEF BurninInit, InitLibusb, context, handle, thread, alarms, call
<1>9. CASE BurninDeinit
  BY <1>9 DEF BurninDeinit, ExitLibusb, handle, thread, alarms, call
<1>10. CASE Start
  BY <1>10 DEF Start, context, handle, alarms
<1>11. CASE Sleep
  BY <1>11 DEF Sleep, SignalWakes, context, handle, thread, alarms
<1>12. CASE SetState
  BY <1>12 DEF SetState, context, handle, alarms
<1>13. CASE Store
  BY <1>13 DEF Store, context, handle, thread
<1>14. CASE DeinitSignal
  BY <1>14 DEF DeinitSignal, SignalWakes, context, handle, thread, alarms
<1>15. CASE DeinitJoin
  <2>1. at' \in [Workers -> {"none", "test", "lock", "wait", "woken", "transfer", "callback", "done"}]
    BY <1>15 DEF DeinitJoin
  <2> QED
    BY <1>15, <2>1 DEF DeinitJoin, context, handle, thread, alarms
<1>16. CASE DeinitClose
  <2>1. ctx' \in {"null", "live", "dead"} /\ initRefs' \in Int
    BY <1>16 DEF DeinitClose, ExitLibusb, context
  <2>2. /\ camera' \in BOOLEAN /\ intf' \in BOOLEAN /\ alt' \in {0, 1}
        /\ on' \subseteq Alarms /\ pc' = "idle"
    BY <1>16 DEF DeinitClose, handle
  <2> QED
    BY <1>16, <2>1, <2>2 DEF DeinitClose, thread
<1>17. CASE Unplug
  BY <1>17 DEF Unplug, context, handle, thread, alarms, call
<1>18. CASE ThreadSteps
  BY <1>18, StepsOfThreads DEF Go, context, handle, thread, alarms, call
<1>19. CASE UNCHANGED vars
  BY <1>19 DEF vars, context, handle, thread, alarms, call
<1> QED
  BY <1>1, <1>2, <1>3, <1>4, <1>5, <1>6, <1>7, <1>8, <1>9, <1>10, <1>11, <1>12, <1>13, <1>14,
     <1>15, <1>16, <1>17, <1>18, <1>19 DEF Next, Calls, AppStep, ThreadSteps

\* Every variable keeps its type, in particular alert_state is a flag.
THEOREM PluginsTypeCorrect == Spec => []PluginsTypeOK
  BY InitType, NextType, PTL DEF Spec
-----------------------------------------------------------------------------
(* The context: the count covers the open handles, and it is zero before    *)
(* the context is made and after it is exited.                              *)

Handles == (IF camera THEN 1 ELSE 0) + (IF burn # "closed" THEN 1 ELSE 0)

HandlesInv ==
  /\ initRefs >= Handles
  /\ ctx # "live" => initRefs = 0

\* Every step keeps a reference to the context for each opened device.
LEMMA NextHandles == PluginsTypeOK /\ HandlesInv /\ [Next]_vars => HandlesInv'
<1> SUFFICES ASSUME PluginsTypeOK, HandlesInv, [Next]_vars PROVE HandlesInv'
  OBVIOUS
<1> USE DEF PluginsTypeOK, HandlesInv, Handles
<1>1. CASE InitOpens
  BY <1>1 DEF InitOpens, Prepare, InitLibusb, handle, call
<1>2. CASE BurninInit
  BY <1>2 DEF BurninInit, InitLibusb, context, handle, call
<1>3. CASE BurninDeinit
  BY <1>3 DEF BurninDeinit, ExitLibusb, handle, call
<1>4. CASE DeinitClose
  BY <1>4 DEF DeinitClose, ExitLibusb, context, handle
<1>5. CASE InitAgain \/ DeinitCall \/ ThresholdCall \/ Tune \/ (\E a \in Alarms : EnableCall(a) \/ DisableCall(a))
  BY <1>5 DEF InitAgain, Prepare, DeinitCall, ThresholdCall, Tune, EnableCall, DisableCall, Request,
     context, handle, call
<1>6. CASE Start \/ Sleep \/ SetState \/ Store
  BY <1>6 DEF Start, Sleep, SetState, Store, context, handle
<1>7. CASE DeinitSignal \/ DeinitJoin
  BY <1>7 DEF DeinitSignal, DeinitJoin, context, handle
<1>8. CASE Unplug
  BY <1>8 DEF Unplug, context, handle, call
<1>9. CASE ThreadSteps
  BY <1>9, StepsOfThreads DEF Go, context, handle, call
<1>10. CASE UNCHANGED vars
  BY <1>10 DEF vars, context, handle, call
<1> QED
  BY <1>1, <1>2, <1>3, <1>4, <1>5, <1>6, <1>7, <1>8, <1>9, <1>10 DEF Next, Calls, AppStep, ThreadSteps

\* A plugin with an open handle has a context that was not exited, whatever
\* inits failed and whoever closed first (init_libusb, exit_libusb).
THEOREM PluginContextOutlives == Spec => []PluginContextLives
<1>1. Init => HandlesInv
  BY DEF Init, HandlesInv, Handles
<1>2. PluginsTypeOK /\ HandlesInv => PluginContextLives
  BY DEF PluginsTypeOK, HandlesInv, Handles, PluginContextLives
<1> QED
  BY <1>1, <1>2, InitType, NextType, NextHandles, PTL DEF Spec
-----------------------------------------------------------------------------
(* The alert thread, for a client that calls deinit and init as it should.  *)

\* The one thread that may be alive is the one that deinit will join, and it is
\* alive only while the camera is open.
WorkerInv ==
  /\ \A t \in Alive : t = tid
  /\ Alive # {} => camera
  /\ camera = intf
  /\ state = "RUNNING" => tid \in Alive
  /\ state = "STOP" /\ Alive # {} => pc \in {"signal", "join"}
  /\ pc \in {"signal", "join", "close"} => state = "STOP"
  /\ pc \in {"signal", "join"} => tid \in Workers
  /\ pc = "close" => Alive = {}
  /\ pc \in {"start", "sleep", "state", "store"} => camera

\* Once enabling has signalled it, the running thread reads alarms; and while an
\* alarm is on or about to be, it runs.
ServedInv ==
  /\ state = "RUNNING" /\ pc # "sleep" => at[tid] \in {"woken", "transfer", "callback"}
  /\ alertState = 1 => state = "RUNNING"
  /\ pc \in {"sleep", "store"} => state = "RUNNING"
  /\ pc = "state" /\ act # "disable" => state = "RUNNING"
  /\ on # {} => state = "RUNNING" \/ pc \in {"signal", "join", "close"}
  /\ on # {} => camera

AlertInv == WorkerInv /\ ServedInv

\* With no client in the way every step keeps the workers in their turn.
LEMMA NextWorker ==
  ASSUME Client = {}, PluginsTypeOK, WorkerInv, [Next]_vars
  PROVE  WorkerInv'
<1> USE PluginsAssumption DEF PluginsTypeOK, WorkerInv, Alive
<1>1. CASE InitOpens
  BY <1>1 DEF InitOpens, Prepare, handle, call
<1>2. CASE InitAgain
  BY <1>2 DEF InitAgain, Prepare, handle, call
<1>3. CASE DeinitCall
  BY <1>3 DEF DeinitCall
<1>4. CASE ThresholdCall \/ Tune \/ (\E a \in Alarms : EnableCall(a) \/ DisableCall(a))
  BY <1>4 DEF ThresholdCall, Tune, EnableCall, DisableCall, Request, handle, thread, call
<1>5. CASE BurninInit \/ BurninDeinit \/ Unplug
  BY <1>5 DEF BurninInit, BurninDeinit, Unplug, handle, thread, call
<1>6. CASE Start
  <2>1. CASE UNCHANGED <<state, tid, at>>
    BY <1>6, <2>1 DEF Start, handle
  <2>2. CASE \E t \in Workers \ Alive :
               state' = "RUNNING" /\ tid' = t /\ at' = [at EXCEPT ![t] = "test"] /\ pc' = "sleep"
    <3>1. pc = "start" /\ state = "STOP" /\ UNCHANGED <<camera, intf>>
      BY <1>6, <2>2 DEF Start, handle
    <3>2. Alive = {}
      BY <3>1
    <3>3. PICK t \in Workers : state' = "RUNNING" /\ tid' = t /\ at' = [at EXCEPT ![t] = "test"] /\ pc' = "sleep"
      BY <2>2
    <3>4. Alive' = {t}
      BY <3>2, <3>3
    <3> QED
      BY <3>1, <3>3, <3>4
  <2> QED
    BY <1>6, <2>1, <2>2 DEF Start
<1>7. CASE Sleep
  <2>1. Alive' = Alive
    BY <1>7 DEF Sleep, SignalWakes
  <2> QED
    BY <1>7, <2>1 DEF Sleep, handle, thread
<1>8. CASE SetState \/ Store
  BY <1>8 DEF SetState, Store, handle, thread
<1>9. CASE DeinitSignal
  <2>1. Alive' = Alive
    BY <1>9 DEF DeinitSignal, SignalWakes
  <2> QED
    BY <1>9, <2>1 DEF DeinitSignal, handle, thread
<1>10. CASE DeinitJoin
  <2>1. tid \notin Alive /\ Alive = {}
    BY <1>10 DEF DeinitJoin
  <2>2. Alive' = {}
    BY <1>10, <2>1 DEF DeinitJoin
  <2> QED
    BY <1>10, <2>2 DEF DeinitJoin, handle, thread
<1>11. CASE DeinitClose
  BY <1>11 DEF DeinitClose, handle, thread
<1>12. CASE ThreadSteps
  <2>1. UNCHANGED <<camera, intf, state, tid, pc>>
    BY <1>12, StepsOfThreads DEF Go, handle, thread, call
  <2>2. CASE Alive' = Alive
    BY <2>1, <2>2
  <2>3. CASE state = "STOP" /\ Alive' \subseteq Alive
    BY <2>1, <2>3
  <2>4. (state = "STOP" /\ Alive' \subseteq Alive) \/ Alive' = Alive
    <3>1. PICK t \in Workers : t \in Alive /\ \E place \in {"lock", "done", "wait", "woken", "transfer", "test", "callback"} :
                               at' = [at EXCEPT ![t] = place] /\ (place = "done" => state = "STOP")
      BY <1>12, StepsOfThreads DEF Go
    <3> QED
      BY <3>1
  <2> QED
    BY <2>2, <2>3, <2>4
<1>13. CASE UNCHANGED vars
  BY <1>13 DEF vars, handle, thread, call
<1> QED
  BY <1>1, <1>2, <1>3, <1>4, <1>5, <1>6, <1>7, <1>8, <1>9, <1>10, <1>11, <1>12, <1>13
     DEF Next, Calls, AppStep, ThreadSteps

\* With no client in the way every step keeps the alarm served.
LEMMA NextServed ==
  ASSUME Client = {}, Slow = FALSE, PluginsTypeOK, WorkerInv, ServedInv, [Next]_vars
  PROVE  ServedInv'
<1> USE PluginsAssumption DEF PluginsTypeOK, ServedInv
<1>1. CASE InitOpens
  <2>1. state = "STOP" /\ on = {}
    BY <1>1 DEF InitOpens, Prepare, WorkerInv, Alive
  <2> QED
    BY <1>1, <2>1 DEF InitOpens, Prepare, alarms, call
<1>2. CASE InitAgain
  <2>1. state = "STOP"
    BY <1>2 DEF InitAgain, WorkerInv, Alive
  <2> QED
    BY <1>2, <2>1 DEF InitAgain, Prepare, handle, alarms, call
<1>3. CASE DeinitCall
  <2>1. alertState = 0 /\ state' = "STOP" /\ pc' \in {"signal", "close"} /\ UNCHANGED <<camera, alertState, on>>
    BY <1>3 DEF DeinitCall, alarms
  <2> QED
    BY <2>1
<1>4. CASE ThresholdCall \/ Tune
  BY <1>4 DEF ThresholdCall, Tune, Request, handle, thread, alarms, call
<1>5. ASSUME NEW a \in Alarms, EnableCall(a) \/ DisableCall(a) PROVE ServedInv'
  BY <1>5 DEF EnableCall, DisableCall, Request, handle, thread
<1>6. CASE BurninInit \/ BurninDeinit \/ Unplug
  BY <1>6 DEF BurninInit, BurninDeinit, Unplug, handle, thread, alarms, call
<1>7. CASE Start
  <2>1. camera /\ intf /\ pc = "start" /\ UNCHANGED <<camera, alertState, on, act>>
    BY <1>7 DEF Start, WorkerInv, handle, alarms
  <2>2. CASE pc' = "state" /\ UNCHANGED <<state, tid, at>>
    BY <1>7, <2>1, <2>2 DEF Start
  <2>3. CASE pc' = "sleep"
    BY <1>7, <2>1, <2>3 DEF Start
  <2>4. CASE pc' = "idle" /\ UNCHANGED <<state, tid, at>>
    BY <2>1, <2>4
  <2> QED
    BY <1>7, <2>2, <2>3, <2>4 DEF Start
<1>8. CASE Sleep
  <2>1. state = "RUNNING" /\ tid \in Alive /\ at[tid] \in {"wait", "woken", "transfer", "callback"}
    BY <1>8 DEF Sleep, WorkerInv, Alive
  <2>2. at'[tid] \in {"woken", "transfer", "callback"}
    <3>1. CASE at[tid] = "wait"
      <4>1. PICK t \in Workers : at[t] = "wait" /\ at' = [at EXCEPT ![t] = "woken"]
        BY <1>8, <2>1, <3>1 DEF Sleep, SignalWakes, Alive
      <4>2. t = tid
        BY <4>1 DEF WorkerInv, Alive
      <4> QED
        BY <4>1, <4>2
    <3>2. CASE at[tid] # "wait"
      <4>1. UNCHANGED at \/ \E t \in Workers : at[t] = "wait" /\ at' = [at EXCEPT ![t] = "woken"]
        BY <1>8 DEF Sleep, SignalWakes
      <4>2. at'[tid] = at[tid]
        BY <2>1, <3>2, <4>1 DEF Alive
      <4> QED
        BY <2>1, <3>2, <4>2
    <3> QED
      BY <3>1, <3>2
  <2> QED
    BY <1>8, <2>1, <2>2 DEF Sleep, handle, thread, alarms
<1>9. CASE SetState
  BY <1>9 DEF SetState, handle, alarms
<1>10. CASE Store
  BY <1>10 DEF Store, WorkerInv, handle, thread
<1>11. CASE DeinitSignal \/ DeinitJoin
  <2>1. state = "STOP"
    BY <1>11 DEF DeinitSignal, DeinitJoin, WorkerInv
  <2> QED
    BY <1>11, <2>1 DEF DeinitSignal, DeinitJoin, handle, thread, alarms
<1>12. CASE DeinitClose
  <2>1. state = "STOP"
    BY <1>12 DEF DeinitClose, WorkerInv
  <2> QED
    BY <1>12, <2>1 DEF DeinitClose, handle, thread
<1>13. CASE ThreadSteps
  <2>1. UNCHANGED <<camera, state, alertState, tid, on, pc, act>>
    BY <1>13, StepsOfThreads DEF Go, handle, thread, alarms, call
  <2>2. ASSUME state = "RUNNING", pc # "sleep" PROVE at'[tid] \in {"woken", "transfer", "callback"}
    <3>1. at[tid] \in {"woken", "transfer", "callback"}
      BY <2>2
    <3>2. PICK t \in Workers : \E place : at' = [at EXCEPT ![t] = place] /\
                               (at[t] \in {"woken", "transfer", "callback"} =>
                                  place \in {"woken", "transfer", "callback"})
      BY <1>13, <2>2, StepsOfThreads DEF Go
    <3>3. CASE t = tid
      BY <3>1, <3>2, <3>3
    <3>4. CASE t # tid
      BY <3>1, <3>2, <3>4
    <3> QED
      BY <3>3, <3>4
  <2> QED
    BY <2>1, <2>2
<1>14. CASE UNCHANGED vars
  BY <1>14 DEF vars, handle, thread, alarms, call
<1> QED
  BY <1>1, <1>2, <1>3, <1>4, <1>5, <1>6, <1>7, <1>8, <1>9, <1>10, <1>11, <1>12, <1>13, <1>14
     DEF Next, Calls, AppStep, ThreadSteps

\* Workers that take turns are one at most.
LEMMA AliveBounded == ASSUME PluginsTypeOK, WorkerInv PROVE SingleWorker
<1>1. Alive = {} \/ Alive = {tid}
  BY DEF WorkerInv
<1>2. CASE Alive = {}
  BY <1>2, FS_EmptySet DEF SingleWorker
<1>3. CASE Alive = {tid}
  <2>1. Cardinality({tid}) = 1
    BY FS_Singleton
  <2> QED
    BY <1>3, <2>1 DEF SingleWorker
<1> QED
  BY <1>1, <1>2, <1>3

\* There is at most one alert thread, for any number of identities and sessions
\* and any faults, if the client keeps to the order of the calls.
THEOREM OneAlertThread == ASSUME Client = {} PROVE Spec => []SingleWorker
<1>1. Init => WorkerInv
  BY DEF Init, WorkerInv, Alive
<1>2. PluginsTypeOK /\ WorkerInv /\ [Next]_vars => WorkerInv'
  BY NextWorker
<1>3. PluginsTypeOK /\ WorkerInv => SingleWorker
  BY AliveBounded
<1> QED
  BY <1>1, <1>2, <1>3, InitType, NextType, PTL DEF Spec

\* The alert thread uses the camera's handle only while it is open.
THEOREM HandleOutlivesThread == ASSUME Client = {} PROVE Spec => []HandleHeld
<1>1. Init => WorkerInv
  BY DEF Init, WorkerInv, Alive
<1>2. PluginsTypeOK /\ WorkerInv /\ [Next]_vars => WorkerInv'
  BY NextWorker
<1>3. PluginsTypeOK /\ WorkerInv => HandleHeld
  BY DEF WorkerInv, Alive, HandleHeld
<1> QED
  BY <1>1, <1>2, <1>3, InitType, NextType, PTL DEF Spec

\* While an alarm is on a thread serves it, if in addition a new thread waits
\* before the sleep(1) of set_alert ends.
THEOREM AlarmsAreServed == ASSUME Client = {}, Slow = FALSE PROVE Spec => []AlarmsServed
<1>1. Init => AlertInv
  <2> SUFFICES ASSUME Init PROVE AlertInv
    OBVIOUS
  <2>1. WorkerInv
    BY DEF Init, WorkerInv, Alive
  <2>2. ServedInv
    BY DEF Init, ServedInv
  <2> QED
    BY <2>1, <2>2 DEF AlertInv
<1>2. PluginsTypeOK /\ AlertInv /\ [Next]_vars => AlertInv'
  BY NextWorker, NextServed DEF AlertInv
<1>3. PluginsTypeOK /\ AlertInv => AlarmsServed
  BY DEF AlertInv, WorkerInv, ServedInv, Alive, AlarmsServed
<1> QED
  BY <1>1, <1>2, <1>3, InitType, NextType, PTL DEF Spec
-----------------------------------------------------------------------------
(* What becomes of an alarm that was received.                              *)

\* An alarm that is on has its flag and its callback; and between the calls the
\* thread drops alarms only when the camera is closed.
DeliverInv ==
  /\ \A a \in on : enabled[a] /\ callback[a]
  /\ pc \in {"start", "sleep", "state", "store"} /\ act = "enable" => enabled[arg]
  /\ pc = "store" => act = "enable"
  /\ disabled => ~camera \/ pc \in {"signal", "join", "close"}

\* With no client in the way every step keeps the alarms that are on deliverable.
LEMMA NextDeliver ==
  ASSUME Client = {}, PluginsTypeOK, WorkerInv, DeliverInv, [Next]_vars
  PROVE  DeliverInv'
<1> USE DEF PluginsTypeOK, DeliverInv
<1>1. CASE InitOpens \/ InitAgain
  BY <1>1 DEF InitOpens, InitAgain, Prepare, alarms, call
<1>2. CASE DeinitCall
  <2>1. pc' \in {"signal", "close"} /\ UNCHANGED <<alarms, act, arg>>
    BY <1>2 DEF DeinitCall
  <2> QED
    BY <2>1 DEF alarms
<1>3. CASE ThresholdCall
  BY <1>3 DEF ThresholdCall, Request, handle, thread
<1>4. ASSUME NEW a \in Alarms, EnableCall(a) PROVE DeliverInv'
  <2>1. /\ pc = "idle" /\ enabled' = [enabled EXCEPT ![a] = TRUE] /\ arg' = a
        /\ pc' \in {"start", "idle"} /\ UNCHANGED <<on, callback, disabled, camera>>
    BY <1>4 DEF EnableCall, Request, handle, thread
  <2> QED
    BY <2>1
<1>5. ASSUME NEW a \in Alarms, DisableCall(a) PROVE DeliverInv'
  <2>1. /\ pc = "idle" /\ enabled' = [enabled EXCEPT ![a] = FALSE] /\ act' = "disable"
        /\ on' = on \ {a} /\ pc' \in {"start", "idle"} /\ UNCHANGED <<callback, disabled, camera>>
    BY <1>5 DEF DisableCall, Request, handle, thread
  <2> QED
    BY <2>1
<1>6. CASE Tune \/ BurninInit \/ BurninDeinit \/ Unplug \/ UNCHANGED vars
  BY <1>6 DEF Tune, BurninInit, BurninDeinit, Unplug, handle, thread, alarms, call, vars
<1>7. CASE Start \/ Sleep \/ SetState
  <2>1. /\ pc \in {"start", "sleep", "state"} /\ UNCHANGED <<alarms, arg, act, disabled, camera>>
        /\ pc' \in {"idle", "sleep", "state", "store"} /\ (pc' = "store" => act = "enable")
    BY <1>7 DEF Start, Sleep, SetState, handle, thread
  <2> QED
    BY <2>1 DEF alarms
<1>8. CASE Store
  <2>1. /\ pc' = "idle" /\ enabled[arg] /\ on' = on \cup {arg}
        /\ callback' = [callback EXCEPT ![arg] = TRUE] /\ UNCHANGED <<enabled, disabled, camera>>
    BY <1>8 DEF Store, handle, thread
  <2> QED
    BY <1>8, <2>1 DEF Store
<1>9. CASE DeinitSignal \/ DeinitJoin
  BY <1>9 DEF DeinitSignal, DeinitJoin, handle, thread, alarms
<1>10. CASE DeinitClose
  BY <1>10 DEF DeinitClose, handle
<1>11. CASE ThreadSteps
  BY <1>11, StepsOfThreads DEF Go, handle, thread, alarms, call
<1> QED
  BY <1>1, <1>2, <1>3, <1>4, <1>5, <1>6, <1>7, <1>8, <1>9, <1>10, <1>11
     DEF Next, Calls, AppStep, ThreadSteps

\* An alarm that is on and received reaches its callback, except an audio alarm
\* at the top of the range: over enabling and
\* disabling of the two alarms, failed calls and new sessions, neither a flag nor
\* a callback of one alarm nor disable_alarm of an earlier session is in its way.
THEOREM AlarmsReachCallbacks == ASSUME Client = {} PROVE Spec => AlarmDelivered
<1> DEFINE Inv == PluginsTypeOK /\ WorkerInv /\ DeliverInv
           Reaches == \A t \in Workers, a \in Alarms :
                        Receive(t, a, FALSE) /\ a \in on /\ pc = "idle" => at'[t] = "callback"
<1>1. Init => Inv
  <2> SUFFICES ASSUME Init PROVE WorkerInv /\ DeliverInv
    BY InitType
  <2> QED
    BY DEF Init, WorkerInv, DeliverInv, Alive
<1>2. Inv /\ [Next]_vars => Inv'
  BY NextType, NextWorker, NextDeliver
<1>3. Inv => Reaches
  <2> SUFFICES ASSUME Inv, NEW t \in Workers, NEW a \in Alarms, Receive(t, a, FALSE), a \in on, pc = "idle"
               PROVE  at'[t] = "callback"
    OBVIOUS
  <2>1. camera
    BY DEF Receive, WorkerInv, Alive
  <2>2. ~disabled /\ enabled[a] /\ callback[a]
    BY <2>1 DEF DeliverInv
  <2> QED
    BY <2>2 DEF Receive, Go, PluginsTypeOK
<1>4. []Inv => AlarmDelivered
  <2> HIDE DEF Inv
  <2>1. Inv => [Reaches]_vars
    BY <1>3
  <2> QED
    BY <2>1, PTL DEF AlarmDelivered
<1> HIDE DEF Inv
<1> QED
  BY <1>1, <1>2, <1>4, PTL DEF Spec
=============================================================================
