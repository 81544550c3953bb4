------------------------- MODULE UsbStreamingProofs -------------------------
(***************************************************************************)
(* Proofs about UsbStreaming, for every number of transfers, whatever      *)
(* fails, and whichever backends the application starts again; the quiet   *)
(* that stop promises, as long as the camera is there.                     *)
(***************************************************************************)
EXTENDS UsbStreaming, FiniteSetTheorems, TLAPS

(***************************************************************************)
(* Types. The type of a user's transfers depends on the user: FlagsOK,     *)
(* XferOK and CbOK are the parts of UsbTypeOK that different steps touch.  *)
(***************************************************************************)

FlagsOK ==
  /\ pc \in [Users -> {"idle", "spawn", "submit", "count", "wait", "cancel",
                       "release", "unlisten", "join", "close"}]
  /\ life \in [Users -> {"new", "open", "used", "half", "closed", "failed"}]
  /\ started \in [Users -> BOOLEAN] /\ disconnected \in [Users -> BOOLEAN]
  /\ active \in [Users -> Int]
  /\ ret \in [Users -> {"idle", "release"}]
  /\ raced \subseteq Users
  /\ unplugged \in BOOLEAN

TransferStates == {"null", "ready", "flight", "callback"}

XferOK ==
  /\ xfer = [u \in Users |-> xfer[u]]
  /\ cursor \in [Users -> Nat]
  /\ \A u \in Users : xfer[u] \in [Transfers(u) -> TransferStates]
  /\ \A u \in Users : cursor[u] \in Transfers(u)

CbOK ==
  cb \in {NoCb} \cup [user : Users, id : Nat, status : Statuses,
                      at : {"entered", "handled", "resubmit", "count"}]

UsbType == LibusbTypeOK /\ FlagsOK /\ XferOK /\ CbOK

\* The parts together are the type invariant.
LEMMA UsbTypeParts == UsbType => UsbTypeOK
  BY DEF UsbType, FlagsOK, XferOK, CbOK, UsbTypeOK, TransferStates

\* A transfer of u changes its state.
LEMMA TransferChanges ==
  ASSUME XferOK, NEW u \in Users, NEW i, NEW x \in TransferStates,
         xfer' = [xfer EXCEPT ![u][i] = x],
         cursor' \in [Users -> Nat], \A v \in Users : cursor'[v] \in Transfers(v)
  PROVE  XferOK'
<1> DEFINE new == [xfer[u] EXCEPT ![i] = x]
<1>1. new \in [Transfers(u) -> TransferStates]
  BY DEF XferOK
<1>2. xfer' = [v \in Users |-> IF v = u THEN new ELSE xfer[v]]
  BY DEF XferOK
<1> HIDE DEF new
<1>3. xfer' = [v \in Users |-> xfer'[v]]
  BY <1>2
<1>4. \A v \in Users : xfer'[v] \in [Transfers(v) -> TransferStates]
  BY <1>1, <1>2 DEF XferOK
<1> QED
  BY <1>3, <1>4 DEF XferOK, Transfers

\* The initial state has its type.
LEMMA UsbTypeInit == Init => UsbType
<1> USE UsbAssumption, LibusbAssumption DEF UsbAssumption, LibusbAssumption
<1> SUFFICES ASSUME Init PROVE UsbType
  OBVIOUS
<1>1. LibusbTypeOK
  <2>1. eventThread \in Threads
    BY DEF Init, LibusbInit
  <2>2. ctx \in {"null", "live", "dead"} /\ initRefs \in Int /\ eventRefs \in Nat
    BY DEF Init, LibusbInit
  <2>3. broken \in BOOLEAN /\ running \subseteq Threads /\ removal \subseteq Users
    BY DEF Init, LibusbInit
  <2> QED
    BY <2>1, <2>2, <2>3 DEF LibusbTypeOK
<1>2. FlagsOK
  <2>1. pc \in [Users -> {"idle"}] /\ life \in [Users -> {"new"}] /\ ret \in [Users -> {"idle"}]
    BY DEF Init
  <2>2. started \in [Users -> BOOLEAN] /\ disconnected \in [Users -> BOOLEAN] /\ unplugged \in BOOLEAN
    BY DEF Init
  <2>3. active \in [Users -> Int] /\ raced \subseteq Users
    BY DEF Init
  <2> QED
    BY <2>1, <2>2, <2>3 DEF FlagsOK
<1>3. XferOK
  BY DEF Init, XferOK, Transfers, TransferStates
<1>4. CbOK
  BY DEF Init, CbOK
<1> QED
  BY <1>1, <1>2, <1>3, <1>4 DEF UsbType

\* The steps that begin a call.
LEMMA UsbTypeCalls ==
  ASSUME UsbType, Calls PROVE UsbType'
<1> USE UsbAssumption, LibusbAssumption DEF UsbAssumption, LibusbAssumption, UsbType
<1>1. ASSUME NEW u \in Users, InitCall(u), started' \in [Users -> BOOLEAN] PROVE UsbType'
  <2>1. LibusbTypeOK'
    <3>1. (ctx' \in {"null", "live", "dead"}) /\ initRefs' \in Int
      BY <1>1 DEF InitCall, LibusbTypeOK, InitLibusb
    <3>2. removal' \subseteq Users
      BY <1>1 DEF InitCall, LibusbTypeOK, RegisterRemoval
    <3>3. eventRefs' \in Nat /\ UNCHANGED <<running, eventThread, broken>>
      BY <1>1 DEF InitCall, LibusbTypeOK, StartEvents, events
    <3> QED
      BY <3>1, <3>2, <3>3 DEF LibusbTypeOK
  <2>2. FlagsOK'
    BY <1>1 DEF InitCall, FlagsOK, StartEvents, Goto
  <2>3. XferOK' /\ CbOK'
    BY <1>1 DEF InitCall, XferOK, CbOK, Transfers
  <2> QED
    BY <2>1, <2>2, <2>3
<1>2. ASSUME NEW u \in Users, StartCall(u) PROVE UsbType'
  <2>1. LibusbTypeOK' /\ CbOK'
    BY <1>2 DEF StartCall, LibusbTypeOK, CbOK, libusb, events
  <2>2. FlagsOK'
    BY <1>2 DEF StartCall, FlagsOK, Goto, Allocate
  <2>3. XferOK'
    BY <1>2 DEF StartCall, XferOK, Allocate, Transfers, TransferStates
  <2> QED
    BY <2>1, <2>2, <2>3
<1>3. ASSUME NEW u \in Users, StopCall(u) PROVE UsbType'
  <2>1. LibusbTypeOK' /\ CbOK' /\ XferOK'
    BY <1>3 DEF StopCall, LibusbTypeOK, CbOK, XferOK, Transfers, libusb, events
  <2>2. FlagsOK'
    BY <1>3 DEF StopCall, Stop, FlagsOK, Goto
  <2> QED
    BY <2>1, <2>2
<1>4. ASSUME NEW u \in Users, DeinitCall(u) PROVE UsbType'
  <2>1. LibusbTypeOK'
    BY <1>4 DEF DeinitCall, DeregisterRemoval, LibusbTypeOK, events
  <2>2. XferOK' /\ CbOK'
    BY <1>4 DEF DeinitCall, XferOK, CbOK, Transfers
  <2>3. FlagsOK'
    <3>1. pc' \in [Users -> {"idle", "spawn", "submit", "count", "wait", "cancel",
                            "release", "unlisten", "join", "close"}]
      BY <1>4 DEF DeinitCall, Stop, FlagsOK, Goto
    <3>2. ret' \in [Users -> {"idle", "release"}]
      BY <1>4 DEF DeinitCall, Stop, FlagsOK
    <3>3. started' \in [Users -> BOOLEAN]
      <4>1. UNCHANGED started \/ started' = [started EXCEPT ![u] = FALSE]
        BY <1>4 DEF DeinitCall, Stop
      <4> QED
        BY <4>1 DEF FlagsOK
    <3> QED
      BY <3>1, <3>2, <3>3, <1>4 DEF DeinitCall, FlagsOK
  <2> QED
    BY <2>1, <2>2, <2>3
<1>5. started' \in [Users -> BOOLEAN] \/ ~(VideoInit \/ AudioInit)
  BY DEF VideoInit, AudioInit, FlagsOK
<1> QED
  BY <1>1, <1>2, <1>3, <1>4, <1>5
  DEF Calls, VideoInit, VideoStart, VideoStop, VideoDeinit,
      AudioInit, AudioStart, AudioStop, AudioDeinit

\* The steps within a call.
LEMMA UsbTypeStep ==
  ASSUME UsbType, NEW u \in Users, AppStep(u) PROVE UsbType'
<1> USE UsbAssumption, LibusbAssumption DEF UsbAssumption, LibusbAssumption, UsbType
<1>1. CASE Listen(u)
  <2>1. LibusbTypeOK'
    <3>1. CASE SpawnFails(u)
      BY <1>1, <3>1 DEF Listen, SpawnFails, LibusbTypeOK, libusb
    <3>2. CASE Spawn(u) /\ eventRefs = 1
      <4>0. running # Threads /\ running \subseteq Threads
        BY <3>2 DEF Spawn, LibusbTypeOK
      <4>1. \E t \in Threads : t \notin running
        BY <4>0, Zenon
      <4>2. eventThread' \in Threads /\ running' \subseteq Threads
        BY <4>1, <3>2 DEF Spawn, LibusbTypeOK
      <4> QED
        BY <4>2, <1>1, <3>2 DEF Listen, Spawn, LibusbTypeOK, libusb
    <3>3. CASE Spawn(u) /\ eventRefs # 1
      BY <1>1, <3>3 DEF Listen, Spawn, LibusbTypeOK, libusb
    <3> QED
      BY <1>1, <3>1, <3>2, <3>3 DEF Listen
  <2>2. FlagsOK'
    BY <1>1 DEF Listen, Spawn, SpawnFails, Goto, FlagsOK
  <2>3. XferOK' /\ CbOK'
    BY <1>1 DEF Listen, XferOK, CbOK, Transfers
  <2> QED
    BY <2>1, <2>2, <2>3
<1>2. CASE Submit(u)
  <2>1. LibusbTypeOK' /\ CbOK'
    BY <1>2 DEF Submit, LibusbTypeOK, CbOK, libusb, events
  <2>2. FlagsOK'
    BY <1>2 DEF Submit, FlagsOK, Goto
  <2>3. XferOK'
    <3>1. \E x \in {"flight", "null"} : xfer' = [xfer EXCEPT ![u][cursor[u]] = x]
      BY <1>2 DEF Submit
    <3>2. cursor' \in [Users -> Nat] /\ \A v \in Users : cursor'[v] \in Transfers(v)
      BY <1>2 DEF Submit, XferOK, Transfers
    <3> QED
      BY <3>1, <3>2, TransferChanges DEF TransferStates
  <2> QED
    BY <2>1, <2>2, <2>3
<1>3. CASE Count(u)
  <2>1. LibusbTypeOK' /\ CbOK'
    BY <1>3 DEF Count, LibusbTypeOK, CbOK, libusb, events
  <2>2. FlagsOK'
    <3>1. active' \in [Users -> Int]
      BY <1>3 DEF Count, FlagsOK
    <3>3. raced' \subseteq Users
      BY <1>3 DEF Count, FlagsOK
    <3>2. pc' \in [Users -> {"idle", "spawn", "submit", "count", "wait", "cancel",
                            "release", "unlisten", "join", "close"}]
      BY <1>3 DEF Count, FlagsOK, Goto
    <3> QED
      BY <3>1, <3>2, <3>3, <1>3 DEF Count, FlagsOK
  <2>3. XferOK'
    BY <1>3 DEF Count, XferOK, Transfers, TransferStates
  <2> QED
    BY <2>1, <2>2, <2>3
<1>4. CASE Waited(u)
  <2>1. LibusbTypeOK' /\ CbOK' /\ XferOK'
    BY <1>4 DEF Waited, LibusbTypeOK, CbOK, XferOK, Transfers, libusb, events
  <2>2. FlagsOK'
    BY <1>4 DEF Waited, FlagsOK, Goto
  <2> QED
    BY <2>1, <2>2
<1>5. CASE Unlisten(u)
  <2>1. LibusbTypeOK'
    <3>1. eventRefs' \in Nat /\ UNCHANGED <<running, eventThread, broken>>
      BY <1>5 DEF Unlisten, StopEvents, Join, LibusbTypeOK, events
    <3> QED
      BY <1>5, <3>1 DEF Unlisten, LibusbTypeOK, libusb
  <2>2. XferOK' /\ CbOK'
    BY <1>5 DEF Unlisten, XferOK, CbOK, Transfers, local
  <2>3. FlagsOK'
    BY <1>5 DEF Unlisten, StopEvents, Join, Goto, FlagsOK, local
  <2> QED
    BY <2>1, <2>2, <2>3
<1>6. CASE Close(u)
  <2>1. LibusbTypeOK' /\ CbOK'
    BY <1>6 DEF Close, ExitLibusb, LibusbTypeOK, CbOK, events
  <2>2. FlagsOK'
    BY <1>6 DEF Close, FlagsOK, Goto
  <2>3. XferOK'
    BY <1>6 DEF Close, XferOK, Transfers, TransferStates
  <2> QED
    BY <2>1, <2>2, <2>3
<1>7. CASE Release(u)
  <2>1. LibusbTypeOK' /\ XferOK' /\ CbOK'
    BY <1>7 DEF Release, LibusbTypeOK, XferOK, CbOK, Transfers, libusb, events
  <2>2. FlagsOK'
    BY <1>7 DEF Release, Goto, FlagsOK
  <2> QED
    BY <2>1, <2>2
<1> QED
  BY <1>1, <1>2, <1>3, <1>4, <1>5, <1>6, <1>7 DEF AppStep

\* The running callback belongs to a user.
LEMMA CallbackUser == CbOK /\ cb.at # "none" => cb.user \in Users /\ cb.id \in Nat
  BY DEF CbOK, NoCb

\* The steps of the callbacks.
LEMMA UsbTypeCallback ==
  ASSUME UsbType, Callback PROVE UsbType'
<1> USE UsbAssumption DEF UsbAssumption, UsbType
<1>1. cb # NoCb /\ cb.at # "none"
  BY DEF Callback, CbStatus, CbHandled, CbResubmit, CbCount, NoCb
<1>2. cb \in [user : Users, id : Nat, status : Statuses,
              at : {"entered", "handled", "resubmit", "count"}]
  BY <1>1 DEF CbOK
<1>3. LibusbTypeOK'
  BY DEF Callback, CbStatus, CbHandled, CbResubmit, CbCount, LibusbTypeOK, libusb, events
<1>4. FlagsOK'
  <2>1. CASE CbStatus
    <3>1. disconnected' \in [Users -> BOOLEAN]
      BY <2>1, <1>2 DEF CbStatus, FlagsOK
    <3> QED
      BY <2>1, <3>1 DEF CbStatus, FlagsOK
  <2>2. CASE CbHandled \/ CbResubmit
    BY <2>2 DEF CbHandled, CbResubmit, FlagsOK
  <2>3. CASE CbCount
    BY <2>3, <1>2 DEF CbCount, FlagsOK
  <2> QED
    BY <2>1, <2>2, <2>3 DEF Callback
<1>5. XferOK'
  <2>1. cb.user \in Users
    BY <1>2
  <2>2. \/ UNCHANGED xfer
        \/ \E x \in {"flight", "null"} : xfer' = [xfer EXCEPT ![cb.user][cb.id] = x]
    BY DEF Callback, CbStatus, CbHandled, CbResubmit, CbCount, Free, CbGoto
  <2>3. UNCHANGED cursor
    BY DEF Callback, CbStatus, CbHandled, CbResubmit, CbCount
  <2>4. CASE UNCHANGED xfer
    BY <2>3, <2>4 DEF XferOK, Transfers
  <2>5. cursor' \in [Users -> Nat] /\ \A v \in Users : cursor'[v] \in Transfers(v)
    BY <2>3 DEF XferOK, Transfers
  <2> QED
    BY <2>1, <2>2, <2>4, <2>5, TransferChanges DEF TransferStates
<1>6. CbOK'
  BY <1>2 DEF Callback, CbStatus, CbHandled, CbResubmit, CbCount, Free, CbGoto, CbOK
<1> QED
  BY <1>3, <1>4, <1>5, <1>6

\* The steps of the event thread and of the camera.
LEMMA UsbTypeThread ==
  ASSUME UsbType,
         \/ Unplug
         \/ \E u \in Users : Removed(u)
         \/ \E u \in Users : \E i \in Transfers(u) : Enter(u, i)
         \/ \E t \in Threads : EventLoop(t) \/ EventLoopError(t)
  PROVE  UsbType'
<1> USE DEF UsbType
<1>1. CASE Unplug
  BY <1>1 DEF Unplug, local, libusb, events, LibusbTypeOK, FlagsOK, XferOK, CbOK, Transfers
<1>2. ASSUME NEW u \in Users, Removed(u) PROVE UsbType'
  BY <1>2 DEF Removed, libusb, events, LibusbTypeOK, FlagsOK, XferOK, CbOK, Transfers
<1>3. ASSUME NEW u \in Users, NEW i \in Transfers(u), Enter(u, i) PROVE UsbType'
  <2>1. LibusbTypeOK'
    BY <1>3 DEF Enter, LibusbTypeOK, libusb, events
  <2>2. FlagsOK'
    BY <1>3 DEF Enter, FlagsOK
  <2>3. XferOK'
    BY <1>3 DEF Enter, XferOK, Transfers, TransferStates
  <2>4. CbOK'
    BY <1>3, UsbAssumption DEF UsbAssumption, Enter, CbOK, Transfers
  <2> QED
    BY <2>1, <2>2, <2>3, <2>4
<1>4. ASSUME NEW t \in Threads, EventLoop(t) \/ EventLoopError(t) PROVE UsbType'
  BY <1>4
  DEF EventLoop, EventLoopError, Leave, LeaveError, local, libusb, LibusbTypeOK, FlagsOK, XferOK, CbOK, Transfers
<1> QED
  BY <1>1, <1>2, <1>3, <1>4

\* Every step keeps the types.
LEMMA UsbTypeNext == UsbType /\ [Next]_vars => UsbType'
<1> SUFFICES ASSUME UsbType, [Next]_vars PROVE UsbType'
  OBVIOUS
<1>1. CASE UNCHANGED vars
  BY <1>1 DEF vars, libusb, events, local, UsbType, LibusbTypeOK, FlagsOK, XferOK, CbOK, Transfers
<1>2. CASE Next
  BY <1>2, UsbTypeCalls, UsbTypeStep, UsbTypeCallback, UsbTypeThread
  DEF Next, VideoCallback, AudioCallback
<1> QED
  BY <1>1, <1>2

\* Every variable keeps its type, for every number of transfers: the loop of
\* start indexes transfers that exist, and the label each call goes on at is
\* one of its own (uvc.c:1674-1794).
THEOREM UsbTypeCorrect == Spec => []UsbTypeOK
<1>1. Init => UsbType
  BY UsbTypeInit
<1>2. UsbType /\ [Next]_vars => UsbType'
  BY UsbTypeNext
<1>3. UsbType => UsbTypeOK
  BY UsbTypeParts
<1> QED
  BY <1>1, <1>2, <1>3, PTL DEF Spec

(***************************************************************************)
(* The libusb context and the event thread live as long as a backend needs *)
(* them. Both counters count the backends that are past the step of init   *)
(* that takes a reference and not past the step of deinit that gives it    *)
(* back; a failed init keeps its reference to the context.                 *)
(***************************************************************************)

\* What a call in progress says about the life of its backend.
PhaseInv ==
  \A u \in Users :
    /\ pc[u] = "spawn" => life[u] = "new"
    /\ pc[u] \notin {"idle", "spawn"} => Open(u)

Holds(u) == life[u] \in {"open", "used", "half", "failed"} \/ pc[u] = "spawn"

ContextInv ==
  /\ initRefs = One(Holds("video")) + One(Holds("audio"))
  /\ ctx = "null" <=> \A u \in Users : ~Holds(u) /\ life[u] # "closed"
  /\ ctx = "dead" <=> (\A u \in Users : ~Holds(u)) /\ \E u \in Users : life[u] = "closed"

\* No user holds the context at first.
LEMMA ContextInit == Init => PhaseInv /\ ContextInv
  BY UsbAssumption
  DEF UsbAssumption, Init, LibusbInit, PhaseInv, ContextInv, Holds, Open, One

\* A step that leaves the two alone: neither context nor lives change, and a
\* call goes on outside init.
LEMMA ContextKept ==
  ASSUME UsbType, PhaseInv, ContextInv, NEW u \in Users,
         UNCHANGED <<ctx, initRefs>>,
         \A v \in Users \ {u} : pc'[v] = pc[v] /\ life'[v] = life[v],
         pc[u] # "spawn" /\ pc'[u] # "spawn",
         life'[u] = life[u] \/ (Open(u) /\ Open(u)'),
         pc'[u] # "idle" => Open(u)
  PROVE  (PhaseInv /\ ContextInv)'
<1>1. \A v \in Users : Holds(v)' <=> Holds(v)
  BY DEF Holds, Open
<1>2. \A v \in Users : (life[v] = "closed")' <=> life[v] = "closed"
  BY DEF Open
<1>3. PhaseInv'
  BY DEF PhaseInv, Open
<1> QED
  BY <1>1, <1>2, <1>3, UsbAssumption DEF UsbAssumption, ContextInv, One

\* Every step keeps the count of the context that of its users.
LEMMA ContextNext ==
  UsbType /\ PhaseInv /\ ContextInv /\ [Next]_vars => (PhaseInv /\ ContextInv)'
<1> SUFFICES ASSUME UsbType, PhaseInv, ContextInv, [Next]_vars
             PROVE  (PhaseInv /\ ContextInv)'
  OBVIOUS
<1> USE UsbAssumption DEF UsbAssumption, UsbType, FlagsOK
<1>0. CASE UNCHANGED <<ctx, initRefs, pc, life>>
  BY <1>0 DEF PhaseInv, ContextInv, Holds, Open
<1>1. ASSUME NEW u \in Users, InitCall(u) PROVE (PhaseInv /\ ContextInv)'
  <2>1. life[u] = "new" /\ pc[u] = "idle" /\ ctx # "dead"
    BY <1>1 DEF InitCall, Turn
  <2>2. initRefs' = initRefs + 1 /\ ctx' = "live"
    BY <1>1, <2>1 DEF InitCall, InitLibusb, LibusbTypeOK
  <2>3. \/ pc' = [pc EXCEPT ![u] = "spawn"] /\ UNCHANGED life
        \/ life' = [life EXCEPT ![u] = "failed"] /\ UNCHANGED pc
    BY <1>1 DEF InitCall, StartEvents, Goto
  <2>4. PhaseInv'
    BY <2>1, <2>3 DEF PhaseInv, Open
  <2>5. ~Holds(u) /\ Holds(u)' /\ \A v \in Users \ {u} : Holds(v)' <=> Holds(v)
    BY <2>1, <2>3 DEF Holds
  <2> QED
    BY <2>2, <2>4, <2>5 DEF ContextInv, One
<1>2. ASSUME NEW u \in Users, StartCall(u) PROVE (PhaseInv /\ ContextInv)'
  BY <1>2, ContextKept DEF StartCall, Turn, Goto, libusb, Open
<1>3. ASSUME NEW u \in Users, StopCall(u) PROVE (PhaseInv /\ ContextInv)'
  BY <1>3, ContextKept DEF StopCall, Stop, Turn, Goto, libusb
<1>4. ASSUME NEW u \in Users, DeinitCall(u) PROVE (PhaseInv /\ ContextInv)'
  <2>1. \E l \in {"wait", "cancel", "release", "unlisten"} : pc' = [pc EXCEPT ![u] = l]
    BY <1>4 DEF DeinitCall, Stop, Goto
  <2> QED
    BY <1>4, <2>1, ContextKept DEF DeinitCall, Turn
<1>5. ASSUME NEW u \in Users, Listen(u) PROVE (PhaseInv /\ ContextInv)'
  <2>1. /\ pc[u] = "spawn" /\ pc' = [pc EXCEPT ![u] = "idle"]
        /\ \E l \in {"open", "failed"} : life' = [life EXCEPT ![u] = l]
    BY <1>5 DEF Listen, Spawn, SpawnFails, Goto
  <2>2. PhaseInv'
    BY <2>1 DEF PhaseInv, Open
  <2>3. \A v \in Users : Holds(v)' <=> Holds(v)
    BY <2>1 DEF Holds
  <2>4. \A v \in Users : (life[v] = "closed")' <=> life[v] = "closed"
    BY <2>1 DEF PhaseInv
  <2>5. UNCHANGED <<ctx, initRefs>>
    BY <1>5 DEF Listen, libusb
  <2> QED
    BY <2>2, <2>3, <2>4, <2>5 DEF ContextInv, One
<1>6. ASSUME NEW u \in Users, Submit(u) \/ Count(u) PROVE (PhaseInv /\ ContextInv)'
  <2>1. \E l \in {"idle", "submit", "count"} : pc' = [pc EXCEPT ![u] = l]
    BY <1>6 DEF Submit, Count, Goto
  <2>2. pc[u] \in {"submit", "count"} /\ UNCHANGED <<libusb, life>>
    BY <1>6 DEF Submit, Count
  <2> QED
    BY <2>1, <2>2, ContextKept DEF PhaseInv, libusb
<1>7. ASSUME NEW u \in Users, Waited(u) PROVE (PhaseInv /\ ContextInv)'
  <2>1. \E l \in {"idle", "release"} : pc' = [pc EXCEPT ![u] = l]
    BY <1>7 DEF Waited, Goto
  <2> QED
    BY <1>7, <2>1, ContextKept DEF Waited, PhaseInv, libusb
<1>8. ASSUME NEW u \in Users, Unlisten(u) PROVE (PhaseInv /\ ContextInv)'
  <2>1. \E l \in {"join", "close"} : pc' = [pc EXCEPT ![u] = l]
    BY <1>8 DEF Unlisten, StopEvents, Join, Goto
  <2>2. pc[u] \in {"unlisten", "join"} /\ UNCHANGED <<ctx, initRefs, life>>
    BY <1>8 DEF Unlisten, Join, libusb, local
  <2> QED
    BY <2>1, <2>2, ContextKept DEF PhaseInv
<1>9. ASSUME NEW u \in Users, Close(u) PROVE (PhaseInv /\ ContextInv)'
  <2>1. /\ pc[u] = "close" /\ pc' = [pc EXCEPT ![u] = "idle"]
        /\ Open(u) /\ life' = [life EXCEPT ![u] = "closed"]
    BY <1>9 DEF Close, Goto, PhaseInv
  <2>2. PhaseInv'
    BY <2>1 DEF PhaseInv, Open
  <2>3. Holds(u) /\ ~Holds(u)' /\ \A v \in Users \ {u} : Holds(v)' <=> Holds(v)
    BY <2>1 DEF Holds, Open
  <2>4. initRefs \in {1, 2}
    BY <2>3 DEF ContextInv, One
  <2>5. initRefs' = initRefs - 1 /\ ctx' = IF initRefs' = 0 THEN "dead" ELSE ctx
    BY <1>9, <2>4 DEF Close, ExitLibusb
  <2>6. life'[u] = "closed"
    BY <2>1
  <2>7. ctx = "live"
    BY <2>3 DEF ContextInv, LibusbTypeOK
  <2> QED
    BY <2>2, <2>3, <2>5, <2>6, <2>7 DEF ContextInv, One
<1>12. ASSUME NEW u \in Users, Release(u) PROVE (PhaseInv /\ ContextInv)'
  <2>1. pc[u] = "release" /\ Open(u) /\ UNCHANGED <<ctx, initRefs>>
    BY <1>12 DEF Release, PhaseInv, libusb
  <2>2. pc'[u] \in {"unlisten", "idle"} /\ Open(u)'
    BY <1>12, <2>1 DEF Release, Goto, Open
  <2> QED
    BY <1>12, <2>1, <2>2, ContextKept DEF Release, Goto
<1>10. CASE Unplug \/ Callback \/ (\E u \in Users : Removed(u))
            \/ (\E u \in Users : \E i \in Transfers(u) : Enter(u, i))
            \/ (\E t \in Threads : EventLoop(t) \/ EventLoopError(t))
  BY <1>0, <1>10
  DEF Unplug, Callback, CbStatus, CbHandled, CbResubmit, CbCount, Removed, Enter, EventLoop,
      EventLoopError, libusb, local
<1>11. CASE UNCHANGED vars
  BY <1>0, <1>11 DEF vars, libusb, local
<1> QED
  BY <1>1, <1>2, <1>3, <1>4, <1>5, <1>6, <1>7, <1>8, <1>9, <1>10, <1>11, <1>12
  DEF Next, Calls, AppStep, VideoInit, VideoStart, VideoStop, VideoDeinit,
      AudioInit, AudioStart, AudioStop, AudioDeinit, VideoCallback, AudioCallback

\* The context of libusb is there for every initialised backend, whatever
\* failed on the way, and is exited by the last one that closes, once
\* (handle_events.c:94-134); the backends may be called from two threads.
THEOREM ContextOutlivesUsers == Spec => []ContextLives
<1>1. Init => UsbType /\ PhaseInv /\ ContextInv
  BY UsbTypeInit, ContextInit
<1>2. UsbType /\ PhaseInv /\ ContextInv /\ [Next]_vars => (UsbType /\ PhaseInv /\ ContextInv)'
  BY UsbTypeNext, ContextNext
<1>3. UsbType /\ PhaseInv /\ ContextInv => ContextLives
  <2> SUFFICES ASSUME UsbType, ContextInv PROVE ContextLives
    OBVIOUS
  <2>1. initRefs = 0 <=> \A u \in Users : ~Holds(u)
    BY UsbAssumption DEF UsbAssumption, ContextInv, One
  <2>2. \A u \in Users : Open(u) => Holds(u)
    BY DEF Open, Holds
  <2> QED
    BY <2>1, <2>2 DEF ContextInv, ContextLives, UsbType, LibusbTypeOK
<1> QED
  BY <1>1, <1>2, <1>3, PTL DEF Spec

(***************************************************************************)
(* The event thread, when one thread of the application calls both         *)
(* backends (Serial). event_loop_refcnt counts the backends that listen;   *)
(* a thread runs exactly while it is not zero, but for the moment between  *)
(* the update of the count and the creation or the end of the thread.      *)
(***************************************************************************)

Listening(u) == pc[u] = "spawn" \/ (Open(u) /\ pc[u] \notin {"close", "join"})

ThreadInv ==
  /\ \A u, v \in Users : pc[u] # "idle" /\ pc[v] # "idle" => u = v
  /\ eventRefs = One(Listening("video")) + One(Listening("audio"))
  /\ running \subseteq {eventThread}
  /\ broken => running = {}
  /\ (\A u \in Users : pc[u] \notin {"spawn", "join"})
        => (running = {} <=> eventRefs = 0 \/ broken)
  /\ \A u \in Users : pc[u] = "spawn" => (running = {} <=> eventRefs = 1 \/ broken)
  /\ \A u \in Users : pc[u] = "join" => (eventRefs = 0 \/ running # {} \/ broken)

\* No thread runs at first.
LEMMA ThreadInit == Init => ThreadInv
  BY UsbAssumption DEF UsbAssumption, Init, LibusbInit, ThreadInv, Listening, Open, One

\* A step within a call that keeps the thread and those that listen.
LEMMA ThreadKept ==
  ASSUME UsbType, ThreadInv, NEW u \in Users,
         UNCHANGED events,
         \A v \in Users \ {u} : pc'[v] = pc[v] /\ life'[v] = life[v],
         pc[u] \notin {"spawn", "join"} /\ pc'[u] \notin {"spawn", "join"},
         pc[u] = "idle" => \A v \in Users : pc[v] = "idle",
         Listening(u)' <=> Listening(u)
  PROVE  ThreadInv'
<1>1. \A v \in Users : Listening(v)' <=> Listening(v)
  BY DEF Listening, Open
<1>2. UNCHANGED <<eventRefs, running, eventThread, broken>>
  BY DEF events
<1>3. \A v, w \in Users : pc'[v] # "idle" /\ pc'[w] # "idle" => v = w
  BY DEF ThreadInv
<1>4. \A v \in Users : pc'[v] \in {"spawn", "join"} <=> pc[v] \in {"spawn", "join"}
  OBVIOUS
<1>5. \A v \in Users : pc'[v] \in {"spawn", "join"} => pc'[v] = pc[v]
  OBVIOUS
<1>6. eventRefs' = One(Listening("video")') + One(Listening("audio")')
  BY <1>1, <1>2, UsbAssumption DEF UsbAssumption, ThreadInv, One
<1> QED
  BY <1>2, <1>3, <1>4, <1>5, <1>6 DEF ThreadInv, One

\* Every step keeps the event thread while a user listens.
LEMMA ThreadNext ==
  ASSUME Serial, UsbType, PhaseInv, ThreadInv, [Next]_vars PROVE ThreadInv'
<1> USE UsbAssumption DEF UsbAssumption, UsbType, FlagsOK, LibusbTypeOK
<1>0. CASE UNCHANGED <<events, pc, life>>
  BY <1>0 DEF ThreadInv, Listening, Open, events
<1>1. ASSUME NEW u \in Users, InitCall(u) PROVE ThreadInv'
  <2>1. life[u] = "new" /\ \A v \in Users : pc[v] = "idle"
    BY <1>1 DEF InitCall, Turn
  <2>2. ~Listening(u)
    BY <2>1 DEF Listening, Open
  <2>3. CASE StartEvents(u) /\ UNCHANGED life
    <3>1. eventRefs' = eventRefs + 1 /\ pc' = [pc EXCEPT ![u] = "spawn"]
          /\ UNCHANGED <<running, eventThread, broken>>
      BY <2>3 DEF StartEvents, Goto
    <3>2. Listening(u)' /\ \A v \in Users \ {u} : Listening(v)' <=> Listening(v)
      BY <2>3, <3>1 DEF Listening, Open
    <3>3. running = {} <=> eventRefs = 0 \/ broken
      BY <2>1 DEF ThreadInv
    <3> QED
      BY <2>1, <2>2, <3>1, <3>2, <3>3 DEF ThreadInv, One
  <2>4. CASE life' = [life EXCEPT ![u] = "failed"] /\ UNCHANGED <<pc, events>>
    <3>1. \A v \in Users : Listening(v)' <=> Listening(v)
      BY <2>1, <2>2, <2>4 DEF Listening, Open
    <3> QED
      BY <2>1, <2>4, <3>1 DEF ThreadInv, One, events
  <2> QED
    BY <1>1, <2>3, <2>4 DEF InitCall
<1>2. ASSUME NEW u \in Users, Listen(u) PROVE ThreadInv'
  <2>1. /\ pc[u] = "spawn" /\ pc' = [pc EXCEPT ![u] = "idle"]
        /\ \A v \in Users \ {u} : pc[v] = "idle"
    BY <1>2 DEF Listen, Spawn, SpawnFails, Goto, ThreadInv
  <2>2. life[u] = "new" /\ Listening(u) /\ (running = {} <=> eventRefs = 1 \/ broken)
    BY <2>1 DEF PhaseInv, Listening, ThreadInv
  <2>3. eventRefs \in {1, 2}
    BY <2>2 DEF ThreadInv, One
  <2>4. CASE Spawn(u) /\ life' = [life EXCEPT ![u] = "open"]
    <3>1. \A v \in Users : Listening(v)' <=> Listening(v)
      BY <2>1, <2>2, <2>4 DEF Listening, Open
    <3>2. /\ eventRefs' = eventRefs /\ running' \subseteq {eventThread'}
          /\ running' = {} <=> broken'
      BY <2>2, <2>3, <2>4 DEF Spawn, ThreadInv
    <3> QED
      BY <2>1, <2>3, <3>1, <3>2 DEF ThreadInv, One
  <2>5. CASE SpawnFails(u) /\ life' = [life EXCEPT ![u] = "failed"]
    <3>1. eventRefs = 1 /\ eventRefs' = 0 /\ UNCHANGED <<running, eventThread, broken>>
      BY <2>5 DEF SpawnFails
    <3>2. ~Listening(u)' /\ \A v \in Users \ {u} : Listening(v)' <=> Listening(v)
      BY <2>1, <2>5 DEF Listening, Open
    <3> QED
      BY <2>1, <2>2, <3>1, <3>2 DEF ThreadInv, One
  <2> QED
    BY <1>2, <2>4, <2>5 DEF Listen
<1>3. ASSUME NEW u \in Users, Unlisten(u) PROVE ThreadInv'
  <2>0. UNCHANGED life
    BY <1>3 DEF Unlisten, local
  <2>1. CASE pc[u] = "unlisten" /\ StopEvents(u, "close")
    <3>1. Listening(u) /\ \A v \in Users \ {u} : pc[v] = "idle"
      BY <2>1 DEF PhaseInv, Listening, ThreadInv
    <3>2. eventRefs \in {1, 2}
      BY <3>1 DEF ThreadInv, One
    <3>3. eventRefs' = eventRefs - 1 /\ pc' = [pc EXCEPT ![u] = "join"]
          /\ UNCHANGED <<running, eventThread, broken>>
      BY <2>1, <3>2 DEF StopEvents, Goto
    <3>4. ~Listening(u)' /\ \A v \in Users \ {u} : Listening(v)' <=> Listening(v)
      BY <2>0, <3>3 DEF Listening, Open
    <3>5. running # {} \/ broken
      BY <2>1, <3>1, <3>2 DEF ThreadInv
    <3> QED
      BY <3>1, <3>2, <3>3, <3>4, <3>5 DEF ThreadInv, One
  <2>2. CASE Join(u, "close")
    <3>1. /\ pc[u] = "join" /\ pc' = [pc EXCEPT ![u] = "close"] /\ UNCHANGED events
          /\ \A v \in Users \ {u} : pc[v] = "idle"
          /\ eventRefs = 0 => eventThread \notin running
      BY <2>2 DEF Join, Goto, ThreadInv
    <3>2. \A v \in Users : Listening(v)' <=> Listening(v)
      BY <2>0, <3>1 DEF Listening, Open
    <3>3. running = {} <=> eventRefs = 0 \/ broken
      BY <3>1 DEF ThreadInv
    <3> QED
      BY <3>1, <3>2, <3>3 DEF ThreadInv, One, events
  <2> QED
    BY <1>3, <2>1, <2>2 DEF Unlisten
<1>4. ASSUME NEW u \in Users, StartCall(u) PROVE ThreadInv'
  <2>1. /\ UNCHANGED events /\ pc' = [pc EXCEPT ![u] = "submit"]
        /\ \E l \in {"used", "half"} : life' = [life EXCEPT ![u] = l]
        /\ Open(u) /\ \A v \in Users : pc[v] = "idle"
    BY <1>4 DEF StartCall, Goto, Turn
  <2>2. Listening(u)' <=> Listening(u)
    BY <2>1 DEF Listening, Open
  <2> QED
    BY <2>1, <2>2, ThreadKept
<1>5. ASSUME NEW u \in Users, StopCall(u) \/ DeinitCall(u) PROVE ThreadInv'
  <2>1. UNCHANGED <<events, life>> /\ Open(u) /\ \A v \in Users : pc[v] = "idle"
    BY <1>5 DEF StopCall, DeinitCall, Turn
  <2>2. \E l \in {"wait", "cancel", "release", "unlisten"} : pc' = [pc EXCEPT ![u] = l]
    BY <1>5 DEF StopCall, DeinitCall, Stop, Goto
  <2>3. Listening(u)' <=> Listening(u)
    BY <2>1, <2>2 DEF Listening, Open
  <2> QED
    BY <2>1, <2>2, <2>3, ThreadKept
<1>6. ASSUME NEW u \in Users, Submit(u) \/ Count(u) \/ Waited(u) PROVE ThreadInv'
  <2>1. UNCHANGED <<events, life>> /\ pc[u] \in {"submit", "count", "wait", "cancel"}
    BY <1>6 DEF Submit, Count, Waited
  <2>2. \E l \in {"idle", "submit", "count", "release"} : pc' = [pc EXCEPT ![u] = l]
    BY <1>6 DEF Submit, Count, Waited, Goto
  <2>3. Listening(u)' <=> Listening(u)
    BY <2>1, <2>2 DEF Listening, Open, PhaseInv
  <2> QED
    BY <2>1, <2>2, <2>3, ThreadKept
<1>7. ASSUME NEW u \in Users, Close(u) PROVE ThreadInv'
  <2>1. UNCHANGED events /\ pc[u] = "close" /\ pc' = [pc EXCEPT ![u] = "idle"]
        /\ life' = [life EXCEPT ![u] = "closed"]
    BY <1>7 DEF Close, Goto
  <2>2. Listening(u)' <=> Listening(u)
    BY <2>1 DEF Listening, Open
  <2> QED
    BY <2>1, <2>2, ThreadKept
<1>8. ASSUME NEW t \in Threads, EventLoop(t) PROVE ThreadInv'
  <2>1. UNCHANGED <<pc, life, eventRefs, eventThread, broken>> /\ running' = running \ {t}
        /\ t \in running /\ eventRefs = 0
    BY <1>8 DEF EventLoop, Leave, local
  <2>2. \A v \in Users : pc[v] # "spawn"
    BY <2>1 DEF ThreadInv, Listening, One
  <2>3. PICK u \in Users : pc[u] = "join"
    BY <2>1, <2>2 DEF ThreadInv
  <2> QED
    BY <2>1, <2>2, <2>3 DEF ThreadInv, Listening, Open
<1>11. ASSUME NEW t \in Threads, EventLoopError(t) PROVE ThreadInv'
  <2>1. /\ UNCHANGED <<pc, life, eventRefs, eventThread>> /\ running' = running \ {t}
        /\ t \in running /\ broken'
    BY <1>11 DEF EventLoopError, LeaveError, local
  <2>2. running' = {} /\ \A v \in Users : Listening(v)' <=> Listening(v)
    BY <2>1 DEF ThreadInv, Listening, Open
  <2> QED
    BY <2>1, <2>2 DEF ThreadInv, One
<1>12. ASSUME NEW u \in Users, Release(u) PROVE ThreadInv'
  <2>1. UNCHANGED events /\ pc[u] = "release" /\ Open(u)
    BY <1>12 DEF Release, PhaseInv
  <2>2. /\ \E l \in {"idle", "unlisten"} : pc' = [pc EXCEPT ![u] = l]
        /\ UNCHANGED life \/ life' = [life EXCEPT ![u] = "half"]
    BY <1>12 DEF Release, Goto
  <2>3. Listening(u)' <=> Listening(u)
    BY <2>1, <2>2 DEF Listening, Open
  <2> QED
    BY <2>1, <2>2, <2>3, ThreadKept
<1>9. CASE Unplug \/ Callback \/ (\E u \in Users : Removed(u))
           \/ (\E u \in Users : \E i \in Transfers(u) : Enter(u, i))
  BY <1>0, <1>9
  DEF Unplug, Callback, CbStatus, CbHandled, CbResubmit, CbCount, Removed, Enter, local
<1>10. CASE UNCHANGED vars
  BY <1>0, <1>10 DEF vars, local
<1> QED
  BY <1>1, <1>2, <1>3, <1>4, <1>5, <1>6, <1>7, <1>8, <1>9, <1>10, <1>11,
     <1>12
  DEF Next, Calls, AppStep, VideoInit, VideoStart, VideoStop, VideoDeinit,
      AudioInit, AudioStart, AudioStop, AudioDeinit, VideoCallback, AudioCallback

\* With one application thread the event thread serves every initialised
\* backend, unless it has left on an error of libusb; there is never a second
\* one, not even then, and it has ended when the last backend is closed (handle_events.c:136-226): what the tests of event_loop_refcnt
\* after the unlock put at risk only when two threads call.
THEOREM OneThreadServes ==
  ASSUME Serial PROVE Spec => []ThreadServes
<1>1. Init => UsbType /\ PhaseInv /\ ThreadInv
  BY UsbTypeInit, ContextInit, ThreadInit
<1>2. UsbType /\ PhaseInv /\ ContextInv /\ ThreadInv /\ [Next]_vars
        => (UsbType /\ PhaseInv /\ ContextInv /\ ThreadInv)'
  BY UsbTypeNext, ContextNext, ThreadNext
<1>3. PhaseInv /\ ThreadInv => ThreadServes
  <2> SUFFICES ASSUME PhaseInv, ThreadInv PROVE ThreadServes
    OBVIOUS
  <2>1. running = {} \/ running = {eventThread}
    BY DEF ThreadInv
  <2>2. Cardinality(running) <= 1
    <3>1. CASE running = {}
      <4>1. Cardinality(running) = 0
        BY <3>1, FS_EmptySet
      <4> QED
        BY <4>1
    <3>2. CASE running = {eventThread}
      <4>1. Cardinality(running) = 1
        BY <3>2, FS_Singleton
      <4> QED
        BY <4>1
    <3> QED
      BY <2>1, <3>1, <3>2
  <2>3. ASSUME NEW u \in Users, pc[u] \notin {"close", "join"}, Open(u)
        PROVE  running # {} \/ broken
    <3>1. Listening(u)
      BY <2>3 DEF Listening
    <3>2. eventRefs # 0
      BY <3>1, UsbAssumption DEF UsbAssumption, ThreadInv, One
    <3>3. ASSUME NEW v \in Users, pc[v] = "spawn" PROVE eventRefs = 2
      <4>1. u # v
        BY <2>3, <3>3 DEF PhaseInv, Open
      <4>2. Listening(v)
        BY <3>3 DEF Listening
      <4> QED
        BY <3>1, <4>1, <4>2, UsbAssumption DEF UsbAssumption, ThreadInv, One
    <3> QED
      BY <3>2, <3>3 DEF ThreadInv
  <2>4. (\A u \in Users : pc[u] = "idle" /\ ~Open(u)) => running = {}
    BY UsbAssumption DEF UsbAssumption, ThreadInv, Listening, One
  <2> QED
    BY <2>2, <2>3, <2>4 DEF ThreadServes, ThreadInv
<1>4. Init => ContextInv
  BY ContextInit
<1> QED
  BY <1>1, <1>2, <1>3, <1>4, PTL DEF Spec

(***************************************************************************)
(* The count of the transfers in flight. A slot that start has yet to      *)
(* submit is ready, and the slot of the running callback is its own: each  *)
(* step that puts a transfer in flight takes one that was not, and each    *)
(* callback takes one away. Audio is started once: its start makes no      *)
(* control transfer, so that a second one could find a callback of the     *)
(* first stream on its way.                                                *)
(***************************************************************************)

Fresh(u) == life[u] \in {"new", "open", "failed"}

SlotsInv ==
  /\ \A u \in Users : Fresh(u) => InFlight(u) = {} /\ cb.user # u
  /\ \A u \in Users : pc[u] \in {"submit", "count"} => life[u] \in {"used", "half"}
  /\ \A u \in Users : pc[u] = "submit" =>
       \A i \in Transfers(u) : i >= cursor[u] => xfer[u][i] = "ready"
  /\ \A u \in Users : pc[u] = "count" =>
       \A i \in Transfers(u) : i > cursor[u] => xfer[u][i] = "ready"
  /\ cb # NoCb =>
       /\ cb.user \in Users /\ cb.id \in Transfers(cb.user)
       /\ cb.at # "count" => xfer[cb.user][cb.id] = "callback"

CountInv == SlotsInv /\ CountExact

Uncounted(u) == One(pc[u] = "count") + One(cb.user = u /\ cb.at = "count")

\* There are finitely many transfers.
LEMMA FlightFinite ==
  ASSUME NEW u \in Users PROVE IsFiniteSet(InFlight(u)) /\ Cardinality(InFlight(u)) \in Nat
<1>1. NumTransfers[u] \in Int
  BY UsbAssumption DEF UsbAssumption
<1>2. IsFiniteSet(Transfers(u))
  BY <1>1, FS_Interval DEF Transfers
<1>3. IsFiniteSet(InFlight(u))
  BY <1>2, FS_Subset DEF InFlight
<1> QED
  BY <1>3, FS_CardinalityType

\* What a change of one transfer does to the set in flight.
LEMMA FlightChanges ==
  ASSUME UsbType, NEW u \in Users, NEW i \in Transfers(u), NEW x \in TransferStates,
         xfer' = [xfer EXCEPT ![u][i] = x]
  PROVE  /\ \A v \in Users \ {u} : xfer'[v] = xfer[v] /\ InFlight(v)' = InFlight(v)
         /\ xfer'[u] = [xfer[u] EXCEPT ![i] = x]
         /\ x = "flight" /\ xfer[u][i] # "flight" =>
              Cardinality(InFlight(u)') = Cardinality(InFlight(u)) + 1
         /\ x # "flight" /\ xfer[u][i] = "flight" =>
              Cardinality(InFlight(u)') = Cardinality(InFlight(u)) - 1
         /\ x # "flight" /\ xfer[u][i] # "flight" => InFlight(u)' = InFlight(u)
<1>1. xfer'[u] = [xfer[u] EXCEPT ![i] = x] /\ \A v \in Users \ {u} : xfer'[v] = xfer[v]
  BY DEF UsbType, XferOK
<1>2. \A v \in Users \ {u} : InFlight(v)' = InFlight(v)
  BY <1>1 DEF InFlight, Transfers
<1>3. xfer[u] \in [Transfers(u) -> TransferStates]
  BY DEF UsbType, XferOK
<1>4. \A j \in Transfers(u) : xfer'[u][j] = IF j = i THEN x ELSE xfer[u][j]
  BY <1>1, <1>3
<1>5. x = "flight" => InFlight(u)' = InFlight(u) \cup {i}
  BY <1>4 DEF InFlight, Transfers
<1>6. x # "flight" => InFlight(u)' = InFlight(u) \ {i}
  BY <1>4 DEF InFlight, Transfers
<1>7. i \in InFlight(u) <=> xfer[u][i] = "flight"
  BY DEF InFlight
<1>8. CASE x = "flight" /\ xfer[u][i] # "flight"
  BY <1>1, <1>2, <1>5, <1>7, <1>8, FlightFinite, FS_AddElement
<1>9. CASE x # "flight" /\ xfer[u][i] = "flight"
  BY <1>1, <1>2, <1>6, <1>7, <1>9, FlightFinite, FS_RemoveElement
<1>10. CASE x # "flight" /\ xfer[u][i] # "flight"
  BY <1>1, <1>2, <1>6, <1>7, <1>10
<1> QED
  BY <1>1, <1>2, <1>8, <1>9, <1>10

\* No transfer exists at first.
LEMMA CountInit == Init => CountInv
<1> SUFFICES ASSUME Init PROVE CountInv
  OBVIOUS
<1>1. \A u \in Users : InFlight(u) = {}
  BY DEF Init, InFlight
<1>2. SlotsInv
  BY <1>1, UsbAssumption DEF UsbAssumption, Init, SlotsInv, NoCb
<1>3. CountExact
  <2>1. \A u \in Users : Cardinality(InFlight(u)) = 0
    BY <1>1, FS_EmptySet
  <2>2. \A u \in Users : active[u] = 0 /\ pc[u] = "idle" /\ cb.at = "none"
    BY DEF Init, NoCb
  <2> QED
    BY <2>1, <2>2 DEF CountExact, One
<1> QED
  BY <1>2, <1>3 DEF CountInv

\* A step of u that touches neither transfers nor callback nor count, nor is
\* part of start.
LEMMA CountKept ==
  ASSUME UsbType, CountInv, NEW u \in Users,
         UNCHANGED <<active, xfer, cursor, raced, cb>>,
         \A v \in Users \ {u} : pc'[v] = pc[v] /\ life'[v] = life[v],
         pc[u] \notin {"submit", "count"} /\ pc'[u] \notin {"submit", "count"},
         Fresh(u)' => Fresh(u)
  PROVE  CountInv'
<1>1. \A v \in Users : InFlight(v)' = InFlight(v)
  BY DEF InFlight, Transfers
<1>2. \A v \in Users : Fresh(v)' => Fresh(v)
  BY DEF Fresh
<1>3. SlotsInv'
  BY <1>1, <1>2 DEF CountInv, SlotsInv, Transfers
<1>4. CountExact'
  BY <1>1 DEF CountInv, CountExact, One
<1> QED
  BY <1>3, <1>4 DEF CountInv

\* start allocates the transfers of one stream and counts none.
LEMMA CountStart ==
  ASSUME UsbType, CountInv, Restarted \subseteq {"video"}, VideoStart \/ AudioStart
  PROVE  CountInv'
<1>1. PICK u \in Users : StartCall(u) /\ cb.user # u
  <2>1. CASE VideoStart
    BY <2>1, UsbAssumption DEF UsbAssumption, VideoStart, NoCb
  <2>2. CASE AudioStart
    <3>1. life["audio"] = "open"
      BY <2>2 DEF AudioStart, StartCall
    <3> QED
      BY <2>2, <3>1, UsbAssumption DEF UsbAssumption, AudioStart, CountInv, SlotsInv, Fresh, Open
  <2> QED
    BY <2>1, <2>2
<1>2. /\ xfer'[u] = [i \in Transfers(u) |-> "ready"] /\ active'[u] = 0
      /\ pc'[u] = "submit" /\ life'[u] \in {"used", "half"} /\ cb' = cb /\ cursor' = cursor
      /\ raced' = raced \ {u}
  BY <1>1 DEF StartCall, Allocate, Goto, UsbType, FlagsOK, XferOK
<1>3. \A v \in Users \ {u} : /\ xfer'[v] = xfer[v] /\ active'[v] = active[v]
                             /\ pc'[v] = pc[v] /\ life'[v] = life[v]
  BY <1>1 DEF StartCall, Allocate, Goto, UsbType, FlagsOK, XferOK
<1>4. InFlight(u)' = {} /\ \A v \in Users \ {u} : InFlight(v)' = InFlight(v)
  BY <1>2, <1>3 DEF InFlight, Transfers
<1>5. SlotsInv'
  <2>1. \A v \in Users : Fresh(v)' => InFlight(v)' = {} /\ cb'.user # v
    BY <1>2, <1>3, <1>4 DEF CountInv, SlotsInv, Fresh
  <2>2. cb' # NoCb => cb'.user \in Users \ {u} /\ cb'.id \in Transfers(cb'.user)
                      /\ (cb'.at # "count" => xfer'[cb'.user][cb'.id] = "callback")
    BY <1>1, <1>2, <1>3 DEF CountInv, SlotsInv
  <2>3. \A v \in Users : pc'[v] \in {"submit", "count"} => life'[v] \in {"used", "half"}
    BY <1>2, <1>3 DEF CountInv, SlotsInv
  <2>4. \A v \in Users : pc'[v] = "submit" =>
          \A i \in Transfers(v) : i >= cursor'[v] => xfer'[v][i] = "ready"
    BY <1>2, <1>3 DEF CountInv, SlotsInv
  <2>5. \A v \in Users : pc'[v] = "count" =>
          \A i \in Transfers(v) : i > cursor'[v] => xfer'[v][i] = "ready"
    BY <1>2, <1>3 DEF CountInv, SlotsInv
  <2> QED
    BY <2>1, <2>2, <2>3, <2>4, <2>5 DEF SlotsInv, Transfers
<1>6. CountExact'
  <2>1. Cardinality(InFlight(u)') = 0
    BY <1>4, FS_EmptySet
  <2>2. \A v \in Users \ {u} : v \notin raced' =>
          Cardinality(InFlight(v)') =
            active'[v] + One(pc'[v] = "count") + One(cb'.user = v /\ cb'.at = "count")
    BY <1>2, <1>3, <1>4 DEF CountInv, CountExact, One
  <2>3. Cardinality(InFlight(u)') =
          active'[u] + One(pc'[u] = "count") + One(cb'.user = u /\ cb'.at = "count")
    BY <1>1, <1>2, <2>1 DEF One
  <2> QED
    BY <2>2, <2>3 DEF CountExact, One
<1> QED
  BY <1>5, <1>6 DEF CountInv

\* start submits a transfer and counts it.
LEMMA CountSubmit ==
  ASSUME UsbType, CountInv, NEW u \in Users, Submit(u) PROVE CountInv'
<1> DEFINE k == cursor[u]
<1>1. /\ k \in Transfers(u) /\ k \in Nat /\ xfer[u][k] = "ready"
      /\ pc[u] = "submit" /\ life[u] \in {"used", "half"}
  BY DEF Submit, CountInv, SlotsInv, UsbType, XferOK
<1>2. UNCHANGED <<active, raced, cb, life>> /\ \A v \in Users \ {u} : pc'[v] = pc[v] /\ cursor'[v] = cursor[v]
  BY DEF Submit, Goto, UsbType, FlagsOK, XferOK
<1>3. \/ pc'[u] = "count" /\ cursor' = cursor /\ xfer' = [xfer EXCEPT ![u][k] = "flight"]
      \/ pc'[u] = "idle" /\ xfer' = [xfer EXCEPT ![u][k] = "null"]
  BY DEF Submit, Goto, UsbType, FlagsOK
<1> HIDE DEF k
<1>4. PICK x \in {"flight", "null"} :
        /\ xfer' = [xfer EXCEPT ![u][k] = x]
        /\ pc'[u] = (IF x = "flight" THEN "count" ELSE "idle")
        /\ x = "flight" => cursor' = cursor
  BY <1>3
<1>5. /\ \A v \in Users \ {u} : xfer'[v] = xfer[v] /\ InFlight(v)' = InFlight(v)
      /\ xfer'[u] = [xfer[u] EXCEPT ![k] = x]
      /\ x = "flight" => Cardinality(InFlight(u)') = Cardinality(InFlight(u)) + 1
      /\ x = "null" => InFlight(u)' = InFlight(u)
  BY <1>1, <1>4, FlightChanges DEF TransferStates
<1>6. \A i \in Transfers(u) \ {k} : xfer'[u][i] = xfer[u][i]
  BY <1>5 DEF UsbType, XferOK
<1>7. SlotsInv'
  <2>1. \A v \in Users : Fresh(v)' => InFlight(v)' = {} /\ cb'.user # v
    BY <1>1, <1>2, <1>5 DEF CountInv, SlotsInv, Fresh
  <2>2. pc'[u] = "count" => \A i \in Transfers(u) : i > cursor'[u] => xfer'[u][i] = "ready"
    BY <1>1, <1>4, <1>6 DEF CountInv, SlotsInv, Transfers, k
  <2>3. cb' # NoCb => cb'.user \in Users /\ cb'.id \in Transfers(cb'.user)
                      /\ (cb'.at # "count" => xfer'[cb'.user][cb'.id] = "callback")
    <3> SUFFICES ASSUME cb # NoCb
                 PROVE  /\ cb.user \in Users /\ cb.id \in Transfers(cb.user)
                        /\ cb.at # "count" => xfer'[cb.user][cb.id] = "callback"
      BY <1>2
    <3>1. /\ cb.user \in Users /\ cb.id \in Transfers(cb.user)
          /\ cb.at # "count" => xfer[cb.user][cb.id] = "callback"
      BY DEF CountInv, SlotsInv
    <3>2. CASE cb.user = u
      BY <3>1, <3>2, <1>1, <1>6
    <3>3. CASE cb.user # u
      BY <3>1, <3>3, <1>5
    <3> QED
      BY <3>2, <3>3
  <2> QED
    BY <1>1, <1>2, <1>4, <1>5, <2>1, <2>2, <2>3 DEF CountInv, SlotsInv, Transfers
<1>8. CountExact'
  <2>1. \A v \in Users \ {u} : v \notin raced' =>
          Cardinality(InFlight(v)') =
            active'[v] + One(pc'[v] = "count") + One(cb'.user = v /\ cb'.at = "count")
    BY <1>2, <1>5 DEF CountInv, CountExact, One
  <2>2. u \notin raced' =>
          Cardinality(InFlight(u)') =
            active'[u] + One(pc'[u] = "count") + One(cb'.user = u /\ cb'.at = "count")
    <3>1. active[u] \in Int
      BY DEF UsbType, FlagsOK
    <3> QED
      BY <3>1, <1>1, <1>2, <1>4, <1>5 DEF CountInv, CountExact, One
  <2> QED
    BY <2>1, <2>2 DEF CountExact, One
<1> QED
  BY <1>7, <1>8 DEF CountInv

\* Counting a submitted transfer settles the one that is uncounted.
LEMMA CountCount ==
  ASSUME UsbType, CountInv, NEW u \in Users, Count(u) PROVE CountInv'
<1>1. pc[u] = "count" /\ UNCHANGED <<xfer, cb, life>> /\ active[u] \in Int /\ cursor[u] \in Transfers(u)
  BY DEF Count, UsbType, FlagsOK, XferOK
<1>2. \A v \in Users \ {u} : pc'[v] = pc[v] /\ cursor'[v] = cursor[v] /\ active'[v] = active[v]
  BY DEF Count, Goto, UsbType, FlagsOK, XferOK
<1>3. \/ pc'[u] = "idle"
      \/ pc'[u] = "submit" /\ cursor'[u] = cursor[u] + 1
  BY DEF Count, Goto, UsbType, FlagsOK, XferOK
<1>4. \/ active'[u] = active[u] + 1 /\ raced' = raced
      \/ raced' = raced \cup {u}
  BY DEF Count, UsbType, FlagsOK
<1>5. \A v \in Users : InFlight(v)' = InFlight(v)
  BY <1>1 DEF InFlight, Transfers
<1>6. SlotsInv'
  <2>1. pc'[u] = "submit" => \A i \in Transfers(u) : i >= cursor'[u] => xfer'[u][i] = "ready"
    BY <1>1, <1>3 DEF CountInv, SlotsInv, Transfers
  <2> QED
    BY <1>1, <1>2, <1>3, <1>5, <2>1 DEF CountInv, SlotsInv, Fresh, Transfers
<1>7. CountExact'
  <2>1. \A v \in Users \ {u} : v \notin raced' =>
          Cardinality(InFlight(v)') =
            active'[v] + One(pc'[v] = "count") + One(cb'.user = v /\ cb'.at = "count")
    BY <1>1, <1>2, <1>4, <1>5 DEF CountInv, CountExact, One
  <2>2. u \notin raced' =>
          Cardinality(InFlight(u)') =
            active'[u] + One(pc'[u] = "count") + One(cb'.user = u /\ cb'.at = "count")
    BY <1>1, <1>3, <1>4, <1>5 DEF CountInv, CountExact, One
  <2> QED
    BY <2>1, <2>2 DEF CountExact, One
<1> QED
  BY <1>6, <1>7 DEF CountInv

\* A transfer ends: its callback is entered.
LEMMA CountEnter ==
  ASSUME UsbType, CountInv, NEW u \in Users, NEW i \in Transfers(u), Enter(u, i) PROVE CountInv'
<1>1. /\ cb = NoCb /\ xfer[u][i] = "flight" /\ xfer' = [xfer EXCEPT ![u][i] = "callback"]
      /\ UNCHANGED <<pc, life, cursor>>
      /\ cb'.user = u /\ cb'.id = i /\ cb'.at = "entered"
  BY DEF Enter
<1>2. \/ active' = [active EXCEPT ![u] = @ - 1] /\ raced' = raced
      \/ raced' = raced \cup {u} /\ active' = active
  BY DEF Enter
<1>3. /\ \A v \in Users \ {u} : xfer'[v] = xfer[v] /\ InFlight(v)' = InFlight(v)
      /\ xfer'[u] = [xfer[u] EXCEPT ![i] = "callback"]
      /\ Cardinality(InFlight(u)') = Cardinality(InFlight(u)) - 1
  BY <1>1, FlightChanges DEF TransferStates
<1>4. xfer'[u][i] = "callback" /\ \A j \in Transfers(u) \ {i} : xfer'[u][j] = xfer[u][j]
  BY <1>3 DEF UsbType, XferOK
<1>5. ~Fresh(u) /\ i \in InFlight(u)
  BY <1>1 DEF CountInv, SlotsInv, InFlight
<1>6. SlotsInv'
  <2>1. \A v \in Users : Fresh(v)' => InFlight(v)' = {} /\ cb'.user # v
    BY <1>1, <1>3, <1>5 DEF CountInv, SlotsInv, Fresh
  <2>2. \A v \in Users : \A j \in Transfers(v) : xfer[v][j] = "ready" => xfer'[v][j] = "ready"
    BY <1>1, <1>3, <1>4
  <2> QED
    BY <1>1, <1>4, <2>1, <2>2 DEF CountInv, SlotsInv, Transfers
<1>7. CountExact'
  <2>1. \A v \in Users \ {u} : v \notin raced' =>
          Cardinality(InFlight(v)') =
            active'[v] + One(pc'[v] = "count") + One(cb'.user = v /\ cb'.at = "count")
    BY <1>1, <1>2, <1>3 DEF CountInv, CountExact, One, NoCb, UsbType, FlagsOK
  <2>2. u \notin raced' =>
          Cardinality(InFlight(u)') =
            active'[u] + One(pc'[u] = "count") + One(cb'.user = u /\ cb'.at = "count")
    <3>1. active[u] \in Int /\ Cardinality(InFlight(u)) \in Nat
      BY FlightFinite DEF UsbType, FlagsOK
    <3>2. u \notin raced' => u \notin raced /\ active'[u] = active[u] - 1
      BY <1>2 DEF UsbType, FlagsOK
    <3> QED
      BY <3>1, <3>2, <1>1, <1>3 DEF CountInv, CountExact, One, NoCb
  <2> QED
    BY <2>1, <2>2 DEF CountExact, One
<1> QED
  BY <1>6, <1>7 DEF CountInv

\* The callback frees its transfer, submits it again, or counts it.
LEMMA CountCallback ==
  ASSUME UsbType, CountInv, Callback PROVE CountInv'
<1>1. cb # NoCb /\ UNCHANGED <<pc, life, cursor, raced>>
  BY DEF Callback, CbStatus, CbHandled, CbResubmit, CbCount, NoCb
<1>2. PICK u \in Users, i \in Nat :
        /\ u = cb.user /\ i = cb.id /\ i \in Transfers(u) /\ ~Fresh(u)
        /\ cb.at # "count" => xfer[u][i] = "callback"
  <2>1. cb.user \in Users /\ cb.id \in Transfers(cb.user)
        /\ (cb.at # "count" => xfer[cb.user][cb.id] = "callback")
    BY <1>1 DEF CountInv, SlotsInv
  <2>2. cb.id \in Nat
    BY <2>1 DEF Transfers
  <2> QED
    BY <2>1, <2>2 DEF CountInv, SlotsInv
<1>3. cb \in [user : Users, id : Nat, status : Statuses,
              at : {"entered", "handled", "resubmit", "count"}]
  BY <1>1 DEF UsbType, CbOK
<1>4. \/ cb.at = "count" /\ cb' = NoCb /\ xfer' = xfer /\ active' = [active EXCEPT ![u] = @ + 1]
      \/ /\ cb.at # "count" /\ active' = active /\ cb' = NoCb
         /\ xfer' = [xfer EXCEPT ![u][i] = "null"]
      \/ /\ cb.at # "count" /\ active' = active /\ xfer' = xfer
         /\ \E l \in {"handled", "resubmit"} : cb' = [cb EXCEPT !.at = l]
      \/ /\ cb.at # "count" /\ active' = active /\ cb' = [cb EXCEPT !.at = "count"]
         /\ xfer' = [xfer EXCEPT ![u][i] = "flight"]
  BY <1>2, <1>3 DEF Callback, CbStatus, CbHandled, CbResubmit, CbCount, Free, CbGoto
<1>5. CASE cb.at = "count" /\ cb' = NoCb /\ xfer' = xfer /\ active' = [active EXCEPT ![u] = @ + 1]
  <2>1. \A v \in Users : InFlight(v)' = InFlight(v)
    BY <1>5 DEF InFlight, Transfers
  <2>2. SlotsInv'
    BY <1>1, <1>5, <2>1, UsbAssumption DEF UsbAssumption, CountInv, SlotsInv, Fresh, Transfers, NoCb
  <2>3. CountExact'
    BY <1>1, <1>2, <1>5, <2>1, UsbAssumption
    DEF UsbAssumption, CountInv, CountExact, One, NoCb, UsbType, FlagsOK
  <2> QED
    BY <2>2, <2>3 DEF CountInv
<1>6. CASE cb.at # "count" /\ active' = active /\ cb' = NoCb /\ xfer' = [xfer EXCEPT ![u][i] = "null"]
  <2>1. /\ \A v \in Users : InFlight(v)' = InFlight(v)
        /\ \A v \in Users \ {u} : xfer'[v] = xfer[v]
        /\ xfer'[u] = [xfer[u] EXCEPT ![i] = "null"]
    BY <1>2, <1>6, FlightChanges DEF TransferStates
  <2>2. \A v \in Users : \A j \in Transfers(v) : xfer[v][j] = "ready" => xfer'[v][j] = "ready"
    BY <1>2, <1>6, <2>1 DEF UsbType, XferOK
  <2>3. SlotsInv'
    BY <1>1, <1>6, <2>1, <2>2, UsbAssumption DEF UsbAssumption, CountInv, SlotsInv, Fresh, Transfers, NoCb
  <2>4. CountExact'
    BY <1>1, <1>6, <2>1 DEF CountInv, CountExact, One, NoCb
  <2> QED
    BY <2>3, <2>4 DEF CountInv
<1>7. ASSUME cb.at # "count", active' = active, xfer' = xfer,
             NEW l \in {"handled", "resubmit"}, cb' = [cb EXCEPT !.at = l]
      PROVE  CountInv'
  <2>1. \A v \in Users : InFlight(v)' = InFlight(v)
    BY <1>7 DEF InFlight, Transfers
  <2>2. cb'.user = cb.user /\ cb'.id = cb.id /\ cb'.at = l
    BY <1>3, <1>7
  <2>3. SlotsInv'
    BY <1>1, <1>2, <1>7, <2>1, <2>2 DEF CountInv, SlotsInv, Fresh, Transfers
  <2>4. CountExact'
    BY <1>1, <1>7, <2>1, <2>2 DEF CountInv, CountExact, One
  <2> QED
    BY <2>3, <2>4 DEF CountInv
<1>8. CASE cb.at # "count" /\ active' = active /\ cb' = [cb EXCEPT !.at = "count"]
           /\ xfer' = [xfer EXCEPT ![u][i] = "flight"]
  <2>1. /\ \A v \in Users \ {u} : xfer'[v] = xfer[v] /\ InFlight(v)' = InFlight(v)
        /\ xfer'[u] = [xfer[u] EXCEPT ![i] = "flight"]
        /\ Cardinality(InFlight(u)') = Cardinality(InFlight(u)) + 1
    <3>1. xfer[u][i] # "flight" /\ u \in Users /\ i \in Transfers(u)
      BY <1>2, <1>8
    <3>2. "flight" \in TransferStates /\ xfer' = [xfer EXCEPT ![u][i] = "flight"]
      BY <1>8 DEF TransferStates
    <3> QED
      BY <3>1, <3>2, FlightChanges
  <2>2. \A v \in Users : \A j \in Transfers(v) : xfer[v][j] = "ready" => xfer'[v][j] = "ready"
    BY <1>2, <1>8, <2>1 DEF UsbType, XferOK
  <2>3. cb'.user = u /\ cb'.id = i /\ cb'.at = "count"
    BY <1>2, <1>3, <1>8
  <2>4. SlotsInv'
    <3>1. \A v \in Users : Fresh(v)' => InFlight(v)' = {} /\ cb'.user # v
      BY <1>1, <1>2, <2>1, <2>3 DEF CountInv, SlotsInv, Fresh
    <3> QED
      BY <1>1, <1>2, <2>2, <2>3, <3>1 DEF CountInv, SlotsInv, Transfers
  <2>5. CountExact'
    <3>1. \A v \in Users \ {u} : v \notin raced' =>
            Cardinality(InFlight(v)') =
              active'[v] + One(pc'[v] = "count") + One(cb'.user = v /\ cb'.at = "count")
      BY <1>1, <1>8, <2>1, <2>3 DEF CountInv, CountExact, One
    <3>2. u \notin raced' =>
            Cardinality(InFlight(u)') =
              active'[u] + One(pc'[u] = "count") + One(cb'.user = u /\ cb'.at = "count")
      <4>1. active[u] \in Int
        BY <1>2 DEF UsbType, FlagsOK
      <4> QED
        BY <4>1, <1>1, <1>2, <1>8, <2>1, <2>3 DEF CountInv, CountExact, One
    <3>3. ASSUME NEW v \in Users, v \notin raced'
          PROVE  Cardinality(InFlight(v)') =
                   active'[v] + One(pc'[v] = "count") + One(cb'.user = v /\ cb'.at = "count")
      <4>1. CASE v = u
        BY <3>2, <3>3, <4>1
      <4>2. CASE v # u
        BY <3>1, <3>3, <4>2
      <4> QED
        BY <4>1, <4>2
    <3> QED
      BY <3>3 DEF CountExact, One
  <2> QED
    BY <2>4, <2>5 DEF CountInv
<1> QED
  BY <1>4, <1>5, <1>6, <1>7, <1>8

\* The slots that were never submitted are given up with the handle.
LEMMA CountClose ==
  ASSUME UsbType, CountInv, NEW u \in Users, Close(u) PROVE CountInv'
<1>1. /\ UNCHANGED <<active, cursor, raced, cb>> /\ pc[u] = "close"
      /\ pc'[u] = "idle" /\ life'[u] = "closed"
      /\ \A v \in Users \ {u} : pc'[v] = pc[v] /\ life'[v] = life[v]
  BY DEF Close, Goto, UsbType, FlagsOK
<1>2. \A v \in Users \ {u} : xfer'[v] = xfer[v]
  BY DEF Close, UsbType, XferOK
<1>3. \A i \in Transfers(u) : xfer'[u][i] = IF xfer[u][i] = "ready" THEN "null" ELSE xfer[u][i]
  BY DEF Close, UsbType, XferOK
<1>4. \A v \in Users : InFlight(v)' = InFlight(v)
  BY <1>2, <1>3 DEF InFlight, Transfers
<1>5. \A v \in Users : \A i \in Transfers(v) : xfer[v][i] = "callback" => xfer'[v][i] = "callback"
  BY <1>2, <1>3
<1>6. SlotsInv'
  BY <1>1, <1>2, <1>4, <1>5 DEF CountInv, SlotsInv, Fresh, Transfers
<1>7. CountExact'
  BY <1>1, <1>4 DEF CountInv, CountExact, One
<1> QED
  BY <1>6, <1>7 DEF CountInv

\* Every step keeps the counts of the streams none of whose updates was lost.
LEMMA CountNext ==
  ASSUME UsbType, PhaseInv, CountInv, Restarted \subseteq {"video"}, [Next]_vars
  PROVE  CountInv'
<1> USE UsbAssumption DEF UsbAssumption
<1>0. CASE UNCHANGED <<active, xfer, cursor, raced, cb, pc, life>>
  <2>1. \A v \in Users : InFlight(v)' = InFlight(v)
    BY <1>0 DEF InFlight, Transfers
  <2>2. SlotsInv'
    BY <1>0, <2>1 DEF CountInv, SlotsInv, Fresh, Transfers
  <2>3. CountExact'
    BY <1>0, <2>1 DEF CountInv, CountExact, One
  <2> QED
    BY <2>2, <2>3 DEF CountInv
<1>1. ASSUME NEW u \in Users, InitCall(u) PROVE CountInv'
  BY <1>1, CountKept DEF InitCall, Turn, StartEvents, Goto, Fresh, UsbType, FlagsOK
<1>2. ASSUME NEW u \in Users, StopCall(u) \/ DeinitCall(u) PROVE CountInv'
  <2>1. \E l \in {"wait", "cancel", "release", "unlisten"} : pc' = [pc EXCEPT ![u] = l]
    BY <1>2 DEF StopCall, DeinitCall, Stop, Goto
  <2>2. pc[u] = "idle" /\ UNCHANGED <<active, xfer, cursor, raced, cb, life>>
    BY <1>2 DEF StopCall, DeinitCall, Turn
  <2> QED
    BY <2>1, <2>2, CountKept DEF Fresh, UsbType, FlagsOK
<1>3. ASSUME NEW u \in Users, Listen(u) PROVE CountInv'
  <2>1. /\ pc[u] = "spawn" /\ pc' = [pc EXCEPT ![u] = "idle"]
        /\ \E l \in {"open", "failed"} : life' = [life EXCEPT ![u] = l]
    BY <1>3 DEF Listen, Spawn, SpawnFails, Goto
  <2>2. Fresh(u)
    BY <2>1 DEF PhaseInv, Fresh
  <2> QED
    BY <1>3, <2>1, <2>2, CountKept DEF Listen, UsbType, FlagsOK
<1>4. ASSUME NEW u \in Users, Waited(u) PROVE CountInv'
  <2>1. \E l \in {"idle", "release"} : pc' = [pc EXCEPT ![u] = l]
    BY <1>4 DEF Waited, Goto, UsbType, FlagsOK
  <2>2. pc[u] \in {"wait", "cancel"} /\ UNCHANGED <<active, xfer, cursor, raced, cb, life>>
    BY <1>4 DEF Waited
  <2> QED
    BY <2>1, <2>2, CountKept DEF Fresh, UsbType, FlagsOK
<1>5. ASSUME NEW u \in Users, Unlisten(u) PROVE CountInv'
  <2>1. \E l \in {"join", "close"} : pc' = [pc EXCEPT ![u] = l]
    BY <1>5 DEF Unlisten, StopEvents, Join, Goto
  <2>2. pc[u] \in {"unlisten", "join"} /\ UNCHANGED <<active, xfer, cursor, raced, cb, life>>
    BY <1>5 DEF Unlisten, Join, local
  <2> QED
    BY <2>1, <2>2, CountKept DEF Fresh, UsbType, FlagsOK
<1>7. ASSUME NEW u \in Users, Release(u) PROVE CountInv'
  <2>1. /\ pc[u] = "release" /\ UNCHANGED <<active, xfer, cursor, raced, cb>>
        /\ \E l \in {"idle", "unlisten"} : pc' = [pc EXCEPT ![u] = l]
        /\ UNCHANGED life \/ life' = [life EXCEPT ![u] = "half"]
    BY <1>7 DEF Release, Goto
  <2>2. Fresh(u)' => Fresh(u)
    BY <2>1 DEF Fresh, UsbType, FlagsOK
  <2> QED
    BY <2>1, <2>2, CountKept DEF UsbType, FlagsOK
<1>6. CASE Unplug \/ (\E u \in Users : Removed(u)) \/ (\E t \in Threads : EventLoop(t) \/ EventLoopError(t))
           \/ UNCHANGED vars
  BY <1>0, <1>6 DEF Unplug, Removed, EventLoop, EventLoopError, local, vars
<1> QED
  BY <1>1, <1>2, <1>3, <1>4, <1>5, <1>6, <1>7,
     CountStart, CountSubmit, CountCount, CountEnter, CountCallback, CountClose
  DEF Next, Calls, AppStep, VideoInit, VideoStop, VideoDeinit,
      AudioInit, AudioStop, AudioDeinit, VideoCallback, AudioCallback

\* For every number of transfers and whatever fails, active_transfers is the
\* number in flight (less the one about to be counted) of each stream none of
\* whose updates was lost: what stop waits for (uvc.c:837-1023, 1722-1789).
THEOREM CountIsExact ==
  ASSUME Restarted \subseteq {"video"} PROVE Spec => []CountExact
<1>1. Init => UsbType /\ PhaseInv /\ ContextInv /\ CountInv
  BY UsbTypeInit, ContextInit, CountInit
<1>2. UsbType /\ PhaseInv /\ ContextInv /\ CountInv /\ [Next]_vars
        => (UsbType /\ PhaseInv /\ ContextInv /\ CountInv)'
  BY UsbTypeNext, ContextNext, CountNext
<1>3. CountInv => CountExact
  BY DEF CountInv
<1> QED
  BY <1>1, <1>2, <1>3, PTL DEF Spec

(***************************************************************************)
(* What stop promises in UsbStreaming: the stream is quiet when it         *)
(* returns. The count it waits for is exact (CountIsExact) and yet         *)
(* not enough: the transfer of a callback that has passed its test of      *)
(* started is in no count. That the count cannot be zero then is due to    *)
(* the other transfers, which are all in flight, because a stream that has *)
(* started keeps every transfer until it is stopped.                       *)
(***************************************************************************)

\* No fault takes a transfer away from a running stream.
KeepsTransfers == "submit" \notin Faults /\ "error" \notin Faults

\* start has yet to submit transfer j.
ReadyAhead(u, j) ==
  (pc[u] = "submit" /\ j >= cursor[u]) \/ (pc[u] = "count" /\ j > cursor[u])

Past(u) == cb.user = u /\ cb.at \in {"resubmit", "count"}

StartedInv ==
  \A u \in Users :
    /\ pc[u] \in {"submit", "count"} => started[u]
    /\ pc[u] \in {"wait", "cancel"} => ~started[u]
    /\ pc[u] \notin {"submit", "count"} => cursor[u] = 1

SlotOfCallback ==
  \A u \in Users : \A j \in Transfers(u) :
    xfer[u][j] = "callback" => cb.user = u /\ cb.id = j /\ cb.at # "count"

CbQuiet ==
  /\ cb.status \notin {"nodev", "error"}
  /\ cb.status = "cancelled" => cb.at = "entered" /\ ~started[cb.user]

AllKept(u) ==
  started[u] => \A j \in Transfers(u) : xfer[u][j] \in {"flight", "callback"} \/ ReadyAhead(u, j)

OthersFly(u) ==
  Past(u) =>
    /\ \A j \in Transfers(u) \ {cb.id} : xfer[u][j] = "flight" \/ ReadyAhead(u, j)
    /\ cb.at = "count" => xfer[u][cb.id] = "flight"

Quiet(u) ==
  /\ pc[u] \in {"release", "unlisten", "join", "close"} => ~started[u]
  /\ u \notin raced /\ NumTransfers[u] > 1 /\ ~started[u] /\ pc[u] \notin {"wait", "cancel"}
       => InFlight(u) = {} /\ ~Past(u)

StreamInv ==
  /\ StartedInv /\ SlotOfCallback
  /\ ~unplugged =>
       /\ CbQuiet
       /\ \A u \in Users : ~disconnected[u] /\ AllKept(u) /\ OthersFly(u) /\ Quiet(u)

\* No stream is started at first.
LEMMA StreamInit == Init => StreamInv
<1> SUFFICES ASSUME Init PROVE StreamInv
  OBVIOUS
<1>1. /\ cb = NoCb /\ \A u \in Users : cursor[u] = 1
      /\ \A u \in Users : pc[u] = "idle" /\ ~started[u] /\ ~disconnected[u]
      /\ \A u \in Users : \A j \in Transfers(u) : xfer[u][j] = "null"
  BY DEF Init
<1>2. \A u \in Users : InFlight(u) = {} /\ ~Past(u)
  BY <1>1 DEF InFlight, Past, NoCb
<1> QED
  BY <1>1, <1>2 DEF StreamInv, StartedInv, SlotOfCallback, CbQuiet, AllKept, OthersFly, Quiet, NoCb

\* A step of u outside start that leaves the transfers, the callback and the
\* count alone; what it has to show is that a call that ends leaves u quiet.
LEMMA StreamKept ==
  ASSUME UsbType, StreamInv, NEW u \in Users,
         UNCHANGED <<active, xfer, cursor, raced, cb, unplugged>>,
         \A v \in Users \ {u} : pc'[v] = pc[v] /\ started'[v] = started[v]
                                /\ disconnected'[v] = disconnected[v],
         pc[u] \notin {"submit", "count"} /\ pc'[u] \notin {"submit", "count"},
         disconnected'[u] = disconnected[u] \/ ~disconnected'[u],
         started'[u] => started[u] /\ pc'[u] \notin {"wait", "cancel"},
         ~unplugged => Quiet(u)'
  PROVE  StreamInv'
<1>1. \A v \in Users \ {u} : InFlight(v)' = InFlight(v) /\ (Past(v)' <=> Past(v))
  BY DEF InFlight, Past, Transfers
<1>2. StartedInv' /\ SlotOfCallback'
  BY DEF StreamInv, StartedInv, SlotOfCallback, Transfers
<1>3. ASSUME ~unplugged
      PROVE  CbQuiet' /\ \A v \in Users : ~disconnected'[v] /\ AllKept(v)' /\ OthersFly(v)' /\ Quiet(v)'
  <2>1. CbQuiet'
    <3>1. cb.status = "cancelled" => cb.user \in Users
      BY DEF UsbType, CbOK, NoCb
    <3> QED
      BY <3>1, <1>3 DEF StreamInv, CbQuiet
  <2>2. \A v \in Users : AllKept(v)'
    BY <1>3 DEF StreamInv, AllKept, ReadyAhead, Transfers
  <2>3. \A v \in Users : OthersFly(v)'
    BY <1>3 DEF StreamInv, OthersFly, Past, ReadyAhead, Transfers
  <2>4. \A v \in Users : Quiet(v)'
    BY <1>3, <1>1 DEF StreamInv, Quiet
  <2> QED
    BY <1>3, <2>1, <2>2, <2>3, <2>4 DEF StreamInv
<1> QED
  BY <1>2, <1>3 DEF StreamInv

\* start has yet to submit every transfer of its stream.
LEMMA StreamStart ==
  ASSUME UsbType, CountInv, StreamInv, NEW u \in Users, StartCall(u), cb.user # u
  PROVE  StreamInv'
<1>1. /\ xfer'[u] = [i \in Transfers(u) |-> "ready"] /\ pc'[u] = "submit" /\ started'[u] = TRUE
      /\ cb' = cb /\ cursor' = cursor /\ raced' = raced \ {u} /\ ~unplugged'
      /\ UNCHANGED <<disconnected, unplugged>>
  BY DEF StartCall, Allocate, Goto, UsbType, FlagsOK, XferOK
<1>2. \A v \in Users \ {u} : xfer'[v] = xfer[v] /\ pc'[v] = pc[v] /\ started'[v] = started[v]
  BY DEF StartCall, Allocate, Goto, UsbType, FlagsOK, XferOK
<1>3. cursor[u] \in Nat /\ cursor[u] \in Transfers(u)
  BY DEF UsbType, XferOK
<1>4. StartedInv'
  BY <1>1, <1>2 DEF StreamInv, StartedInv
<1>5. SlotOfCallback'
  <2>1. \A j \in Transfers(u) : xfer'[u][j] # "callback"
    BY <1>1
  <2>2. \A v \in Users \ {u} : \A j \in Transfers(v) :
          xfer'[v][j] = "callback" => cb'.user = v /\ cb'.id = j /\ cb'.at # "count"
    BY <1>1, <1>2 DEF StreamInv, SlotOfCallback
  <2> QED
    BY <2>1, <2>2 DEF SlotOfCallback, Transfers
<1>6. CbQuiet'
  <2>1. cb.status = "cancelled" => cb.user \in Users
    BY DEF UsbType, CbOK, NoCb
  <2> QED
    BY <2>1, <1>1, <1>2 DEF StreamInv, CbQuiet
<1>7. ~disconnected'[u] /\ AllKept(u)' /\ OthersFly(u)' /\ Quiet(u)'
  <2>1. pc[u] \notin {"submit", "count"} /\ ~disconnected[u]
    BY DEF StartCall, Turn
  <2>2. cursor'[u] = 1
    BY <1>1, <2>1 DEF StreamInv, StartedInv
  <2>3. AllKept(u)'
    BY <1>1, <2>2 DEF AllKept, ReadyAhead, Transfers
  <2> QED
    BY <1>1, <2>1, <2>3 DEF OthersFly, Past, Quiet
<1>8. ~unplugged
  BY DEF StartCall
<1>9. \A v \in Users \ {u} : ~disconnected'[v] /\ AllKept(v)' /\ OthersFly(v)' /\ Quiet(v)'
  BY <1>1, <1>2, <1>8 DEF StreamInv, AllKept, OthersFly, Quiet, Past, InFlight, ReadyAhead, Transfers
<1> QED
  BY <1>4, <1>5, <1>6, <1>7, <1>9 DEF StreamInv

\* start submits a transfer.
LEMMA StreamSubmit ==
  ASSUME KeepsTransfers, UsbType, CountInv, StreamInv, NEW u \in Users, Submit(u) PROVE StreamInv'
<1> USE DEF KeepsTransfers
<1>1. cursor[u] \in Transfers(u) /\ cursor[u] \in Nat /\ pc[u] = "submit"
  BY DEF Submit, UsbType, XferOK
<1>2. PICK k \in Transfers(u) : k = cursor[u]
  BY <1>1
<1>3. UNCHANGED <<started, disconnected, active, raced, cb, unplugged>>
      /\ \A v \in Users \ {u} : pc'[v] = pc[v] /\ cursor'[v] = cursor[v]
  BY DEF Submit, Goto, UsbType, FlagsOK, XferOK
<1>4. \/ ~unplugged /\ pc'[u] = "count" /\ cursor' = cursor /\ xfer' = [xfer EXCEPT ![u][k] = "flight"]
      \/ unplugged /\ pc'[u] = "idle" /\ cursor'[u] = 1 /\ xfer' = [xfer EXCEPT ![u][k] = "null"]
  BY <1>2 DEF Submit, Goto, UsbType, FlagsOK, XferOK
<1>5. xfer[u][k] = "ready"
  BY <1>1, <1>2 DEF CountInv, SlotsInv
<1>6. started[u]
  BY <1>1 DEF StreamInv, StartedInv
<1>7. /\ \A v \in Users \ {u} : xfer'[v] = xfer[v] /\ InFlight(v)' = InFlight(v)
      /\ \A j \in Transfers(u) \ {k} : xfer'[u][j] = xfer[u][j]
      /\ xfer'[u][k] # "callback"
      /\ ~unplugged => xfer'[u][k] = "flight"
  <2>1. \E x \in {"flight", "null"} : xfer' = [xfer EXCEPT ![u][k] = x] /\ (~unplugged => x = "flight")
    BY <1>4
  <2>2. PICK x \in {"flight", "null"} : xfer' = [xfer EXCEPT ![u][k] = x] /\ (~unplugged => x = "flight")
    BY <2>1
  <2>3. x \in TransferStates
    BY DEF TransferStates
  <2>4. /\ \A v \in Users \ {u} : xfer'[v] = xfer[v] /\ InFlight(v)' = InFlight(v)
        /\ xfer'[u] = [xfer[u] EXCEPT ![k] = x]
    BY <2>2, <2>3, FlightChanges
  <2> QED
    BY <2>2, <2>4 DEF UsbType, XferOK
<1>8. StartedInv'
  BY <1>3, <1>4, <1>6 DEF StreamInv, StartedInv
<1>9. SlotOfCallback'
  BY <1>3, <1>7 DEF StreamInv, SlotOfCallback, Transfers
<1>10. ASSUME ~unplugged
       PROVE  CbQuiet' /\ \A v \in Users : ~disconnected'[v] /\ AllKept(v)' /\ OthersFly(v)' /\ Quiet(v)'
  <2>1. CbQuiet'
    BY <1>3, <1>10 DEF StreamInv, CbQuiet
  <2>2. pc'[u] = "count" /\ cursor' = cursor
    BY <1>4, <1>10
  <2>3. \A j \in Transfers(u) \ {k} : ReadyAhead(u, j) => ReadyAhead(u, j)'
    BY <1>1, <1>2, <2>2 DEF ReadyAhead, Transfers
  <2>4. AllKept(u)' /\ OthersFly(u)' /\ Quiet(u)'
    <3>1. AllKept(u)'
      BY <1>3, <1>6, <1>7, <1>10, <2>3 DEF StreamInv, AllKept, Transfers
    <3>2. Quiet(u)'
      BY <1>3, <1>6, <2>2 DEF Quiet
    <3>3. ASSUME Past(u), cb.at = "count" PROVE xfer'[u][cb.id] = "flight"
      <4>1. xfer[u][cb.id] = "flight" /\ cb.id \in Transfers(u)
        BY <1>10, <3>3 DEF StreamInv, OthersFly, CountInv, SlotsInv, Past, NoCb
      <4> QED
        BY <4>1, <1>5, <1>7
    <3>4. ASSUME Past(u), NEW j \in Transfers(u) \ {cb.id}
          PROVE  xfer'[u][j] = "flight" \/ ReadyAhead(u, j)'
      BY <1>7, <1>10, <2>3, <3>4 DEF StreamInv, OthersFly
    <3>5. OthersFly(u)'
      BY <1>3, <3>3, <3>4 DEF OthersFly, Past, Transfers
    <3> QED
      BY <3>1, <3>2, <3>5
  <2>5. \A v \in Users \ {u} : AllKept(v)' /\ OthersFly(v)' /\ Quiet(v)'
    BY <1>3, <1>7, <1>10 DEF StreamInv, AllKept, OthersFly, Quiet, Past, ReadyAhead, Transfers
  <2> QED
    BY <1>3, <1>10, <2>1, <2>4, <2>5 DEF StreamInv
<1> QED
  BY <1>3, <1>8, <1>9, <1>10 DEF StreamInv

\* Counting a transfer leaves every transfer where it is.
LEMMA StreamCount ==
  ASSUME UsbType, StreamInv, NEW u \in Users, Count(u) PROVE StreamInv'
<1>1. UNCHANGED <<started, disconnected, xfer, cb, unplugged>> /\ pc[u] = "count"
      /\ \A v \in Users \ {u} : pc'[v] = pc[v] /\ cursor'[v] = cursor[v]
  BY DEF Count, Goto, UsbType, FlagsOK, XferOK
<1>2. cursor[u] \in Nat /\ cursor[u] \in Transfers(u) /\ NumTransfers[u] \in Nat
  BY UsbAssumption DEF UsbAssumption, UsbType, XferOK
<1>3. \/ pc'[u] = "idle" /\ cursor[u] = NumTransfers[u] /\ cursor'[u] = 1
      \/ pc'[u] = "submit" /\ cursor'[u] = cursor[u] + 1
  BY DEF Count, Goto, UsbType, FlagsOK, XferOK
<1>4. raced \subseteq raced' /\ \A v \in Users \ {u} : v \in raced' => v \in raced
  BY DEF Count
<1>5. started[u]
  BY <1>1 DEF StreamInv, StartedInv
<1>6. \A j \in Transfers(u) : ReadyAhead(u, j) => ReadyAhead(u, j)'
  BY <1>1, <1>2, <1>3 DEF ReadyAhead, Transfers
<1>7. StartedInv' /\ SlotOfCallback'
  BY <1>1, <1>3, <1>5 DEF StreamInv, StartedInv, SlotOfCallback, Transfers
<1>8. ASSUME ~unplugged
      PROVE  CbQuiet' /\ \A v \in Users : ~disconnected'[v] /\ AllKept(v)' /\ OthersFly(v)' /\ Quiet(v)'
  <2>1. CbQuiet'
    BY <1>1, <1>8 DEF StreamInv, CbQuiet
  <2>2. AllKept(u)' /\ OthersFly(u)' /\ Quiet(u)'
    BY <1>1, <1>3, <1>5, <1>6, <1>8 DEF StreamInv, AllKept, OthersFly, Quiet, Past, Transfers
  <2>3. \A v \in Users \ {u} : AllKept(v)' /\ OthersFly(v)' /\ Quiet(v)'
    BY <1>1, <1>4, <1>8 DEF StreamInv, AllKept, OthersFly, Quiet, Past, InFlight, ReadyAhead, Transfers
  <2> QED
    BY <1>1, <1>8, <2>1, <2>2, <2>3 DEF StreamInv
<1> QED
  BY <1>1, <1>7, <1>8 DEF StreamInv

\* stop returns: were a callback past its test, the others would be in flight.
LEMMA StreamWaited ==
  ASSUME UsbType, CountInv, StreamInv, NEW u \in Users, Waited(u) PROVE StreamInv'
<1>1. /\ UNCHANGED <<active, xfer, cursor, raced, cb, unplugged, started, disconnected>>
      /\ pc[u] \in {"wait", "cancel"} /\ active[u] = 0 /\ pc'[u] \in {"idle", "release"}
      /\ \A v \in Users \ {u} : pc'[v] = pc[v]
  BY DEF Waited, Goto, UsbType, FlagsOK
<1>2. ~started[u]
  BY <1>1 DEF StreamInv, StartedInv
<1>3. ASSUME ~unplugged, u \notin raced, NumTransfers[u] > 1 PROVE InFlight(u) = {} /\ ~Past(u)
  <2>1. Cardinality(InFlight(u)) = One(cb.user = u /\ cb.at = "count")
    BY <1>1, <1>3 DEF CountInv, CountExact, One
  <2>2. ASSUME Past(u) PROVE FALSE
    <3>1. cb.id \in Transfers(u)
      BY <2>2 DEF CountInv, SlotsInv, Past, NoCb
    <3>2. PICK j \in Transfers(u) : j # cb.id
      <4>1. 1 \in Transfers(u) /\ 2 \in Transfers(u)
        BY <1>3, UsbAssumption DEF UsbAssumption, Transfers
      <4> QED
        BY <4>1
    <3>3. j \in InFlight(u)
      BY <1>1, <1>3, <2>2, <3>2 DEF StreamInv, OthersFly, ReadyAhead, InFlight
    <3>4. cb.at = "count"
      <4>1. InFlight(u) # {}
        BY <3>3
      <4>2. Cardinality(InFlight(u)) # 0
        BY <4>1, FlightFinite, FS_EmptySet
      <4> QED
        BY <2>1, <4>2 DEF One
    <3>5. cb.id \in InFlight(u)
      BY <1>3, <2>2, <3>1, <3>4 DEF StreamInv, OthersFly, InFlight
    <3>6. Cardinality(InFlight(u)) = 1
      BY <2>1, <2>2, <3>4 DEF One, Past
    <3> QED
      BY <3>2, <3>3, <3>5, <3>6, FlightFinite, FS_Singleton
  <2>3. InFlight(u) = {}
    <3>1. Cardinality(InFlight(u)) = 0
      BY <2>1, <2>2 DEF One, Past
    <3> QED
      BY <3>1, FlightFinite, FS_EmptySet
  <2> QED
    BY <2>2, <2>3
<1>4. ~unplugged => Quiet(u)'
  <2>1. InFlight(u)' = InFlight(u) /\ (Past(u)' <=> Past(u))
    BY <1>1 DEF InFlight, Past, Transfers
  <2> QED
    BY <1>1, <1>2, <1>3, <2>1 DEF Quiet
<1> QED
  BY <1>1, <1>2, <1>4, StreamKept

\* A transfer ends.
LEMMA StreamEnter ==
  ASSUME KeepsTransfers, UsbType, CountInv, StreamInv, NEW u \in Users, NEW i \in Transfers(u), Enter(u, i)
  PROVE  StreamInv'
<1> USE DEF KeepsTransfers
<1>1. /\ cb = NoCb /\ xfer[u][i] = "flight" /\ xfer' = [xfer EXCEPT ![u][i] = "callback"]
      /\ UNCHANGED <<pc, started, disconnected, cursor, unplugged>>
      /\ cb'.user = u /\ cb'.id = i /\ cb'.at = "entered" /\ EndsWith(u, cb'.status)
      /\ raced \subseteq raced'
  BY DEF Enter
<1>2. /\ \A v \in Users \ {u} : xfer'[v] = xfer[v] /\ InFlight(v)' = InFlight(v)
      /\ xfer'[u] = [xfer[u] EXCEPT ![i] = "callback"]
  BY <1>1, FlightChanges DEF TransferStates
<1>3. xfer'[u][i] = "callback" /\ \A j \in Transfers(u) \ {i} : xfer'[u][j] = xfer[u][j]
  BY <1>2 DEF UsbType, XferOK
<1>4. \A v \in Users : \A j \in Transfers(v) : xfer[v][j] # "callback"
  BY <1>1, UsbAssumption DEF UsbAssumption, StreamInv, SlotOfCallback, NoCb
<1>5. SlotOfCallback'
  BY <1>1, <1>2, <1>3, <1>4 DEF SlotOfCallback, Transfers
<1>6. StartedInv'
  BY <1>1 DEF StreamInv, StartedInv
<1>7. ASSUME ~unplugged
      PROVE  CbQuiet' /\ \A v \in Users : ~disconnected'[v] /\ AllKept(v)' /\ OthersFly(v)' /\ Quiet(v)'
  <2>1. cb'.status \notin {"nodev", "error"} /\ (cb'.status = "cancelled" => pc[u] = "cancel")
    BY <1>1, <1>7 DEF EndsWith
  <2>2. CbQuiet'
    BY <1>1, <2>1 DEF CbQuiet, StreamInv, StartedInv
  <2>3. \A v \in Users : ~Past(v)'
    BY <1>1 DEF Past
  <2>4. AllKept(u)'
    BY <1>1, <1>3, <1>7 DEF StreamInv, AllKept, ReadyAhead, Transfers
  <2>5. \A v \in Users \ {u} : AllKept(v)'
    BY <1>1, <1>2, <1>7 DEF StreamInv, AllKept, ReadyAhead, Transfers
  <2>6. Quiet(u)'
    <3>1. i \in InFlight(u)
      BY <1>1 DEF InFlight
    <3> QED
      BY <3>1, <1>1, <1>7 DEF StreamInv, Quiet
  <2>7. \A v \in Users \ {u} : Quiet(v)'
    BY <1>1, <1>2, <1>7, <2>3 DEF StreamInv, Quiet
  <2> QED
    BY <1>1, <1>7, <2>2, <2>3, <2>4, <2>5, <2>6, <2>7 DEF StreamInv, OthersFly
<1> QED
  BY <1>1, <1>5, <1>6, <1>7 DEF StreamInv

\* The callback: past its test it leaves the other transfers in flight, and it
\* frees its own only when the stream was stopped or the camera is gone.
LEMMA StreamCallback ==
  ASSUME KeepsTransfers, UsbType, CountInv, StreamInv, Callback PROVE StreamInv'
<1> USE DEF KeepsTransfers
<1>1. cb # NoCb /\ UNCHANGED <<pc, started, cursor, raced, unplugged>>
  BY DEF Callback, CbStatus, CbHandled, CbResubmit, CbCount, NoCb
<1>2. PICK u \in Users, i \in Nat :
        /\ u = cb.user /\ i = cb.id /\ i \in Transfers(u)
        /\ cb.at # "count" => xfer[u][i] = "callback"
  <2>1. /\ cb.user \in Users /\ cb.id \in Transfers(cb.user)
        /\ cb.at # "count" => xfer[cb.user][cb.id] = "callback"
    BY <1>1 DEF CountInv, SlotsInv
  <2>2. cb.id \in Nat
    BY <2>1 DEF Transfers
  <2> QED
    BY <2>1, <2>2
<1>3. cb \in [user : Users, id : Nat, status : Statuses,
              at : {"entered", "handled", "resubmit", "count"}]
  BY <1>1 DEF UsbType, CbOK
<1>4. ~unplugged => UNCHANGED disconnected
  <2>1. CASE CbStatus
    BY <1>1, <1>2, <2>1 DEF CbStatus, StreamInv, CbQuiet, UsbType, FlagsOK
  <2>2. CASE CbHandled \/ CbResubmit \/ CbCount
    BY <2>2 DEF CbHandled, CbResubmit, CbCount
  <2> QED
    BY <2>1, <2>2 DEF Callback
<1>5. StartedInv'
  BY <1>1 DEF StreamInv, StartedInv
<1>6. ASSUME cb' = NoCb, xfer' = [xfer EXCEPT ![u][i] = "null"], ~unplugged => ~started[u],
             cb.at # "count"
      PROVE  StreamInv'
  <2>1. /\ \A v \in Users \ {u} : xfer'[v] = xfer[v]
        /\ xfer'[u] = [xfer[u] EXCEPT ![i] = "null"]
        /\ \A v \in Users : InFlight(v)' = InFlight(v)
    <3>1. /\ \A v \in Users \ {u} : xfer'[v] = xfer[v] /\ InFlight(v)' = InFlight(v)
          /\ xfer'[u] = [xfer[u] EXCEPT ![i] = "null"]
          /\ InFlight(u)' = InFlight(u)
      BY <1>2, <1>6, FlightChanges DEF TransferStates
    <3> QED
      BY <3>1
  <2>2. xfer'[u][i] = "null" /\ \A j \in Transfers(u) \ {i} : xfer'[u][j] = xfer[u][j]
    BY <1>2, <2>1 DEF UsbType, XferOK
  <2>3. \A v \in Users : \A j \in Transfers(v) : xfer'[v][j] # "callback"
    <3>1. \A v \in Users \ {u} : \A j \in Transfers(v) : xfer'[v][j] # "callback"
      BY <1>2, <2>1 DEF StreamInv, SlotOfCallback
    <3>2. \A j \in Transfers(u) : xfer'[u][j] # "callback"
      BY <1>2, <2>2 DEF StreamInv, SlotOfCallback
    <3> QED
      BY <3>1, <3>2
  <2>4. SlotOfCallback'
    BY <2>3 DEF SlotOfCallback, Transfers
  <2>5. CbQuiet' /\ \A v \in Users : ~Past(v)'
    BY <1>6 DEF CbQuiet, Past, NoCb
  <2>6. ~unplugged => \A v \in Users : AllKept(v)' /\ Quiet(v)'
    BY <1>1, <1>6, <2>1, <2>5 DEF StreamInv, AllKept, Quiet, ReadyAhead, Transfers
  <2> QED
    BY <1>1, <1>4, <1>5, <2>4, <2>5, <2>6 DEF StreamInv, OthersFly
<1>7. ASSUME xfer' = xfer, NEW l \in {"handled", "resubmit"}, cb' = [cb EXCEPT !.at = l],
             cb.at # "count", ~unplugged => cb.status # "cancelled",
             ~unplugged /\ l = "resubmit" => started[u]
      PROVE  StreamInv'
  <2>1. cb'.user = u /\ cb'.id = i /\ cb'.at = l /\ cb'.status = cb.status
    BY <1>2, <1>3, <1>7
  <2>2. SlotOfCallback'
    BY <1>2, <1>7, <2>1 DEF StreamInv, SlotOfCallback, Transfers
  <2>3. ~unplugged => CbQuiet'
    BY <1>7, <2>1 DEF StreamInv, CbQuiet
  <2>4. \A v \in Users : InFlight(v)' = InFlight(v)
    BY <1>7 DEF InFlight, Transfers
  <2>5. \A v \in Users : Past(v)' => v = u /\ l = "resubmit"
    BY <2>1 DEF Past
  <2>6. ~unplugged => \A v \in Users : AllKept(v)' /\ Quiet(v)'
    BY <1>1, <1>7, <2>4, <2>5 DEF StreamInv, AllKept, Quiet, ReadyAhead, Transfers
  <2>7. ~unplugged => \A v \in Users : OthersFly(v)'
    <3>1. ASSUME ~unplugged, l = "resubmit"
          PROVE  \A j \in Transfers(u) \ {i} : xfer[u][j] = "flight" \/ ReadyAhead(u, j)
      BY <1>2, <1>7, <3>1 DEF StreamInv, AllKept, SlotOfCallback
    <3> QED
      BY <1>1, <1>7, <2>1, <2>5, <3>1 DEF OthersFly, ReadyAhead, Transfers
  <2> QED
    BY <1>1, <1>4, <1>5, <2>2, <2>3, <2>6, <2>7 DEF StreamInv
<1>8. ASSUME cb.at = "resubmit", cb' = [cb EXCEPT !.at = "count"],
             xfer' = [xfer EXCEPT ![u][i] = "flight"]
      PROVE  StreamInv'
  <2>1. /\ \A v \in Users \ {u} : xfer'[v] = xfer[v] /\ InFlight(v)' = InFlight(v)
        /\ xfer'[u] = [xfer[u] EXCEPT ![i] = "flight"]
    <3>1. "flight" \in TransferStates
      BY DEF TransferStates
    <3>2. i \in Transfers(u) /\ xfer' = [xfer EXCEPT ![u][i] = "flight"]
      BY <1>2, <1>8
    <3> QED
      BY <3>1, <3>2, FlightChanges
  <2>2. xfer'[u][i] = "flight" /\ \A j \in Transfers(u) \ {i} : xfer'[u][j] = xfer[u][j]
    BY <1>2, <2>1 DEF UsbType, XferOK
  <2>3. cb'.user = u /\ cb'.id = i /\ cb'.at = "count" /\ cb'.status = cb.status
    BY <1>2, <1>3, <1>8
  <2>4. \A v \in Users : \A j \in Transfers(v) : xfer'[v][j] # "callback"
    <3>1. \A v \in Users \ {u} : \A j \in Transfers(v) : xfer'[v][j] # "callback"
      BY <1>2, <2>1 DEF StreamInv, SlotOfCallback
    <3>2. \A j \in Transfers(u) : xfer'[u][j] # "callback"
      BY <1>2, <2>2 DEF StreamInv, SlotOfCallback
    <3> QED
      BY <3>1, <3>2
  <2>5. SlotOfCallback'
    BY <2>4 DEF SlotOfCallback, Transfers
  <2>6. \A v \in Users : Past(v)' <=> Past(v)
    BY <1>2, <1>8, <2>3 DEF Past
  <2>7. ~unplugged => CbQuiet'
    BY <1>8, <2>3 DEF StreamInv, CbQuiet
  <2>8. ~unplugged => \A v \in Users \ {u} : AllKept(v)' /\ Quiet(v)' /\ OthersFly(v)'
    BY <1>1, <1>2, <2>1, <2>3, <2>6 DEF StreamInv, AllKept, Quiet, OthersFly, Past, ReadyAhead, Transfers
  <2>9. ~unplugged => AllKept(u)' /\ OthersFly(u)' /\ Quiet(u)'
    <3>1. Past(u)
      BY <1>2, <1>8 DEF Past
    <3> QED
      BY <1>1, <1>2, <2>2, <2>3, <2>6, <3>1 DEF StreamInv, AllKept, Quiet, OthersFly, ReadyAhead, Transfers
  <2> QED
    BY <1>1, <1>4, <1>5, <2>5, <2>7, <2>8, <2>9 DEF StreamInv
<1>9. ASSUME cb.at = "count", cb' = NoCb, xfer' = xfer PROVE StreamInv'
  <2>1. SlotOfCallback'
    BY <1>9 DEF StreamInv, SlotOfCallback, Transfers
  <2>2. CbQuiet' /\ \A v \in Users : ~Past(v)'
    BY <1>9 DEF CbQuiet, Past, NoCb
  <2>3. \A v \in Users : InFlight(v)' = InFlight(v)
    BY <1>9 DEF InFlight, Transfers
  <2>4. ~unplugged => \A v \in Users : AllKept(v)' /\ Quiet(v)'
    BY <1>1, <1>9, <2>2, <2>3 DEF StreamInv, AllKept, Quiet, ReadyAhead, Transfers
  <2> QED
    BY <1>1, <1>4, <1>5, <2>1, <2>2, <2>4 DEF StreamInv, OthersFly
<1>10. CASE CbStatus
  <2>1. ~unplugged => cb.status \notin {"nodev", "error"}
    BY DEF StreamInv, CbQuiet
  <2>2. ~unplugged /\ cb.status = "cancelled" => ~started[u]
    BY <1>2 DEF StreamInv, CbQuiet
  <2>3. CASE cb.status \in {"cancelled", "nodev", "error"} \/ ~started[cb.user]
    <3>1. cb' = NoCb /\ xfer' = [xfer EXCEPT ![u][i] = "null"] /\ cb.at # "count"
      BY <1>2, <1>10, <2>3 DEF CbStatus, Free
    <3> QED
      BY <3>1, <2>1, <2>2, <2>3, <1>2, <1>6
  <2>4. CASE ~(cb.status \in {"cancelled", "nodev", "error"} \/ ~started[cb.user])
    <3>1. \E l \in {"handled", "resubmit"} : xfer' = xfer /\ cb' = [cb EXCEPT !.at = l]
      BY <1>10, <2>4 DEF CbStatus, CbGoto
    <3>2. started[u] /\ cb.status # "cancelled" /\ cb.at # "count"
      BY <1>2, <1>10, <2>4 DEF CbStatus
    <3> QED
      BY <3>1, <3>2, <1>7
  <2> QED
    BY <2>3, <2>4
<1>11. CASE CbHandled
  <2>1. cb.at # "count"
    BY <1>11 DEF CbHandled
  <2>2. CASE ~started[cb.user]
    <3>1. cb' = NoCb /\ xfer' = [xfer EXCEPT ![u][i] = "null"]
      BY <1>2, <1>11, <2>2 DEF CbHandled, Free
    <3> QED
      BY <3>1, <2>1, <2>2, <1>2, <1>6
  <2>3. CASE started[cb.user]
    <3>1. xfer' = xfer /\ cb' = [cb EXCEPT !.at = "resubmit"]
      BY <1>11, <2>3 DEF CbHandled, CbGoto
    <3>2. ~unplugged => cb.status # "cancelled"
      BY <1>11 DEF CbHandled, StreamInv, CbQuiet
    <3> QED
      BY <3>1, <3>2, <2>1, <2>3, <1>2, <1>7
  <2> QED
    BY <2>2, <2>3
<1>12. CASE CbResubmit
  <2>1. cb.at = "resubmit"
    BY <1>12 DEF CbResubmit
  <2>2. CASE ~unplugged /\ xfer' = [xfer EXCEPT ![cb.user][cb.id] = "flight"]
             /\ cb' = [cb EXCEPT !.at = "count"]
    BY <2>1, <2>2, <1>2, <1>8
  <2>3. CASE unplugged /\ Free
    <3>1. cb' = NoCb /\ xfer' = [xfer EXCEPT ![u][i] = "null"]
      BY <1>2, <2>3 DEF Free
    <3> QED
      BY <3>1, <2>1, <2>3, <1>6
  <2> QED
    BY <1>12, <2>2, <2>3 DEF CbResubmit
<1>13. CASE CbCount
  BY <1>13, <1>9 DEF CbCount
<1> QED
  BY <1>10, <1>11, <1>12, <1>13 DEF Callback

\* Closing gives up the slots that were never submitted.
LEMMA StreamClose ==
  ASSUME UsbType, CountInv, StreamInv, NEW u \in Users, Close(u) PROVE StreamInv'
<1>1. /\ UNCHANGED <<started, disconnected, cursor, raced, cb, unplugged>>
      /\ pc[u] = "close" /\ pc'[u] = "idle"
      /\ \A v \in Users \ {u} : pc'[v] = pc[v] /\ xfer'[v] = xfer[v]
      /\ \A i \in Transfers(u) : xfer'[u][i] = IF xfer[u][i] = "ready" THEN "null" ELSE xfer[u][i]
  BY DEF Close, Goto, UsbType, FlagsOK, XferOK
<1>2. \A v \in Users : InFlight(v)' = InFlight(v) /\ (Past(v)' <=> Past(v))
  BY <1>1 DEF InFlight, Past, Transfers
<1>3. \A v \in Users : \A i \in Transfers(v) :
        /\ xfer[v][i] \in {"flight", "callback"} => xfer'[v][i] = xfer[v][i]
        /\ xfer'[v][i] = "callback" => xfer[v][i] = "callback"
  BY <1>1
<1>4. StartedInv' /\ SlotOfCallback'
  BY <1>1, <1>3 DEF StreamInv, StartedInv, SlotOfCallback, Transfers
<1>5. ASSUME ~unplugged
      PROVE  CbQuiet' /\ \A v \in Users : ~disconnected'[v] /\ AllKept(v)' /\ OthersFly(v)' /\ Quiet(v)'
  <2>1. CbQuiet' /\ \A v \in Users : ~disconnected'[v] /\ Quiet(v)'
    BY <1>1, <1>2, <1>5 DEF StreamInv, CbQuiet, Quiet
  <2>2. \A v \in Users : \A i \in Transfers(v) : ReadyAhead(v, i)' <=> ReadyAhead(v, i)
    BY <1>1 DEF ReadyAhead
  <2>3. \A v \in Users : AllKept(v)'
    BY <1>1, <1>3, <1>5, <2>2 DEF StreamInv, AllKept, Transfers
  <2>4. ASSUME NEW v \in Users, Past(v)'
        PROVE  /\ \A j \in Transfers(v) \ {cb'.id} : xfer'[v][j] = "flight" \/ ReadyAhead(v, j)'
               /\ cb'.at = "count" => xfer'[v][cb'.id] = "flight"
    <3>1. Past(v)
      BY <1>2, <2>4
    <3>2. CASE v = u
      <4>1. cb.id \in Transfers(u) /\ cb' = cb
        BY <1>1, <3>1, <3>2 DEF CountInv, SlotsInv, Past, NoCb
      <4>2. \A j \in Transfers(u) \ {cb.id} : xfer[u][j] = "flight" \/ ReadyAhead(u, j)
        BY <1>5, <3>1, <3>2 DEF StreamInv, OthersFly
      <4>3. cb.at = "count" => xfer[u][cb.id] = "flight"
        BY <1>5, <3>1, <3>2 DEF StreamInv, OthersFly
      <4> QED
        BY <1>3, <2>2, <3>2, <4>1, <4>2, <4>3
    <3>3. CASE v # u
      BY <1>1, <1>5, <2>2, <3>1, <3>3 DEF StreamInv, OthersFly
    <3> QED
      BY <3>2, <3>3
  <2> QED
    BY <2>1, <2>3, <2>4 DEF OthersFly, Transfers
<1> QED
  BY <1>1, <1>4, <1>5 DEF StreamInv

\* Every step keeps the transfers of a running stream, and a stopped one quiet.
LEMMA StreamNext ==
  ASSUME KeepsTransfers, Restarted \subseteq {"video"},
         UsbType, PhaseInv, CountInv, StreamInv, [Next]_vars
  PROVE  StreamInv'
<1> USE UsbAssumption DEF UsbAssumption
<1>1. CASE VideoInit \/ AudioInit
  <2>1. PICK u \in Users : InitCall(u) /\ (UNCHANGED started \/ started' = [started EXCEPT ![u] = FALSE])
    BY <1>1 DEF VideoInit, AudioInit
  <2>2. /\ pc[u] = "idle" /\ pc'[u] \in {"idle", "spawn"} /\ life[u] = "new"
        /\ UNCHANGED <<active, xfer, cursor, raced, cb, unplugged>> /\ ~disconnected'[u]
        /\ \A v \in Users \ {u} : pc'[v] = pc[v] /\ disconnected'[v] = disconnected[v]
    BY <2>1 DEF InitCall, Turn, StartEvents, Goto, UsbType, FlagsOK
  <2>3. started'[u] => started[u]
    BY <2>1 DEF UsbType, FlagsOK
  <2>4. \A v \in Users \ {u} : started'[v] = started[v]
    BY <2>1 DEF UsbType, FlagsOK
  <2>5. Quiet(u)'
    BY <2>2 DEF CountInv, SlotsInv, Fresh, Quiet, Past, InFlight, Transfers
  <2> QED
    BY <2>2, <2>3, <2>4, <2>5, StreamKept
<1>2. ASSUME NEW u \in Users, StopCall(u) \/ DeinitCall(u) PROVE StreamInv'
  <2>1. /\ pc[u] = "idle" /\ UNCHANGED <<active, xfer, cursor, raced, cb, unplugged, disconnected>>
        /\ \A v \in Users \ {u} : pc'[v] = pc[v] /\ started'[v] = started[v]
    BY <1>2 DEF StopCall, DeinitCall, Stop, Turn, Goto, UsbType, FlagsOK
  <2>2. \/ pc'[u] \in {"wait", "cancel"} /\ ~started'[u]
        \/ pc'[u] \in {"release", "unlisten"} /\ started' = started /\ (disconnected[u] \/ ~started[u])
    BY <1>2 DEF StopCall, DeinitCall, Stop, Turn, Goto, UsbType, FlagsOK
  <2>3. InFlight(u)' = InFlight(u) /\ (Past(u)' <=> Past(u))
    BY <2>1 DEF InFlight, Past, Transfers
  <2>4. ~unplugged => Quiet(u)'
    BY <2>1, <2>2, <2>3 DEF StreamInv, Quiet
  <2> QED
    BY <2>1, <2>2, <2>4, StreamKept
<1>3. ASSUME NEW u \in Users, Listen(u) \/ Release(u) \/ Unlisten(u) PROVE StreamInv'
  <2>1. /\ UNCHANGED <<active, xfer, cursor, raced, cb, unplugged, disconnected, started>>
        /\ pc[u] \in {"spawn", "release", "unlisten", "join"}
        /\ \/ pc'[u] = "idle"
           \/ pc'[u] \in {"unlisten", "join", "close"} /\ pc[u] # "spawn"
        /\ \A v \in Users \ {u} : pc'[v] = pc[v]
    BY <1>3
    DEF Listen, Spawn, SpawnFails, Release, Unlisten, StopEvents, Join, Goto, local, UsbType, FlagsOK
  <2>2. InFlight(u)' = InFlight(u) /\ (Past(u)' <=> Past(u))
    BY <2>1 DEF InFlight, Past, Transfers
  <2>3. ~unplugged => Quiet(u)'
    BY <2>1, <2>2 DEF StreamInv, Quiet
  <2> QED
    BY <2>1, <2>3, StreamKept
<1>4. CASE VideoStart \/ AudioStart
  <2>1. PICK u \in Users : StartCall(u) /\ cb.user # u
    <3>1. CASE VideoStart
      BY <3>1 DEF VideoStart, NoCb
    <3>2. CASE AudioStart
      <4>1. life["audio"] = "open"
        BY <3>2 DEF AudioStart, StartCall
      <4> QED
        BY <3>2, <4>1 DEF AudioStart, CountInv, SlotsInv, Fresh, Open
    <3> QED
      BY <1>4, <3>1, <3>2
  <2> QED
    BY <2>1, StreamStart
<1>5. CASE Unplug \/ \E u \in Users : Removed(u)
  <2>1. unplugged' /\ UNCHANGED <<pc, started, cursor, xfer, cb>>
    BY <1>5 DEF Unplug, Removed, local
  <2> QED
    BY <2>1 DEF StreamInv, StartedInv, SlotOfCallback, Transfers
<1>6. CASE (\E t \in Threads : EventLoop(t) \/ EventLoopError(t)) \/ UNCHANGED vars
  <2>1. UNCHANGED <<pc, local, unplugged>>
    BY <1>6 DEF EventLoop, EventLoopError, vars
  <2>2. \A u \in Users : /\ AllKept(u)' <=> AllKept(u)
                         /\ OthersFly(u)' <=> OthersFly(u)
                         /\ Quiet(u)' <=> Quiet(u)
    BY <2>1 DEF local, AllKept, OthersFly, Quiet, Past, InFlight, ReadyAhead, Transfers
  <2> QED
    BY <2>1, <2>2 DEF local, StreamInv, StartedInv, SlotOfCallback, CbQuiet, Transfers
<1> QED
  BY <1>1, <1>2, <1>3, <1>4, <1>5, <1>6,
     StreamSubmit, StreamCount, StreamWaited, StreamEnter, StreamCallback, StreamClose
  DEF Next, Calls, AppStep, VideoStop, VideoDeinit, AudioStop, AudioDeinit,
      VideoCallback, AudioCallback

AllInv == UsbType /\ PhaseInv /\ ContextInv /\ CountInv /\ StreamInv

\* The invariants hold together, as long as no fault takes a transfer away.
LEMMA AllInvHolds == KeepsTransfers /\ Restarted \subseteq {"video"} => (Spec => []AllInv)
<1> SUFFICES ASSUME KeepsTransfers, Restarted \subseteq {"video"} PROVE Spec => []AllInv
  OBVIOUS
<1>1. Init => AllInv
  BY UsbTypeInit, ContextInit, CountInit, StreamInit DEF AllInv
<1>2. AllInv /\ [Next]_vars => AllInv'
  BY UsbTypeNext, ContextNext, CountNext, StreamNext DEF AllInv
<1> QED
  BY <1>1, <1>2, PTL DEF Spec

\* When stop has returned no transfer of the stream is in flight and no
\* callback is about to submit one, for any number of transfers but one, as
\* long as the camera is there and no transfer is lost (uvc.c:837-1023,
\* 1722-1789): a restart may reuse the slots.
THEOREM QuietAfterStop == KeepsTransfers /\ Restarted \subseteq {"video"} => (Spec => []StoppedIsQuiet)
<1>1. AllInv => StoppedIsQuiet
  BY DEF AllInv, StreamInv, Quiet, Past, StoppedIsQuiet
<1> QED
  BY <1>1, AllInvHolds, PTL

\* deinit closes the handle with transfers in flight only when the camera is
\* gone, although it does not stop a stream whose loss was noticed.
THEOREM ClosesQuietly == KeepsTransfers /\ Restarted \subseteq {"video"} => (Spec => []CloseIsQuiet)
<1>1. AllInv => CloseIsQuiet
  <2> SUFFICES ASSUME AllInv, NEW u \in Users \ raced, NumTransfers[u] > 1, pc[u] = "close",
                      ~unplugged
               PROVE  InFlight(u) = {}
    BY DEF CloseIsQuiet
  <2>1. u \in Users /\ u \notin raced /\ Quiet(u)
    BY DEF AllInv, StreamInv
  <2> QED
    BY <2>1 DEF Quiet
<1> QED
  BY <1>1, AllInvHolds, PTL
=============================================================================
