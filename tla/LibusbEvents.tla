---------------------------- MODULE LibusbEvents ----------------------------
(***************************************************************************)
(* What the libusb backends share (common/libusb/handle_events.c): the     *)
(* context of LibusbContext, one reference-counted thread that handles the *)
(* events of all users, and the callbacks for an unplugged camera.         *)
(* The module has no specification of its own: a user of it takes these    *)
(* steps inside its calls.                                                 *)
(***************************************************************************)
EXTENDS LibusbContext, FiniteSets

CONSTANTS
  Users,      \* the backends
  Threads,    \* identities of event threads, numbers
  MaxRemoveCb,\* MAX_REMOVE_CB
  Serial      \* TRUE: the users are called from one application thread

ASSUME LibusbAssumption ==
  Threads \subseteq Int /\ Threads # {} /\ IsFiniteSet(Threads) /\ MaxRemoveCb \in Nat /\ Serial \in BOOLEAN

VARIABLES
  eventRefs,    \* event_loop_refcnt
  running,      \* the event threads that have not left event_loop
  eventThread,  \* the handle that pthread_join uses
  broken,       \* the last event thread left on an error of libusb
  removal,      \* users with a callback in removed_cbs
  pc            \* what each user's call is about to do; "idle" outside calls

libusb == <<ctx, initRefs, removal>>
events == <<eventRefs, running, eventThread, broken>>

LibusbTypeOK ==
  /\ ctx \in {"null", "live", "dead"} /\ initRefs \in Int
  /\ eventRefs \in Nat
  /\ running \subseteq Threads
  /\ eventThread \in Threads /\ broken \in BOOLEAN
  /\ removal \subseteq Users

LibusbInit ==
  /\ ctx = "null" /\ initRefs = 0 /\ eventRefs = 0 /\ removal = {}
  /\ running = {} /\ broken = FALSE
  /\ eventThread = CHOOSE t \in Threads : TRUE

Goto(u, label) == pc' = [pc EXCEPT ![u] = label]

\* u may begin a call: with one application thread no other call is open.
Turn(u) == pc[u] = "idle" /\ (Serial => \A o \in Users : pc[o] = "idle")

-----------------------------------------------------------------------------
\* Mutant: the table takes nothing.
RegisterRemovalLost(u) == removal' = removal

\* A full table keeps what it has, and the caller is not told.
RegisterRemoval(u) ==
  removal' = IF Cardinality(removal) < MaxRemoveCb THEN removal \cup {u} ELSE removal

DeregisterRemoval(u) == removal' = removal \ {u}

StartEvents(u) ==
  /\ eventRefs' = eventRefs + 1
  /\ Goto(u, "spawn")
  /\ UNCHANGED <<running, eventThread, broken>>

\* Mutant: a thread for each user.
SpawnAlways(u) ==
  /\ pc[u] = "spawn" /\ running # Threads
  /\ eventThread' = CHOOSE t \in Threads : t \notin running
  /\ running' = running \cup {eventThread'} /\ broken' = FALSE
  /\ Goto(u, "idle")
  /\ UNCHANGED eventRefs

\* The test of event_loop_refcnt follows the unlock.
Spawn(u) ==
  /\ pc[u] = "spawn"
  /\ IF eventRefs = 1
       THEN /\ running # Threads
            /\ eventThread' = CHOOSE t \in Threads : t \notin running
            /\ running' = running \cup {eventThread'}
            /\ broken' = FALSE
       ELSE UNCHANGED <<running, eventThread, broken>>
  /\ Goto(u, "idle")
  /\ UNCHANGED eventRefs

SpawnFails(u) ==
  /\ pc[u] = "spawn" /\ eventRefs = 1
  /\ eventRefs' = 0
  /\ Goto(u, "idle")
  /\ UNCHANGED <<running, eventThread, broken>>

StopEvents(u, stopped) ==
  /\ IF eventRefs <= 0
       THEN eventRefs' = 0 /\ Goto(u, stopped)
       ELSE eventRefs' = eventRefs - 1 /\ Goto(u, "join")
  /\ UNCHANGED <<running, eventThread, broken>>

\* Again the test follows the unlock; pthread_join waits for the thread.
Join(u, stopped) ==
  /\ pc[u] = "join"
  /\ eventRefs = 0 => eventThread \notin running
  /\ Goto(u, stopped)
  /\ UNCHANGED events

\* Mutant: the thread misses the end of the last user.
LeaveNever(t) ==
  /\ t \in running /\ eventRefs < 0
  /\ running' = running \ {t}
  /\ UNCHANGED <<eventRefs, eventThread, broken>>

\* event_loop leaves when, between two calls of libusb_handle_events_timeout,
\* nobody listens any more.
Leave(t) ==
  /\ t \in running /\ eventRefs <= 0
  /\ running' = running \ {t}
  /\ UNCHANGED <<eventRefs, eventThread, broken>>

\* It also leaves when libusb_handle_events_timeout fails, and keeps the count:
\* no later user starts another thread.
LeaveError(t) ==
  /\ t \in running
  /\ running' = running \ {t} /\ broken' = TRUE
  /\ UNCHANGED <<eventRefs, eventThread>>
=============================================================================
