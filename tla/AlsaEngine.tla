----------------------------- MODULE AlsaEngine -----------------------------
(***************************************************************************)
(* The ALSA audio backend (audio/alsa/uac.c): one AudioEngine thread reads *)
(* the first started channel and calls the client; the application starts  *)
(* and stops channels through four flags that both sides write without a   *)
(* lock. stop sets exit_AudioEngine and waits until the engine clears it.  *)
(***************************************************************************)
EXTENDS Integers, FiniteSets

CONSTANTS
  Channels,    \* AUD_CH1 .. : numbers from 1
  Threads,     \* identities of engine threads
  MaxRetry,    \* ALSA_READ_MAX_RETRY_COUNT
  MaxUsed,     \* how many channels the application has started at a time
  Faults       \* what may fail: subset of {"open", "create", "start", "read", "unplug"}

ASSUME AlsaAssumption ==
  /\ Channels \subseteq Nat \ {0} /\ Channels # {} /\ IsFiniteSet(Channels)
  /\ Threads # {} /\ MaxRetry \in Nat \ {0} /\ MaxUsed \in Nat
  /\ Faults \subseteq {"open", "create", "start", "read", "unplug"}

VARIABLES
  phase,          \* "new", "open", "closed": as the application sees the backend
  mixer,          \* alsa_mixer_handle # NULL
  format,         \* current_audio_format of each channel
  rateOk,         \* current_audio_sampling_rate is one that the card has
  handle,         \* alsa_device_capture_handle: "null", "open", "closed" (dangling)
  started,        \* astream->started
  used,           \* the channels the application has started
  exitEngine,     \* exit_AudioEngine
  engineStarted,  \* AudioEngine_started
  aborted,        \* AudioEngine_aborted
  engine,         \* each thread: where it is, its channel and read_fail_count
  pc,             \* the next step of the application's call; "idle" outside one
  ch,             \* its channel
  then,           \* where start and stop return to
  todo,           \* the channels that deinit has not looked at
  unplugged

flags == <<started, exitEngine, engineStarted, aborted>>
call == <<pc, ch, then, todo>>
settings == <<phase, mixer, format, rateOk, used>>
vars == <<settings, handle, flags, engine, call, unplugged>>

NoEngine == [at |-> "none", chan |-> 0, fails |-> 0]
Live == {t \in Threads : engine[t].at # "none"}
Reading == {t \in Threads : engine[t].at \in {"pcm", "aac"}}

AlsaTypeOK ==
  /\ phase \in {"new", "open", "closed"}
  /\ mixer \in BOOLEAN /\ rateOk \in BOOLEAN /\ unplugged \in BOOLEAN
  /\ format \in [Channels -> {"AAC", "PCM"}]
  /\ handle \in [Channels -> {"null", "open", "closed"}]
  /\ started \in [Channels -> BOOLEAN]
  /\ exitEngine \in BOOLEAN /\ engineStarted \in BOOLEAN /\ aborted \in BOOLEAN
  /\ engine \in [Threads -> {NoEngine} \cup
                  [at : {"begin", "top", "pcm", "aac", "abort", "exit", "leave"},
                   chan : Channels \cup {0}, fails : 0 .. MaxRetry]]
  /\ pc \in {"idle", "reset", "unabort", "spawn", "mark", "ask", "wait", "rate", "deinit"}
  /\ ch \in Channels /\ then \in {"idle", "rate", "deinit"}
  /\ used \subseteq Channels /\ todo \subseteq Channels

First(S) == CHOOSE c \in S : \A d \in S : c <= d

Init ==
  /\ phase = "new" /\ mixer = FALSE /\ rateOk = TRUE
  /\ format = [c \in Channels |-> "PCM"]
  /\ handle = [c \in Channels |-> "null"]
  /\ started = [c \in Channels |-> FALSE]
  /\ exitEngine = FALSE /\ engineStarted = FALSE /\ aborted = FALSE
  /\ engine = [t \in Threads |-> NoEngine]
  /\ pc = "idle" /\ ch = First(Channels) /\ then = "idle" /\ todo = {} /\ used = {}
  /\ unplugged = FALSE
-----------------------------------------------------------------------------
(* mxuvc_audio_init: the flags keep what an earlier session left in them.   *)

AudioInit ==
  /\ pc = "idle" /\ phase # "open" /\ ~unplugged
  /\ phase' = "open" /\ mixer' = TRUE /\ rateOk' = TRUE
  /\ format' = [c \in Channels |-> IF c = First(Channels) THEN "PCM" ELSE "AAC"]
  /\ UNCHANGED <<used, handle, flags, engine, call, unplugged>>

\* alsa_configure fails without a handle, with a rate the card does not have
\* (which it then may replace by the nearest one) and without the card; what it
\* does with a closed handle is undefined.
Configured(c, ok) ==
  /\ handle[c] # "null"
  /\ ok => rateOk /\ (handle[c] = "open" => ~unplugged)
  /\ ~ok => ~rateOk \/ unplugged \/ handle[c] = "closed"
  /\ rateOk' \in {rateOk, TRUE} /\ (rateOk' # rateOk => ~ok)

FreeResources == mixer' = FALSE
Return == pc' = then /\ then' = "idle"
-----------------------------------------------------------------------------
(* _mxuvc_audio_start: it opens and configures the device, and then writes  *)
(* the flags. A device that cannot be opened leaves the handle as it was;    *)
(* one that was opened and not configured stays open.                       *)

Open(c, ok) ==
  /\ handle' = [handle EXCEPT ![c] = "open"]
  /\ ok <=> rateOk /\ ~unplugged
  /\ rateOk' \in {rateOk, TRUE} /\ (rateOk' # rateOk => ~ok)
  /\ IF ok THEN UNCHANGED mixer ELSE FreeResources

OpenFails == ("open" \in Faults \/ unplugged) /\ UNCHANGED <<handle, rateOk, mixer>>

StartCall(c) ==
  /\ pc = "idle" /\ phase = "open"
  /\ c \notin used /\ Cardinality(used) < MaxUsed
  /\ ch' = c
  /\ \/ Open(c, TRUE) /\ pc' = "reset" /\ used' = used \cup {c}
     \/ (OpenFails \/ Open(c, FALSE)) /\ UNCHANGED <<pc, used>>
  /\ UNCHANGED <<phase, format, flags, engine, then, todo, unplugged>>

StartReset ==
  /\ pc = "reset"
  /\ exitEngine' = FALSE
  /\ started' = [started EXCEPT ![ch] = FALSE]
  /\ pc' = "unabort"
  /\ UNCHANGED <<settings, handle, engineStarted, aborted, engine, ch, then, todo, unplugged>>

StartUnabort ==
  /\ pc = "unabort"
  /\ aborted' = FALSE
  /\ pc' = "spawn"
  /\ UNCHANGED <<settings, handle, started, exitEngine, engineStarted, engine, ch, then, todo, unplugged>>

\* Mutant: a thread for every start.
StartSpawnAlways ==
  /\ pc = "spawn" /\ Live # Threads
  /\ engineStarted' = TRUE /\ started' = [started EXCEPT ![ch] = TRUE]
  /\ engine' = [engine EXCEPT ![CHOOSE t \in Threads : t \notin Live] =
                  [at |-> "begin", chan |-> 0, fails |-> 0]]
  /\ pc' = "mark"
  /\ UNCHANGED <<settings, handle, exitEngine, aborted, ch, then, todo, unplugged>>

\* A thread that cannot be created leaves the flags set.
StartSpawn ==
  /\ pc = "spawn"
  /\ IF engineStarted
       THEN pc' = "mark" /\ UNCHANGED <<then, engineStarted, started, engine>>
       ELSE /\ engineStarted' = TRUE
            /\ started' = [started EXCEPT ![ch] = TRUE]
            /\ \/ /\ Live # Threads
                  /\ engine' = [engine EXCEPT ![CHOOSE t \in Threads : t \notin Live] =
                                  [at |-> "begin", chan |-> 0, fails |-> 0]]
                  /\ pc' = "mark" /\ UNCHANGED then
               \/ "create" \in Faults /\ Return /\ UNCHANGED engine
  /\ UNCHANGED <<settings, handle, exitEngine, aborted, ch, todo, unplugged>>

StartMark ==
  /\ pc = "mark"
  /\ started' = [started EXCEPT ![ch] = TRUE]
  /\ Return
  /\ UNCHANGED <<settings, handle, exitEngine, engineStarted, aborted, engine, ch, todo, unplugged>>
-----------------------------------------------------------------------------
(* _mxuvc_audio_stop: after an abort it closes the device and leaves the    *)
(* flags as they are.                                                       *)

ClosePcm(c) == handle' = [handle EXCEPT ![c] = "closed"]

Stop(c, next) ==
  \/ /\ ~engineStarted \/ ~started[c]
     /\ pc' = (IF next = "rate" THEN "idle" ELSE next) /\ UNCHANGED <<handle, then>>
  \/ /\ engineStarted /\ started[c] /\ aborted
     /\ ClosePcm(c) /\ pc' = next /\ UNCHANGED then
  \/ /\ engineStarted /\ started[c] /\ ~aborted
     /\ pc' = "ask" /\ then' = next /\ UNCHANGED handle

StopCall(c) ==
  /\ pc = "idle" /\ c \in used
  /\ Stop(c, "idle")
  /\ ch' = c /\ used' = used \ {c}
  /\ UNCHANGED <<phase, mixer, format, rateOk, flags, engine, todo, unplugged>>

\* Mutant: the engine is not asked to leave.
StopAskForgotten ==
  /\ pc = "ask" /\ pc' = "wait"
  /\ UNCHANGED <<settings, handle, flags, engine, ch, then, todo, unplugged>>

StopAsk ==
  /\ pc = "ask"
  /\ exitEngine' = TRUE /\ pc' = "wait"
  /\ UNCHANGED <<settings, handle, started, engineStarted, aborted, engine, ch, then, todo, unplugged>>

\* Mutant: stop does not wait for the answer.
StopDoneEarly ==
  /\ pc = "wait"
  /\ ClosePcm(ch)
  /\ started' = [started EXCEPT ![ch] = FALSE]
  /\ engineStarted' = FALSE /\ aborted' = FALSE
  /\ Return
  /\ UNCHANGED <<settings, exitEngine, engine, ch, todo, unplugged>>

StopDone ==
  /\ pc = "wait" /\ ~exitEngine
  /\ ClosePcm(ch)
  /\ started' = [started EXCEPT ![ch] = FALSE]
  /\ engineStarted' = FALSE /\ aborted' = FALSE
  /\ Return
  /\ UNCHANGED <<settings, exitEngine, engine, ch, todo, unplugged>>
-----------------------------------------------------------------------------
(* the settings                                                             *)

\* The default of a channel is changed at once; PCM on a started one configures
\* the device, also while the engine reads it.
SetFormat(c, f) ==
  /\ pc = "idle" /\ phase = "open"
  /\ format' = [format EXCEPT ![c] = f]
  /\ IF f = "PCM" /\ started[c]
       THEN \E ok \in BOOLEAN : Configured(c, ok)
       ELSE UNCHANGED rateOk
  /\ UNCHANGED <<phase, mixer, used, handle, flags, engine, call, unplugged>>

\* The rate is taken over before it is tried. A started channel is stopped,
\* configured with the handle that stop has closed, and started again.
SetSamplerate(c, ok) ==
  /\ pc = "idle" /\ phase = "open"
  /\ rateOk' = ok /\ ch' = c
  /\ IF started[c] THEN Stop(c, "rate") ELSE UNCHANGED <<pc, then, handle>>
  /\ UNCHANGED <<phase, mixer, format, used, flags, engine, todo, unplugged>>

Reconfigure ==
  /\ pc = "rate"
  /\ \/ Configured(ch, FALSE) /\ pc' = "idle" /\ UNCHANGED <<mixer, handle>>
     \/ Configured(ch, TRUE) /\ Open(ch, TRUE) /\ pc' = "reset"
     \/ Configured(ch, TRUE) /\ (OpenFails \/ Open(ch, FALSE)) /\ pc' = "idle"
  /\ UNCHANGED <<phase, format, used, flags, engine, ch, then, todo, unplugged>>
-----------------------------------------------------------------------------
(* mxuvc_audio_deinit *)

DeinitCall ==
  /\ pc = "idle" /\ phase = "open"
  /\ IF engineStarted
       THEN pc' = "deinit" /\ todo' = Channels /\ UNCHANGED <<phase, mixer, used>>
       ELSE phase' = "closed" /\ FreeResources /\ used' = {} /\ UNCHANGED <<pc, todo>>
  /\ UNCHANGED <<format, rateOk, handle, flags, engine, ch, then, unplugged>>

DeinitChannel ==
  /\ pc = "deinit" /\ todo # {}
  /\ ch' = First(todo) /\ todo' = todo \ {ch'}
  /\ IF started[ch'] THEN Stop(ch', "deinit") ELSE UNCHANGED <<pc, then, handle>>
  /\ UNCHANGED <<settings, flags, engine, unplugged>>

DeinitDone ==
  /\ pc = "deinit" /\ todo = {}
  /\ phase' = "closed" /\ FreeResources /\ used' = {} /\ pc' = "idle"
  /\ UNCHANGED <<format, rateOk, handle, flags, engine, ch, then, todo, unplugged>>
-----------------------------------------------------------------------------
(* AudioEngine *)

Goes(t, label) == engine' = [engine EXCEPT ![t].at = label]

\* The channel is chosen once. A PCM that cannot be started ends the thread.
EngineBegin(t) ==
  /\ engine[t].at = "begin"
  /\ \E c \in Channels :
       /\ started[c] /\ \A d \in Channels : started[d] => c <= d
       /\ engine' = [engine EXCEPT ![t].chan = c, ![t].at = "top"]
          \/ /\ "start" \in Faults \/ unplugged
             /\ engine' = [engine EXCEPT ![t].chan = c, ![t].at = "leave"]
  /\ UNCHANGED flags

EngineTop(t) ==
  /\ engine[t].at = "top"
  /\ Goes(t, IF exitEngine THEN "leave"
             ELSE IF format[engine[t].chan] = "AAC" THEN "aac" ELSE "pcm")
  /\ UNCHANGED flags

\* Whatever the reads of header and box return, the loop is tried again.
EngineAac(t) ==
  /\ engine[t].at = "aac"
  /\ Goes(t, "top")
  /\ UNCHANGED flags

\* A failed read is repeated without a look at the exit flag, since it adds to
\* the bytes that are left to read.
EnginePcm(t) ==
  /\ engine[t].at = "pcm"
  /\ \/ /\ ~unplugged
        /\ engine' = [engine EXCEPT ![t].at = "top", ![t].fails = 0]
     \/ /\ "read" \in Faults /\ ~unplugged
        /\ engine' = [engine EXCEPT
             ![t].fails = IF @ < MaxRetry THEN @ + 1 ELSE @,
             ![t].at = IF engine[t].fails + 1 >= MaxRetry THEN "abort" ELSE "pcm"]
     \/ unplugged /\ Goes(t, "abort")
  /\ UNCHANGED flags

EngineAbort(t) ==
  /\ engine[t].at = "abort"
  /\ aborted' = TRUE
  /\ Goes(t, "exit")
  /\ UNCHANGED <<started, exitEngine, engineStarted>>

EngineExit(t) ==
  /\ engine[t].at = "exit"
  /\ exitEngine' = TRUE
  /\ Goes(t, "top")
  /\ UNCHANGED <<started, engineStarted, aborted>>

\* Mutant: the engine leaves without an answer.
EngineLeaveSilent(t) ==
  /\ engine[t].at = "leave"
  /\ engine' = [engine EXCEPT ![t] = NoEngine]
  /\ UNCHANGED flags

EngineLeave(t) ==
  /\ engine[t].at = "leave"
  /\ exitEngine' = FALSE
  /\ engine' = [engine EXCEPT ![t] = NoEngine]
  /\ UNCHANGED <<started, engineStarted, aborted>>

AudioEngine(t) ==
  /\ EngineBegin(t) \/ EngineTop(t) \/ EngineAac(t) \/ EnginePcm(t)
     \/ EngineAbort(t) \/ EngineExit(t) \/ EngineLeave(t)
  /\ UNCHANGED <<settings, handle, call, unplugged>>

Unplug ==
  /\ "unplug" \in Faults /\ ~unplugged /\ unplugged' = TRUE
  /\ UNCHANGED <<settings, handle, flags, engine, call>>
-----------------------------------------------------------------------------
AppCall ==
  \/ AudioInit \/ DeinitCall
  \/ \E c \in Channels :
       \/ StartCall(c) \/ StopCall(c)
       \/ \E f \in {"AAC", "PCM"} : SetFormat(c, f)
       \/ \E ok \in BOOLEAN : SetSamplerate(c, ok)

AppStep ==
  \/ StartReset \/ StartUnabort \/ StartSpawn \/ StartMark
  \/ StopAsk \/ StopDone \/ Reconfigure \/ DeinitChannel \/ DeinitDone

Next == AppCall \/ AppStep \/ Unplug \/ \E t \in Threads : AudioEngine(t)

Spec == Init /\ [][Next]_vars

\* Calls that were begun go on and the threads run.
FairSpec == Spec /\ WF_vars(AppStep) /\ \A t \in Threads : WF_vars(AudioEngine(t))
-----------------------------------------------------------------------------
(* Properties *)

\* There is one engine: start creates none while AudioEngine_started is set
\* (uac.c:339), which stop clears only after the engine has left its loop.
SingleEngine == Cardinality(Live) <= 1

\* The engine reads a PCM that is open (uac.c:1433): stop closes it when the
\* engine has answered or has aborted, and start opens it before it lets an
\* engine that was about to leave go on. A client that has used another channel
\* as well may have opened that one instead.
ReadsOpenPcm ==
  \A t \in Reading :
    \/ handle[engine[t].chan] = "open"
    \/ \E c \in Channels \ {engine[t].chan} : handle[c] # "null"

\* After stop and after deinit no engine reads and calls the client
\* (uac.c:386-416, 563-577).
QuietWhenStopped ==
  pc = "idle" /\ (~engineStarted \/ phase = "closed") => Reading = {}

\* A stop that waits for an engine that exists goes on (uac.c:397-398), also when
\* that engine aborts or is unplugged meanwhile.
StopAnswered == (pc = "wait" /\ Live # {}) ~> (pc # "wait")

\* mxuvc_audio_alive (uac.c:540-547).
Alive == engineStarted /\ ~aborted

\* "@return 0 if audio capture is not started or halted due to some error":
\* when it says that capture is going on, there is an engine.
AliveHasEngine == pc = "idle" /\ Alive => Live # {}
=============================================================================
