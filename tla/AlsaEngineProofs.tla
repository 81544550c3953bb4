-------------------------- MODULE AlsaEngineProofs --------------------------
(***************************************************************************)
(* Proofs about AlsaEngine, for every number of channels, of retries, and  *)
(* of channels in use at a time, whatever fails.                           *)
(***************************************************************************)
EXTENDS AlsaEngine, FiniteSetTheorems, WellFoundedInduction, TLAPS

(***************************************************************************)
(* Types *)
(***************************************************************************)

\* A non-empty set of channels has a first one.
LEMMA FirstIn ==
  ASSUME NEW S \in SUBSET Channels, S # {} PROVE First(S) \in S
<1>1. S \subseteq Nat
  BY AlsaAssumption DEF AlsaAssumption
<1>2. PICK c \in S : \A d \in S : ~ (<<d, c>> \in OpToRel(<, Nat))
  BY <1>1, NatLessThanWellFounded, WFMin
<1>3. \A d \in S : ~ (d < c)
  BY <1>1, <1>2 DEF OpToRel
<1>4. \A d \in S : c <= d
  BY <1>1, <1>3
<1> QED
  BY <1>4 DEF First

PcLabels == {"idle", "reset", "unabort", "spawn", "mark", "ask", "wait", "rate", "deinit"}

EngineStates ==
  {NoEngine} \cup [at : {"begin", "top", "pcm", "aac", "abort", "exit", "leave"},
                   chan : Channels \cup {0}, fails : 0 .. MaxRetry]

\* The initial state has its type.
LEMMA TypeInit == Init => AlsaTypeOK
<1> SUFFICES ASSUME Init PROVE AlsaTypeOK
  OBVIOUS
<1>1. First(Channels) \in Channels
  BY FirstIn, AlsaAssumption DEF AlsaAssumption
<1> QED
  BY <1>1 DEF Init, AlsaTypeOK

\* The first steps of the calls, and of the settings.
LEMMA TypeCall ==
  ASSUME AlsaTypeOK, AppCall PROVE AlsaTypeOK'
<1>1. CASE AudioInit
  BY <1>1 DEF AudioInit, AlsaTypeOK, flags, call
<1>2. CASE DeinitCall
  BY <1>2 DEF DeinitCall, FreeResources, AlsaTypeOK, flags
<1>3. ASSUME NEW c \in Channels, StartCall(c) PROVE AlsaTypeOK'
  BY <1>3 DEF StartCall, Open, OpenFails, FreeResources, AlsaTypeOK, flags
<1>4. ASSUME NEW c \in Channels, StopCall(c) PROVE AlsaTypeOK'
  BY <1>4 DEF StopCall, Stop, ClosePcm, AlsaTypeOK, flags
<1>5. ASSUME NEW c \in Channels, NEW f \in {"AAC", "PCM"}, SetFormat(c, f) PROVE AlsaTypeOK'
  <2>1. rateOk' \in BOOLEAN
    BY <1>5 DEF SetFormat, Configured, AlsaTypeOK
  <2> QED
    BY <1>5, <2>1 DEF SetFormat, AlsaTypeOK, flags, call
<1>6. ASSUME NEW c \in Channels, NEW ok \in BOOLEAN, SetSamplerate(c, ok) PROVE AlsaTypeOK'
  BY <1>6 DEF SetSamplerate, Stop, ClosePcm, AlsaTypeOK, flags
<1> QED
  BY <1>1, <1>2, <1>3, <1>4, <1>5, <1>6 DEF AppCall

\* The steps within a call.
LEMMA TypeStep ==
  ASSUME AlsaTypeOK, AppStep PROVE AlsaTypeOK'
<1>1. CASE StartReset
  BY <1>1 DEF StartReset, AlsaTypeOK, settings
<1>2. CASE StartUnabort
  BY <1>2 DEF StartUnabort, AlsaTypeOK, settings
<1>3. CASE StartMark
  <2>1. started' \in [Channels -> BOOLEAN]
    BY <1>3 DEF StartMark, AlsaTypeOK
  <2>2. pc' \in {"idle", "reset", "unabort", "spawn", "mark", "ask", "wait", "rate", "deinit"}
        /\ then' \in {"idle", "rate", "deinit"}
    BY <1>3 DEF StartMark, Return, AlsaTypeOK
  <2> QED
    BY <1>3, <2>1, <2>2 DEF StartMark, AlsaTypeOK, settings
<1>4. CASE StartSpawn
  <2>1. engine' \in [Threads -> EngineStates]
    <3>1. [at |-> "begin", chan |-> 0, fails |-> 0] \in EngineStates
      BY AlsaAssumption DEF AlsaAssumption, EngineStates
    <3> QED
      BY <3>1, <1>4 DEF StartSpawn, AlsaTypeOK, EngineStates
  <2> QED
    BY <2>1, <1>4 DEF StartSpawn, Return, AlsaTypeOK, EngineStates, settings
<1>5. CASE StopAsk \/ StopDone
  BY <1>5 DEF StopAsk, StopDone, ClosePcm, Return, AlsaTypeOK, settings
<1>6. CASE Reconfigure
  <2>1. handle' \in [Channels -> {"null", "open", "closed"}]
    BY <1>6 DEF Reconfigure, Open, OpenFails, AlsaTypeOK
  <2>2. mixer' \in BOOLEAN
    BY <1>6 DEF Reconfigure, Open, OpenFails, FreeResources, AlsaTypeOK
  <2>3. rateOk' \in BOOLEAN
    BY <1>6 DEF Reconfigure, Configured, AlsaTypeOK
  <2>4. pc' \in PcLabels
    BY <1>6 DEF Reconfigure, PcLabels
  <2> QED
    BY <1>6, <2>1, <2>2, <2>3, <2>4 DEF Reconfigure, AlsaTypeOK, PcLabels, flags
<1>7. CASE DeinitChannel
  <2>1. ch' \in Channels /\ todo' \subseteq Channels
    BY <1>7, FirstIn DEF DeinitChannel, AlsaTypeOK
  <2>2. pc' \in PcLabels /\ then' \in {"idle", "rate", "deinit"}
    BY <1>7 DEF DeinitChannel, Stop, AlsaTypeOK, PcLabels
  <2>3. handle' \in [Channels -> {"null", "open", "closed"}]
    BY <1>7, <2>1 DEF DeinitChannel, Stop, ClosePcm, AlsaTypeOK
  <2> QED
    BY <1>7, <2>1, <2>2, <2>3 DEF DeinitChannel, AlsaTypeOK, PcLabels, settings, flags
<1>8. CASE DeinitDone
  BY <1>8 DEF DeinitDone, FreeResources, AlsaTypeOK, flags
<1> QED
  BY <1>1, <1>4, <1>5, <1>6, <1>7, <1>8, <1>2, <1>3 DEF AppStep

\* What a step of an engine does to its state: it takes a thread that is live
\* to another state, or ends it.
LEMMA EngineChanges ==
  ASSUME AlsaTypeOK, NEW t \in Threads, AudioEngine(t)
  PROVE  \E e \in EngineStates : /\ engine' = [engine EXCEPT ![t] = e]
                                 /\ e.at = "none" => EngineLeave(t)
<1> DEFINE Live7 == [at : {"begin", "top", "pcm", "aac", "abort", "exit", "leave"},
                     chan : Channels \cup {0}, fails : 0 .. MaxRetry]
<1>1. CASE EngineLeave(t)
  BY <1>1 DEF EngineLeave, EngineStates
<1>2. engine[t] \in Live7
  BY DEF AudioEngine, EngineBegin, EngineTop, EngineAac, EnginePcm, EngineAbort, EngineExit,
         EngineLeave, AlsaTypeOK, NoEngine
<1>3. ASSUME NEW e \in Live7, engine' = [engine EXCEPT ![t] = e]
      PROVE  \E f \in EngineStates : /\ engine' = [engine EXCEPT ![t] = f]
                                     /\ f.at = "none" => EngineLeave(t)
  <2>1. e \in EngineStates /\ e.at # "none"
    BY <1>3 DEF EngineStates
  <2> QED
    BY <2>1, <1>3
<1>4. CASE EngineBegin(t)
  <2>1. PICK c \in Channels, l \in {"top", "leave"} :
          engine' = [engine EXCEPT ![t] = [engine[t] EXCEPT !.chan = c, !.at = l]]
    BY <1>4, <1>2 DEF EngineBegin, AlsaTypeOK
  <2>2. [engine[t] EXCEPT !.chan = c, !.at = l] \in Live7
    BY <1>2
  <2> QED
    BY <2>1, <2>2, <1>3
<1>5. CASE EngineTop(t) \/ EngineAac(t) \/ EngineAbort(t) \/ EngineExit(t)
  <2>1. PICK l \in {"leave", "aac", "pcm", "top", "exit"} :
          engine' = [engine EXCEPT ![t] = [engine[t] EXCEPT !.at = l]]
    BY <1>5, <1>2 DEF EngineTop, EngineAac, EngineAbort, EngineExit, Goes, AlsaTypeOK
  <2>2. [engine[t] EXCEPT !.at = l] \in Live7
    BY <1>2
  <2> QED
    BY <2>1, <2>2, <1>3
<1>6. CASE EnginePcm(t)
  <2>1. \E l \in {"top", "pcm", "abort"}, n \in 0 .. MaxRetry :
          engine' = [engine EXCEPT ![t] = [engine[t] EXCEPT !.at = l, !.fails = n]]
    <3>1. CASE engine' = [engine EXCEPT ![t].at = "top", ![t].fails = 0]
      <4>1. engine' = [engine EXCEPT ![t] = [engine[t] EXCEPT !.at = "top", !.fails = 0]]
        BY <3>1, <1>2 DEF AlsaTypeOK
      <4>2. 0 \in 0 .. MaxRetry
        BY AlsaAssumption DEF AlsaAssumption
      <4> QED
        BY <4>1, <4>2
    <3>2. CASE Goes(t, "abort")
      <4>1. engine' = [engine EXCEPT ![t] = [engine[t] EXCEPT !.at = "abort", !.fails = engine[t].fails]]
        BY <3>2, <1>2 DEF Goes, AlsaTypeOK
      <4>2. engine[t].fails \in 0 .. MaxRetry
        BY <1>2
      <4> QED
        BY <4>1, <4>2
    <3>3. CASE engine' = [engine EXCEPT
                 ![t].fails = IF @ < MaxRetry THEN @ + 1 ELSE @,
                 ![t].at = IF engine[t].fails + 1 >= MaxRetry THEN "abort" ELSE "pcm"]
      <4> DEFINE n == IF engine[t].fails < MaxRetry THEN engine[t].fails + 1 ELSE engine[t].fails
                 l == IF engine[t].fails + 1 >= MaxRetry THEN "abort" ELSE "pcm"
      <4>1. n \in 0 .. MaxRetry /\ l \in {"top", "pcm", "abort"}
        BY <1>2, AlsaAssumption DEF AlsaAssumption
      <4>2. engine' = [engine EXCEPT ![t] = [engine[t] EXCEPT !.at = l, !.fails = n]]
        BY <3>3, <1>2 DEF AlsaTypeOK
      <4> HIDE DEF n, l
      <4> QED
        BY <4>1, <4>2
    <3> QED
      BY <1>6, <3>1, <3>2, <3>3 DEF EnginePcm
  <2>2. PICK l \in {"top", "pcm", "abort"}, n \in 0 .. MaxRetry :
          engine' = [engine EXCEPT ![t] = [engine[t] EXCEPT !.at = l, !.fails = n]]
    BY <2>1
  <2>3. [engine[t] EXCEPT !.at = l, !.fails = n] \in Live7
    BY <1>2
  <2> QED
    BY <2>2, <2>3, <1>3
<1> QED
  BY <1>1, <1>4, <1>5, <1>6 DEF AudioEngine

\* The engine threads keep the types.
LEMMA TypeEngine ==
  ASSUME AlsaTypeOK, NEW t \in Threads, AudioEngine(t) PROVE AlsaTypeOK'
<1>1. engine' \in [Threads -> EngineStates]
  BY EngineChanges DEF AlsaTypeOK, EngineStates
<1>2. started' = started /\ exitEngine' \in BOOLEAN /\ engineStarted' = engineStarted /\ aborted' \in BOOLEAN
  BY DEF AudioEngine, EngineBegin, EngineTop, EngineAac, EnginePcm, EngineAbort, EngineExit,
         EngineLeave, flags, AlsaTypeOK
<1>3. UNCHANGED <<settings, handle, call, unplugged>>
  BY DEF AudioEngine
<1> QED
  BY <1>1, <1>2, <1>3 DEF AlsaTypeOK, EngineStates, settings, call

\* Every step keeps the types.
LEMMA TypeNext == AlsaTypeOK /\ [Next]_vars => AlsaTypeOK'
<1> SUFFICES ASSUME AlsaTypeOK, [Next]_vars PROVE AlsaTypeOK'
  OBVIOUS
<1>1. CASE Unplug
  BY <1>1 DEF Unplug, AlsaTypeOK, settings, flags, call
<1>2. CASE UNCHANGED vars
  BY <1>2 DEF vars, AlsaTypeOK, settings, flags, call
<1> QED
  BY <1>1, <1>2, TypeCall, TypeStep, TypeEngine DEF Next

\* Every variable keeps its type; in particular the engine never counts more
\* failed reads than the limit (uac.c:944-958).
THEOREM AlsaTypeCorrect == Spec => []AlsaTypeOK
  BY TypeInit, TypeNext, PTL DEF Spec

(***************************************************************************)
(* One engine. AudioEngine_started is set before a thread is created and   *)
(* stays set until stop has seen exit_AudioEngine cleared, which the       *)
(* engine does last of all.                                                *)
(***************************************************************************)

EngineInv ==
  /\ \A s, t \in Live : s = t
  /\ ~engineStarted => Live = {}
  /\ pc = "wait" /\ ~exitEngine => Live = {}

\* What a step of an engine does to the threads that are live.
LEMMA EngineLives ==
  ASSUME AlsaTypeOK, NEW t \in Threads, AudioEngine(t)
  PROVE  /\ t \in Live /\ Live' \subseteq Live
         /\ Live' # Live => EngineLeave(t)
         /\ \A s \in Threads \ {t} : engine'[s] = engine[s]
         /\ EngineLeave(t) => Live' = Live \ {t}
<1>1. PICK e \in EngineStates : /\ engine' = [engine EXCEPT ![t] = e]
                                /\ e.at = "none" => EngineLeave(t)
  BY EngineChanges
<1>2. engine' \in [Threads -> EngineStates] /\ engine'[t] = e
      /\ \A s \in Threads \ {t} : engine'[s] = engine[s]
  BY <1>1 DEF AlsaTypeOK, EngineStates
<1>3. t \in Live
  BY DEF AudioEngine, EngineBegin, EngineTop, EngineAac, EnginePcm, EngineAbort, EngineExit,
         EngineLeave, Live
<1>4. EngineLeave(t) => engine'[t].at = "none"
  BY <1>2 DEF EngineLeave, NoEngine, AlsaTypeOK
<1> QED
  BY <1>1, <1>2, <1>3, <1>4 DEF Live

\* Before the first start no engine thread exists.
LEMMA EngineInit == Init => EngineInv
  BY DEF Init, EngineInv, Live, NoEngine

\* Every step keeps at most one live engine, on the path of its state.
LEMMA EngineNext == AlsaTypeOK /\ EngineInv /\ [Next]_vars => EngineInv'
<1> SUFFICES ASSUME AlsaTypeOK, EngineInv, [Next]_vars PROVE EngineInv'
  OBVIOUS
<1>1. CASE AppCall
  <2>1. UNCHANGED <<engine, engineStarted, exitEngine>>
    BY <1>1 DEF AppCall, AudioInit, DeinitCall, StartCall, StopCall, SetFormat, SetSamplerate, flags
  <2>2. pc' = pc \/ pc' # "wait"
    BY <1>1 DEF AppCall, AudioInit, DeinitCall, StartCall, StopCall, SetFormat, SetSamplerate, Stop, call
  <2> QED
    BY <2>1, <2>2 DEF EngineInv, Live
<1>2. CASE StartSpawn
  <2>1. pc' # "wait"
    <3>1. then # "wait"
      BY DEF AlsaTypeOK
    <3> QED
      BY <1>2, <3>1 DEF StartSpawn, Return
  <2>2. CASE UNCHANGED engine
    BY <1>2, <2>1, <2>2 DEF StartSpawn, EngineInv, Live
  <2>3. CASE engine' # engine
    <3>1. engineStarted' = TRUE /\ Live = {}
      BY <1>2, <2>3 DEF StartSpawn, EngineInv
    <3>2. \E t \in Threads :
            engine' = [engine EXCEPT ![t] = [at |-> "begin", chan |-> 0, fails |-> 0]]
      <4>1. \E t \in Threads : t \notin Live
        BY <3>1, AlsaAssumption DEF AlsaAssumption
      <4> QED
        BY <4>1, <1>2, <2>3 DEF StartSpawn
    <3>3. \A s, t \in Live' : s = t
      BY <3>1, <3>2 DEF Live, AlsaTypeOK
    <3> QED
      BY <2>1, <3>1, <3>3 DEF EngineInv
  <2> QED
    BY <2>2, <2>3
<1>3. CASE StopDone
  BY <1>3 DEF StopDone, Return, EngineInv, Live, AlsaTypeOK
<1>4. CASE StopAsk
  BY <1>4 DEF StopAsk, EngineInv, Live
<1>5. CASE StartReset \/ StartUnabort \/ StartMark \/ Reconfigure \/ DeinitChannel \/ DeinitDone
  <2>1. UNCHANGED <<engine, engineStarted>>
    BY <1>5 DEF StartReset, StartUnabort, StartMark, Reconfigure, DeinitChannel, DeinitDone, flags
  <2>2. pc' # "wait"
    BY <1>5 DEF StartReset, StartUnabort, StartMark, Return, Reconfigure, DeinitChannel, DeinitDone,
                Stop, AlsaTypeOK
  <2> QED
    BY <2>1, <2>2 DEF EngineInv, Live
<1>6. ASSUME NEW t \in Threads, AudioEngine(t) PROVE EngineInv'
  <2>1. UNCHANGED <<engineStarted, pc>>
    BY <1>6 DEF AudioEngine, EngineBegin, EngineTop, EngineAac, EnginePcm, EngineAbort, EngineExit,
                EngineLeave, flags, call
  <2>2. EngineLeave(t) => Live' = {}
    BY <1>6, EngineLives DEF EngineInv
  <2>3. ~EngineLeave(t) => exitEngine' = exitEngine \/ exitEngine' = TRUE
    BY <1>6 DEF AudioEngine, EngineBegin, EngineTop, EngineAac, EnginePcm, EngineAbort, EngineExit, flags
  <2>4. Live' \subseteq Live
    BY <1>6, EngineLives
  <2> QED
    BY <2>1, <2>2, <2>3, <2>4 DEF EngineInv
<1>7. CASE Unplug \/ UNCHANGED vars
  BY <1>7 DEF Unplug, vars, flags, call, EngineInv, Live
<1> QED
  BY <1>1, <1>2, <1>3, <1>4, <1>5, <1>6, <1>7 DEF Next, AppStep

\* There is never a second AudioEngine thread, whichever calls the application
\* makes and however the first one ends (uac.c:334-353, 386-416).
THEOREM OneEngine == Spec => []SingleEngine
<1>1. AlsaTypeOK /\ EngineInv => SingleEngine
  <2> SUFFICES ASSUME AlsaTypeOK, EngineInv PROVE Cardinality(Live) <= 1
    BY DEF SingleEngine
  <2>1. CASE Live = {}
    <3>1. Cardinality(Live) = 0
      BY <2>1, FS_EmptySet
    <3> QED
      BY <3>1
  <2>2. ASSUME NEW t \in Live PROVE Cardinality(Live) <= 1
    <3>1. Live = {t}
      BY DEF EngineInv
    <3>2. Cardinality(Live) = 1
      BY <3>1, FS_Singleton
    <3> QED
      BY <3>2
  <2> QED
    BY <2>1, <2>2
<1> QED
  BY <1>1, TypeInit, EngineInit, TypeNext, EngineNext, PTL DEF Spec

(***************************************************************************)
(* Silence after stop and deinit. An engine that has aborted is on its way *)
(* out until the next start clears the abort; and while an engine lives,   *)
(* some channel is marked as started, so that deinit finds one to stop.    *)
(***************************************************************************)

Leaving(t) == engine[t].at \in {"none", "exit", "leave"} \/ (engine[t].at = "top" /\ exitEngine)

QuietInv ==
  /\ pc \notin {"ask", "wait"} => then = "idle"
  /\ aborted /\ pc # "unabort" => \A t \in Threads : Leaving(t)
  /\ pc = "spawn" /\ ~engineStarted => ~aborted
  /\ Live # {} /\ pc \notin {"unabort", "spawn", "mark"} => \E c \in Channels : started[c]
  /\ pc = "deinit" /\ Live # {} /\ ~aborted => \E c \in todo : started[c]
  /\ phase = "closed" => pc = "idle" /\ used = {} /\ (Live = {} \/ aborted)

\* Before the first start there is nothing to be quiet.
LEMMA QuietInit == Init => QuietInv
  BY DEF Init, QuietInv, Live, NoEngine

\* The first steps of the calls, and the settings.
LEMMA QuietCall ==
  ASSUME AlsaTypeOK, EngineInv, QuietInv, AppCall PROVE QuietInv'
<1>1. UNCHANGED <<flags, engine>> /\ pc = "idle"
  BY DEF AppCall, AudioInit, DeinitCall, StartCall, StopCall, SetFormat, SetSamplerate
<1>2. Live' = Live /\ \A t \in Threads : Leaving(t)' <=> Leaving(t)
  BY <1>1 DEF Live, Leaving, flags
<1>3. pc' \in {"idle", "reset", "rate", "ask", "deinit"}
  BY <1>1 DEF AppCall, AudioInit, DeinitCall, StartCall, StopCall, SetFormat, SetSamplerate, Stop, call
<1>4. pc' = "deinit" => todo' = Channels /\ phase' = "open"
  BY <1>1 DEF AppCall, AudioInit, DeinitCall, StartCall, StopCall, SetFormat, SetSamplerate, Stop, call
<1>5. phase' = "closed" => pc' = "idle" /\ used' = {} /\ (Live = {} \/ aborted)
  <2>1. CASE AudioInit
    BY <2>1 DEF AudioInit
  <2>2. CASE DeinitCall
    BY <2>2 DEF DeinitCall, EngineInv
  <2>3. CASE \E c \in Channels : StopCall(c)
    BY <2>3 DEF StopCall, QuietInv
  <2>4. CASE \E c \in Channels : \/ StartCall(c)
                                 \/ \E f \in {"AAC", "PCM"} : SetFormat(c, f)
                                 \/ \E ok \in BOOLEAN : SetSamplerate(c, ok)
    BY <2>4 DEF StartCall, SetFormat, SetSamplerate
  <2> QED
    BY <2>1, <2>2, <2>3, <2>4 DEF AppCall
<1>6. pc' # "ask" => then' = then
  BY <1>1 DEF AppCall, AudioInit, DeinitCall, StartCall, StopCall, SetFormat, SetSamplerate, Stop, call
<1> QED
  BY <1>1, <1>2, <1>3, <1>4, <1>5, <1>6 DEF QuietInv, flags

\* The steps within a call.
LEMMA QuietStep ==
  ASSUME AlsaTypeOK, EngineInv, QuietInv, AppStep PROVE QuietInv'
<1>0. phase # "closed" /\ pc # "idle"
  BY DEF AppStep, StartReset, StartUnabort, StartSpawn, StartMark, StopAsk, StopDone,
         Reconfigure, DeinitChannel, DeinitDone, QuietInv
<1>1. CASE StartReset
  BY <1>0, <1>1 DEF StartReset, settings, QuietInv
<1>2. CASE StartUnabort
  BY <1>0, <1>2 DEF StartUnabort, settings, QuietInv
<1>3. CASE StartSpawn
  <2>1. UNCHANGED <<phase, exitEngine, aborted>> /\ pc = "spawn"
    BY <1>3 DEF StartSpawn, settings
  <2>4. then' = "idle" /\ pc' \notin {"deinit", "unabort", "wait", "ask"}
    BY <1>3, <2>1 DEF StartSpawn, Return, QuietInv
  <2>2. CASE engineStarted
    BY <1>0, <1>3, <2>1, <2>2, <2>4 DEF StartSpawn, QuietInv, Leaving
  <2>3. CASE ~engineStarted
    <3>1. ~aborted /\ started'[ch] /\ ch \in Channels /\ engineStarted'
      BY <1>3, <2>1, <2>3 DEF StartSpawn, QuietInv, AlsaTypeOK
    <3>2. pc' = "mark" \/ (pc' # "spawn" /\ Live' = {})
      BY <1>3, <2>3 DEF StartSpawn, Return, EngineInv, AlsaTypeOK, Live
    <3> QED
      BY <1>0, <2>1, <2>4, <3>1, <3>2 DEF QuietInv
  <2> QED
    BY <2>2, <2>3
<1>4. CASE StartMark
  <2>1. UNCHANGED <<phase, exitEngine, aborted, engine, todo>> /\ pc = "mark" /\ ch \in Channels
        /\ started' = [started EXCEPT ![ch] = TRUE] /\ pc' = then /\ then' = "idle"
    BY <1>4 DEF StartMark, Return, settings, AlsaTypeOK
  <2>2. then = "idle"
    BY <2>1 DEF QuietInv
  <2> QED
    BY <1>0, <2>1, <2>2 DEF QuietInv, AlsaTypeOK, Live, Leaving
<1>5. CASE StopAsk
  <2>1. UNCHANGED <<phase, aborted, engine, started>> /\ exitEngine' = TRUE /\ pc = "ask" /\ pc' = "wait"
    BY <1>5 DEF StopAsk, settings
  <2> QED
    BY <1>0, <2>1 DEF QuietInv, Live, Leaving
<1>6. CASE StopDone
  <2>1. UNCHANGED <<phase, engine>> /\ ~aborted' /\ Live = {} /\ then' = "idle"
    BY <1>6 DEF StopDone, Return, settings, EngineInv
  <2> QED
    BY <1>0, <2>1 DEF QuietInv, Live
<1>7. CASE Reconfigure
  <2>1. UNCHANGED <<phase, flags, engine, then>> /\ pc = "rate" /\ pc' \in {"idle", "reset"}
    BY <1>7 DEF Reconfigure
  <2> QED
    BY <1>0, <2>1 DEF QuietInv, Live, Leaving, flags
<1>8. CASE DeinitChannel
  <2>1. UNCHANGED <<phase, flags, engine>> /\ pc = "deinit" /\ pc' \in {"ask", "deinit"}
        /\ todo # {} /\ ch' = First(todo) /\ todo' = todo \ {ch'}
    BY <1>8 DEF DeinitChannel, Stop, settings
  <2>2. pc' = "deinit" => then' = then /\ (~started[ch'] \/ ~engineStarted \/ aborted)
    BY <1>8 DEF DeinitChannel, Stop
  <2>3. Live' = Live /\ \A t \in Threads : Leaving(t)' <=> Leaving(t)
    BY <2>1 DEF Live, Leaving, flags
  <2>4. pc' = "deinit" /\ Live' # {} /\ ~aborted' => \E c \in todo' : started'[c]
    BY <2>1, <2>2, <2>3 DEF QuietInv, EngineInv, flags
  <2> QED
    BY <1>0, <2>1, <2>2, <2>3, <2>4 DEF QuietInv, flags
<1>9. CASE DeinitDone
  <2>1. UNCHANGED <<flags, engine, then>> /\ pc = "deinit" /\ todo = {} /\ pc' = "idle" /\ used' = {}
    BY <1>9 DEF DeinitDone
  <2>2. Live = {} \/ aborted
    BY <2>1 DEF QuietInv
  <2> QED
    BY <2>1, <2>2 DEF QuietInv, Live, Leaving, flags
<1> QED
  BY <1>1, <1>2, <1>3, <1>4, <1>5, <1>6, <1>7, <1>8, <1>9 DEF AppStep

\* An engine thread alone never makes a stopped engine act.
LEMMA QuietEngine ==
  ASSUME AlsaTypeOK, EngineInv, QuietInv, NEW t \in Threads, AudioEngine(t) PROVE QuietInv'
<1>1. UNCHANGED <<phase, used, pc, then, todo, started, engineStarted>>
  BY DEF AudioEngine, EngineBegin, EngineTop, EngineAac, EnginePcm, EngineAbort, EngineExit,
         EngineLeave, flags, settings, call
<1>2. /\ t \in Live /\ Live' \subseteq Live
      /\ Live' # Live => EngineLeave(t)
      /\ \A s \in Threads \ {t} : engine'[s] = engine[s]
      /\ EngineLeave(t) => Live' = Live \ {t}
  BY EngineLives
<1>3. \A s \in Threads \ {t} : engine'[s].at = "none"
  BY <1>2 DEF EngineInv, Live
<1>4. aborted' => aborted \/ EngineAbort(t)
  BY DEF AudioEngine, EngineBegin, EngineTop, EngineAac, EnginePcm, EngineExit, EngineLeave, flags
<1>5. Leaving(t) /\ ~EngineAbort(t) => Leaving(t)'
  BY DEF AudioEngine, EngineBegin, EngineTop, EngineAac, EnginePcm, EngineExit, EngineLeave, Goes,
         flags, Leaving, AlsaTypeOK, NoEngine
<1>6. EngineAbort(t) => engine'[t].at = "exit"
  BY DEF EngineAbort, Goes, AlsaTypeOK
<1>7. aborted' /\ pc' # "unabort" => \A s \in Threads : Leaving(s)'
  <2>1. CASE EngineAbort(t)
    BY <2>1, <1>3, <1>6 DEF Leaving
  <2>2. CASE ~EngineAbort(t)
    BY <2>2, <1>1, <1>3, <1>4, <1>5 DEF Leaving, QuietInv
  <2> QED
    BY <2>1, <2>2
<1>8. aborted => aborted'
  BY DEF AudioEngine, EngineBegin, EngineTop, EngineAac, EnginePcm, EngineAbort, EngineExit,
         EngineLeave, flags
<1>9. engineStarted
  BY <1>2 DEF EngineInv
<1> QED
  BY <1>1, <1>2, <1>7, <1>8, <1>9 DEF QuietInv

\* Every step keeps a stopped engine away from the device.
LEMMA QuietNext == AlsaTypeOK /\ EngineInv /\ QuietInv /\ [Next]_vars => QuietInv'
<1> SUFFICES ASSUME AlsaTypeOK, EngineInv, QuietInv, [Next]_vars PROVE QuietInv'
  OBVIOUS
<1>1. CASE Unplug \/ UNCHANGED vars
  BY <1>1 DEF Unplug, vars, settings, flags, call, QuietInv, Live, Leaving
<1> QED
  BY <1>1, QuietCall, QuietStep, QuietEngine DEF Next

\* After stop and after deinit no engine reads or calls the client, also when
\* the engine aborted and stop or deinit therefore did not wait for it
\* (uac.c:386-416, 563-577): the client may free what its callback uses.
THEOREM NoReadsAfterStop == Spec => []QuietWhenStopped
<1>1. AlsaTypeOK /\ EngineInv /\ QuietInv => QuietWhenStopped
  <2> SUFFICES ASSUME EngineInv, QuietInv, pc = "idle", ~engineStarted \/ phase = "closed"
               PROVE  Reading = {}
    BY DEF QuietWhenStopped
  <2>1. Live = {} => Reading = {}
    BY DEF Live, Reading
  <2>2. aborted => Reading = {}
    BY DEF QuietInv, Leaving, Reading
  <2> QED
    BY <2>1, <2>2 DEF EngineInv, QuietInv
<1> QED
  BY <1>1, TypeInit, EngineInit, QuietInit, TypeNext, EngineNext, QuietNext, PTL DEF Spec

(***************************************************************************)
(* The device that is read. A channel whose device is the only one that    *)
(* was ever opened, and is closed, is read or marked only while the engine *)
(* is aborted and therefore on its way out.                                *)
(***************************************************************************)

OnlyClosed(c) == handle[c] = "closed" /\ \A d \in Channels \ {c} : handle[d] = "null"
Chosen(t, c) == engine[t].at \notin {"none", "begin"} /\ engine[t].chan = c

PcmInv ==
  /\ \A c \in Channels : started[c] => handle[c] # "null"
  /\ pc \in {"reset", "unabort", "spawn", "mark"} => handle[ch] = "open"
  /\ \A t \in Live : engine[t].at # "begin" =>
       engine[t].chan \in Channels /\ handle[engine[t].chan] # "null"
  /\ \A c \in Channels :
       OnlyClosed(c) /\ (started[c] \/ \E t \in Threads : Chosen(t, c)) => aborted

\* Before the first start the device is closed and no one reads it.
LEMMA PcmInit == Init => PcmInv
  BY DEF Init, PcmInv, Live, NoEngine, Chosen, OnlyClosed

\* A stop keeps the calls apart from a start, and closes a device only while
\* the engine is aborted.
LEMMA StopCloses ==
  ASSUME AlsaTypeOK, NEW c \in Channels, NEW next \in {"idle", "rate", "deinit"}, Stop(c, next)
  PROVE  /\ pc' \in {"idle", "rate", "deinit", "ask"}
         /\ \/ handle' = handle
            \/ aborted /\ handle' = [handle EXCEPT ![c] = "closed"]
  BY DEF Stop, ClosePcm

\* As long as flags and engine stay, opening a device, and closing one while the
\* engine is aborted, keeps the invariant.
LEMMA PcmHandle ==
  ASSUME AlsaTypeOK, PcmInv, UNCHANGED <<flags, engine>>, NEW c \in Channels,
         \/ handle' = handle
         \/ handle' = [handle EXCEPT ![c] = "open"]
         \/ aborted /\ handle' = [handle EXCEPT ![c] = "closed"],
         pc' \in {"reset", "unabort", "spawn", "mark"} => handle'[ch'] = "open"
  PROVE  PcmInv'
<1>1. UNCHANGED <<started, aborted, engine>> /\ Live' = Live
  BY DEF flags, Live
<1>2. \A d \in Channels : handle[d] # "null" => handle'[d] # "null"
  BY DEF AlsaTypeOK
<1>3. ASSUME NEW d \in Channels, OnlyClosed(d)', ~aborted PROVE OnlyClosed(d)
  BY <1>3, <1>2 DEF OnlyClosed, AlsaTypeOK
<1>4. ASSUME NEW d \in Channels PROVE \A t \in Threads : Chosen(t, d)' <=> Chosen(t, d)
  BY <1>1 DEF Chosen
<1> QED
  BY <1>1, <1>2, <1>3, <1>4 DEF PcmInv

\* The first steps of the calls, and the settings.
LEMMA PcmCall ==
  ASSUME AlsaTypeOK, PcmInv, AppCall PROVE PcmInv'
<1>1. UNCHANGED <<flags, engine>> /\ pc = "idle"
  BY DEF AppCall, AudioInit, DeinitCall, StartCall, StopCall, SetFormat, SetSamplerate
<1>2. CASE AudioInit \/ DeinitCall
           \/ \E c \in Channels : \E f \in {"AAC", "PCM"} : SetFormat(c, f)
  <2>1. handle' = handle /\ pc' \in {"idle", "deinit"} /\ ch \in Channels
    BY <1>1, <1>2 DEF AudioInit, DeinitCall, SetFormat, call, AlsaTypeOK
  <2> QED
    BY <1>1, <2>1, PcmHandle
<1>3. ASSUME NEW c \in Channels, StartCall(c) PROVE PcmInv'
  <2>1. CASE handle' = [handle EXCEPT ![c] = "open"]
    <3>1. ch' = c
      BY <1>3 DEF StartCall
    <3>2. handle'[ch'] = "open"
      BY <2>1, <3>1 DEF AlsaTypeOK
    <3> QED
      BY <1>1, <2>1, <3>2, PcmHandle
  <2>2. CASE handle' = handle /\ pc' = "idle"
    BY <1>1, <2>2, PcmHandle
  <2> QED
    BY <1>1, <1>3, <2>1, <2>2 DEF StartCall, Open, OpenFails
<1>4. ASSUME NEW c \in Channels, StopCall(c) PROVE PcmInv'
  <2>1. Stop(c, "idle")
    BY <1>4 DEF StopCall
  <2> QED
    BY <1>1, <2>1, StopCloses, PcmHandle
<1>5. ASSUME NEW c \in Channels, NEW ok \in BOOLEAN, SetSamplerate(c, ok) PROVE PcmInv'
  <2>1. CASE started[c]
    <3>1. Stop(c, "rate")
      BY <1>5, <2>1 DEF SetSamplerate
    <3> QED
      BY <1>1, <3>1, StopCloses, PcmHandle
  <2>2. CASE ~started[c]
    <3>1. handle' = handle /\ pc' = "idle"
      BY <1>1, <1>5, <2>2 DEF SetSamplerate
    <3> QED
      BY <1>1, <3>1, PcmHandle
  <2> QED
    BY <2>1, <2>2
<1> QED
  BY <1>2, <1>3, <1>4, <1>5 DEF AppCall

\* The steps within a call.
LEMMA PcmStep ==
  ASSUME AlsaTypeOK, EngineInv, QuietInv, PcmInv, AppStep PROVE PcmInv'
<1> DEFINE Starts == {"reset", "unabort", "spawn", "mark"}
<1>1. CASE StartReset
  <2>1. UNCHANGED <<handle, aborted, engine, ch>> /\ pc = "reset"
        /\ \A c \in Channels : started'[c] => started[c]
    BY <1>1 DEF StartReset, AlsaTypeOK
  <2> QED
    BY <2>1 DEF PcmInv, Live, Chosen, OnlyClosed
<1>2. CASE StartUnabort
  <2>1. UNCHANGED <<handle, started, engine, ch>> /\ pc = "unabort" /\ handle[ch] = "open"
        /\ ch \in Channels
    BY <1>2 DEF StartUnabort, PcmInv, AlsaTypeOK
  <2>2. \A c \in Channels : ~OnlyClosed(c)'
    BY <2>1 DEF OnlyClosed
  <2> QED
    BY <2>1, <2>2 DEF PcmInv, Live
<1>3. CASE StartSpawn \/ StartMark
  <2>1. UNCHANGED <<handle, aborted, ch>> /\ pc \in Starts /\ handle[ch] = "open" /\ ch \in Channels
    BY <1>3 DEF StartSpawn, StartMark, PcmInv, AlsaTypeOK
  <2>2. \A c \in Channels : ~OnlyClosed(c)'
    BY <2>1 DEF OnlyClosed
  <2>3. \A c \in Channels : started'[c] => started[c] \/ c = ch
    BY <1>3 DEF StartSpawn, StartMark, AlsaTypeOK
  <2>4. ASSUME NEW t \in Threads PROVE engine'[t] = engine[t] \/ engine'[t].at = "begin"
    <3> DEFINE begin == [at |-> "begin", chan |-> 0, fails |-> 0]
    <3>1. engine' = engine \/ \E s : engine' = [engine EXCEPT ![s] = begin]
      BY <1>3 DEF StartSpawn, StartMark
    <3>2. begin.at = "begin"
      OBVIOUS
    <3> HIDE DEF begin
    <3> QED
      BY <3>1, <3>2 DEF AlsaTypeOK
  <2>5. \A t \in Live' : engine'[t].at # "begin" => engine'[t] = engine[t] /\ t \in Live
    BY <2>4 DEF Live
  <2> QED
    BY <2>1, <2>2, <2>3, <2>5 DEF PcmInv
<1>4. CASE StopAsk
  BY <1>4 DEF StopAsk, PcmInv, Live, Chosen, OnlyClosed
<1>5. CASE StopDone
  <2>1. UNCHANGED <<engine, ch>> /\ Live = {} /\ ch \in Channels /\ pc = "wait" /\ pc' = then
        /\ handle' = [handle EXCEPT ![ch] = "closed"] /\ started' = [started EXCEPT ![ch] = FALSE]
    BY <1>5 DEF StopDone, ClosePcm, Return, EngineInv, AlsaTypeOK
  <2>2. \A c \in Channels : handle[c] # "null" => handle'[c] # "null"
    BY <2>1 DEF AlsaTypeOK
  <2>3. \A c \in Channels : OnlyClosed(c)' => c = ch
    BY <2>1 DEF OnlyClosed, AlsaTypeOK
  <2>4. Live' = {} /\ \A t \in Threads : engine'[t].at = "none"
    BY <2>1 DEF Live
  <2>5. \A c \in Channels : started'[c] => started[c] /\ c # ch
    BY <2>1 DEF AlsaTypeOK
  <2>6. pc' \notin Starts
    BY <2>1 DEF AlsaTypeOK
  <2> QED
    BY <2>2, <2>3, <2>4, <2>5, <2>6 DEF PcmInv, Chosen
<1>6. CASE Reconfigure
  <2>1. UNCHANGED <<flags, engine, ch>> /\ ch \in Channels
        /\ \/ handle' = handle /\ pc' = "idle"
           \/ handle' = [handle EXCEPT ![ch] = "open"]
    BY <1>6 DEF Reconfigure, Open, OpenFails, AlsaTypeOK
  <2>2. pc' \in Starts => handle'[ch'] = "open"
    BY <2>1 DEF AlsaTypeOK
  <2> QED
    BY <2>1, <2>2, PcmHandle
<1>7. CASE DeinitChannel
  <2>1. UNCHANGED <<flags, engine>> /\ ch' \in Channels
    BY <1>7, FirstIn DEF DeinitChannel, AlsaTypeOK
  <2>2. PICK c \in Channels : c = ch'
    BY <2>1
  <2>3. CASE started[c]
    <3>1. Stop(c, "deinit")
      BY <1>7, <2>2, <2>3 DEF DeinitChannel
    <3> QED
      BY <2>1, <3>1, StopCloses, PcmHandle
  <2>4. CASE ~started[c]
    <3>1. handle' = handle /\ pc' = "deinit"
      BY <1>7, <2>2, <2>4 DEF DeinitChannel
    <3> QED
      BY <2>1, <3>1, PcmHandle
  <2> QED
    BY <2>3, <2>4
<1>8. CASE DeinitDone
  <2>1. UNCHANGED <<flags, engine, handle>> /\ pc' = "idle" /\ ch \in Channels
    BY <1>8 DEF DeinitDone, AlsaTypeOK
  <2> QED
    BY <2>1, PcmHandle
<1> QED
  BY <1>1, <1>2, <1>3, <1>4, <1>5, <1>6, <1>7, <1>8 DEF AppStep

\* An engine chooses its channel once, among the started ones, and not when it
\* is aborted.
LEMMA PcmEngine ==
  ASSUME AlsaTypeOK, QuietInv, PcmInv, NEW t \in Threads, AudioEngine(t) PROVE PcmInv'
<1>1. UNCHANGED <<handle, started, pc, ch>> /\ (aborted => aborted')
  BY DEF AudioEngine, EngineBegin, EngineTop, EngineAac, EnginePcm, EngineAbort, EngineExit,
         EngineLeave, flags, call
<1>2. t \in Live /\ Live' \subseteq Live /\ \A s \in Threads \ {t} : engine'[s] = engine[s]
  BY EngineLives
<1>3. CASE EngineBegin(t)
  <2>1. PICK c \in Channels : started[c] /\ engine'[t].chan = c
    BY <1>3 DEF EngineBegin, AlsaTypeOK, NoEngine
  <2>2. engine[t].at = "begin" /\ ~Leaving(t)
    BY <1>3 DEF EngineBegin, Leaving
  <2>3. aborted => pc = "unabort"
    BY <2>2 DEF QuietInv
  <2>4. \A d \in Channels : OnlyClosed(d)' => OnlyClosed(d)
    BY <1>1 DEF OnlyClosed
  <2>5. \A s \in Live' : engine'[s].at # "begin" =>
          engine'[s].chan \in Channels /\ handle'[engine'[s].chan] # "null"
    <3>1. engine'[t].chan \in Channels /\ handle[engine'[t].chan] # "null"
      BY <2>1 DEF PcmInv
    <3>2. Live' \subseteq Threads
      BY DEF Live
    <3> QED
      BY <1>1, <1>2, <3>1, <3>2 DEF PcmInv
  <2>6. \A s \in Threads, d \in Channels : Chosen(s, d)' => Chosen(s, d) \/ started[d]
    BY <1>2, <2>1 DEF Chosen
  <2> QED
    BY <1>1, <2>4, <2>5, <2>6 DEF PcmInv
<1>4. CASE ~EngineBegin(t)
  <2>1. engine[t].at \notin {"none", "begin"}
        /\ (engine'[t].at = "none" \/ (engine'[t].at # "begin" /\ engine'[t].chan = engine[t].chan))
    BY <1>4 DEF AudioEngine, EngineTop, EngineAac, EnginePcm, EngineAbort, EngineExit,
                EngineLeave, Goes, AlsaTypeOK, NoEngine
  <2>2. \A d \in Channels : OnlyClosed(d)' => OnlyClosed(d)
    BY <1>1 DEF OnlyClosed
  <2>3. \A s \in Live' : engine'[s].at # "begin" =>
          engine'[s].chan \in Channels /\ handle'[engine'[s].chan] # "null"
    <3>1. engine'[t].at # "none" => engine'[t].chan \in Channels /\ handle'[engine'[t].chan] # "null"
      BY <1>1, <1>2, <2>1 DEF PcmInv
    <3> QED
      BY <1>1, <1>2, <3>1 DEF PcmInv, Live
  <2>4. \A s \in Threads, d \in Channels : Chosen(s, d)' => Chosen(s, d)
    BY <1>2, <2>1 DEF Chosen
  <2> QED
    BY <1>1, <2>2, <2>3, <2>4 DEF PcmInv
<1> QED
  BY <1>3, <1>4

\* Every step keeps a reading engine on a device that is open.
LEMMA PcmNext == AlsaTypeOK /\ EngineInv /\ QuietInv /\ PcmInv /\ [Next]_vars => PcmInv'
<1> SUFFICES ASSUME AlsaTypeOK, EngineInv, QuietInv, PcmInv, [Next]_vars PROVE PcmInv'
  OBVIOUS
<1>1. CASE Unplug \/ UNCHANGED vars
  BY <1>1 DEF Unplug, vars, settings, flags, call, PcmInv, Live, Chosen, OnlyClosed
<1> QED
  BY <1>1, PcmCall, PcmStep, PcmEngine DEF Next

\* The engine reads a PCM that is open, unless the client has opened another
\* channel as well (uac.c:1433), although start, stop and the settings close and
\* open devices without asking an engine that has aborted.
THEOREM ReadsAreOpen == Spec => []ReadsOpenPcm
<1>1. AlsaTypeOK /\ EngineInv /\ QuietInv /\ PcmInv => ReadsOpenPcm
  <2> SUFFICES ASSUME AlsaTypeOK, QuietInv, PcmInv, NEW t \in Reading,
                      handle[engine[t].chan] # "open",
                      \A c \in Channels \ {engine[t].chan} : handle[c] = "null"
               PROVE  FALSE
    BY DEF ReadsOpenPcm
  <2>1. t \in Live /\ engine[t].at \notin {"none", "begin"} /\ ~Leaving(t)
    BY DEF Reading, Live, Leaving
  <2>2. PICK c \in Channels : c = engine[t].chan /\ handle[c] = "closed"
    BY <2>1 DEF PcmInv, AlsaTypeOK
  <2>3. OnlyClosed(c) /\ Chosen(t, c) /\ t \in Threads
    BY <2>1, <2>2 DEF OnlyClosed, Chosen, Live
  <2>4. aborted
    BY <2>3 DEF PcmInv
  <2>5. pc = "unabort"
    BY <2>1, <2>3, <2>4 DEF QuietInv
  <2>6. handle[ch] = "open" /\ ch \in Channels
    BY <2>5 DEF PcmInv, AlsaTypeOK
  <2> QED
    BY <2>3, <2>6 DEF OnlyClosed
<1> QED
  BY <1>1, TypeInit, EngineInit, QuietInit, PcmInit, TypeNext, EngineNext, QuietNext, PcmNext,
     PTL DEF Spec
=============================================================================
