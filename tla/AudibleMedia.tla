----------------------------- MODULE AudibleMedia -----------------------------
(***************************************************************************)
(* The UI process's media playback assertion (src/UIProcess/              *)
(* WebProcessPool.cpp): m_webProcessWithAudibleMediaCounter is a          *)
(* RefCounter whose callback (line 275) runs updateAudibleMediaAssertions *)
(* (lines 2010-2029) on every change. A web process holds a token of it   *)
(* (webProcessWithAudibleMediaToken, lines 2005-2008) while one of its    *)
(* pages plays audible media, and drops it when playback stops or the     *)
(* process goes (WebProcessProxy, outside src/). The assertion also      *)
(* covers the GPU process if one exists when it is taken; the GPU process *)
(* is launched by ensureGPUProcess and cleared by gpuProcessCrashed.      *)
(***************************************************************************)
EXTENDS Naturals, FiniteSets

CONSTANTS
  WebProcs,      \* web content processes
  MaxGPULaunches \* bound on the GPU processes launched in a behaviour

VARIABLES
  hasToken,      \* w -> the process holds a WebProcessWithAudibleMediaToken
  counter,       \* m_webProcessWithAudibleMediaCounter.value()
  gpu,           \* m_gpuProcess: 0 when null, else the launch it came from
  launches,      \* GPU processes launched so far
  activityHeld,  \* m_audibleMediaActivity is set (the UI process assertion)
  activityGPU    \* the GPU process its second assertion is on, 0 for none

vars == <<hasToken, counter, gpu, launches, activityHeld, activityGPU>>

TypeOK ==
  /\ hasToken \in [WebProcs -> BOOLEAN]
  /\ counter \in 0..Cardinality(WebProcs)
  /\ gpu \in 0..MaxGPULaunches /\ launches \in 0..MaxGPULaunches
  /\ activityHeld \in BOOLEAN /\ activityGPU \in 0..MaxGPULaunches

-----------------------------------------------------------------------------
\* Variant: the early return for a held assertion tested before the count.
UpdateAudibleMediaAssertionsHeldFirst(count) ==
  IF activityHeld THEN UNCHANGED <<activityHeld, activityGPU>>
  ELSE IF count = 0 THEN activityHeld' = FALSE /\ activityGPU' = 0
  ELSE activityHeld' = TRUE /\ activityGPU' = gpu

\* updateAudibleMediaAssertions (lines 2010-2029): with no token left the
\* assertion is released; otherwise it is taken unless held, on the UI
\* process and on the GPU process if gpuProcess() is set.
UpdateAudibleMediaAssertions(count) ==
  IF count = 0 THEN activityHeld' = FALSE /\ activityGPU' = 0
  ELSE IF activityHeld THEN UNCHANGED <<activityHeld, activityGPU>>
  ELSE activityHeld' = TRUE /\ activityGPU' = gpu

\* A web process starts playing audible media: it takes a token, the
\* counter goes up and its callback runs (lines 275, 2005-2008).
StartAudibleMedia(w) ==
  /\ ~hasToken[w]
  /\ hasToken' = [hasToken EXCEPT ![w] = TRUE]
  /\ counter' = counter + 1
  /\ UpdateAudibleMediaAssertions(counter + 1)
  /\ UNCHANGED <<gpu, launches>>

\* Playback stops, or the process exits (also when gpuProcessCrashed
\* terminates every web process): the token is dropped and the callback
\* runs.
StopAudibleMedia(w) ==
  /\ hasToken[w]
  /\ hasToken' = [hasToken EXCEPT ![w] = FALSE]
  /\ counter' = counter - 1
  /\ UpdateAudibleMediaAssertions(counter - 1)
  /\ UNCHANGED <<gpu, launches>>

\* ensureGPUProcess (lines 488-493) launching a GPU process.
EnsureGPUProcess ==
  /\ gpu = 0 /\ launches < MaxGPULaunches
  /\ launches' = launches + 1
  /\ gpu' = launches + 1
  /\ UNCHANGED <<hasToken, counter, activityHeld, activityGPU>>

\* gpuProcessCrashed (line 498): m_gpuProcess is cleared; the assertion
\* object is left as it is.
GPUProcessCrashed ==
  /\ gpu # 0
  /\ gpu' = 0
  /\ UNCHANGED <<hasToken, counter, launches, activityHeld, activityGPU>>

Init ==
  /\ hasToken = [w \in WebProcs |-> FALSE] /\ counter = 0
  /\ gpu = 0 /\ launches = 0
  /\ activityHeld = FALSE /\ activityGPU = 0

Next ==
  \/ \E w \in WebProcs : StartAudibleMedia(w) \/ StopAudibleMedia(w)
  \/ EnsureGPUProcess
  \/ GPUProcessCrashed

Spec == Init /\ [][Next]_vars

-----------------------------------------------------------------------------
(* Properties.                                                             *)

\* The UI process holds the media playback assertion exactly while some
\* web process holds an audible media token, however the processes start
\* and stop in turn: the counter's callback releases it when the last
\* token goes and takes it when the first one comes.
AssertionHeldWhileAudible ==
  /\ counter = Cardinality({w \in WebProcs : hasToken[w]})
  /\ activityHeld <=> \E w \in WebProcs : hasToken[w]
=============================================================================
