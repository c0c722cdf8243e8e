-------------------------- MODULE CameraIngestProofs --------------------------
(***************************************************************************)
(* Proofs about CameraIngest, for any pictures, sampling interval, clock,  *)
(* number of frames, releases and attempts.                                *)
(*                                                                         *)
(* The argument: the sampler has never seen more than the ingest has       *)
(* numbered and timed, and the frame in hand is the newest, strictly newer *)
(* than what the sampler remembers.  Until the chain's release is replaced *)
(* nothing is superseded; from then on the count of frames read at that    *)
(* moment bounds what passed the check before it, the frame in hand        *)
(* included, and the check lets nothing else pass.                         *)
(***************************************************************************)
EXTENDS CameraIngest, TLAPS

\* The provers each leaf is tried with in turn, unless it names one.
USE ZenonT(5), SMTT(20), ZenonT(40)

\* The frame in hand is the newest one, and the sampler is behind it.
Ordering ==
  /\ sampler.seq <= seq
  /\ sampler.seen <= observed
  /\ pc \in {"forward", "masked"} =>
       /\ frame.seq = seq /\ frame.at = observed
       /\ sampler.seq < seq

\* What was let through was read before the release was replaced.
Superseding ==
  /\ active = Bound => superseded = MaxFrames
  /\ \A n \in analysed : n <= seq /\ n <= superseded
  /\ pc = "masked" => seq <= superseded

IInv == TypeOK /\ Ordering /\ Superseding

--------------------------------------------------------------------------------
\* The initial states satisfy the invariant.
LEMMA InitIInv == Init => IInv
  <1> SUFFICES ASSUME Init PROVE IInv
    OBVIOUS
  <1>1. TypeOK
    <2>1. /\ MaxVersion \in Nat /\ MaxVersion # 0 /\ MaxAttempts \in Nat /\ MaxTime \in Nat
          /\ MaxFrames \in Nat
      BY BoundsAssumption
    <2>2. NoFrame \in Frame
      BY <2>1 DEF NoFrame, Frame
    <2>3. active \in 1..MaxVersion /\ attempt \in 0..MaxAttempts /\ superseded \in 0..MaxFrames
      BY <2>1 DEF Init, Bound
    <2>4. sampler \in [seq : 0..MaxFrames, seen : Nat, sampled : Nat, digest : Pictures \cup {"none"}]
      BY <2>1 DEF Init
    <2> QED
      BY <2>1, <2>2, <2>3, <2>4 DEF Init, TypeOK
  <1>2. Ordering /\ Superseding
    BY DEF Init, Ordering, Superseding
  <1> QED
    BY <1>1, <1>2 DEF IInv

\* A frame's time is a time, after that of the frame before.
LEMMA ObservedLater ==
  ASSUME TypeOK
  PROVE  ObservedAt \in Nat /\ ObservedAt > observed
  BY BoundsAssumption DEF TypeOK, ObservedAt

\* The clock, the cancellation and the release worker.
LEMMA EnvironmentStep ==
  ASSUME IInv, ClockMoves \/ Cancel \/ ReleaseActivated
  PROVE  IInv'
  <1>1. CASE ClockMoves
    BY <1>1 DEF IInv, TypeOK, Ordering, Superseding, ClockMoves, supervisor, chain, release
  <1>2. CASE Cancel
    BY <1>2 DEF IInv, TypeOK, Ordering, Superseding, Cancel, supervisor, chain, release
  <1>3. CASE ReleaseActivated
    <2>1. UNCHANGED <<sink, now, cancelled, pc, attempt, status, seq, observed, frame, sampler, analysed>>
      BY <1>3 DEF ReleaseActivated, supervisor, chain
    <2>2. /\ active \in 1..MaxVersion /\ active' \in active + 1 .. MaxVersion
          /\ superseded' = IF active = Bound THEN seq ELSE superseded
          /\ MaxVersion \in Nat
      BY <1>3, BoundsAssumption DEF ReleaseActivated, IInv, TypeOK
    <2>3. active' \in 1..MaxVersion /\ active' # Bound
      BY <2>2 DEF Bound
    <2>4. TypeOK'
      BY <2>1, <2>2, <2>3 DEF IInv, TypeOK
    <2>5. Ordering'
      BY <2>1 DEF IInv, Ordering
    <2>6. Superseding'
      BY <2>1, <2>2, <2>3 DEF IInv, Superseding, TypeOK
    <2> QED
      BY <2>4, <2>5, <2>6 DEF IInv
  <1> QED
    BY <1>1, <1>2, <1>3

\* The supervisor's own steps do not touch the chain.
LEMMA SupervisorStep ==
  ASSUME IInv, Begin \/ Start \/ ProcessEnds \/ Exited \/ Wake
  PROVE  IInv'
  <1>1. UNCHANGED <<sink, now, cancelled, seq, observed, frame, sampler, analysed, active, superseded>>
    BY DEF Begin, Start, ProcessEnds, Exited, Wake, chain, release
  <1>2. pc' \in {"loop", "starting", "reading", "exited", "sleeping", "done"}
    BY DEF Begin, Start, ProcessEnds, Exited, Wake, Stop
  <1>3. attempt' \in 0..MaxAttempts
    BY BoundsAssumption DEF IInv, TypeOK, Begin, Start, ProcessEnds, Exited, Wake, Stop
  <1>4. status' \in {"connecting", "streaming", "retrying", "stopped"}
    BY DEF IInv, TypeOK, Begin, Start, ProcessEnds, Exited, Wake, Stop
  <1>5. TypeOK'
    BY <1>1, <1>2, <1>3, <1>4 DEF IInv, TypeOK
  <1>6. Ordering' /\ Superseding'
    BY <1>1, <1>2 DEF IInv, Ordering, Superseding
  <1> QED
    BY <1>5, <1>6 DEF IInv

\* Reading a frame makes it the newest.
LEMMA ReadStep ==
  ASSUME IInv, NEW p \in Pictures, FrameRead(p)
  PROVE  IInv'
  <1>1. UNCHANGED <<attempt, status, sampler, analysed, sink, now, cancelled, active, superseded>>
    BY DEF FrameRead, release
  <1>2. /\ seq \in 0..MaxFrames /\ seq < MaxFrames /\ seq' = seq + 1
        /\ observed' = ObservedAt /\ pc' = "forward"
        /\ frame' = [seq |-> seq + 1, at |-> ObservedAt, picture |-> p]
    BY DEF FrameRead, IInv, TypeOK
  <1>3. seq' \in 0..MaxFrames
    BY <1>2, BoundsAssumption
  <1>4. ObservedAt \in Nat /\ ObservedAt > observed /\ observed \in Nat
    BY ObservedLater DEF IInv, TypeOK
  <1>5. frame' \in Frame
    BY <1>2, <1>3, <1>4 DEF Frame
  <1>6. TypeOK'
    BY <1>1, <1>2, <1>3, <1>4, <1>5 DEF IInv, TypeOK
  <1>7. sampler.seq \in Nat /\ sampler.seen \in Nat
    BY DEF IInv, TypeOK
  <1>8. Ordering'
    BY <1>1, <1>2, <1>4, <1>7 DEF IInv, Ordering
  <1>9. Superseding'
    BY <1>1, <1>2 DEF IInv, Superseding, TypeOK
  <1> QED
    BY <1>6, <1>8, <1>9 DEF IInv

\* The mask check lets a frame pass only while its release is the active one.
LEMMA ForwardStep ==
  ASSUME IInv, Forward
  PROVE  IInv'
  <1>1. UNCHANGED <<attempt, status, seq, observed, sampler, analysed, sink, now, cancelled, active, superseded>>
    BY DEF Forward, release
  <1>2. \/ pc = "forward" /\ pc' = "masked" /\ frame' = frame /\ active = Bound
        \/ pc' = "exited" /\ frame' = NoFrame
    BY DEF Forward, ConsumerFails, MaskIsActive
  <1>3. NoFrame \in Frame
    BY BoundsAssumption DEF NoFrame, Frame
  <1>4. TypeOK'
    BY <1>1, <1>2, <1>3 DEF IInv, TypeOK
  <1>5. Ordering'
    BY <1>1, <1>2 DEF IInv, Ordering
  <1>6. Superseding'
    BY <1>1, <1>2 DEF IInv, Superseding, TypeOK
  <1> QED
    BY <1>4, <1>5, <1>6 DEF IInv

\* Sampling moves the sampler's memory up to the frame in hand at most.
LEMMA SampleStep ==
  ASSUME IInv, Sample
  PROVE  IInv'
  <1>1. UNCHANGED <<attempt, status, seq, observed, sink, now, cancelled, active, superseded>>
    BY DEF Sample, release
  <1>2. pc = "masked" /\ pc' \in {"reading", "exited"} /\ frame' = NoFrame
    BY DEF Sample, Consumed, ConsumerFails
  <1>3. NoFrame \in Frame
    BY BoundsAssumption DEF NoFrame, Frame
  <1>4. /\ frame.seq = seq /\ frame.at = observed /\ sampler.seq < seq /\ seq <= superseded
        /\ seq \in 0..MaxFrames /\ sampler.seq \in 0..MaxFrames
        /\ frame.at \in Nat /\ frame.picture \in Pictures \cup {"none"}
        /\ sampler.sampled \in Nat /\ sampler.digest \in Pictures \cup {"none"}
    BY <1>2 DEF IInv, Ordering, Superseding, TypeOK, Frame
  <1>5. analysed' = analysed \/ analysed' = analysed \cup {seq}
    BY <1>4 DEF Sample
  <1>6. /\ sampler' \in [seq : 0..MaxFrames, seen : Nat, sampled : Nat, digest : Pictures \cup {"none"}]
        /\ sampler'.seq <= seq /\ sampler'.seen <= observed
    <2>1. CASE sampler' = sampler
      BY <2>1 DEF IInv, TypeOK, Ordering
    <2>2. CASE sampler' = [seq |-> frame.seq, seen |-> frame.at,
                           sampled |-> IF RateSuppressed THEN sampler.sampled ELSE frame.at,
                           digest |-> IF RateSuppressed THEN sampler.digest ELSE frame.picture]
      BY <1>4, <2>2
    <2> QED
      BY <2>1, <2>2 DEF Sample
  <1>7. seq \in 1..MaxFrames
    BY <1>4
  <1>8. TypeOK'
    BY <1>1, <1>2, <1>3, <1>5, <1>6, <1>7 DEF IInv, TypeOK
  <1>9. Ordering'
    BY <1>1, <1>2, <1>6 DEF Ordering
  <1>10. Superseding'
    BY <1>1, <1>2, <1>4, <1>5 DEF IInv, Superseding
  <1> QED
    BY <1>8, <1>9, <1>10 DEF IInv

\* Every step preserves the invariant.
LEMMA StepIInv == IInv /\ [Next]_vars => IInv'
  <1> SUFFICES ASSUME IInv, [Next]_vars PROVE IInv'
    OBVIOUS
  <1>1. CASE UNCHANGED vars
    BY <1>1 DEF IInv, TypeOK, Ordering, Superseding, vars, supervisor, chain, release
  <1>2. CASE Next
    BY <1>2, EnvironmentStep, SupervisorStep, ReadStep, ForwardStep, SampleStep DEF Next, Supervise
  <1> QED
    BY <1>1, <1>2

--------------------------------------------------------------------------------
\* The ordering of frames and the bookkeeping of releases hold in every state of
\* a camera's ingest, whatever FFmpeg, the clock and the release worker do.
THEOREM Invariance == Spec => []IInv
  <1> QED
    BY InitIInv, StepIInv, PTL DEF Spec

\* The variables keep their types.
THEOREM TypeCorrect == Spec => []TypeOK
  <1>1. IInv => TypeOK
    BY DEF IInv
  <1> QED
    BY Invariance, <1>1, PTL

\* ConsumeMaskedFrame never refuses a frame of its ingest as out of order.
THEOREM FramesInOrder == Spec => []NeverOutOfOrder
  <1>1. IInv => NeverOutOfOrder
    BY DEF IInv, Ordering, TypeOK, NeverOutOfOrder, InOrder
  <1> QED
    BY Invariance, <1>1, PTL

\* No frame read after a newer release became active is analysed under the mask
\* it replaced, although Forward checks the release before it masks the frame.
THEOREM ReplacedMaskStops == Spec => []SupersededMaskStops
  <1>1. IInv => SupersededMaskStops
    BY DEF IInv, Superseding, SupersededMaskStops
  <1> QED
    BY Invariance, <1>1, PTL
================================================================================
