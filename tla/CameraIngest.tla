----------------------------- MODULE CameraIngest -----------------------------
(***************************************************************************)
(* One camera of the edge agent: the supervisor of its FFmpeg process, the *)
(* mask boundary and the frame sampler in front of the analytics.          *)
(*                                                                         *)
(* RTSPIngest.Run starts the process, reads decoded frames from it, and    *)
(* starts it again whenever it ends, until the context is cancelled.  With *)
(* a null sink no frame is read.  With the mask and sampler chain each     *)
(* frame is numbered and timed, refused unless the mask it would get is    *)
(* the active release, masked, and sampled.  The chain is built once:      *)
(* numbers, times and the sampler's memory survive restarts of the         *)
(* process, while the wall clock may be set back and the release worker    *)
(* may activate a newer release at any time.                               *)
(*                                                                         *)
(* Times are ticks, one tick being the least difference between two times; *)
(* 0 is the zero time.  A picture stands for the masked pixels of a frame, *)
(* and for their digest.  Retry delays are untimed.                        *)
(***************************************************************************)
EXTENDS Naturals

CONSTANTS Pictures,
          Interval,     \* ticks between two sampled frames
          MaxTime,      \* bound on the wall clock
          MaxFrames,    \* bound on frames read
          MaxVersion,   \* bound on mask releases
          MaxAttempts   \* the attempt count is kept up to this bound

ASSUME BoundsAssumption ==
  /\ {Interval, MaxTime, MaxVersion, MaxAttempts} \subseteq Nat \ {0}
  /\ MaxFrames \in Nat

VARIABLES
  sink,       \* "null" or "chain": whether a frame pipeline is configured
  now,        \* the wall clock
  cancelled,  \* the runtime has cancelled its context
  pc,         \* where Run stands
  attempt,
  status,     \* the state Run has last published
  seq,        \* RTSPIngest.sequence
  observed,   \* RTSPIngest.lastFrameObserved
  frame,      \* the frame being forwarded
  sampler,    \* the memory of the AnalyticsFrameSampler
  active,     \* version active in the hardware adapter
  superseded, \* history: frames read when the chain's release was replaced
  analysed    \* history: numbers of the frames the analytics have been given

supervisor == <<pc, attempt, status>>
chain == <<seq, observed, frame, sampler, analysed>>
release == <<active, superseded>>
vars == <<sink, now, cancelled, supervisor, chain, release>>

Bound == 1   \* the release the chain was built for, active at that time
Frame == [seq : 0..MaxFrames, at : Nat, picture : Pictures \cup {"none"}]
NoFrame == [seq |-> 0, at |-> 0, picture |-> "none"]

Init ==
  /\ sink \in {"null", "chain"}
  /\ now \in 1..MaxTime
  /\ cancelled = FALSE
  /\ pc = "loop"
  /\ attempt = 0
  /\ status = "stopped"
  /\ seq = 0
  /\ observed = 0
  /\ frame = NoFrame
  /\ sampler = [seq |-> 0, seen |-> 0, sampled |-> 0, digest |-> "none"]
  /\ active = Bound
  /\ superseded = MaxFrames
  /\ analysed = {}

--------------------------------------------------------------------------------
(* The environment *)

\* The clock goes on, or is set back.
ClockMoves ==
  /\ now' \in 1..MaxTime \ {now}
  /\ UNCHANGED <<sink, cancelled, supervisor, chain, release>>

\* The caller cancels, or another part of the runtime has returned.
Cancel ==
  /\ ~ cancelled
  /\ cancelled' = TRUE
  /\ UNCHANGED <<sink, now, supervisor, chain, release>>

\* The release worker activates a newer mask on the adapter.
ReleaseActivated ==
  /\ active < MaxVersion
  /\ active' \in active + 1 .. MaxVersion
  /\ superseded' = IF active = Bound THEN seq ELSE superseded
  /\ UNCHANGED <<sink, now, cancelled, supervisor, chain>>

--------------------------------------------------------------------------------
(* RTSPIngest.Run *)

\* Run returns; it has published the stopped state.
Stop ==
  /\ pc' = "done"
  /\ status' = "stopped"
  /\ UNCHANGED attempt

\* The head of the loop.
Begin ==
  /\ pc = "loop"
  /\ \/ cancelled /\ Stop
     \/ /\ ~ cancelled
        /\ attempt' = IF attempt < MaxAttempts THEN attempt + 1 ELSE attempt
        /\ status' = "connecting"
        /\ pc' = "starting"
  /\ UNCHANGED <<sink, now, cancelled, chain, release>>

\* FFmpeg starts, unless it cannot or the context is cancelled already.
Start ==
  /\ pc = "starting"
  /\ \/ pc' = "exited" /\ UNCHANGED status
     \/ ~ cancelled /\ pc' = "reading" /\ status' = "streaming"
  /\ UNCHANGED <<attempt, sink, now, cancelled, chain, release>>

\* The output ends, is cut off within a frame, or the process is killed.
ProcessEnds ==
  /\ pc = "reading"
  /\ pc' = "exited"
  /\ UNCHANGED <<attempt, status, sink, now, cancelled, chain, release>>

\* Mutant: Run returns before it has published the stopped state.
Exited_Silent ==
  /\ pc = "exited"
  /\ \/ cancelled /\ pc' = "done" /\ UNCHANGED status
     \/ ~ cancelled /\ pc' = "sleeping" /\ status' = "retrying"
  /\ UNCHANGED <<attempt, sink, now, cancelled, chain, release>>

\* The attempt is over, with an error or without.
Exited ==
  /\ pc = "exited"
  /\ \/ cancelled /\ Stop
     \/ ~ cancelled /\ pc' = "sleeping" /\ status' = "retrying" /\ UNCHANGED attempt
  /\ UNCHANGED <<sink, now, cancelled, chain, release>>

\* The delay ends; when the context ends too, either may be noticed.
Wake ==
  /\ pc = "sleeping"
  /\ \/ cancelled /\ Stop
     \/ pc' = "loop" /\ UNCHANGED <<attempt, status>>
  /\ UNCHANGED <<sink, now, cancelled, chain, release>>

--------------------------------------------------------------------------------
(* A frame *)

\* Mutant: the wall clock is taken as it is.
ObservedAt_Clock == now

\* The wall clock, pushed past the time of the frame before.
ObservedAt == IF now > observed THEN now ELSE observed + 1

\* A complete frame is read, numbered and timed.
FrameRead(p) ==
  /\ pc = "reading" /\ sink = "chain" /\ seq < MaxFrames
  /\ seq' = seq + 1
  /\ observed' = ObservedAt
  /\ frame' = [seq |-> seq + 1, at |-> ObservedAt, picture |-> p]
  /\ pc' = "forward"
  /\ UNCHANGED <<attempt, status, sampler, analysed, sink, now, cancelled, release>>

\* The consumer's error ends the attempt.
ConsumerFails ==
  /\ pc' = "exited"
  /\ frame' = NoFrame

\* Mutant: any active release will do.
MaskIsActive_Any == active >= Bound

MaskIsActive == active = Bound

\* Forward refuses the frame unless its mask is the active release.
Forward ==
  /\ pc = "forward"
  /\ IF MaskIsActive /\ ~ cancelled
       THEN pc' = "masked" /\ UNCHANGED frame
       ELSE ConsumerFails
  /\ UNCHANGED <<attempt, status, seq, observed, sampler, analysed, sink, now, cancelled, release>>

InOrder == frame.seq > sampler.seq /\ frame.at >= sampler.seen
RateSuppressed == sampler.sampled # 0 /\ frame.at < sampler.sampled + Interval
Duplicate == frame.picture = sampler.digest

\* Back to the pipe.
Consumed ==
  /\ pc' = "reading"
  /\ frame' = NoFrame

\* The sampler takes the masked frame and suppresses it or hands it on.  Time
\* and digest are remembered before the analytics have answered.
Sample ==
  /\ pc = "masked"
  /\ IF cancelled \/ ~ InOrder
       THEN ConsumerFails /\ UNCHANGED <<sampler, analysed>>
       ELSE /\ sampler' = [seq |-> frame.seq, seen |-> frame.at,
                           sampled |-> IF RateSuppressed THEN sampler.sampled ELSE frame.at,
                           digest |-> IF RateSuppressed THEN sampler.digest ELSE frame.picture]
            /\ IF RateSuppressed \/ Duplicate
                 THEN Consumed /\ UNCHANGED analysed
                 ELSE /\ analysed' = analysed \cup {frame.seq}
                      /\ Consumed \/ ConsumerFails
  /\ UNCHANGED <<attempt, status, seq, observed, sink, now, cancelled, release>>

--------------------------------------------------------------------------------
Supervise == Begin \/ Start \/ Exited \/ Wake \/ Forward \/ Sample

Next ==
  \/ ClockMoves
  \/ Cancel
  \/ ReleaseActivated
  \/ Supervise
  \/ ProcessEnds
  \/ \E p \in Pictures : FrameRead(p)

Spec == Init /\ [][Next]_vars

\* The goroutine runs, the timer fires, the analytics answer, and a cancelled
\* context kills the process; a process that is not cancelled may run for ever.
Fairness ==
  /\ WF_vars(Supervise)
  /\ WF_vars(cancelled /\ ProcessEnds)

FairSpec == Spec /\ Fairness

--------------------------------------------------------------------------------
TypeOK ==
  /\ sink \in {"null", "chain"}
  /\ now \in 1..MaxTime
  /\ cancelled \in BOOLEAN
  /\ pc \in {"loop", "starting", "reading", "forward", "masked", "exited", "sleeping", "done"}
  /\ attempt \in 0..MaxAttempts
  /\ status \in {"connecting", "streaming", "retrying", "stopped"}
  /\ seq \in 0..MaxFrames
  /\ observed \in Nat
  /\ frame \in Frame
  /\ sampler \in [seq : 0..MaxFrames, seen : Nat, sampled : Nat, digest : Pictures \cup {"none"}]
  /\ active \in 1..MaxVersion
  /\ superseded \in 0..MaxFrames
  /\ analysed \subseteq 1..MaxFrames

\* The sampler never refuses a frame of its own camera as out of order, however
\* often FFmpeg is restarted and the clock set back: a refusal ends the process.
NeverOutOfOrder == pc = "masked" => InOrder

\* Once a newer release is active, no frame read from then on reaches the
\* analytics under the mask it replaced; at most the one in hand does.
SupersededMaskStops == \A n \in analysed : n <= superseded

\* A camera is never given up while the agent runs, and a cancelled ingest
\* returns and says so, so that EdgeRuntime.Run can return.
Supervised ==
  /\ status = "retrying" ~> (status = "connecting" \/ cancelled)
  /\ cancelled ~> (pc = "done" /\ status = "stopped")
================================================================================
