---------------------- MODULE ConfigurationDeliveryProofs ----------------------
(***************************************************************************)
(* Proofs about ConfigurationDelivery, for any number of pushes, edits,    *)
(* revisions and faults.                                                   *)
(*                                                                         *)
(* The argument: syncMu lets one loop synchronize at a time, so between a  *)
(* pull and the apply that follows it nobody else replaces the file.  What *)
(* is pulled is the newest revision, which is never below the file's, so   *)
(* the file only advances; and an outcome that says "applied", wherever it *)
(* is on its way to the status row, was true once and so is true for ever. *)
(* A pull that passes the certificate check does so before the revocation, *)
(* and the mutex leaves room for one such pull only.                       *)
(***************************************************************************)
EXTENDS ConfigurationDelivery, SequenceTheorems, TLAPS

\* The provers each leaf is tried with in turn, unless it names one.
USE ZenonT(5), SMTT(20), ZenonT(40)

Held == {"pull", "read", "apply", "report", "record"}

\* At most one loop is between taking and releasing syncMu.
Mutex == \A k, l \in Loops : pc[k] \in Held /\ pc[l] \in Held => k = l

\* The device holds nothing that was not published, and knows of nothing it
\* does not hold; what is about to be applied does not take it back.
Advancing ==
  /\ file <= Latest
  /\ applied <= file
  /\ \A l \in Loops : pc[l] = "apply" => hand[l].rev >= file /\ hand[l].rev <= Latest

\* Every outcome that says "applied" is true.
Truthful(o) == o.state = "applied" => o.rev <= file

AllTruthful ==
  /\ Truthful(status)
  /\ \A l \in Loops : Truthful(hand[l])
  /\ \A r \in late : Truthful(r.out)

Enrolled == claim = "consumed" /\ cert # "pending"

\* OnlyAuthorizedReceive, and what makes it inductive: a pull past the
\* certificate check passed it before anything slipped through.
AllEntitled ==
  /\ file > 0 => Enrolled
  /\ cert # "revoked" => slipped = 0
  /\ slipped <= 1
  /\ \A l \in Loops : pc[l] \in {"read", "apply"} => Enrolled /\ slipped = 0

IInv == TypeOK /\ Mutex /\ Advancing /\ AllTruthful /\ AllEntitled

--------------------------------------------------------------------------------
\* Publishing makes the log one revision longer and keeps its snapshots typed.
LEMMA AppendedRevision ==
  ASSUME NEW s \in Seq(0..MaxEdits), NEW z \in 0..MaxEdits
  PROVE  /\ Append(s, z) \in Seq(0..MaxEdits)
         /\ Len(s) \in Nat
         /\ Len(Append(s, z)) = Len(s) + 1
  BY AppendProperties, LenProperties

\* A new site, device and agent satisfy the invariant.
LEMMA InitIInv == Init => IInv
  <1> SUFFICES ASSUME Init PROVE IInv
    OBVIOUS
  <1>1. TypeOK
    BY BoundsAssumption DEF Init, TypeOK, Outcome, NoOutcome, Places
  <1>2. Mutex /\ Advancing /\ AllTruthful /\ AllEntitled
    BY BoundsAssumption DEF Init, Mutex, Advancing, AllTruthful, Truthful, AllEntitled,
       Held, NoOutcome, Latest
  <1> QED
    BY <1>1, <1>2 DEF IInv

\* Every step keeps the types.
LEMMA TypeStep == TypeOK /\ [Next]_vars => TypeOK'
  <1> SUFFICES ASSUME TypeOK, [Next]_vars PROVE TypeOK'
    OBVIOUS
  <1> USE BoundsAssumption DEF TypeOK, Places
  <1>0. Latest \in Nat
    BY LenProperties DEF Latest
  <1>1. CASE EditZones
    BY <1>1 DEF EditZones, device, agent
  <1>2. ASSUME NEW a \in Admins, PushLists(a) PROVE TypeOK'
    BY <1>2 DEF PushLists, device, agent
  <1>3. ASSUME NEW a \in Admins, PushPublishes(a) PROVE TypeOK'
    <2>1. push[a] \in 0..MaxEdits
      BY <1>3 DEF PushPublishes
    <2>2. revisions' \in Seq(0..MaxEdits)
      BY <1>3, <2>1, AppendedRevision DEF PushPublishes
    <2> QED
      BY <1>3, <2>2 DEF PushPublishes, device, agent
  <1>4. ASSUME NEW a \in Admins, PushFails(a) PROVE TypeOK'
    BY <1>4 DEF PushFails, device, agent
  <1>5. CASE Enrolling
    BY <1>0, <1>5 DEF Enrolling, IssueClaim, ClaimExpires, Activate, CertificateChanges, site, agent
  <1>6. CASE Heartbeat \/ HintAnswered
    BY <1>6 DEF Heartbeat, HintAnswered, site, device
  <1>7. ASSUME NEW l \in Loops, StartSync(l) PROVE TypeOK'
    BY <1>7 DEF StartSync, site, device
  <1>8. ASSUME NEW l \in Loops, PullChecked(l) \/ PullRead(l) PROVE TypeOK'
    <2>1. [rev |-> Latest, state |-> "none"] \in Outcome /\ NoOutcome \in Outcome
      BY <1>0 DEF Outcome, NoOutcome
    <2>2. hand' \in [Loops -> Outcome]
      <3>1. CASE hand' = hand
        BY <3>1
      <3>2. CASE hand' = [hand EXCEPT ![l] = NoOutcome]
        BY <2>1, <3>2
      <3>3. CASE hand' = [hand EXCEPT ![l] = [rev |-> Latest, state |-> "none"]]
        BY <2>1, <3>3
      <3> QED
        BY <1>8, <3>1, <3>2, <3>3 DEF PullChecked, PullRead, Return
    <2>3. pc' \in [Loops -> Places]
      BY <1>8 DEF PullChecked, PullRead, Return
    <2> QED
      BY <1>8, <2>2, <2>3 DEF PullChecked, PullRead, site, device
  <1>9. ASSUME NEW l \in Loops, Apply(l) PROVE TypeOK'
    <2>1. slipped' \in Nat
      BY <1>9 DEF Apply
    <2>2. hand' \in [Loops -> Outcome] /\ file' \in Nat /\ applied' \in Nat
      BY <1>9 DEF Apply, Outcome
    <2> QED
      BY <1>9, <2>1, <2>2 DEF Apply, site, device
  <1>10. ASSUME NEW l \in Loops, ReportChecked(l) PROVE TypeOK'
    <2>1. CASE Reportable(hand[l])
      BY <1>10, <2>1 DEF ReportChecked, site, device
    <2>2. CASE ~ Reportable(hand[l])
      <3>1. NoOutcome \in Outcome
        BY DEF NoOutcome, Outcome
      <3> QED
        BY <1>10, <2>2, <3>1 DEF ReportChecked, Return, site, device
    <2> QED
      BY <2>1, <2>2
  <1>11. ASSUME NEW l \in Loops, ReportWritten(l) PROVE TypeOK'
    <2>1. status' \in Outcome /\ NoOutcome \in Outcome
      BY <1>11 DEF ReportWritten, NoOutcome, Outcome
    <2> QED
      BY <1>11, <2>1 DEF ReportWritten, Return, site, device
  <1>12. ASSUME NEW l \in Loops, PullFails(l) PROVE TypeOK'
    BY <1>12 DEF PullFails, Fault, Return, Outcome, NoOutcome, site, device
  <1>13. ASSUME NEW l \in Loops, ApplyFails(l) PROVE TypeOK'
    BY <1>13 DEF ApplyFails, Fault, Outcome, site, device
  <1>14. faults' \in Nat => InFlight \subseteq [n : Nat, out : Outcome, checked : BOOLEAN]
    <2> SUFFICES ASSUME faults' \in Nat, NEW x \in InFlight
                 PROVE  x \in [n : Nat, out : Outcome, checked : BOOLEAN]
      OBVIOUS
    <2>1. PICK l \in Loops : x = [n |-> faults', out |-> hand[l], checked |-> pc[l] = "record"]
      BY DEF InFlight
    <2>2. (pc[l] = "record") \in BOOLEAN
      OBVIOUS
    <2> QED
      BY <2>1, <2>2
  <1>15. ASSUME NEW l \in Loops, ReportAbandoned(l) PROVE TypeOK'
    <2>1. late' \subseteq [n : Nat, out : Outcome, checked : BOOLEAN]
      BY <1>14, <1>15 DEF ReportAbandoned, Fault
    <2> QED
      BY <1>15, <2>1 DEF ReportAbandoned, Fault, Return, Outcome, NoOutcome, site, device
  <1>16. ASSUME NEW r \in late, LateChecked(r) PROVE TypeOK'
    <2>1. late' \subseteq [n : Nat, out : Outcome, checked : BOOLEAN]
      BY <1>16 DEF LateChecked
    <2> QED
      BY <1>16, <2>1 DEF LateChecked, site, device, agent
  <1>17. ASSUME NEW r \in late, LateWritten(r) PROVE TypeOK'
    <2>1. status' \in Outcome
      BY <1>17 DEF LateWritten
    <2> QED
      BY <1>17, <2>1 DEF LateWritten, site, device, agent
  <1>18. CASE Restart
    <2>1. late' \subseteq [n : Nat, out : Outcome, checked : BOOLEAN]
      BY <1>14, <1>18 DEF Restart, Fault
    <2> QED
      BY <1>18, <2>1 DEF Restart, Fault, Outcome, NoOutcome, site, device
  <1>19. CASE UNCHANGED vars
    BY <1>19 DEF vars, site, device, agent
  <1> QED
    BY <1>1, <1>2, <1>3, <1>4, <1>5, <1>6, <1>7, <1>8, <1>9, <1>10, <1>11, <1>12, <1>13, <1>15,
       <1>16, <1>17, <1>18, <1>19 DEF Next, Pushing, Progress, Faulty

\* What the control plane does to zones, pushes and revisions keeps the
\* invariant: the log of revisions only grows.
LEMMA PushingStep == IInv /\ Pushing => IInv'
  <1> SUFFICES ASSUME IInv, Pushing PROVE IInv'
    OBVIOUS
  <1>1. TypeOK'
    BY TypeStep DEF IInv, Next
  <1>2. UNCHANGED <<device, status, agent, late>>
    BY DEF Pushing, EditZones, PushLists, PushPublishes, PushFails
  <1>3. Latest' >= Latest /\ Latest \in Nat /\ Latest' \in Nat
    <2>1. ASSUME NEW a \in Admins, PushPublishes(a) PROVE Latest' >= Latest
      <3>1. push[a] \in 0..MaxEdits /\ revisions \in Seq(0..MaxEdits)
        BY <2>1, BoundsAssumption DEF PushPublishes, IInv, TypeOK
      <3> QED
        BY <2>1, <3>1, AppendedRevision DEF PushPublishes, Latest
    <2>2. Latest \in Nat /\ Latest' \in Nat
      BY <1>1, LenProperties DEF IInv, TypeOK, Latest
    <2>3. revisions' = revisions => Latest' = Latest
      BY DEF Latest
    <2> QED
      BY <2>1, <2>2, <2>3 DEF Pushing, EditZones, PushLists, PushFails
  <1>4. Mutex' /\ AllTruthful' /\ AllEntitled'
    BY <1>2 DEF IInv, Mutex, AllTruthful, Truthful, AllEntitled, Enrolled, device, agent
  <1>5. Advancing'
    BY <1>2, <1>3 DEF IInv, TypeOK, Outcome, Advancing, agent
  <1> QED
    BY <1>1, <1>4, <1>5 DEF IInv

\* Enrolment keeps the invariant: a device once enrolled stays so, and the
\* certificate is revoked before anything can slip through.
LEMMA EnrollingStep == IInv /\ Enrolling => IInv'
  <1> SUFFICES ASSUME IInv, Enrolling PROVE IInv'
    OBVIOUS
  <1>1. TypeOK'
    BY TypeStep DEF IInv, Next
  <1>2. UNCHANGED <<site, status, agent, late>>
    BY DEF Enrolling, IssueClaim, ClaimExpires, Activate, CertificateChanges
  <1>3. Mutex' /\ Advancing' /\ AllTruthful'
    BY <1>2 DEF IInv, Mutex, Advancing, Latest, AllTruthful, Truthful, site, agent
  <1>4. (Enrolled => Enrolled') /\ (cert' # "revoked" => cert # "revoked")
    BY DEF Enrolling, IssueClaim, ClaimExpires, Activate, CertificateChanges, Enrolled
  <1>5. AllEntitled'
    BY <1>2, <1>4 DEF IInv, AllEntitled, agent
  <1> QED
    BY <1>1, <1>3, <1>5 DEF IInv

\* A step of a synchronizing loop keeps the invariant.
LEMMA LoopStep ==
  ASSUME NEW l \in Loops, IInv, StartSync(l) \/ Progress(l) \/ Faulty(l)
  PROVE  IInv'
  <1>1. TypeOK'
    BY TypeStep DEF IInv, Next
  <1>2. pc \in [Loops -> Places]
    BY DEF IInv, TypeOK
  <1>3. hand \in [Loops -> Outcome] /\ file \in Nat /\ applied \in Nat /\ Latest \in Nat
    BY LenProperties DEF IInv, TypeOK, Latest
  <1>4. Mutex'
    <2>1. CASE StartSync(l)
      BY <1>2, <2>1 DEF IInv, Mutex, Held, StartSync, Syncing
    <2>2. CASE Progress(l) \/ Faulty(l)
      <3>1. pc[l] \in Held
        BY <2>2 DEF Held, Progress, Faulty, PullChecked, PullRead, Apply, ReportChecked, ReportWritten,
           PullFails, ApplyFails, ReportAbandoned
      <3>2. \A k \in Loops : k # l => pc'[k] = pc[k]
        BY <1>2, <2>2 DEF Progress, Faulty, PullChecked, PullRead, Apply, ReportChecked, ReportWritten,
           PullFails, ApplyFails, ReportAbandoned, Return
      <3> QED
        BY <3>1, <3>2 DEF IInv, Mutex
    <2> QED
      BY <2>1, <2>2
  <1>5. UNCHANGED <<site, device>> /\ Latest' = Latest
    BY DEF StartSync, Progress, Faulty, PullChecked, PullRead, Apply, ReportChecked, ReportWritten, PullFails,
       ApplyFails, ReportAbandoned, site, Latest
  <1>6. CASE Apply(l)
    <2>1. file' = hand[l].rev /\ hand[l].rev >= file /\ hand[l].rev <= Latest /\ hand[l].rev \in Nat
      BY <1>3, <1>6 DEF IInv, Advancing, Apply, Outcome
    <2>2. \A k \in Loops : pc'[k] # "apply"
      BY <1>2, <1>6 DEF IInv, Mutex, Held, Apply
    <2>3. Advancing'
      BY <1>5, <1>6, <2>1, <2>2 DEF Advancing, Apply
    <2>4. ASSUME NEW o \in Outcome, Truthful(o) PROVE o.rev \in Nat /\ (o.state = "applied" => o.rev <= file')
      BY <1>3, <2>1, <2>4 DEF Truthful, Outcome
    <2>5. AllTruthful'
      <3>1. Truthful(status)' /\ \A r \in late' : Truthful(r.out)'
        BY <1>6, <2>4 DEF IInv, TypeOK, AllTruthful, Truthful, Apply
      <3>2. ASSUME NEW k \in Loops PROVE Truthful(hand[k])'
        <4>1. CASE k = l
          BY <1>3, <1>6, <2>1, <4>1 DEF Apply, Truthful
        <4>2. CASE k # l
          BY <1>3, <1>6, <2>4, <4>2 DEF IInv, AllTruthful, Apply, Truthful
        <4> QED
          BY <4>1, <4>2
      <3> QED
        BY <3>1, <3>2 DEF AllTruthful
    <2>6. AllEntitled'
      <3>1. Enrolled /\ slipped = 0
        BY <1>6 DEF IInv, AllEntitled, Apply
      <3>2. slipped' <= 1 /\ (cert # "revoked" => slipped' = 0)
        BY <1>6, <3>1 DEF Apply
      <3>3. Enrolled' /\ cert' = cert
        BY <1>5, <3>1 DEF Enrolled, device
      <3>4. \A k \in Loops : pc'[k] \notin {"read", "apply"}
        BY <1>2, <1>6 DEF IInv, Mutex, Held, Apply
      <3> QED
        BY <3>2, <3>3, <3>4 DEF AllEntitled
    <2> QED
      BY <1>1, <1>4, <2>3, <2>5, <2>6 DEF IInv
  <1>7. CASE PullChecked(l) \/ PullRead(l)
    <2>1. UNCHANGED <<status, file, applied, slipped, late>>
      BY <1>7 DEF PullChecked, PullRead
    <2>2. \A k \in Loops : k # l => pc'[k] = pc[k] /\ hand'[k] = hand[k]
      BY <1>2, <1>3, <1>7 DEF PullChecked, PullRead, Return
    <2>3. hand'[l] = hand[l] \/ hand'[l].state = "none"
      BY <1>3, <1>7 DEF PullChecked, PullRead, Return, NoOutcome
    <2>4. pc'[l] = "apply" => pc[l] = "read" /\ hand'[l].rev = Latest
      BY <1>2, <1>3, <1>7 DEF PullChecked, PullRead, Return
    <2>5. pc'[l] = "read" => Authorized
      BY <1>2, <1>7 DEF PullChecked, PullRead, Return
    <2>6. Advancing'
      BY <1>3, <1>5, <2>1, <2>2, <2>4 DEF IInv, Advancing
    <2>7. AllTruthful'
      BY <2>1, <2>2, <2>3 DEF IInv, AllTruthful, Truthful
    <2>8. AllEntitled'
      <3>1. Enrolled' = Enrolled /\ cert' = cert /\ slipped' = slipped /\ file' = file
        BY <1>5, <2>1 DEF Enrolled, device
      <3>2. pc'[l] \in {"read", "apply"} => Enrolled /\ slipped = 0
        BY <2>4, <2>5 DEF IInv, AllEntitled, Authorized, Enrolled
      <3> QED
        BY <2>2, <3>1, <3>2 DEF IInv, AllEntitled
    <2> QED
      BY <1>1, <1>4, <2>6, <2>7, <2>8 DEF IInv
  <1>8. CASE StartSync(l) \/ ReportChecked(l) \/ ReportWritten(l) \/ PullFails(l) \/ ApplyFails(l) \/ ReportAbandoned(l)
    <2>1. UNCHANGED <<file, applied, slipped>>
      BY <1>8 DEF StartSync, ReportChecked, ReportWritten, PullFails, ApplyFails, ReportAbandoned
    <2>2. \A k \in Loops : pc'[k] = "apply" => pc[k] = "apply" /\ hand'[k] = hand[k]
      BY <1>2, <1>3, <1>8 DEF StartSync, ReportChecked, ReportWritten, PullFails, ApplyFails, ReportAbandoned, Return
    <2>3. \A k \in Loops : pc'[k] = "read" => pc[k] = "read"
      BY <1>2, <1>8 DEF StartSync, ReportChecked, ReportWritten, PullFails, ApplyFails, ReportAbandoned, Return
    <2>4. \A k \in Loops : hand'[k] = hand[k] \/ hand'[k].state \in {"none", "failed"}
      BY <1>2, <1>3, <1>8 DEF StartSync, ReportChecked, ReportWritten, PullFails, ApplyFails, ReportAbandoned, Return, NoOutcome
    <2>5. status' = status \/ status' = hand[l]
      BY <1>8 DEF StartSync, ReportChecked, ReportWritten, PullFails, ApplyFails, ReportAbandoned
    <2>6. \A r \in late' : r \in late \/ \E k \in Loops : r.out = hand[k]
      BY <1>8 DEF StartSync, ReportChecked, ReportWritten, PullFails, ApplyFails, ReportAbandoned, InFlight
    <2>7. Advancing'
      BY <1>5, <2>1, <2>2 DEF IInv, Advancing
    <2>8. AllTruthful'
      BY <2>1, <2>4, <2>5, <2>6 DEF IInv, AllTruthful, Truthful
    <2>9. AllEntitled'
      BY <1>5, <2>1, <2>2, <2>3 DEF IInv, AllEntitled, Enrolled, device
    <2> QED
      BY <1>1, <1>4, <2>7, <2>8, <2>9 DEF IInv
  <1> QED
    BY <1>6, <1>7, <1>8 DEF Progress, Faulty

\* The remaining steps: heartbeats, late reports and restarts.
LEMMA OtherStep ==
  ASSUME IInv, Heartbeat \/ HintAnswered \/ (\E r \in late : LateChecked(r) \/ LateWritten(r)) \/ Restart
  PROVE  IInv'
  <1>1. TypeOK'
    BY TypeStep DEF IInv, Next
  <1>2. pc \in [Loops -> Places]
    BY DEF IInv, TypeOK
  <1>3. applied \in Nat /\ file \in Nat /\ Latest' = Latest /\ file' = file /\ slipped' = slipped
    BY DEF IInv, TypeOK, Heartbeat, HintAnswered, LateChecked, LateWritten, Restart, site, agent, Latest
  <1>4. UNCHANGED <<site, device>>
    BY DEF Heartbeat, HintAnswered, LateChecked, LateWritten, Restart
  <1>5. applied' = applied \/ applied' = 0
    BY DEF Heartbeat, HintAnswered, LateChecked, LateWritten, Restart, agent
  <1>6. \A l \in Loops : pc'[l] \in Held => pc[l] \in Held /\ pc'[l] = pc[l] /\ hand'[l] = hand[l]
    BY <1>2 DEF Held, Heartbeat, HintAnswered, LateChecked, LateWritten, Restart, agent
  <1>7. \A l \in Loops : hand'[l] = hand[l] \/ hand'[l].state = "none"
    BY DEF Heartbeat, HintAnswered, LateChecked, LateWritten, Restart, agent, NoOutcome
  <1>8. Mutex'
    BY <1>6 DEF IInv, Mutex
  <1>9. Advancing'
    BY <1>3, <1>5, <1>6 DEF IInv, Advancing, Held
  <1>10. AllEntitled'
    BY <1>3, <1>4, <1>6 DEF IInv, AllEntitled, Enrolled, Held, device
  <1>11. AllTruthful'
    <2>1. Truthful(status)'
      BY <1>3 DEF IInv, AllTruthful, Truthful, Heartbeat, HintAnswered, LateChecked, LateWritten, Restart
    <2>2. \A l \in Loops : Truthful(hand[l])'
      BY <1>3, <1>7 DEF IInv, AllTruthful, Truthful
    <2>3. \A r \in late' : (\E q \in late : r.out = q.out) \/ \E l \in Loops : r.out = hand[l]
      <3>1. CASE Heartbeat \/ HintAnswered
        BY <3>1 DEF Heartbeat, HintAnswered
      <3>2. ASSUME NEW q \in late, LateChecked(q), NEW r \in late' PROVE \E t \in late : r.out = t.out
        BY <3>2 DEF LateChecked, IInv, TypeOK
      <3>3. ASSUME NEW q \in late, LateWritten(q) PROVE late' \subseteq late
        BY <3>3 DEF LateWritten
      <3>4. CASE Restart
        BY <3>4 DEF Restart, InFlight
      <3> QED
        BY <3>1, <3>2, <3>3, <3>4
    <2>4. \A r \in late' : Truthful(r.out)'
      BY <1>3, <2>3 DEF IInv, AllTruthful, Truthful
    <2> QED
      BY <2>1, <2>2, <2>4 DEF AllTruthful
  <1> QED
    BY <1>1, <1>8, <1>9, <1>10, <1>11 DEF IInv

\* The invariant is inductive.
LEMMA StepIInv == IInv /\ [Next]_vars => IInv'
  <1> SUFFICES ASSUME IInv, [Next]_vars PROVE IInv'
    OBVIOUS
  <1>1. CASE UNCHANGED vars
    BY <1>1 DEF vars, site, device, agent, IInv, TypeOK, Mutex, Advancing, Latest, AllTruthful,
       Truthful, AllEntitled, Enrolled
  <1> QED
    BY <1>1, PushingStep, EnrollingStep, LoopStep, OtherStep DEF Next

\* Whatever the constants, the invariant holds in every reachable state.
THEOREM Invariance == Spec => []IInv
  BY InitIInv, StepIInv, PTL DEF Spec

\* Every variable keeps its type, in particular the status row its states.
THEOREM TypeCorrect == Spec => []TypeOK
  <1>1. IInv => TypeOK
    BY DEF IInv
  <1> QED
    BY <1>1, Invariance, PTL

\* A revision shown as applied has been written by the device, it or a newer
\* one: report_device_configuration never stores an outcome that overstates.
THEOREM AppliedWasWritten == Spec => []AppliedIsTrue
  <1>1. IInv => AppliedIsTrue
    BY DEF IInv, AllTruthful, Truthful, AppliedIsTrue
  <1> QED
    BY <1>1, Invariance, PTL

\* pull_device_configuration gives configuration to an enrolled device with an
\* active certificate only; a pull caught by the revocation between its check and
\* its read may bring one revision more, and never a second one.
THEOREM OnlyToTheAuthorized == Spec => []OnlyAuthorizedReceive
  <1>1. IInv => OnlyAuthorizedReceive
    BY DEF IInv, AllEntitled, Enrolled, OnlyAuthorizedReceive
  <1> QED
    BY <1>1, Invariance, PTL

\* No step of either loop, and no restart, takes the configuration file back to
\* an older revision.
THEOREM NeverBack == Spec => FileNeverRegresses
  <1>1. IInv /\ [Next]_vars => [file' >= file]_file
    <2> SUFFICES ASSUME IInv, [Next]_vars, file' # file PROVE file' >= file
      BY DEF IInv, TypeOK
    <2>1. PICK l \in Loops : Apply(l)
      BY DEF Next, Pushing, EditZones, PushLists, PushPublishes, PushFails, Enrolling, IssueClaim,
         ClaimExpires, Activate, CertificateChanges, Heartbeat, HintAnswered, StartSync, Progress, PullChecked, PullRead,
         ReportChecked, ReportWritten, Faulty, PullFails, ApplyFails, ReportAbandoned, LateChecked,
         LateWritten, Restart, agent, vars
    <2> QED
      BY <2>1 DEF Apply, IInv, Advancing
  <1> QED
    BY <1>1, Invariance, PTL DEF Spec, FileNeverRegresses
================================================================================
