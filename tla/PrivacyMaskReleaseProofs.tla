----------------------- MODULE PrivacyMaskReleaseProofs -----------------------
(***************************************************************************)
(* Proofs about PrivacyMaskRelease, for any number of administrators,      *)
(* requests, release versions and faults.                                  *)
(*                                                                         *)
(* The argument: the row lock makes what an approval transaction has read  *)
(* still true when it writes, so a request is approved exactly with its    *)
(* second approval, and never by its requester.  A manifest exists only    *)
(* for an approved request and is never changed; the hardware runs only    *)
(* manifests; and an outcome that says "accepted", wherever it is on its   *)
(* way to the status row, names a version the hardware has run.            *)
(***************************************************************************)
EXTENDS PrivacyMaskRelease, FiniteSetTheorems, NaturalsInduction, WellFoundedInduction, TLAPS

\* The provers each leaf is tried with in turn, unless it names one.
USE ZenonT(5), SMTT(20), ZenonT(40)

\* Approval transactions of one request exclude each other, and what they have
\* read is still what is stored.
Locking ==
  \A a \in Admins : open[a].req # None =>
    /\ open[a].seen = approvals[open[a].req]
    /\ requester[open[a].req] # None
    /\ \A b \in Admins : open[b].req = open[a].req => a = b

\* ApprovedByTwo, and the requester is not among the approvers.
Ledger ==
  \A r \in Requests :
    /\ IsFiniteSet(approvals[r])
    /\ Cardinality(approvals[r]) <= 2
    /\ r \in approved <=> Cardinality(approvals[r]) = 2
    /\ requester[r] \notin approvals[r]
    /\ requester[r] = None => approvals[r] = {}

\* Only approved requests are released, and only releases reach the device.
Provenance ==
  /\ \A v \in Versions : Released(v) => manifests[v] \in approved
  /\ \A v \in activated : Released(v)
  /\ pc # "idle" => hand.version \in Versions /\ Released(hand.version)

\* An outcome that says "accepted" names a version the hardware has run.
Truthful(o) == o.state = "accepted" => o.version \in activated

AllTruthful ==
  /\ Truthful(status)
  /\ Truthful(hand)
  /\ \A r \in late : Truthful(r.out)

IInv == TypeOK /\ Locking /\ Ledger /\ Provenance /\ AllTruthful

--------------------------------------------------------------------------------
\* A set of two elements has two different members.
LEMMA TwoMembers ==
  ASSUME NEW S, IsFiniteSet(S), Cardinality(S) = 2
  PROVE  \E a, b \in S : a # b
  <1>1. PICK a : a \in S
    BY FS_EmptySet
  <1>2. IsFiniteSet(S \ {a}) /\ Cardinality(S \ {a}) = 1
    BY <1>1, FS_RemoveElement
  <1>3. PICK b : b \in S \ {a}
    BY <1>2, FS_EmptySet
  <1> QED
    BY <1>1, <1>3

\* The pull answers with one of the newer releases: the smallest exists.
LEMMA SmallestNewer == Newer # {} => Min(Newer) \in Newer
  <1> SUFFICES ASSUME Newer # {} PROVE Min(Newer) \in Newer
    OBVIOUS
  <1>1. Newer \subseteq Nat
    BY DEF Newer, Versions
  <1> DEFINE R == {p \in Nat \X Nat : p[1] < p[2]}
  <1>2. IsWellFoundedOn(R, Nat)
    BY NatLessThanWellFounded DEF OpToRel
  <1> HIDE DEF R
  <1>3. PICK x \in Newer : \A y \in Newer : ~ (<<y, x>> \in R)
    BY <1>1, <1>2, WFMin
  <1>4. \A y \in Newer : x <= y
    <2> SUFFICES ASSUME NEW y \in Newer PROVE x <= y
      OBVIOUS
    <2>1. x \in Nat /\ y \in Nat
      BY <1>1
    <2>2. <<y, x>> \in R <=> y < x
      BY <2>1 DEF R
    <2> QED
      BY <1>3, <2>1, <2>2
  <1> QED
    BY <1>4 DEF Min

\* An empty ledger and an idle device satisfy the invariant.
LEMMA InitIInv == Init => IInv
  <1> SUFFICES ASSUME Init PROVE IInv
    OBVIOUS
  <1> USE BoundsAssumption DEF Init
  <1>1. TypeOK
    BY DEF TypeOK, Outcome, NoOutcome, NotOpen
  <1>2. Locking
    BY DEF Locking, NotOpen
  <1>3. Ledger
    BY FS_EmptySet DEF Ledger
  <1>4. Provenance /\ AllTruthful
    BY DEF Provenance, Released, AllTruthful, Truthful, NoOutcome
  <1> QED
    BY <1>1, <1>2, <1>3, <1>4 DEF IInv

\* The ledger's own steps: filing and approving requests.
LEMMA LedgerStep ==
  ASSUME IInv, NEW a \in Admins,
         (\E r \in Requests : CreateRequest(a, r) \/ ApproveLoads(a, r)) \/ ApproveWrites(a)
  PROVE  IInv'
  <1>1. /\ requester \in [Requests -> Admins \cup {None}]
        /\ approvals \in [Requests -> SUBSET Admins]
        /\ open \in [Admins -> [req : Requests \cup {None}, seen : SUBSET Admins]]
        /\ None \notin Admins /\ None \notin Requests
    BY BoundsAssumption DEF IInv, TypeOK
  <1>2. UNCHANGED <<releases, edge, status, late, faults>>
    BY DEF CreateRequest, ApproveLoads, ApproveWrites
  <1>3. AllTruthful'
    BY <1>2 DEF IInv, AllTruthful, Truthful, edge
  <1>4. ASSUME approved \subseteq approved' PROVE Provenance'
    BY <1>2, <1>4 DEF IInv, Provenance, Released, releases, edge
  <1>5. ASSUME requester' \in [Requests -> Admins \cup {None}], approved' \subseteq Requests,
               approvals' \in [Requests -> SUBSET Admins],
               open' \in [Admins -> [req : Requests \cup {None}, seen : SUBSET Admins]]
        PROVE  TypeOK'
    BY <1>2, <1>5 DEF IInv, TypeOK, releases, edge
  <1>6. ASSUME NEW r \in Requests, CreateRequest(a, r) PROVE IInv'
    <2>1. TypeOK' /\ Provenance'
      BY <1>1, <1>4, <1>5, <1>6 DEF IInv, TypeOK, CreateRequest
    <2>2. Ledger'
      BY <1>1, <1>6 DEF IInv, Ledger, CreateRequest
    <2>3. Locking'
      BY <1>1, <1>6 DEF IInv, Locking, CreateRequest
    <2> QED
      BY <1>3, <2>1, <2>2, <2>3 DEF IInv
  <1>7. ASSUME NEW r \in Requests, ApproveLoads(a, r) PROVE IInv'
    <2>1. TypeOK' /\ Provenance'
      BY <1>1, <1>4, <1>5, <1>7 DEF IInv, TypeOK, ApproveLoads
    <2>2. Ledger'
      BY <1>7 DEF IInv, Ledger, ApproveLoads
    <2>3. Locking'
      BY <1>1, <1>7 DEF IInv, Locking, ApproveLoads, Locked
    <2> QED
      BY <1>3, <2>1, <2>2, <2>3 DEF IInv
  <1>8. CASE ApproveWrites(a)
    <2> DEFINE r == open[a].req
               seen == open[a].seen
    <2>1. r \in Requests /\ r # None /\ seen = approvals[r] /\ requester[r] # None
      BY <1>1, <1>8 DEF IInv, Locking, ApproveWrites
    <2>2. open' = [open EXCEPT ![a] = NotOpen] /\ requester' = requester
      BY <1>8 DEF ApproveWrites
    <2>3. \A b \in Admins : b # a => open'[b] = open[b] /\ open'[b].req # r
      BY <1>1, <2>1, <2>2 DEF IInv, Locking
    <2>4. open'[a].req = None
      BY <1>1, <2>2 DEF NotOpen
    <2>5. open' \in [Admins -> [req : Requests \cup {None}, seen : SUBSET Admins]]
      BY <1>1, <2>2 DEF NotOpen
    <2>6. CASE UNCHANGED <<approvals, approved>>
      <3>1. TypeOK' /\ Provenance'
        BY <1>1, <1>4, <1>5, <2>2, <2>5, <2>6 DEF IInv, TypeOK
      <3>2. Ledger'
        BY <2>2, <2>6 DEF IInv, Ledger
      <3>3. Locking'
        BY <2>2, <2>3, <2>4, <2>6 DEF IInv, Locking
      <3> QED
        BY <1>3, <3>1, <3>2, <3>3 DEF IInv
    <2>7. CASE /\ a # requester[r] /\ a \notin seen /\ r \notin approved
               /\ approvals' = [approvals EXCEPT ![r] = @ \cup {a}]
               /\ approved' = IF Cardinality(seen) + 1 = 2 THEN approved \cup {r} ELSE approved
      <3>1. \A q \in Requests : q # r => approvals'[q] = approvals[q]
        BY <1>1, <2>1, <2>7
      <3>2. approvals'[r] = approvals[r] \cup {a}
        BY <1>1, <2>1, <2>7
      <3>3. /\ IsFiniteSet(approvals[r]) /\ Cardinality(approvals[r]) \in Nat
            /\ Cardinality(approvals[r]) <= 2 /\ Cardinality(approvals[r]) # 2
        BY <2>1, <2>7, FS_CardinalityType DEF IInv, Ledger
      <3>4. IsFiniteSet(approvals'[r]) /\ Cardinality(approvals'[r]) = Cardinality(approvals[r]) + 1
        <4>1. a \notin approvals[r]
          BY <2>1, <2>7
        <4>2. ASSUME NEW S, IsFiniteSet(S), a \notin S
              PROVE  IsFiniteSet(S \cup {a}) /\ Cardinality(S \cup {a}) = Cardinality(S) + 1
          BY <4>2, FS_AddElement
        <4> QED
          BY <3>2, <3>3, <4>1, <4>2
      <3>5. approved \subseteq approved' /\ approved' \subseteq approved \cup {r}
            /\ (r \in approved' <=> Cardinality(approvals'[r]) = 2)
        BY <2>1, <2>7, <3>4
      <3>6. TypeOK' /\ Provenance'
        <4>1. approvals' \in [Requests -> SUBSET Admins] /\ approved' \subseteq Requests
          BY <1>1, <2>1, <2>7, <3>5 DEF IInv, TypeOK
        <4> QED
          BY <1>1, <1>4, <1>5, <2>2, <2>5, <3>5, <4>1
      <3>7. Ledger'
        <4> SUFFICES ASSUME NEW q \in Requests
                     PROVE  /\ IsFiniteSet(approvals'[q])
                            /\ Cardinality(approvals'[q]) <= 2
                            /\ q \in approved' <=> Cardinality(approvals'[q]) = 2
                            /\ requester[q] \notin approvals'[q]
                            /\ requester[q] = None => approvals'[q] = {}
          BY <2>2 DEF Ledger
        <4>1. CASE q = r
          <5>1. Cardinality(approvals'[r]) <= 2
            BY <3>3, <3>4
          <5>2. requester[r] # a /\ requester[r] \notin approvals[r] /\ requester[r] # None
            BY <2>1, <2>7 DEF IInv, Ledger
          <5> QED
            BY <3>2, <3>4, <3>5, <4>1, <5>1, <5>2
        <4>2. CASE q # r
          BY <3>1, <3>5, <4>2 DEF IInv, Ledger
        <4> QED
          BY <4>1, <4>2
      <3>8. Locking'
        <4> SUFFICES ASSUME NEW b \in Admins, open'[b].req # None
                     PROVE  /\ open'[b].seen = approvals'[open'[b].req]
                            /\ requester[open'[b].req] # None
                            /\ \A c \in Admins : open'[c].req = open'[b].req => b = c
          BY <2>2 DEF Locking
        <4>1. b # a /\ open'[b] = open[b] /\ open[b].req # r /\ open[b].req \in Requests
          BY <1>1, <2>3, <2>4
        <4> QED
          BY <2>3, <2>4, <3>1, <4>1 DEF IInv, Locking
      <3> QED
        BY <1>3, <3>6, <3>7, <3>8 DEF IInv
    <2> QED
      BY <1>8, <2>6, <2>7 DEF ApproveWrites
  <1> QED
    BY <1>6, <1>7, <1>8

\* A release is written for an approved request under a version not in use.
LEMMA ReleaseStep ==
  ASSUME IInv, NEW r \in Requests, NEW v \in Versions, NEW e \in Evidence, CreateRelease(r, v, e)
  PROVE  IInv'
  <1>1. /\ manifests \in [Versions -> Requests \cup {None}]
        /\ evidence \in [Versions -> Evidence \cup {"none"}]
        /\ None \notin Requests
    BY BoundsAssumption DEF IInv, TypeOK
  <1>2. UNCHANGED <<ledger, edge, status, late, faults>>
    BY DEF CreateRelease
  <1>3. TypeOK'
    BY <1>1, <1>2 DEF IInv, TypeOK, CreateRelease, ledger, edge
  <1>4. Locking' /\ Ledger' /\ AllTruthful'
    BY <1>2 DEF IInv, Locking, Ledger, AllTruthful, Truthful, ledger, edge
  <1>5. \A w \in Versions : Released(w) => manifests'[w] = manifests[w]
    BY <1>1 DEF CreateRelease, Released
  <1>6. r \in approved /\ manifests'[v] = r
    BY <1>1 DEF CreateRelease
  <1>7. \A w \in Versions : manifests'[w] = manifests[w] \/ w = v
    BY <1>1 DEF CreateRelease
  <1>8. Provenance'
    BY <1>1, <1>2, <1>5, <1>6, <1>7 DEF IInv, TypeOK, Provenance, Released, ledger, edge
  <1> QED
    BY <1>3, <1>4, <1>8 DEF IInv

\* The device works on releases only, and says "accepted" of what it has run.
LEMMA DeviceStep == ASSUME IInv, Worker \/ ReportAbandoned \/ Restart PROVE IInv'
  <1> USE BoundsAssumption
  <1>1. UNCHANGED <<ledger, releases>>
    BY DEF Worker, Pull, VerificationFails, Activate, ActivationFails, ReportChecked, ReportWritten,
       ReportAbandoned, Restart
  <1>2. Locking' /\ Ledger'
    BY <1>1 DEF IInv, Locking, Ledger, ledger
  <1>3. /\ hand \in Outcome /\ status \in Outcome /\ activated \subseteq Versions
        /\ {accepted, active, hardware} \subseteq 0..MaxVersion
        /\ late \subseteq [n : 1..MaxFaults, out : Outcome, checked : BOOLEAN]
        /\ faults \in 0..MaxFaults /\ MaxFaults \in Nat /\ NoOutcome \in Outcome
    BY DEF IInv, TypeOK, Outcome, NoOutcome
  <1>4. pc = "idle" \/ (hand.version \in Versions /\ Released(hand.version))
    BY DEF IInv, Provenance
  <1>5. activated \subseteq activated' /\ activated' \subseteq activated \cup {hand.version}
    BY DEF Worker, Pull, VerificationFails, Activate, ActivationFails, ReportChecked, ReportWritten,
       ReportAbandoned, Restart
  <1>6. activated' = activated \/ (pc # "idle" /\ hand.version \in Versions /\ Released(hand.version))
    BY <1>4 DEF Worker, Pull, VerificationFails, Activate, ActivationFails, ReportChecked, ReportWritten,
       ReportAbandoned, Restart
  <1>7. /\ hand' \in Outcome
        /\ pc' # "idle" => hand'.version \in Versions /\ Released(hand'.version)
        /\ hand'.state = "accepted" => hand'.version \in activated'
    <2>1. CASE Pull
      <3>1. Min(Newer) \in Newer
        BY <2>1, SmallestNewer DEF Pull
      <3> QED
        BY <2>1, <3>1 DEF Pull, Newer, Versions, Outcome
    <2>2. CASE Activate \/ ActivationFails
      BY <1>3, <1>4, <2>2 DEF Activate, ActivationFails, Outcome
    <2>3. CASE UNCHANGED <<hand, activated>> /\ pc # "idle"
      BY <1>3, <1>4, <2>3 DEF IInv, AllTruthful, Truthful
    <2>4. CASE Done
      BY <1>3, <2>4 DEF Done, NoOutcome
    <2> QED
      BY <2>1, <2>2, <2>3, <2>4 DEF Worker, VerificationFails, ReportChecked, ReportWritten,
         ReportAbandoned, Restart
  <1>8. status' = status \/ status' = hand
    BY DEF Worker, Pull, VerificationFails, Activate, ActivationFails, ReportChecked, ReportWritten,
       ReportAbandoned, Restart
  <1>9. /\ late' \subseteq [n : 1..MaxFaults, out : Outcome, checked : BOOLEAN]
        /\ \A r \in late' : r \in late \/ r.out = hand
    <2>1. ASSUME Fault PROVE /\ InFlight \subseteq [n : 1..MaxFaults, out : Outcome, checked : BOOLEAN]
                             /\ \A r \in InFlight : r.out = hand
      <3>1. (pc = "record") \in BOOLEAN /\ faults' \in 1..MaxFaults
        BY <1>3, <2>1 DEF Fault
      <3> DEFINE x == [n |-> faults', out |-> hand, checked |-> pc = "record"]
      <3>2. x \in [n : 1..MaxFaults, out : Outcome, checked : BOOLEAN] /\ x.out = hand
        BY <1>3, <3>1
      <3>3. InFlight \subseteq {x}
        BY DEF InFlight
      <3> HIDE DEF x
      <3> QED
        BY <3>2, <3>3
    <2>2. CASE Worker
      BY <1>3, <2>2 DEF Worker, Pull, VerificationFails, Activate, ActivationFails, ReportChecked, ReportWritten
    <2>3. CASE ReportAbandoned \/ Restart
      BY <1>3, <2>1, <2>3 DEF ReportAbandoned, Restart
    <2> QED
      BY <2>2, <2>3
  <1>10. AllTruthful'
    BY <1>5, <1>7, <1>8, <1>9 DEF IInv, AllTruthful, Truthful
  <1>11. Provenance'
    BY <1>1, <1>5, <1>6, <1>7 DEF IInv, Provenance, Released, ledger, releases
  <1>12. TypeOK'
    <2>1. activated' \subseteq Versions /\ status' \in Outcome
      BY <1>3, <1>5, <1>6, <1>8
    <2>2. {accepted', active', hardware'} \subseteq 0..MaxVersion
      BY <1>3 DEF Worker, Pull, VerificationFails, Activate, ActivationFails, ReportChecked,
         ReportWritten, ReportAbandoned, Restart, Outcome
    <2>3. pc' \in {"idle", "pulled", "report", "record"}
      BY DEF Worker, Pull, VerificationFails, Activate, ActivationFails, ReportChecked,
         ReportWritten, ReportAbandoned, Restart, Done
    <2>4. faults' \in 0..MaxFaults
      BY <1>3 DEF Worker, Pull, VerificationFails, Activate, ActivationFails, ReportChecked,
         ReportWritten, ReportAbandoned, Restart, Fault
    <2> QED
      BY <1>1, <1>7, <1>9, <2>1, <2>2, <2>3, <2>4 DEF IInv, TypeOK, ledger, releases
  <1> QED
    BY <1>2, <1>10, <1>11, <1>12 DEF IInv

\* The server reaches a report nobody waits for.
LEMMA LateStep == ASSUME IInv, NEW r \in late, LateChecked(r) \/ LateWritten(r) PROVE IInv'
  <1>1. UNCHANGED <<ledger, releases, edge, faults>>
    BY DEF LateChecked, LateWritten
  <1>2. late \subseteq [n : 1..MaxFaults, out : Outcome, checked : BOOLEAN]
    BY DEF IInv, TypeOK
  <1>3. status' = status \/ status' = r.out
    BY DEF LateChecked, LateWritten
  <1>4. /\ late' \subseteq [n : 1..MaxFaults, out : Outcome, checked : BOOLEAN]
        /\ \A q \in late' : \E t \in late : q.out = t.out
    BY <1>2 DEF LateChecked, LateWritten
  <1>5. TypeOK'
    BY <1>1, <1>2, <1>3, <1>4 DEF IInv, TypeOK, ledger, releases, edge
  <1>6. Locking' /\ Ledger' /\ Provenance'
    BY <1>1 DEF IInv, Locking, Ledger, Provenance, Released, ledger, releases, edge
  <1>7. AllTruthful'
    BY <1>1, <1>3, <1>4 DEF IInv, AllTruthful, Truthful, edge
  <1> QED
    BY <1>5, <1>6, <1>7 DEF IInv

\* The invariant is inductive.
LEMMA StepIInv == IInv /\ [Next]_vars => IInv'
  <1> SUFFICES ASSUME IInv, [Next]_vars PROVE IInv'
    OBVIOUS
  <1>1. CASE UNCHANGED vars
    BY <1>1 DEF vars, ledger, releases, edge, IInv, TypeOK, Locking, Ledger, Provenance, Released,
       AllTruthful, Truthful
  <1> QED
    BY <1>1, LedgerStep, ReleaseStep, DeviceStep, LateStep DEF Next, Governing

\* Whatever the constants, the invariant holds in every reachable state.
THEOREM Invariance == Spec => []IInv
  BY InitIInv, StepIInv, PTL DEF Spec

\* Every variable keeps its type, in particular the status row its states.
THEOREM TypeCorrect == Spec => []TypeOK
  <1>1. IInv => TypeOK
    BY DEF IInv
  <1> QED
    BY <1>1, Invariance, PTL

\* However approvals interleave, Approve marks a request as approved exactly
\* with its second approval.
THEOREM TwoApprovals == Spec => []ApprovedByTwo
  <1>1. IInv => ApprovedByTwo
    BY DEF IInv, Ledger, ApprovedByTwo
  <1> QED
    BY <1>1, Invariance, PTL

\* The hardware executor is never given a mask that two people other than its
\* requester have not approved.
THEOREM TwoPeople == Spec => []TwoPersonRule
  <1>1. IInv => TwoPersonRule
    <2> SUFFICES ASSUME IInv, NEW v \in activated
                 PROVE  /\ manifests[v] \in Requests
                        /\ \E a, b \in approvals[manifests[v]] :
                             a # b /\ a # requester[manifests[v]] /\ b # requester[manifests[v]]
      BY DEF TwoPersonRule
    <2>1. manifests[v] \in approved /\ manifests[v] \in Requests
      BY DEF IInv, TypeOK, Provenance, Released
    <2>2. /\ IsFiniteSet(approvals[manifests[v]]) /\ Cardinality(approvals[manifests[v]]) = 2
          /\ requester[manifests[v]] \notin approvals[manifests[v]]
      BY <2>1 DEF IInv, Ledger
    <2>3. \E a, b \in approvals[manifests[v]] : a # b
      BY <2>2, TwoMembers
    <2> QED
      BY <2>1, <2>2, <2>3
  <1> QED
    BY <1>1, Invariance, PTL

\* report_privacy_mask_release never stores an acceptance of a version the
\* hardware has not run.
THEOREM AcceptedOnlyActivated == Spec => []AcceptedWasActivated
  <1>1. IInv => AcceptedWasActivated
    BY DEF IInv, AllTruthful, Truthful, AcceptedWasActivated
  <1> QED
    BY <1>1, Invariance, PTL

\* A transaction that read a request under its lock writes what one call of the
\* memory repository would.
LEMMA ApprovalIsCall ==
  ASSUME IInv, NEW a \in Admins, ApproveWrites(a)
  PROVE  [Promise!Next]_(Promise!vars)
  <1> DEFINE r == open[a].req
             seen == open[a].seen
  <1>1. requester' = requester
    BY DEF ApproveWrites
  <1>2. CASE UNCHANGED <<approvals, approved>>
    BY <1>1, <1>2 DEF Promise!vars
  <1>3. CASE /\ a # requester[r] /\ a \notin seen /\ r \notin approved
             /\ approvals' = [approvals EXCEPT ![r] = @ \cup {a}]
             /\ approved' = IF Cardinality(seen) + 1 = 2 THEN approved \cup {r} ELSE approved
    <2>1. approvals \in [Requests -> SUBSET Admins] /\ r \in Requests \cup {None}
      BY DEF IInv, TypeOK
    <2>2. r \in Requests /\ seen = approvals[r] /\ requester[r] # None
      BY <2>1 DEF IInv, Locking, ApproveWrites
    <2>3. IsFiniteSet(approvals[r]) /\ a \notin approvals[r]
      BY <1>3, <2>2 DEF IInv, Ledger
    <2>4. approvals'[r] = approvals[r] \cup {a}
      BY <1>3, <2>1, <2>2
    <2>5. ASSUME NEW S, IsFiniteSet(S), a \notin S PROVE Cardinality(S \cup {a}) = Cardinality(S) + 1
      BY <2>5, FS_AddElement
    <2>6. Cardinality(approvals'[r]) = Cardinality(seen) + 1
      BY <2>2, <2>3, <2>4, <2>5
    <2>7. approved' = IF Cardinality(approvals'[r]) = 2 THEN approved \cup {r} ELSE approved
      BY <1>3, <2>6
    <2>8. requester[r] \notin {None, a} /\ a \notin approvals[r] /\ r \notin approved
      BY <1>3, <2>2, <2>3
    <2>9. approvals' = [approvals EXCEPT ![r] = @ \cup {a}]
      BY <1>3
    <2>10. Promise!Cardinality(approvals'[r]) = Cardinality(approvals'[r])
      BY DEF Promise!Cardinality, Cardinality
    <2>11. Promise!Approve(a, r)
      BY <1>1, <2>7, <2>8, <2>9, <2>10 DEF Promise!Approve
    <2> QED
      BY <2>2, <2>11 DEF Promise!Next
  <1> QED
    BY <1>2, <1>3 DEF ApproveWrites

\* The ledger over Postgres implements the one of the memory repository: every
\* step of Create and Approve is one of its calls or leaves the ledger alone.
THEOREM Refinement == Spec => LedgerIsAtomic
  <1>1. Init => Promise!Init
    BY DEF Init, Promise!Init
  <1>2. IInv /\ [Next]_vars => [Promise!Next]_(Promise!vars)
    <2> SUFFICES ASSUME IInv, [Next]_vars PROVE [Promise!Next]_(Promise!vars)
      OBVIOUS
    <2>1. ASSUME NEW a \in Admins, NEW r \in Requests, CreateRequest(a, r)
          PROVE  [Promise!Next]_(Promise!vars)
      <3>1. Promise!Create(a, r)
        BY <2>1 DEF CreateRequest, Promise!Create
      <3> QED
        BY <3>1 DEF Promise!Next
    <2>2. ASSUME NEW a \in Admins, NEW r \in Requests, ApproveLoads(a, r)
          PROVE  UNCHANGED Promise!vars
      BY <2>2 DEF ApproveLoads, Promise!vars
    <2>3. ASSUME NEW r \in Requests, NEW v \in Versions, NEW e \in Evidence, CreateRelease(r, v, e)
          PROVE  UNCHANGED Promise!vars
      BY <2>3 DEF CreateRelease, ledger, Promise!vars
    <2>4. CASE Worker
      BY <2>4 DEF Worker, Pull, VerificationFails, Activate, ActivationFails, ReportChecked,
         ReportWritten, ledger, Promise!vars
    <2>5. CASE ReportAbandoned \/ Restart \/ \E r \in late : LateChecked(r) \/ LateWritten(r)
      BY <2>5 DEF ReportAbandoned, Restart, LateChecked, LateWritten, ledger, Promise!vars
    <2>6. CASE UNCHANGED vars
      BY <2>6 DEF vars, ledger, Promise!vars
    <2> QED
      BY <2>1, <2>2, <2>3, <2>4, <2>5, <2>6, ApprovalIsCall DEF Next, Governing
  <1> QED
    BY <1>1, <1>2, Invariance, PTL DEF Spec, LedgerIsAtomic, Promise!Spec
===============================================================================
