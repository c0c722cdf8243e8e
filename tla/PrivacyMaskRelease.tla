-------------------------- MODULE PrivacyMaskRelease --------------------------
(***************************************************************************)
(* A privacy mask from its request to the hardware of one edge device.     *)
(*                                                                         *)
(* On the control plane a mask request needs the approval of two people    *)
(* other than its requester; only then can a release manifest for a device *)
(* be written, under a version the caller chooses.  The device's worker    *)
(* pulls the smallest version above the one it last accepted, verifies it, *)
(* activates it on the hardware and reports the outcome.  The versions the *)
(* gate and the hardware adapter hold are in memory only: a restart        *)
(* forgets them, and the hardware keeps the mask it has.                   *)
(*                                                                         *)
(* The evidence of a release is abstracted to what the device makes of it: *)
(* "untrusted" evidence was authorized by the control plane and is refused *)
(* by the device's gate (another harness key, another device), "unfit"     *)
(* evidence passes the gate and is refused by the hardware adapter         *)
(* (another profile).  The device is enrolled and its certificate active   *)
(* throughout.                                                             *)
(***************************************************************************)
EXTENDS Naturals, FiniteSets, FiniteSetsExt

CONSTANTS Admins,     \* super administrators
          Requests,   \* mask requests
          None,
          MaxVersion, \* bound on release versions
          MaxFaults   \* bound on abandoned reports, failed activations, restarts

ASSUME BoundsAssumption ==
  /\ MaxVersion \in Nat /\ MaxFaults \in Nat
  /\ None \notin Admins \cup Requests

VARIABLES
  requester,  \* requester[r]: who filed request r, or None
  approved,   \* the requests whose status is 'approved'
  approvals,  \* approvals[r]: the approver ids stored for request r
  open,       \* open[a]: the request a's approval transaction has read, or None
  manifests,  \* manifests[v]: request released to the device as version v, or None
  evidence,   \* evidence[v]: what the device makes of the evidence of version v
  accepted,   \* version in ControlledPrivacyMaskRelease.lastAccepted, 0 if nil
  active,     \* version in HardwareBoundPrivacyMaskAdapter.active, 0 if nil
  hardware,   \* version the hardware executor last activated
  pc,         \* where the worker stands
  hand,       \* the version it works on and the outcome
  status,     \* the device's row in config.privacy_mask_release_statuses
  late,       \* reports whose client stopped waiting
  activated,  \* history: every version the hardware has run
  faults

ledger == <<requester, approved, approvals, open>>
releases == <<manifests, evidence>>
edge == <<accepted, active, hardware, activated, pc, hand>>
vars == <<ledger, releases, edge, status, late, faults>>

Versions == 1..MaxVersion
Evidence == {"good", "untrusted", "unfit"}
Outcome == [version : 0..MaxVersion, state : {"none", "accepted", "failed"}]
NoOutcome == [version |-> 0, state |-> "none"]
NotOpen == [req |-> None, seen |-> {}]

Init ==
  /\ requester = [r \in Requests |-> None]
  /\ approved = {}
  /\ approvals = [r \in Requests |-> {}]
  /\ open = [a \in Admins |-> NotOpen]
  /\ manifests = [v \in Versions |-> None]
  /\ evidence = [v \in Versions |-> "none"]
  /\ accepted = 0
  /\ active = 0
  /\ hardware = 0
  /\ pc = "idle"
  /\ hand = NoOutcome
  /\ status = NoOutcome
  /\ late = {}
  /\ activated = {}
  /\ faults = 0

Fault == faults < MaxFaults /\ faults' = faults + 1

--------------------------------------------------------------------------------
(* The approval ledger *)

CreateRequest(a, r) ==
  /\ requester[r] = None
  /\ requester' = [requester EXCEPT ![r] = a]
  /\ UNCHANGED <<approved, approvals, open, releases, edge, status, late, faults>>

\* Some approval transaction holds the row lock of r.
Locked(r) == \E a \in Admins : open[a].req = r

\* Mutant: the request is loaded without FOR UPDATE.
ApproveLoads_NoLock(a, r) ==
  /\ open[a] = NotOpen
  /\ requester[r] # None
  /\ open' = [open EXCEPT ![a] = [req |-> r, seen |-> approvals[r]]]
  /\ UNCHANGED <<requester, approved, approvals, releases, edge, status, late, faults>>

\* Approve locks the request and reads its approvals.
ApproveLoads(a, r) ==
  /\ open[a] = NotOpen
  /\ requester[r] # None
  /\ ~ Locked(r)
  /\ open' = [open EXCEPT ![a] = [req |-> r, seen |-> approvals[r]]]
  /\ UNCHANGED <<requester, approved, approvals, releases, edge, status, late, faults>>

\* Mutant: the requester is not told apart from the others.
ApproveWrites_AnyActor(a) ==
  LET r == open[a].req
      seen == open[a].seen IN
  /\ r # None
  /\ open' = [open EXCEPT ![a] = NotOpen]
  /\ IF a \in seen \/ Cardinality(seen) >= 2
       THEN UNCHANGED <<approvals, approved>>
       ELSE /\ approvals' = [approvals EXCEPT ![r] = @ \cup {a}]
            /\ approved' = IF Cardinality(seen) + 1 = 2 THEN approved \cup {r} ELSE approved
  /\ UNCHANGED <<requester, releases, edge, status, late, faults>>

\* Approve decides and commits.  The requester is refused, a repeated approval
\* and one too many change nothing, the second approval closes the request.
ApproveWrites(a) ==
  LET r == open[a].req
      seen == open[a].seen IN
  /\ r # None
  /\ open' = [open EXCEPT ![a] = NotOpen]
  /\ IF a = requester[r] \/ a \in seen \/ r \in approved \/ Cardinality(seen) >= 2
       THEN UNCHANGED <<approvals, approved>>
       ELSE /\ approvals' = [approvals EXCEPT ![r] = @ \cup {a}]
            /\ approved' = IF Cardinality(seen) + 1 = 2 THEN approved \cup {r} ELSE approved
  /\ UNCHANGED <<requester, releases, edge, status, late, faults>>

\* Mutant: the approvals of the request are not looked at.
CreateRelease_Unapproved(r, v, e) ==
  /\ ~ Locked(r)
  /\ requester[r] # None
  /\ manifests[v] = None
  /\ manifests' = [manifests EXCEPT ![v] = r]
  /\ evidence' = [evidence EXCEPT ![v] = e]
  /\ UNCHANGED <<ledger, edge, status, late, faults>>

\* A manifest is written for an approved request with two approvals, under a
\* version the device does not have yet.
CreateRelease(r, v, e) ==
  /\ ~ Locked(r)
  /\ r \in approved
  /\ Cardinality(approvals[r]) = 2
  /\ manifests[v] = None
  /\ manifests' = [manifests EXCEPT ![v] = r]
  /\ evidence' = [evidence EXCEPT ![v] = e]
  /\ UNCHANGED <<ledger, edge, status, late, faults>>

--------------------------------------------------------------------------------
(* The device: worker, gate and hardware adapter *)

Released(v) == manifests[v] # None

\* Mutant: the pull starts one version too high.
Newer_SkipsOne == {v \in Versions : Released(v) /\ v > accepted + 1}

Newer == {v \in Versions : Released(v) /\ v > accepted}

\* The worker pulls the smallest version above the accepted one.
Pull ==
  /\ pc = "idle"
  /\ Newer # {}
  /\ pc' = "pulled"
  /\ hand' = [version |-> Min(Newer), state |-> "none"]
  /\ UNCHANGED <<ledger, releases, accepted, active, hardware, activated, status, late, faults>>

Done ==
  /\ pc' = "idle"
  /\ hand' = NoOutcome

\* The attestation is signed by a harness the device trusts and made for this
\* device; the authorizer asks only that it names a device.
HILVerified(v) == evidence[v] # "untrusted"

\* The rest of what the gate checks, the authorizer has checked alike.
Verified(v) == Released(v) /\ HILVerified(v)

\* The gate cannot verify the manifest.  The failure it reports carries version
\* 0, which the client refuses to send.
VerificationFails ==
  /\ pc = "pulled"
  /\ ~ Verified(hand.version)
  /\ Done
  /\ UNCHANGED <<ledger, releases, accepted, active, hardware, activated, status, late, faults>>

\* The gate's version check and the adapter's checks.
Activatable(v) ==
  /\ v > accepted
  /\ evidence[v] # "unfit"
  /\ v >= active

\* Mutant: the gate records and reports the acceptance, the executor comes later.
Activate_Later ==
  /\ pc = "pulled"
  /\ Verified(hand.version) /\ Activatable(hand.version)
  /\ active' = hand.version
  /\ accepted' = hand.version
  /\ pc' = "report"
  /\ hand' = [hand EXCEPT !.state = "accepted"]
  /\ UNCHANGED <<hardware, activated, ledger, releases, status, late, faults>>

\* The executor activates the mask; adapter and gate remember its version.
Activate ==
  /\ pc = "pulled"
  /\ Verified(hand.version) /\ Activatable(hand.version)
  /\ hardware' = hand.version
  /\ activated' = activated \cup {hand.version}
  /\ active' = hand.version
  /\ accepted' = hand.version
  /\ pc' = "report"
  /\ hand' = [hand EXCEPT !.state = "accepted"]
  /\ UNCHANGED <<ledger, releases, status, late, faults>>

\* The version is stale, the adapter refuses the manifest, or the executor fails.
ActivationFails ==
  /\ pc = "pulled"
  /\ Verified(hand.version)
  /\ \/ ~ Activatable(hand.version) /\ UNCHANGED faults
     \/ Activatable(hand.version) /\ Fault
  /\ pc' = "report"
  /\ hand' = [hand EXCEPT !.state = "failed"]
  /\ UNCHANGED <<ledger, releases, accepted, active, hardware, activated, status, late>>

--------------------------------------------------------------------------------
(* Reports: report_privacy_mask_release checks, then writes *)

Reportable(o) == Released(o.version) /\ o.version >= status.version

ReportChecked ==
  /\ pc = "report"
  /\ IF Reportable(hand) THEN pc' = "record" /\ UNCHANGED hand ELSE Done
  /\ UNCHANGED <<ledger, releases, accepted, active, hardware, activated, status, late, faults>>

\* The upsert.  Its conflict target names columns that are output parameters of
\* the function too, which the database may refuse as ambiguous: the report is
\* then answered with an error and the row stays.
ReportWritten ==
  /\ pc = "record"
  /\ status' \in {status, hand}
  /\ Done
  /\ UNCHANGED <<ledger, releases, accepted, active, hardware, activated, late, faults>>

InFlight ==
  IF pc \in {"report", "record"}
    THEN {[n |-> faults', out |-> hand, checked |-> pc = "record"]} ELSE {}

\* The worker stops waiting for the report, which may still reach the server.
ReportAbandoned ==
  /\ pc \in {"report", "record"}
  /\ Fault
  /\ late' \in {late, late \cup InFlight}
  /\ Done
  /\ UNCHANGED <<ledger, releases, accepted, active, hardware, activated, status>>

LateChecked(r) ==
  /\ ~ r.checked
  /\ late' = (late \ {r}) \cup
               (IF Reportable(r.out) THEN {[r EXCEPT !.checked = TRUE]} ELSE {})
  /\ UNCHANGED <<ledger, releases, edge, status, faults>>

LateWritten(r) ==
  /\ r.checked
  /\ late' = late \ {r}
  /\ status' \in {status, r.out}
  /\ UNCHANGED <<ledger, releases, edge, faults>>

\* The agent restarts: gate and adapter are constructed empty.
Restart ==
  /\ Fault
  /\ accepted' = 0
  /\ active' = 0
  /\ Done
  /\ late' \in {late, late \cup InFlight}
  /\ UNCHANGED <<ledger, releases, hardware, activated, status>>

--------------------------------------------------------------------------------
Governing ==
  \/ \E a \in Admins, r \in Requests : CreateRequest(a, r) \/ ApproveLoads(a, r)
  \/ \E a \in Admins : ApproveWrites(a)
  \/ \E r \in Requests, v \in Versions, e \in Evidence : CreateRelease(r, v, e)

Worker ==
  \/ Pull
  \/ VerificationFails
  \/ Activate
  \/ ActivationFails
  \/ ReportChecked
  \/ ReportWritten

Next ==
  \/ Governing
  \/ Worker
  \/ ReportAbandoned
  \/ \E r \in late : LateChecked(r) \/ LateWritten(r)
  \/ Restart

Spec == Init /\ [][Next]_vars

\* The supervisor restarts the worker after every failure, and a sync ends.
Fairness == WF_vars(Worker)

FairSpec == Spec /\ Fairness

\* What the ledger promises.
Promise == INSTANCE MaskLedger

--------------------------------------------------------------------------------
(* Properties *)

TypeOK ==
  /\ requester \in [Requests -> Admins \cup {None}]
  /\ approved \subseteq Requests
  /\ approvals \in [Requests -> SUBSET Admins]
  /\ open \in [Admins -> [req : Requests \cup {None}, seen : SUBSET Admins]]
  /\ manifests \in [Versions -> Requests \cup {None}]
  /\ evidence \in [Versions -> Evidence \cup {"none"}]
  /\ {accepted, active, hardware} \subseteq 0..MaxVersion
  /\ pc \in {"idle", "pulled", "report", "record"}
  /\ hand \in Outcome
  /\ status \in Outcome
  /\ late \subseteq [n : 1..MaxFaults, out : Outcome, checked : BOOLEAN]
  /\ activated \subseteq Versions
  /\ faults \in 0..MaxFaults

\* No mask reaches the hardware unless two people, neither of them its
\* requester, have approved the request it comes from.
TwoPersonRule ==
  \A v \in activated :
    LET r == manifests[v] IN
    /\ r \in Requests
    /\ \E a, b \in approvals[r] : a # b /\ a # requester[r] /\ b # requester[r]

\* A request is approved exactly when it has two approvals, so that concurrent
\* approvals neither leave it pending for ever nor add a third.
ApprovedByTwo ==
  \A r \in Requests :
    /\ Cardinality(approvals[r]) <= 2
    /\ r \in approved <=> Cardinality(approvals[r]) = 2

\* The transactions of the ledger, which read a request and its approvals before
\* they write, take effect like the calls of the memory repository, one after
\* another: no approval is lost, counted twice or given by the requester.
LedgerIsAtomic == Promise!Spec

\* When the control plane shows a version as accepted, the hardware has run it,
\* whatever became of the reports and however often the agent restarted.
AcceptedWasActivated == status.state = "accepted" => status.version \in activated

\* A released version takes effect, or a later one does, again after every
\* restart, provided the device can accept it and every version below it.
ReleaseTakesEffect ==
  \A v \in Versions :
    Released(v) ~> (hardware >= v \/ \E u \in 1..v : evidence[u] \in {"untrusted", "unfit"})

\* A release the gate cannot verify is reported as failed, as the comment on
\* ControlledPrivacyMaskRelease.Accept says.
VerificationFailureReported ==
  \A v \in Versions :
    (pc = "pulled" /\ hand.version = v /\ ~ Verified(v)) ~> (status = [version |-> v, state |-> "failed"])
================================================================================
