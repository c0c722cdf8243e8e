------------------------- MODULE ConfigurationDelivery -------------------------
(***************************************************************************)
(* How one site's zone configuration reaches one edge device.              *)
(*                                                                         *)
(* Administrators edit zones and push them: a push reads the zones in one  *)
(* transaction and publishes them as the next immutable revision in        *)
(* another.  The device is enrolled with a claim, and then synchronizes:   *)
(* it pulls the newest revision above the one it holds in memory, replaces *)
(* its configuration file, and reports the outcome.  Two loops of the      *)
(* agent synchronize, the poll loop and the heartbeat loop (on a hint),    *)
(* under one mutex.  A restart forgets the revision held in memory.        *)
(*                                                                         *)
(* Revisions are numbered from 1, so the log of revisions is a sequence.   *)
(* The zones of the site are abstracted to their version.  Devices share   *)
(* nothing but the revisions of their site: one device is enough.          *)
(***************************************************************************)
EXTENDS Naturals, Sequences

CONSTANTS Admins,        \* requests of administrators, running concurrently
          None,          \* no snapshot in hand
          MaxEdits,      \* bound on zone edits
          MaxRevisions,  \* bound on published revisions
          MaxFaults      \* bound on timeouts, failed applies and restarts

ASSUME BoundsAssumption ==
  /\ MaxEdits \in Nat /\ MaxRevisions \in Nat /\ MaxFaults \in Nat
  /\ None \notin Nat

VARIABLES
  zones,      \* version of the site's zones (config.zones)
  push,       \* push[a]: the snapshot an open push request has listed, or None
  revisions,  \* config.configuration_revisions of the site: revision -> snapshot
  claim,      \* the device's row in platform.device_claims
  cert,       \* cert_status of the device
  slipped,    \* history: revisions applied after the certificate was revoked
  status,     \* the device's row in config.device_configuration_statuses
  file,       \* revision in the device's configuration file, 0 if there is none
  applied,    \* ConfigurationSynchronizer.applied
  pc,         \* pc[l]: where loop l of the agent stands
  hand,       \* hand[l]: the revision loop l has pulled, and its outcome
  late,       \* reports whose client stopped waiting; the server may still run them
  faults      \* faults so far

site == <<zones, push, revisions>>
device == <<claim, cert>>
agent == <<file, applied, pc, hand, slipped>>
vars == <<site, device, status, agent, late, faults>>

Loops == {"poll", "beat"}
Latest == Len(revisions)
Places == {"idle", "hint", "wait", "pull", "read", "apply", "report", "record"}
Outcome == [rev : Nat, state : {"none", "applied", "failed"}]
NoOutcome == [rev |-> 0, state |-> "none"]

Init ==
  /\ zones = 0
  /\ push = [a \in Admins |-> None]
  /\ revisions = << >>
  /\ claim = "none"
  /\ cert = "pending"
  /\ status = NoOutcome
  /\ file = 0
  /\ applied = 0
  /\ slipped = 0
  /\ pc = [l \in Loops |-> "idle"]
  /\ hand = [l \in Loops |-> NoOutcome]
  /\ late = {}
  /\ faults = 0

Fault == faults < MaxFaults /\ faults' = faults + 1

--------------------------------------------------------------------------------
(* Administrators *)

\* A zone is created, or updated by a request that names its current version.
EditZones ==
  /\ zones < MaxEdits
  /\ zones' = zones + 1
  /\ UNCHANGED <<push, revisions, device, status, agent, late, faults>>

\* The push request lists the zones of the site.
PushLists(a) ==
  /\ push[a] = None
  /\ Latest < MaxRevisions
  /\ push' = [push EXCEPT ![a] = zones]
  /\ UNCHANGED <<zones, revisions, device, status, agent, late, faults>>

\* Publish, under the site's advisory lock: the listed zones become the next
\* revision.
PushPublishes(a) ==
  /\ push[a] # None
  /\ Latest < MaxRevisions
  /\ revisions' = Append(revisions, push[a])
  /\ push' = [push EXCEPT ![a] = None]
  /\ UNCHANGED <<zones, device, status, agent, late, faults>>

\* The push is answered with an error and publishes nothing.
PushFails(a) ==
  /\ push[a] # None
  /\ push' = [push EXCEPT ![a] = None]
  /\ UNCHANGED <<zones, revisions, device, status, agent, late, faults>>

--------------------------------------------------------------------------------
(* Enrolment of the device *)

\* IssueClaim: the serial number is new to the tenant, so the device row and its
\* claim are inserted.  A second claim for the serial is refused.
IssueClaim ==
  /\ claim = "none"
  /\ claim' = "open"
  /\ UNCHANGED <<site, cert, status, agent, late, faults>>

ClaimExpires ==
  /\ claim = "open"
  /\ claim' = "expired"
  /\ UNCHANGED <<site, cert, status, agent, late, faults>>

\* Activate: an unexpired claim is consumed and the device becomes active.
Activate ==
  /\ claim = "open"
  /\ claim' = "consumed"
  /\ UNCHANGED <<site, cert, status, agent, late, faults>>

\* The certificate authority activates and may later revoke the certificate.
CertificateChanges ==
  /\ claim # "none"
  /\ \/ cert = "pending" /\ cert' = "active"
     \/ cert = "active" /\ cert' = "revoked"
  /\ UNCHANGED <<site, claim, status, agent, late, faults>>

\* What every device function of the database checks first.
Authorized == cert = "active" /\ claim = "consumed"

--------------------------------------------------------------------------------
(* The agent: ConfigurationSynchronizer *)

\* syncMu is held.
Syncing == \E l \in Loops : pc[l] \in {"pull", "read", "apply", "report", "record"}

Return(l) ==
  /\ pc' = [pc EXCEPT ![l] = "idle"]
  /\ hand' = [hand EXCEPT ![l] = NoOutcome]

\* A heartbeat is accepted; desired_device_configuration_revision looks at the
\* certificate first.
Heartbeat ==
  /\ pc["beat"] = "idle"
  /\ Authorized
  /\ pc' = [pc EXCEPT !["beat"] = "hint"]
  /\ UNCHANGED <<site, device, status, file, applied, hand, slipped, late, faults>>

\* The answer carries the newest revision as a hint, unless reading it failed,
\* and the agent decides to synchronize if that is above the one it holds.  A
\* hint that was overtaken on its way is below Latest, so it allows no more.
HintAnswered ==
  /\ pc["beat"] = "hint"
  /\ \/ Latest > applied /\ pc' = [pc EXCEPT !["beat"] = "wait"]
     \/ pc' = [pc EXCEPT !["beat"] = "idle"]
  /\ UNCHANGED <<site, device, status, file, applied, hand, slipped, late, faults>>

\* Mutant: Sync does not take syncMu.
StartSync_NoMutex(l) ==
  /\ pc[l] = IF l = "poll" THEN "idle" ELSE "wait"
  /\ pc' = [pc EXCEPT ![l] = "pull"]
  /\ UNCHANGED <<site, device, status, file, applied, hand, slipped, late, faults>>

\* Sync: take the mutex and send the pull request.  The poll loop does so at
\* every tick, the heartbeat loop after a hint.
StartSync(l) ==
  /\ pc[l] = IF l = "poll" THEN "idle" ELSE "wait"
  /\ ~ Syncing
  /\ pc' = [pc EXCEPT ![l] = "pull"]
  /\ UNCHANGED <<site, device, status, file, applied, hand, slipped, late, faults>>

\* Mutant: a revoked certificate is let through.
PullChecked_Revoked(l) ==
  /\ pc[l] = "pull"
  /\ IF claim = "consumed" /\ cert # "pending"
       THEN pc' = [pc EXCEPT ![l] = "read"] /\ UNCHANGED hand
       ELSE Return(l)
  /\ UNCHANGED <<site, device, status, file, applied, slipped, late, faults>>

\* pull_device_configuration is two statements, each with a snapshot of its own
\* and without a lock on the device.  The first answers 401 if the device is not
\* authorized.
PullChecked(l) ==
  /\ pc[l] = "pull"
  /\ IF Authorized
       THEN pc' = [pc EXCEPT ![l] = "read"] /\ UNCHANGED hand
       ELSE Return(l)
  /\ UNCHANGED <<site, device, status, file, applied, slipped, late, faults>>

\* The second reads the newest revision above the one the agent holds; 204 if
\* there is none.
PullRead(l) ==
  /\ pc[l] = "read"
  /\ IF Latest > applied
       THEN /\ pc' = [pc EXCEPT ![l] = "apply"]
            /\ hand' = [hand EXCEPT ![l] = [rev |-> Latest, state |-> "none"]]
       ELSE Return(l)
  /\ UNCHANGED <<site, device, status, file, applied, slipped, late, faults>>

PullFails(l) ==
  /\ pc[l] \in {"pull", "read"}
  /\ Fault
  /\ Return(l)
  /\ UNCHANGED <<site, device, status, file, applied, slipped, late>>

\* ApplyAtomic renames the synced temporary file over the configuration file.
Apply(l) ==
  /\ pc[l] = "apply"
  /\ file' = hand[l].rev
  /\ applied' = hand[l].rev
  /\ slipped' = slipped + (IF cert = "revoked" THEN 1 ELSE 0)
  /\ pc' = [pc EXCEPT ![l] = "report"]
  /\ hand' = [hand EXCEPT ![l] = [rev |-> hand[l].rev, state |-> "applied"]]
  /\ UNCHANGED <<site, device, status, late, faults>>

\* Mutant: the revision is remembered before the file is replaced.
ApplyFails_Remembers(l) ==
  /\ pc[l] = "apply"
  /\ Fault
  /\ applied' = hand[l].rev
  /\ pc' = [pc EXCEPT ![l] = "report"]
  /\ hand' = [hand EXCEPT ![l] = [rev |-> hand[l].rev, state |-> "failed"]]
  /\ UNCHANGED <<site, device, status, file, slipped, late>>

\* Mutant: the outcome is reported as applied whatever ApplyAtomic returned.
ApplyFails_SaysApplied(l) ==
  /\ pc[l] = "apply"
  /\ Fault
  /\ pc' = [pc EXCEPT ![l] = "report"]
  /\ hand' = [hand EXCEPT ![l] = [rev |-> hand[l].rev, state |-> "applied"]]
  /\ UNCHANGED <<site, device, status, file, applied, slipped, late>>

\* ApplyAtomic returns an error: the file and the revision held stay.
ApplyFails(l) ==
  /\ pc[l] = "apply"
  /\ Fault
  /\ pc' = [pc EXCEPT ![l] = "report"]
  /\ hand' = [hand EXCEPT ![l] = [rev |-> hand[l].rev, state |-> "failed"]]
  /\ UNCHANGED <<site, device, status, file, applied, slipped, late>>

--------------------------------------------------------------------------------
(* Reports: report_device_configuration checks, then writes *)

\* The report is for a revision of the site and not older than the stored one.
Reportable(o) == Authorized /\ o.rev \in 1..Latest /\ o.rev >= status.rev

ReportChecked(l) ==
  /\ pc[l] = "report"
  /\ IF Reportable(hand[l])
       THEN pc' = [pc EXCEPT ![l] = "record"] /\ UNCHANGED hand
       ELSE Return(l)
  /\ UNCHANGED <<site, device, status, file, applied, slipped, late, faults>>

\* The upsert.  Its conflict target names columns that are output parameters of
\* the function too, which the database may refuse as ambiguous: the report is
\* then answered with an error and the row stays.
ReportWritten(l) ==
  /\ pc[l] = "record"
  /\ status' \in {status, hand[l]}
  /\ Return(l)
  /\ UNCHANGED <<site, device, file, applied, slipped, late, faults>>

\* The reports the agent is waiting for, with how far the server has got.
InFlight ==
  {[n |-> faults', out |-> hand[l], checked |-> pc[l] = "record"] :
     l \in {k \in Loops : pc[k] \in {"report", "record"}}}

\* The report times out at the agent.  It is not sent again.  The server may
\* never see it, or process it later.
ReportAbandoned(l) ==
  /\ pc[l] \in {"report", "record"}
  /\ Fault
  /\ late' \in {late, late \cup InFlight}
  /\ Return(l)
  /\ UNCHANGED <<site, device, status, file, applied, slipped>>

\* The server reaches a report nobody waits for.
LateChecked(r) ==
  /\ ~ r.checked
  /\ late' = (late \ {r}) \cup
               (IF Reportable(r.out) THEN {[r EXCEPT !.checked = TRUE]} ELSE {})
  /\ UNCHANGED <<site, device, status, agent, faults>>

LateWritten(r) ==
  /\ r.checked
  /\ late' = late \ {r}
  /\ status' \in {status, r.out}
  /\ UNCHANGED <<site, device, agent, faults>>

\* The agent stops and is started again: main constructs the synchronizer with
\* revision 0.  The configuration file stays.
Restart ==
  /\ Fault
  /\ applied' = 0
  /\ pc' = [l \in Loops |-> "idle"]
  /\ hand' = [l \in Loops |-> NoOutcome]
  /\ late' \in {late, late \cup InFlight}
  /\ UNCHANGED <<site, device, status, file, slipped>>

--------------------------------------------------------------------------------
Pushing == EditZones \/ \E a \in Admins : PushLists(a) \/ PushPublishes(a) \/ PushFails(a)
Enrolling == IssueClaim \/ ClaimExpires \/ Activate \/ CertificateChanges
Progress(l) ==
  \/ PullChecked(l)
  \/ PullRead(l)
  \/ Apply(l)
  \/ ReportChecked(l)
  \/ ReportWritten(l)
Faulty(l) == PullFails(l) \/ ApplyFails(l) \/ ReportAbandoned(l)

Next ==
  \/ Pushing
  \/ Enrolling
  \/ Heartbeat \/ HintAnswered
  \/ \E l \in Loops : StartSync(l) \/ Progress(l) \/ Faulty(l)
  \/ \E r \in late : LateChecked(r) \/ LateWritten(r)
  \/ Restart

Spec == Init /\ [][Next]_vars

\* The poll loop ticks for ever, and every request and file operation ends.
Fairness ==
  /\ WF_vars(StartSync("poll"))
  /\ \A l \in Loops : WF_vars(Progress(l))

FairSpec == Spec /\ Fairness

--------------------------------------------------------------------------------
(* Properties *)

TypeOK ==
  /\ zones \in 0..MaxEdits
  /\ push \in [Admins -> 0..MaxEdits \cup {None}]
  /\ revisions \in Seq(0..MaxEdits)
  /\ claim \in {"none", "open", "expired", "consumed"}
  /\ cert \in {"pending", "active", "revoked"}
  /\ status \in Outcome
  /\ file \in Nat
  /\ applied \in Nat
  /\ slipped \in Nat
  /\ pc \in [Loops -> Places]
  /\ hand \in [Loops -> Outcome]
  /\ late \subseteq [n : Nat, out : Outcome, checked : BOOLEAN]
  /\ faults \in 0..MaxFaults

\* The device never goes back to an older revision, whichever loop applies it,
\* however its steps interleave with pushes, and across restarts, although a
\* restart forgets which revision the file holds.
FileNeverRegresses == [][file' >= file]_file

\* When the control plane shows a revision as applied, the device has written
\* that revision or a newer one, even if the report was abandoned or overtaken.
AppliedIsTrue == status.state = "applied" => status.rev <= file

\* A device obtains configuration only after its claim was consumed and its
\* certificate activated.  The pull that had passed the check when the
\* certificate was revoked may still bring it one revision, published before or
\* after; no other pull, of either loop or after a restart, brings another.
OnlyAuthorizedReceive ==
  /\ file > 0 => claim = "consumed" /\ cert # "pending"
  /\ slipped <= 1

\* Every published revision, or a newer one, reaches an enrolled device whose
\* certificate is not revoked, once faults cease.
ReachesDevice ==
  \A n \in 1..MaxRevisions :
    (Authorized /\ Latest >= n) ~> (file >= n \/ cert = "revoked")

\* Of two revisions the later one never carries older zones: a push snapshots
\* the current zones, as docs/development/phase-3-config-delivery.md says.
RevisionsFollowZones ==
  \A m, n \in 1..Latest : m < n => revisions[m] <= revisions[n]
================================================================================
