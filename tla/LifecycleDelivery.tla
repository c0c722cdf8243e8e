--------------------------- MODULE LifecycleDelivery ---------------------------
(***************************************************************************)
(* User lifecycle requests (backend/internal/usermanagement) and the       *)
(* worker that delivers them to the identity provider.                     *)
(*                                                                         *)
(* PostgresAdapter.Invite and .Disable commit an intent with its audit     *)
(* entry; DeliveryWorker leases the intents its provider supports (today   *)
(* invitations only), calls the provider once per leased intent and        *)
(* records the outcome.  The provider has no idempotency key: every call   *)
(* may send one more invitation.                                           *)
(***************************************************************************)
EXTENDS Naturals, FiniteSets

CONSTANTS Requests,   \* request ids, UNIQUE (tenant_id, request_id)
          Emails,     \* addresses that can be invited
          Admins,     \* members with role super_admin
          Members,    \* members with another role
          Workers,    \* lifecycle-delivery-worker processes
          None,       \* NULL
          BatchSize,  \* rows claimed at a time
          MaxFaults   \* bound on faults of all kinds together

Users == Admins \cup Members

ASSUME LifecycleAssumption ==
  /\ IsFiniteSet(Requests)
  /\ IsFiniteSet(Users)
  /\ IsFiniteSet(Workers)
  /\ Admins # {}
  /\ BatchSize \in Nat \ {0}
  /\ MaxFaults \in Nat
  /\ None \notin (Workers \X Nat)

VARIABLES kind,       \* action of the intent, "none" where there is no row
          subject,    \* the invited address or the user to disable
          status,
          owner,      \* lease_owner
          live,       \* lease_expires_at > clock_timestamp()
          created,    \* created_at
          audit,      \* audit entries naming the request
          active,     \* users whose membership is active
          disabling,  \* open Disable transactions
          sent,       \* invitations the provider has sent for the request
          ambiguous,  \* requests for which a worker was told "unclear"
          run, pc, batch, cur, result,  \* the worker processes
          faults

intents == <<kind, subject, status, owner, live, created, audit>>
provider == <<sent, ambiguous>>
worker == <<run, pc, batch, cur, result>>
vars == <<intents, active, disabling, provider, worker, faults>>

Statuses == {"pending", "delivering", "delivered", "failed", "reconciliation_required"}

\* status varchar(16), and the length of each value the code writes.
StatusWidth == 16
Length == [pending |-> 7, delivering |-> 10, delivered |-> 9, failed |-> 6,
           reconciliation_required |-> 23]

Me(w) == <<w, run[w]>>
Owner == Workers \X Nat
Stored == {r \in Requests : kind[r] # "none"}
Fault == faults < MaxFaults /\ faults' = faults + 1

Init ==
  /\ kind = [r \in Requests |-> "none"]
  /\ subject = [r \in Requests |-> None]
  /\ status = [r \in Requests |-> "pending"]
  /\ owner = [r \in Requests |-> None]
  /\ live = [r \in Requests |-> FALSE]
  /\ created = [r \in Requests |-> 0]
  /\ audit = [r \in Requests |-> 0]
  /\ active = Users
  /\ disabling = {}
  /\ sent = [r \in Requests |-> 0]
  /\ ambiguous = {}
  /\ run = [w \in Workers |-> 0]
  /\ pc = [w \in Workers |-> "idle"]
  /\ batch = [w \in Workers |-> {}]
  /\ cur = [w \in Workers |-> None]
  /\ result = [w \in Workers |-> "ok"]
  /\ faults = 0

--------------------------------------------------------------------------------
(***************************************************************************)
(* PostgresAdapter.  Invite is one upsert; a repeated request id changes   *)
(* nothing, whether it is answered (same address) or refused.              *)
(***************************************************************************)
Queue(r, k, s) ==
  /\ kind' = [kind EXCEPT ![r] = k]
  /\ subject' = [subject EXCEPT ![r] = s]
  /\ created' = [created EXCEPT ![r] = Cardinality(Stored) + 1]
  /\ audit' = [audit EXCEPT ![r] = @ + 1]
  /\ UNCHANGED <<status, owner, live>>

Invite(r, e) ==
  /\ kind[r] = "none"
  /\ Queue(r, "invite", e)
  /\ UNCHANGED <<active, disabling, provider, worker, faults>>

\* Mutant: without the advisory lock only the row lock on the target is left.
DisableChecks_NoLock(r, actor, u) ==
  /\ actor # u
  /\ \A d \in disabling : d.user # u
  /\ kind[r] = "none"
  /\ u \in active
  /\ u \in Admins => Cardinality(active \cap Admins) > 1
  /\ disabling' = disabling \cup {[req |-> r, user |-> u]}
  /\ UNCHANGED <<intents, active, provider, worker, faults>>

\* Disable takes the tenant's advisory lock and reads: the request must be
\* new, the target active, and not the last active super admin.  The actor is
\* whoever holds a super_admin token; the membership behind it is not read.
DisableChecks(r, actor, u) ==
  /\ actor # u                                  \* ErrCannotDisableSelf
  /\ disabling = {}                             \* pg_advisory_xact_lock
  /\ kind[r] = "none"                           \* else replay or conflict
  /\ u \in active                               \* FOR UPDATE
  /\ u \in Admins => Cardinality(active \cap Admins) > 1
  /\ disabling' = disabling \cup {[req |-> r, user |-> u]}
  /\ UNCHANGED <<intents, active, provider, worker, faults>>

\* Mutant: the suspension is kept when the intent cannot be inserted.
DisableCommits_KeepSuspension(d) ==
  /\ d \in disabling
  /\ disabling' = disabling \ {d}
  /\ active' = active \ {d.user}
  /\ IF kind[d.req] = "none" THEN Queue(d.req, "disable", d.user) ELSE UNCHANGED intents
  /\ UNCHANGED <<provider, worker, faults>>

\* The writes of Disable.  An Invite that took the request id in the meantime
\* makes the INSERT a unique violation, which rolls the suspension back.
DisableCommits(d) ==
  /\ d \in disabling
  /\ disabling' = disabling \ {d}
  /\ IF kind[d.req] = "none"
     THEN active' = active \ {d.user} /\ Queue(d.req, "disable", d.user)
     ELSE UNCHANGED <<active, intents>>
  /\ UNCHANGED <<provider, worker, faults>>

\* The connection is lost and the transaction rolled back.
DisableAborts(d) ==
  /\ d \in disabling
  /\ disabling' = disabling \ {d}
  /\ Fault
  /\ UNCHANGED <<intents, active, provider, worker>>

--------------------------------------------------------------------------------
(***************************************************************************)
(* PostgresDeliveryStore.Claim, for the one action the provider supports.  *)
(***************************************************************************)
DeliveryActions == {"invite"}

\* Mutant: an expired lease is not taken over.
Claimable_NoReclaim(r) ==
  /\ kind[r] \in DeliveryActions
  /\ status[r] \in {"pending", "failed"}

\* Mutant: a live lease does not protect the row.
Claimable_LiveLease(r) ==
  /\ kind[r] \in DeliveryActions
  /\ status[r] \in {"pending", "failed", "delivering"}

Claimable(r) ==
  /\ kind[r] \in DeliveryActions
  /\ status[r] \in {"pending", "failed"} \/ (status[r] = "delivering" /\ ~ live[r])

LockedByOthers(w) ==
  {cur[v] : v \in {u \in Workers \ {w} : pc[u] = "mark"}}

Lease(w, claimed) ==
  /\ \E skipped \in SUBSET LockedByOthers(w) :
       LET candidates == {r \in Requests : Claimable(r)} \ skipped IN
       /\ claimed \subseteq candidates
       /\ claimed # {}
       /\ Cardinality(claimed) <= BatchSize
       /\ claimed # candidates => Cardinality(claimed) = BatchSize
       /\ \A r \in claimed, q \in candidates \ claimed : created[r] < created[q]
  /\ status' = [r \in Requests |-> IF r \in claimed THEN "delivering" ELSE status[r]]
  /\ owner' = [r \in Requests |-> IF r \in claimed THEN Me(w) ELSE owner[r]]
  /\ live' = [r \in Requests |-> IF r \in claimed THEN TRUE ELSE live[r]]
  /\ UNCHANGED <<kind, subject, created, audit>>

Claim(w) ==
  /\ pc[w] = "idle"
  /\ \E claimed \in SUBSET Requests :
       /\ Lease(w, claimed)
       /\ batch' = [batch EXCEPT ![w] = claimed]
  /\ pc' = [pc EXCEPT ![w] = "deliver"]
  /\ UNCHANGED <<active, disabling, provider, run, cur, result, faults>>

\* The claim commits but the worker gets an error.
ClaimUnanswered(w) ==
  /\ pc[w] = "idle"
  /\ \E claimed \in SUBSET Requests : Lease(w, claimed)
  /\ Fault
  /\ UNCHANGED <<active, disabling, provider, worker>>

(***************************************************************************)
(* SupabaseInvitationProvider.Deliver.  The lease is not looked at again   *)
(* before the call.  A transport error or a non-2xx answer leaves open     *)
(* whether the invitation went out.                                        *)
(***************************************************************************)
Returns(w, r, outcome) ==
  /\ pc[w] = "deliver"
  /\ r \in batch[w]
  /\ pc' = [pc EXCEPT ![w] = "mark"]
  /\ cur' = [cur EXCEPT ![w] = r]
  /\ result' = [result EXCEPT ![w] = outcome]
  /\ UNCHANGED <<intents, active, disabling, run, batch>>

Deliver(w, r) ==
  /\ Returns(w, r, "ok")
  /\ sent' = [sent EXCEPT ![r] = @ + 1]
  /\ UNCHANGED <<ambiguous, faults>>

DeliverAmbiguous(w, r) ==
  /\ Returns(w, r, "ambiguous")
  /\ \/ UNCHANGED sent
     \/ sent' = [sent EXCEPT ![r] = @ + 1]
  /\ ambiguous' = ambiguous \cup {r}
  /\ Fault

\* Any other error of a DeliveryProvider, before anything is sent.
DeliverRejected(w, r) ==
  /\ Returns(w, r, "rejected")
  /\ UNCHANGED provider
  /\ Fault

Outcome(w) ==
  CASE result[w] = "ok" -> "delivered"
    [] result[w] = "ambiguous" -> "reconciliation_required"
    [] result[w] = "rejected" -> "failed"

\* Mutant: a request is recorded as delivered whatever the provider answered.
Finish_AlwaysDelivered(w) ==
  LET r == cur[w] IN
  IF owner[r] = Me(w) /\ status[r] = "delivering"
  THEN /\ status' = [status EXCEPT ![r] = "delivered"]
       /\ owner' = [owner EXCEPT ![r] = None]
       /\ live' = [live EXCEPT ![r] = FALSE]
  ELSE UNCHANGED <<status, owner, live>>

\* finish and MarkReconciliationRequired: only the lease owner's update matches
\* a row, and a value longer than its column fails the transaction.
Finish(w) ==
  LET r == cur[w] IN
  IF /\ owner[r] = Me(w) /\ status[r] = "delivering"   \* else ErrDeliveryLeaseLost
     /\ Length[Outcome(w)] <= StatusWidth              \* else string_data_right_truncation
  THEN /\ status' = [status EXCEPT ![r] = Outcome(w)]
       /\ owner' = [owner EXCEPT ![r] = None]
       /\ live' = [live EXCEPT ![r] = FALSE]
  ELSE UNCHANGED <<status, owner, live>>

\* DispatchTenant goes on with the rest of the batch.
Proceed(w) ==
  LET rest == batch[w] \ {cur[w]} IN
  /\ batch' = [batch EXCEPT ![w] = rest]
  /\ pc' = [pc EXCEPT ![w] = IF rest = {} THEN "idle" ELSE "deliver"]
  /\ cur' = [cur EXCEPT ![w] = None]
  /\ UNCHANGED <<run, result>>

Mark(w) ==
  /\ pc[w] = "mark"
  /\ Finish(w)
  /\ Proceed(w)
  /\ UNCHANGED <<kind, subject, created, audit, active, disabling, provider, faults>>

\* The transaction fails, as it does once SIGTERM has cancelled its context.
MarkFails(w) ==
  /\ pc[w] = "mark"
  /\ Proceed(w)
  /\ Fault
  /\ UNCHANGED <<intents, active, disabling, provider>>

Working(r) == \E w \in Workers : owner[r] = Me(w) /\ r \in batch[w]

\* Sixty seconds pass; a fault only while the owner is still at work.
LeaseExpires(r) ==
  /\ live[r]
  /\ live' = [live EXCEPT ![r] = FALSE]
  /\ IF Working(r) THEN Fault ELSE UNCHANGED faults
  /\ UNCHANGED <<kind, subject, status, owner, created, audit, active, disabling,
                 provider, worker>>

Crash(w) ==
  /\ pc[w] # "idle"
  /\ Fault
  /\ run' = [run EXCEPT ![w] = @ + 1]
  /\ pc' = [pc EXCEPT ![w] = "idle"]
  /\ batch' = [batch EXCEPT ![w] = {}]
  /\ cur' = [cur EXCEPT ![w] = None]
  /\ UNCHANGED <<intents, active, disabling, provider, result>>

--------------------------------------------------------------------------------
Next ==
  \/ \E r \in Requests, e \in Emails : Invite(r, e)
  \/ \E r \in Requests, actor \in Admins, u \in Users : DisableChecks(r, actor, u)
  \/ \E d \in disabling : DisableCommits(d) \/ DisableAborts(d)
  \/ \E w \in Workers : Claim(w) \/ ClaimUnanswered(w) \/ Mark(w) \/ MarkFails(w) \/ Crash(w)
  \/ \E w \in Workers, r \in Requests :
       Deliver(w, r) \/ DeliverAmbiguous(w, r) \/ DeliverRejected(w, r)
  \/ \E r \in Requests : LeaseExpires(r)

Spec == Init /\ [][Next]_vars

\* main calls DispatchTenant every second, a batch is worked through to its
\* end, and the clock advances.
Fairness ==
  /\ \A w \in Workers : /\ WF_vars(Claim(w))
                        /\ WF_vars(\E r \in Requests : Deliver(w, r))
                        /\ WF_vars(Mark(w))
  /\ \A r \in Requests : WF_vars(LeaseExpires(r) /\ ~ Working(r))

FairSpec == Spec /\ Fairness

--------------------------------------------------------------------------------
TypeOK ==
  /\ kind \in [Requests -> {"none", "invite", "disable"}]
  /\ subject \in [Requests -> Emails \cup Users \cup {None}]
  /\ status \in [Requests -> {s \in Statuses : Length[s] <= StatusWidth}]
  /\ owner \in [Requests -> Owner \cup {None}]
  /\ live \in [Requests -> BOOLEAN]
  /\ created \in [Requests -> Nat]
  /\ audit \in [Requests -> Nat]
  /\ active \subseteq Users
  /\ disabling \subseteq [req : Requests, user : Users]
  /\ sent \in [Requests -> Nat]
  /\ ambiguous \subseteq Requests
  /\ run \in [Workers -> Nat]
  /\ pc \in [Workers -> {"idle", "deliver", "mark"}]
  /\ batch \in [Workers -> SUBSET Requests]
  /\ cur \in [Workers -> Requests \cup {None}]
  /\ result \in [Workers -> {"ok", "ambiguous", "rejected"}]
  /\ faults \in Nat

\* However many disablements run at once, a super admin stays active
\* (ErrLastActiveSuperAdmin under the advisory lock).
SuperAdminRemains == active \cap Admins # {}

\* A membership is suspended exactly when the revocation at the provider is
\* queued and audited: Disable commits both or neither, even when an Invite
\* takes its request id between its reads and its writes.
SuspensionIsQueued ==
  \A u \in Users :
    u \notin active <=>
      \E r \in Requests : kind[r] = "disable" /\ subject[r] = u /\ audit[r] = 1

\* A row that says delivered was sent to the provider, and nothing but an
\* invitation ever is: a queued disablement waits for its own adapter.
DeliveredWasSent ==
  /\ \A r \in Requests : status[r] = "delivered" => sent[r] > 0
  /\ \A r \in Requests : (sent[r] > 0 \/ status[r] # "pending") => kind[r] = "invite"

\* Leases keep the workers apart: every invitation beyond the first costs a
\* fault (a crash, a failed update, an overrun lease or an unclear answer).
ResendNeedsFault == \A r \in Requests : sent[r] <= 1 + faults

\* Every queued invitation is delivered in the end, whichever workers died or
\* lost their lease on the way; one whose answer was unclear is exempt, since
\* ADR-011 and MarkReconciliationRequired want it held for an operator.
InvitationDelivered ==
  \A r \in Requests :
    (kind[r] = "invite") ~> (status[r] = "delivered" \/ r \in ambiguous)

\* ADR-011: "an ambiguous response is held in reconciliation_required rather
\* than retried".  MarkReconciliationRequired writes 23 characters into a
\* varchar(16), so the hold never commits and the lease runs out.
AmbiguousIsHeld ==
  [][\A r \in Requests : r \in ambiguous => sent'[r] = sent[r]]_vars
================================================================================
