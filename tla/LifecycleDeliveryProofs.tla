------------------------ MODULE LifecycleDeliveryProofs ------------------------
(***************************************************************************)
(* Proofs about LifecycleDelivery, for any requests, members, finite sets  *)
(* of workers, batch size and number of faults.                            *)
(*                                                                         *)
(* The argument has two halves.  The advisory lock lets one disablement    *)
(* run at a time, so what it has read is still true when it writes, and    *)
(* the intent, its audit entry and the suspension are one transaction.     *)
(* For the deliveries, a request has a budget of one invitation and one    *)
(* more per fault.  What is charged to it is the invitations sent, the     *)
(* workers that hold it and have not had a success, and one more while the *)
(* row can be claimed without a further fault.  A claim turns the last     *)
(* into a holder, a success a holder into an invitation, and whatever      *)
(* makes a row claimable again has cost a fault.                           *)
(***************************************************************************)
EXTENDS LifecycleDelivery, FiniteSetTheorems, TLAPS

\* The provers each leaf is tried with in turn, unless it names one.
USE ZenonT(5), SMTT(20), ZenonT(40)

\* What the one open Disable transaction has read still holds.
Reading ==
  /\ \A d, e \in disabling : d = e
  /\ \A d \in disabling :
       /\ d.user \in active
       /\ d.user \in Admins => \E b \in active \cap Admins : b # d.user

\* A request has one audit entry from the moment it is stored.
Audited == \A r \in Requests : audit[r] = IF kind[r] = "none" THEN 0 ELSE 1

\* What a worker holds.
Batches ==
  \A w \in Workers :
    /\ pc[w] = "idle" => batch[w] = {}
    /\ pc[w] = "mark" => cur[w] \in batch[w]
    /\ pc[w] = "mark" /\ result[w] = "ok" => sent[cur[w]] > 0
    /\ \A r \in batch[w] : kind[r] = "invite"

\* w has had the provider's success for r and is about to record it.
Succeeded(w, r) == pc[w] = "mark" /\ cur[w] = r /\ result[w] = "ok"

Holders(r) == {w \in Workers : r \in batch[w] /\ ~ Succeeded(w, r)}

\* The row can be claimed without a further fault, now or once its lease, whose
\* owner is no longer at work, has run out.
Reclaimable(r) ==
  \/ status[r] \in {"pending", "failed"}
  \/ status[r] = "delivering" /\ ~ (live[r] /\ Working(r))

Open(r) == IF Reclaimable(r) THEN 1 ELSE 0

\* What is charged to a request never exceeds its budget.
Budget == \A r \in Requests : sent[r] + Cardinality(Holders(r)) + Open(r) <= 1 + faults

IInv ==
  /\ TypeOK /\ Reading /\ Audited /\ Batches /\ Budget
  /\ SuperAdminRemains /\ SuspensionIsQueued /\ DeliveredWasSent

--------------------------------------------------------------------------------
(* Sets and widths *)

\* A finite set with more than one member has one other than a given x.
LEMMA Another ==
  ASSUME NEW S, IsFiniteSet(S), Cardinality(S) > 1, NEW x
  PROVE  \E b \in S : b # x
  <1>1. Cardinality(S) \in Nat
    BY FS_CardinalityType
  <1>2. /\ IsFiniteSet(S \ {x})
        /\ Cardinality(S \ {x}) = IF x \in S THEN Cardinality(S) - 1 ELSE Cardinality(S)
    BY FS_RemoveElement
  <1>3. S \ {x} # {}
    BY <1>1, <1>2, FS_EmptySet
  <1> QED
    BY <1>3

\* The statuses that fit their column are all but the hold.
LEMMA Widths ==
  /\ {"pending", "delivering", "delivered", "failed"} \subseteq {s \in Statuses : Length[s] <= StatusWidth}
  /\ ~ (Length["reconciliation_required"] <= StatusWidth)
  <1>1. /\ Length["pending"] = 7 /\ Length["delivering"] = 10 /\ Length["delivered"] = 9
        /\ Length["failed"] = 6 /\ Length["reconciliation_required"] = 23
    BY DEF Length
  <1> QED
    BY <1>1 DEF Statuses, StatusWidth

\* The holders of a request can be counted.
LEMMA HoldersFinite ==
  ASSUME NEW r PROVE IsFiniteSet(Holders(r)) /\ Cardinality(Holders(r)) \in Nat
  <1>1. Holders(r) \subseteq Workers /\ IsFiniteSet(Workers)
    BY LifecycleAssumption DEF Holders
  <1>2. IsFiniteSet(Holders(r))
    BY <1>1, FS_Subset
  <1> QED
    BY <1>2, FS_CardinalityType

\* The same after a step.
LEMMA HoldersFiniteNext ==
  ASSUME NEW r PROVE IsFiniteSet(Holders(r)') /\ Cardinality(Holders(r)') \in Nat
  <1>1. Holders(r)' \subseteq Workers /\ IsFiniteSet(Workers)
    BY LifecycleAssumption DEF Holders
  <1>2. IsFiniteSet(Holders(r)')
    BY <1>1, FS_Subset
  <1> QED
    BY <1>2, FS_CardinalityType

--------------------------------------------------------------------------------
(* The budget *)

\* The budget in numbers.
LEMMA Charged ==
  ASSUME IInv, NEW r \in Requests
  PROVE  /\ sent[r] \in Nat /\ Cardinality(Holders(r)) \in Nat /\ Open(r) \in {0, 1} /\ faults \in Nat
         /\ sent[r] + Cardinality(Holders(r)) + Open(r) <= 1 + faults
  <1>1. sent[r] \in Nat /\ faults \in Nat
    BY DEF IInv, TypeOK
  <1>2. Cardinality(Holders(r)) \in Nat
    BY HoldersFinite
  <1>3. Open(r) \in {0, 1}
    BY DEF Open
  <1>4. sent[r] + Cardinality(Holders(r)) + Open(r) <= 1 + faults
    BY DEF IInv, Budget
  <1> QED
    BY <1>1, <1>2, <1>3, <1>4

\* Holders that are lost leave fewer.
LEMMA FewerHolders ==
  ASSUME NEW r, Holders(r)' \subseteq Holders(r)
  PROVE  Cardinality(Holders(r)') \in Nat /\ Cardinality(Holders(r)') <= Cardinality(Holders(r))
  BY HoldersFinite, HoldersFiniteNext, FS_Subset

\* A step that sends nothing and costs a fault may make any row claimable.
LEMMA FaultPays ==
  ASSUME IInv, sent' = sent, faults' = faults + 1, \A r \in Requests : Holders(r)' \subseteq Holders(r)
  PROVE  Budget'
  <1> SUFFICES ASSUME NEW r \in Requests
               PROVE  sent'[r] + Cardinality(Holders(r)') + Open(r)' <= 1 + faults'
    BY DEF Budget
  <1>1. Cardinality(Holders(r)') \in Nat /\ Cardinality(Holders(r)') <= Cardinality(Holders(r))
    BY FewerHolders
  <1>2. Open(r)' \in {0, 1}
    BY DEF Open
  <1> QED
    BY <1>1, <1>2, Charged

\* A step that charges nothing anywhere keeps the budget.
LEMMA NothingCharged ==
  ASSUME IInv, sent' = sent, faults' = faults, \A r \in Requests : Holders(r)' = Holders(r),
         \A r \in Requests : Reclaimable(r)' => Reclaimable(r)
  PROVE  Budget'
  <1> SUFFICES ASSUME NEW r \in Requests
               PROVE  sent'[r] + Cardinality(Holders(r)') + Open(r)' <= 1 + faults'
    BY DEF Budget
  <1>1. Cardinality(Holders(r)') = Cardinality(Holders(r))
    OBVIOUS
  <1>2. Open(r)' \in {0, 1} /\ Open(r)' <= Open(r)
    BY DEF Open
  <1> QED
    BY <1>1, <1>2, Charged

--------------------------------------------------------------------------------
\* No request is stored, everyone is active and every worker idle.
LEMMA InitIInv == Init => IInv
  <1> SUFFICES ASSUME Init PROVE IInv
    OBVIOUS
  <1>1. TypeOK
    <2>1. status \in [Requests -> {s \in Statuses : Length[s] <= StatusWidth}]
      BY Widths DEF Init
    <2> QED
      BY <2>1 DEF Init, TypeOK
  <1>2. Reading /\ Audited /\ Batches
    BY DEF Init, Reading, Audited, Batches
  <1>3. Budget
    <2> SUFFICES ASSUME NEW r \in Requests PROVE sent[r] + Cardinality(Holders(r)) + Open(r) <= 1 + faults
      BY DEF Budget
    <2>1. Holders(r) = {}
      BY DEF Init, Holders
    <2>2. Cardinality(Holders(r)) = 0
      BY <2>1, FS_EmptySet
    <2>3. sent[r] = 0 /\ faults = 0 /\ Open(r) \in {0, 1}
      BY DEF Init, Open
    <2> QED
      BY <2>2, <2>3
  <1>4. SuperAdminRemains /\ SuspensionIsQueued /\ DeliveredWasSent
    BY LifecycleAssumption DEF Init, SuperAdminRemains, SuspensionIsQueued, DeliveredWasSent, Users
  <1> QED
    BY <1>1, <1>2, <1>3, <1>4 DEF IInv

--------------------------------------------------------------------------------
(* Invitations and disablements *)

\* A step of PostgresAdapter leaves the deliveries as they are.
LEMMA NoDelivery ==
  ASSUME IInv, UNCHANGED <<status, owner, live, provider, worker>>, faults' \in {faults, faults + 1},
         \A r \in Requests : kind[r] # "none" => kind'[r] = kind[r]
  PROVE  Batches' /\ Budget' /\ DeliveredWasSent'
  <1>1. UNCHANGED <<status, owner, live, sent, ambiguous, run, pc, batch, cur, result>>
    BY DEF provider, worker
  <1>2. batch \in [Workers -> SUBSET Requests]
    BY DEF IInv, TypeOK
  <1>3. Batches'
    BY <1>1, <1>2 DEF IInv, Batches
  <1>4. \A r \in Requests : Holders(r)' = Holders(r)
    BY <1>1 DEF Holders, Succeeded
  <1>5. \A r \in Requests : Reclaimable(r)' <=> Reclaimable(r)
    BY <1>1 DEF Reclaimable, Working, Me
  <1>6. Budget'
    BY <1>1, <1>4, <1>5, FaultPays, NothingCharged
  <1>7. DeliveredWasSent'
    BY <1>1 DEF IInv, DeliveredWasSent
  <1> QED
    BY <1>3, <1>6, <1>7

\* What storing an intent writes.
LEMMA Queued ==
  ASSUME IInv, NEW r \in Requests, kind[r] = "none", NEW k \in {"invite", "disable"},
         NEW s \in Emails \cup Users, Queue(r, k, s)
  PROVE  /\ kind' \in [Requests -> {"none", "invite", "disable"}]
         /\ subject' \in [Requests -> Emails \cup Users \cup {None}]
         /\ created' \in [Requests -> Nat] /\ audit' \in [Requests -> Nat]
         /\ UNCHANGED <<status, owner, live>>
         /\ kind'[r] = k /\ subject'[r] = s /\ audit'[r] = 1
         /\ \A q \in Requests : q # r => kind'[q] = kind[q] /\ subject'[q] = subject[q] /\ audit'[q] = audit[q]
         /\ Audited'
  <1>1. /\ kind \in [Requests -> {"none", "invite", "disable"}]
        /\ subject \in [Requests -> Emails \cup Users \cup {None}]
        /\ created \in [Requests -> Nat] /\ audit \in [Requests -> Nat] /\ audit[r] = 0
    BY DEF IInv, TypeOK, Audited
  <1>2. /\ kind' = [kind EXCEPT ![r] = k] /\ subject' = [subject EXCEPT ![r] = s]
        /\ audit' = [audit EXCEPT ![r] = @ + 1] /\ UNCHANGED <<status, owner, live>>
    BY DEF Queue
  <1>3. created' \in [Requests -> Nat]
    <2>1. IsFiniteSet(Stored)
      BY LifecycleAssumption, FS_Subset DEF Stored
    <2>2. Cardinality(Stored) + 1 \in Nat
      BY <2>1, FS_CardinalityType
    <2> QED
      BY <1>1, <2>2 DEF Queue
  <1>4. kind'[r] = k /\ subject'[r] = s /\ audit'[r] = 1
    BY <1>1, <1>2
  <1>5. \A q \in Requests : q # r => kind'[q] = kind[q] /\ subject'[q] = subject[q] /\ audit'[q] = audit[q]
    BY <1>1, <1>2
  <1>6. Audited'
    BY <1>4, <1>5 DEF IInv, Audited
  <1>7. kind' \in [Requests -> {"none", "invite", "disable"}]
    BY <1>1, <1>2
  <1>8. subject' \in [Requests -> Emails \cup Users \cup {None}] /\ audit' \in [Requests -> Nat]
    BY <1>1, <1>2
  <1> QED
    BY <1>2, <1>3, <1>4, <1>5, <1>6, <1>7, <1>8

\* An invitation is stored under a request id that is new.
LEMMA InviteStep ==
  ASSUME IInv, NEW r \in Requests, NEW e \in Emails, Invite(r, e) PROVE IInv'
  <1>1. /\ kind[r] = "none" /\ Queue(r, "invite", e)
        /\ UNCHANGED <<active, disabling, provider, worker, faults>>
    BY DEF Invite
  <1>2. /\ kind' \in [Requests -> {"none", "invite", "disable"}]
        /\ subject' \in [Requests -> Emails \cup Users \cup {None}]
        /\ created' \in [Requests -> Nat] /\ audit' \in [Requests -> Nat]
        /\ UNCHANGED <<status, owner, live>>
        /\ kind'[r] = "invite"
        /\ \A q \in Requests : q # r => kind'[q] = kind[q] /\ subject'[q] = subject[q] /\ audit'[q] = audit[q]
        /\ Audited'
    BY <1>1, Queued
  <1>3. TypeOK'
    BY <1>1, <1>2 DEF IInv, TypeOK, provider, worker
  <1>4. Batches' /\ Budget' /\ DeliveredWasSent'
    <2>1. \A q \in Requests : kind[q] # "none" => kind'[q] = kind[q]
      BY <1>1, <1>2
    <2> QED
      BY <1>1, <1>2, <2>1, NoDelivery
  <1>5. Reading' /\ SuperAdminRemains'
    BY <1>1 DEF IInv, Reading, SuperAdminRemains
  <1>6. SuspensionIsQueued'
    BY <1>1, <1>2 DEF IInv, SuspensionIsQueued
  <1> QED
    BY <1>2, <1>3, <1>4, <1>5, <1>6 DEF IInv

\* A disablement that passes its checks is the only one that is open.
LEMMA DisableChecksStep ==
  ASSUME IInv, NEW r \in Requests, NEW actor, NEW u \in Users, DisableChecks(r, actor, u) PROVE IInv'
  <1>1. /\ disabling = {} /\ u \in active /\ (u \in Admins => Cardinality(active \cap Admins) > 1)
        /\ disabling' = {[req |-> r, user |-> u]}
        /\ UNCHANGED <<intents, active, provider, worker, faults>>
    BY DEF DisableChecks
  <1>2. UNCHANGED <<kind, subject, status, owner, live, created, audit>>
    BY <1>1 DEF intents
  <1>3. TypeOK'
    BY <1>1, <1>2 DEF IInv, TypeOK, provider, worker
  <1>4. Batches' /\ Budget' /\ DeliveredWasSent'
    BY <1>1, <1>2, NoDelivery
  <1>5. u \in Admins => \E b \in active \cap Admins : b # u
    <2>1. active \cap Admins \subseteq Users /\ IsFiniteSet(Users)
      BY LifecycleAssumption DEF Users
    <2>2. IsFiniteSet(active \cap Admins)
      BY <2>1, FS_Subset
    <2> QED
      BY <1>1, <2>2, Another
  <1>6. Reading'
    BY <1>1, <1>5 DEF Reading
  <1>7. Audited' /\ SuperAdminRemains' /\ SuspensionIsQueued'
    BY <1>1, <1>2 DEF IInv, Audited, SuperAdminRemains, SuspensionIsQueued
  <1> QED
    BY <1>3, <1>4, <1>6, <1>7 DEF IInv

\* A transaction that ends without having written anything.
LEMMA DisableEnds ==
  ASSUME IInv, NEW d \in disabling, disabling' = disabling \ {d}, UNCHANGED <<active, intents, provider, worker>>,
         faults' \in {faults, faults + 1}
  PROVE  IInv'
  <1>1. UNCHANGED <<kind, subject, status, owner, live, created, audit>>
    BY DEF intents
  <1>2. TypeOK'
    BY <1>1 DEF IInv, TypeOK, provider, worker
  <1>3. Batches' /\ Budget' /\ DeliveredWasSent'
    BY <1>1, NoDelivery
  <1>4. Reading'
    BY DEF IInv, Reading
  <1>5. Audited' /\ SuperAdminRemains' /\ SuspensionIsQueued'
    BY <1>1 DEF IInv, Audited, SuperAdminRemains, SuspensionIsQueued
  <1> QED
    BY <1>2, <1>3, <1>4, <1>5 DEF IInv

\* The suspension and the intent are written together, or neither is.
LEMMA DisableCommitsStep ==
  ASSUME IInv, NEW d \in disabling, DisableCommits(d) PROVE IInv'
  <1>1. CASE kind[d.req] # "none"
    <2>1. /\ disabling' = disabling \ {d} /\ UNCHANGED <<active, intents, provider, worker>> /\ faults' = faults
      BY <1>1 DEF DisableCommits
    <2> QED
      BY <2>1, DisableEnds
  <1>2. CASE kind[d.req] = "none"
    <2> DEFINE r == d.req
               u == d.user
    <2>1. r \in Requests /\ u \in Users /\ u \in active /\ disabling = {d}
      BY DEF IInv, TypeOK, Reading
    <2>2. /\ disabling' = {} /\ active' = active \ {u} /\ Queue(r, "disable", u)
          /\ UNCHANGED <<provider, worker, faults>>
      BY <1>2, <2>1 DEF DisableCommits
    <2>3. u \in Admins => \E b \in active \cap Admins : b # u
      BY DEF IInv, Reading
    <2>4. kind[r] = "none"
      BY <1>2
    <2> HIDE DEF r, u
    <2>5. /\ kind' \in [Requests -> {"none", "invite", "disable"}]
          /\ subject' \in [Requests -> Emails \cup Users \cup {None}]
          /\ created' \in [Requests -> Nat] /\ audit' \in [Requests -> Nat]
          /\ UNCHANGED <<status, owner, live>>
          /\ kind'[r] = "disable" /\ subject'[r] = u /\ audit'[r] = 1
          /\ \A q \in Requests : q # r => kind'[q] = kind[q] /\ subject'[q] = subject[q] /\ audit'[q] = audit[q]
          /\ Audited'
      BY <2>1, <2>2, <2>4, Queued
    <2>6. TypeOK'
      BY <2>2, <2>5 DEF IInv, TypeOK, provider, worker
    <2>7. Batches' /\ Budget' /\ DeliveredWasSent'
      <3>1. \A q \in Requests : kind[q] # "none" => kind'[q] = kind[q]
        BY <2>4, <2>5
      <3> QED
        BY <2>2, <2>5, <3>1, NoDelivery
    <2>8. Reading'
      BY <2>2 DEF Reading
    <2>9. SuperAdminRemains'
      BY <2>2, <2>3 DEF IInv, SuperAdminRemains
    <2>10. SuspensionIsQueued'
      <3> SUFFICES ASSUME NEW v \in Users
                   PROVE  v \notin active' <=> \E q \in Requests : kind'[q] = "disable" /\ subject'[q] = v /\ audit'[q] = 1
        BY DEF SuspensionIsQueued
      <3>1. CASE v = u
        BY <3>1, <2>1, <2>2, <2>5
      <3>2. CASE v # u
        <4>1. v \notin active' <=> v \notin active
          BY <3>2, <2>2
        <4>2. v \notin active <=> \E q \in Requests : kind[q] = "disable" /\ subject[q] = v /\ audit[q] = 1
          BY DEF IInv, SuspensionIsQueued
        <4> QED
          BY <3>2, <4>1, <4>2, <2>4, <2>5
      <3> QED
        BY <3>1, <3>2
    <2> QED
      BY <2>5, <2>6, <2>7, <2>8, <2>9, <2>10 DEF IInv
  <1> QED
    BY <1>1, <1>2

\* A transaction that is rolled back leaves the memberships alone.
LEMMA DisableAbortsStep ==
  ASSUME IInv, NEW d \in disabling, DisableAborts(d) PROVE IInv'
  BY DisableEnds DEF DisableAborts, Fault

--------------------------------------------------------------------------------
(* Claims *)

\* The worker reads the intents and leaves requests and memberships alone.
LEMMA Governed ==
  ASSUME IInv, UNCHANGED <<kind, subject, created, audit, active, disabling>>
  PROVE  Reading' /\ Audited' /\ SuperAdminRemains' /\ SuspensionIsQueued'
  BY DEF IInv, Reading, Audited, SuperAdminRemains, SuspensionIsQueued

\* What leasing a batch writes.
LEMMA Leased ==
  ASSUME IInv, NEW w \in Workers, NEW claimed \in SUBSET Requests, Lease(w, claimed)
  PROVE  /\ UNCHANGED <<kind, subject, created, audit>>
         /\ status' \in [Requests -> {s \in Statuses : Length[s] <= StatusWidth}]
         /\ owner' \in [Requests -> Owner \cup {None}]
         /\ live' \in [Requests -> BOOLEAN]
         /\ \A r \in claimed : /\ kind[r] = "invite" /\ Reclaimable(r)
                               /\ status'[r] = "delivering" /\ live'[r] /\ owner'[r] = Me(w)
         /\ \A r \in Requests \ claimed : status'[r] = status[r] /\ live'[r] = live[r] /\ owner'[r] = owner[r]
  <1>1. /\ status' = [r \in Requests |-> IF r \in claimed THEN "delivering" ELSE status[r]]
        /\ owner' = [r \in Requests |-> IF r \in claimed THEN Me(w) ELSE owner[r]]
        /\ live' = [r \in Requests |-> IF r \in claimed THEN TRUE ELSE live[r]]
        /\ UNCHANGED <<kind, subject, created, audit>>
    BY DEF Lease
  <1>2. \A r \in claimed : Claimable(r)
    BY DEF Lease
  <1>3. Me(w) \in Owner
    BY DEF IInv, TypeOK, Me, Owner
  <1>4. status' \in [Requests -> {s \in Statuses : Length[s] <= StatusWidth}]
    BY <1>1, Widths DEF IInv, TypeOK
  <1>5. owner' \in [Requests -> Owner \cup {None}]
    BY <1>1, <1>3 DEF IInv, TypeOK
  <1>6. live' \in [Requests -> BOOLEAN]
    BY <1>1 DEF IInv, TypeOK
  <1>7. \A r \in claimed : kind[r] = "invite" /\ Reclaimable(r)
    BY <1>2 DEF Claimable, DeliveryActions, Reclaimable
  <1>8. \A r \in claimed : status'[r] = "delivering" /\ live'[r] /\ owner'[r] = Me(w)
    BY <1>1
  <1>9. \A r \in Requests \ claimed : status'[r] = status[r] /\ live'[r] = live[r] /\ owner'[r] = owner[r]
    BY <1>1
  <1> QED
    BY <1>1, <1>4, <1>5, <1>6, <1>7, <1>8, <1>9

\* A claimed row trades the invitation it still had for a holder.
LEMMA ClaimStep ==
  ASSUME IInv, NEW w \in Workers, Claim(w) PROVE IInv'
  <1>1. PICK claimed \in SUBSET Requests : Lease(w, claimed) /\ batch' = [batch EXCEPT ![w] = claimed]
    BY DEF Claim
  <1>2. /\ pc[w] = "idle" /\ pc' = [pc EXCEPT ![w] = "deliver"]
        /\ UNCHANGED <<active, disabling, sent, ambiguous, run, cur, result, faults>>
    BY DEF Claim, provider
  <1>3. /\ UNCHANGED <<kind, subject, created, audit>>
        /\ status' \in [Requests -> {s \in Statuses : Length[s] <= StatusWidth}]
        /\ owner' \in [Requests -> Owner \cup {None}]
        /\ live' \in [Requests -> BOOLEAN]
        /\ \A r \in claimed : /\ kind[r] = "invite" /\ Reclaimable(r)
                              /\ status'[r] = "delivering" /\ live'[r] /\ owner'[r] = Me(w)
        /\ \A r \in Requests \ claimed : status'[r] = status[r] /\ live'[r] = live[r] /\ owner'[r] = owner[r]
    BY <1>1, Leased
  <1>4. /\ pc \in [Workers -> {"idle", "deliver", "mark"}] /\ batch \in [Workers -> SUBSET Requests]
        /\ batch[w] = {}
    BY <1>2 DEF IInv, TypeOK, Batches
  <1>5. /\ pc'[w] = "deliver" /\ batch'[w] = claimed
        /\ \A v \in Workers : v # w => pc'[v] = pc[v] /\ batch'[v] = batch[v]
    BY <1>1, <1>2, <1>4
  <1>6. TypeOK'
    <2>1. pc' \in [Workers -> {"idle", "deliver", "mark"}] /\ batch' \in [Workers -> SUBSET Requests]
      BY <1>1, <1>2, <1>4
    <2> QED
      BY <1>2, <1>3, <2>1 DEF IInv, TypeOK
  <1>7. Batches'
    BY <1>2, <1>3, <1>4, <1>5 DEF IInv, Batches
  <1>8. Budget'
    <2> SUFFICES ASSUME NEW r \in Requests
                 PROVE  sent'[r] + Cardinality(Holders(r)') + Open(r)' <= 1 + faults'
      BY DEF Budget
    <2>1. w \notin Holders(r)
      BY <1>4 DEF Holders
    <2>2. CASE r \in claimed
      <3>1. Holders(r)' = Holders(r) \cup {w}
        BY <2>2, <1>2, <1>5 DEF Holders, Succeeded
      <3>2. Cardinality(Holders(r)') = Cardinality(Holders(r)) + 1
        BY <2>1, <3>1, HoldersFinite, FS_AddElement
      <3>3. Open(r) = 1
        BY <2>2, <1>3 DEF Open
      <3>4. Working(r)'
        BY <2>2, <1>2, <1>3, <1>5 DEF Working, Me
      <3>5. Open(r)' = 0
        BY <2>2, <3>4, <1>3 DEF Open, Reclaimable
      <3> QED
        BY <1>2, <3>2, <3>3, <3>5, Charged
    <2>3. CASE r \notin claimed
      <3>1. Holders(r)' = Holders(r)
        BY <2>3, <1>2, <1>4, <1>5 DEF Holders, Succeeded
      <3>2. Working(r) => Working(r)'
        BY <2>3, <1>2, <1>3, <1>4, <1>5 DEF Working, Me
      <3>3. Reclaimable(r)' => Reclaimable(r)
        BY <2>3, <1>3, <3>2 DEF Reclaimable
      <3>4. Open(r)' \in {0, 1} /\ Open(r)' <= Open(r)
        BY <3>3 DEF Open
      <3>5. Cardinality(Holders(r)') = Cardinality(Holders(r))
        BY <3>1
      <3> QED
        BY <1>2, <3>4, <3>5, Charged
    <2> QED
      BY <2>2, <2>3
  <1>9. DeliveredWasSent'
    BY <1>2, <1>3 DEF IInv, DeliveredWasSent
  <1> QED
    BY <1>2, <1>3, <1>6, <1>7, <1>8, <1>9, Governed DEF IInv

\* A claim whose answer is lost leaves leased rows nobody works on.
LEMMA ClaimUnansweredStep ==
  ASSUME IInv, NEW w \in Workers, ClaimUnanswered(w) PROVE IInv'
  <1>1. PICK claimed \in SUBSET Requests : Lease(w, claimed)
    BY DEF ClaimUnanswered
  <1>2. /\ faults' = faults + 1
        /\ UNCHANGED <<active, disabling, sent, ambiguous, run, pc, batch, cur, result>>
    BY DEF ClaimUnanswered, Fault, provider, worker
  <1>3. /\ UNCHANGED <<kind, subject, created, audit>>
        /\ status' \in [Requests -> {s \in Statuses : Length[s] <= StatusWidth}]
        /\ owner' \in [Requests -> Owner \cup {None}]
        /\ live' \in [Requests -> BOOLEAN]
        /\ \A r \in claimed : kind[r] = "invite" /\ status'[r] = "delivering"
        /\ \A r \in Requests \ claimed : status'[r] = status[r]
    BY <1>1, Leased
  <1>4. TypeOK'
    BY <1>2, <1>3 DEF IInv, TypeOK
  <1>5. Batches'
    BY <1>2, <1>3 DEF IInv, Batches
  <1>6. \A r \in Requests : Holders(r)' \subseteq Holders(r)
    BY <1>2 DEF Holders, Succeeded
  <1>7. Budget'
    BY <1>2, <1>6, FaultPays
  <1>8. DeliveredWasSent'
    BY <1>2, <1>3 DEF IInv, DeliveredWasSent
  <1> QED
    BY <1>2, <1>3, <1>4, <1>5, <1>7, <1>8, Governed DEF IInv

--------------------------------------------------------------------------------
(* Deliveries and their outcomes *)

\* What the provider's answer changes: the holder of r is one no longer if it
\* is a success.
LEMMA Returned ==
  ASSUME IInv, NEW w \in Workers, NEW r \in Requests, NEW outcome \in {"ok", "ambiguous", "rejected"},
         Returns(w, r, outcome)
  PROVE  /\ UNCHANGED <<kind, subject, status, owner, live, created, audit, active, disabling, run, batch>>
         /\ pc' \in [Workers -> {"idle", "deliver", "mark"}] /\ cur' \in [Workers -> Requests \cup {None}]
         /\ result' \in [Workers -> {"ok", "ambiguous", "rejected"}]
         /\ pc'[w] = "mark" /\ cur'[w] = r /\ result'[w] = outcome /\ r \in batch[w] /\ kind[r] = "invite"
         /\ \A v \in Workers : v # w => pc'[v] = pc[v] /\ cur'[v] = cur[v] /\ result'[v] = result[v]
         /\ \A q \in Requests : Reclaimable(q)' <=> Reclaimable(q)
         /\ w \in Holders(r)
         /\ \A q \in Requests : Holders(q)' = IF q = r /\ outcome = "ok" THEN Holders(q) \ {w} ELSE Holders(q)
  <1>1. /\ pc[w] = "deliver" /\ r \in batch[w]
        /\ pc' = [pc EXCEPT ![w] = "mark"] /\ cur' = [cur EXCEPT ![w] = r] /\ result' = [result EXCEPT ![w] = outcome]
        /\ UNCHANGED <<kind, subject, status, owner, live, created, audit, active, disabling, run, batch>>
    BY DEF Returns, intents
  <1>2. /\ pc \in [Workers -> {"idle", "deliver", "mark"}] /\ cur \in [Workers -> Requests \cup {None}]
        /\ result \in [Workers -> {"ok", "ambiguous", "rejected"}]
    BY DEF IInv, TypeOK
  <1>3. /\ pc' \in [Workers -> {"idle", "deliver", "mark"}] /\ cur' \in [Workers -> Requests \cup {None}]
        /\ result' \in [Workers -> {"ok", "ambiguous", "rejected"}]
    BY <1>1, <1>2
  <1>4. /\ pc'[w] = "mark" /\ cur'[w] = r /\ result'[w] = outcome
        /\ \A v \in Workers : v # w => pc'[v] = pc[v] /\ cur'[v] = cur[v] /\ result'[v] = result[v]
    BY <1>1, <1>2
  <1>5. kind[r] = "invite"
    BY <1>1 DEF IInv, Batches
  <1>6. \A q \in Requests : Reclaimable(q)' <=> Reclaimable(q)
    BY <1>1 DEF Reclaimable, Working, Me
  <1>7. w \in Holders(r)
    BY <1>1 DEF Holders, Succeeded
  <1>8. ASSUME NEW q \in Requests
        PROVE  Holders(q)' = IF q = r /\ outcome = "ok" THEN Holders(q) \ {w} ELSE Holders(q)
    <2>1. ASSUME NEW v \in Workers, v # w PROVE v \in Holders(q)' <=> v \in Holders(q)
      BY <1>1, <1>4, <2>1 DEF Holders, Succeeded
    <2>2. w \in Holders(q) <=> q \in batch[w]
      BY <1>1 DEF Holders, Succeeded
    <2>3. w \in Holders(q)' <=> q \in batch[w] /\ ~ (q = r /\ outcome = "ok")
      BY <1>1, <1>4 DEF Holders, Succeeded
    <2>4. Holders(q) \subseteq Workers /\ Holders(q)' \subseteq Workers
      BY DEF Holders
    <2> QED
      BY <2>1, <2>2, <2>3, <2>4
  <1> QED
    BY <1>1, <1>3, <1>4, <1>5, <1>6, <1>7, <1>8

\* A success turns the holder into an invitation sent.
LEMMA DeliverStep ==
  ASSUME IInv, NEW w \in Workers, NEW r \in Requests, Deliver(w, r) PROVE IInv'
  <1>1. Returns(w, r, "ok") /\ sent' = [sent EXCEPT ![r] = @ + 1] /\ UNCHANGED <<ambiguous, faults>>
    BY DEF Deliver
  <1>2. /\ UNCHANGED <<kind, subject, status, owner, live, created, audit, active, disabling, run, batch>>
        /\ pc' \in [Workers -> {"idle", "deliver", "mark"}] /\ cur' \in [Workers -> Requests \cup {None}]
        /\ result' \in [Workers -> {"ok", "ambiguous", "rejected"}]
        /\ pc'[w] = "mark" /\ cur'[w] = r /\ result'[w] = "ok" /\ r \in batch[w] /\ kind[r] = "invite"
        /\ \A v \in Workers : v # w => pc'[v] = pc[v] /\ cur'[v] = cur[v] /\ result'[v] = result[v]
        /\ \A q \in Requests : Reclaimable(q)' <=> Reclaimable(q)
        /\ w \in Holders(r)
        /\ Holders(r)' = Holders(r) \ {w}
        /\ \A q \in Requests : q # r => Holders(q)' = Holders(q)
    BY <1>1, Returned
  <1>3. sent \in [Requests -> Nat] /\ batch \in [Workers -> SUBSET Requests]
    BY DEF IInv, TypeOK
  <1>4. /\ sent' \in [Requests -> Nat] /\ sent'[r] = sent[r] + 1
        /\ \A q \in Requests : q # r => sent'[q] = sent[q]
    BY <1>1, <1>3
  <1>5. \A q \in Requests : sent[q] > 0 => sent'[q] > 0
    BY <1>3, <1>4
  <1>6. TypeOK'
    BY <1>1, <1>2, <1>4 DEF IInv, TypeOK
  <1>7. Batches'
    <2> SUFFICES ASSUME NEW v \in Workers
                 PROVE  /\ pc'[v] = "idle" => batch'[v] = {}
                        /\ pc'[v] = "mark" => cur'[v] \in batch'[v]
                        /\ pc'[v] = "mark" /\ result'[v] = "ok" => sent'[cur'[v]] > 0
                        /\ \A q \in batch'[v] : kind'[q] = "invite"
      BY DEF Batches
    <2>1. CASE v = w
      BY <2>1, <1>2, <1>3, <1>4 DEF IInv, Batches
    <2>2. CASE v # w
      BY <2>2, <1>2, <1>3, <1>5 DEF IInv, Batches
    <2> QED
      BY <2>1, <2>2
  <1>8. Budget'
    <2> SUFFICES ASSUME NEW q \in Requests
                 PROVE  sent'[q] + Cardinality(Holders(q)') + Open(q)' <= 1 + faults'
      BY DEF Budget
    <2>1. Open(q)' = Open(q)
      BY <1>2 DEF Open
    <2>2. CASE q = r
      <3>1. Cardinality(Holders(q)') = Cardinality(Holders(q)) - 1
        BY <2>2, <1>2, HoldersFinite, FS_RemoveElement
      <3> QED
        BY <2>1, <2>2, <3>1, <1>1, <1>4, Charged
    <2>3. CASE q # r
      <3>1. Cardinality(Holders(q)') = Cardinality(Holders(q))
        BY <2>3, <1>2
      <3> QED
        BY <2>1, <2>3, <3>1, <1>1, <1>4, Charged
    <2> QED
      BY <2>2, <2>3
  <1>9. DeliveredWasSent'
    BY <1>2, <1>4, <1>5 DEF IInv, DeliveredWasSent
  <1> QED
    BY <1>2, <1>6, <1>7, <1>8, <1>9, Governed DEF IInv

\* An answer that is no success costs a fault, which pays for the invitation
\* that may have gone out with it.
LEMMA NoSuccess ==
  ASSUME IInv, NEW w \in Workers, NEW r \in Requests, NEW outcome \in {"ambiguous", "rejected"},
         Returns(w, r, outcome), sent' = sent \/ sent' = [sent EXCEPT ![r] = @ + 1],
         ambiguous' \subseteq Requests, faults' = faults + 1
  PROVE  IInv'
  <1>1. outcome \in {"ok", "ambiguous", "rejected"} /\ outcome # "ok"
    OBVIOUS
  <1>2. /\ UNCHANGED <<kind, subject, status, owner, live, created, audit, active, disabling, run, batch>>
        /\ pc' \in [Workers -> {"idle", "deliver", "mark"}] /\ cur' \in [Workers -> Requests \cup {None}]
        /\ result' \in [Workers -> {"ok", "ambiguous", "rejected"}]
        /\ pc'[w] = "mark" /\ cur'[w] = r /\ result'[w] = outcome /\ r \in batch[w] /\ kind[r] = "invite"
        /\ \A v \in Workers : v # w => pc'[v] = pc[v] /\ cur'[v] = cur[v] /\ result'[v] = result[v]
        /\ \A q \in Requests : Reclaimable(q)' <=> Reclaimable(q)
        /\ \A q \in Requests : Holders(q)' = Holders(q)
    BY <1>1, Returned
  <1>3. sent \in [Requests -> Nat] /\ batch \in [Workers -> SUBSET Requests]
    BY DEF IInv, TypeOK
  <1>4. /\ sent' \in [Requests -> Nat] /\ sent'[r] \in {sent[r], sent[r] + 1}
        /\ \A q \in Requests : q # r => sent'[q] = sent[q]
    BY <1>3
  <1>5. \A q \in Requests : sent[q] > 0 => sent'[q] > 0
    BY <1>3, <1>4
  <1>6. TypeOK'
    BY <1>2, <1>4 DEF IInv, TypeOK
  <1>7. Batches'
    <2> SUFFICES ASSUME NEW v \in Workers
                 PROVE  /\ pc'[v] = "idle" => batch'[v] = {}
                        /\ pc'[v] = "mark" => cur'[v] \in batch'[v]
                        /\ pc'[v] = "mark" /\ result'[v] = "ok" => sent'[cur'[v]] > 0
                        /\ \A q \in batch'[v] : kind'[q] = "invite"
      BY DEF Batches
    <2>1. CASE v = w
      BY <2>1, <1>1, <1>2 DEF IInv, Batches
    <2>2. CASE v # w
      BY <2>2, <1>2, <1>3, <1>5 DEF IInv, Batches
    <2> QED
      BY <2>1, <2>2
  <1>8. Budget'
    <2> SUFFICES ASSUME NEW q \in Requests
                 PROVE  sent'[q] + Cardinality(Holders(q)') + Open(q)' <= 1 + faults'
      BY DEF Budget
    <2>1. Open(q)' = Open(q) /\ Cardinality(Holders(q)') = Cardinality(Holders(q))
      BY <1>2 DEF Open
    <2>2. sent'[q] \in {sent[q], sent[q] + 1}
      BY <1>4
    <2> QED
      BY <2>1, <2>2, Charged
  <1>9. DeliveredWasSent'
    BY <1>2, <1>4, <1>5 DEF IInv, DeliveredWasSent
  <1> QED
    BY <1>2, <1>6, <1>7, <1>8, <1>9, Governed DEF IInv

\* What leaving a request behind changes: the worker holds it no longer.
LEMMA Proceeded ==
  ASSUME IInv, NEW w \in Workers, pc[w] = "mark", Proceed(w)
  PROVE  /\ UNCHANGED <<run, result>>
         /\ pc' \in [Workers -> {"idle", "deliver", "mark"}] /\ cur' \in [Workers -> Requests \cup {None}]
         /\ batch' \in [Workers -> SUBSET Requests]
         /\ cur[w] \in Requests /\ kind[cur[w]] = "invite"
         /\ \A v \in Workers : v # w => batch'[v] = batch[v]
         /\ batch'[w] = batch[w] \ {cur[w]}
         /\ sent' = sent /\ kind' = kind => Batches'
         /\ \A q \in Requests : Holders(q)' = IF q = cur[w] THEN Holders(q) \ {w} ELSE Holders(q)
         /\ w \in Holders(cur[w]) <=> result[w] # "ok"
  <1> DEFINE c == cur[w]
             rest == batch[w] \ {c}
  <1>1. /\ batch' = [batch EXCEPT ![w] = rest]
        /\ pc' = [pc EXCEPT ![w] = IF rest = {} THEN "idle" ELSE "deliver"]
        /\ cur' = [cur EXCEPT ![w] = None] /\ UNCHANGED <<run, result>>
    BY DEF Proceed
  <1>2. /\ pc \in [Workers -> {"idle", "deliver", "mark"}] /\ cur \in [Workers -> Requests \cup {None}]
        /\ batch \in [Workers -> SUBSET Requests]
    BY DEF IInv, TypeOK
  <1>3. c \in batch[w] /\ c \in Requests /\ kind[c] = "invite"
    BY <1>2 DEF IInv, Batches
  <1> HIDE DEF c
  <1>4. /\ pc' \in [Workers -> {"idle", "deliver", "mark"}] /\ cur' \in [Workers -> Requests \cup {None}]
        /\ batch' \in [Workers -> SUBSET Requests]
    BY <1>1, <1>2
  <1>5. /\ batch'[w] = rest /\ pc'[w] = (IF rest = {} THEN "idle" ELSE "deliver")
        /\ \A v \in Workers : v # w => pc'[v] = pc[v] /\ cur'[v] = cur[v] /\ batch'[v] = batch[v]
    BY <1>1, <1>2
  <1>6. pc'[w] # "mark" /\ (pc'[w] = "idle" => batch'[w] = {})
    BY <1>5
  <1>7. sent' = sent /\ kind' = kind => Batches'
    <2> SUFFICES ASSUME sent' = sent, kind' = kind, NEW v \in Workers
                 PROVE  /\ pc'[v] = "idle" => batch'[v] = {}
                        /\ pc'[v] = "mark" => cur'[v] \in batch'[v]
                        /\ pc'[v] = "mark" /\ result'[v] = "ok" => sent'[cur'[v]] > 0
                        /\ \A q \in batch'[v] : kind'[q] = "invite"
      BY DEF Batches
    <2>1. CASE v = w
      BY <2>1, <1>5, <1>6 DEF IInv, Batches
    <2>2. CASE v # w
      BY <2>2, <1>1, <1>5 DEF IInv, Batches
    <2> QED
      BY <2>1, <2>2
  <1>8. ASSUME NEW q \in Requests PROVE Holders(q)' = IF q = c THEN Holders(q) \ {w} ELSE Holders(q)
    <2>1. ASSUME NEW v \in Workers, v # w PROVE v \in Holders(q)' <=> v \in Holders(q)
      BY <1>1, <1>5, <2>1 DEF Holders, Succeeded
    <2>2. w \in Holders(q)' <=> q \in batch[w] /\ q # c
      BY <1>5, <1>6 DEF Holders, Succeeded
    <2>3. q # c => (w \in Holders(q) <=> q \in batch[w])
      BY DEF Holders, Succeeded, c
    <2>4. Holders(q) \subseteq Workers /\ Holders(q)' \subseteq Workers
      BY DEF Holders
    <2> QED
      BY <2>1, <2>2, <2>3, <2>4
  <1>9. w \in Holders(c) <=> result[w] # "ok"
    BY <1>3 DEF Holders, Succeeded, c
  <1> QED
    BY <1>1, <1>3, <1>4, <1>5, <1>7, <1>8, <1>9 DEF c

\* What recording an outcome writes: the row of the request, and only for the
\* owner of its lease.
LEMMA Finished ==
  ASSUME IInv, NEW w \in Workers, cur[w] \in Requests, Finish(w)
  PROVE  /\ status' \in [Requests -> {s \in Statuses : Length[s] <= StatusWidth}]
         /\ owner' \in [Requests -> Owner \cup {None}] /\ live' \in [Requests -> BOOLEAN]
         /\ \A q \in Requests : q # cur[w] => status'[q] = status[q] /\ owner'[q] = owner[q] /\ live'[q] = live[q]
         /\ \/ result[w] = "ok" /\ status'[cur[w]] = "delivered"
            \/ result[w] = "rejected" /\ status'[cur[w]] = "failed"
            \/ /\ UNCHANGED <<status, owner, live>>
               /\ result[w] # "ok" \/ owner[cur[w]] # Me(w) \/ status[cur[w]] # "delivering"
  <1> DEFINE c == cur[w]
             writes == /\ owner[c] = Me(w) /\ status[c] = "delivering"
                       /\ Length[Outcome(w)] <= StatusWidth
  <1>1. /\ status \in [Requests -> {s \in Statuses : Length[s] <= StatusWidth}]
        /\ owner \in [Requests -> Owner \cup {None}] /\ live \in [Requests -> BOOLEAN]
        /\ result[w] \in {"ok", "ambiguous", "rejected"}
    BY DEF IInv, TypeOK
  <1>2. /\ result[w] = "ok" => Outcome(w) = "delivered"
        /\ result[w] = "ambiguous" => Outcome(w) = "reconciliation_required"
        /\ result[w] = "rejected" => Outcome(w) = "failed"
    BY DEF Outcome
  <1>3. CASE writes
    <2>1. /\ status' = [status EXCEPT ![c] = Outcome(w)] /\ owner' = [owner EXCEPT ![c] = None]
          /\ live' = [live EXCEPT ![c] = FALSE]
      BY <1>3 DEF Finish
    <2>2. \/ result[w] = "ok" /\ Outcome(w) = "delivered"
          \/ result[w] = "rejected" /\ Outcome(w) = "failed"
      BY <1>1, <1>2, <1>3, Widths
    <2>3. Outcome(w) \in {s \in Statuses : Length[s] <= StatusWidth}
      BY <2>2, Widths
    <2> HIDE DEF c, writes
    <2>4. c \in Requests
      BY DEF c
    <2>5. status' \in [Requests -> {s \in Statuses : Length[s] <= StatusWidth}]
      BY <1>1, <2>1, <2>3
    <2>6. owner' \in [Requests -> Owner \cup {None}] /\ live' \in [Requests -> BOOLEAN]
      BY <1>1, <2>1
    <2>7. /\ status'[c] = Outcome(w)
          /\ \A q \in Requests : q # c => status'[q] = status[q] /\ owner'[q] = owner[q] /\ live'[q] = live[q]
      BY <1>1, <2>1, <2>4
    <2> QED
      BY <2>2, <2>5, <2>6, <2>7 DEF c
  <1>4. CASE ~ writes
    <2>1. UNCHANGED <<status, owner, live>>
      BY <1>4 DEF Finish
    <2>2. result[w] # "ok" \/ owner[c] # Me(w) \/ status[c] # "delivering"
      BY <1>2, <1>4, Widths
    <2> QED
      BY <1>1, <2>1, <2>2
  <1> QED
    BY <1>3, <1>4

\* The holder is gone.  A recorded success closes the row; anything else may open
\* it in exchange for the holder.
LEMMA MarkStep ==
  ASSUME IInv, NEW w \in Workers, Mark(w) PROVE IInv'
  <1> DEFINE c == cur[w]
  <1>1. /\ pc[w] = "mark" /\ Finish(w) /\ Proceed(w)
        /\ UNCHANGED <<kind, subject, created, audit, active, disabling, sent, ambiguous, faults>>
    BY DEF Mark, provider
  <1>2. /\ UNCHANGED <<run, result>>
        /\ pc' \in [Workers -> {"idle", "deliver", "mark"}] /\ cur' \in [Workers -> Requests \cup {None}]
        /\ batch' \in [Workers -> SUBSET Requests]
        /\ c \in Requests /\ kind[c] = "invite"
        /\ \A v \in Workers : v # w => batch'[v] = batch[v]
        /\ batch'[w] = batch[w] \ {c}
        /\ Batches'
        /\ \A q \in Requests : Holders(q)' = IF q = c THEN Holders(q) \ {w} ELSE Holders(q)
        /\ w \in Holders(c) <=> result[w] # "ok"
    BY <1>1, Proceeded
  <1>3. /\ status' \in [Requests -> {s \in Statuses : Length[s] <= StatusWidth}]
        /\ owner' \in [Requests -> Owner \cup {None}] /\ live' \in [Requests -> BOOLEAN]
        /\ \A q \in Requests : q # c => status'[q] = status[q] /\ owner'[q] = owner[q] /\ live'[q] = live[q]
        /\ \/ result[w] = "ok" /\ status'[c] = "delivered"
           \/ result[w] = "rejected" /\ status'[c] = "failed"
           \/ /\ UNCHANGED <<status, owner, live>>
              /\ result[w] # "ok" \/ owner[c] # Me(w) \/ status[c] # "delivering"
    BY <1>1, <1>2, Finished
  <1>4. result[w] = "ok" => sent[c] > 0
    BY <1>1 DEF IInv, Batches
  <1> HIDE DEF c
  <1>5. TypeOK'
    BY <1>1, <1>2, <1>3 DEF IInv, TypeOK
  <1>6. Budget'
    <2> SUFFICES ASSUME NEW q \in Requests
                 PROVE  sent'[q] + Cardinality(Holders(q)') + Open(q)' <= 1 + faults'
      BY DEF Budget
    <2>1. CASE q # c
      <3>1. Cardinality(Holders(q)') = Cardinality(Holders(q))
        BY <2>1, <1>2
      <3>2. Working(q)' <=> Working(q)
        BY <2>1, <1>2, <1>3 DEF Working, Me
      <3>3. Open(q)' = Open(q)
        BY <2>1, <3>2, <1>3 DEF Open, Reclaimable
      <3> QED
        BY <3>1, <3>3, <1>1, Charged
    <2>2. CASE q = c /\ result[w] # "ok"
      <3>1. Cardinality(Holders(q)') = Cardinality(Holders(q)) - 1
        BY <2>2, <1>2, HoldersFinite, FS_RemoveElement
      <3>2. Open(q)' \in {0, 1}
        BY DEF Open
      <3> QED
        BY <3>1, <3>2, <1>1, Charged
    <2>3. CASE q = c /\ result[w] = "ok"
      <3>1. Holders(q)' = Holders(q)
        BY <2>3, <1>2
      <3>2. Cardinality(Holders(q)') = Cardinality(Holders(q))
        BY <3>1
      <3>3. Reclaimable(q)' => Reclaimable(q)
        <4>1. CASE status'[c] = "delivered"
          BY <4>1, <2>3 DEF Reclaimable
        <4>2. CASE UNCHANGED <<status, owner, live>> /\ owner[c] # Me(w)
          <5>1. Working(q) => Working(q)'
            BY <4>2, <2>3, <1>2 DEF Working, Me
          <5> QED
            BY <4>2, <5>1 DEF Reclaimable
        <4>3. CASE UNCHANGED <<status, owner, live>> /\ status[c] # "delivering"
          BY <4>3, <2>3 DEF Reclaimable
        <4> QED
          BY <2>3, <1>3, <4>1, <4>2, <4>3
      <3>4. Open(q)' \in {0, 1} /\ Open(q)' <= Open(q)
        BY <3>3 DEF Open
      <3> QED
        BY <3>2, <3>4, <1>1, Charged
    <2> QED
      BY <2>1, <2>2, <2>3
  <1>7. DeliveredWasSent'
    <2> SUFFICES ASSUME NEW q \in Requests
                 PROVE  /\ status'[q] = "delivered" => sent'[q] > 0
                        /\ (sent'[q] > 0 \/ status'[q] # "pending") => kind'[q] = "invite"
      BY DEF DeliveredWasSent
    <2>1. CASE q = c
      BY <2>1, <1>1, <1>2, <1>3, <1>4 DEF IInv, DeliveredWasSent
    <2>2. CASE q # c
      BY <2>2, <1>1, <1>3 DEF IInv, DeliveredWasSent
    <2> QED
      BY <2>1, <2>2
  <1> QED
    BY <1>1, <1>2, <1>5, <1>6, <1>7, Governed DEF IInv

\* The outcome is not recorded and the row stays leased.
LEMMA MarkFailsStep ==
  ASSUME IInv, NEW w \in Workers, MarkFails(w) PROVE IInv'
  <1>1. /\ pc[w] = "mark" /\ Proceed(w) /\ faults' = faults + 1
        /\ UNCHANGED <<kind, subject, status, owner, live, created, audit, active, disabling, sent, ambiguous>>
    BY DEF MarkFails, Fault, intents, provider
  <1>2. /\ UNCHANGED <<run, result>>
        /\ pc' \in [Workers -> {"idle", "deliver", "mark"}] /\ cur' \in [Workers -> Requests \cup {None}]
        /\ batch' \in [Workers -> SUBSET Requests]
        /\ Batches'
        /\ \A q \in Requests : Holders(q)' \subseteq Holders(q)
    BY <1>1, Proceeded
  <1>3. TypeOK'
    BY <1>1, <1>2 DEF IInv, TypeOK
  <1>4. Budget'
    BY <1>1, <1>2, FaultPays
  <1>5. DeliveredWasSent'
    BY <1>1 DEF IInv, DeliveredWasSent
  <1> QED
    BY <1>1, <1>2, <1>3, <1>4, <1>5, Governed DEF IInv

\* A worker that dies lets go of its batch.
LEMMA CrashStep ==
  ASSUME IInv, NEW w \in Workers, Crash(w) PROVE IInv'
  <1>1. /\ faults' = faults + 1 /\ run' = [run EXCEPT ![w] = @ + 1] /\ pc' = [pc EXCEPT ![w] = "idle"]
        /\ batch' = [batch EXCEPT ![w] = {}] /\ cur' = [cur EXCEPT ![w] = None]
        /\ UNCHANGED <<kind, subject, status, owner, live, created, audit, active, disabling, sent, ambiguous, result>>
    BY DEF Crash, Fault, intents, provider
  <1>2. /\ run \in [Workers -> Nat] /\ pc \in [Workers -> {"idle", "deliver", "mark"}]
        /\ batch \in [Workers -> SUBSET Requests] /\ cur \in [Workers -> Requests \cup {None}]
    BY DEF IInv, TypeOK
  <1>3. /\ run' \in [Workers -> Nat] /\ pc' \in [Workers -> {"idle", "deliver", "mark"}]
        /\ batch' \in [Workers -> SUBSET Requests] /\ cur' \in [Workers -> Requests \cup {None}]
    BY <1>1, <1>2
  <1>4. /\ pc'[w] = "idle" /\ batch'[w] = {}
        /\ \A v \in Workers : v # w => pc'[v] = pc[v] /\ batch'[v] = batch[v] /\ cur'[v] = cur[v]
    BY <1>1, <1>2
  <1>5. TypeOK'
    BY <1>1, <1>3 DEF IInv, TypeOK
  <1>6. Batches'
    BY <1>1, <1>4 DEF IInv, Batches
  <1>7. \A r \in Requests : Holders(r)' \subseteq Holders(r)
    BY <1>1, <1>4 DEF Holders, Succeeded
  <1>8. Budget'
    BY <1>1, <1>7, FaultPays
  <1>9. DeliveredWasSent'
    BY <1>1 DEF IInv, DeliveredWasSent
  <1> QED
    BY <1>1, <1>5, <1>6, <1>8, <1>9, Governed DEF IInv

\* A lease that runs out opens the row; that costs a fault unless its owner had
\* stopped working on it, and then the row was open already.
LEMMA LeaseExpiresStep ==
  ASSUME IInv, NEW r \in Requests, LeaseExpires(r) PROVE IInv'
  <1>1. /\ live' = [live EXCEPT ![r] = FALSE]
        /\ UNCHANGED <<kind, subject, status, owner, created, audit, active, disabling, sent, ambiguous,
                       run, pc, batch, cur, result>>
    BY DEF LeaseExpires, provider, worker
  <1>2. live \in [Requests -> BOOLEAN] /\ faults \in Nat
    BY DEF IInv, TypeOK
  <1>3. live' \in [Requests -> BOOLEAN] /\ \A q \in Requests : q # r => live'[q] = live[q]
    BY <1>1, <1>2
  <1>4. faults' = IF Working(r) THEN faults + 1 ELSE faults
    BY DEF LeaseExpires, Fault
  <1>5. TypeOK'
    BY <1>1, <1>2, <1>3, <1>4 DEF IInv, TypeOK
  <1>6. Batches' /\ DeliveredWasSent'
    BY <1>1 DEF IInv, Batches, DeliveredWasSent
  <1>7. \A q \in Requests : Holders(q)' = Holders(q)
    BY <1>1 DEF Holders, Succeeded
  <1>8. Budget'
    <2>1. CASE Working(r)
      BY <2>1, <1>1, <1>4, <1>7, FaultPays
    <2>2. CASE ~ Working(r)
      <3>1. \A q \in Requests : Working(q)' <=> Working(q)
        BY <1>1 DEF Working, Me
      <3>2. \A q \in Requests : Reclaimable(q)' => Reclaimable(q)
        BY <2>2, <3>1, <1>1, <1>3 DEF Reclaimable
      <3> QED
        BY <2>2, <3>2, <1>1, <1>4, <1>7, NothingCharged
    <2> QED
      BY <2>1, <2>2
  <1> QED
    BY <1>1, <1>5, <1>6, <1>8, Governed DEF IInv

--------------------------------------------------------------------------------
(* The theorems *)

\* Every step keeps the inductive invariant.
LEMMA StepIInv == IInv /\ [Next]_vars => IInv'
  <1> SUFFICES ASSUME IInv, [Next]_vars PROVE IInv'
    OBVIOUS
  <1>1. ASSUME NEW r \in Requests, NEW e \in Emails, Invite(r, e) PROVE IInv'
    BY <1>1, InviteStep
  <1>2. ASSUME NEW r \in Requests, NEW actor \in Admins, NEW u \in Users, DisableChecks(r, actor, u) PROVE IInv'
    BY <1>2, DisableChecksStep
  <1>3. ASSUME NEW d \in disabling, DisableCommits(d) \/ DisableAborts(d) PROVE IInv'
    BY <1>3, DisableCommitsStep, DisableAbortsStep
  <1>4. ASSUME NEW w \in Workers, Claim(w) \/ ClaimUnanswered(w) \/ Mark(w) \/ MarkFails(w) \/ Crash(w) PROVE IInv'
    BY <1>4, ClaimStep, ClaimUnansweredStep, MarkStep, MarkFailsStep, CrashStep
  <1>5. ASSUME NEW w \in Workers, NEW r \in Requests,
               Deliver(w, r) \/ DeliverAmbiguous(w, r) \/ DeliverRejected(w, r)
        PROVE  IInv'
    <2>1. CASE Deliver(w, r)
      BY <2>1, DeliverStep
    <2>2. CASE DeliverAmbiguous(w, r)
      <3>1. ambiguous' \subseteq Requests
        BY <2>2 DEF DeliverAmbiguous, IInv, TypeOK
      <3>2. /\ Returns(w, r, "ambiguous") /\ (sent' = sent \/ sent' = [sent EXCEPT ![r] = @ + 1])
            /\ faults' = faults + 1
        BY <2>2 DEF DeliverAmbiguous, Fault
      <3> QED
        BY <3>1, <3>2, NoSuccess
    <2>3. CASE DeliverRejected(w, r)
      <3>1. Returns(w, r, "rejected") /\ sent' = sent /\ ambiguous' = ambiguous /\ faults' = faults + 1
        BY <2>3 DEF DeliverRejected, Fault, provider
      <3>2. ambiguous' \subseteq Requests
        BY <3>1 DEF IInv, TypeOK
      <3> QED
        BY <3>1, <3>2, NoSuccess
    <2> QED
      BY <1>5, <2>1, <2>2, <2>3
  <1>6. ASSUME NEW r \in Requests, LeaseExpires(r) PROVE IInv'
    BY <1>6, LeaseExpiresStep
  <1>7. CASE UNCHANGED vars
    <2>1. /\ UNCHANGED <<kind, subject, status, owner, live, created, audit, active, disabling, sent, ambiguous>>
          /\ UNCHANGED <<run, pc, batch, cur, result, faults>>
      BY <1>7 DEF vars, intents, provider, worker
    <2>2. TypeOK'
      BY <2>1 DEF IInv, TypeOK
    <2>3. Batches' /\ Budget' /\ DeliveredWasSent'
      BY <2>1, NoDelivery DEF provider, worker
    <2> QED
      BY <2>1, <2>2, <2>3, Governed DEF IInv
  <1> QED
    BY <1>1, <1>2, <1>3, <1>4, <1>5, <1>6, <1>7 DEF Next

\* The budget and what it rests on hold in every reachable state.
THEOREM Invariance == Spec => []IInv
  BY InitIInv, StepIInv, PTL DEF Spec

\* Every variable keeps its type; in particular no status is stored that is
\* longer than its column.
THEOREM TypeCorrect == Spec => []TypeOK
  <1>1. IInv => TypeOK
    BY DEF IInv
  <1> QED
    BY <1>1, Invariance, PTL

\* Whatever disablements are asked for at once, a super admin stays active.
THEOREM AdminRemains == Spec => []SuperAdminRemains
  <1>1. IInv => SuperAdminRemains
    BY DEF IInv
  <1> QED
    BY <1>1, Invariance, PTL

\* A membership is suspended exactly when its revocation is queued and audited.
THEOREM SuspensionQueued == Spec => []SuspensionIsQueued
  <1>1. IInv => SuspensionIsQueued
    BY DEF IInv
  <1> QED
    BY <1>1, Invariance, PTL

\* A row that says delivered was sent, and only invitations are.
THEOREM DeliveredSent == Spec => []DeliveredWasSent
  <1>1. IInv => DeliveredWasSent
    BY DEF IInv
  <1> QED
    BY <1>1, Invariance, PTL

\* However many workers compete for the intents, every invitation of a request
\* beyond the first costs a fault.
THEOREM ResendCostsFault == Spec => []ResendNeedsFault
  <1>1. IInv => ResendNeedsFault
    BY Charged DEF ResendNeedsFault
  <1> QED
    BY <1>1, Invariance, PTL
================================================================================
