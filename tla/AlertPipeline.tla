----------------------------- MODULE AlertPipeline -----------------------------
(***************************************************************************)
(* The path of a detection event through the control plane:                *)
(*                                                                         *)
(*   eventing.Ingest        commits event, outbox row and audit entry      *)
(*   outbox.Dispatcher      leases unpublished rows, publishes, marks      *)
(*   alerting.Projector     consumer receipt, alert, audit, realtime entry *)
(*                                                                         *)
(* A Postgres transaction is one step.  The steps between the transactions *)
(* of a worker (claim, publish, mark) interleave with those of the other   *)
(* workers, with lease expiry, crashes, failing transactions and commits   *)
(* whose answer is lost.                                                   *)
(***************************************************************************)
EXTENDS Naturals, Sequences, FiniteSets

CONSTANTS Keys,       \* dedupe keys
          Ids,        \* event ids; the outbox row of an event is named by it
          Sites,      \* sites the tenant has
          NoSite,     \* a site the tenant does not have
          Workers,    \* outbox-worker processes
          NoOwner,    \* lease_owner IS NULL
          BatchSize,  \* rows claimed at a time
          MaxFaults   \* bound on faults of all kinds together

ASSUME PipelineAssumption ==
  /\ NoSite \notin Sites
  /\ BatchSize \in Nat \ {0}
  /\ MaxFaults \in Nat
  /\ IsFiniteSet(Ids)
  /\ NoOwner \notin (Workers \X Nat)

VARIABLES events,    \* events.detection_events
          acked,     \* events whose submitter was told "accepted"
          outbox,    \* messaging.outbox_messages by aggregate id
          receipts,  \* messaging.consumer_receipts
          alerts,    \* alerts.alerts, by event id
          feed,      \* syncam_realtime.messages of each site, alerts.created
          audit,     \* number of audit entries per action and event
          run,       \* incarnation of each dispatcher process
          pc,        \* what the process does next
          batch,     \* rows it claimed and has not dealt with yet
          cur,       \* the message between its publication and its mark
          ok,        \* Publish returned nil for it
          faults     \* faults that have happened so far

tables == <<events, outbox, receipts, alerts, feed, audit>>
projection == <<receipts, alerts, feed, audit>>
worker == <<run, pc, batch, cur, ok>>
vars == <<tables, acked, worker, faults>>

\* The request hash covers the whole event, so two submissions carry the same
\* content exactly when they are the same record.
Event == [key : Keys, id : Ids, site : Sites \cup {NoSite}]

Actions == {"event.accepted", "alert.created"}

Owner == Workers \X Nat    \* a process and its incarnation: its WorkerID

Row == [state   : {"absent", "pending", "published"},
        owner   : Owner \cup {NoOwner},
        live    : BOOLEAN,      \* lease_expires_at > clock_timestamp()
        created : Nat]          \* created_at

Me(w) == <<w, run[w]>>

Rows == {i \in Ids : outbox[i].state # "absent"}

Fault == faults < MaxFaults /\ faults' = faults + 1

Init ==
  /\ events = {}
  /\ acked = {}
  /\ outbox = [i \in Ids |-> [state |-> "absent", owner |-> NoOwner,
                              live |-> FALSE, created |-> 0]]
  /\ receipts = {}
  /\ alerts = {}
  /\ feed = [s \in Sites |-> << >>]
  /\ audit = [a \in Actions |-> [i \in Ids |-> 0]]
  /\ run = [w \in Workers |-> 0]
  /\ pc = [w \in Workers |-> "idle"]
  /\ batch = [w \in Workers |-> {}]
  /\ cur = [w \in Workers |-> NoOwner]
  /\ ok = [w \in Workers |-> FALSE]
  /\ faults = 0

--------------------------------------------------------------------------------
(***************************************************************************)
(* eventing.Ingest.  The advisory lock on the dedupe key serialises the    *)
(* submissions of one key; the primary key on the event id serialises      *)
(* those of one id.  Submissions that are refused (ErrDedupeConflict,      *)
(* ErrEventConflict, ErrSiteNotFound) change nothing.                      *)
(***************************************************************************)
\* Mutant: the dedupe key is not looked up.
Store_NoDedupe(e) ==
  /\ \A s \in events : s.id # e.id
  /\ e.site \in Sites
  /\ events' = events \cup {e}
  /\ outbox' = [outbox EXCEPT ![e.id] =
                  [state |-> "pending", owner |-> NoOwner, live |-> FALSE,
                   created |-> Cardinality(Rows) + 1]]
  /\ audit' = [audit EXCEPT !["event.accepted"][e.id] = @ + 1]
  /\ UNCHANGED <<receipts, alerts, feed, worker>>

Store(e) ==
  /\ \A s \in events : s.key # e.key     \* else replay or ErrDedupeConflict
  /\ \A s \in events : s.id # e.id       \* else ErrEventConflict
  /\ e.site \in Sites                    \* else ErrSiteNotFound
  /\ events' = events \cup {e}
  /\ outbox' = [outbox EXCEPT ![e.id] =
                  [state |-> "pending", owner |-> NoOwner, live |-> FALSE,
                   created |-> Cardinality(Rows) + 1]]
  /\ audit' = [audit EXCEPT !["event.accepted"][e.id] = @ + 1]
  /\ UNCHANGED <<receipts, alerts, feed, worker>>

Ingest(e) == Store(e) /\ acked' = acked \cup {e} /\ UNCHANGED faults

\* The transaction commits but its submitter gets an error instead.
IngestUnanswered(e) == Store(e) /\ Fault /\ UNCHANGED acked

\* The submission repeats a stored event: accepted, replayed, nothing written.
IngestReplayed(e) ==
  /\ e \in events
  /\ acked' = acked \cup {e}
  /\ UNCHANGED <<tables, worker, faults>>

--------------------------------------------------------------------------------
(***************************************************************************)
(* outbox.Dispatcher.  Claim leases the oldest unpublished rows that carry *)
(* no live lease.  FOR UPDATE SKIP LOCKED passes over the rows a           *)
(* concurrent finish transaction holds.  RETURNING fixes no order, so the  *)
(* batch is a set.                                                         *)
(***************************************************************************)
\* Mutant: an expired lease is never taken over.
Claimable_UnownedOnly(i) == outbox[i].state = "pending" /\ outbox[i].owner = NoOwner

Claimable(i) == outbox[i].state = "pending" /\ ~ outbox[i].live

LockedByOthers(w) ==
  {cur[v] : v \in {u \in Workers \ {w} : pc[u] = "mark"}}

Lease(w, claimed) ==
  \E skipped \in SUBSET LockedByOthers(w) :
    LET candidates == {i \in Ids : Claimable(i)} \ skipped IN
    /\ claimed \subseteq candidates
    /\ claimed # {}
    /\ Cardinality(claimed) <= BatchSize
    /\ claimed # candidates => Cardinality(claimed) = BatchSize
    /\ \A i \in claimed, j \in candidates \ claimed :
         outbox[i].created < outbox[j].created
    /\ outbox' = [i \in Ids |->
         IF i \in claimed THEN [outbox[i] EXCEPT !.owner = Me(w), !.live = TRUE]
                        ELSE outbox[i]]

Claim(w) ==
  /\ pc[w] = "idle"
  /\ \E claimed \in SUBSET Ids :
       /\ Lease(w, claimed)
       /\ batch' = [batch EXCEPT ![w] = claimed]
  /\ pc' = [pc EXCEPT ![w] = "publish"]
  /\ UNCHANGED <<events, acked, projection, run, cur, ok, faults>>

\* The claim commits but the worker gets an error: the rows stay leased to a
\* worker that does not know of them.
ClaimUnanswered(w) ==
  /\ pc[w] = "idle"
  /\ \E claimed \in SUBSET Ids : Lease(w, claimed)
  /\ Fault
  /\ UNCHANGED <<events, acked, projection, worker>>

(***************************************************************************)
(* alerting.Projector.Publish.  The receipt, the alert, its audit entry    *)
(* and its realtime entry commit together; a message that already has a    *)
(* receipt is a success without effect.                                    *)
(***************************************************************************)
SiteOf(i) == (CHOOSE e \in events : e.id = i).site

\* Mutant: the realtime entry is appended before the receipt is looked at.
Project_AppendFirst(i) ==
  /\ feed' = [feed EXCEPT ![SiteOf(i)] = Append(@, i)]
  /\ IF i \in receipts
     THEN UNCHANGED <<receipts, alerts, audit>>
     ELSE /\ receipts' = receipts \cup {i}
          /\ alerts' = alerts \cup {i}
          /\ audit' = [audit EXCEPT !["alert.created"][i] = @ + 1]

Project(i) ==
  IF i \in receipts
  THEN UNCHANGED projection
  ELSE /\ i \notin alerts                \* UNIQUE (tenant_id, event_id)
       /\ receipts' = receipts \cup {i}
       /\ alerts' = alerts \cup {i}
       /\ feed' = [feed EXCEPT ![SiteOf(i)] = Append(@, i)]
       /\ audit' = [audit EXCEPT !["alert.created"][i] = @ + 1]

PublishReturns(w, i, success) ==
  /\ pc' = [pc EXCEPT ![w] = "mark"]
  /\ cur' = [cur EXCEPT ![w] = i]
  /\ ok' = [ok EXCEPT ![w] = success]
  /\ UNCHANGED <<run, batch>>

Publish(w, i) ==
  /\ pc[w] = "publish"
  /\ i \in batch[w]
  /\ Project(i)
  /\ PublishReturns(w, i, TRUE)
  /\ UNCHANGED <<events, acked, outbox, faults>>

\* Publish returns an error: the transaction rolled back, or it committed and
\* the answer was lost.
PublishFails(w, i) ==
  /\ pc[w] = "publish"
  /\ i \in batch[w]
  /\ \/ UNCHANGED projection
     \/ Project(i)
  /\ PublishReturns(w, i, FALSE)
  /\ Fault
  /\ UNCHANGED <<events, acked, outbox>>

\* Mutant: finish does not compare lease_owner.
Finish_AnyOwner(w) ==
  LET i == cur[w] IN
  outbox' = [outbox EXCEPT ![i].owner = NoOwner, ![i].live = FALSE,
               ![i].state = IF ok[w] THEN "published" ELSE @]

\* Mutant: a failed publication is marked published as well.
Finish_IgnoreFailure(w) ==
  LET i == cur[w] IN
  outbox' = IF outbox[i].owner = Me(w) /\ outbox[i].state = "pending"
            THEN [outbox EXCEPT ![i].owner = NoOwner, ![i].live = FALSE,
                                ![i].state = "published"]
            ELSE outbox

\* PostgresStore.finish: only the current lease owner's update matches a row.
\* The expiry of the lease is not looked at.
Finish(w) ==
  LET i == cur[w] IN
  outbox' = IF outbox[i].owner = Me(w) /\ outbox[i].state = "pending"
            THEN [outbox EXCEPT ![i] =
                    [@ EXCEPT !.owner = NoOwner, !.live = FALSE,
                              !.state = IF ok[w] THEN "published" ELSE "pending"]]
            ELSE outbox                   \* "outbox lease was lost"

\* The loop of DispatchTenant goes on with the rest of the batch, whatever
\* became of this message.
Proceed(w) ==
  LET rest == batch[w] \ {cur[w]} IN
  /\ batch' = [batch EXCEPT ![w] = rest]
  /\ pc' = [pc EXCEPT ![w] = IF rest = {} THEN "idle" ELSE "publish"]
  /\ cur' = [cur EXCEPT ![w] = NoOwner]
  /\ ok' = [ok EXCEPT ![w] = FALSE]
  /\ UNCHANGED run

Mark(w) ==
  /\ pc[w] = "mark"
  /\ Finish(w)
  /\ Proceed(w)
  /\ UNCHANGED <<events, acked, projection, faults>>

\* The finish transaction itself fails; nothing is written.  (Where it commits
\* and only the answer is lost, the loop goes on as after Mark.)
MarkFails(w) ==
  /\ pc[w] = "mark"
  /\ Proceed(w)
  /\ Fault
  /\ UNCHANGED <<tables, acked>>

\* Sixty seconds pass.  While its owner is still working through the batch
\* this is a fault (a stalled worker); afterwards it is the ordinary end of a
\* lease nobody gave back.
Working(i) ==
  \E w \in Workers : outbox[i].owner = Me(w) /\ i \in batch[w]

LeaseExpires(i) ==
  /\ outbox[i].live
  /\ outbox' = [outbox EXCEPT ![i] = [@ EXCEPT !.live = FALSE]]
  /\ IF Working(i) THEN Fault ELSE UNCHANGED faults
  /\ UNCHANGED <<events, acked, projection, worker>>

\* The process dies and is started again; every process draws a new WorkerID.
Crash(w) ==
  /\ Fault
  /\ run' = [run EXCEPT ![w] = @ + 1]
  /\ pc' = [pc EXCEPT ![w] = "idle"]
  /\ batch' = [batch EXCEPT ![w] = {}]
  /\ cur' = [cur EXCEPT ![w] = NoOwner]
  /\ ok' = [ok EXCEPT ![w] = FALSE]
  /\ UNCHANGED <<tables, acked>>

--------------------------------------------------------------------------------
Next ==
  \/ \E e \in Event : Ingest(e) \/ IngestUnanswered(e) \/ IngestReplayed(e)
  \/ \E w \in Workers : \/ Claim(w) \/ ClaimUnanswered(w)
                        \/ Mark(w) \/ MarkFails(w) \/ Crash(w)
                        \/ \E i \in Ids : Publish(w, i) \/ PublishFails(w, i)
  \/ \E i \in Ids : LeaseExpires(i)

Spec == Init /\ [][Next]_vars

\* cmd/outbox-worker calls DispatchTenant every second and the loop of a batch
\* runs to its end; the clock advances.
Fairness ==
  /\ \A w \in Workers : /\ WF_vars(Claim(w))
                        /\ WF_vars(\E i \in Ids : Publish(w, i))
                        /\ WF_vars(Mark(w))
  /\ \A i \in Ids : WF_vars(LeaseExpires(i) /\ ~ Working(i))

FairSpec == Spec /\ Fairness

--------------------------------------------------------------------------------
TypeOK ==
  /\ events \subseteq Event
  /\ acked \subseteq Event
  /\ outbox \in [Ids -> Row]
  /\ receipts \subseteq Ids
  /\ alerts \subseteq Ids
  /\ feed \in [Sites -> Seq(Ids)]
  /\ audit \in [Actions -> [Ids -> Nat]]
  /\ run \in [Workers -> Nat]
  /\ pc \in [Workers -> {"idle", "publish", "mark"}]
  /\ batch \in [Workers -> SUBSET Ids]
  /\ cur \in [Workers -> Ids \cup {NoOwner}]
  /\ ok \in [Workers -> BOOLEAN]
  /\ faults \in Nat

\* An outbox row is marked published only once the projection of its event is
\* committed: alert, receipt, one audit entry and the announcement in the feed
\* of the event's own site.  A crash, a stolen lease or a lost answer between
\* Projector.Publish and MarkPublished never loses an alert.
PublishedIsProjected ==
  \A e \in events :
    outbox[e.id].state = "published" =>
      /\ e.id \in receipts \cap alerts
      /\ audit["alert.created"][e.id] = 1
      /\ \E n \in DOMAIN feed[e.site] : feed[e.site][n] = e.id

\* However often a message is claimed, published and re-published, its event is
\* announced at most once, to its own site, and leaves one audit entry.
AnnouncedOnce ==
  /\ \A s \in Sites : \A m, n \in DOMAIN feed[s] : feed[s][m] = feed[s][n] => m = n
  /\ \A s \in Sites : \A n \in DOMAIN feed[s] :
       \E e \in events : e.id = feed[s][n] /\ e.site = s
  /\ \A i \in Ids : audit["alert.created"][i] <= 1

\* A worker that lost its lease cannot finish the row under the new owner: a
\* live lease is given up only by a step of the process that holds it (finish
\* matches lease_owner) or by the clock.
LeaseFencing ==
  [][\A i \in Ids :
       (outbox[i].live /\ outbox'[i] # outbox[i]) =>
          \/ outbox'[i] = [outbox[i] EXCEPT !.live = FALSE]
          \/ \E w \in Workers : outbox[i].owner = Me(w) /\ batch'[w] # batch[w]]_vars

\* Every event whose submitter was told "accepted" is eventually projected and
\* its row retired, once faults cease.
AckedIsPublished ==
  \A i \in Ids :
    (\E e \in acked : e.id = i) ~> (i \in alerts /\ outbox[i].state = "published")

\* The pipeline implements the abstract promise.
Delivery == INSTANCE AlertDelivery WITH accepted <- events
DeliverySafe == Delivery!SafeSpec
DeliveryFair == Delivery!Spec
================================================================================
