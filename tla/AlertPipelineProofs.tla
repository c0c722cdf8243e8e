-------------------------- MODULE AlertPipelineProofs --------------------------
(***************************************************************************)
(* The safety of the alert pipeline for any number of keys, events, sites, *)
(* workers, faults and any batch size.                                     *)
(***************************************************************************)
EXTENDS AlertPipeline, FiniteSetTheorems, SequenceTheorems, TLAPS

\* The provers each leaf is tried with in turn, unless it names one.
USE ZenonT(5), SMTT(20), ZenonT(40)

Stored(i) == \E e \in events : e.id = i

\* Dedupe key and event id each name one stored event, of a known site.
EventsUnique ==
  /\ \A e, f \in events : (e.key = f.key \/ e.id = f.id) => e = f
  /\ \A e \in events : e.site \in Sites

\* Only stored events have an outbox row, and only projected ones are retired.
OutboxInv ==
  /\ \A i \in Ids : outbox[i].state # "absent" => Stored(i)
  /\ \A i \in Ids : outbox[i].state = "published" => i \in receipts
  /\ \A i \in Ids : outbox[i].live => outbox[i].state # "absent"

\* Receipt, alert, audit entry and realtime entry exist together.
ProjectionInv ==
  /\ receipts = alerts
  /\ \A i \in receipts : Stored(i)
  /\ \A i \in Ids : audit["alert.created"][i] = IF i \in receipts THEN 1 ELSE 0

FeedInv ==
  /\ \A s \in Sites : \A n \in DOMAIN feed[s] :
       /\ feed[s][n] \in receipts
       /\ \E e \in events : e.id = feed[s][n] /\ e.site = s
  /\ \A e \in events : e.id \in receipts =>
       \E n \in DOMAIN feed[e.site] : feed[e.site][n] = e.id
  /\ \A s \in Sites : \A m, n \in DOMAIN feed[s] : feed[s][m] = feed[s][n] => m = n

\* A worker only handles stored messages, and one that is about to mark a
\* message published has seen its receipt committed.
WorkerInv ==
  \A w \in Workers :
    /\ \A i \in batch[w] : Stored(i)
    /\ pc[w] = "mark" => cur[w] \in batch[w]
    /\ (pc[w] = "mark" /\ ok[w]) => cur[w] \in receipts

IInv == TypeOK /\ EventsUnique /\ OutboxInv /\ ProjectionInv /\ FeedInv /\ WorkerInv
--------------------------------------------------------------------------------
\* The number of outbox rows is a natural number, so created_at is defined.
LEMMA RowsFinite == Cardinality(Rows) \in Nat
  <1>1. Rows \subseteq Ids
    BY DEF Rows
  <1>2. IsFiniteSet(Rows)
    BY <1>1, FS_Subset, PipelineAssumption
  <1>3. QED
    BY <1>2, FS_CardinalityType

\* What Ingest writes is well typed.
LEMMA StoreType ==
  ASSUME TypeOK, NEW e \in Event, Store(e)
  PROVE  /\ events' \subseteq Event
         /\ outbox' \in [Ids -> Row]
         /\ audit' \in [Actions -> [Ids -> Nat]]
         /\ UNCHANGED <<receipts, alerts, feed, worker>>
  <1>1. e.id \in Ids
    BY DEF Event
  <1>2. Cardinality(Rows) + 1 \in Nat
    BY RowsFinite
  <1>3. outbox' \in [Ids -> Row]
    BY <1>1, <1>2 DEF Store, Row, TypeOK
  <1>4. audit' \in [Actions -> [Ids -> Nat]]
    BY <1>1 DEF Store, Actions, TypeOK
  <1>5. QED
    BY <1>3, <1>4 DEF Store, TypeOK

\* The lease columns of a row can be set and cleared within its type.
LEMMA RowType ==
  ASSUME NEW r \in Row, NEW o \in Owner \cup {NoOwner}, NEW l \in BOOLEAN,
         NEW st \in {"absent", "pending", "published"}
  PROVE  /\ [r EXCEPT !.owner = o, !.live = l] \in Row
         /\ [r EXCEPT !.live = l] \in Row
         /\ [r EXCEPT !.owner = o, !.live = l, !.state = st] \in Row
  BY DEF Row

\* What Projector.Publish writes is well typed.
LEMMA ProjectType ==
  ASSUME TypeOK, NEW i \in Ids, Project(i)
  PROVE  /\ receipts' \subseteq Ids
         /\ alerts' \subseteq Ids
         /\ feed' \in [Sites -> Seq(Ids)]
         /\ audit' \in [Actions -> [Ids -> Nat]]
  <1>1. CASE i \in receipts
    BY <1>1 DEF Project, projection, TypeOK
  <1>2. CASE i \notin receipts
    <2>1. feed' = [feed EXCEPT ![SiteOf(i)] = Append(feed[SiteOf(i)], i)]
      BY <1>2 DEF Project
    <2>2. ASSUME NEW s \in Sites PROVE feed'[s] \in Seq(Ids)
      <3>1. feed[s] \in Seq(Ids) /\ Append(feed[s], i) \in Seq(Ids)
        BY AppendProperties DEF TypeOK
      <3>2. QED
        BY <2>1, <3>1 DEF TypeOK
    <2>3. feed' \in [Sites -> Seq(Ids)]
      BY <2>1, <2>2 DEF TypeOK
    <2>4. audit' \in [Actions -> [Ids -> Nat]]
      BY <1>2 DEF Project, Actions, TypeOK
    <2>5. QED
      BY <1>2, <2>3, <2>4 DEF Project, TypeOK
  <1>3. QED
    BY <1>1, <1>2

\* The type invariant is inductive: one step per transaction or worker step.
LEMMA TypeStep == TypeOK /\ [Next]_vars => TypeOK'
  <1> SUFFICES ASSUME TypeOK, [Next]_vars PROVE TypeOK'
    OBVIOUS
  <1> USE DEF tables, projection, worker
  <1>1. ASSUME NEW e \in Event, Ingest(e) PROVE TypeOK'
    BY <1>1, StoreType DEF Ingest, TypeOK
  <1>2. ASSUME NEW e \in Event, IngestUnanswered(e) PROVE TypeOK'
    BY <1>2, StoreType DEF IngestUnanswered, Fault, TypeOK
  <1>3. ASSUME NEW e \in Event, IngestReplayed(e) PROVE TypeOK'
    BY <1>3 DEF IngestReplayed, TypeOK
  <1>4. ASSUME NEW w \in Workers, Claim(w) \/ ClaimUnanswered(w) PROVE TypeOK'
    <2>1. PICK claimed \in SUBSET Ids :
            outbox' = [i \in Ids |->
              IF i \in claimed THEN [outbox[i] EXCEPT !.owner = Me(w), !.live = TRUE]
                               ELSE outbox[i]]
      BY <1>4 DEF Claim, ClaimUnanswered, Lease
    <2>2. Me(w) \in Owner
      BY DEF Me, Owner, TypeOK
    <2>3. outbox' \in [Ids -> Row]
      BY <2>1, <2>2, RowType DEF TypeOK
    <2>4. CASE Claim(w)
      BY <2>4, <2>3 DEF Claim, TypeOK
    <2>5. CASE ClaimUnanswered(w)
      BY <2>5, <2>3 DEF ClaimUnanswered, Fault, TypeOK
    <2>6. QED
      BY <1>4, <2>4, <2>5
  <1>5. ASSUME NEW w \in Workers, Mark(w) PROVE TypeOK'
    <2>1. outbox' \in [Ids -> Row]
      BY <1>5, RowType DEF Mark, Finish, TypeOK
    <2>2. QED
      BY <1>5, <2>1 DEF Mark, Proceed, TypeOK
  <1>6. ASSUME NEW w \in Workers, MarkFails(w) PROVE TypeOK'
    BY <1>6 DEF MarkFails, Proceed, Fault, TypeOK
  <1>7. ASSUME NEW w \in Workers, Crash(w) PROVE TypeOK'
    BY <1>7 DEF Crash, Fault, TypeOK
  <1>8. ASSUME NEW w \in Workers, NEW i \in Ids, Publish(w, i) PROVE TypeOK'
    BY <1>8, ProjectType DEF Publish, PublishReturns, TypeOK
  <1>9. ASSUME NEW w \in Workers, NEW i \in Ids, PublishFails(w, i) PROVE TypeOK'
    <2>1. CASE Project(i)
      BY <1>9, <2>1, ProjectType DEF PublishFails, PublishReturns, Fault, TypeOK
    <2>2. CASE UNCHANGED projection
      BY <1>9, <2>2 DEF PublishFails, PublishReturns, Fault, TypeOK
    <2>3. QED
      BY <1>9, <2>1, <2>2 DEF PublishFails
  <1>10. ASSUME NEW i \in Ids, LeaseExpires(i) PROVE TypeOK'
    <2>1. outbox' \in [Ids -> Row]
      BY <1>10, RowType DEF LeaseExpires, TypeOK
    <2>2. QED
      BY <1>10, <2>1 DEF LeaseExpires, Fault, TypeOK
  <1>11. CASE UNCHANGED vars
    BY <1>11 DEF vars, TypeOK
  <1>12. QED
    BY <1>1, <1>2, <1>3, <1>4, <1>5, <1>6, <1>7, <1>8, <1>9, <1>10, <1>11 DEF Next

--------------------------------------------------------------------------------
\* Ingest adds one event under a fresh dedupe key and a fresh id, so it
\* disturbs nothing that is known of the events stored before.
LEMMA StoreInv ==
  ASSUME IInv, NEW e \in Event, Store(e)
  PROVE  EventsUnique' /\ OutboxInv' /\ ProjectionInv' /\ FeedInv' /\ WorkerInv'
  <1> USE DEF IInv
  <1>1. /\ \A s \in events : s.key # e.key /\ s.id # e.id
        /\ e.site \in Sites /\ e.id \in Ids
        /\ events' = events \cup {e}
        /\ UNCHANGED <<receipts, alerts, feed, batch, pc, cur, ok>>
    BY DEF Store, worker, Event
  <1>2. e.id \notin receipts
    BY <1>1 DEF ProjectionInv, Stored
  <1>3. EventsUnique'
    BY <1>1 DEF EventsUnique
  <1>4. OutboxInv'
    <2>1. ASSUME NEW i \in Ids, outbox[i].state # "absent" PROVE Stored(i)'
      BY <2>1, <1>1 DEF OutboxInv, Stored
    <2>2. \A i \in Ids : i # e.id => outbox'[i] = outbox[i]
      BY DEF Store, TypeOK
    <2>3. outbox'[e.id].state = "pending"
      BY <1>1 DEF Store, TypeOK
    <2>4. Stored(e.id)'
      BY <1>1 DEF Stored
    <2>5. QED
      BY <1>1, <2>1, <2>2, <2>3, <2>4 DEF OutboxInv
  <1>5. ProjectionInv'
    <2>1. audit'["alert.created"] = audit["alert.created"]
      BY DEF Store, TypeOK, Actions
    <2>2. QED
      BY <1>1, <2>1 DEF ProjectionInv, Stored
  <1>6. FeedInv'
    BY <1>1, <1>2 DEF FeedInv
  <1>7. WorkerInv'
    BY <1>1 DEF WorkerInv, Stored
  <1>8. QED
    BY <1>3, <1>4, <1>5, <1>6, <1>7

\* Projector.Publish adds receipt, alert, audit entry and announcement together
\* or, where the receipt is already there, nothing.
LEMMA ProjectInv ==
  ASSUME IInv, NEW i \in Ids, Stored(i), Project(i), UNCHANGED events
  PROVE  ProjectionInv' /\ FeedInv' /\ receipts \subseteq receipts' /\ i \in receipts'
  <1> USE DEF IInv
  <1>1. CASE i \in receipts
    <2>1. UNCHANGED <<receipts, alerts, feed, audit>>
      BY <1>1 DEF Project, projection
    <2>2. QED
      BY <1>1, <2>1 DEF ProjectionInv, FeedInv, Stored
  <1>2. CASE i \notin receipts
    <2>1. /\ receipts' = receipts \cup {i}
          /\ alerts' = alerts \cup {i}
          /\ feed' = [feed EXCEPT ![SiteOf(i)] = Append(@, i)]
          /\ audit' = [audit EXCEPT !["alert.created"][i] = @ + 1]
      BY <1>2 DEF Project
    <2>2. PICK e \in events : e.id = i /\ SiteOf(i) = e.site
      BY DEF Stored, SiteOf
    <2>3. e.site \in Sites
      BY <2>2 DEF EventsUnique
    <2>4. ProjectionInv'
      BY <1>2, <2>1 DEF ProjectionInv, Stored, TypeOK, Actions
    <2>5. \A s \in Sites : s # e.site => feed'[s] = feed[s]
      BY <2>1, <2>2 DEF TypeOK
    <2>6. DEFINE old == feed[e.site]
    <2>7. old \in Seq(Ids) /\ feed'[e.site] = Append(old, i)
      BY <2>1, <2>2, <2>3 DEF TypeOK
    <2>8. /\ DOMAIN feed'[e.site] = 1 .. Len(old) + 1
          /\ DOMAIN old = 1 .. Len(old) /\ Len(old) \in Nat
          /\ \A n \in DOMAIN old : feed'[e.site][n] = old[n]
          /\ feed'[e.site][Len(old) + 1] = i
      BY <2>7
    <2>9. \A n \in DOMAIN old : old[n] # i
      BY <1>2, <2>3 DEF FeedInv
    <2>10. FeedInv'
      <3>1. ASSUME NEW s \in Sites, NEW n \in DOMAIN feed'[s]
            PROVE  /\ feed'[s][n] \in receipts'
                   /\ \E f \in events' : f.id = feed'[s][n] /\ f.site = s
        <4>1. CASE s # e.site
          <5>1. feed'[s] = feed[s] /\ n \in DOMAIN feed[s]
            BY <2>5, <4>1, <3>1
          <5>2. feed[s][n] \in receipts /\ \E f \in events : f.id = feed[s][n] /\ f.site = s
            BY <5>1 DEF FeedInv
          <5>3. QED
            BY <2>1, <5>1, <5>2
        <4>2. CASE s = e.site /\ n \in DOMAIN old
          BY <2>1, <2>8, <4>2 DEF FeedInv
        <4>3. CASE s = e.site /\ n = Len(old) + 1
          BY <2>1, <2>2, <2>8, <4>3
        <4>4. QED
          BY <2>8, <4>1, <4>2, <4>3, <3>1
      <3>2. ASSUME NEW f \in events', f.id \in receipts'
            PROVE  \E n \in DOMAIN feed'[f.site] : feed'[f.site][n] = f.id
        <4>1. CASE f.id = i
          <5>1. f = e
            BY <2>2, <4>1 DEF EventsUnique
          <5>2. QED
            BY <2>2, <2>8, <5>1
        <4>2. CASE f.id # i
          <5>1. PICK n \in DOMAIN feed[f.site] : feed[f.site][n] = f.id
            BY <2>1, <3>2, <4>2 DEF FeedInv
          <5>2. f.site \in Sites
            BY DEF EventsUnique
          <5>3. n \in DOMAIN feed'[f.site] /\ feed'[f.site][n] = f.id
            BY <2>5, <2>8, <5>1, <5>2
          <5>4. QED
            BY <5>3
        <4>3. QED
          BY <4>1, <4>2
      <3>3. ASSUME NEW s \in Sites, NEW m \in DOMAIN feed'[s], NEW n \in DOMAIN feed'[s],
                   feed'[s][m] = feed'[s][n]
            PROVE  m = n
        <4>1. CASE s # e.site
          <5>1. feed'[s] = feed[s]
            BY <2>5, <4>1
          <5>2. m \in DOMAIN feed[s] /\ n \in DOMAIN feed[s] /\ feed[s][m] = feed[s][n]
            BY <3>3, <5>1
          <5>3. QED
            BY <5>2 DEF FeedInv
        <4>2. CASE s = e.site
          <5>1. \A a, b \in DOMAIN old : old[a] = old[b] => a = b
            BY <2>3 DEF FeedInv
          <5>2. m \in 1 .. Len(old) + 1 /\ n \in 1 .. Len(old) + 1
            BY <2>8, <3>3, <4>2
          <5>3. feed'[e.site][m] = feed'[e.site][n]
            BY <3>3, <4>2
          <5>4. CASE m \in DOMAIN old /\ n \in DOMAIN old
            BY <2>8, <5>1, <5>3, <5>4
          <5>5. CASE m = Len(old) + 1 /\ n \in DOMAIN old
            BY <2>8, <2>9, <5>3, <5>5
          <5>6. CASE n = Len(old) + 1 /\ m \in DOMAIN old
            BY <2>8, <2>9, <5>3, <5>6
          <5>7. QED
            BY <2>8, <5>2, <5>4, <5>5, <5>6
        <4>3. QED
          BY <4>1, <4>2
      <3>4. QED
        BY <3>1, <3>2, <3>3 DEF FeedInv
    <2>11. QED
      BY <2>1, <2>4, <2>10
  <1>3. QED
    BY <1>1, <1>2

--------------------------------------------------------------------------------
\* The induction step, one case per action.
LEMMA InvStep ==
  ASSUME IInv, [Next]_vars
  PROVE  IInv'
  <1>0. TypeOK'
    BY TypeStep DEF IInv
  <1>1. ASSUME NEW e \in Event, Ingest(e) \/ IngestUnanswered(e)
        PROVE  IInv'
    BY <1>0, <1>1, StoreInv DEF Ingest, IngestUnanswered, IInv
  <1>2. ASSUME NEW e \in Event, IngestReplayed(e)
        PROVE  IInv'
    BY <1>0, <1>2 DEF IngestReplayed, tables, worker, IInv, EventsUnique, OutboxInv,
                      ProjectionInv, FeedInv, WorkerInv, Stored
  <1>3. ASSUME NEW w \in Workers, Claim(w) \/ ClaimUnanswered(w)
        PROVE  IInv'
    <2> USE DEF IInv
    <2>1. PICK claimed \in SUBSET Ids :
            /\ claimed \subseteq {i \in Ids : Claimable(i)}
            /\ outbox' = [i \in Ids |->
                 IF i \in claimed THEN [outbox[i] EXCEPT !.owner = Me(w), !.live = TRUE]
                                ELSE outbox[i]]
            /\ \/ batch' = [batch EXCEPT ![w] = claimed] /\ pc' = [pc EXCEPT ![w] = "publish"]
               \/ UNCHANGED <<batch, pc>>
      BY <1>3 DEF Claim, ClaimUnanswered, Lease, worker
    <2>2. UNCHANGED <<events, receipts, alerts, feed, audit, cur, ok>>
      BY <1>3 DEF Claim, ClaimUnanswered, projection, worker
    <2>3. \A i \in Ids : /\ outbox'[i].state = outbox[i].state
                         /\ outbox'[i].live => outbox[i].live \/ outbox[i].state = "pending"
      BY <2>1 DEF TypeOK, Row, Claimable
    <2>4. OutboxInv'
      BY <2>2, <2>3 DEF OutboxInv, Stored
    <2>5. \A i \in claimed : Stored(i)
      BY <2>1 DEF Claimable, OutboxInv
    <2>6. WorkerInv'
      BY <2>1, <2>2, <2>5 DEF WorkerInv, TypeOK, Stored
    <2>7. EventsUnique' /\ ProjectionInv' /\ FeedInv'
      BY <2>2 DEF EventsUnique, ProjectionInv, FeedInv, Stored
    <2>8. QED
      BY <1>0, <2>4, <2>6, <2>7
  <1>4. ASSUME NEW w \in Workers, NEW i \in Ids, Publish(w, i) \/ PublishFails(w, i)
        PROVE  IInv'
    <2> USE DEF IInv
    <2>1. /\ UNCHANGED <<events, outbox, batch>>
          /\ i \in batch[w]
          /\ pc' = [pc EXCEPT ![w] = "mark"]
          /\ cur' = [cur EXCEPT ![w] = i]
      BY <1>4 DEF Publish, PublishFails, PublishReturns
    <2>2. \/ Project(i) /\ (ok' = [ok EXCEPT ![w] = TRUE] \/ ok' = [ok EXCEPT ![w] = FALSE])
          \/ UNCHANGED projection /\ ok' = [ok EXCEPT ![w] = FALSE]
      BY <1>4 DEF Publish, PublishFails, PublishReturns
    <2>3. Stored(i)
      BY <2>1 DEF WorkerInv
    <2>4. EventsUnique'
      BY <2>1 DEF EventsUnique
    <2>5. CASE Project(i) /\ (ok' = [ok EXCEPT ![w] = TRUE] \/ ok' = [ok EXCEPT ![w] = FALSE])
      <3>1. ProjectionInv' /\ FeedInv' /\ receipts \subseteq receipts' /\ i \in receipts'
        BY <2>1, <2>3, <2>5, ProjectInv
      <3>2. OutboxInv'
        BY <2>1, <3>1 DEF OutboxInv, Stored
      <3>3. WorkerInv'
        BY <2>1, <2>5, <3>1 DEF WorkerInv, TypeOK, Stored
      <3>4. QED
        BY <1>0, <2>4, <3>1, <3>2, <3>3
    <2>6. CASE UNCHANGED projection /\ ok' = [ok EXCEPT ![w] = FALSE]
      <3>1. UNCHANGED <<receipts, alerts, feed, audit>>
        BY <2>6 DEF projection
      <3>2. ProjectionInv' /\ FeedInv' /\ OutboxInv'
        BY <2>1, <3>1 DEF ProjectionInv, FeedInv, OutboxInv, Stored
      <3>3. WorkerInv'
        BY <2>1, <2>6, <3>1 DEF WorkerInv, TypeOK, Stored
      <3>4. QED
        BY <1>0, <2>4, <3>2, <3>3
    <2>7. QED
      BY <2>2, <2>5, <2>6
  <1>5. ASSUME NEW w \in Workers, Mark(w) \/ MarkFails(w)
        PROVE  IInv'
    <2> USE DEF IInv
    <2>1. /\ UNCHANGED <<events, receipts, alerts, feed, audit>>
          /\ pc[w] = "mark"
          /\ Finish(w) \/ UNCHANGED outbox
          /\ Proceed(w)
      BY <1>5 DEF Mark, MarkFails, tables, projection
    <2>2. EventsUnique' /\ ProjectionInv' /\ FeedInv'
      BY <2>1 DEF EventsUnique, ProjectionInv, FeedInv, Stored
    <2>3. WorkerInv'
      BY <2>1 DEF Proceed, WorkerInv, TypeOK, Stored
    <2>4. cur[w] \in batch[w] /\ cur[w] \in Ids /\ (ok[w] => cur[w] \in receipts)
      BY <2>1 DEF WorkerInv, TypeOK
    <2>5. \A i \in Ids : \/ outbox'[i] = outbox[i]
                         \/ i = cur[w] /\ outbox'[i].state \in {"pending", "published"}
                            /\ (outbox'[i].state = "published" => ok[w])
      <3>1. CASE UNCHANGED outbox
        BY <3>1
      <3>2. CASE Finish(w)
        <4>1. CASE outbox' = outbox
          BY <4>1
        <4>2. CASE outbox' = [outbox EXCEPT ![cur[w]] =
                     [@ EXCEPT !.owner = NoOwner, !.live = FALSE,
                               !.state = IF ok[w] THEN "published" ELSE "pending"]]
          <5>1. ASSUME NEW r \in Row, NEW st
                PROVE  [r EXCEPT !.owner = NoOwner, !.live = FALSE, !.state = st].state = st
            BY DEF Row
          <5>2. outbox'[cur[w]] = [outbox[cur[w]] EXCEPT !.owner = NoOwner, !.live = FALSE,
                                     !.state = IF ok[w] THEN "published" ELSE "pending"]
            BY <2>4, <4>2 DEF TypeOK
          <5>3. outbox[cur[w]] \in Row
            BY <2>4 DEF TypeOK
          <5>4. outbox'[cur[w]].state = IF ok[w] THEN "published" ELSE "pending"
            BY <5>1, <5>2, <5>3
          <5>5. \A i \in Ids : i # cur[w] => outbox'[i] = outbox[i]
            BY <4>2 DEF TypeOK
          <5>6. QED
            BY <5>4, <5>5
        <4>3. QED
          BY <3>2, <4>1, <4>2 DEF Finish
      <3>3. QED
        BY <2>1, <3>1, <3>2
    <2>6. Stored(cur[w])
      BY <2>4 DEF WorkerInv
    <2>7. OutboxInv'
      BY <2>1, <2>4, <2>5, <2>6 DEF OutboxInv, Stored
    <2>8. QED
      BY <1>0, <2>2, <2>3, <2>7
  <1>6. ASSUME NEW w \in Workers, Crash(w)
        PROVE  IInv'
    <2>1. UNCHANGED <<events, outbox, receipts, alerts, feed, audit>>
      BY <1>6 DEF Crash, tables
    <2>2. EventsUnique' /\ OutboxInv' /\ ProjectionInv' /\ FeedInv'
      BY <2>1 DEF IInv, EventsUnique, OutboxInv, ProjectionInv, FeedInv, Stored
    <2>3. \A v \in Workers :
            \/ v = w /\ batch'[v] = {} /\ pc'[v] = "idle"
            \/ v # w /\ batch'[v] = batch[v] /\ pc'[v] = pc[v] /\ cur'[v] = cur[v] /\ ok'[v] = ok[v]
      BY <1>6 DEF Crash, IInv, TypeOK
    <2>4. \A i \in Ids : Stored(i)' <=> Stored(i)
      BY <2>1 DEF Stored
    <2>5. WorkerInv'
      BY <2>1, <2>3, <2>4, <1>0 DEF IInv, TypeOK, WorkerInv
    <2>6. QED
      BY <1>0, <2>2, <2>5 DEF IInv
  <1>7. ASSUME NEW i \in Ids, LeaseExpires(i)
        PROVE  IInv'
    <2> USE DEF IInv
    <2>1. UNCHANGED <<events, receipts, alerts, feed, audit, pc, batch, cur, ok>>
      BY <1>7 DEF LeaseExpires, projection, worker
    <2>2. ASSUME NEW r \in Row
          PROVE  [r EXCEPT !.live = FALSE].state = r.state /\ ~ [r EXCEPT !.live = FALSE].live
      BY DEF Row
    <2>3. \A j \in Ids : outbox'[j] = outbox[j] \/ outbox'[j] = [outbox[j] EXCEPT !.live = FALSE]
      BY <1>7 DEF LeaseExpires, TypeOK
    <2>4. \A j \in Ids : /\ outbox'[j].state = outbox[j].state
                         /\ outbox'[j].live => outbox[j].live
      <3> SUFFICES ASSUME NEW j \in Ids
                   PROVE  outbox'[j].state = outbox[j].state /\ (outbox'[j].live => outbox[j].live)
        OBVIOUS
      <3>1. CASE outbox'[j] = outbox[j]
        BY <3>1
      <3>2. CASE outbox'[j] = [outbox[j] EXCEPT !.live = FALSE]
        <4>1. outbox[j] \in Row
          BY DEF TypeOK
        <4>2. outbox'[j].state = outbox[j].state /\ ~ outbox'[j].live
          BY ONLY <2>2, <3>2, <4>1
        <4>3. QED
          BY <4>2
      <3>3. QED
        BY <2>3, <3>1, <3>2
    <2>5. OutboxInv'
      BY <2>1, <2>4 DEF OutboxInv, Stored
    <2>6. EventsUnique' /\ ProjectionInv' /\ FeedInv' /\ WorkerInv'
      BY <2>1 DEF EventsUnique, ProjectionInv, FeedInv, WorkerInv, Stored
    <2>7. QED
      BY <1>0, <2>5, <2>6
  <1>8. CASE UNCHANGED vars
    BY <1>0, <1>8 DEF vars, tables, worker, IInv, EventsUnique, OutboxInv, ProjectionInv,
                      FeedInv, WorkerInv, Stored
  <1>9. QED
    BY <1>1, <1>2, <1>3, <1>4, <1>5, <1>6, <1>7, <1>8 DEF Next

\* The tables are empty and the workers idle when the system starts.
LEMMA InitInv == Init => IInv
  <1> SUFFICES ASSUME Init PROVE IInv
    OBVIOUS
  <1>1. \A s \in Sites : feed[s] = << >> /\ DOMAIN feed[s] = {}
    BY DEF Init
  <1>2. TypeOK
    BY DEF Init, TypeOK, Row, Actions
  <1>3. EventsUnique /\ OutboxInv /\ ProjectionInv
    BY DEF Init, EventsUnique, OutboxInv, ProjectionInv, Stored, Actions
  <1>4. FeedInv
    BY <1>1 DEF Init, FeedInv
  <1>5. WorkerInv
    BY DEF Init, WorkerInv
  <1>6. QED
    BY <1>2, <1>3, <1>4, <1>5 DEF IInv

LEMMA Inductive == Spec => []IInv
  BY InitInv, InvStep, PTL DEF Spec

\* The tables of the pipeline and the state of its workers keep their types,
\* with any number of workers, faults and restarts.
THEOREM TypeCorrect == Spec => []TypeOK
  <1>1. IInv => TypeOK
    BY DEF IInv
  <1>2. QED
    BY <1>1, Inductive, PTL

\* MarkPublished never retires an outbox row whose alert, receipt, audit entry
\* and announcement are not all committed.
THEOREM PublishedOnlyProjected == Spec => []PublishedIsProjected
  <1>1. IInv => PublishedIsProjected
    <2> SUFFICES ASSUME IInv, NEW e \in events, outbox[e.id].state = "published"
                 PROVE  /\ e.id \in receipts \cap alerts
                        /\ audit["alert.created"][e.id] = 1
                        /\ \E n \in DOMAIN feed[e.site] : feed[e.site][n] = e.id
      BY DEF PublishedIsProjected
    <2>1. e.id \in Ids
      BY DEF IInv, TypeOK, Event
    <2>2. e.id \in receipts
      BY <2>1 DEF IInv, OutboxInv
    <2>3. QED
      BY <2>1, <2>2 DEF IInv, ProjectionInv, FeedInv
  <1>2. QED
    BY <1>1, Inductive, PTL

\* Redelivery by the outbox never announces an event twice, never to another
\* site than its own, and never audits its alert twice.
THEOREM NeverAnnouncedTwice == Spec => []AnnouncedOnce
  <1>1. IInv => AnnouncedOnce
    BY DEF IInv, AnnouncedOnce, FeedInv, ProjectionInv
  <1>2. QED
    BY <1>1, Inductive, PTL

--------------------------------------------------------------------------------
\* The pipeline implements the abstract delivery specification: every step
\* accepts one event under a fresh key, announces one accepted event that was
\* not announced before, or is invisible.
THEOREM Refinement == Spec => DeliverySafe
  <1>1. Init => Delivery!Init
    BY DEF Init, Delivery!Init
  <1>2. IInv /\ [Next]_vars => [Delivery!Next]_<<events, feed>>
    <2> SUFFICES ASSUME IInv, [Next]_vars PROVE [Delivery!Next]_<<events, feed>>
      OBVIOUS
    <2> USE DEF IInv
    <2>1. ASSUME NEW e \in Event, Store(e) PROVE Delivery!Accept(e)
      BY <2>1 DEF Store, Delivery!Accept
    <2>2. ASSUME NEW w \in Workers, NEW i \in Ids, Project(i), i \in batch[w], UNCHANGED events
          PROVE  [Delivery!Next]_<<events, feed>>
      <3>1. CASE i \in receipts
        BY <2>2, <3>1 DEF Project, projection
      <3>2. CASE i \notin receipts
        <4>1. PICK e \in events : e.id = i /\ SiteOf(i) = e.site
          BY <2>2 DEF WorkerInv, Stored, SiteOf
        <4>2. feed' = [feed EXCEPT ![e.site] = Append(@, e.id)]
          BY <2>2, <3>2, <4>1 DEF Project
        <4>3. ~ Delivery!Announced(e.id)
          BY <3>2, <4>1 DEF Delivery!Announced, FeedInv, EventsUnique
        <4>4. Delivery!Announce(e)
          BY <2>2, <4>2, <4>3 DEF Delivery!Announce
        <4>5. e \in Event
          BY DEF TypeOK
        <4>6. QED
          BY <4>4, <4>5 DEF Delivery!Next
      <3>3. QED
        BY <3>1, <3>2
    <2>3. ASSUME UNCHANGED <<events, feed>> PROVE [Delivery!Next]_<<events, feed>>
      BY <2>3
    <2>4. QED
      BY <2>1, <2>2, <2>3 DEF Next, vars, tables, projection, Ingest, IngestUnanswered,
           IngestReplayed, Claim, ClaimUnanswered, Mark, MarkFails, Crash, Publish, PublishFails,
           LeaseExpires, worker, Delivery!Next
  <1>3. QED
    BY <1>1, <1>2, Inductive, PTL DEF Spec, DeliverySafe, Delivery!SafeSpec, Delivery!vars

\* A worker whose lease was taken over cannot finish the row under its new
\* owner: finish compares lease_owner, and every restart draws a new WorkerID.
THEOREM LeasesAreFenced == Spec => LeaseFencing
  <1> DEFINE Fenced ==
        \A i \in Ids :
          (outbox[i].live /\ outbox'[i] # outbox[i]) =>
             \/ outbox'[i] = [outbox[i] EXCEPT !.live = FALSE]
             \/ \E w \in Workers : outbox[i].owner = Me(w) /\ batch'[w] # batch[w]
  <1>1. IInv /\ [Next]_vars => [Fenced]_vars
    <2> SUFFICES ASSUME IInv, Next, NEW i \in Ids, outbox[i].live, outbox'[i] # outbox[i]
                 PROVE  \/ outbox'[i] = [outbox[i] EXCEPT !.live = FALSE]
                        \/ \E w \in Workers : outbox[i].owner = Me(w) /\ batch'[w] # batch[w]
      OBVIOUS
    <2> USE DEF IInv
    <2>1. ASSUME NEW e \in Event, Store(e) PROVE FALSE
      <3>1. i = e.id
        BY <2>1 DEF Store, TypeOK
      <3>2. outbox[i].state # "absent"
        BY DEF OutboxInv
      <3>3. QED
        BY <2>1, <3>1, <3>2 DEF Store, OutboxInv, Stored
    <2>2. ASSUME NEW w \in Workers, Claim(w) \/ ClaimUnanswered(w) PROVE FALSE
      BY <2>2 DEF Claim, ClaimUnanswered, Lease, Claimable
    <2>3. ASSUME NEW w \in Workers, Mark(w)
          PROVE  outbox[i].owner = Me(w) /\ batch'[w] # batch[w]
      <3>1. cur[w] \in batch[w] /\ pc[w] = "mark"
        BY <2>3 DEF Mark, WorkerInv
      <3>2. batch'[w] = batch[w] \ {cur[w]}
        BY <2>3 DEF Mark, Proceed, TypeOK
      <3>3. i = cur[w] /\ outbox[i].owner = Me(w)
        BY <2>3 DEF Mark, Finish, TypeOK
      <3>4. QED
        BY <3>1, <3>2, <3>3
    <2>4. ASSUME NEW j \in Ids, LeaseExpires(j)
          PROVE  outbox'[i] = [outbox[i] EXCEPT !.live = FALSE]
      BY <2>4 DEF LeaseExpires, TypeOK
    <2>5. ASSUME UNCHANGED outbox PROVE FALSE
      BY <2>5
    <2>6. QED
      BY <2>1, <2>2, <2>3, <2>4, <2>5 DEF Next, tables, Ingest, IngestUnanswered,
           IngestReplayed, MarkFails, Crash, Publish, PublishFails
  <1>2. QED
    BY <1>1, Inductive, PTL DEF Spec, LeaseFencing

================================================================================
