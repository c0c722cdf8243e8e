------------------------------- MODULE EdgeSpool -------------------------------
(***************************************************************************)
(* The edge's store-and-forward queue (DurableSpool) and the delivery of   *)
(* review events through it (ReviewEventDelivery).                         *)
(*                                                                         *)
(* A record is one file; an in-memory index mirrors the directory and is   *)
(* rebuilt from it on start.  The mutex makes every operation one step,    *)
(* except that the process may die between the write of a record and the   *)
(* evictions that follow it.  Items are numbered in the order of their     *)
(* ids; payloads are abstract, since a repeated or conflicting id is       *)
(* answered without a change.                                              *)
(***************************************************************************)
EXTENDS Integers, FiniteSets

CONSTANTS Review,     \* review events: metadata, queued without eviction
          Evidence,   \* evidence and video: stored with eviction
          Big,        \* items whose record takes two units, the others one
          MaxBytes,   \* quota
          MaxPuts,    \* bound: records written
          MaxFaults   \* bound: crashes, failing calls, clock set back

ASSUME SpoolAssumption ==
  /\ Review \cup Evidence \subseteq Nat \ {0}
  /\ Review \cap Evidence = {}
  /\ Big \subseteq Review \cup Evidence
  /\ MaxBytes \in Nat \ {0} /\ MaxPuts \in Nat /\ MaxFaults \in Nat

VARIABLES disk,      \* files: [id, at]
          temp,      \* a temporary file is left over
          entries,   \* the index
          bytes,     \* metrics.Bytes
          up,        \* the agent runs
          evicting,  \* enforceQuota runs: the protected id, 0 on start, else -1
          hand,      \* DeliverNext: [id, sent] of the message it holds, or Empty
          clock, puts, faults,
          queued,    \* history: review events promised to the caller
          accepted,  \* events the receiver has durably accepted
          evicted,   \* history: ids evicted
          unremoved  \* history: the last enforcement of the quota failed

spool == <<disk, temp, entries, bytes, up, evicting>>
bounds == <<clock, puts, faults>>
history == <<queued, accepted, evicted, unremoved>>
vars == <<spool, hand, bounds, history>>

Items == Review \cup Evidence
Record == [id : Items, at : 0 .. MaxPuts]
Empty == [id |-> 0, sent |-> FALSE]
Size(r) == IF r.id \in Big THEN 2 ELSE 1
SumOf(rs) == Cardinality(rs) + Cardinality({r \in rs : Size(r) = 2})
Fault == faults < MaxFaults /\ faults' = faults + 1

\* sortedEntries within a priority, and over all for eviction
Older(r, s) == r.at < s.at \/ (r.at = s.at /\ r.id < s.id)
Oldest(rs) == CHOOSE r \in rs : \A s \in rs \ {r} : Older(r, s)

Init ==
  /\ disk = {} /\ temp = FALSE /\ entries = {} /\ bytes = 0
  /\ up = TRUE /\ evicting = -1
  /\ hand = Empty
  /\ clock = 0 /\ puts = 0 /\ faults = 0
  /\ queued = {} /\ accepted = {} /\ evicted = {} /\ unremoved = FALSE

Ready == up /\ evicting = -1

--------------------------------------------------------------------------------
\* CreatedAt is the wall clock: ties are possible, and it may be set back.
Stamp(at) ==
  /\ at \in 0 .. clock + 1
  /\ IF at >= clock THEN UNCHANGED faults ELSE Fault
  /\ clock' = at

\* Mutant: an id that is stored already is written again.
Write_Again(r) ==
  /\ puts < MaxPuts /\ puts' = puts + 1
  /\ Size(r) <= MaxBytes
  /\ r \notin entries
  /\ disk' = disk \cup {r}
  /\ entries' = entries \cup {r}
  /\ bytes' = bytes + Size(r)
  /\ UNCHANGED <<temp, up>>

Write(r) ==
  /\ puts < MaxPuts /\ puts' = puts + 1
  /\ Size(r) <= MaxBytes
  /\ \A e \in entries : e.id # r.id
  /\ disk' = disk \cup {r}
  /\ entries' = entries \cup {r}
  /\ bytes' = bytes + Size(r)
  /\ UNCHANGED <<temp, up>>

\* Queue: without room it returns ErrSpoolCapacity before any change.
EnqueueRetained(r) ==
  /\ Ready
  /\ r.id \in Review
  /\ bytes + Size(r) <= MaxBytes
  /\ Stamp(r.at)
  /\ Write(r)
  /\ queued' = queued \cup {r.id}
  /\ UNCHANGED <<evicting, hand, accepted, evicted, unremoved>>

Enqueue(r) ==
  /\ Ready
  /\ r.id \in Evidence
  /\ Stamp(r.at)
  /\ Write(r)
  /\ evicting' = r.id
  /\ UNCHANGED <<hand, history>>

\* One turn of enforceQuota; over the quota there is always a victim, since a
\* record alone fits.
Evict ==
  /\ up /\ evicting # -1
  /\ bytes > MaxBytes
  /\ LET victim == Oldest({e \in entries : e.id # evicting}) IN
     /\ disk' = disk \ {victim}
     /\ entries' = entries \ {victim}
     /\ bytes' = bytes - Size(victim)
     /\ evicted' = evicted \cup {victim.id}
  /\ UNCHANGED <<temp, up, evicting, hand, bounds, queued, accepted, unremoved>>

QuotaEnforced ==
  /\ up /\ evicting # -1
  /\ bytes <= MaxBytes
  /\ evicting' = -1
  /\ unremoved' = FALSE
  /\ UNCHANGED <<disk, temp, entries, bytes, up, hand, bounds, queued, accepted, evicted>>

\* os.Remove fails: Enqueue reports an error although its record is stored; on
\* start the agent exits.
EvictFails ==
  /\ up /\ evicting # -1
  /\ bytes > MaxBytes
  /\ Fault
  /\ IF evicting = 0
     THEN up' = FALSE /\ entries' = {} /\ bytes' = 0
     ELSE UNCHANGED <<up, entries, bytes>>
  /\ evicting' = -1
  /\ unremoved' = TRUE
  /\ UNCHANGED <<disk, temp, hand, clock, puts, queued, accepted, evicted>>

--------------------------------------------------------------------------------
(***************************************************************************)
(* DeliverNext: NextPriority, the send, and Ack are three calls; only the  *)
(* first and the last hold the mutex.                                      *)
(***************************************************************************)
\* Mutant: the message is removed before it is sent.
NextPriority_Takes ==
  /\ Ready
  /\ hand = Empty
  /\ LET mine == {e \in entries : e.id \in Review} IN
     /\ mine # {}
     /\ hand' = [id |-> Oldest(mine).id, sent |-> FALSE]
     /\ entries' = entries \ {Oldest(mine)}
     /\ disk' = disk \ {Oldest(mine)}
     /\ bytes' = bytes - Size(Oldest(mine))
  /\ UNCHANGED <<temp, up, evicting, bounds, history>>

NextPriority ==
  /\ Ready
  /\ hand = Empty
  /\ LET mine == {e \in entries : e.id \in Review} IN
     /\ mine # {}
     /\ hand' = [id |-> Oldest(mine).id, sent |-> FALSE]
  /\ UNCHANGED <<spool, bounds, history>>

Send ==
  /\ up
  /\ hand # Empty /\ ~hand.sent
  /\ hand' = [hand EXCEPT !.sent = TRUE]
  /\ accepted' = accepted \cup {hand.id}
  /\ UNCHANGED <<spool, bounds, queued, evicted, unremoved>>

\* The sender reports an error; the receiver may have the event all the same.
SendFails ==
  /\ up
  /\ hand # Empty /\ ~hand.sent
  /\ Fault
  /\ hand' = Empty
  /\ accepted' \in {accepted, accepted \cup {hand.id}}
  /\ UNCHANGED <<spool, clock, puts, queued, evicted, unremoved>>

\* By id; an item evicted meanwhile is ErrSpoolItemNotFound.
Ack ==
  /\ Ready
  /\ hand.sent
  /\ LET gone == {e \in entries : e.id = hand.id} IN
     /\ entries' = entries \ gone
     /\ disk' = disk \ gone
     /\ bytes' = bytes - SumOf(gone)
  /\ hand' = Empty
  /\ UNCHANGED <<temp, up, evicting, bounds, history>>

AckFails ==
  /\ Ready
  /\ hand.sent
  /\ Fault
  /\ hand' = Empty
  /\ UNCHANGED <<spool, clock, puts, history>>

--------------------------------------------------------------------------------
\* A crash in writeSpoolFileAtomic leaves a temporary file behind.
Crash ==
  /\ up
  /\ Fault
  /\ up' = FALSE
  /\ temp' \in {temp, TRUE}
  /\ entries' = {} /\ bytes' = 0 /\ evicting' = -1
  /\ hand' = Empty
  /\ UNCHANGED <<disk, clock, puts, history>>

OneFilePerId == \A f, g \in disk : f.id = g.id => f = g

\* Mutant: the sizes found on disk are not added up.
Recover_NoBytes ==
  /\ ~up
  /\ OneFilePerId
  /\ up' = TRUE
  /\ temp' = FALSE
  /\ entries' = disk
  /\ evicting' = 0
  /\ UNCHANGED <<disk, bytes, hand, bounds, history>>

\* Mutant: an incomplete file is taken for corruption.
Recover_TempRefused ==
  /\ ~up /\ ~temp
  /\ OneFilePerId
  /\ up' = TRUE
  /\ entries' = disk
  /\ bytes' = SumOf(disk)
  /\ evicting' = 0
  /\ UNCHANGED <<disk, temp, hand, bounds, history>>

\* Mutant: the quota is not enforced on start.
Recover_NoQuota ==
  /\ ~up
  /\ OneFilePerId
  /\ up' = TRUE
  /\ temp' = FALSE
  /\ entries' = disk
  /\ bytes' = SumOf(disk)
  /\ evicting' = -1
  /\ UNCHANGED <<disk, hand, bounds, history>>

\* NewDurableSpool: recover, which fails on a duplicate id, and enforceQuota.
Recover ==
  /\ ~up
  /\ OneFilePerId
  /\ up' = TRUE
  /\ temp' = FALSE
  /\ entries' = disk
  /\ bytes' = SumOf(disk)
  /\ evicting' = 0
  /\ UNCHANGED <<disk, hand, bounds, history>>

Next ==
  \/ \E r \in Record : EnqueueRetained(r) \/ Enqueue(r)
  \/ Evict \/ QuotaEnforced \/ EvictFails
  \/ NextPriority \/ Send \/ SendFails \/ Ack \/ AckFails
  \/ Crash \/ Recover

\* The caller keeps calling DeliverNext and the service manager restarts the
\* agent; an operation that began goes on.
Fairness ==
  /\ WF_vars(Evict) /\ WF_vars(QuotaEnforced) /\ WF_vars(Recover)
  /\ WF_vars(NextPriority) /\ WF_vars(Send) /\ WF_vars(Ack)

Spec == Init /\ [][Next]_vars
FairSpec == Spec /\ Fairness

--------------------------------------------------------------------------------
TypeOK ==
  /\ disk \subseteq Record /\ entries \subseteq Record
  /\ temp \in BOOLEAN /\ up \in BOOLEAN
  /\ bytes \in Nat
  /\ evicting \in {-1, 0} \cup Evidence
  /\ hand \in [id : Review, sent : BOOLEAN] \cup {Empty}
  /\ clock \in 0 .. MaxPuts /\ puts \in 0 .. MaxPuts /\ faults \in 0 .. MaxFaults
  /\ queued \subseteq Review /\ accepted \subseteq Review /\ evicted \subseteq Items
  /\ unremoved \in BOOLEAN

\* While the agent runs, the index and its byte counter describe the directory,
\* whatever crashed or failed before.
IndexMatchesDisk == up => entries = disk /\ bytes = SumOf(disk)

\* A restart never finds two files of one id, which recover refuses: the agent
\* can always start again on what it wrote itself.
RestartPossible == OneFilePerId

\* An event that Queue accepted stays on disk until the receiver has it, unless
\* it was evicted.
QueuedIsKept ==
  \A i \in queued : i \in accepted \/ i \in evicted \/ \E f \in disk : f.id = i

\* Between operations the directory is within the quota, whatever crashed or
\* failed before, unless the last enforceQuota could not remove its victim: a
\* crash between a write and its evictions is made good on start, and so is a
\* failed removal.
WithinQuota == Ready /\ ~unremoved => bytes <= MaxBytes

\* Every queued review event reaches the receiver, or was evicted, whatever
\* crashed in between.
EventuallyAccepted ==
  \A i \in Review : i \in queued ~> (i \in accepted \/ i \in evicted)

\* "pending human-review metadata, which must not be silently displaced"
ReviewNotDisplaced == evicted \cap Review = {}
================================================================================
