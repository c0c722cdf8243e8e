---------------------------- MODULE EdgeSpoolProofs ----------------------------
(***************************************************************************)
(* Proofs about EdgeSpool, for any items, sizes of one or two units, quota *)
(* and numbers of writes and faults.                                       *)
(*                                                                         *)
(* The argument: the index is the directory while the agent runs, and a    *)
(* record is written only under an id the index does not have, so no id    *)
(* ever has two files and a restart succeeds.  The byte counter follows    *)
(* the directory file by file.  Every record fits the quota alone, so a    *)
(* turn of enforceQuota finds a victim other than the record it protects.  *)
(* A record leaves the directory only by eviction or by an Ack, and an Ack *)
(* follows an accepted send of the same id.                                *)
(***************************************************************************)
EXTENDS EdgeSpool, FiniteSetTheorems, NaturalsInduction, WellFoundedInduction, TLAPS

\* The provers each leaf is tried with in turn, unless it names one.
USE ZenonT(5), SMTT(20), ZenonT(40)

\* Nothing but the directory survives a stop.
Stopped == ~up => evicting = -1

\* Every record could be stored alone.
EachFits == IsFiniteSet(disk) /\ \A f \in disk : Size(f) <= MaxBytes

\* DeliverNext acknowledges only what the receiver has.
SentIsAccepted == hand.sent => hand.id \in accepted

IInv ==
  /\ TypeOK /\ Stopped /\ EachFits /\ SentIsAccepted
  /\ IndexMatchesDisk /\ RestartPossible /\ QueuedIsKept /\ WithinQuota

--------------------------------------------------------------------------------
(* Sizes *)

\* An empty directory takes no space.
LEMMA SumEmpty == SumOf({}) = 0
  <1>1. {r \in {} : Size(r) = 2} = {}
    OBVIOUS
  <1> QED
    BY <1>1, FS_EmptySet DEF SumOf

\* The sum of the sizes is a natural number.
LEMMA SumNat == ASSUME NEW S, IsFiniteSet(S) PROVE SumOf(S) \in Nat
  <1> DEFINE B == {r \in S : Size(r) = 2}
  <1>1. IsFiniteSet(B)
    BY FS_Subset
  <1>2. Cardinality(S) \in Nat /\ Cardinality(B) \in Nat
    BY <1>1, FS_CardinalityType
  <1> QED
    BY <1>2 DEF SumOf

\* A new file adds its size to the sum.
LEMMA SumAdd ==
  ASSUME NEW S, IsFiniteSet(S), NEW r, r \notin S
  PROVE  IsFiniteSet(S \cup {r}) /\ SumOf(S \cup {r}) = SumOf(S) + Size(r)
  <1> DEFINE B(T) == {s \in T : Size(s) = 2}
  <1>1. IsFiniteSet(S \cup {r}) /\ Cardinality(S \cup {r}) = Cardinality(S) + 1
    BY FS_AddElement
  <1>2. IsFiniteSet(B(S)) /\ r \notin B(S)
    BY FS_Subset
  <1>3. Cardinality(S) \in Nat /\ Cardinality(B(S)) \in Nat
    BY <1>2, FS_CardinalityType
  <1>4. /\ SumOf(S) = Cardinality(S) + Cardinality(B(S))
        /\ SumOf(S \cup {r}) = Cardinality(S \cup {r}) + Cardinality(B(S \cup {r}))
    BY DEF SumOf
  <1>5. CASE Size(r) = 2
    <2>1. B(S \cup {r}) = B(S) \cup {r}
      BY <1>5
    <2>2. Cardinality(B(S) \cup {r}) = Cardinality(B(S)) + 1
      BY <1>2, FS_AddElement
    <2> QED
      BY <1>1, <1>3, <1>5, <1>4, <2>1, <2>2
  <1>6. CASE Size(r) # 2
    <2>1. B(S \cup {r}) = B(S)
      BY <1>6
    <2>2. Size(r) = 1
      BY <1>6 DEF Size
    <2>3. SumOf(S \cup {r}) = (Cardinality(S) + 1) + Cardinality(B(S))
      BY <1>1, <1>4, <2>1
    <2> HIDE DEF B
    <2> QED
      BY <1>1, <1>3, <1>4, <2>2, <2>3
  <1> QED
    BY <1>5, <1>6

\* A removed file takes its size from the sum.
LEMMA SumRemove ==
  ASSUME NEW S, IsFiniteSet(S), NEW r \in S
  PROVE  IsFiniteSet(S \ {r}) /\ SumOf(S \ {r}) = SumOf(S) - Size(r)
  <1>1. IsFiniteSet(S \ {r}) /\ r \notin S \ {r}
    BY FS_RemoveElement
  <1>2. SumOf((S \ {r}) \cup {r}) = SumOf(S \ {r}) + Size(r)
    BY <1>1, SumAdd
  <1>3. (S \ {r}) \cup {r} = S
    OBVIOUS
  <1>4. SumOf(S) \in Nat /\ SumOf(S \ {r}) \in Nat /\ Size(r) \in Nat
    BY <1>1, SumNat DEF Size
  <1> QED
    BY <1>1, <1>2, <1>3, <1>4

\* A set of natural numbers that is not empty has a least member.
LEMMA Least ==
  ASSUME NEW S, S \subseteq Nat, S # {}
  PROVE  \E x \in S : \A y \in S : x <= y
  <1> DEFINE R == {p \in Nat \X Nat : p[1] < p[2]}
  <1>1. IsWellFoundedOn(R, Nat)
    BY NatLessThanWellFounded DEF OpToRel
  <1> HIDE DEF R
  <1>2. PICK x \in S : \A y \in S : ~ (<<y, x>> \in R)
    BY <1>1, WFMin
  <1>3. ASSUME NEW y \in S PROVE x <= y
    <2>1. x \in Nat /\ y \in Nat
      OBVIOUS
    <2>2. <<y, x>> \in R <=> y < x
      BY <2>1 DEF R
    <2> QED
      BY <1>2, <2>1, <2>2
  <1> QED
    BY <1>3

\* sortedEntries has a first element: ids are unique, so they break every tie.
LEMMA OldestExists ==
  ASSUME NEW S, S \subseteq Record, S # {}, \A r, s \in S : r.id = s.id => r = s
  PROVE  Oldest(S) \in S
  <1>1. \A r \in S : r.at \in Nat /\ r.id \in Nat
    BY SpoolAssumption DEF Record, Items
  <1> DEFINE times == {r.at : r \in S}
  <1>2. times \subseteq Nat /\ times # {}
    BY <1>1
  <1>3. PICK t \in times : \A u \in times : t <= u
    BY <1>2, Least
  <1> DEFINE first == {r \in S : r.at = t}
             ids == {r.id : r \in first}
  <1>4. ids \subseteq Nat /\ ids # {}
    BY <1>1
  <1>5. PICK i \in ids : \A j \in ids : i <= j
    BY <1>4, Least
  <1>6. PICK r \in first : r.id = i
    BY <1>5
  <1>7. ASSUME NEW s \in S \ {r} PROVE Older(r, s)
    <2>1. r \in S /\ s \in S /\ r.at = t /\ t <= s.at /\ r.id # s.id
      BY <1>3, <1>6, <1>7
    <2>2. r.at \in Nat /\ s.at \in Nat /\ r.id \in Nat /\ s.id \in Nat
      BY <1>1, <2>1
    <2>3. CASE s.at = t
      <3>1. s.id \in ids
        BY <2>1, <2>3
      <3>2. r.id <= s.id
        BY <1>5, <1>6, <3>1
      <3> QED
        BY <2>1, <2>2, <2>3, <3>2 DEF Older
    <2>4. CASE s.at # t
      BY <2>1, <2>2, <2>4 DEF Older
    <2> QED
      BY <2>3, <2>4
  <1>8. \E x \in S : \A s \in S \ {x} : Older(x, s)
    BY <1>6, <1>7
  <1> QED
    BY <1>8 DEF Oldest

--------------------------------------------------------------------------------
(* The invariant *)

\* An empty directory satisfies the invariant.
LEMMA InitIInv == Init => IInv
  <1> SUFFICES ASSUME Init PROVE IInv
    OBVIOUS
  <1>1. TypeOK
    <2>1. 0 \in 0 .. MaxPuts /\ 0 \in 0 .. MaxFaults
      BY SpoolAssumption
    <2> QED
      BY <2>1 DEF Init, TypeOK
  <1>2. EachFits /\ IndexMatchesDisk
    BY FS_EmptySet, SumEmpty DEF Init, EachFits, IndexMatchesDisk
  <1>3. Stopped /\ RestartPossible /\ QueuedIsKept
    BY DEF Init, Stopped, RestartPossible, OneFilePerId, QueuedIsKept
  <1>4. SentIsAccepted /\ WithinQuota
    BY SpoolAssumption DEF Init, SentIsAccepted, Empty, WithinQuota
  <1> QED
    BY <1>1, <1>2, <1>3, <1>4 DEF IInv

\* What a written record does to the directory, the index and the counter.
LEMMA Written ==
  ASSUME IInv, up, NEW r \in Record, Stamp(r.at), Write(r)
  PROVE  /\ disk' \subseteq Record /\ entries' = disk' /\ bytes' = SumOf(disk') /\ bytes' \in Nat
         /\ bytes' = bytes + Size(r)
         /\ temp' = temp /\ up' = up
         /\ clock' \in 0 .. MaxPuts /\ puts' \in 0 .. MaxPuts /\ faults' \in 0 .. MaxFaults
         /\ EachFits' /\ RestartPossible'
         /\ disk \subseteq disk' /\ \E f \in disk' : f.id = r.id
  <1>1. /\ disk \subseteq Record /\ entries = disk /\ bytes = SumOf(disk) /\ IsFiniteSet(disk)
        /\ \A f \in disk : f.id # r.id
    BY DEF IInv, TypeOK, IndexMatchesDisk, EachFits, Write
  <1>2. disk' = disk \cup {r} /\ entries' = disk' /\ bytes' = bytes + Size(r) /\ temp' = temp /\ up' = up
    BY <1>1 DEF Write
  <1>3. IsFiniteSet(disk') /\ SumOf(disk') = SumOf(disk) + Size(r)
    BY <1>1, <1>2, SumAdd
  <1>4. bytes' = SumOf(disk') /\ bytes' \in Nat
    BY <1>1, <1>2, <1>3, SumNat
  <1>5. EachFits'
    BY <1>2, <1>3 DEF IInv, EachFits, Write, Size
  <1>6. RestartPossible'
    BY <1>1, <1>2 DEF IInv, RestartPossible, OneFilePerId
  <1>7. clock' \in 0 .. MaxPuts
    BY DEF Stamp, Record
  <1>8. puts' \in 0 .. MaxPuts
    BY SpoolAssumption DEF IInv, TypeOK, Write
  <1>9. faults' \in 0 .. MaxFaults
    BY SpoolAssumption DEF IInv, TypeOK, Stamp, Fault
  <1> QED
    BY <1>1, <1>2, <1>4, <1>5, <1>6, <1>7, <1>8, <1>9

\* Queue stores a review event within the quota.
LEMMA QueueStep == ASSUME IInv, NEW r \in Record, EnqueueRetained(r) PROVE IInv'
  <1>1. up /\ Stamp(r.at) /\ Write(r) /\ r.id \in Review /\ bytes + Size(r) <= MaxBytes
    BY DEF EnqueueRetained, Ready
  <1>2. /\ queued' = queued \cup {r.id}
        /\ UNCHANGED <<evicting, hand, accepted, evicted, unremoved>>
    BY DEF EnqueueRetained
  <1>3. TypeOK'
    BY <1>1, <1>2, Written DEF IInv, TypeOK
  <1>4. EachFits' /\ RestartPossible' /\ IndexMatchesDisk'
    BY <1>1, Written DEF IndexMatchesDisk
  <1>5. QueuedIsKept'
    <2>1. disk \subseteq disk' /\ \E f \in disk' : f.id = r.id
      BY <1>1, Written
    <2> QED
      BY <1>2, <2>1 DEF IInv, QueuedIsKept
  <1>6. Stopped' /\ SentIsAccepted'
    BY <1>1, <1>2, Written DEF IInv, Stopped, SentIsAccepted
  <1>7. WithinQuota'
    BY <1>1, Written DEF WithinQuota
  <1> QED
    BY <1>3, <1>4, <1>5, <1>6, <1>7 DEF IInv

\* Enqueue stores evidence and starts to enforce the quota.
LEMMA EnqueueStep == ASSUME IInv, NEW r \in Record, Enqueue(r) PROVE IInv'
  <1>1. up /\ Stamp(r.at) /\ Write(r) /\ r.id \in Evidence
    BY DEF Enqueue, Ready
  <1>2. evicting' = r.id /\ UNCHANGED <<hand, queued, accepted, evicted, unremoved>>
    BY DEF Enqueue, history
  <1>3. evicting' # -1
    BY <1>1, <1>2, SpoolAssumption
  <1>4. TypeOK'
    BY <1>1, <1>2, Written DEF IInv, TypeOK
  <1>5. EachFits' /\ RestartPossible' /\ IndexMatchesDisk'
    BY <1>1, Written DEF IndexMatchesDisk
  <1>6. QueuedIsKept'
    <2>1. disk \subseteq disk'
      BY <1>1, Written
    <2> QED
      BY <1>2, <2>1 DEF IInv, QueuedIsKept
  <1>7. Stopped' /\ SentIsAccepted' /\ WithinQuota'
    BY <1>1, <1>2, <1>3, Written DEF IInv, Stopped, SentIsAccepted, WithinQuota, Ready
  <1> QED
    BY <1>4, <1>5, <1>6, <1>7 DEF IInv

\* The removal of one file, by eviction or by Ack.
LEMMA Removed ==
  ASSUME IInv, up, NEW f \in disk, disk' = disk \ {f}, entries' = entries \ {f},
         bytes' = bytes - Size(f), up' = up
  PROVE  /\ disk' \subseteq Record /\ entries' \subseteq Record /\ bytes' \in Nat /\ bytes' <= bytes
         /\ EachFits' /\ RestartPossible' /\ IndexMatchesDisk'
  <1>1. disk \subseteq Record /\ entries = disk /\ bytes = SumOf(disk) /\ IsFiniteSet(disk)
    BY DEF IInv, TypeOK, IndexMatchesDisk, EachFits
  <1>2. IsFiniteSet(disk') /\ SumOf(disk') = SumOf(disk) - Size(f)
    BY <1>1, SumRemove
  <1>3. SumOf(disk') \in Nat /\ SumOf(disk) \in Nat /\ Size(f) \in Nat
    BY <1>1, <1>2, SumNat DEF Size
  <1>4. bytes' = SumOf(disk') /\ bytes' <= bytes
    BY <1>1, <1>2, <1>3
  <1>5. EachFits'
    BY <1>2 DEF IInv, EachFits, Size
  <1>6. RestartPossible'
    BY DEF IInv, RestartPossible, OneFilePerId
  <1> QED
    BY <1>1, <1>3, <1>4, <1>5, <1>6 DEF IndexMatchesDisk

\* Over the quota, enforceQuota finds a victim in the directory.
LEMMA VictimExists ==
  ASSUME IInv, up, bytes > MaxBytes
  PROVE  Oldest({e \in entries : e.id # evicting}) \in disk
  <1> DEFINE others == {e \in entries : e.id # evicting}
  <1>1. /\ disk \subseteq Record /\ entries = disk /\ bytes = SumOf(disk) /\ IsFiniteSet(disk)
        /\ \A f, g \in disk : f.id = g.id => f = g
    BY DEF IInv, TypeOK, IndexMatchesDisk, EachFits, RestartPossible, OneFilePerId
  <1>2. others # {}
    <2> SUFFICES ASSUME others = {} PROVE FALSE
      OBVIOUS
    <2>1. disk # {}
      BY <1>1, SumEmpty, SpoolAssumption
    <2>2. PICK f : f \in disk
      BY <2>1
    <2>3. disk \ {f} = {}
      BY <1>1, <2>2
    <2>4. SumOf(disk \ {f}) = SumOf(disk) - Size(f)
      BY <1>1, <2>2, SumRemove
    <2>5. SumOf(disk) \in Nat /\ Size(f) \in Nat
      BY <1>1, SumNat DEF Size
    <2>6. bytes = Size(f)
      BY <1>1, <2>3, <2>4, <2>5, SumEmpty
    <2>7. Size(f) <= MaxBytes
      BY <2>2 DEF IInv, EachFits
    <2> QED
      BY <2>5, <2>6, <2>7, SpoolAssumption
  <1>3. others \subseteq Record /\ \A r, s \in others : r.id = s.id => r = s
    BY <1>1
  <1>4. Oldest(others) \in others
    BY <1>2, <1>3, OldestExists
  <1> QED
    BY <1>1, <1>4

\* One turn of enforceQuota, its end, and its failure.
LEMMA QuotaStep == ASSUME IInv, Evict \/ QuotaEnforced \/ EvictFails PROVE IInv'
  <1>1. CASE Evict
    <2> DEFINE victim == Oldest({e \in entries : e.id # evicting})
    <2>1. /\ up /\ bytes > MaxBytes /\ evicting # -1
          /\ disk' = disk \ {victim} /\ entries' = entries \ {victim}
          /\ bytes' = bytes - Size(victim) /\ evicted' = evicted \cup {victim.id}
          /\ UNCHANGED <<temp, up, evicting, hand, clock, puts, faults, queued, accepted, unremoved>>
      BY <1>1 DEF Evict, bounds
    <2>2. victim \in disk
      BY <2>1, VictimExists
    <2> HIDE DEF victim
    <2>3. /\ disk' \subseteq Record /\ entries' \subseteq Record /\ bytes' \in Nat
          /\ EachFits' /\ RestartPossible' /\ IndexMatchesDisk'
      BY <2>1, <2>2, Removed
    <2>4. victim.id \in Items
      BY <2>2 DEF IInv, TypeOK, Record
    <2>5. TypeOK'
      BY <2>1, <2>3, <2>4 DEF IInv, TypeOK
    <2>6. QueuedIsKept'
      BY <2>1 DEF IInv, QueuedIsKept
    <2>7. Stopped' /\ SentIsAccepted' /\ WithinQuota'
      BY <2>1 DEF IInv, Stopped, SentIsAccepted, WithinQuota, Ready
    <2> QED
      BY <2>3, <2>5, <2>6, <2>7 DEF IInv
  <1>2. CASE QuotaEnforced
    <2>1. /\ bytes <= MaxBytes /\ evicting' = -1 /\ unremoved' = FALSE
          /\ UNCHANGED <<disk, temp, entries, bytes, up, hand, clock, puts, faults, queued, accepted, evicted>>
      BY <1>2 DEF QuotaEnforced, bounds
    <2>2. TypeOK'
      BY <2>1 DEF IInv, TypeOK
    <2> QED
      BY <2>1, <2>2 DEF IInv, Stopped, EachFits, SentIsAccepted, IndexMatchesDisk, RestartPossible,
         OneFilePerId, QueuedIsKept, WithinQuota
  <1>3. CASE EvictFails
    <2>1. /\ evicting' = -1 /\ unremoved' = TRUE /\ faults < MaxFaults /\ faults' = faults + 1
          /\ UNCHANGED <<disk, temp, hand, clock, puts, queued, accepted, evicted>>
          /\ \/ up' = FALSE /\ entries' = {} /\ bytes' = 0
             \/ UNCHANGED <<up, entries, bytes>>
      BY <1>3 DEF EvictFails, Fault
    <2>2. faults' \in 0 .. MaxFaults
      BY <2>1, SpoolAssumption DEF IInv, TypeOK
    <2>3. up' \in BOOLEAN /\ entries' \subseteq Record /\ bytes' \in Nat
      <3>1. up \in BOOLEAN /\ entries \subseteq Record /\ bytes \in Nat
        BY DEF IInv, TypeOK
      <3>2. CASE up' = FALSE /\ entries' = {} /\ bytes' = 0
        BY <3>2
      <3>3. CASE UNCHANGED <<up, entries, bytes>>
        BY <3>1, <3>3
      <3> QED
        BY <2>1, <3>2, <3>3
    <2>4. TypeOK'
      BY <2>1, <2>2, <2>3 DEF IInv, TypeOK
    <2> QED
      BY <2>1, <2>2, <2>4 DEF IInv, Stopped, EachFits, SentIsAccepted, IndexMatchesDisk, RestartPossible,
         OneFilePerId, QueuedIsKept, WithinQuota
  <1> QED
    BY <1>1, <1>2, <1>3

\* DeliverNext takes a review event and sends it.
LEMMA SendStep == ASSUME IInv, NextPriority \/ Send \/ SendFails \/ AckFails PROVE IInv'
  <1>1. UNCHANGED <<disk, temp, entries, bytes, up, evicting, clock, puts, queued, evicted, unremoved>>
    BY DEF NextPriority, Send, SendFails, AckFails, spool, bounds, history
  <1>2. Stopped' /\ EachFits' /\ IndexMatchesDisk' /\ RestartPossible'
    BY <1>1 DEF IInv, Stopped, EachFits, IndexMatchesDisk, RestartPossible, OneFilePerId
  <1>3. faults' \in 0 .. MaxFaults
    BY SpoolAssumption DEF IInv, TypeOK, NextPriority, Send, SendFails, AckFails, bounds, Fault
  <1>4. WithinQuota'
    BY <1>1 DEF IInv, WithinQuota, Ready
  <1>5. ASSUME hand' \in [id : Review, sent : BOOLEAN] \cup {Empty}, accepted' \subseteq Review,
               accepted \subseteq accepted', SentIsAccepted'
        PROVE  IInv'
    <2>1. TypeOK'
      BY <1>1, <1>3, <1>5 DEF IInv, TypeOK
    <2>2. QueuedIsKept'
      BY <1>1, <1>5 DEF IInv, QueuedIsKept
    <2> QED
      BY <1>2, <1>4, <1>5, <2>1, <2>2 DEF IInv
  <1>6. accepted \subseteq Review /\ hand \in [id : Review, sent : BOOLEAN] \cup {Empty}
    BY DEF IInv, TypeOK
  <1>7. CASE NextPriority
    <2> DEFINE mine == {e \in entries : e.id \in Review}
    <2>1. up /\ mine # {} /\ hand' = [id |-> Oldest(mine).id, sent |-> FALSE] /\ accepted' = accepted
      BY <1>7 DEF NextPriority, Ready, history
    <2>2. mine \subseteq Record /\ \A r, s \in mine : r.id = s.id => r = s
      BY <2>1 DEF IInv, TypeOK, IndexMatchesDisk, RestartPossible, OneFilePerId
    <2>3. Oldest(mine) \in mine
      BY <2>1, <2>2, OldestExists
    <2>4. hand' \in [id : Review, sent : BOOLEAN] /\ ~ hand'.sent
      BY <2>1, <2>3
    <2> QED
      BY <1>5, <1>6, <2>1, <2>4 DEF SentIsAccepted
  <1>8. CASE Send
    <2>1. hand # Empty /\ hand' = [hand EXCEPT !.sent = TRUE] /\ accepted' = accepted \cup {hand.id}
      BY <1>8 DEF Send
    <2>2. hand \in [id : Review, sent : BOOLEAN]
      BY <1>6, <2>1
    <2>3. hand' \in [id : Review, sent : BOOLEAN] /\ hand'.id = hand.id /\ hand.id \in Review
      BY <2>1, <2>2
    <2> QED
      BY <1>5, <1>6, <2>1, <2>3 DEF SentIsAccepted
  <1>9. CASE SendFails
    <2>1. hand # Empty /\ hand' = Empty /\ accepted' \in {accepted, accepted \cup {hand.id}}
      BY <1>9 DEF SendFails
    <2>2. hand.id \in Review
      BY <1>6, <2>1
    <2>3. SentIsAccepted'
      BY <2>1 DEF SentIsAccepted, Empty
    <2> QED
      BY <1>5, <1>6, <2>1, <2>2, <2>3
  <1>10. CASE AckFails
    <2>1. hand' = Empty /\ accepted' = accepted
      BY <1>10 DEF AckFails, history
    <2>2. SentIsAccepted'
      BY <2>1 DEF SentIsAccepted, Empty
    <2> QED
      BY <1>5, <1>6, <2>1, <2>2
  <1> QED
    BY <1>7, <1>8, <1>9, <1>10

\* Ack removes the record of an event the receiver has, if it is still there.
LEMMA AckStep == ASSUME IInv, Ack PROVE IInv'
  <1> DEFINE gone == {e \in entries : e.id = hand.id}
  <1>1. /\ up /\ hand.sent /\ hand' = Empty
        /\ entries' = entries \ gone /\ disk' = disk \ gone /\ bytes' = bytes - SumOf(gone)
        /\ UNCHANGED <<temp, up, evicting, clock, puts, faults, queued, accepted, evicted, unremoved>>
    BY DEF Ack, Ready, bounds, history
  <1>2. entries = disk /\ bytes \in Nat /\ hand.id \in accepted
    BY <1>1 DEF IInv, IndexMatchesDisk, TypeOK, SentIsAccepted
  <1>3. /\ disk' \subseteq Record /\ entries' \subseteq Record /\ bytes' \in Nat /\ bytes' <= bytes
        /\ EachFits' /\ RestartPossible' /\ IndexMatchesDisk'
    <2>1. CASE gone = {}
      <3> HIDE DEF gone
      <3>1. UNCHANGED <<disk, entries, bytes>>
        <4>1. SumOf(gone) = 0
          BY <2>1, SumEmpty
        <4>2. bytes' = bytes
          BY <4>1, <1>1, <1>2
        <4>3. entries' = entries /\ disk' = disk
          BY <1>1, <2>1
        <4> QED
          BY <4>2, <4>3
      <3>2. disk' \subseteq Record /\ entries' \subseteq Record /\ bytes' \in Nat /\ bytes' <= bytes
        BY <3>1 DEF IInv, TypeOK
      <3>3. EachFits' /\ RestartPossible' /\ IndexMatchesDisk'
        BY <1>1, <3>1 DEF IInv, EachFits, RestartPossible, OneFilePerId, IndexMatchesDisk
      <3> QED
        BY <3>2, <3>3
    <2>2. CASE gone # {}
      <3>1. PICK f : f \in gone
        BY <2>2
      <3>2. gone = {f} /\ f \in disk
        BY <1>2, <3>1 DEF IInv, RestartPossible, OneFilePerId
      <3>3. SumOf(gone) = Size(f)
        <4>1. IsFiniteSet({}) /\ f \notin {}
          BY FS_EmptySet
        <4>2. SumOf({} \cup {f}) = SumOf({}) + Size(f)
          BY <4>1, SumAdd
        <4>3. SumOf({} \cup {f}) = Size(f)
          BY <4>2, SumEmpty DEF Size
        <4>4. {} \cup {f} = gone
          BY <3>2
        <4> HIDE DEF gone
        <4> QED
          BY <4>3, <4>4
      <3>4. disk' = disk \ {f} /\ entries' = entries \ {f} /\ bytes' = bytes - Size(f)
        BY <1>1, <3>2, <3>3
      <3> QED
        BY <1>1, <3>2, <3>4, Removed
    <2> QED
      BY <2>1, <2>2
  <1>4. TypeOK'
    BY <1>1, <1>3 DEF IInv, TypeOK
  <1>5. QueuedIsKept'
    <2> SUFFICES ASSUME NEW i \in queued
                 PROVE  i \in accepted \/ i \in evicted \/ \E f \in disk' : f.id = i
      BY <1>1 DEF QueuedIsKept
    <2>1. CASE i = hand.id
      BY <1>2, <2>1
    <2>2. CASE i # hand.id
      BY <1>1, <2>2 DEF IInv, QueuedIsKept
    <2> QED
      BY <2>1, <2>2
  <1>6. Stopped' /\ SentIsAccepted'
    BY <1>1 DEF IInv, Stopped, SentIsAccepted, Empty
  <1>7. WithinQuota'
    BY <1>1, <1>2, <1>3, SpoolAssumption DEF IInv, WithinQuota, Ready
  <1> QED
    BY <1>3, <1>4, <1>5, <1>6, <1>7 DEF IInv

\* A crash leaves the directory, and NewDurableSpool rebuilds the index from it.
LEMMA RestartStep == ASSUME IInv, Crash \/ Recover PROVE IInv'
  <1>1. CASE Crash
    <2>1. /\ up' = FALSE /\ temp' \in BOOLEAN /\ entries' = {} /\ bytes' = 0 /\ evicting' = -1 /\ hand' = Empty
          /\ UNCHANGED <<disk, clock, puts, queued, accepted, evicted, unremoved>>
      BY <1>1 DEF Crash, history, IInv, TypeOK
    <2>2. faults' \in 0 .. MaxFaults
      BY <1>1, SpoolAssumption DEF Crash, Fault, IInv, TypeOK
    <2>3. TypeOK'
      BY <2>1, <2>2 DEF IInv, TypeOK
    <2> QED
      BY <2>1, <2>3 DEF IInv, Stopped, EachFits, SentIsAccepted, Empty, IndexMatchesDisk, RestartPossible,
         OneFilePerId, QueuedIsKept, WithinQuota, Ready
  <1>2. CASE Recover
    <2>1. /\ up' = TRUE /\ temp' = FALSE /\ entries' = disk /\ bytes' = SumOf(disk) /\ evicting' = 0
          /\ UNCHANGED <<disk, hand, clock, puts, faults, queued, accepted, evicted, unremoved>>
      BY <1>2 DEF Recover, bounds, history
    <2>2. bytes' \in Nat
      BY <2>1, SumNat DEF IInv, EachFits
    <2>3. TypeOK'
      BY <2>1, <2>2 DEF IInv, TypeOK
    <2>4. evicting' # -1
      BY <2>1
    <2> QED
      BY <2>1, <2>3, <2>4 DEF IInv, Stopped, EachFits, SentIsAccepted, IndexMatchesDisk, RestartPossible,
         OneFilePerId, QueuedIsKept, WithinQuota, Ready
  <1> QED
    BY <1>1, <1>2

\* The invariant is inductive.
LEMMA StepIInv == IInv /\ [Next]_vars => IInv'
  <1> SUFFICES ASSUME IInv, [Next]_vars PROVE IInv'
    OBVIOUS
  <1>1. CASE UNCHANGED vars
    <2>1. UNCHANGED <<disk, temp, entries, bytes, up, evicting, hand, clock, puts, faults, queued, accepted, evicted, unremoved>>
      BY <1>1 DEF vars, spool, bounds, history
    <2>2. TypeOK'
      BY <2>1 DEF IInv, TypeOK
    <2> QED
      BY <2>1, <2>2 DEF IInv, Stopped, EachFits, SentIsAccepted, IndexMatchesDisk, RestartPossible,
         OneFilePerId, QueuedIsKept, WithinQuota, Ready
  <1> QED
    BY <1>1, QueueStep, EnqueueStep, QuotaStep, SendStep, AckStep, RestartStep DEF Next

\* Whatever the constants, the invariant holds in every reachable state.
THEOREM Invariance == Spec => []IInv
  BY InitIInv, StepIInv, PTL DEF Spec

\* Every variable keeps its type: the byte counter, in particular, never becomes
\* negative, and DeliverNext never takes anything but a review event.
THEOREM TypeCorrect == Spec => []TypeOK
  <1>1. IInv => TypeOK
    BY DEF IInv
  <1> QED
    BY <1>1, Invariance, PTL

\* The index and metrics.Bytes describe the directory whenever the agent runs.
THEOREM IndexCorrect == Spec => []IndexMatchesDisk
  <1>1. IInv => IndexMatchesDisk
    BY DEF IInv
  <1> QED
    BY <1>1, Invariance, PTL

\* recover never meets a duplicate id in a directory the agent wrote itself.
THEOREM CanRestart == Spec => []RestartPossible
  <1>1. IInv => RestartPossible
    BY DEF IInv
  <1> QED
    BY <1>1, Invariance, PTL

\* What Queue accepted stays on disk until the receiver has it or it is evicted.
THEOREM KeepsQueued == Spec => []QueuedIsKept
  <1>1. IInv => QueuedIsKept
    BY DEF IInv
  <1> QED
    BY <1>1, Invariance, PTL

\* Between operations the directory is within the quota, across crashes and
\* failures, unless the last enforceQuota could not remove its victim.
THEOREM KeepsQuota == Spec => []WithinQuota
  <1>1. IInv => WithinQuota
    BY DEF IInv
  <1> QED
    BY <1>1, Invariance, PTL

\* enforceQuota always has a record to evict that it does not protect, so it
\* ends within the quota unless a removal fails.
THEOREM EvictionProceeds ==
  Spec => [](up /\ bytes > MaxBytes => Oldest({e \in entries : e.id # evicting}) \in disk)
  <1>1. IInv => (up /\ bytes > MaxBytes => Oldest({e \in entries : e.id # evicting}) \in disk)
    BY VictimExists
  <1> QED
    BY <1>1, Invariance, PTL
================================================================================
