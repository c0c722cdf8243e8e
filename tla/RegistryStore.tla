----------------------------- MODULE RegistryStore -----------------------------
(***************************************************************************)
(* The repositories of sites, cameras, zones and edge devices over         *)
(* Postgres: the requests of one tenant as concurrent transactions.        *)
(*                                                                         *)
(* A creation takes the advisory lock of its idempotency key, looks the    *)
(* key up, inserts the row (and waits while another transaction has        *)
(* inserted the same serial number), appends to the audit chain of the day *)
(* under the chain's advisory lock, and commits.  An update reads its row  *)
(* FOR UPDATE, checks the version it was given and writes all fields.      *)
(* A zone that names a camera waits, by its foreign key, for a change of   *)
(* that camera, and keeps others from making one.  Locks are held to the   *)
(* end of the transaction.  Both advisory locks are named tenant:text, so  *)
(* a key spelled like the date (Today) is the lock of the chain as well.   *)
(*                                                                         *)
(* Any transaction may be broken off, and the answer to any commit lost;   *)
(* a client then sends the command again.  One day is modelled.            *)
(***************************************************************************)
EXTENDS Naturals, Sequences, FiniteSets

CONSTANTS Clients, Commands, Keys, Names, Labels, None,
          Today,     \* the lock name of today's audit chain; may be in Keys
          MaxCalls,  \* bound on requests
          MaxAged,   \* bound on the rows that become older than 24 hours
          MaxFaults  \* bound on broken transactions and lost answers

VARIABLES
  rows,    \* committed rows of config.sites, cameras, zones and edge_devices
  old,     \* numbers of the rows whose key and claim have passed expires_at
  call,    \* call[c]: the command of the request, or None
  answer,  \* answer[c]: the HTTP answer, or None
  keys,    \* platform.idempotency_keys: keys[k] is a row number, 0 if absent
  chain,   \* audit.events of the tenant and day
  pc,      \* pc[c]: where request c stands
  locks,   \* locks[c]: the locks its transaction holds
  work,    \* work[c]: what the transaction has read and written
  calls, faults

store == <<rows, old, keys, chain>>
vars == <<rows, old, call, answer, keys, chain, pc, locks, work, calls, faults>>

Promise == INSTANCE Registry

Row == Promise!Row
Creation == Promise!Creation
Edit == Promise!Edit

\* A zone has no lifecycle status, and nothing but a zone has a camera: a body
\* that names one is not decoded.
ASSUME CommandsAssumption ==
  /\ Commands \subseteq Creation \cup Edit
  /\ \A cmd \in Commands \cap Creation : cmd.kind # "zone" => cmd.camera = 0
  /\ \A cmd \in Commands \cap Edit : cmd.op = "updateZone" => cmd.status = None
  /\ None \notin Labels /\ None \notin Commands /\ None \notin Row
  /\ None \notin Promise!Answers \cup {"pending", "offline"}

ASSUME BoundsAssumption == {MaxCalls, MaxAged, MaxFaults} \subseteq Nat

\* id is 0 for a row that is being created, before is None if the audit event has
\* no before state, head is the chain's length when the transaction read its head.
Work == [id : Nat, before : Row \cup {None}, after : Row \cup {None}, head : Nat]
NoWork == [id |-> 0, before |-> None, after |-> None, head |-> 0]

Init ==
  /\ Promise!Init
  /\ keys = [k \in Keys |-> 0]
  /\ chain = << >>
  /\ pc = [c \in Clients |-> "idle"]
  /\ locks = [c \in Clients |-> {}]
  /\ work = [c \in Clients |-> NoWork]
  /\ calls = 0
  /\ faults = 0

Fault == faults < MaxFaults /\ faults' = faults + 1

Free(c, lock) == \A d \in Clients \ {c} : lock \notin locks[d]
RowLock(i) == <<"row", i>>

--------------------------------------------------------------------------------
(* Requests and their end *)

Arrive(c, cmd) ==
  /\ calls < MaxCalls
  /\ calls' = calls + 1
  /\ call[c] = None
  /\ call' = [call EXCEPT ![c] = cmd]
  /\ pc' = [pc EXCEPT ![c] = "arrived"]
  /\ UNCHANGED <<store, answer, locks, work, faults>>

\* Mutant: a refused transaction is not rolled back, and keeps its locks.
Finish_NoRollback(c, a) ==
  /\ answer' = [answer EXCEPT ![c] = a]
  /\ pc' = [pc EXCEPT ![c] = "done"]
  /\ locks' = [locks EXCEPT ![c] = IF a = "conflict" THEN @ ELSE {}]
  /\ work' = [work EXCEPT ![c] = NoWork]

\* The transaction ends, its locks are released and the request is answered.
Finish(c, a) ==
  /\ answer' = [answer EXCEPT ![c] = a]
  /\ pc' = [pc EXCEPT ![c] = "done"]
  /\ locks' = [locks EXCEPT ![c] = {}]
  /\ work' = [work EXCEPT ![c] = NoWork]

Return(c) ==
  /\ pc[c] = "done"
  /\ call' = [call EXCEPT ![c] = None]
  /\ answer' = [answer EXCEPT ![c] = None]
  /\ pc' = [pc EXCEPT ![c] = "idle"]
  /\ UNCHANGED <<store, locks, work, calls, faults>>

\* The transaction goes on with one more lock.
Continue(c, step, lock, w) ==
  /\ pc' = [pc EXCEPT ![c] = step]
  /\ locks' = [locks EXCEPT ![c] = @ \cup {lock}]
  /\ work' = [work EXCEPT ![c] = w]
  /\ UNCHANGED answer

\* The connection breaks or the context ends before the commit is sent.
Broken(c) ==
  /\ pc[c] \in {"arrived", "begin", "insert", "audit", "commit"}
  /\ Fault
  /\ Finish(c, "unavailable")
  /\ UNCHANGED <<store, call, calls>>

--------------------------------------------------------------------------------
(* The handlers, up to the call of the repository *)

Target(c, kind) == call[c].id \in Promise!OfKind(kind)
Live(c) == Target(c, "camera") /\ rows[call[c].id].status # "retired"

\* The principal, the site, a header or the body is not accepted; or the handler
\* finds what the request is about, and calls the repository.
Handle(c, found) ==
  /\ pc[c] = "arrived"
  /\ \/ Finish(c, "rejected")
     \/ ~ found /\ Finish(c, "notFound")
     \/ found /\ pc' = [pc EXCEPT ![c] = "begin"] /\ UNCHANGED <<answer, locks, work>>
  /\ UNCHANGED <<store, call, calls, faults>>

createSite(c) == Promise!Creates(c, "site") /\ Handle(c, TRUE)
createCamera(c) == Promise!Creates(c, "camera") /\ Handle(c, TRUE)
createZone(c) == Promise!Creates(c, "zone") /\ Handle(c, TRUE)
issueDeviceClaim(c) == Promise!Creates(c, "device") /\ Handle(c, TRUE)
activateDevice(c) == Promise!Edits(c, "activate") /\ Handle(c, TRUE)

\* The camera or zone is read first, without a lock: it decides who may edit it.
updateCamera(c) == Promise!Edits(c, "updateCamera") /\ Handle(c, Live(c))
retireCamera(c) == Promise!Edits(c, "retire") /\ Handle(c, Live(c))
updateZone(c) == Promise!Edits(c, "updateZone") /\ Handle(c, Target(c, "zone"))

--------------------------------------------------------------------------------
(* Creation *)

\* Mutant: the key is looked up without its advisory lock.
LookUp_NoLock(c) ==
  LET cmd == call[c]
      i == keys[cmd.key] IN
  /\ pc[c] = "begin" /\ cmd.op = "create"
  /\ IF i # 0 /\ i \notin old
       THEN Finish(c, IF Promise!Same(i, cmd) THEN "replayed" ELSE "conflict")
       ELSE IF cmd.kind # "site" /\ Promise!OfKind("site") = {}
              THEN Finish(c, "notFound")
              ELSE pc' = [pc EXCEPT ![c] = "insert"] /\ UNCHANGED <<answer, locks, work>>
  /\ UNCHANGED <<store, call, calls, faults>>

\* Lock the key, delete it if it has expired, look it up, and look for the site.
LookUp(c) ==
  LET cmd == call[c]
      i == keys[cmd.key] IN
  /\ pc[c] = "begin" /\ cmd.op = "create"
  /\ Free(c, cmd.key)
  /\ IF i # 0 /\ i \notin old
       THEN Finish(c, IF Promise!Same(i, cmd) THEN "replayed" ELSE "conflict")
       ELSE IF cmd.kind # "site" /\ Promise!OfKind("site") = {}
              THEN Finish(c, "notFound")
              ELSE Continue(c, "insert", cmd.key, NoWork)
  /\ UNCHANGED <<store, call, calls, faults>>

\* The creations whose rows are written and not committed.
Uncommitted == {d \in Clients : pc[d] \in {"audit", "commit"} /\ call[d].op = "create"}
SameName(c, d) == call[d].kind = call[c].kind /\ call[d].name = call[c].name

\* c's row collides in the unique index with one that d has not committed.
WaitsForName(c, d) == d \in Uncommitted \ {c} /\ SameName(c, d)
WaitsForKey(c, d) == d \in Uncommitted \ {c} /\ call[d].key = call[c].key

\* The row and the key are inserted.  A key that is stored by now is an error.
Written(c, status) ==
  IF keys[call[c].key] \notin old \cup {0}
    THEN Finish(c, "unavailable")
    ELSE /\ pc' = [pc EXCEPT ![c] = "audit"]
         /\ work' = [work EXCEPT ![c].after = Promise!NewRow(call[c], status)]
         /\ UNCHANGED <<answer, locks>>

\* The unique index refuses a name that is committed, and waits for one that is not.
InsertUnique(c, kind, status) ==
  /\ pc[c] = "insert" /\ call[c].kind = kind
  /\ \A d \in Clients : ~ WaitsForKey(c, d) /\ ~ WaitsForName(c, d)
  /\ IF Promise!Taken(call[c]) THEN Finish(c, "conflict") ELSE Written(c, status)
  /\ UNCHANGED <<store, call, calls, faults>>

CreateSite(c) == InsertUnique(c, "site", "provisioning")
CreateCamera(c) == InsertUnique(c, "camera", "pending")
IssueClaim(c) == InsertUnique(c, "device", "pending")

\* The foreign key of a zone reads its camera FOR KEY SHARE, so it waits for a
\* transaction that reads or has written the camera FOR UPDATE.
NamesCamera(c) == call[c].camera \in Promise!OfKind("camera")
WaitsForCamera(c, d) == d # c /\ NamesCamera(c) /\ RowLock(call[c].camera) \in locks[d]

\* The camera a zone creation names is not there.  The violation of the foreign
\* key is not told from other errors of the database.
Dangling(c) == call[c].op = "create" /\ call[c].camera # 0 /\ ~ NamesCamera(c)

\* A zone's name is not unique.
CreateZone(c) ==
  /\ pc[c] = "insert" /\ call[c].kind = "zone"
  /\ \A d \in Clients : ~ WaitsForKey(c, d) /\ ~ WaitsForCamera(c, d)
  /\ IF Dangling(c) THEN Finish(c, "unavailable") ELSE Written(c, "enabled")
  /\ UNCHANGED <<store, call, calls, faults>>

--------------------------------------------------------------------------------
(* Update, retirement, activation: one transaction that reads its row FOR UPDATE *)

\* The operation op, whose transaction has waited for the lock of the row, and for
\* the zones being created that refer to it.
Reads(c, op) ==
  /\ pc[c] = "begin" /\ call[c].op = op
  /\ Free(c, RowLock(call[c].id))
  /\ \A d \in Uncommitted : call[d].camera # call[c].id
  /\ UNCHANGED <<store, call, calls, faults>>

\* The row that was read is overwritten by next, unless that is no change.
Writes(c, before, next) ==
  LET i == call[c].id IN
  IF next = rows[i]
    THEN Finish(c, "done")
    ELSE Continue(c, "audit", RowLock(i), [id |-> i, before |-> before, after |-> next, head |-> 0])

\* Mutant: the version the client has seen is not compared.
UpdateCamera_AnyVersion(c) ==
  LET row == rows[call[c].id] IN
  /\ Reads(c, "updateCamera")
  /\ IF ~ Live(c) THEN Finish(c, "notFound")
     ELSE IF ~ Promise!canTransition(row.status, Promise!Or(call[c].status, row.status))
       THEN Finish(c, "conflict")
       ELSE Writes(c, row, Promise!applyUpdate(row, call[c]))

UpdateCamera(c) ==
  LET row == rows[call[c].id] IN
  /\ Reads(c, "updateCamera")
  /\ IF ~ Live(c) THEN Finish(c, "notFound")
     ELSE IF \/ row.version # call[c].version
             \/ ~ Promise!canTransition(row.status, Promise!Or(call[c].status, row.status))
       THEN Finish(c, "conflict")
       ELSE Writes(c, row, Promise!applyUpdate(row, call[c]))

UpdateZone(c) ==
  LET row == rows[call[c].id] IN
  /\ Reads(c, "updateZone")
  /\ IF ~ Target(c, "zone") THEN Finish(c, "notFound")
     ELSE IF row.version # call[c].version THEN Finish(c, "conflict")
     ELSE Writes(c, row, Promise!applyUpdate(row, call[c]))

RetireCamera(c) ==
  LET row == rows[call[c].id] IN
  /\ Reads(c, "retire")
  /\ IF ~ Target(c, "camera") THEN Finish(c, "notFound")
     ELSE IF row.status = "retired" THEN Finish(c, "done")
     ELSE Writes(c, row, [row EXCEPT !.status = "retired", !.version = @ + 1])

\* The device and its claim are read together; the event has no before state.
Activate(c) ==
  LET row == rows[call[c].id] IN
  /\ Reads(c, "activate")
  /\ IF ~ Target(c, "device") \/ row.status # "pending" \/ call[c].id \in old
       THEN Finish(c, "unauthorized")
       ELSE Writes(c, None, [row EXCEPT !.status = "active"])

--------------------------------------------------------------------------------
(* The audit chain, and the commit *)

\* Mutant: the head of the chain is read without the lock of the chain.
AppendAudit_NoLock(c) ==
  /\ pc[c] = "audit"
  /\ pc' = [pc EXCEPT ![c] = "commit"]
  /\ work' = [work EXCEPT ![c].head = Len(chain)]
  /\ UNCHANGED <<store, call, answer, locks, calls, faults>>

\* audit.Append: lock the chain of the day and read its head.
AppendAudit(c) ==
  /\ pc[c] = "audit"
  /\ Free(c, Today)
  /\ Continue(c, "commit", Today, [work[c] EXCEPT !.head = Len(chain)])
  /\ UNCHANGED <<store, call, calls, faults>>

\* Mutant: the key is not stored with the row.
Commit_NoKey(c) ==
  LET new == call[c].op = "create"
      i == IF new THEN Len(rows) + 1 ELSE work[c].id IN
  /\ pc[c] = "commit"
  /\ rows' = IF new THEN Append(rows, work[c].after) ELSE [rows EXCEPT ![i] = work[c].after]
  /\ chain' = Append(chain, [id |-> i, before |-> work[c].before, after |-> work[c].after,
                             previous |-> work[c].head])
  /\ \/ Finish(c, IF new THEN "created" ELSE "done") /\ UNCHANGED faults
     \/ Finish(c, "unavailable") /\ Fault
  /\ UNCHANGED <<old, keys, call, calls>>

\* Row, key and audit event become visible together.  The answer may be lost.
Commit(c) ==
  LET new == call[c].op = "create"
      i == IF new THEN Len(rows) + 1 ELSE work[c].id IN
  /\ pc[c] = "commit"
  /\ rows' = IF new THEN Append(rows, work[c].after) ELSE [rows EXCEPT ![i] = work[c].after]
  /\ keys' = IF new THEN [keys EXCEPT ![call[c].key] = i] ELSE keys
  /\ chain' = Append(chain, [id |-> i, before |-> work[c].before, after |-> work[c].after,
                             previous |-> work[c].head])
  /\ \/ Finish(c, IF new THEN "created" ELSE "done") /\ UNCHANGED faults
     \/ Finish(c, "unavailable") /\ Fault
  /\ UNCHANGED <<old, call, calls>>

\* The transaction of c waits for that of d.
WaitsFor(c, d) ==
  \/ pc[c] = "insert" /\ WaitsForKey(c, d)
  \/ pc[c] = "insert" /\ call[c].kind # "zone" /\ WaitsForName(c, d)
  \/ pc[c] = "insert" /\ call[c].kind = "zone" /\ WaitsForCamera(c, d)
  \/ pc[c] = "audit" /\ d # c /\ Today \in locks[d]

Deadlocked(c) == \E d \in Clients : WaitsFor(c, d) /\ WaitsFor(d, c)

\* Postgres breaks off one transaction of a deadlock.
DeadlockVictim(c) ==
  /\ Deadlocked(c)
  /\ Finish(c, "unavailable")
  /\ UNCHANGED <<store, call, calls, faults>>

Age(i) ==
  /\ i \notin old
  /\ Cardinality(old) < MaxAged
  /\ old' = old \cup {i}
  /\ UNCHANGED <<rows, keys, chain, call, answer, pc, locks, work, calls, faults>>

--------------------------------------------------------------------------------
Handling(c) ==
  /\ pc[c] = "arrived"
  /\ \/ createSite(c) \/ createCamera(c) \/ createZone(c) \/ issueDeviceClaim(c)
     \/ updateCamera(c) \/ updateZone(c) \/ retireCamera(c) \/ activateDevice(c)

Beginning(c) ==
  /\ pc[c] = "begin"
  /\ LookUp(c) \/ UpdateCamera(c) \/ UpdateZone(c) \/ RetireCamera(c) \/ Activate(c)

Inserting(c) ==
  /\ pc[c] = "insert"
  /\ CreateSite(c) \/ CreateCamera(c) \/ CreateZone(c) \/ IssueClaim(c)

Step(c) ==
  Handling(c) \/ Beginning(c) \/ Inserting(c) \/ AppendAudit(c) \/ Commit(c) \/ DeadlockVictim(c)

Next ==
  \/ \E c \in Clients : Step(c) \/ Broken(c) \/ Return(c) \/ \E cmd \in Commands : Arrive(c, cmd)
  \/ \E i \in DOMAIN rows : Age(i)

Spec == Init /\ [][Next]_vars

\* Postgres runs some statement while not all of them wait for a lock.
Fairness == WF_vars(\E c \in Clients : Step(c))

FairSpec == Spec /\ Fairness

--------------------------------------------------------------------------------
(* Properties *)

Event == [id : Nat \ {0}, before : Row \cup {None}, after : Row, previous : Nat]

TypeOK ==
  /\ rows \in Seq(Row)
  /\ old \subseteq DOMAIN rows
  /\ call \in [Clients -> Commands \cup {None}]
  /\ answer \in [Clients -> Promise!Answers \cup {None}]
  /\ keys \in [Keys -> {0} \cup DOMAIN rows]
  /\ chain \in Seq(Event)
  /\ pc \in [Clients -> {"idle", "arrived", "begin", "insert", "audit", "commit", "done"}]
  /\ locks \in [Clients -> SUBSET (Keys \cup {Today} \cup {RowLock(i) : i \in DOMAIN rows})]
  /\ work \in [Clients -> Work]
  /\ calls \in 0..MaxCalls
  /\ faults \in 0..MaxFaults

\* A creation that is sent again, because its answer was lost or because it was
\* sent twice at once, creates nothing more: of the rows created under one key,
\* only the last is less than 24 hours old.
CreatedOnce ==
  \A i, j \in DOMAIN rows : i < j /\ rows[i].key = rows[j].key => i \in old

\* The latest audit event before n about row i, if there is one.
LatestBefore(n, i) == {m \in 1..(n - 1) : chain[m].id = i /\ \A k \in (m + 1)..(n - 1) : chain[k].id # i}

\* The audit chain is the history of the rows.  Every event carries the hash of
\* the one before it, an event's before state is what the latest event about the
\* row left, and the latest event about a row shows it as it is.
AuditTellsAll ==
  /\ \A n \in DOMAIN chain :
       /\ chain[n].previous = n - 1
       /\ chain[n].before # None =>
            \E m \in LatestBefore(n, chain[n].id) : chain[m].after = chain[n].before
  /\ \A i \in DOMAIN rows :
       \E m \in LatestBefore(Len(chain) + 1, i) : chain[m].after = rows[i]

\* A request is answered with an error only when its transaction was broken off,
\* its answer lost, it was the victim of a deadlock, or it creates a zone for a
\* camera that is not there: a repeated creation, in particular, waits for the
\* first one and is answered with its response.
FailsOnlyOnFault ==
  [][\A c \in Clients :
       answer[c] = None /\ answer'[c] = "unavailable" =>
         faults' = faults + 1 \/ Deadlocked(c) \/ Dangling(c)]_vars

\* The repositories over Postgres keep the promise of Registry.
KeepsPromise == Promise!Spec

\* Every request is answered, whatever it waits for.
Answered == \A c \in Clients : (call[c] # None) ~> (answer[c] # None)
================================================================================
