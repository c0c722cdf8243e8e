-------------------------- MODULE RegistryStoreProofs --------------------------
(***************************************************************************)
(* RegistryStore keeps its invariants, for any requests, commands, keys    *)
(* and bounds.                                                             *)
(*                                                                         *)
(* The inductive invariant says what each transaction knows while it holds *)
(* its locks: a creation past LookUp, that no row remembers its key; one   *)
(* that has inserted its row, that the name is free; an edit, that its row *)
(* is as it was read; a transaction about to commit, that the head of the  *)
(* chain it read is still the head.  Each holds because no two             *)
(* transactions hold one lock.                                             *)
(***************************************************************************)
EXTENDS RegistryStore, TLAPS

\* The provers each leaf is tried with in turn, unless it names one.
USE ZenonT(5), SMTT(20), ZenonT(40)

NewStatus == [site |-> "provisioning", camera |-> "pending", zone |-> "enabled", device |-> "pending"]

\* No live row is stored under the key, which the transaction has locked.
Creating(c) ==
  /\ call[c].op = "create"
  /\ call[c].key \in locks[c]
  /\ keys[call[c].key] \in old \cup {0}

\* The row is written, and unless it is a zone its name is free.
Inserted(c) ==
  /\ work[c].after = Promise!NewRow(call[c], NewStatus[call[c].kind])
  /\ work[c].before = None
  /\ call[c].kind # "zone" => ~ Promise!Taken(call[c])

\* The command, applied to the row as it is, is allowed and gives the row after.
Edited(cmd, row, before, after) ==
  \/ /\ cmd.op = "updateCamera"
     /\ row.kind = "camera" /\ row.status # "retired" /\ row.version = cmd.version
     /\ Promise!canTransition(row.status, Promise!Or(cmd.status, row.status))
     /\ before = row
     /\ after = Promise!applyUpdate(row, cmd)
  \/ /\ cmd.op = "updateZone"
     /\ row.kind = "zone" /\ row.version = cmd.version
     /\ before = row
     /\ after = Promise!applyUpdate(row, cmd)
  \/ /\ cmd.op = "retire"
     /\ row.kind = "camera" /\ row.status # "retired"
     /\ before = row
     /\ after = [row EXCEPT !.status = "retired", !.version = @ + 1]
  \/ /\ cmd.op = "activate"
     /\ row.kind = "device" /\ row.status = "pending"
     /\ before = None
     /\ after = [row EXCEPT !.status = "active"]

Editing(c) ==
  /\ call[c].id \in DOMAIN rows
  /\ work[c].id = call[c].id
  /\ RowLock(call[c].id) \in locks[c]
  /\ Edited(call[c], rows[call[c].id], work[c].before, work[c].after)

\* What request c relies on, by where it stands.
ClientInv(c) ==
  /\ (call[c] = None) <=> (pc[c] = "idle")
  /\ (answer[c] = None) <=> (pc[c] # "done")
  /\ pc[c] = "insert" => Creating(c) /\ work[c] = NoWork
  /\ pc[c] \in {"audit", "commit"} =>
       IF call[c].op = "create" THEN Creating(c) /\ Inserted(c) ELSE Editing(c)
  /\ pc[c] = "commit" => Today \in locks[c] /\ work[c].head = Len(chain)

\* No lock has two holders, and no name two writers.
Exclusive == \A c, d \in Clients : c # d => locks[c] \cap locks[d] = {}
NamesApart ==
  \A c, d \in Uncommitted : c # d /\ call[c].kind # "zone" => ~ SameName(c, d)

\* A stored key names a row created with it, and every live row is named.
KeyInv ==
  /\ \A k \in Keys : keys[k] # 0 => rows[keys[k]].key = k
  /\ \A i \in DOMAIN rows \ old : keys[rows[i].key] = i

IInv ==
  /\ TypeOK
  /\ \A c \in Clients : ClientInv(c)
  /\ Exclusive
  /\ NamesApart
  /\ KeyInv
  /\ CreatedOnce
  /\ AuditTellsAll

--------------------------------------------------------------------------------
(* Commands and rows *)

\* A command is a creation or an edit, and its op tells which.
LEMMA CommandForms ==
  ASSUME NEW cmd \in Commands
  PROVE  \/ cmd \in Creation /\ cmd.op = "create"
         \/ cmd \in Edit /\ cmd.op \in {"updateCamera", "updateZone", "retire", "activate"}
  <1>1. cmd \in Creation \/ cmd \in Edit
    BY CommandsAssumption
  <1>2. CASE cmd \in Creation
    BY <1>2 DEF Creation, Promise!Creation
  <1>3. CASE cmd \in Edit
    BY <1>3 DEF Edit, Promise!Edit
  <1>4. QED
    BY <1>1, <1>2, <1>3

\* A creation writes a row with its kind, key and name.
LEMMA NewRowType ==
  ASSUME NEW cmd \in Creation
  PROVE  /\ Promise!NewRow(cmd, NewStatus[cmd.kind]) \in Row
         /\ Promise!NewRow(cmd, NewStatus[cmd.kind]).kind = cmd.kind
         /\ Promise!NewRow(cmd, NewStatus[cmd.kind]).key = cmd.key
         /\ Promise!NewRow(cmd, NewStatus[cmd.kind]).name = cmd.name
  <1>1. /\ cmd.kind \in {"site", "camera", "zone", "device"}
        /\ cmd.key \in Keys /\ cmd.name \in Names /\ cmd.camera \in Nat
    BY DEF Creation, Promise!Creation
  <1>2. NewStatus[cmd.kind] \in {"provisioning", "pending", "enabled"}
    BY <1>1 DEF NewStatus
  <1>3. QED
    BY <1>1, <1>2 DEF Promise!NewRow, Row, Promise!Row

\* applyUpdate keeps what identifies a row.
LEMMA UpdatedRow ==
  ASSUME NEW cmd \in Commands, cmd.op \in {"updateCamera", "updateZone"}, NEW row \in Row
  PROVE  /\ Promise!applyUpdate(row, cmd) \in Row
         /\ Promise!applyUpdate(row, cmd).kind = row.kind
         /\ Promise!applyUpdate(row, cmd).key = row.key
         /\ Promise!applyUpdate(row, cmd).name = row.name
  <1>1. cmd \in Edit
    BY CommandForms
  <1>2. cmd.label \in Labels \cup {None} /\ cmd.status \in {"pending", "active", "offline", None}
    BY <1>1 DEF Edit, Promise!Edit
  <1>3. /\ row.kind \in {"site", "camera", "zone", "device"} /\ row.key \in Keys /\ row.name \in Names
        /\ row.label \in Labels \cup {None} /\ row.version \in Nat
        /\ row.status \in {"provisioning", "pending", "active", "offline", "retired", "enabled"}
    BY DEF Row, Promise!Row
  <1> DEFINE label == Promise!Or(cmd.label, row.label)
             status == Promise!Or(cmd.status, row.status)
             next == [row EXCEPT !.label = label, !.status = status]
  <1>4. /\ label \in Labels \cup {None}
        /\ status \in {"provisioning", "pending", "active", "offline", "retired", "enabled"}
    BY <1>2, <1>3 DEF Promise!Or
  <1>5. /\ next \in Row
        /\ next.kind = row.kind /\ next.key = row.key /\ next.name = row.name /\ next.version = row.version
    BY <1>3, <1>4 DEF Row, Promise!Row
  <1> HIDE DEF label, status
  <1>6. Promise!applyUpdate(row, cmd) = IF next = row THEN row ELSE [next EXCEPT !.version = @ + 1]
    BY DEF Promise!applyUpdate, label, status
  <1> HIDE DEF next
  <1>7. /\ [next EXCEPT !.version = @ + 1] \in Row
        /\ [next EXCEPT !.version = @ + 1].kind = row.kind
        /\ [next EXCEPT !.version = @ + 1].key = row.key
        /\ [next EXCEPT !.version = @ + 1].name = row.name
    BY <1>5, <1>3 DEF Row, Promise!Row
  <1>8. QED
    BY <1>6, <1>7

\* So does every edit.
LEMMA EditedRow ==
  ASSUME NEW cmd \in Commands, NEW row \in Row, NEW before, NEW after, Edited(cmd, row, before, after)
  PROVE  /\ after \in Row
         /\ after.kind = row.kind /\ after.key = row.key /\ after.name = row.name
         /\ before \in {row, None}
  <1>1. CASE cmd.op \in {"updateCamera", "updateZone"}
    BY <1>1, UpdatedRow DEF Edited
  <1>2. CASE cmd.op = "retire"
    <2>1. after = [row EXCEPT !.status = "retired", !.version = @ + 1] /\ before = row
      BY <1>2 DEF Edited
    <2>2. row.version + 1 \in Nat
      BY DEF Row, Promise!Row
    <2>3. QED
      BY <2>1, <2>2 DEF Row, Promise!Row
  <1>3. CASE cmd.op = "activate"
    BY <1>3 DEF Edited, Row, Promise!Row
  <1>4. QED
    BY <1>1, <1>2, <1>3 DEF Edited

--------------------------------------------------------------------------------
(* The inductive invariant *)

States == {"idle", "arrived", "begin", "insert", "audit", "commit", "done"}
LockNames == Keys \cup {Today} \cup {RowLock(i) : i \in DOMAIN rows}

\* A row of the table is a row, and its number is positive.
LEMMA RowOf ==
  ASSUME NEW s \in Seq(Row), NEW j \in DOMAIN s
  PROVE  s[j] \in Row /\ j \in Nat \ {0}
  OBVIOUS

\* An empty store and idle requests satisfy the invariant.
LEMMA InitInv == Init => IInv
  <1> SUFFICES ASSUME Init PROVE IInv
    OBVIOUS
  <1> USE DEF Init, Promise!Init
  <1>1. NoWork \in Work
    BY DEF NoWork, Work
  <1>2. 0 \in 0..MaxCalls /\ 0 \in 0..MaxFaults
    BY BoundsAssumption
  <1>3. TypeOK
    BY <1>1, <1>2 DEF TypeOK
  <1>4. \A c \in Clients : ClientInv(c)
    BY CommandsAssumption DEF ClientInv
  <1>5. Exclusive /\ NamesApart
    BY DEF Exclusive, NamesApart, Uncommitted
  <1>6. KeyInv /\ CreatedOnce /\ AuditTellsAll
    BY DEF KeyInv, CreatedOnce, AuditTellsAll
  <1>7. QED
    BY <1>3, <1>4, <1>5, <1>6 DEF IInv

\* A request whose own state and whose store are left alone keeps what it relies on.
LEMMA Frame ==
  ASSUME NEW d \in Clients, ClientInv(d), UNCHANGED <<rows, old, keys, chain>>,
         call'[d] = call[d], answer'[d] = answer[d], pc'[d] = pc[d],
         locks'[d] = locks[d], work'[d] = work[d]
  PROVE  ClientInv(d)'
  <1>1. Creating(d)' = Creating(d)
    BY DEF Creating
  <1>2. Promise!Taken(call[d])' = Promise!Taken(call[d])
    BY DEF Promise!Taken, Promise!OfKind
  <1>3. Inserted(d)' = Inserted(d)
    BY <1>2 DEF Inserted
  <1>4. Editing(d)' = Editing(d)
    BY DEF Editing
  <1>5. QED
    BY <1>1, <1>3, <1>4 DEF ClientInv

\* A step of one request that leaves the store alone.
LEMMA ClientStep ==
  ASSUME IInv, UNCHANGED <<rows, old, keys, chain>>,
         NEW c \in Clients, NEW k \in Commands \cup {None}, NEW a \in Promise!Answers \cup {None},
         NEW p \in States, NEW l \in SUBSET LockNames, NEW w \in Work,
         call' = [call EXCEPT ![c] = k], answer' = [answer EXCEPT ![c] = a],
         pc' = [pc EXCEPT ![c] = p], locks' = [locks EXCEPT ![c] = l],
         work' = [work EXCEPT ![c] = w],
         calls' \in 0..MaxCalls, faults' \in 0..MaxFaults,
         ClientInv(c)',
         \A d \in Clients \ {c} : l \cap locks[d] = {},
         p \in {"audit", "commit"} /\ k.op = "create" /\ k.kind # "zone" =>
           \A d \in Uncommitted \ {c} : ~ (call[d].kind = k.kind /\ call[d].name = k.name)
  PROVE  IInv'
  <1>1. TypeOK /\ Exclusive /\ NamesApart /\ KeyInv /\ CreatedOnce /\ AuditTellsAll
    BY DEF IInv
  <1>2. TypeOK'
    <2>1. rows' \in Seq(Row) /\ old' \subseteq DOMAIN rows' /\ keys' \in [Keys -> {0} \cup DOMAIN rows']
          /\ chain' \in Seq(Event)
      BY <1>1 DEF TypeOK
    <2>2. call' \in [Clients -> Commands \cup {None}] /\ answer' \in [Clients -> Promise!Answers \cup {None}]
      BY <1>1 DEF TypeOK
    <2>3. pc' \in [Clients -> States] /\ work' \in [Clients -> Work]
      BY <1>1 DEF TypeOK, States
    <2>4. locks' \in [Clients -> SUBSET LockNames]
      BY <1>1 DEF TypeOK, LockNames
    <2>5. QED
      BY <2>1, <2>2, <2>3, <2>4 DEF TypeOK, States, LockNames
  <1> USE <1>1
  <1>3. \A d \in Clients \ {c} : call'[d] = call[d] /\ answer'[d] = answer[d] /\ pc'[d] = pc[d]
                                 /\ locks'[d] = locks[d] /\ work'[d] = work[d]
    BY DEF TypeOK
  <1>4. call'[c] = k /\ answer'[c] = a /\ pc'[c] = p /\ locks'[c] = l /\ work'[c] = w
    BY DEF TypeOK
  <1>5. ASSUME NEW d \in Clients PROVE ClientInv(d)'
    <2>1. CASE d = c
      BY <2>1
    <2>2. CASE d # c
      <3>1. ClientInv(d)
        BY DEF IInv
      <3>2. QED
        BY <2>2, <3>1, <1>3, Frame
    <2>3. QED
      BY <2>1, <2>2
  <1>6. Exclusive'
    BY <1>3, <1>4 DEF Exclusive
  <1>7. NamesApart'
    <2> SUFFICES ASSUME NEW d \in Uncommitted', NEW e \in Uncommitted', d # e, call'[d].kind # "zone",
                        call'[e].kind = call'[d].kind, call'[e].name = call'[d].name
                 PROVE  FALSE
      BY DEF NamesApart, SameName
    <2>1. CASE d = c
      <3>1. e \in Uncommitted \ {c}
        BY <2>1, <1>3 DEF Uncommitted
      <3>2. QED
        BY <2>1, <3>1, <1>3, <1>4 DEF Uncommitted
    <2>2. CASE e = c
      <3>1. d \in Uncommitted \ {c}
        BY <2>2, <1>3 DEF Uncommitted
      <3>2. QED
        BY <2>2, <3>1, <1>3, <1>4 DEF Uncommitted
    <2>3. CASE d # c /\ e # c
      <3>1. d \in Uncommitted /\ e \in Uncommitted /\ call[d].kind # "zone" /\ SameName(d, e)
        BY <2>3, <1>3 DEF Uncommitted, SameName
      <3>2. QED
        BY <3>1 DEF NamesApart
    <2>4. QED
      BY <2>1, <2>2, <2>3
  <1>8. KeyInv'
    BY DEF KeyInv
  <1>9. CreatedOnce'
    BY DEF CreatedOnce
  <1>10. AuditTellsAll'
    BY DEF AuditTellsAll, LatestBefore
  <1>11. QED
    BY <1>2, <1>5, <1>6, <1>7, <1>8, <1>9, <1>10 DEF IInv

\* A transaction that ends without effect, whatever the answer.
LEMMA FinishStep ==
  ASSUME IInv, NEW c \in Clients, NEW a \in Promise!Answers, call[c] # None, Finish(c, a),
         UNCHANGED <<store, call, calls>>, faults' \in 0..MaxFaults
  PROVE  IInv'
  <1>1. TypeOK
    BY DEF IInv
  <1>2. call' = [call EXCEPT ![c] = call[c]] /\ call[c] \in Commands \cup {None}
    BY <1>1 DEF TypeOK
  <1>3. calls' \in 0..MaxCalls
    BY <1>1 DEF TypeOK
  <1>4. NoWork \in Work /\ "done" \in States
    BY DEF NoWork, Work, States
  <1>5. /\ pc'[c] = "done" /\ answer'[c] = a
        /\ a # None
    BY <1>1, CommandsAssumption DEF TypeOK, Finish
  <1>6. ClientInv(c)'
    BY <1>5 DEF ClientInv
  <1>7. /\ {} \in SUBSET LockNames
        /\ \A d \in Clients \ {c} : {} \cap locks[d] = {}
    OBVIOUS
  <1>8. UNCHANGED <<rows, old, keys, chain>>
    BY DEF store
  <1>9. /\ answer' = [answer EXCEPT ![c] = a] /\ pc' = [pc EXCEPT ![c] = "done"]
        /\ locks' = [locks EXCEPT ![c] = {}] /\ work' = [work EXCEPT ![c] = NoWork]
    BY DEF Finish
  <1>10. a \in Promise!Answers \cup {None} /\ "done" \notin {"audit", "commit"}
    OBVIOUS
  <1>11. QED
    BY <1>2, <1>3, <1>4, <1>6, <1>7, <1>8, <1>9, <1>10, ClientStep

\* A transaction that goes on with one more lock, which nobody else holds.
LEMMA ContinueStep ==
  ASSUME IInv, NEW c \in Clients, NEW step \in {"insert", "audit", "commit"},
         NEW lock \in LockNames, NEW w \in Work,
         Free(c, lock), Continue(c, step, lock, w), UNCHANGED <<store, call, calls, faults>>,
         step # "insert" /\ call[c].op = "create" => pc[c] \in {"audit", "commit"},
         ClientInv(c)'
  PROVE  IInv'
  <1>1. TypeOK /\ Exclusive /\ NamesApart
    BY DEF IInv
  <1>2. call' = [call EXCEPT ![c] = call[c]] /\ call[c] \in Commands \cup {None}
    BY <1>1 DEF TypeOK
  <1>3. answer' = [answer EXCEPT ![c] = answer[c]] /\ answer[c] \in Promise!Answers \cup {None}
    BY <1>1 DEF TypeOK, Continue
  <1>4. calls' \in 0..MaxCalls /\ faults' \in 0..MaxFaults
    BY <1>1 DEF TypeOK
  <1>5. locks[c] \cup {lock} \in SUBSET LockNames
    BY <1>1 DEF TypeOK, LockNames
  <1>6. \A d \in Clients \ {c} : (locks[c] \cup {lock}) \cap locks[d] = {}
    BY <1>1 DEF Exclusive, Free
  <1>7. step \in {"audit", "commit"} /\ call[c].op = "create" /\ call[c].kind # "zone" =>
          \A d \in Uncommitted \ {c} : ~ (call[d].kind = call[c].kind /\ call[d].name = call[c].name)
    BY <1>1 DEF NamesApart, Uncommitted, SameName
  <1>8. step \in States
    BY DEF States
  <1>9. QED
    BY <1>2, <1>3, <1>4, <1>5, <1>6, <1>7, <1>8, ClientStep DEF Continue, store

\* A request arrives.
LEMMA ArriveStep ==
  ASSUME IInv, NEW c \in Clients, NEW cmd \in Commands, Arrive(c, cmd)
  PROVE  IInv'
  <1>1. TypeOK /\ Exclusive /\ ClientInv(c)
    BY DEF IInv
  <1>2. /\ answer' = [answer EXCEPT ![c] = answer[c]] /\ answer[c] \in Promise!Answers \cup {None}
        /\ locks' = [locks EXCEPT ![c] = locks[c]] /\ locks[c] \in SUBSET LockNames
        /\ work' = [work EXCEPT ![c] = work[c]] /\ work[c] \in Work
    BY <1>1 DEF TypeOK, Arrive, LockNames
  <1>3. calls' \in 0..MaxCalls /\ faults' \in 0..MaxFaults
    BY <1>1, BoundsAssumption DEF TypeOK, Arrive
  <1>4. \A d \in Clients \ {c} : locks[c] \cap locks[d] = {}
    BY <1>1 DEF Exclusive
  <1>5. pc'[c] = "arrived" /\ call'[c] = cmd /\ cmd # None /\ answer'[c] = answer[c] /\ pc[c] = "idle"
    BY <1>1, CommandsAssumption DEF TypeOK, Arrive, ClientInv
  <1>6. ClientInv(c)'
    BY <1>1, <1>5 DEF ClientInv
  <1>7. "arrived" \in States
    BY DEF States
  <1>8. /\ UNCHANGED <<rows, old, keys, chain>> /\ cmd \in Commands \cup {None}
        /\ call' = [call EXCEPT ![c] = cmd] /\ pc' = [pc EXCEPT ![c] = "arrived"]
    BY DEF Arrive, store
  <1>9. "arrived" \notin {"audit", "commit"}
    OBVIOUS
  <1>10. QED
    BY <1>2, <1>3, <1>4, <1>6, <1>7, <1>8, <1>9, ClientStep

\* A request is answered, and its slot becomes free.
LEMMA ReturnStep ==
  ASSUME IInv, NEW c \in Clients, Return(c)
  PROVE  IInv'
  <1>1. TypeOK /\ Exclusive /\ ClientInv(c)
    BY DEF IInv
  <1>2. /\ locks' = [locks EXCEPT ![c] = locks[c]] /\ locks[c] \in SUBSET LockNames
        /\ work' = [work EXCEPT ![c] = work[c]] /\ work[c] \in Work
    BY <1>1 DEF TypeOK, Return, LockNames
  <1>3. calls' \in 0..MaxCalls /\ faults' \in 0..MaxFaults
    BY <1>1 DEF TypeOK, Return
  <1>4. \A d \in Clients \ {c} : locks[c] \cap locks[d] = {}
    BY <1>1 DEF Exclusive
  <1>5. pc'[c] = "idle" /\ call'[c] = None /\ answer'[c] = None
    BY <1>1 DEF TypeOK, Return
  <1>6. ClientInv(c)'
    BY <1>5 DEF ClientInv
  <1>7. "idle" \in States
    BY DEF States
  <1>8. QED
    BY <1>2, <1>3, <1>4, <1>6, <1>7, ClientStep DEF Return, store

\* A handler refuses the request or calls the repository.
LEMMA HandlingForms ==
  ASSUME NEW c \in Clients, Handling(c)
  PROVE  /\ pc[c] = "arrived" /\ call[c] # None
         /\ UNCHANGED <<store, call, calls, faults>>
         /\ \/ Finish(c, "rejected")
            \/ Finish(c, "notFound")
            \/ pc' = [pc EXCEPT ![c] = "begin"] /\ UNCHANGED <<answer, locks, work>>
  BY DEF Handling, createSite, createCamera, createZone, issueDeviceClaim, updateCamera, updateZone,
         retireCamera, activateDevice, Handle, Promise!Creates, Promise!Edits, Promise!Pending

\* The handler rejects the request, does not find its row, or begins.
LEMMA HandlingStep ==
  ASSUME IInv, NEW c \in Clients, Handling(c)
  PROVE  IInv'
  <1>1. TypeOK /\ Exclusive /\ ClientInv(c)
    BY DEF IInv
  <1>2. /\ pc[c] = "arrived" /\ call[c] # None
        /\ UNCHANGED <<store, call, calls, faults>>
    BY HandlingForms
  <1>3. faults' \in 0..MaxFaults /\ calls' \in 0..MaxCalls
    BY <1>1, <1>2 DEF TypeOK
  <1>4. CASE \E a \in {"rejected", "notFound"} : Finish(c, a)
    BY <1>2, <1>3, <1>4, FinishStep DEF Promise!Answers
  <1>5. CASE pc' = [pc EXCEPT ![c] = "begin"] /\ UNCHANGED <<answer, locks, work>>
    <2>1. /\ call' = [call EXCEPT ![c] = call[c]] /\ call[c] \in Commands \cup {None}
          /\ answer' = [answer EXCEPT ![c] = answer[c]] /\ answer[c] \in Promise!Answers \cup {None}
          /\ locks' = [locks EXCEPT ![c] = locks[c]] /\ locks[c] \in SUBSET LockNames
          /\ work' = [work EXCEPT ![c] = work[c]] /\ work[c] \in Work
      BY <1>1, <1>2, <1>5 DEF TypeOK, LockNames
    <2>2. \A d \in Clients \ {c} : locks[c] \cap locks[d] = {}
      BY <1>1 DEF Exclusive
    <2>3. pc'[c] = "begin"
      BY <1>1, <1>5 DEF TypeOK
    <2>4. ClientInv(c)'
      BY <1>1, <1>2, <1>5, <2>3 DEF ClientInv
    <2>5. UNCHANGED <<rows, old, keys, chain>>
      BY <1>2 DEF store
    <2>6. "begin" \in States /\ "begin" \notin {"audit", "commit"} /\ pc' = [pc EXCEPT ![c] = "begin"]
      BY <1>5 DEF States
    <2>7. QED
      BY <1>3, <2>1, <2>2, <2>4, <2>5, <2>6, ClientStep
  <1>6. QED
    BY <1>4, <1>5, HandlingForms

\* A creation locks its key and looks it up.
LEMMA LookUpStep ==
  ASSUME IInv, NEW c \in Clients, LookUp(c)
  PROVE  IInv'
  <1>1. TypeOK /\ ClientInv(c)
    BY DEF IInv
  <1>2. /\ pc[c] = "begin" /\ call[c] # None /\ call[c].op = "create"
        /\ UNCHANGED <<store, call, calls, faults>>
        /\ Free(c, call[c].key)
    BY <1>1 DEF LookUp, ClientInv
  <1>3. call[c] \in Commands
    BY <1>1, <1>2 DEF TypeOK
  <1>4. call[c] \in Creation
    BY <1>2, <1>3, CommandForms
  <1>5. faults' \in 0..MaxFaults
    BY <1>1, <1>2 DEF TypeOK
  <1>6. CASE \E a \in {"replayed", "conflict", "notFound"} : Finish(c, a)
    BY <1>2, <1>5, <1>6, FinishStep DEF Promise!Answers
  <1>7. CASE /\ Continue(c, "insert", call[c].key, NoWork)
             /\ ~ (keys[call[c].key] # 0 /\ keys[call[c].key] \notin old)
    <2>1. NoWork \in Work
      BY DEF NoWork, Work
    <2>2. call[c].key \in LockNames
      BY <1>4 DEF Creation, Promise!Creation, LockNames
    <2>3. /\ pc'[c] = "insert" /\ call[c].key \in locks'[c] /\ work'[c] = NoWork
          /\ call'[c] = call[c] /\ answer'[c] = answer[c]
      BY <1>1, <1>2, <1>7 DEF TypeOK, Continue
    <2>4. keys' = keys /\ old' = old
      BY <1>2 DEF store
    <2>5. Creating(c)'
      BY <1>2, <1>7, <2>3, <2>4 DEF Creating
    <2>6. ClientInv(c)'
      BY <1>1, <1>2, <2>3, <2>5 DEF ClientInv
    <2>7. QED
      BY <1>2, <1>7, <2>1, <2>2, <2>6, ContinueStep
  <1>8. QED
    BY <1>6, <1>7 DEF LookUp

\* An insert finds the name taken, or the camera missing, or writes the row.
LEMMA InsertingForms ==
  ASSUME NEW c \in Clients, Inserting(c)
  PROVE  /\ pc[c] = "insert"
         /\ UNCHANGED <<store, call, calls, faults>>
         /\ \/ Promise!Taken(call[c]) /\ Finish(c, "conflict")
            \/ Dangling(c) /\ Finish(c, "unavailable")
            \/ /\ Written(c, NewStatus[call[c].kind])
               /\ call[c].kind # "zone" =>
                    ~ Promise!Taken(call[c]) /\ \A d \in Clients : ~ WaitsForName(c, d)
  <1>1. CASE CreateSite(c)
    BY <1>1 DEF CreateSite, InsertUnique, NewStatus
  <1>2. CASE CreateCamera(c)
    BY <1>2 DEF CreateCamera, InsertUnique, NewStatus
  <1>3. CASE CreateZone(c)
    BY <1>3 DEF CreateZone, NewStatus
  <1>4. CASE IssueClaim(c)
    BY <1>4 DEF IssueClaim, InsertUnique, NewStatus
  <1>5. QED
    BY <1>1, <1>2, <1>3, <1>4 DEF Inserting

\* A creation inserts its row, unless its name is taken or its camera missing.
LEMMA InsertingStep ==
  ASSUME IInv, NEW c \in Clients, Inserting(c)
  PROVE  IInv'
  <1>1. TypeOK /\ Exclusive /\ NamesApart /\ ClientInv(c)
    BY DEF IInv
  <1>2. pc[c] = "insert" /\ UNCHANGED <<store, call, calls, faults>>
    BY InsertingForms
  <1>3. call[c] # None /\ Creating(c) /\ work[c] = NoWork /\ answer[c] = None
    BY <1>1, <1>2 DEF ClientInv
  <1>4. call[c] \in Commands
    BY <1>1, <1>3 DEF TypeOK
  <1>5. call[c] \in Creation
    BY <1>3, <1>4, CommandForms DEF Creating
  <1>6. faults' \in 0..MaxFaults /\ calls' \in 0..MaxCalls
    BY <1>1, <1>2 DEF TypeOK
  <1>7. CASE Finish(c, "conflict") \/ Finish(c, "unavailable")
    BY <1>2, <1>3, <1>6, <1>7, FinishStep DEF Promise!Answers
  <1>8. CASE /\ Written(c, NewStatus[call[c].kind])
             /\ call[c].kind # "zone" =>
                  ~ Promise!Taken(call[c]) /\ \A d \in Clients : ~ WaitsForName(c, d)
    <2> DEFINE w == [NoWork EXCEPT !.after = Promise!NewRow(call[c], NewStatus[call[c].kind])]
    <2>1. /\ pc' = [pc EXCEPT ![c] = "audit"]
          /\ work' = [work EXCEPT ![c].after = Promise!NewRow(call[c], NewStatus[call[c].kind])]
          /\ UNCHANGED <<answer, locks>>
      BY <1>3, <1>8 DEF Written, Creating
    <2>2. work' = [work EXCEPT ![c] = w]
      BY <1>1, <1>3, <2>1 DEF TypeOK
    <2>3. /\ w \in Work /\ w.before = None
          /\ w.after = Promise!NewRow(call[c], NewStatus[call[c].kind])
      BY <1>5, NewRowType DEF NoWork, Work
    <2> HIDE DEF w
    <2>4. /\ call' = [call EXCEPT ![c] = call[c]] /\ call[c] \in Commands \cup {None}
          /\ answer' = [answer EXCEPT ![c] = answer[c]] /\ answer[c] \in Promise!Answers \cup {None}
          /\ locks' = [locks EXCEPT ![c] = locks[c]] /\ locks[c] \in SUBSET LockNames
      BY <1>1, <1>2, <2>1 DEF TypeOK, LockNames
    <2>5. \A d \in Clients \ {c} : locks[c] \cap locks[d] = {}
      BY <1>1 DEF Exclusive
    <2>6. call[c].kind # "zone" =>
            \A d \in Uncommitted \ {c} : ~ (call[d].kind = call[c].kind /\ call[d].name = call[c].name)
      BY <1>8 DEF WaitsForName, Uncommitted, SameName
    <2>7. UNCHANGED <<rows, old, keys, chain>>
      BY <1>2 DEF store
    <2>8. pc'[c] = "audit" /\ work'[c] = w /\ call'[c] = call[c] /\ answer'[c] = answer[c] /\ locks'[c] = locks[c]
      BY <1>1, <2>1, <2>2, <2>4 DEF TypeOK
    <2>9. Creating(c)'
      BY <1>3, <2>7, <2>8 DEF Creating
    <2>10. Inserted(c)'
      BY <1>8, <2>3, <2>7, <2>8 DEF Inserted, Promise!Taken, Promise!OfKind, Promise!NewRow
    <2>11. ClientInv(c)'
      BY <1>3, <2>8, <2>9, <2>10 DEF ClientInv, Creating
    <2>12. "audit" \in States /\ pc' = [pc EXCEPT ![c] = "audit"]
      BY <2>1 DEF States
    <2>13. QED
      BY <1>6, <2>2, <2>3, <2>4, <2>5, <2>6, <2>7, <2>11, <2>12, ClientStep
  <1>9. QED
    BY <1>7, <1>8, InsertingForms

\* The four operations on a row that exists.
Editings(c) == UpdateCamera(c) \/ UpdateZone(c) \/ RetireCamera(c) \/ Activate(c)

\* The transaction goes on with the row locked, and written as the command asks.
Rewrites(c) ==
  \E before \in Row \cup {None}, after \in Row :
    /\ call[c].id \in DOMAIN rows
    /\ Edited(call[c], rows[call[c].id], before, after)
    /\ Continue(c, "audit", RowLock(call[c].id),
                [id |-> call[c].id, before |-> before, after |-> after, head |-> 0])

\* An edit that changes nothing is answered at once; another goes on to the audit.
LEMMA WritesForms ==
  ASSUME TypeOK, NEW c \in Clients, call[c] \in Commands, NEW before, NEW next,
         call[c].id \in DOMAIN rows, Edited(call[c], rows[call[c].id], before, next),
         Writes(c, before, next)
  PROVE  Finish(c, "done") \/ Rewrites(c)
  <1>1. rows[call[c].id] \in Row
    BY DEF TypeOK
  <1>2. next \in Row /\ before \in Row \cup {None}
    BY <1>1, EditedRow
  <1>3. CASE next = rows[call[c].id]
    BY <1>3 DEF Writes
  <1>4. CASE next # rows[call[c].id]
    <2>1. Continue(c, "audit", RowLock(call[c].id),
                   [id |-> call[c].id, before |-> before, after |-> next, head |-> 0])
      BY <1>4 DEF Writes
    <2>2. QED
      BY <2>1, <1>2 DEF Rewrites
  <1>5. QED
    BY <1>3, <1>4

\* An edit is refused, changes nothing, or goes on.
LEMMA EditingForms ==
  ASSUME TypeOK, NEW c \in Clients, call[c] \in Commands, Editings(c)
  PROVE  /\ pc[c] = "begin" /\ call[c].op # "create"
         /\ UNCHANGED <<store, call, calls, faults>>
         /\ Free(c, RowLock(call[c].id))
         /\ \/ \E a \in {"notFound", "conflict", "unauthorized", "done"} : Finish(c, a)
            \/ Rewrites(c)
  <1> DEFINE row == rows[call[c].id]
  <1>1. CASE UpdateCamera(c)
    <2>1. Reads(c, "updateCamera")
      BY <1>1 DEF UpdateCamera
    <2>2. CASE /\ Live(c) /\ row.version = call[c].version
               /\ Promise!canTransition(row.status, Promise!Or(call[c].status, row.status))
      <3>1. Writes(c, row, Promise!applyUpdate(row, call[c]))
        BY <1>1, <2>2 DEF UpdateCamera
      <3>2. /\ call[c].id \in DOMAIN rows
            /\ Edited(call[c], row, row, Promise!applyUpdate(row, call[c]))
        BY <2>1, <2>2 DEF Live, Target, Promise!OfKind, Edited, Reads
      <3>3. QED
        BY <2>1, <3>1, <3>2, WritesForms DEF Reads
    <2>3. QED
      BY <1>1, <2>1, <2>2 DEF UpdateCamera, Reads
  <1>2. CASE UpdateZone(c)
    <2>1. Reads(c, "updateZone")
      BY <1>2 DEF UpdateZone
    <2>2. CASE Target(c, "zone") /\ row.version = call[c].version
      <3>1. Writes(c, row, Promise!applyUpdate(row, call[c]))
        BY <1>2, <2>2 DEF UpdateZone
      <3>2. /\ call[c].id \in DOMAIN rows
            /\ Edited(call[c], row, row, Promise!applyUpdate(row, call[c]))
        BY <2>1, <2>2 DEF Target, Promise!OfKind, Edited, Reads
      <3>3. QED
        BY <2>1, <3>1, <3>2, WritesForms DEF Reads
    <2>3. QED
      BY <1>2, <2>1, <2>2 DEF UpdateZone, Reads
  <1>3. CASE RetireCamera(c)
    <2>1. Reads(c, "retire")
      BY <1>3 DEF RetireCamera
    <2>2. CASE Target(c, "camera") /\ row.status # "retired"
      <3> DEFINE next == [row EXCEPT !.status = "retired", !.version = @ + 1]
      <3>1. Writes(c, row, next)
        BY <1>3, <2>2 DEF RetireCamera
      <3>2. /\ call[c].id \in DOMAIN rows
            /\ Edited(call[c], row, row, next)
        BY <2>1, <2>2 DEF Target, Promise!OfKind, Edited, Reads
      <3>3. QED
        BY <2>1, <3>1, <3>2, WritesForms DEF Reads
    <2>3. QED
      BY <1>3, <2>1, <2>2 DEF RetireCamera, Reads
  <1>4. CASE Activate(c)
    <2>1. Reads(c, "activate")
      BY <1>4 DEF Activate
    <2>2. CASE Target(c, "device") /\ row.status = "pending" /\ call[c].id \notin old
      <3> DEFINE next == [row EXCEPT !.status = "active"]
      <3>1. Writes(c, None, next)
        BY <1>4, <2>2 DEF Activate
      <3>2. /\ call[c].id \in DOMAIN rows
            /\ Edited(call[c], row, None, next)
        BY <2>1, <2>2 DEF Target, Promise!OfKind, Edited, Reads
      <3>3. QED
        BY <2>1, <3>1, <3>2, WritesForms DEF Reads
    <2>3. QED
      BY <1>4, <2>1, <2>2 DEF Activate, Reads
  <1>5. QED
    BY <1>1, <1>2, <1>3, <1>4 DEF Editings

\* An edit locks its row and decides.
LEMMA EditingStep ==
  ASSUME IInv, NEW c \in Clients, Editings(c)
  PROVE  IInv'
  <1>1. TypeOK /\ ClientInv(c)
    BY DEF IInv
  <1>2. pc[c] = "begin"
    BY DEF Editings, UpdateCamera, UpdateZone, RetireCamera, Activate, Reads
  <1>3. call[c] # None /\ call[c] \in Commands /\ answer[c] = None
    BY <1>1, <1>2 DEF ClientInv, TypeOK
  <1>4. /\ call[c].op # "create"
        /\ UNCHANGED <<store, call, calls, faults>>
        /\ Free(c, RowLock(call[c].id))
    BY <1>1, <1>3, EditingForms
  <1>5. faults' \in 0..MaxFaults
    BY <1>1, <1>4 DEF TypeOK
  <1>6. CASE \E a \in {"notFound", "conflict", "unauthorized", "done"} : Finish(c, a)
    BY <1>3, <1>4, <1>5, <1>6, FinishStep DEF Promise!Answers
  <1>7. CASE Rewrites(c)
    <2>1. PICK before \in Row \cup {None}, after \in Row :
            /\ call[c].id \in DOMAIN rows
            /\ Edited(call[c], rows[call[c].id], before, after)
            /\ Continue(c, "audit", RowLock(call[c].id),
                        [id |-> call[c].id, before |-> before, after |-> after, head |-> 0])
      BY <1>7 DEF Rewrites
    <2> DEFINE w == [id |-> call[c].id, before |-> before, after |-> after, head |-> 0]
    <2>2. call[c].id \in Nat
      BY <1>1, <2>1 DEF TypeOK
    <2>3. w \in Work /\ w.id = call[c].id /\ w.before = before /\ w.after = after
      BY <2>2 DEF Work
    <2> HIDE DEF w
    <2>4. Continue(c, "audit", RowLock(call[c].id), w)
      BY <2>1 DEF w
    <2>5. RowLock(call[c].id) \in LockNames
      BY <2>1 DEF LockNames
    <2>6. /\ pc'[c] = "audit" /\ RowLock(call[c].id) \in locks'[c] /\ work'[c] = w
          /\ call'[c] = call[c] /\ answer'[c] = answer[c] /\ rows' = rows
      BY <1>1, <1>4, <2>4 DEF TypeOK, Continue, store
    <2>7. Editing(c)'
      BY <2>1, <2>3, <2>6 DEF Editing
    <2>8. ClientInv(c)'
      BY <1>3, <1>4, <2>6, <2>7 DEF ClientInv
    <2>9. QED
      BY <1>4, <2>3, <2>4, <2>5, <2>8, ContinueStep
  <1>8. QED
    BY <1>1, <1>3, <1>6, <1>7, EditingForms

\* A transaction locks the chain and reads its head.
LEMMA AppendAuditStep ==
  ASSUME IInv, NEW c \in Clients, AppendAudit(c)
  PROVE  IInv'
  <1>1. TypeOK /\ ClientInv(c)
    BY DEF IInv
  <1> DEFINE w == [work[c] EXCEPT !.head = Len(chain)]
  <1>2. /\ pc[c] = "audit" /\ Free(c, Today) /\ Continue(c, "commit", Today, w)
        /\ UNCHANGED <<store, call, calls, faults>>
    BY DEF AppendAudit
  <1>3. Len(chain) \in Nat
    BY <1>1 DEF TypeOK
  <1>4. /\ w \in Work /\ w.id = work[c].id /\ w.before = work[c].before /\ w.after = work[c].after
        /\ w.head = Len(chain)
    BY <1>1, <1>3 DEF TypeOK, Work
  <1> HIDE DEF w
  <1>5. /\ pc'[c] = "commit" /\ locks'[c] = locks[c] \cup {Today} /\ work'[c] = w
        /\ call'[c] = call[c] /\ answer'[c] = answer[c]
        /\ rows' = rows /\ old' = old /\ keys' = keys /\ chain' = chain
    BY <1>1, <1>2 DEF TypeOK, Continue, store
  <1>6. Creating(c) => Creating(c)'
    BY <1>5 DEF Creating
  <1>7. Inserted(c) => Inserted(c)'
    BY <1>4, <1>5 DEF Inserted, Promise!Taken, Promise!OfKind, Promise!NewRow
  <1>8. Editing(c) => Editing(c)'
    BY <1>4, <1>5 DEF Editing
  <1>9. ClientInv(c)'
    BY <1>1, <1>2, <1>4, <1>5, <1>6, <1>7, <1>8 DEF ClientInv
  <1>10. Today \in LockNames
    BY DEF LockNames
  <1>11. QED
    BY <1>2, <1>4, <1>9, <1>10, ContinueStep

\* A broken transaction, or the victim of a deadlock, leaves nothing behind.
LEMMA BrokenStep ==
  ASSUME IInv, NEW c \in Clients, Broken(c) \/ DeadlockVictim(c)
  PROVE  IInv'
  <1>1. TypeOK /\ ClientInv(c)
    BY DEF IInv
  <1>2. /\ pc[c] \notin {"idle", "done"} /\ Finish(c, "unavailable")
        /\ UNCHANGED <<store, call, calls>>
    BY DEF Broken, DeadlockVictim, Deadlocked, WaitsFor
  <1>3. faults' \in 0..MaxFaults
    BY <1>1, BoundsAssumption DEF TypeOK, Broken, DeadlockVictim, Fault
  <1>4. call[c] # None
    BY <1>1, <1>2 DEF ClientInv
  <1>5. QED
    BY <1>2, <1>3, <1>4, FinishStep DEF Promise!Answers

\* A row becomes older than 24 hours, and its key is forgotten.
LEMMA AgeStep ==
  ASSUME IInv, NEW i \in DOMAIN rows, Age(i)
  PROVE  IInv'
  <1>1. TypeOK /\ Exclusive /\ NamesApart /\ KeyInv /\ CreatedOnce /\ AuditTellsAll
    BY DEF IInv
  <1>2. /\ old' = old \cup {i}
        /\ UNCHANGED <<rows, keys, chain, call, answer, pc, locks, work, calls, faults>>
    BY DEF Age
  <1>3. TypeOK'
    BY <1>1, <1>2 DEF TypeOK
  <1>4. ASSUME NEW d \in Clients PROVE ClientInv(d)'
    <2>1. ClientInv(d)
      BY DEF IInv
    <2>2. Creating(d) => Creating(d)'
      BY <1>2 DEF Creating
    <2>3. Inserted(d) => Inserted(d)'
      BY <1>2 DEF Inserted, Promise!Taken, Promise!OfKind, Promise!NewRow
    <2>4. Editing(d) => Editing(d)'
      BY <1>2 DEF Editing
    <2>5. QED
      BY <1>2, <2>1, <2>2, <2>3, <2>4 DEF ClientInv
  <1>5. Exclusive' /\ NamesApart'
    BY <1>1, <1>2 DEF Exclusive, NamesApart, Uncommitted, SameName
  <1>6. KeyInv' /\ CreatedOnce'
    BY <1>1, <1>2 DEF KeyInv, CreatedOnce
  <1>7. AuditTellsAll'
    BY <1>1, <1>2 DEF AuditTellsAll, LatestBefore
  <1>8. QED
    BY <1>3, <1>4, <1>5, <1>6, <1>7 DEF IInv

\* The chain stays the history of the rows when an event about row i is appended
\* together with what it says of the row.
LEMMA AuditGrows ==
  ASSUME AuditTellsAll, chain \in Seq(Event), rows' \in Seq(Row),
         NEW i \in DOMAIN rows', NEW e \in Event, chain' = Append(chain, e),
         e.id = i, e.previous = Len(chain), e.after = rows'[i],
         \A j \in DOMAIN rows' \ {i} : j \in DOMAIN rows /\ rows'[j] = rows[j],
         e.before # None => i \in DOMAIN rows /\ e.before = rows[i]
  PROVE  AuditTellsAll'
  <1> DEFINE n == Len(chain)
  <1>1. /\ n \in Nat /\ Len(chain') = n + 1 /\ DOMAIN chain = 1..n /\ DOMAIN chain' = 1..(n + 1)
        /\ chain'[n + 1] = e
        /\ \A m \in 1..n : chain'[m] = chain[m]
    OBVIOUS
  <1> HIDE DEF n
  <1>2. ASSUME NEW m \in 1..(n + 1), NEW j PROVE LatestBefore(m, j)' = LatestBefore(m, j)
    <2>1. \A k \in 1..(m - 1) : chain'[k] = chain[k]
      BY <1>1
    <2>2. QED
      BY <1>1, <2>1 DEF LatestBefore
  <1>3. \A j \in DOMAIN rows : \E m \in LatestBefore(n + 1, j) : chain[m].after = rows[j]
    BY DEF AuditTellsAll, n
  <1>4. ASSUME NEW m \in DOMAIN chain'
        PROVE  /\ chain'[m].previous = m - 1
               /\ chain'[m].before # None =>
                    \E q \in LatestBefore(m, chain[m].id)' : chain'[q].after = chain'[m].before
    <2>1. CASE m \in 1..n
      <3>1. chain'[m] = chain[m] /\ m \in DOMAIN chain /\ m \in 1..(n + 1)
        BY <1>1, <2>1
      <3>2. LatestBefore(m, chain[m].id)' = LatestBefore(m, chain[m].id)
        BY <3>1, <1>2
      <3>3. \A q \in LatestBefore(m, chain[m].id) : chain'[q] = chain[q]
        BY <1>1, <2>1 DEF LatestBefore
      <3>4. /\ chain[m].previous = m - 1
            /\ chain[m].before # None =>
                 \E q \in LatestBefore(m, chain[m].id) : chain[q].after = chain[m].before
        BY <3>1 DEF AuditTellsAll
      <3>5. QED
        BY <3>1, <3>2, <3>3, <3>4
    <2>2. CASE m = n + 1
      <3>1. chain'[m] = e /\ m \in 1..(n + 1)
        BY <1>1, <2>2
      <3>2. e.previous = m - 1
        BY <1>1, <2>2 DEF n
      <3>3. ASSUME e.before # None
            PROVE  \E q \in LatestBefore(m, chain[m].id)' : chain'[q].after = e.before
        <4>1. PICK q \in LatestBefore(n + 1, i) : chain[q].after = rows[i]
          BY <1>3, <3>3
        <4>2. LatestBefore(m, chain[m].id)' = LatestBefore(m, i)
          BY <3>1, <1>2
        <4>3. chain'[q] = chain[q]
          BY <1>1, <4>1 DEF LatestBefore
        <4>4. QED
          BY <2>2, <3>3, <4>1, <4>2, <4>3
      <3>4. QED
        BY <3>1, <3>2, <3>3
    <2>3. m \in 1..n \/ m = n + 1
      BY <1>1
    <2>4. QED
      BY <2>1, <2>2, <2>3
  <1>5. ASSUME NEW j \in DOMAIN rows'
        PROVE  \E m \in LatestBefore(Len(chain) + 1, j)' : chain'[m].after = rows'[j]
    <2>0. ASSUME NEW x \in 1..(n + 1), chain'[x].id = j, \A k \in (x + 1)..(n + 1) : chain'[k].id # j
          PROVE  x \in LatestBefore(Len(chain) + 1, j)'
      <3>1. (Len(chain') + 1) - 1 = n + 1
        BY <1>1
      <3>2. QED
        BY <2>0, <3>1 DEF LatestBefore
    <2>1. CASE j = i
      BY <1>1, <2>0, <2>1
    <2>2. CASE j # i
      <3>1. j \in DOMAIN rows /\ rows'[j] = rows[j]
        BY <2>2
      <3>2. PICK q \in LatestBefore(n + 1, j) : chain[q].after = rows[j]
        BY <1>3, <3>1
      <3>3. q \in 1..n /\ chain'[q] = chain[q] /\ chain[q].id = j /\ \A k \in (q + 1)..n : chain[k].id # j
        BY <1>1, <3>2 DEF LatestBefore
      <3>4. \A k \in (q + 1)..(n + 1) : chain'[k].id # j
        BY <1>1, <2>2, <3>3
      <3>5. q \in LatestBefore(Len(chain) + 1, j)'
        <4>1. q \in 1..(n + 1)
          BY <1>1, <3>3
        <4>2. chain'[q].id = j
          BY <3>3
        <4>3. QED
          BY <2>0, <3>4, <4>1, <4>2
      <3>6. QED
        BY <3>1, <3>2, <3>3, <3>5
    <2>3. QED
      BY <2>1, <2>2
  <1>6. QED
    BY <1>4, <1>5 DEF AuditTellsAll

--------------------------------------------------------------------------------
(* The commit *)

\* What a transaction about to commit holds.
LEMMA Committing ==
  ASSUME IInv, NEW c \in Clients, Commit(c)
  PROVE  /\ TypeOK /\ pc[c] = "commit" /\ call[c] \in Commands /\ answer[c] = None
         /\ Today \in locks[c] /\ work[c] \in Work /\ work[c].head = Len(chain)
         /\ IF call[c].op = "create" THEN call[c] \in Creation /\ Creating(c) /\ Inserted(c) ELSE Editing(c)
  <1>1. TypeOK /\ ClientInv(c) /\ pc[c] = "commit"
    BY DEF IInv, Commit
  <1>2. call[c] \in Commands /\ work[c] \in Work
    BY <1>1 DEF TypeOK, ClientInv
  <1>3. QED
    BY <1>1, <1>2, CommandForms DEF ClientInv

\* A creation appends its row.
LEMMA CommitCreates ==
  ASSUME IInv, NEW c \in Clients, Commit(c), call[c].op = "create"
  PROVE  /\ Len(rows) \in Nat /\ Len(rows) + 1 \notin DOMAIN rows
         /\ rows' \in Seq(Row) /\ DOMAIN rows' = DOMAIN rows \cup {Len(rows) + 1}
         /\ rows' = Append(rows, Promise!NewRow(call[c], NewStatus[call[c].kind]))
         /\ rows'[Len(rows) + 1] \in Row
         /\ rows'[Len(rows) + 1].kind = call[c].kind
         /\ rows'[Len(rows) + 1].key = call[c].key
         /\ rows'[Len(rows) + 1].name = call[c].name
         /\ \A j \in DOMAIN rows : rows'[j] = rows[j]
         /\ keys' = [keys EXCEPT ![call[c].key] = Len(rows) + 1]
         /\ chain' = Append(chain, [id |-> Len(rows) + 1, before |-> None, after |-> rows'[Len(rows) + 1],
                                    previous |-> Len(chain)])
  <1>1. /\ TypeOK /\ call[c] \in Creation /\ Inserted(c) /\ work[c].head = Len(chain)
    BY Committing
  <1> DEFINE row == Promise!NewRow(call[c], NewStatus[call[c].kind])
  <1>2. /\ row \in Row /\ row.kind = call[c].kind /\ row.key = call[c].key /\ row.name = call[c].name
    BY <1>1, NewRowType
  <1>3. work[c].after = row /\ work[c].before = None
    BY <1>1 DEF Inserted
  <1>4. /\ rows' = Append(rows, row)
        /\ keys' = [keys EXCEPT ![call[c].key] = Len(rows) + 1]
        /\ chain' = Append(chain, [id |-> Len(rows) + 1, before |-> None, after |-> row, previous |-> Len(chain)])
    BY <1>1, <1>3 DEF Commit
  <1> HIDE DEF row
  <1>5. rows \in Seq(Row)
    BY <1>1 DEF TypeOK
  <1>6. /\ Len(rows) \in Nat /\ DOMAIN rows = 1..Len(rows)
        /\ rows' \in Seq(Row) /\ DOMAIN rows' = 1..(Len(rows) + 1)
        /\ rows'[Len(rows) + 1] = row
        /\ \A j \in 1..Len(rows) : rows'[j] = rows[j]
    BY <1>2, <1>4, <1>5
  <1>7. Len(rows) + 1 \notin DOMAIN rows /\ DOMAIN rows' = DOMAIN rows \cup {Len(rows) + 1}
    BY <1>6
  <1>8. QED
    BY <1>2, <1>4, <1>6, <1>7 DEF row

\* An edit replaces its row by one with the same kind, key and name.
LEMMA CommitEdits ==
  ASSUME IInv, NEW c \in Clients, Commit(c), call[c].op # "create"
  PROVE  /\ call[c].id \in DOMAIN rows /\ rows \in Seq(Row)
         /\ rows' \in Seq(Row) /\ DOMAIN rows' = DOMAIN rows
         /\ rows' = [rows EXCEPT ![call[c].id] = work[c].after]
         /\ rows'[call[c].id] = work[c].after /\ work[c].before \in {rows[call[c].id], None}
         /\ \A j \in DOMAIN rows : /\ rows'[j].kind = rows[j].kind
                                   /\ rows'[j].key = rows[j].key
                                   /\ rows'[j].name = rows[j].name
         /\ \A j \in DOMAIN rows \ {call[c].id} : rows'[j] = rows[j]
         /\ keys' = keys
         /\ chain' = Append(chain, [id |-> call[c].id, before |-> work[c].before, after |-> work[c].after,
                                    previous |-> Len(chain)])
  <1> DEFINE i == call[c].id
  <1>1. /\ TypeOK /\ call[c] \in Commands /\ Editing(c) /\ work[c].head = Len(chain)
    BY Committing
  <1>2. i \in DOMAIN rows /\ work[c].id = i /\ Edited(call[c], rows[i], work[c].before, work[c].after)
    BY <1>1 DEF Editing
  <1>3. rows \in Seq(Row) /\ rows[i] \in Row
    BY <1>1, <1>2 DEF TypeOK
  <1>4. /\ work[c].after \in Row
        /\ work[c].after.kind = rows[i].kind /\ work[c].after.key = rows[i].key
        /\ work[c].after.name = rows[i].name
        /\ work[c].before \in {rows[i], None}
    <2>1. call[c] \in Commands /\ rows[i] \in Row
      BY <1>1, <1>3
    <2> HIDE DEF i
    <2>2. QED
      BY <1>2, <2>1, EditedRow
  <1>5. /\ rows' = [rows EXCEPT ![i] = work[c].after] /\ keys' = keys
        /\ chain' = Append(chain, [id |-> i, before |-> work[c].before, after |-> work[c].after,
                                   previous |-> Len(chain)])
    BY <1>1, <1>2 DEF Commit
  <1> HIDE DEF i
  <1>6. /\ rows' \in Seq(Row) /\ DOMAIN rows' = DOMAIN rows /\ rows'[i] = work[c].after
        /\ \A j \in DOMAIN rows \ {i} : rows'[j] = rows[j]
    BY <1>2, <1>3, <1>4, <1>5
  <1>7. QED
    BY <1>2, <1>3, <1>4, <1>5, <1>6 DEF i

\* How a commit ends.
LEMMA CommitEnds ==
  ASSUME IInv, NEW c \in Clients, Commit(c)
  PROVE  /\ \E a \in {"created", "done", "unavailable"} : Finish(c, a)
         /\ pc'[c] = "done" /\ locks'[c] = {} /\ answer'[c] # None
         /\ UNCHANGED <<old, call, calls>> /\ faults' \in 0..MaxFaults
         /\ \A d \in Clients \ {c} : /\ answer'[d] = answer[d] /\ pc'[d] = pc[d]
                                     /\ locks'[d] = locks[d] /\ work'[d] = work[d]
  <1>1. TypeOK
    BY DEF IInv
  <1>2. UNCHANGED <<old, call, calls>> /\ faults' \in 0..MaxFaults
    BY <1>1, BoundsAssumption DEF Commit, TypeOK, Fault
  <1>3. PICK a \in {"created", "done", "unavailable"} : Finish(c, a)
    BY DEF Commit
  <1>4. a # None
    BY CommandsAssumption DEF Promise!Answers
  <1>5. QED
    BY <1>1, <1>2, <1>3, <1>4 DEF TypeOK, Finish

\* A commit keeps the types.
LEMMA CommitTypes ==
  ASSUME IInv, NEW c \in Clients, Commit(c)
  PROVE  TypeOK'
  <1>1. TypeOK /\ work[c] \in Work /\ call[c] \in Commands
    BY Committing
  <1>2. /\ rows' \in Seq(Row) /\ DOMAIN rows \subseteq DOMAIN rows'
        /\ keys' \in [Keys -> {0} \cup DOMAIN rows'] /\ chain' \in Seq(Event)
    <2>1. CASE call[c].op = "create"
      <3> DEFINE i == Len(rows) + 1
                 e == [id |-> i, before |-> None, after |-> rows'[i], previous |-> Len(chain)]
      <3>1. call[c] \in Creation
        BY <2>1, Committing
      <3>2. call[c].key \in Keys
        BY <3>1 DEF Creation, Promise!Creation
      <3>3. /\ Len(rows) \in Nat /\ rows' \in Seq(Row) /\ DOMAIN rows' = DOMAIN rows \cup {i}
            /\ keys' = [keys EXCEPT ![call[c].key] = i] /\ chain' = Append(chain, e)
        BY <2>1, CommitCreates
      <3>4. rows'[i] \in Row
        BY <2>1, CommitCreates
      <3>5. e \in Event
        BY <1>1, <3>3, <3>4 DEF Event, TypeOK
      <3> HIDE DEF i, e
      <3>6. QED
        BY <1>1, <3>2, <3>3, <3>5 DEF TypeOK
    <2>2. CASE call[c].op # "create"
      <3> DEFINE i == call[c].id
                 e == [id |-> i, before |-> work[c].before, after |-> work[c].after, previous |-> Len(chain)]
      <3>1. /\ i \in DOMAIN rows /\ rows \in Seq(Row) /\ rows' \in Seq(Row) /\ DOMAIN rows' = DOMAIN rows
            /\ rows'[i] = work[c].after /\ work[c].before \in {rows[i], None}
            /\ keys' = keys /\ chain' = Append(chain, e)
        BY <2>2, CommitEdits
      <3>2. /\ rows'[i] \in Row /\ rows[i] \in Row /\ i \in Nat \ {0}
        <4>1. i \in DOMAIN rows'
          BY <3>1
        <4> HIDE DEF i
        <4>2. QED
          BY <3>1, <4>1, RowOf
      <3>3. e \in Event
        BY <1>1, <3>1, <3>2 DEF Event, TypeOK
      <3> HIDE DEF i, e
      <3>4. QED
        <4>1. chain \in Seq(Event) /\ keys \in [Keys -> {0} \cup DOMAIN rows]
          BY <1>1 DEF TypeOK
        <4>2. chain' \in Seq(Event)
          BY <3>1, <3>3, <4>1
        <4>3. QED
          BY <3>1, <4>1, <4>2
    <2>3. QED
      BY <2>1, <2>2
  <1>3. PICK a \in {"created", "done", "unavailable"} : Finish(c, a)
    BY CommitEnds
  <1>4. UNCHANGED <<old, call, calls>> /\ faults' \in 0..MaxFaults
    BY CommitEnds
  <1>5. NoWork \in Work
    BY DEF NoWork, Work
  <1>6. /\ answer' \in [Clients -> Promise!Answers \cup {None}]
        /\ pc' \in [Clients -> States]
        /\ work' \in [Clients -> Work]
    BY <1>1, <1>3, <1>5 DEF TypeOK, Finish, Promise!Answers, States
  <1>7. locks' \in [Clients -> SUBSET (LockNames')]
    <2>1. LockNames \subseteq LockNames'
      BY <1>2 DEF LockNames
    <2>2. locks \in [Clients -> SUBSET LockNames]
      BY <1>1 DEF TypeOK, LockNames
    <2>3. locks' = [locks EXCEPT ![c] = {}]
      BY <1>3 DEF Finish
    <2> HIDE DEF LockNames
    <2>4. QED
      BY <2>1, <2>2, <2>3
  <1>8. QED
    BY <1>1, <1>2, <1>4, <1>6, <1>7 DEF TypeOK, States, LockNames

\* The other requests keep what they rely on: their locks are not those of c.
LEMMA CommitOthers ==
  ASSUME IInv, NEW c \in Clients, Commit(c), NEW d \in Clients, d # c
  PROVE  ClientInv(d)'
  <1>1. /\ TypeOK /\ Exclusive /\ NamesApart /\ ClientInv(d) /\ ClientInv(c)
    BY DEF IInv
  <1>2. /\ answer'[d] = answer[d] /\ pc'[d] = pc[d] /\ locks'[d] = locks[d] /\ work'[d] = work[d]
        /\ call' = call /\ old' = old
    BY CommitEnds
  <1>3. pc[c] = "commit" /\ call[c] \in Commands /\ Today \in locks[c]
    BY Committing
  <1>4. locks[c] \cap locks[d] = {}
    BY <1>1 DEF Exclusive
  <1>5. pc[d] # "commit"
    BY <1>1, <1>3, <1>4 DEF ClientInv
  <1>6. Creating(d) => Creating(d)'
    <2>1. CASE call[c].op = "create"
      <3>1. keys' = [keys EXCEPT ![call[c].key] = Len(rows) + 1] /\ call[c].key \in locks[c]
        BY <2>1, CommitCreates, Committing DEF Creating
      <3>2. Creating(d) => keys'[call[d].key] = keys[call[d].key]
        BY <1>1, <1>4, <3>1 DEF Creating, TypeOK
      <3>3. QED
        BY <1>2, <3>2 DEF Creating
    <2>2. CASE call[c].op # "create"
      BY <2>2, <1>2, CommitEdits DEF Creating
    <2>3. QED
      BY <2>1, <2>2
  <1>7. pc[d] = "audit" /\ call[d].op = "create" /\ Inserted(d) => Inserted(d)'
    <2> SUFFICES ASSUME pc[d] = "audit", call[d].op = "create", Inserted(d) PROVE Inserted(d)'
      OBVIOUS
    <2>1. call[d].kind # "zone" => ~ Promise!Taken(call[d])'
      <3> SUFFICES ASSUME call[d].kind # "zone", NEW i \in DOMAIN rows',
                          rows'[i].kind = call[d].kind, rows'[i].name = call[d].name
                   PROVE  FALSE
        BY <1>2 DEF Promise!Taken, Promise!OfKind
      <3>1. ~ (i \in DOMAIN rows /\ rows[i].kind = call[d].kind /\ rows[i].name = call[d].name)
        BY DEF Inserted, Promise!Taken, Promise!OfKind
      <3>2. CASE call[c].op = "create"
        <4>1. i = Len(rows) + 1
          BY <3>1, <3>2, CommitCreates
        <4>2. SameName(d, c)
          BY <3>2, <4>1, CommitCreates DEF SameName
        <4>3. c \in Uncommitted /\ d \in Uncommitted
          BY <1>3, <3>2 DEF Uncommitted
        <4>4. QED
          BY <1>1, <4>2, <4>3 DEF NamesApart
      <3>3. CASE call[c].op # "create"
        BY <3>1, <3>3, CommitEdits
      <3>4. QED
        BY <3>2, <3>3
    <2>2. QED
      BY <1>2, <2>1 DEF Inserted, Promise!NewRow
  <1>8. Editing(d) => Editing(d)'
    <2> SUFFICES ASSUME Editing(d) PROVE Editing(d)'
      OBVIOUS
    <2>1. call[d].id \in DOMAIN rows' /\ rows'[call[d].id] = rows[call[d].id]
      <3>1. CASE call[c].op = "create"
        BY <3>1, CommitCreates DEF Editing
      <3>2. CASE call[c].op # "create"
        <4>1. RowLock(call[c].id) \in locks[c]
          BY <3>2, Committing DEF Editing
        <4>2. call[c].id # call[d].id
          BY <1>4, <4>1 DEF Editing
        <4>3. QED
          BY <3>2, <4>2, CommitEdits DEF Editing
      <3>3. QED
        BY <3>1, <3>2
    <2>2. QED
      BY <1>2, <2>1 DEF Editing
  <1>9. QED
    BY <1>1, <1>2, <1>5, <1>6, <1>7, <1>8 DEF ClientInv

\* After a commit every key still leads to the last row created with it.
LEMMA CommitKeys ==
  ASSUME IInv, NEW c \in Clients, Commit(c)
  PROVE  KeyInv' /\ CreatedOnce'
  <1>1. /\ TypeOK /\ KeyInv /\ CreatedOnce
    BY DEF IInv
  <1>2. old' = old
    BY CommitEnds
  <1>3. CASE call[c].op = "create"
    <2> DEFINE k == call[c].key
               n == Len(rows) + 1
    <2>1. call[c] \in Creation /\ Creating(c)
      BY <1>3, Committing
    <2>2. k \in Keys /\ keys[k] \in old \cup {0}
      BY <2>1 DEF Creation, Promise!Creation, Creating
    <2>3. /\ Len(rows) \in Nat /\ DOMAIN rows' = DOMAIN rows \cup {n} /\ n \notin DOMAIN rows
          /\ rows'[n].key = k /\ keys' = [keys EXCEPT ![k] = n]
          /\ \A j \in DOMAIN rows : rows'[j] = rows[j]
      BY <1>3, CommitCreates
    <2>4. \A j \in DOMAIN rows : j \in Nat /\ j < n
      BY <1>1, <2>3 DEF TypeOK
    <2>5. n # 0 /\ n \in Nat
      BY <2>3
    <2> HIDE DEF n, k
    <2>6. \A j \in DOMAIN rows \ old : rows[j].key # k
      <3>1. ASSUME NEW j \in DOMAIN rows \ old, rows[j].key = k PROVE FALSE
        <4>1. keys[k] = j
          BY <1>1, <3>1 DEF KeyInv
        <4>2. j # 0
          BY <1>1 DEF TypeOK
        <4>3. QED
          BY <2>2, <3>1, <4>1, <4>2
      <3>2. QED
        BY <3>1
    <2>7. keys'[k] = n /\ \A q \in Keys \ {k} : keys'[q] = keys[q]
      BY <1>1, <2>2, <2>3 DEF TypeOK
    <2>8. \A q \in Keys : keys[q] \in {0} \cup DOMAIN rows
      BY <1>1 DEF TypeOK
    <2>9. \A j \in DOMAIN rows : rows[j].key \in Keys
      <3>1. \A j \in DOMAIN rows : rows[j] \in Row
        BY <1>1 DEF TypeOK
      <3>2. QED
        BY <3>1 DEF Row, Promise!Row
    <2>10. KeyInv'
      <3>1. ASSUME NEW q \in Keys, keys'[q] # 0 PROVE rows'[keys'[q]].key = q
        <4>1. CASE q = k
          BY <4>1, <2>3, <2>7
        <4>2. CASE q # k
          BY <4>2, <3>1, <1>1, <2>3, <2>7, <2>8 DEF KeyInv
        <4>3. QED
          BY <4>1, <4>2
      <3>2. ASSUME NEW j \in DOMAIN rows' \ old' PROVE keys'[rows'[j].key] = j
        <4>1. CASE j = n
          BY <4>1, <2>3, <2>7
        <4>2. CASE j # n
          <5>1. j \in DOMAIN rows \ old /\ rows'[j] = rows[j] /\ rows[j].key \in Keys \ {k}
            BY <4>2, <3>2, <1>2, <2>3, <2>6, <2>9
          <5>2. QED
            BY <5>1, <1>1, <2>7 DEF KeyInv
        <4>3. QED
          BY <4>1, <4>2
      <3>3. QED
        BY <3>1, <3>2 DEF KeyInv
    <2>11. CreatedOnce'
      <3> SUFFICES ASSUME NEW i \in DOMAIN rows', NEW j \in DOMAIN rows', i < j, rows'[i].key = rows'[j].key
                   PROVE  i \in old'
        BY DEF CreatedOnce
      <3>1. i # n
        BY <2>3, <2>4, <2>5
      <3>2. i \in DOMAIN rows /\ rows'[i] = rows[i]
        BY <3>1, <2>3
      <3>3. CASE j = n
        BY <3>2, <3>3, <1>2, <2>3, <2>6
      <3>4. CASE j # n
        <4>1. j \in DOMAIN rows /\ rows'[j] = rows[j]
          BY <3>4, <2>3
        <4>2. QED
          BY <3>2, <4>1, <1>1, <1>2 DEF CreatedOnce
      <3>5. QED
        BY <3>3, <3>4
    <2>12. QED
      BY <2>10, <2>11
  <1>4. CASE call[c].op # "create"
    <2>1. /\ keys' = keys /\ DOMAIN rows' = DOMAIN rows
          /\ \A j \in DOMAIN rows : rows'[j].key = rows[j].key
      BY <1>4, CommitEdits
    <2>2. \A q \in Keys : keys[q] \in {0} \cup DOMAIN rows
      BY <1>1 DEF TypeOK
    <2>3. KeyInv'
      BY <1>1, <1>2, <2>1, <2>2 DEF KeyInv
    <2>4. CreatedOnce'
      BY <1>1, <1>2, <2>1 DEF CreatedOnce
    <2>5. QED
      BY <2>3, <2>4
  <1>5. QED
    BY <1>3, <1>4

\* The event of a commit continues the chain, and shows its row as it is.
LEMMA CommitAudit ==
  ASSUME IInv, NEW c \in Clients, Commit(c)
  PROVE  AuditTellsAll'
  <1>1. AuditTellsAll /\ TypeOK /\ chain \in Seq(Event) /\ work[c] \in Work
    BY Committing DEF IInv, TypeOK
  <1>2. Len(chain) \in Nat
    BY <1>1
  <1>3. CASE call[c].op = "create"
    <2> DEFINE i == Len(rows) + 1
               e == [id |-> i, before |-> None, after |-> rows'[i], previous |-> Len(chain)]
    <2>1. /\ Len(rows) \in Nat /\ rows' \in Seq(Row) /\ DOMAIN rows' = DOMAIN rows \cup {i}
          /\ chain' = Append(chain, e) /\ \A j \in DOMAIN rows : rows'[j] = rows[j]
          /\ rows'[i] \in Row
      BY <1>3, CommitCreates
    <2>2. i \in Nat \ {0}
      BY <2>1
    <2>3. e.id = i /\ e.before = None /\ e.after = rows'[i] /\ e.previous = Len(chain)
      OBVIOUS
    <2> HIDE DEF i
    <2>4. i \in DOMAIN rows'
      BY <2>1
    <2>5. e \in Event
      BY <1>2, <2>1, <2>2 DEF Event
    <2> HIDE DEF e
    <2>6. \A j \in DOMAIN rows' \ {i} : j \in DOMAIN rows /\ rows'[j] = rows[j]
      BY <2>1
    <2>7. QED
      BY <1>1, <2>1, <2>3, <2>4, <2>5, <2>6, AuditGrows
  <1>4. CASE call[c].op # "create"
    <2> DEFINE i == call[c].id
               e == [id |-> i, before |-> work[c].before, after |-> work[c].after, previous |-> Len(chain)]
    <2>1. /\ i \in DOMAIN rows /\ rows \in Seq(Row) /\ rows' \in Seq(Row) /\ DOMAIN rows' = DOMAIN rows
          /\ rows'[i] = work[c].after /\ work[c].before \in {rows[i], None}
          /\ chain' = Append(chain, e) /\ \A j \in DOMAIN rows \ {i} : rows'[j] = rows[j]
      BY <1>4, CommitEdits
    <2>2. e.id = i /\ e.before = work[c].before /\ e.after = rows'[i] /\ e.previous = Len(chain)
      BY <2>1
    <2> HIDE DEF i
    <2>3. rows'[i] \in Row /\ rows[i] \in Row /\ i \in Nat \ {0}
      BY <2>1
    <2>4. e \in Event
      BY <1>2, <2>1, <2>3 DEF Event
    <2> HIDE DEF e
    <2>5. \A j \in DOMAIN rows' \ {i} : j \in DOMAIN rows /\ rows'[j] = rows[j]
      BY <2>1
    <2>6. e.before # None => i \in DOMAIN rows /\ e.before = rows[i]
      BY <2>1, <2>2
    <2>7. QED
      BY <1>1, <2>1, <2>2, <2>4, <2>5, <2>6, AuditGrows
  <1>5. QED
    BY <1>3, <1>4

\* A commit keeps the invariant.
LEMMA CommitStep ==
  ASSUME IInv, NEW c \in Clients, Commit(c)
  PROVE  IInv'
  <1>1. Exclusive /\ NamesApart /\ call[c] # None
    BY Committing, CommandsAssumption DEF IInv
  <1>2. /\ pc'[c] = "done" /\ locks'[c] = {} /\ answer'[c] # None /\ call' = call
        /\ \A d \in Clients \ {c} : pc'[d] = pc[d] /\ locks'[d] = locks[d]
    BY CommitEnds
  <1>3. ClientInv(c)'
    BY <1>1, <1>2 DEF ClientInv
  <1>4. \A d \in Clients : ClientInv(d)'
    BY <1>3, CommitOthers
  <1>5. Exclusive'
    BY <1>1, <1>2 DEF Exclusive
  <1>6. NamesApart'
    BY <1>1, <1>2 DEF NamesApart, Uncommitted, SameName
  <1>7. QED
    BY <1>4, <1>5, <1>6, CommitTypes, CommitKeys, CommitAudit DEF IInv

\* The invariant is inductive.
LEMMA NextInv ==
  ASSUME IInv, [Next]_vars
  PROVE  IInv'
  <1>1. ASSUME NEW c \in Clients, Step(c) PROVE IInv'
    <2>1. CASE Beginning(c)
      BY <2>1, LookUpStep, EditingStep DEF Beginning, Editings
    <2>2. QED
      BY <1>1, <2>1, HandlingStep, InsertingStep, AppendAuditStep, CommitStep, BrokenStep DEF Step
  <1>2. CASE UNCHANGED vars
    <2>1. UNCHANGED <<rows, old, call, answer, keys, chain, pc, locks, work, calls, faults>>
      BY <1>2 DEF vars
    <2>2. \A d \in Clients : ClientInv(d)'
      BY <2>1, Frame DEF IInv
    <2>3. TypeOK'
      BY <2>1 DEF IInv, TypeOK
    <2>4. Exclusive' /\ NamesApart'
      BY <2>1 DEF IInv, Exclusive, NamesApart, Uncommitted, SameName
    <2>5. KeyInv' /\ CreatedOnce'
      BY <2>1 DEF IInv, KeyInv, CreatedOnce
    <2>6. AuditTellsAll'
      BY <2>1 DEF IInv, AuditTellsAll, LatestBefore
    <2>7. QED
      BY <2>2, <2>3, <2>4, <2>5, <2>6 DEF IInv
  <1>3. QED
    BY <1>1, <1>2, BrokenStep, ReturnStep, ArriveStep, AgeStep DEF Next

\* The invariant holds in every reachable state.
THEOREM Invariance == Spec => []IInv
  <1>1. IInv /\ [Next]_vars => IInv'
    BY NextInv
  <1>2. QED
    BY InitInv, <1>1, PTL DEF Spec

\* Every variable keeps its type.
THEOREM TypeCorrect == Spec => []TypeOK
  <1>1. IInv => TypeOK
    BY DEF IInv
  <1>2. QED
    BY <1>1, Invariance, PTL

\* However often a creation is sent again, of the rows created under one
\* idempotency key only the last is less than 24 hours old.
THEOREM CreatesOnce == Spec => []CreatedOnce
  <1>1. IInv => CreatedOnce
    BY DEF IInv
  <1>2. QED
    BY <1>1, Invariance, PTL

\* The audit chain of the day is unbroken, and it is the history of the rows.
THEOREM AuditComplete == Spec => []AuditTellsAll
  <1>1. IInv => AuditTellsAll
    BY DEF IInv
  <1>2. QED
    BY <1>1, Invariance, PTL

--------------------------------------------------------------------------------
(***************************************************************************)
(* RegistryStore implements Registry, and fails only on a fault.  With the *)
(* invariant, what a transaction has read under its locks is the state it  *)
(* changes.  So the step that answers a request without a change is a      *)
(* refusal or a replay of Registry, a commit is its creation or edit, and  *)
(* every other step is silent.                                             *)
(***************************************************************************)

\* No step answers with an error but a fault, the end of a deadlock, and the
\* creation of a zone for a camera that is not there.
LEMMA ErrorStep ==
  ASSUME IInv, [Next]_vars
  PROVE  [\A c \in Clients :
            answer[c] = None /\ answer'[c] = "unavailable" =>
              faults' = faults + 1 \/ Deadlocked(c) \/ Dangling(c)]_vars
  <1> SUFFICES ASSUME Next, NEW d \in Clients, answer[d] = None, answer'[d] = "unavailable",
                      ~ Deadlocked(d), ~ Dangling(d)
               PROVE  faults' = faults + 1
    OBVIOUS
  <1>1. TypeOK /\ "unavailable" # None
    BY CommandsAssumption DEF IInv, Promise!Answers
  <1>2. ASSUME NEW c \in Clients, NEW a, Finish(c, a) PROVE d = c /\ a = "unavailable"
    <2>1. answer' = [answer EXCEPT ![c] = a] /\ answer \in [Clients -> Promise!Answers \cup {None}]
      BY <1>1, <1>2 DEF Finish, TypeOK
    <2>2. QED
      BY <1>1, <2>1
  <1>3. ~ UNCHANGED answer
    BY <1>1
  <1>4. ASSUME NEW c \in Clients, Step(c) PROVE faults' = faults + 1
    <2>1. CASE Handling(c)
      BY <2>1, <1>2, <1>3, HandlingForms
    <2>2. CASE LookUp(c)
      <3>1. \/ Finish(c, "replayed") \/ Finish(c, "conflict") \/ Finish(c, "notFound")
            \/ UNCHANGED answer
        BY <2>2 DEF LookUp, Continue
      <3>2. QED
        BY <3>1, <1>2, <1>3
    <2>3. CASE Editings(c)
      <3>1. pc[c] = "begin"
        BY <2>3 DEF Editings, UpdateCamera, UpdateZone, RetireCamera, Activate, Reads
      <3>2. call[c] \in Commands
        BY <3>1, <1>1 DEF IInv, ClientInv, TypeOK
      <3>3. ~ Rewrites(c)
        BY <1>3 DEF Rewrites, Continue
      <3>4. \E a \in {"notFound", "conflict", "unauthorized", "done"} : Finish(c, a)
        BY <1>1, <2>3, <3>2, <3>3, EditingForms
      <3>5. QED
        BY <3>4, <1>2
    <2>4. CASE Inserting(c)
      <3>1. pc[c] = "insert"
        BY <2>4, InsertingForms
      <3>2. keys[call[c].key] \in old \cup {0}
        BY <3>1 DEF IInv, ClientInv, Creating
      <3>3. ~ Written(c, NewStatus[call[c].kind])
        BY <3>2, <1>3 DEF Written
      <3>4. Finish(c, "conflict") \/ (Dangling(c) /\ Finish(c, "unavailable"))
        BY <2>4, <3>3, InsertingForms
      <3>5. ~ Finish(c, "conflict")
        BY <1>2
      <3>6. Dangling(c) /\ d = c
        BY <3>4, <3>5, <1>2
      <3>7. QED
        BY <3>6
    <2>5. CASE AppendAudit(c)
      BY <2>5, <1>3 DEF AppendAudit, Continue
    <2>6. CASE Commit(c)
      BY <2>6, <1>2 DEF Commit, Fault
    <2>7. CASE DeadlockVictim(c)
      BY <2>7, <1>2 DEF DeadlockVictim
    <2>8. QED
      BY <1>4, <2>1, <2>2, <2>3, <2>4, <2>5, <2>6, <2>7 DEF Step, Beginning, Editings
  <1>5. ASSUME NEW c \in Clients, Return(c) PROVE FALSE
    BY <1>1, <1>5 DEF Return, TypeOK
  <1>6. QED
    BY <1>3, <1>4, <1>5 DEF Next, Broken, Fault, Arrive, Age

\* A request is answered with an error only after a fault or a deadlock, or when
\* it creates a zone for a camera that is not there: the branch in which the key
\* of a creation is stored by somebody else is never taken.
THEOREM FailsOnlyThen == Spec => FailsOnlyOnFault
  BY Invariance, ErrorStep, PTL DEF Spec, FailsOnlyOnFault

--------------------------------------------------------------------------------
(* The refinement: each step is a step of Registry, or changes none of its
   variables *)

\* What Registry does not see.
Silent == UNCHANGED <<rows, old, call, answer>>

\* A request that is being served waits for its answer.
LEMMA Waiting ==
  ASSUME IInv, NEW c \in Clients, pc[c] \notin {"idle", "done"}
  PROVE  TypeOK /\ Promise!Pending(c) /\ call[c] \in Commands
  BY DEF IInv, ClientInv, TypeOK, Promise!Pending

\* A transaction that ends without effect is a refusal, given the reason.
LEMMA RefusalServes ==
  ASSUME NEW c \in Clients, Promise!Pending(c), NEW a \in Promise!Answers, Finish(c, a),
         UNCHANGED <<store, call>>,
         a \in {"rejected", "unavailable"} \/ Promise!CreationRefused(c, a) \/ Promise!EditRefused(c, a)
  PROVE  Promise!Serve(c)
  <1>1. Promise!Perform(c, rows, a)
    BY DEF Promise!Perform, Finish, store
  <1>2. Promise!Refuse(c)
    BY <1>1 DEF Promise!Refuse
  <1>3. QED
    BY <1>2 DEF Promise!Serve

\* A refusal by the handler is one of Registry.
LEMMA HandlingServes ==
  ASSUME IInv, NEW c \in Clients, Handling(c)
  PROVE  Promise!Serve(c) \/ Silent
  <1> DEFINE begun == pc' = [pc EXCEPT ![c] = "begin"] /\ UNCHANGED <<answer, locks, work>>
  <1>1. pc[c] = "arrived" /\ UNCHANGED <<store, call, calls, faults>>
    BY HandlingForms
  <1>2. Promise!Pending(c)
    BY <1>1, Waiting
  <1>3. CASE Finish(c, "rejected")
    BY <1>1, <1>2, <1>3, RefusalServes DEF Promise!Answers
  <1>4. CASE begun
    BY <1>1, <1>4 DEF Silent, store
  <1>5. CASE Finish(c, "notFound") /\ ~ Finish(c, "rejected") /\ ~ begun
    <2>1. Promise!EditRefused(c, "notFound")
      <3>1. CASE updateCamera(c) \/ retireCamera(c)
        <4>1. /\ call[c].op \in {"updateCamera", "retire"} /\ ~ Live(c)
          BY <1>5, <3>1 DEF updateCamera, retireCamera, Handle, Promise!Edits
        <4>2. QED
          BY <4>1 DEF Promise!EditRefused, Live, Target
      <3>2. CASE updateZone(c)
        <4>1. /\ call[c].op = "updateZone" /\ ~ Target(c, "zone")
          BY <1>5, <3>2 DEF updateZone, Handle, Promise!Edits
        <4>2. QED
          BY <4>1 DEF Promise!EditRefused, Target
      <3>3. QED
        BY <1>5, <3>1, <3>2 DEF Handling, createSite, createCamera, createZone, issueDeviceClaim,
           activateDevice, Handle
    <2>2. QED
      BY <1>1, <1>2, <1>5, <2>1, RefusalServes DEF Promise!Answers
  <1>6. QED
    BY <1>3, <1>4, <1>5, HandlingForms

\* A creation answered from its key is a replay or a refusal of Registry.
LEMMA LookUpServes ==
  ASSUME IInv, NEW c \in Clients, LookUp(c)
  PROVE  Promise!Serve(c) \/ Silent
  <1> DEFINE cmd == call[c]
             i == keys[cmd.key]
  <1>1. /\ pc[c] = "begin" /\ cmd.op = "create" /\ UNCHANGED <<store, call, calls, faults>>
    BY DEF LookUp
  <1>2. TypeOK /\ Promise!Pending(c) /\ cmd \in Creation
    BY <1>1, Waiting, CommandForms
  <1>3. CASE i # 0 /\ i \notin old
    <2>1. cmd.key \in Keys
      BY <1>2 DEF Creation, Promise!Creation
    <2>2. i \in Promise!Remembered(cmd)
      BY <1>2, <1>3, <2>1 DEF IInv, KeyInv, TypeOK, Promise!Remembered
    <2>3. CASE Promise!Same(i, cmd)
      <3>1. Finish(c, "replayed")
        BY <1>3, <2>3 DEF LookUp
      <3>2. Promise!Perform(c, rows, "replayed")
        BY <1>1, <1>2, <3>1 DEF Promise!Perform, Finish, store
      <3>3. Promise!Replay(c)
        BY <1>1, <1>2, <2>2, <2>3, <3>2 DEF Promise!Replay
      <3>4. QED
        BY <3>3 DEF Promise!Serve
    <2>4. CASE ~ Promise!Same(i, cmd)
      <3>1. Finish(c, "conflict")
        BY <1>3, <2>4 DEF LookUp
      <3>2. Promise!CreationRefused(c, "conflict")
        BY <1>1, <2>2, <2>4 DEF Promise!CreationRefused
      <3>3. QED
        BY <1>1, <1>2, <3>1, <3>2, RefusalServes DEF Promise!Answers
    <2>5. QED
      BY <2>3, <2>4
  <1>4. CASE ~ (i # 0 /\ i \notin old) /\ cmd.kind # "site" /\ Promise!OfKind("site") = {}
    <2>1. Finish(c, "notFound")
      BY <1>4 DEF LookUp
    <2>2. Promise!CreationRefused(c, "notFound")
      BY <1>1, <1>4 DEF Promise!CreationRefused
    <2>3. QED
      BY <1>1, <1>2, <2>1, <2>2, RefusalServes DEF Promise!Answers
  <1>5. CASE ~ (i # 0 /\ i \notin old) /\ ~ (cmd.kind # "site" /\ Promise!OfKind("site") = {})
    BY <1>1, <1>5 DEF LookUp, Continue, Silent, store
  <1>6. QED
    BY <1>3, <1>4, <1>5

\* A name that is taken and a camera that is missing are refusals of Registry.
LEMMA InsertingServes ==
  ASSUME IInv, NEW c \in Clients, Inserting(c)
  PROVE  Promise!Serve(c) \/ Silent
  <1>1. pc[c] = "insert" /\ UNCHANGED <<store, call, calls, faults>>
    BY InsertingForms
  <1>2. Promise!Pending(c) /\ call[c].op = "create" /\ keys[call[c].key] \in old \cup {0}
    BY <1>1, Waiting DEF IInv, ClientInv, Creating
  <1>3. CASE Promise!Taken(call[c]) /\ Finish(c, "conflict")
    <2>1. Promise!CreationRefused(c, "conflict")
      BY <1>2, <1>3 DEF Promise!CreationRefused
    <2>2. QED
      BY <1>1, <1>2, <1>3, <2>1, RefusalServes DEF Promise!Answers
  <1>4. CASE Written(c, NewStatus[call[c].kind])
    BY <1>1, <1>2, <1>4 DEF Written, Silent, store
  <1>5. CASE Finish(c, "unavailable")
    BY <1>1, <1>2, <1>5, RefusalServes DEF Promise!Answers
  <1>6. QED
    BY <1>3, <1>4, <1>5, InsertingForms

\* An edit that is allowed, applied to the row as it is, is a step of Registry.
LEMMA EditServes ==
  ASSUME NEW c \in Clients, Promise!Pending(c), call[c].id \in DOMAIN rows,
         NEW before, NEW after, Edited(call[c], rows[call[c].id], before, after),
         rows' = [rows EXCEPT ![call[c].id] = after],
         NEW a \in {"done", "unavailable"}, answer' = [answer EXCEPT ![c] = a], UNCHANGED <<old, call>>
  PROVE  Promise!Serve(c)
  <1>1. Promise!Change(c, after)
    BY DEF Promise!Change, Promise!Perform
  <1>2. CASE call[c].op = "updateCamera"
    BY <1>1, <1>2 DEF Edited, Promise!UpdateCamera, Promise!Edits, Promise!OfKind, Promise!Serve
  <1>3. CASE call[c].op = "updateZone"
    BY <1>1, <1>3 DEF Edited, Promise!UpdateZone, Promise!Edits, Promise!OfKind, Promise!Serve
  <1>4. CASE call[c].op = "retire"
    BY <1>1, <1>4 DEF Edited, Promise!RetireCamera, Promise!Edits, Promise!OfKind, Promise!Serve
  <1>5. CASE call[c].op = "activate"
    BY <1>1, <1>5 DEF Edited, Promise!Activate, Promise!Edits, Promise!OfKind, Promise!Serve
  <1>6. QED
    BY <1>2, <1>3, <1>4, <1>5 DEF Edited

\* One that leaves the row as it is has its effect at once, the others when they commit.
LEMMA WritesServes ==
  ASSUME NEW c \in Clients, Promise!Pending(c), call[c].id \in DOMAIN rows, TypeOK,
         NEW before, NEW next, Edited(call[c], rows[call[c].id], before, next),
         Writes(c, before, next), UNCHANGED <<store, call>>
  PROVE  Promise!Serve(c) \/ Silent
  <1>1. UNCHANGED <<rows, old, call>>
    BY DEF store
  <1>2. CASE next = rows[call[c].id]
    <2>1. answer' = [answer EXCEPT ![c] = "done"]
      BY <1>2 DEF Writes, Finish
    <2>2. rows' = [rows EXCEPT ![call[c].id] = next]
      BY <1>1, <1>2 DEF TypeOK
    <2>3. QED
      BY <1>1, <2>1, <2>2, EditServes
  <1>3. CASE next # rows[call[c].id]
    BY <1>1, <1>3 DEF Writes, Continue, Silent
  <1>4. QED
    BY <1>2, <1>3

\* An edit that ends without a change is an edit or a refusal of Registry.
LEMMA EditingServes ==
  ASSUME IInv, NEW c \in Clients, Editings(c)
  PROVE  Promise!Serve(c) \/ Silent
  <1> DEFINE row == rows[call[c].id]
  <1>1. pc[c] = "begin" /\ UNCHANGED <<store, call>>
    BY DEF Editings, UpdateCamera, UpdateZone, RetireCamera, Activate, Reads
  <1>2. TypeOK /\ Promise!Pending(c)
    BY <1>1, Waiting
  <1>3. ASSUME NEW a \in {"notFound", "conflict", "unauthorized"}, Promise!EditRefused(c, a), Finish(c, a)
        PROVE  Promise!Serve(c)
    BY <1>1, <1>2, <1>3, RefusalServes DEF Promise!Answers
  <1>4. CASE UpdateCamera(c)
    <2>1. call[c].op = "updateCamera"
      BY <1>4 DEF UpdateCamera, Reads
    <2>2. CASE ~ Live(c)
      BY <1>3, <1>4, <2>1, <2>2 DEF UpdateCamera, Promise!EditRefused, Live, Target
    <2> DEFINE ok == /\ row.version = call[c].version
                     /\ Promise!canTransition(row.status, Promise!Or(call[c].status, row.status))
    <2>3. CASE Live(c) /\ ~ ok
      <3>1. Finish(c, "conflict")
        BY <1>4, <2>3 DEF UpdateCamera
      <3>2. Promise!EditRefused(c, "conflict")
        BY <2>1, <2>3 DEF Promise!EditRefused, Live, Target
      <3>3. QED
        BY <1>3, <3>1, <3>2
    <2>4. CASE Live(c) /\ ok
      <3>1. Writes(c, row, Promise!applyUpdate(row, call[c]))
        BY <1>4, <2>4 DEF UpdateCamera
      <3>2. call[c].id \in DOMAIN rows /\ Edited(call[c], row, row, Promise!applyUpdate(row, call[c]))
        BY <2>1, <2>4 DEF Edited, Live, Target, Promise!OfKind
      <3>3. QED
        BY <1>1, <1>2, <3>1, <3>2, WritesServes
    <2>5. QED
      BY <2>2, <2>3, <2>4
  <1>5. CASE UpdateZone(c)
    <2>1. call[c].op = "updateZone"
      BY <1>5 DEF UpdateZone, Reads
    <2>2. CASE ~ Target(c, "zone")
      BY <1>3, <1>5, <2>1, <2>2 DEF UpdateZone, Promise!EditRefused, Target
    <2>3. CASE Target(c, "zone") /\ row.version # call[c].version
      <3>1. Finish(c, "conflict")
        BY <1>5, <2>3 DEF UpdateZone
      <3>2. Promise!EditRefused(c, "conflict")
        BY <2>1, <2>3 DEF Promise!EditRefused, Target
      <3>3. QED
        BY <1>3, <3>1, <3>2
    <2>4. CASE Target(c, "zone") /\ row.version = call[c].version
      <3>1. Writes(c, row, Promise!applyUpdate(row, call[c]))
        BY <1>5, <2>4 DEF UpdateZone
      <3>2. call[c].id \in DOMAIN rows /\ Edited(call[c], row, row, Promise!applyUpdate(row, call[c]))
        BY <2>1, <2>4 DEF Edited, Target, Promise!OfKind
      <3>3. QED
        BY <1>1, <1>2, <3>1, <3>2, WritesServes
    <2>5. QED
      BY <2>2, <2>3, <2>4
  <1>6. CASE RetireCamera(c)
    <2>1. call[c].op = "retire"
      BY <1>6 DEF RetireCamera, Reads
    <2>2. CASE ~ Target(c, "camera")
      BY <1>3, <1>6, <2>1, <2>2 DEF RetireCamera, Promise!EditRefused, Target
    <2>3. CASE Target(c, "camera") /\ row.status = "retired"
      <3>1. UNCHANGED <<old, call>> /\ answer' = [answer EXCEPT ![c] = "done"]
        BY <1>1, <1>6, <2>3 DEF RetireCamera, Finish, store
      <3>2. rows' = [rows EXCEPT ![call[c].id] = row]
        BY <1>1, <1>2 DEF TypeOK, store
      <3>3. Promise!Change(c, row)
        BY <1>2, <3>1, <3>2 DEF Promise!Change, Promise!Perform
      <3>4. Promise!RetireCamera(c)
        BY <1>2, <2>1, <2>3, <3>3 DEF Promise!RetireCamera, Promise!Edits, Target
      <3>5. QED
        BY <3>4 DEF Promise!Serve
    <2>4. CASE Target(c, "camera") /\ row.status # "retired"
      <3> DEFINE next == [row EXCEPT !.status = "retired", !.version = @ + 1]
      <3>1. Writes(c, row, next)
        BY <1>6, <2>4 DEF RetireCamera
      <3>2. call[c].id \in DOMAIN rows /\ Edited(call[c], row, row, next)
        BY <2>1, <2>4 DEF Edited, Target, Promise!OfKind
      <3>3. QED
        BY <1>1, <1>2, <3>1, <3>2, WritesServes
    <2>5. QED
      BY <2>2, <2>3, <2>4
  <1>7. CASE Activate(c)
    <2>1. call[c].op = "activate"
      BY <1>7 DEF Activate, Reads
    <2> DEFINE ok == Target(c, "device") /\ row.status = "pending" /\ call[c].id \notin old
    <2>2. CASE ~ ok
      <3>1. Finish(c, "unauthorized")
        BY <1>7, <2>2 DEF Activate
      <3>2. Promise!EditRefused(c, "unauthorized")
        BY <2>1, <2>2 DEF Promise!EditRefused, Target
      <3>3. QED
        BY <1>3, <3>1, <3>2
    <2>3. CASE ok
      <3> DEFINE next == [row EXCEPT !.status = "active"]
      <3>1. Writes(c, None, next)
        BY <1>7, <2>3 DEF Activate
      <3>2. call[c].id \in DOMAIN rows /\ Edited(call[c], row, None, next)
        BY <2>1, <2>3 DEF Edited, Target, Promise!OfKind
      <3>3. QED
        BY <1>1, <1>2, <3>1, <3>2, WritesServes
    <2>4. QED
      BY <2>2, <2>3
  <1>8. QED
    BY <1>4, <1>5, <1>6, <1>7 DEF Editings

\* A commit is the creation or the edit of Registry.
LEMMA CommitServes ==
  ASSUME IInv, NEW c \in Clients, Commit(c)
  PROVE  Promise!Serve(c)
  <1>1. pc[c] = "commit" /\ UNCHANGED <<old, call>>
    BY DEF Commit
  <1>2. Promise!Pending(c) /\ TypeOK
    BY <1>1, Waiting
  <1>3. CASE call[c].op = "create"
    <2> DEFINE kind == call[c].kind
    <2>1. call[c] \in Creation /\ Creating(c) /\ Inserted(c)
      BY <1>3, Committing
    <2>2. Promise!Remembered(call[c]) = {}
      <3>1. ASSUME NEW i \in DOMAIN rows \ old, rows[i].key = call[c].key PROVE FALSE
        <4>1. keys[call[c].key] = i
          BY <3>1 DEF IInv, KeyInv
        <4>2. i # 0
          BY <1>2 DEF TypeOK
        <4>3. QED
          BY <2>1, <4>1, <4>2 DEF Creating
      <3>2. QED
        BY <3>1 DEF Promise!Remembered
    <2>3. PICK a \in {"created", "unavailable"} : answer' = [answer EXCEPT ![c] = a]
      BY <1>3 DEF Commit, Finish
    <2>4. rows' = Append(rows, Promise!NewRow(call[c], NewStatus[kind]))
      BY <1>3, CommitCreates
    <2>5. Promise!Create(c, kind, NewStatus[kind])
      BY <1>1, <1>2, <1>3, <2>2, <2>3, <2>4 DEF Promise!Create, Promise!Creates, Promise!Perform
    <2>6. kind # "zone" => ~ Promise!Taken(call[c])
      BY <2>1 DEF Inserted
    <2>7. kind \in {"site", "camera", "zone", "device"}
      BY <2>1 DEF Creation, Promise!Creation
    <2> HIDE DEF kind
    <2>8. CASE kind = "site"
      BY <2>5, <2>8 DEF NewStatus, Promise!CreateSite, Promise!Serve
    <2>9. CASE kind = "camera"
      BY <2>5, <2>6, <2>9 DEF NewStatus, Promise!CreateCamera, Promise!Serve
    <2>10. CASE kind = "zone"
      BY <2>5, <2>10 DEF NewStatus, Promise!CreateZone, Promise!Serve
    <2>11. CASE kind = "device"
      BY <2>5, <2>6, <2>11 DEF NewStatus, Promise!IssueClaim, Promise!Serve
    <2>12. QED
      BY <2>7, <2>8, <2>9, <2>10, <2>11
  <1>4. CASE call[c].op # "create"
    <2>1. call[c].id \in DOMAIN rows /\ Edited(call[c], rows[call[c].id], work[c].before, work[c].after)
      BY <1>4, Committing DEF Editing
    <2>2. rows' = [rows EXCEPT ![call[c].id] = work[c].after]
      BY <1>4, CommitEdits
    <2>3. PICK a \in {"done", "unavailable"} : answer' = [answer EXCEPT ![c] = a]
      BY <1>4 DEF Commit, Finish
    <2>4. QED
      BY <1>1, <1>2, <2>1, <2>2, <2>3, EditServes
  <1>5. QED
    BY <1>3, <1>4

\* Every step of a request serves it or is silent.
LEMMA ClientServes ==
  ASSUME IInv, NEW c \in Clients, Step(c) \/ Broken(c)
  PROVE  Promise!Serve(c) \/ Silent
  <1>1. CASE Beginning(c)
    BY <1>1, LookUpServes, EditingServes DEF Beginning, Editings
  <1>2. CASE AppendAudit(c)
    BY <1>2 DEF AppendAudit, Continue, Silent, store
  <1>3. CASE Broken(c) \/ DeadlockVictim(c)
    <2>1. pc[c] \notin {"idle", "done"} /\ Finish(c, "unavailable") /\ UNCHANGED <<store, call>>
      BY <1>3 DEF Broken, DeadlockVictim, Deadlocked, WaitsFor
    <2>2. Promise!Pending(c)
      BY <2>1, Waiting
    <2>3. QED
      BY <2>1, <2>2, RefusalServes DEF Promise!Answers
  <1>4. QED
    BY <1>1, <1>2, <1>3, HandlingServes, InsertingServes, CommitServes DEF Step

\* Every step is one of Registry, or changes nothing that Registry sees.
LEMMA PromisedStep ==
  ASSUME IInv, [Next]_vars
  PROVE  [Promise!Next]_(Promise!vars)
  <1>1. Silent => UNCHANGED Promise!vars
    BY DEF Silent, Promise!vars
  <1>2. CASE UNCHANGED vars
    BY <1>1, <1>2 DEF vars, Silent
  <1>3. ASSUME NEW c \in Clients, Step(c) \/ Broken(c) PROVE [Promise!Next]_(Promise!vars)
    BY <1>1, <1>3, ClientServes DEF Promise!Next
  <1>4. ASSUME NEW c \in Clients, Return(c) PROVE [Promise!Next]_(Promise!vars)
    <2>1. Promise!Return(c)
      BY <1>4 DEF Return, Promise!Return, IInv, ClientInv, store
    <2>2. QED
      BY <2>1 DEF Promise!Next
  <1>5. ASSUME NEW c \in Clients, NEW cmd \in Commands, Arrive(c, cmd) PROVE [Promise!Next]_(Promise!vars)
    <2>1. Promise!Invoke(c, cmd)
      BY <1>5 DEF Arrive, Promise!Invoke, store
    <2>2. QED
      BY <2>1 DEF Promise!Next
  <1>6. ASSUME NEW i \in DOMAIN rows, Age(i) PROVE [Promise!Next]_(Promise!vars)
    <2>1. Promise!Age(i)
      BY <1>6 DEF Age, Promise!Age
    <2>2. QED
      BY <2>1 DEF Promise!Next
  <1>7. QED
    BY <1>2, <1>3, <1>4, <1>5, <1>6 DEF Next

\* The repositories over Postgres, with their locks, transactions and faults,
\* implement the repositories of Registry, in which a call runs alone.
THEOREM Refinement == Spec => KeepsPromise
  <1>1. Init => Promise!Init
    BY DEF Init
  <1>2. IInv /\ [Next]_vars => [Promise!Next]_(Promise!vars)
    BY PromisedStep
  <1>3. QED
    BY <1>1, <1>2, Invariance, PTL DEF Spec, KeepsPromise, Promise!Spec
================================================================================
