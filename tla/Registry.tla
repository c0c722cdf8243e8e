------------------------------- MODULE Registry -------------------------------
(***************************************************************************)
(* What the repositories of one tenant's sites, cameras, zones and edge    *)
(* devices promise: every call takes effect at one moment between its      *)
(* arrival and its answer, as in the memory repositories, where it runs    *)
(* under a mutex, or it is refused and changes nothing.                    *)
(*                                                                         *)
(* A row remembers the idempotency key it was created with, for 24 hours:  *)
(* a row in old is older than that.  The rows are numbered in the order in *)
(* which they are created; the number stands for the UUID.  What a request *)
(* may set is abstracted to a name that is compared (a serial number or a  *)
(* site's name), a label (every other field) and a status.  The hash of a  *)
(* creation is the creation itself.                                        *)
(***************************************************************************)
EXTENDS Naturals, Sequences

CONSTANTS Clients,   \* requests being served, running concurrently
          Commands,  \* the commands they may carry
          Keys,      \* idempotency keys
          Names,     \* site names and serial numbers
          Labels,    \* values of the fields an update may set
          None

\* A creation, and an update of, or another operation on, row number id.  A zone
\* may name the camera it belongs to by its number, 0 if it names none.  A field
\* an update leaves alone is None.
Creation == [op : {"create"}, kind : {"site", "camera", "zone", "device"}, key : Keys, name : Names,
             camera : Nat]
Edit == [op : {"updateCamera", "updateZone", "retire", "activate"}, id : Nat \ {0},
         version : Nat, label : Labels \cup {None}, status : {"pending", "active", "offline", None}]

VARIABLES
  rows,    \* the rows, in order of creation
  old,     \* numbers of the rows created more than 24 hours ago
  call,    \* call[c]: the command of the request c serves, or None
  answer   \* answer[c]: what it is answered, or None

vars == <<rows, old, call, answer>>

Row == [kind : {"site", "camera", "zone", "device"}, key : Keys, name : Names,
        camera : Nat, label : Labels \cup {None},
        status : {"provisioning", "pending", "active", "offline", "retired", "enabled"},
        version : Nat]
Answers == {"created", "replayed", "done", "conflict", "notFound", "unauthorized",
            "rejected", "unavailable"}

Init ==
  /\ rows = << >>
  /\ old = {}
  /\ call = [c \in Clients |-> None]
  /\ answer = [c \in Clients |-> None]

Invoke(c, cmd) ==
  /\ call[c] = None
  /\ call' = [call EXCEPT ![c] = cmd]
  /\ UNCHANGED <<rows, old, answer>>

Pending(c) == call[c] # None /\ answer[c] = None

\* The effect and the answer of the call c.
Perform(c, newRows, a) ==
  /\ Pending(c)
  /\ rows' = newRows
  /\ answer' = [answer EXCEPT ![c] = a]
  /\ UNCHANGED <<old, call>>

Return(c) ==
  /\ answer[c] # None
  /\ call' = [call EXCEPT ![c] = None]
  /\ answer' = [answer EXCEPT ![c] = None]
  /\ UNCHANGED <<rows, old>>

Age(i) ==
  /\ i \in DOMAIN rows
  /\ old' = old \cup {i}
  /\ UNCHANGED <<rows, call, answer>>

--------------------------------------------------------------------------------
(* Creation *)

Creates(c, kind) == Pending(c) /\ call[c].op = "create" /\ call[c].kind = kind

\* The rows that remember the key of a creation.
Remembered(cmd) == {i \in DOMAIN rows \ old : rows[i].key = cmd.key}
OfKind(kind) == {i \in DOMAIN rows : rows[i].kind = kind}
Taken(cmd) == \E i \in OfKind(cmd.kind) : rows[i].name = cmd.name

NewRow(cmd, status) ==
  [kind |-> cmd.kind, key |-> cmd.key, name |-> cmd.name, camera |-> cmd.camera,
   label |-> None, status |-> status, version |-> 1]

\* The key is new to the kind of resource, and the row is appended.  The answer
\* may be lost.
Create(c, kind, status) ==
  /\ Creates(c, kind)
  /\ Remembered(call[c]) \cap OfKind(kind) = {}
  /\ \E a \in {"created", "unavailable"} : Perform(c, Append(rows, NewRow(call[c], status)), a)

CreateSite(c) == Create(c, "site", "provisioning")
CreateCamera(c) == Create(c, "camera", "pending") /\ ~ Taken(call[c])
CreateZone(c) == Create(c, "zone", "enabled")
IssueClaim(c) == Create(c, "device", "pending") /\ ~ Taken(call[c])

\* The same request was made with this key: its stored response is returned.
Same(i, cmd) ==
  rows[i].kind = cmd.kind /\ rows[i].name = cmd.name /\ rows[i].camera = cmd.camera

Replay(c) ==
  /\ Pending(c) /\ call[c].op = "create"
  /\ \E i \in Remembered(call[c]) : Same(i, call[c])
  /\ Perform(c, rows, "replayed")

--------------------------------------------------------------------------------
(* Update, retirement, activation *)

Edits(c, op) == Pending(c) /\ call[c].op = op

canTransition(from, to) ==
  \/ from = to
  \/ <<from, to>> \in {<<"pending", "active">>, <<"active", "offline">>, <<"offline", "active">>}
  \/ to = "retired" /\ from \in {"pending", "active", "offline"}

Or(new, current) == IF new = None THEN current ELSE new

\* The row with the fields of the update set; unless that changes nothing, its
\* version is one higher.
applyUpdate(row, cmd) ==
  LET next == [row EXCEPT !.label = Or(cmd.label, @), !.status = Or(cmd.status, @)]
  IN IF next = row THEN row ELSE [next EXCEPT !.version = @ + 1]

Change(c, row) ==
  \E a \in {"done", "unavailable"} : Perform(c, [rows EXCEPT ![call[c].id] = row], a)

UpdateCamera(c) ==
  LET i == call[c].id IN
  /\ Edits(c, "updateCamera")
  /\ i \in OfKind("camera")
  /\ rows[i].status # "retired"
  /\ rows[i].version = call[c].version
  /\ canTransition(rows[i].status, Or(call[c].status, rows[i].status))
  /\ Change(c, applyUpdate(rows[i], call[c]))

UpdateZone(c) ==
  LET i == call[c].id IN
  /\ Edits(c, "updateZone")
  /\ i \in OfKind("zone")
  /\ rows[i].version = call[c].version
  /\ Change(c, applyUpdate(rows[i], call[c]))

\* A retired camera stays as it is.
RetireCamera(c) ==
  LET i == call[c].id IN
  /\ Edits(c, "retire")
  /\ i \in OfKind("camera")
  /\ Change(c, IF rows[i].status = "retired" THEN rows[i]
               ELSE [rows[i] EXCEPT !.status = "retired", !.version = @ + 1])

\* The claim of a device is consumed once.  Whether it has lapsed is decided at
\* the moment it is read, which may be before the effect: see RegistryStore.
Activate(c) ==
  LET i == call[c].id IN
  /\ Edits(c, "activate")
  /\ i \in OfKind("device")
  /\ rows[i].status = "pending"
  /\ Change(c, [rows[i] EXCEPT !.status = "active"])

--------------------------------------------------------------------------------
(* Refusals: each has its reason in the rows at that moment, except that the
   handler rejects a request for what it is and that the store may fail *)

CreationRefused(c, a) ==
  /\ call[c].op = "create"
  /\ \/ a = "conflict" /\ (\/ Taken(call[c])
                           \/ \E i \in Remembered(call[c]) : ~ Same(i, call[c]))
     \/ a = "notFound" /\ call[c].kind # "site" /\ OfKind("site") = {}

EditRefused(c, a) ==
  LET cmd == call[c]
      i == cmd.id
      present == CASE cmd.op = "updateZone" -> i \in OfKind("zone")
                   [] cmd.op = "activate" -> i \in OfKind("device")
                   [] OTHER -> i \in OfKind("camera") /\ rows[i].status # "retired" IN
  /\ cmd.op # "create"
  /\ \/ a = "notFound" /\ cmd.op # "activate" /\ ~ present
     \/ a = "conflict" /\ present /\ cmd.op \in {"updateCamera", "updateZone"}
          /\ (\/ rows[i].version # cmd.version
              \/ cmd.op = "updateCamera" /\ ~ canTransition(rows[i].status, Or(cmd.status, rows[i].status)))
     \/ a = "unauthorized" /\ cmd.op = "activate"
          /\ (~ present \/ i \in old \/ rows[i].status # "pending")

Refuse(c) ==
  \E a \in Answers :
    /\ Pending(c)
    /\ a \in {"rejected", "unavailable"} \/ CreationRefused(c, a) \/ EditRefused(c, a)
    /\ Perform(c, rows, a)

--------------------------------------------------------------------------------
Serve(c) ==
  \/ CreateSite(c) \/ CreateCamera(c) \/ CreateZone(c) \/ IssueClaim(c) \/ Replay(c)
  \/ UpdateCamera(c) \/ UpdateZone(c) \/ RetireCamera(c) \/ Activate(c)
  \/ Refuse(c)

Next ==
  \/ \E c \in Clients : Serve(c) \/ Return(c) \/ \E cmd \in Commands : Invoke(c, cmd)
  \/ \E i \in DOMAIN rows : Age(i)

Spec == Init /\ [][Next]_vars
================================================================================
