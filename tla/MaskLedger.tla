------------------------------ MODULE MaskLedger ------------------------------
(***************************************************************************)
(* What the approval ledger of privacy masks promises: the semantics its   *)
(* memory repository makes executable.  A request is filed once; every     *)
(* approval is one step under a mutex, which refuses the requester,        *)
(* ignores a repetition, and closes the request with the second one.       *)
(***************************************************************************)
EXTENDS Naturals, FiniteSets

CONSTANTS Admins, Requests, None

VARIABLES
  requester,  \* requester[r]: who filed request r, or None
  approved,   \* the requests whose status is 'approved'
  approvals   \* approvals[r]: the approver ids stored for request r

vars == <<requester, approved, approvals>>

Init ==
  /\ requester = [r \in Requests |-> None]
  /\ approved = {}
  /\ approvals = [r \in Requests |-> {}]

Create(a, r) ==
  /\ requester[r] = None
  /\ requester' = [requester EXCEPT ![r] = a]
  /\ UNCHANGED <<approved, approvals>>

\* An approval that counts; every other one leaves the ledger as it is.
Approve(a, r) ==
  /\ requester[r] \notin {None, a}
  /\ a \notin approvals[r]
  /\ r \notin approved
  /\ approvals' = [approvals EXCEPT ![r] = @ \cup {a}]
  /\ approved' = IF Cardinality(approvals'[r]) = 2 THEN approved \cup {r} ELSE approved
  /\ UNCHANGED requester

Next == \E a \in Admins, r \in Requests : Create(a, r) \/ Approve(a, r)

Spec == Init /\ [][Next]_vars
================================================================================
