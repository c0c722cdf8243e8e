----------------------------- MODULE AlertDelivery -----------------------------
(***************************************************************************)
(* What the alert pipeline promises, without saying how: a detection event *)
(* is accepted at most once per dedupe key and per event id, and every     *)
(* accepted event shows up exactly once in the realtime feed of its site.  *)
(* AlertPipeline is shown to implement this specification.                 *)
(***************************************************************************)
EXTENDS Naturals, Sequences

CONSTANTS Event,  \* records with fields key, id and site
          Ids,    \* event identifiers
          Sites

VARIABLES accepted,  \* the events the control plane has committed itself to
          feed       \* feed[s]: ids announced to the subscribers of site s

vars == <<accepted, feed>>

Announced(i) == \E s \in Sites : \E n \in DOMAIN feed[s] : feed[s][n] = i

Init ==
  /\ accepted = {}
  /\ feed = [s \in Sites |-> << >>]

Accept(e) ==
  /\ e.site \in Sites
  /\ \A a \in accepted : a.key # e.key /\ a.id # e.id
  /\ accepted' = accepted \cup {e}
  /\ UNCHANGED feed

Announce(e) ==
  /\ e \in accepted
  /\ ~ Announced(e.id)
  /\ feed' = [feed EXCEPT ![e.site] = Append(@, e.id)]
  /\ UNCHANGED accepted

Next == \E e \in Event : Accept(e) \/ Announce(e)

SafeSpec == Init /\ [][Next]_vars

\* The feed owes an announcement to every accepted event.
Spec == SafeSpec /\ \A e \in Event : WF_vars(Announce(e))
================================================================================
