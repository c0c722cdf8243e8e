---------------------------- MODULE MCRegistryStore ----------------------------
(***************************************************************************)
(* The commands of the model-checked instance of RegistryStore.  Row 1 is  *)
(* a site or nothing else exists; the edits, and a zone, name row 2.       *)
(***************************************************************************)
EXTENDS RegistryStore

CONSTANTS k1, k2, n1, l1

New(kind, key, camera) ==
  [op |-> "create", kind |-> kind, key |-> key, name |-> n1, camera |-> camera]
On2(op, label, status) ==
  [op |-> op, id |-> 2, version |-> 1, label |-> label, status |-> status]

MCCommands ==
  { New("site", k1, 0), New("camera", k2, 0), New("camera", Today, 0),
    New("zone", k2, 0), New("zone", Today, 2), New("device", k2, 0),
    On2("updateCamera", l1, None), On2("updateCamera", None, "active"),
    On2("updateZone", l1, None), On2("retire", None, None), On2("activate", None, None) }
================================================================================
