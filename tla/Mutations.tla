------------------------------- MODULE Mutations -------------------------------
(***************************************************************************)
(* Committed nodes and the six mutations of a batch, as the reconciler     *)
(* (types.rs), the headless host and the Python reference have them alike. *)
(*                                                                         *)
(* A declaration is [kind, key, properties, children], `properties` a      *)
(* function from property ids to values; a committed node also has its     *)
(* node_id.  Positions in mutations count from 0; sequences from 1.        *)
(***************************************************************************)
EXTENDS Integers, Sequences, SequencesExt, FiniteSets

CONSTANT NoKey   \* an unkeyed declaration

Committed(id, c, children) ==
  [node_id |-> id, kind |-> c.kind, key |-> c.key, properties |-> c.properties,
   children |-> children]

Create(id, kind) == [op |-> "Create", node_id |-> id, kind |-> kind]
UpdateProperties(id, set, remove) ==
  [op |-> "UpdateProperties", node_id |-> id, set |-> set, remove |-> remove]
InsertChild(parent, child, index) ==
  [op |-> "InsertChild", parent_id |-> parent, child_id |-> child, index |-> index]
MoveChild(parent, child, from, to) ==
  [op |-> "MoveChild", parent_id |-> parent, child_id |-> child, from |-> from, to |-> to]
RemoveChild(parent, child, index) ==
  [op |-> "RemoveChild", parent_id |-> parent, child_id |-> child, index |-> index]
Delete(id) == [op |-> "Delete", node_id |-> id]
=============================================================================
