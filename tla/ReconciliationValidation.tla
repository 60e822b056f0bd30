----------------------- MODULE ReconciliationValidation -----------------------
(***************************************************************************)
(* Validation of reconciliation requests in the Python reference,          *)
(* scripts/reconciliation_validation.py.  A request ("fixture") is a       *)
(* record with the fields of FIXTURE_FIELDS and possibly `limits`; its     *)
(* `previous` is an option, written as a sequence.                         *)
(*                                                                         *)
(* Each check yields the code of the ContractViolation it raises, or       *)
(* "none".  a ?? b is the code of the first check that raises.  Values of  *)
(* the wrong JSON type are represented where they matter: a node that is   *)
(* not well formed by its empty kind, an ill-typed value by ~fits.         *)
(***************************************************************************)
EXTENDS Mutations

\* load_component_schemas of contracts/reconciliation/v1/schema/components.json.
Schemas ==
  [View |-> "2" :> "bool" @@ "3" :> "i64" @@ "4" :> "f64",
   Text |-> "1" :> "string" @@ "2" :> "bool" @@ "4" :> "f64"]

DefaultLimits ==
  [max_depth |-> 256, max_nodes |-> 100000, max_children_per_node |-> 10000,
   max_properties_per_node |-> 256, max_string_bytes |-> 1048576, max_operations |-> 1000000]

FixtureFields ==
  {"contract_version", "base_revision", "target_revision", "allocator_next_id",
   "previous", "candidate", "name", "expected"}

\* A tagged value; `bytes` is its length as a string, `fits` whether the raw value is one
\* of the tagged type (an i64 in range, a finite f64).
Value(type, value, bytes, fits) ==
  [type |-> type, value |-> value, bytes |-> bytes, fits |-> fits]

\* Property ids that are no positive decimals.
MalformedIds == {"0", "x"}

Fails(condition, code) == IF condition THEN code ELSE "none"
a ?? b == IF a # "none" THEN a ELSE b

-----------------------------------------------------------------------------
(* Properties and the limits of one node. *)

\* validate_property
PropertyCode(kind, id, v, limits) ==
  Fails(id \in MalformedIds, "INVALID_PROPERTY_ID")
  ?? Fails(v.type = "string" /\ v.fits /\ v.bytes > limits.max_string_bytes, "STRING_BYTES_LIMIT")
  ?? Fails(v.type \notin {"bool", "i64", "f64", "string"} \/ ~v.fits, "INVALID_PROPERTY_VALUE")
  ?? Fails(kind \notin DOMAIN Schemas, "UNKNOWN_COMPONENT_KIND")
  ?? Fails(id \notin DOMAIN Schemas[kind], "UNSUPPORTED_PROPERTY")
  ?? Fails(v.type # Schemas[kind][id], "INVALID_PROPERTY_TYPE")

\* The code of some property that fails: which one is first is the order of the object.
PropertiesCode(node, limits) ==
  LET Code(id) == PropertyCode(node.kind, id, node.properties[id], limits)
      bad == {id \in DOMAIN node.properties : Code(id) # "none"}
  IN IF bad = {} THEN "none" ELSE Code(CHOOSE id \in bad : TRUE)

\* The limits of one node, the same for candidate and committed nodes.
NodeLimitsCode(node, limits, depth) ==
  Fails(depth > limits.max_depth, "TREE_DEPTH_LIMIT")
  ?? Fails(Len(node.children) > limits.max_children_per_node, "CHILD_COUNT_LIMIT")
  ?? Fails(Cardinality(DOMAIN node.properties) > limits.max_properties_per_node,
           "PROPERTY_COUNT_LIMIT")
  ?? PropertiesCode(node, limits)

\* What the walk over a node and the children visited so far has found: the first
\* violation, their keys, the number of nodes, all identities and the greatest.
Walked(code, count, seen, greatest) ==
  [code |-> code, keys |-> {}, count |-> count, seen |-> seen, greatest |-> greatest]

Repeats(w, child) == child.key # NoKey /\ child.key \in w.keys
Greater(i, j) == IF i > j THEN i ELSE j

\* Mutant: a child's descendants are not counted.
AfterChildShallow(w, child, sub, limits, duplicate) ==
  [code |-> Fails(Repeats(w, child), duplicate) ?? sub.code
            ?? Fails(w.count + sub.count > limits.max_nodes, "NODE_COUNT_LIMIT"),
   keys |-> w.keys \cup ({child.key} \ {NoKey}),
   count |-> w.count + 1,
   seen |-> sub.seen,
   greatest |-> Greater(w.greatest, sub.greatest)]

\* One more child, whose own walk found `sub`.
AfterChild(w, child, sub, limits, duplicate) ==
  [code |-> Fails(Repeats(w, child), duplicate) ?? sub.code
            ?? Fails(w.count + sub.count > limits.max_nodes, "NODE_COUNT_LIMIT"),
   keys |-> w.keys \cup ({child.key} \ {NoKey}),
   count |-> w.count + sub.count,
   seen |-> sub.seen,
   greatest |-> Greater(w.greatest, sub.greatest)]

-----------------------------------------------------------------------------
(* Candidate and committed trees. *)

RECURSIVE ValidateCandidate(_, _, _)
ValidateCandidate(node, limits, depth) ==
  LET own == Fails(node.kind = "", "INVALID_NODE_STRUCTURE")
             ?? Fails(node.kind \notin DOMAIN Schemas, "UNKNOWN_COMPONENT_KIND")
             ?? NodeLimitsCode(node, limits, depth)
      Visit(w, child) ==
        IF w.code # "none" THEN w
        ELSE AfterChild(w, child, ValidateCandidate(child, limits, depth + 1), limits,
                        "DUPLICATE_SIBLING_KEY")
  IN FoldLeft(Visit, Walked(own, 1, {}, 0), node.children)

RECURSIVE ValidateCommittedNode(_, _, _, _)
ValidateCommittedNode(node, limits, seen, depth) ==
  LET own == Fails(node.node_id <= 0 \/ node.node_id \in seen
                     \/ node.kind \notin DOMAIN Schemas, "INVALID_COMMITTED_TREE")
             ?? NodeLimitsCode(node, limits, depth)
      Visit(w, child) ==
        IF w.code # "none" THEN w
        ELSE AfterChild(w, child, ValidateCommittedNode(child, limits, w.seen, depth + 1),
                        limits, "INVALID_COMMITTED_TREE")
  IN FoldLeft(Visit, Walked(own, 1, seen \cup {node.node_id}, node.node_id), node.children)

ValidateCommittedTree(previous, limits) ==
  IF DOMAIN previous # {"revision", "root"} \/ previous.revision < 0
  THEN Walked("INVALID_COMMITTED_TREE", 0, {}, 0)
  ELSE ValidateCommittedNode(previous.root, limits, {}, 1)

-----------------------------------------------------------------------------
(* The request around them. *)

Overrides(f) == IF "limits" \in DOMAIN f THEN f.limits ELSE <<>>
EffectiveLimits(f) == Overrides(f) @@ DefaultLimits

\* validate_fixture_envelope
EnvelopeCode(f) ==
  Fails(~(FixtureFields \subseteq DOMAIN f), "INVALID_TRANSACTION_STRUCTURE")
  ?? Fails(~(DOMAIN f \subseteq FixtureFields \cup {"limits"}), "INVALID_TRANSACTION_STRUCTURE")
  ?? Fails(f.name = "", "INVALID_TRANSACTION_STRUCTURE")

\* validate_transaction
TransactionCode(f) ==
  EnvelopeCode(f)
  ?? Fails(f.contract_version # 1, "UNSUPPORTED_CONTRACT")
  ?? Fails(f.base_revision < 0 \/ f.target_revision # f.base_revision + 1, "INVALID_REVISION")
  ?? Fails(f.allocator_next_id <= 0, "INVALID_ALLOCATOR_STATE")
  ?? Fails(~(DOMAIN Overrides(f) \subseteq DOMAIN DefaultLimits), "INVALID_LIMITS")
  ?? Fails(\E name \in DOMAIN Overrides(f) : Overrides(f)[name] <= 0, "INVALID_LIMITS")
=============================================================================
