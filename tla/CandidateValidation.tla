-------------------------- MODULE CandidateValidation --------------------------
(***************************************************************************)
(* Candidate validation of the core: ValidatedTree::new and validate_node  *)
(* in crates/rmf-core/src/candidate/mod.rs.  Component kinds, property ids *)
(* and values are typed there, so that only limits, the schema, sibling    *)
(* keys and the children of a Text remain to be checked.                   *)
(***************************************************************************)
EXTENDS ReconciliationValidation

\* property_schema
PropertySchema(kind, id) ==
  CASE id = "2"                  -> "bool"
    [] id = "3" /\ kind = "View" -> "i64"
    [] id = "4"                  -> "f64"
    [] id = "1" /\ kind = "Text" -> "string"
    [] OTHER                     -> "unsupported"

\* validate_properties; the first entry that fails is the one reported.
EntryError(kind, id, v, limits) ==
  Fails(PropertySchema(kind, id) = "unsupported", "UnsupportedProperty")
  ?? Fails(PropertySchema(kind, id) # v.type, "InvalidPropertyType")
  ?? Fails(v.type = "string" /\ v.bytes > limits.max_string_bytes, "StringLimitExceeded")

EntriesError(node, limits) ==
  LET Code(id) == EntryError(node.kind, id, node.properties[id], limits)
      bad == {id \in DOMAIN node.properties : Code(id) # "none"}
  IN IF bad = {} THEN "none" ELSE Code(CHOOSE id \in bad : TRUE)

Checked(error, count) == [error |-> error, keys |-> {}, count |-> count]

\* Mutant: keys are compared with the key before only.
NextChildAdjacent(w, child, sub, limits) ==
  [error |-> Fails(child.key # NoKey /\ child.key \in w.keys, "DuplicateSiblingKey") ?? sub.error
             ?? Fails(w.count + sub.count > limits.max_nodes, "NodeLimitExceeded"),
   keys |-> {child.key} \ {NoKey},
   count |-> w.count + sub.count]

\* One more child of a node, itself validated as `sub`.
NextChild(w, child, sub, limits) ==
  [error |-> Fails(child.key # NoKey /\ child.key \in w.keys, "DuplicateSiblingKey") ?? sub.error
             ?? Fails(w.count + sub.count > limits.max_nodes, "NodeLimitExceeded"),
   keys |-> w.keys \cup ({child.key} \ {NoKey}),
   count |-> w.count + sub.count]

RECURSIVE ValidateNode(_, _, _)
ValidateNode(node, limits, depth) ==
  LET own == Fails(depth > limits.max_depth, "DepthLimitExceeded")
             ?? Fails(Len(node.children) > limits.max_children_per_node, "ChildLimitExceeded")
             ?? Fails(Cardinality(DOMAIN node.properties) > limits.max_properties_per_node,
                      "PropertyLimitExceeded")
             ?? Fails(node.kind = "Text" /\ node.children # <<>>, "TextHasChildren")
             ?? EntriesError(node, limits)
      Visit(w, child) ==
        IF w.error # "none" THEN w
        ELSE NextChild(w, child, ValidateNode(child, limits, depth + 1), limits)
  IN FoldLeft(Visit, Checked(own, 1), node.children)

\* ValidatedTree::new
ValidatedTree(root, limits) == ValidateNode(root, limits, 1)
=============================================================================
