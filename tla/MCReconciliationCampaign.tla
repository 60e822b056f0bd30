----------------------- MODULE MCReconciliationCampaign -----------------------
\* Bounds: some forty trees, four of which also meet limits they exceed or just keep,
\* and requests that are damaged in every way.
EXTENDS ReconciliationCampaign, SampleTrees

MCCandidates == WideCandidates \cup Unkeyed \cup Irregular
MCSample == {Views(<<"d", "c", "b", "a">>), Root(<<Plain("Text", "a"), Plain("View", "b")>>),
             Styled, Nested}
MCLimitOverrides ==
  {"max_operations" :> 5, "max_depth" :> 2, "max_nodes" :> 5, "max_children_per_node" :> 2,
   "max_string_bytes" :> 2, "max_properties_per_node" :> 1 @@ "max_string_bytes" :> 3}
=============================================================================
