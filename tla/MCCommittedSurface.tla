-------------------------- MODULE MCCommittedSurface --------------------------
\* Bounds: the candidates below, and those of SampleTrees.
EXTENDS CommittedSurface, SampleTrees

\* For several held preparations: a node that is inserted, retyped, replaced and removed.
FewCandidates ==
  {Views(<<>>), Views(<<"a">>), Views(<<"b", "a">>),
   Root(<<Plain("Text", "a")>>), Root(<<Plain("View", "b"), Plain("Text", "a")>>),
   Node("View", NoKey, Hidden, <<Plain("View", "a")>>)}
=============================================================================
