-------------------------- MODULE MCCommitCoordinator --------------------------
\* Bounds: three trees (one of them empty) or two, and revisions up to MaxRevision.
EXTENDS CommitCoordinator

CONSTANTS empty, t1, t2, torn

MCTree == {empty, t1, t2}
MCTwoTrees == {empty, t1}
=============================================================================
