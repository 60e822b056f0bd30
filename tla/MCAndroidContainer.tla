-------------------------- MODULE MCAndroidContainer --------------------------
\* Bounds: two containers, two hosts, one root for each mount id.
EXTENDS AndroidContainerSystem

MCTwo == {1, 2}
MCRootId == 1..MaxMountId
=============================================================================
