----------------------- MODULE MCAndroidHostComposition -----------------------
\* Bounds: two hosts that may pass the same host id, two containers, surface
\* ids and roots, all allocators starting anywhere up to their last value.
EXTENDS AndroidHostComposition

CONSTANTS i1, i2

MCTwo == {1, 2}
MCOne == {1}
MCHosts == {i1, i2}
=============================================================================
