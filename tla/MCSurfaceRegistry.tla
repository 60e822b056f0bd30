--------------------------- MODULE MCSurfaceRegistry ---------------------------
\* Bounds: two slots, four generations (the fourth plays u64::MAX), two callers.
EXTENDS SurfaceRegistry, TLC

CONSTANTS s1, s2, c1, c2

MCSurfaceId == {s1, s2}
MCCaller == {c1, c2}
=============================================================================
