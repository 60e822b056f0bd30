---------------------------- MODULE MCAndroidFacade ----------------------------
\* Bounds: two native handles (two generations of one surface), sequences 1..MaxLong.
EXTENDS AndroidFacadeSystem

MCNative == {[surface_id |-> 1, generation |-> g] : g \in 1..2}
=============================================================================
