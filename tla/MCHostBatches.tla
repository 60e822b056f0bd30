----------------------------- MODULE MCHostBatches -----------------------------
(* Small instance of HostBatches: three identities, one property with one value, child *)
(* positions up to one past the longest list, a few committed snapshots to remount.    *)
EXTENDS HostBatches, HeadlessHost

MCSnapshots ==
  LET Leaf(id) == [node_id |-> id, kind |-> "View", properties |-> <<>>, children |-> <<>>]
      Over(id, children) == [Leaf(id) EXCEPT !.children = children]
  IN {FromSnapshot([revision |-> 0, root |-> <<>>])}
     \cup {FromSnapshot([revision |-> 1, root |-> <<root>>]) :
             root \in {Leaf(1), Over(1, <<Leaf(2), Leaf(3)>>), Over(2, <<Over(3, <<Leaf(1)>>)>>)}}
=============================================================================
