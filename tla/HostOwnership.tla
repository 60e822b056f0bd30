---------------------------- MODULE HostOwnership ----------------------------
(***************************************************************************)
(* What composed Android hosts promise each other: a container mount and   *)
(* a native surface are parts, each taken by one host in a fixed order     *)
(* (the mount before the surface, ADR-0011), under a number that was never *)
(* issued before, in a place that no other part is in, and given back only *)
(* by that host, all at once and for good.                                 *)
(*                                                                         *)
(* AndroidHostComposition!OwnershipImplemented shows that the registries   *)
(* shared by the hosts change in no other way.                             *)
(***************************************************************************)
CONSTANTS
  Host,
  Part,     \* [kind, place, number]: a mount in a container, a surface under an identity
  Number    \* <<kind, number>>: what the allocators of both kinds can issue

VARIABLES
  phase,     \* per host
  holdings,  \* per host: the parts it has
  parts,     \* the parts there are in the shared registries
  issued     \* the numbers spent by now

vars == <<phase, holdings, parts, issued>>

Init ==
  /\ phase = [i \in Host |-> "new"]
  /\ holdings = [i \in Host |-> {}]
  /\ parts = {}
  /\ issued \subseteq Number   \* hosts came and went before

IsNew(p, kind) ==
  /\ p.kind = kind /\ <<kind, p.number>> \notin issued
  /\ \A q \in parts : q.kind = kind => q.place # p.place

Take(i, kind) ==
  \E p \in Part :
    /\ IsNew(p, kind)
    /\ holdings' = [holdings EXCEPT ![i] = @ \cup {p}]
    /\ parts' = parts \cup {p}
    /\ issued' = issued \cup {<<kind, p.number>>}

GiveBackAll(i) ==
  /\ holdings' = [holdings EXCEPT ![i] = {}]
  /\ parts' = parts \ holdings[i]

Moves(i, from, to) == phase[i] \in from /\ phase' = [phase EXCEPT ![i] = to]

Mount(i) == Moves(i, {"new"}, "mounted") /\ Take(i, "container")

\* The native surface arrives at a host that still waits for it.
Activate(i) == Moves(i, {"mounted"}, "active") /\ Take(i, "surface")

\* Closing before the surface arrives.
Withdraw(i) == Moves(i, {"mounted"}, "withdrawn") /\ GiveBackAll(i) /\ UNCHANGED issued

\* Any way to end: a start that fails, a late surface, a close.  At most one number is
\* spent on a part that nobody ever sees.
End(i) ==
  /\ Moves(i, {"new", "mounted", "active", "withdrawn"}, "ended")
  /\ GiveBackAll(i)
  /\ UNCHANGED issued \/ \E n \in Number \ issued : issued' = issued \cup {n}

Next == \E i \in Host : Mount(i) \/ Activate(i) \/ Withdraw(i) \/ End(i)

Spec == Init /\ [][Next]_vars
=============================================================================
