---------------------------- MODULE MCMembership ----------------------------
(***************************************************************************)
(* Membership on two channels.  The networks, their beacons and their keys *)
(* are picked by the configuration:                                        *)
(*   - two PANs, on a channel each: the first has a second router, closed  *)
(*     to joiners, for a rejoin to find, and rotates between two keys; the *)
(*     second has rotated twice already, so no sequence number is shared;  *)
(*   - one PAN with one key and the two routers.                           *)
(***************************************************************************)
EXTENDS Membership

CONSTANTS p1, p2, k1, k2, k3

Heard(pan, source, lqi) ==
    [pan |-> pan, source |-> source, depth |-> 1, lqi |-> lqi,
     permit |-> TRUE, capacity |-> TRUE]

OnePan == {p1}
TwoPans == {p1, p2}
OneChannel == [p \in {p1} |-> 2]
TwoChannels == [p \in {p1, p2} |-> IF p = p1 THEN 1 ELSE 2]

RouterBeacons == {Heard(p1, 0, 1), [Heard(p1, 7, 2) EXCEPT !.permit = FALSE]}
ThreeBeacons == RouterBeacons \cup {Heard(p2, 0, 1)}

OneKey == {[pan |-> p1, key |-> k1, seq |-> 0]}
ThreeKeys == {[pan |-> p1, key |-> k1, seq |-> 0],
              [pan |-> p1, key |-> k2, seq |-> 1],
              [pan |-> p2, key |-> k3, seq |-> 2]}
=============================================================================
