--------------------------- MODULE MCOdometryPath ---------------------------
(* Small motions for OdometryPath. *)
EXTENDS OdometryPath

LeftTurn == [x |-> 1, y |-> 0, h |-> 1]
About == [x |-> 0, y |-> 1, h |-> 2]
Tight == {LeftTurn, About}
Gravity == {[x |-> 0, y |-> 0, h |-> 0], [x |-> 0, y |-> 2, h |-> -1]}
Sideways == {[x |-> 0, y |-> 1, h |-> 0], [x |-> 0, y |-> 0, h |-> 1]}
Aside == {[x |-> 0, y |-> 1, h |-> 0]}
OneOrTwo == {1, 2}
One == {1}
NoFrame == ""
Named == {"odom"}
SometimesNamed == {"", "odom", "map"}
Base == {"base_link"}
=============================================================================
