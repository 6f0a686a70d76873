------------------------- MODULE MCConeMapPublisher -------------------------
(* Small tracks for ConeMapPublisher. *)
EXTENDS ConeMapPublisher

OneCone == {"c1"}
TwoCones == {"c1", "c2"}
Apart == [c \in TwoCones |-> IF c = "c1" THEN 2 ELSE 8]
Single == [c \in OneCone |-> 2]
Still == {0}
OnlyBlue == {blueCone}
BlueOrUnknown == {blueCone, Unknown}
AllLaps == 0..2
=============================================================================
