----------------------------- MODULE MCEkfOdom ------------------------------
(* Small tracks for EkfOdom and EkfScan. *)
EXTENDS EkfScan

TwoCones == {"c1", "c2"}
ThreeCones == {"c1", "c2", "c3"}
Apart == [c \in ThreeCones |-> CASE c = "c1" -> 2 [] c = "c2" -> 8 [] c = "c3" -> 14]
Close == [c \in TwoCones |-> IF c = "c1" THEN 2 ELSE 7]
StartLine == 0..1
Still == {0}
BlueOrOrange == {blueCone, orangeCone}
OnlyBlue == {blueCone}
=============================================================================
