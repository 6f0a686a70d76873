---------------------------- MODULE StampOrdered ----------------------------
(***************************************************************************)
(* What the command queue promises the filter: the commands delivered are  *)
(* at every moment the oldest ones of those accepted, in stamp order, each *)
(* exactly once; and a command is accepted only while it can still take    *)
(* its place in that order.                                                *)
(***************************************************************************)
EXTENDS Integers, Sequences

CONSTANT Commands    \* the commands, each with a stamp and a seq number

VARIABLES
    accepted,     \* every command received
    delivered     \* the commands applied to the filter, in order

vars == <<accepted, delivered>>

Before(c, d) == \/ c.stamp < d.stamp
                \/ c.stamp = d.stamp /\ c.seq < d.seq

Delivered(c) == \E i \in DOMAIN delivered : delivered[i] = c

Init == accepted = {} /\ delivered = << >>

Accept == \E c \in Commands :
            /\ c \notin accepted
            /\ \A i \in DOMAIN delivered : Before(delivered[i], c)
            /\ accepted' = accepted \cup {c}
            /\ UNCHANGED delivered

Deliver == \E c \in accepted :
            /\ ~Delivered(c)
            /\ \A d \in accepted : d = c \/ Delivered(d) \/ Before(c, d)
            /\ delivered' = Append(delivered, c)
            /\ UNCHANGED accepted

Spec == Init /\ [][Accept \/ Deliver]_vars
=============================================================================
