------------------------- MODULE CommandQueueProofs -------------------------
(***************************************************************************)
(* The command queue keeps its promises for every window, skew and number  *)
(* of messages.  The inductive invariant adds to the properties what       *)
(* relates the commands still buffered to those already applied: a later   *)
(* turn of the drain loop moves one of the former to the end of the latter.*)
(***************************************************************************)
EXTENDS CommandQueue, TLAPS, FiniteSetTheorems, WellFoundedInduction

\* No two commands share an arrival number, wherever they are.
SeqUnique ==
    /\ \A c, d \in buffer : c.seq = d.seq => c = d
    /\ \A i \in DOMAIN applied, c \in buffer : applied[i].seq # c.seq
    /\ \A i, j \in DOMAIN applied : applied[i].seq = applied[j].seq => i = j

\* Every arrival number given out is on some command.
SeqCovered ==
    \A n \in 0..(arrivals - 1) :
        \/ \E c \in buffer : c.seq = n
        \/ \E i \in DOMAIN applied : applied[i].seq = n

\* What is buffered is not too old to follow what was applied.
BufferFollows ==
    \A i \in DOMAIN applied, c \in buffer :
        /\ applied[i].stamp <= c.stamp + Lateness
        /\ MaxSkew <= Window => Before(applied[i], c)

\* Between callbacks the loop of drainUpTo has run to its end.
Drained == callback = "none" => Ready = {}

IInv == /\ TypeOK
        /\ SeqUnique
        /\ SeqCovered
        /\ WindowHeld
        /\ BufferFollows
        /\ LatenessBounded
        /\ StampOrder
        /\ Drained

-----------------------------------------------------------------------------

\* The queue starts empty: nothing is out of order.
LEMMA InitIInv == Init => IInv
  BY QueueAssumption
  DEF Init, IInv, TypeOK, Received, SeqUnique, SeqCovered, WindowHeld, BufferFollows,
      LatenessBounded, StampOrder, Drained, Ready, EmptyResult, Callbacks

\* A message arrives: nothing is applied, the new command has the largest
\* number and a stamp the skew bounds from below.
LEMMA ArriveIInv ==
    ASSUME IInv, NEW cb \in Callbacks, NEW t \in 0..MaxStamp, Arrive(cb, t)
    PROVE  IInv'
<1> DEFINE new == makeCommand(cb, t, arrivals)
<1>1. /\ new.stamp = t /\ new.seq = arrivals /\ new.kind \in Kinds
      /\ new = [stamp |-> new.stamp, seq |-> new.seq, kind |-> new.kind]
  BY DEF makeCommand, Kinds
<1>2. /\ buffer' = buffer \cup {new} /\ applied' = applied
      /\ newest' = IF t > newest THEN t ELSE newest
      /\ arrivals' = arrivals + 1 /\ arrivals < MaxArrivals
      /\ newest <= t + MaxSkew
      /\ callback' = cb /\ result' = EmptyResult
  BY <1>1 DEF Arrive, push
<1>3. /\ newest \in 0..MaxStamp /\ newest' \in 0..MaxStamp /\ newest <= newest'
      /\ t <= newest' /\ arrivals \in Nat /\ t \in Nat /\ MaxSkew \in Nat /\ Window \in Nat
      /\ Received \subseteq Received' /\ new \in Received'
  BY <1>1, <1>2, QueueAssumption DEF IInv, TypeOK, Received
<1>4. /\ \A c \in buffer : c.seq \in Nat /\ c.seq < arrivals /\ c.stamp \in Nat
      /\ \A i \in DOMAIN applied : /\ applied[i].seq \in Nat /\ applied[i].seq < arrivals
                                   /\ applied[i].stamp \in Nat /\ applied[i] \in Received
  <2>1. \A i \in DOMAIN applied : applied[i] \in Received
    BY DEF IInv, TypeOK
  <2>2. \A c \in Received : c.seq \in Nat /\ c.seq < arrivals /\ c.stamp \in Nat
    BY <1>3 DEF Received
  <2> QED BY <2>1, <2>2 DEF IInv, TypeOK
<1>5. TypeOK'
  <2>1. applied \in Seq(Received')
    BY <1>3, <1>4 DEF IInv, TypeOK
  <2> QED BY <1>1, <1>2, <1>3, <2>1, QueueAssumption
          DEF IInv, TypeOK, Callbacks, EmptyResult
<1>6. SeqUnique'
  BY <1>1, <1>2, <1>3, <1>4 DEF IInv, SeqUnique
<1>7. SeqCovered'
  BY <1>1, <1>2, <1>3 DEF IInv, SeqCovered
<1>8. WindowHeld'
  BY <1>2, <1>3, <1>4 DEF IInv, WindowHeld
<1>9. BufferFollows'
  <2>1. SUFFICES ASSUME NEW i \in DOMAIN applied
                 PROVE  /\ applied[i].stamp <= new.stamp + Lateness
                        /\ MaxSkew <= Window => Before(applied[i], new)
    BY <1>2 DEF IInv, BufferFollows
  <2>2. applied[i].stamp = 0 \/ applied[i].stamp + Window <= newest
    BY DEF IInv, WindowHeld
  <2> QED BY <2>2, <1>1, <1>2, <1>3, <1>4 DEF Lateness, Before
<1>10. LatenessBounded' /\ StampOrder'
  BY <1>2 DEF IInv, LatenessBounded, StampOrder
<1>11. Drained'
  BY <1>2 DEF Drained, Callbacks
<1> QED BY <1>5, <1>6, <1>7, <1>8, <1>9, <1>10, <1>11 DEF IInv

\* One turn of the drain loop: the first buffered command moves to the end of
\* the applied ones.
LEMMA DrainIInv ==
    ASSUME IInv, NEW c \in buffer, drainUpTo(c)
    PROVE  IInv'
<1> DEFINE n == Len(applied)
<1>1. /\ applied' = Append(applied, c) /\ buffer' = buffer \ {c}
      /\ c.stamp <= Horizon
      /\ newest' = newest /\ arrivals' = arrivals /\ callback' = callback
      /\ callback # "none"
      /\ \A d \in buffer \ {c} : Before(c, d)
  BY DEF drainUpTo, apply, Ready
<1>2. /\ applied \in Seq(Received) /\ c \in Received /\ n \in Nat
      /\ DOMAIN applied' = 1..(n + 1) /\ DOMAIN applied = 1..n
      /\ \A i \in 1..n : applied'[i] = applied[i]
      /\ applied'[n + 1] = c
  BY <1>1 DEF IInv, TypeOK
<1>3. /\ newest \in Nat /\ MaxSkew \in Nat /\ Window \in Nat
      /\ Received' = Received
      /\ \A d \in buffer : d.stamp \in Nat /\ d.seq \in Nat
      /\ \A i \in 1..n : applied[i] \in Received /\ applied[i].stamp \in Nat
  <2>1. \A d \in Received : d.stamp \in Nat /\ d.seq \in Nat
    BY QueueAssumption DEF IInv, TypeOK, Received
  <2>2. \A i \in 1..n : applied[i] \in Received
    BY <1>2
  <2>3. Received' = Received
    BY <1>1 DEF Received
  <2> QED BY <2>1, <2>2, <2>3, QueueAssumption DEF IInv, TypeOK
<1>4. Lateness \in Nat
  BY <1>3 DEF Lateness
<1>5. TypeOK'
  <2>1. applied' \in Seq(Received)
    BY <1>1, <1>2
  <2>2. result' \in [predicts : Nat, updates : Nat]
    BY DEF IInv, TypeOK, drainUpTo, apply
  <2> QED BY <1>1, <1>3, <2>1, <2>2 DEF IInv, TypeOK
<1>6. SeqUnique'
  <2>1. \A d, e \in buffer' : d.seq = e.seq => d = e
    BY <1>1 DEF IInv, SeqUnique
  <2>2. \A i \in DOMAIN applied', d \in buffer' : applied'[i].seq # d.seq
    BY <1>1, <1>2 DEF IInv, SeqUnique
  <2>3. \A i, j \in DOMAIN applied' : applied'[i].seq = applied'[j].seq => i = j
    BY <1>1, <1>2 DEF IInv, SeqUnique
  <2> QED BY <2>1, <2>2, <2>3 DEF SeqUnique
<1>7. SeqCovered'
  <2>1. SUFFICES ASSUME NEW m \in 0..(arrivals - 1)
                 PROVE  \/ \E d \in buffer' : d.seq = m
                        \/ \E i \in DOMAIN applied' : applied'[i].seq = m
    BY <1>1 DEF SeqCovered
  <2>2. CASE c.seq = m
    BY <2>2, <1>2
  <2>3. CASE \E d \in buffer : d.seq = m /\ c.seq # m
    BY <2>3, <1>1
  <2>4. CASE \E i \in DOMAIN applied : applied[i].seq = m
    BY <2>4, <1>2
  <2> QED BY <2>2, <2>3, <2>4 DEF IInv, SeqCovered
<1>8. WindowHeld'
  BY <1>1, <1>2, <1>3 DEF IInv, WindowHeld, Horizon
<1>9. BufferFollows'
  <2>1. SUFFICES ASSUME NEW i \in 1..(n + 1), NEW d \in buffer \ {c}
                 PROVE  /\ applied'[i].stamp <= d.stamp + Lateness
                        /\ MaxSkew <= Window => Before(applied'[i], d)
    BY <1>1, <1>2 DEF BufferFollows
  <2>2. CASE i \in 1..n
    BY <2>2, <1>2 DEF IInv, BufferFollows
  <2>3. CASE i = n + 1
    <3>1. Before(c, d)
      BY <1>1
    <3> QED BY <2>3, <3>1, <1>2, <1>3, <1>4 DEF Before
  <2> QED BY <2>2, <2>3, <1>2
<1>10. LatenessBounded'
  BY <1>2 DEF IInv, LatenessBounded, BufferFollows
<1>11. StampOrder'
  BY <1>2 DEF IInv, StampOrder, BufferFollows
<1>12. Drained'
  BY <1>1 DEF Drained
<1> QED BY <1>5, <1>6, <1>7, <1>8, <1>9, <1>10, <1>11, <1>12 DEF IInv

\* Neither a message nor a turn of the drain breaks the order.
LEMMA NextIInv == IInv /\ [Next]_queueVars => IInv'
<1> SUFFICES ASSUME IInv, [Next]_queueVars PROVE IInv'
  OBVIOUS
<1>1. CASE \E cb \in Callbacks, t \in 0..MaxStamp : Arrive(cb, t)
  BY <1>1, ArriveIInv
<1>2. CASE \E c \in buffer : drainUpTo(c)
  BY <1>2, DrainIInv
<1>3. CASE Return
  <2>1. /\ Ready = {} /\ Ready' = {}
        /\ buffer' = buffer /\ applied' = applied /\ newest' = newest
        /\ arrivals' = arrivals /\ result' = result /\ callback' = "none"
    BY <1>3 DEF Return, returnToSpin, Ready, Horizon
  <2>2. TypeOK'
    BY <2>1 DEF IInv, TypeOK, Received
  <2> QED BY <2>1, <2>2 DEF IInv, SeqUnique, SeqCovered, WindowHeld, BufferFollows,
             LatenessBounded, StampOrder, Drained
<1>4. CASE Quiet \/ UNCHANGED queueVars
  <2>1. UNCHANGED queueVars
    BY <1>4 DEF Quiet
  <2>2. TypeOK' /\ Drained'
    BY <2>1 DEF IInv, TypeOK, Received, queueVars, Drained, Ready, Horizon
  <2> QED BY <2>1, <2>2 DEF queueVars, IInv, SeqUnique, SeqCovered, WindowHeld,
             BufferFollows, LatenessBounded, StampOrder
<1> QED BY <1>1, <1>2, <1>3, <1>4 DEF Next

\* The inductive invariant holds of every reachable state.
THEOREM QueueInvariant == Spec => []IInv
  BY InitIInv, NextIInv, PTL DEF Spec

\* The types hold, with every stamp at most newest_ and every arrival number
\* given out once.
THEOREM QueueTypeOK == Spec => []TypeOK
<1>1. IInv => TypeOK
  BY DEF IInv
<1> QED BY <1>1, QueueInvariant, PTL

\* The filter never sees a command older than one it was given by more than
\* the skew the window does not absorb.
THEOREM QueueLateness == Spec => []LatenessBounded
<1>1. IInv => LatenessBounded
  BY DEF IInv
<1> QED BY <1>1, QueueInvariant, PTL

\* A window that covers the skew feeds the filter in stamp order.
THEOREM QueueStampOrder == Spec => []StampOrder
<1>1. IInv => StampOrder
  BY DEF IInv
<1> QED BY <1>1, QueueInvariant, PTL

\* No command is lost and none is applied twice.
THEOREM QueueExactlyOnce == Spec => []ExactlyOnce
<1>1. IInv => ExactlyOnce
  BY DEF IInv, SeqUnique, SeqCovered, ExactlyOnce
<1> QED BY <1>1, QueueInvariant, PTL

\* Nothing is applied before its window has elapsed.
THEOREM QueueWindow == Spec => []WindowHeld
<1>1. IInv => WindowHeld
  BY DEF IInv
<1> QED BY <1>1, QueueInvariant, PTL

\* Nothing is held longer than its window: the filter lags by no more.
THEOREM QueueBoundedLag == Spec => []BoundedLag
<1>1. IInv => BoundedLag
  <2> SUFFICES ASSUME IInv, callback = "none", NEW c \in buffer
               PROVE  c.stamp > 0 /\ newest < c.stamp + Window
    BY DEF BoundedLag
  <2>1. c.stamp \in Nat /\ newest \in Nat /\ Window \in Nat
    BY QueueAssumption DEF IInv, TypeOK, Received
  <2>2. c \notin Ready
    BY DEF IInv, Drained
  <2> QED BY <2>1, <2>2 DEF Ready, Horizon
<1> QED BY <1>1, QueueInvariant, PTL

-----------------------------------------------------------------------------
(* The drain loop ends *)

\* The order of the numbers, as the relation the library's theorems speak of.
LessNat == {pair \in Nat \X Nat : pair[1] < pair[2]}

LEMMA LessNatWellFounded == IsWellFoundedOn(LessNat, Nat)
  BY NatLessThanWellFounded DEF OpToRel, LessNat

\* A set of numbers has a least one.
LEMMA LeastNumber ==
    ASSUME NEW T \in SUBSET Nat, T # {}
    PROVE  \E m \in T : \A n \in T : m <= n
<1>1. \A n \in T : n \in Nat
  OBVIOUS
<1>2. PICK m \in T : \A n \in T : <<n, m>> \notin LessNat
  BY LessNatWellFounded, WFMin
<1>3. \A n \in T : ~(n < m)
  BY <1>1, <1>2 DEF LessNat
<1> QED BY <1>1, <1>3

\* The multimap has a first command, however many are buffered and whatever their
\* stamps.
LEMMA FirstCommand ==
    ASSUME IInv, NEW S \in SUBSET buffer, S # {}
    PROVE  \E c \in S : \A d \in S \ {c} : Before(c, d)
<1>1. \A c \in S : c.stamp \in Nat /\ c.seq \in Nat
  BY QueueAssumption DEF IInv, TypeOK, Received
<1>2. PICK c0 \in S : \A d \in S : c0.stamp <= d.stamp
  <2>1. {d.stamp : d \in S} \in SUBSET Nat /\ {d.stamp : d \in S} # {}
    BY <1>1
  <2>2. \E m \in {d.stamp : d \in S} : \A n \in {d.stamp : d \in S} : m <= n
    BY <2>1, LeastNumber
  <2> QED BY <2>2
<1> DEFINE oldest == {d \in S : d.stamp = c0.stamp}
<1>3. PICK c \in oldest : \A d \in oldest : c.seq <= d.seq
  <2>1. {d.seq : d \in oldest} \in SUBSET Nat /\ {d.seq : d \in oldest} # {}
    BY <1>1
  <2>2. \E m \in {d.seq : d \in oldest} : \A n \in {d.seq : d \in oldest} : m <= n
    BY <2>1, LeastNumber
  <2> QED BY <2>2
<1>4. ASSUME NEW d \in S \ {c} PROVE Before(c, d)
  <2>1. c.stamp <= d.stamp /\ (c.stamp = d.stamp => c.seq <= d.seq)
    BY <1>2, <1>3
  <2>2. c.seq # d.seq
    BY <1>3, <1>4 DEF IInv, SeqUnique
  <2> QED BY <1>1, <1>3, <2>1, <2>2 DEF Before
<1> QED BY <1>3, <1>4

\* While a callback runs either the loop is over or its next command is there: the
\* guard of drainUpTo or that of Return holds.
LoopGoesOn == callback # "none" =>
                Ready = {} \/ \E c \in Ready : \A d \in buffer \ {c} : Before(c, d)

\* The drain loop is never stuck, for every window and any stamps.
THEOREM QueueNeverStuck == Spec => []LoopGoesOn
<1>1. IInv => LoopGoesOn
  <2> SUFFICES ASSUME IInv, Ready # {}
               PROVE  \E c \in Ready : \A d \in buffer \ {c} : Before(c, d)
    BY DEF LoopGoesOn
  <2>1. buffer \in SUBSET buffer /\ buffer # {} /\ \A c \in buffer : c.stamp \in Nat
    BY QueueAssumption DEF Ready, IInv, TypeOK, Received
  <2>2. PICK c \in buffer : \A d \in buffer \ {c} : Before(c, d)
    BY <2>1, FirstCommand
  <2>3. PICK r \in buffer : r.stamp <= Horizon
    BY DEF Ready
  <2>4. c.stamp <= r.stamp
    BY <2>1, <2>2, <2>3 DEF Before
  <2>5. Horizon \in Nat
    BY QueueAssumption DEF Horizon, IInv, TypeOK
  <2> QED BY <2>1, <2>2, <2>3, <2>4, <2>5 DEF Ready
<1> QED BY <1>1, QueueInvariant, PTL

\* Each turn of the loop leaves one command less in the buffer, which is finite: with
\* QueueNeverStuck, a callback drains for at most as many turns as there are commands,
\* and returns.
Shrinks == (\E c \in buffer : drainUpTo(c)) => Cardinality(buffer') < Cardinality(buffer)

THEOREM QueueDrainEnds ==
    Spec => []IsFiniteSet(buffer) /\ [][Cardinality(buffer) \in Nat /\ Shrinks]_queueVars
<1>1. Init => IsFiniteSet(buffer)
  BY FS_EmptySet DEF Init
<1>2. IsFiniteSet(buffer) /\ [Next]_queueVars => IsFiniteSet(buffer)'
  <2> SUFFICES ASSUME IsFiniteSet(buffer), [Next]_queueVars PROVE IsFiniteSet(buffer')
    OBVIOUS
  <2>1. ASSUME NEW cb \in Callbacks, NEW t \in 0..MaxStamp, Arrive(cb, t)
        PROVE  IsFiniteSet(buffer')
    BY <2>1, FS_AddElement DEF Arrive, push
  <2>2. ASSUME NEW c \in buffer, drainUpTo(c) PROVE IsFiniteSet(buffer')
    BY <2>2, FS_RemoveElement DEF drainUpTo, apply
  <2>3. CASE Return \/ Quiet \/ UNCHANGED queueVars
    BY <2>3 DEF Return, returnToSpin, Quiet, queueVars
  <2> QED BY <2>1, <2>2, <2>3 DEF Next
<1>3. IsFiniteSet(buffer) => Cardinality(buffer) \in Nat /\ Shrinks
  <2> SUFFICES ASSUME IsFiniteSet(buffer), NEW c \in buffer, drainUpTo(c)
               PROVE  Cardinality(buffer') < Cardinality(buffer)
    BY FS_CardinalityType DEF Shrinks
  <2>1. Cardinality(buffer') = Cardinality(buffer) - 1
    BY FS_RemoveElement DEF drainUpTo, apply
  <2> QED BY <2>1, FS_CardinalityType
<1> QED BY <1>1, <1>2, <1>3, PTL DEF Spec

-----------------------------------------------------------------------------
(* Refinement *)

\* When the window covers the skew the queue implements ordered, exactly-once
\* delivery: an arrival is an Accept, a turn of the drain loop a Deliver.
THEOREM QueueImplementsOrdered ==
    ASSUME MaxSkew <= Window
    PROVE  Spec => OrderedDelivery
<1> DEFINE acc == buffer \cup {applied[i] : i \in DOMAIN applied}
<1>1. Init => Ordered!Init
  BY DEF Init, Ordered!Init
<1>2. IInv /\ IInv' /\ [Next]_queueVars
        => [Ordered!Accept \/ Ordered!Deliver]_(Ordered!vars)
  <2> SUFFICES ASSUME IInv, IInv', [Next]_queueVars
               PROVE  \/ Ordered!Accept \/ Ordered!Deliver
                      \/ acc' = acc /\ applied' = applied
    BY DEF Ordered!vars
  <2>1. ASSUME NEW cb \in Callbacks, NEW t \in 0..MaxStamp, Arrive(cb, t)
        PROVE  Ordered!Accept
    <3> DEFINE new == makeCommand(cb, t, arrivals)
    <3>1. /\ new.stamp = t /\ new.seq = arrivals /\ new \in Command
          /\ buffer' = buffer \cup {new} /\ applied' = applied
      BY <2>1, QueueAssumption DEF Arrive, push, makeCommand, Command, Kinds, IInv, TypeOK
    <3>2. new \notin acc
      BY <3>1, QueueAssumption DEF IInv, TypeOK, Received
    <3>3. \A i \in DOMAIN applied : Before(applied[i], new)
      BY <3>1 DEF IInv, BufferFollows
    <3>4. acc' = acc \cup {new}
      BY <3>1
    <3> QED BY <3>1, <3>2, <3>3, <3>4 DEF Ordered!Accept, Before, Ordered!Before
  <2>2. ASSUME NEW c \in buffer, drainUpTo(c)
        PROVE  Ordered!Deliver
    <3>1. /\ applied' = Append(applied, c) /\ buffer' = buffer \ {c}
          /\ \A d \in buffer \ {c} : Before(c, d)
          /\ applied \in Seq(Received)
      BY <2>2 DEF drainUpTo, apply, IInv, TypeOK
    <3>2. ~ \E i \in DOMAIN applied : applied[i] = c
      BY DEF IInv, SeqUnique
    <3>3. acc' = acc
      BY <3>1
    <3>4. \A d \in acc : d = c \/ (\E i \in DOMAIN applied : applied[i] = d) \/ Before(c, d)
      BY <3>1
    <3> QED BY <3>1, <3>2, <3>3, <3>4
            DEF Ordered!Deliver, Ordered!Delivered, Before, Ordered!Before
  <2>3. CASE Return \/ Quiet \/ UNCHANGED queueVars
    BY <2>3 DEF Return, returnToSpin, Quiet, queueVars
  <2> QED BY <2>1, <2>2, <2>3 DEF Next
<1> QED BY <1>1, <1>2, QueueInvariant, PTL DEF Spec, OrderedDelivery, Ordered!Spec
=============================================================================
