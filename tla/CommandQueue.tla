---------------------------- MODULE CommandQueue ----------------------------
(***************************************************************************)
(* CommandQueue (input/filter_command.hpp) and the two callbacks of        *)
(* ConeFusion that feed it.  Each callback pushes one command (a LIMO      *)
(* message that yields none finds nothing to drain) and then               *)
(* calls drainQueue(), whose loop applies the oldest buffered command to   *)
(* the filter as long as its stamp is not above the late-arrival horizon.  *)
(* The subscriptions share one mutually exclusive callback group, so a     *)
(* callback runs to its end before the next one starts.                    *)
(*                                                                         *)
(* A command is its stamp, its kind and its arrival number.  The multimap  *)
(* iterates by stamp and keeps insertion order among equal stamps: the     *)
(* order Before.                                                           *)
(***************************************************************************)
EXTENDS Integers, Sequences, FiniteSets

CONSTANTS
    Window,       \* late_arrival_window_ns
    MaxSkew,      \* environment: an arriving stamp is at most this much
                  \* older than the newest stamp already received
    MaxStamp,     \* bound on the stamps the environment produces
    MaxArrivals   \* bound on the number of messages

ASSUME QueueAssumption ==
    /\ Window \in Nat
    /\ MaxSkew \in Nat
    /\ MaxStamp \in Nat
    /\ MaxArrivals \in Nat

VARIABLES
    buffer,       \* buffer_
    newest,       \* newest_
    arrivals,     \* number of commands pushed so far
    applied,      \* the commands handed to the filter, oldest call first
    callback,     \* the subscription callback running, or "none"
    result        \* the DrainResult of the drain in progress

queueVars == <<buffer, newest, arrivals, applied, callback, result>>

Callbacks == {"limo", "cones"}
Kinds == {"Predict", "Update"}
Command == [stamp : 0..MaxStamp, seq : 0..(MaxArrivals - 1), kind : Kinds]

Before(c, d) == \/ c.stamp < d.stamp
                \/ c.stamp = d.stamp /\ c.seq < d.seq

makeCommand(cb, t, n) ==
    [stamp |-> t, seq |-> n,
     kind |-> IF cb = "limo" THEN "Predict" ELSE "Update"]

\* Mutants of Horizon: the window is ignored; the subtraction wraps around.
HorizonWithoutWindow == newest
HorizonUnderflow == IF newest >= Window THEN newest - Window ELSE MaxStamp

Horizon == IF newest > Window THEN newest - Window ELSE 0
Ready == {c \in buffer : c.stamp <= Horizon}

EmptyResult == [predicts |-> 0, updates |-> 0]

Init == /\ buffer = {}
        /\ newest = 0
        /\ arrivals = 0
        /\ applied = << >>
        /\ callback = "none"
        /\ result = EmptyResult

\* Mutants of push: newest_ follows the last arrival; std::map::emplace, which
\* ignores a key it already has.
pushLastStamp(c) == newest' = c.stamp /\ buffer' = buffer \cup {c}
pushUniqueStamp(c) ==
    /\ newest' = IF c.stamp > newest THEN c.stamp ELSE newest
    /\ buffer' = IF \E d \in buffer : d.stamp = c.stamp THEN buffer
                                                        ELSE buffer \cup {c}

push(c) == /\ newest' = IF c.stamp > newest THEN c.stamp ELSE newest
           /\ buffer' = buffer \cup {c}

\* A message reaches the node: its callback pushes a command and enters
\* drainQueue().
Arrive(cb, t) ==
    /\ callback = "none"
    /\ arrivals < MaxArrivals
    /\ newest <= t + MaxSkew
    /\ push(makeCommand(cb, t, arrivals))
    /\ arrivals' = arrivals + 1
    /\ callback' = cb
    /\ result' = EmptyResult
    /\ UNCHANGED applied

apply(c) ==
    /\ callback # "none"
    /\ c \in Ready
    /\ applied' = Append(applied, c)
    /\ buffer' = buffer \ {c}
    /\ result' = IF c.kind = "Predict"
                   THEN [result EXCEPT !.predicts = @ + 1]
                   ELSE [result EXCEPT !.updates = @ + 1]
    /\ UNCHANGED <<newest, arrivals, callback>>

\* Mutants of drainUpTo: an unsorted buffer; a heap, which is not stable.
drainUnsorted(c) == apply(c)
drainUnstable(c) == apply(c) /\ \A d \in buffer : c.stamp <= d.stamp

\* One turn of the loop of drainUpTo: apply the first command and erase it.
drainUpTo(c) == apply(c) /\ \A d \in buffer \ {c} : Before(c, d)

returnToSpin ==
    /\ callback' = "none"
    /\ UNCHANGED <<buffer, newest, arrivals, applied, result>>

\* Mutant of Return: an if in place of the while.
ReturnAfterOne == /\ callback # "none"
                  /\ Ready = {} \/ result # EmptyResult
                  /\ returnToSpin

\* Nothing is left at or below the horizon: the loop ends, the callback
\* publishes and returns.
Return == callback # "none" /\ Ready = {} /\ returnToSpin

\* The messages the environment had to send are all in: the node idles.
Quiet == /\ callback = "none"
         /\ arrivals = MaxArrivals
         /\ UNCHANGED queueVars

Next == \/ \E cb \in Callbacks, t \in 0..MaxStamp : Arrive(cb, t)
        \/ \E c \in buffer : drainUpTo(c)
        \/ Return
        \/ Quiet

Spec == Init /\ [][Next]_queueVars

-----------------------------------------------------------------------------
(* Properties *)

\* The types, with the bounds that tie every command to the counters: no stamp
\* is above newest_, no arrival number is in use before it is assigned.
Received == [stamp : 0..newest, seq : 0..(arrivals - 1), kind : Kinds]
TypeOK == /\ newest \in 0..MaxStamp
          /\ arrivals \in 0..MaxArrivals
          /\ buffer \subseteq Received
          /\ applied \in Seq(Received)
          /\ callback \in Callbacks \cup {"none"}
          /\ result \in [predicts : Nat, updates : Nat]

\* How much of the arrival skew the window does not absorb.
Lateness == IF MaxSkew > Window THEN MaxSkew - Window ELSE 0

\* The filter never sees a command older, by more than the unabsorbed skew,
\* than one it has already been given: what the late-arrival window promises
\* for a stream whose messages are at most MaxSkew late.
LatenessBounded ==
    \A i, j \in DOMAIN applied :
        i < j => applied[i].stamp <= applied[j].stamp + Lateness

\* "Set just above the worst-case cone-vs-LIMO arrival skew" (config.yaml): then
\* commands reach the filter in stamp order, first come first served among
\* equal stamps.
StampOrder ==
    MaxSkew <= Window =>
        \A i, j \in DOMAIN applied : i < j => Before(applied[i], applied[j])

\* A command is never lost and never applied twice, however many share a
\* stamp: each arrival is either still buffered or was applied exactly once.
ExactlyOnce ==
    \A n \in 0..(arrivals - 1) :
        \/ /\ \E c \in buffer : c.seq = n
           /\ \A i \in DOMAIN applied : applied[i].seq # n
        \/ /\ \A c \in buffer : c.seq # n
           /\ \E i \in DOMAIN applied :
                /\ applied[i].seq = n
                /\ \A j \in DOMAIN applied : applied[j].seq = n => j = i

\* Between callbacks the buffer holds only the last Window of the stream:
\* anything older has been applied, so the filter lags its newest input by at
\* most the configured window (stamp 0 excepted, which the clamped horizon
\* always releases).
BoundedLag ==
    callback = "none" =>
        \A c \in buffer : c.stamp > 0 /\ newest < c.stamp + Window

\* Nothing is applied before its window has elapsed in stream time.
WindowHeld ==
    \A i \in DOMAIN applied :
        applied[i].stamp = 0 \/ applied[i].stamp + Window <= newest

\* The queue implements ordered, exactly-once delivery when the window covers
\* the skew: what has been accepted is what is buffered or was applied.
Ordered == INSTANCE StampOrdered WITH
             Commands <- Command,
             accepted <- buffer \cup {applied[i] : i \in DOMAIN applied},
             delivered <- applied
OrderedDelivery == Ordered!Spec
=============================================================================
