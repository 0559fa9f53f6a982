--------------------------- MODULE ModelService ---------------------------
(***************************************************************************)
(* What the router of a model promises its callers, without queues, load   *)
(* balancing or scaling: a call waits, is sent to one instance that is up  *)
(* and has room, and ends; calls of the two kinds never run together.      *)
(***************************************************************************)
EXTENDS Integers, FiniteSets

CONSTANTS Inferences, FineTunings, Instances, NoInstance

Calls == Inferences \cup FineTunings

VARIABLES
    up,        \* the instances a call may be sent to
    capacity,  \* the inference calls an instance takes at a time
    phase,     \* "new", "waiting", "sent" or "ended", per call
    where      \* the instance a call was sent to

vars == <<up, capacity, phase, where>>

Init ==
    /\ up = {}
    /\ capacity = [i \in Instances |-> 0]
    /\ phase = [c \in Calls |-> "new"]
    /\ where = [c \in Calls |-> NoInstance]

At(i) == {c \in Calls : where[c] = i /\ phase[c] = "sent"}

OtherKind(c) == IF c \in Inferences THEN FineTunings ELSE Inferences

Submit(c) ==
    /\ phase[c] = "new"
    /\ \A d \in OtherKind(c) : phase[d] \notin {"waiting", "sent"}
    /\ phase' = [phase EXCEPT ![c] = "waiting"]
    /\ UNCHANGED <<up, capacity, where>>

Send(c, i) ==
    /\ phase[c] = "waiting"
    /\ i \in up
    /\ c \in Inferences => Cardinality(At(i)) < capacity[i]
    /\ phase' = [phase EXCEPT ![c] = "sent"]
    /\ where' = [where EXCEPT ![c] = i]
    /\ UNCHANGED <<up, capacity>>

End(c) ==
    /\ phase[c] \in {"waiting", "sent"}
    /\ phase' = [phase EXCEPT ![c] = "ended"]
    /\ UNCHANGED <<up, capacity, where>>

\* An instance is sized before it comes up and nobody is on it.
Size(i) ==
    /\ i \notin up
    /\ At(i) = {}
    /\ capacity'[i] \in Nat
    /\ capacity' = [capacity EXCEPT ![i] = capacity'[i]]
    /\ UNCHANGED <<up, phase, where>>

ComesUp(i) ==
    /\ i \notin up
    /\ At(i) = {}
    /\ up' = up \cup {i}
    /\ UNCHANGED <<capacity, phase, where>>

GoesDown(i) ==
    /\ i \in up
    /\ up' = up \ {i}
    /\ UNCHANGED <<capacity, phase, where>>

Next ==
    \/ \E c \in Calls : Submit(c) \/ End(c) \/ \E i \in Instances : Send(c, i)
    \/ \E i \in Instances : \/ ComesUp(i)
                            \/ GoesDown(i)
                            \/ Size(i)

Spec == Init /\ [][Next]_vars

=============================================================================
