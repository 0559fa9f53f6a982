---------------------------- MODULE ModelCache ----------------------------
(***************************************************************************)
(* What the checkpoint store promises about the host memory: a cache of    *)
(* models in a pool of buffers.  A model gets all the buffers it needs at  *)
(* once, is filled and then stays complete until it is dropped as a whole. *)
(* Room for a model is never made by dropping one that is being filled.    *)
(***************************************************************************)
EXTENDS Integers, FiniteSets

CONSTANTS Models, Buffers,
          Need  \* Need[m]: the buffers model m takes

VARIABLES free,   \* the buffers no model has
          held,   \* the buffers of a model
          phase   \* "absent", "reserved", "filling" or "full"

vars == <<free, held, phase>>

Init ==
    /\ free = Buffers
    /\ held = [m \in Models |-> {}]
    /\ phase = [m \in Models |-> "absent"]

\* The models in S lose their buffers.
Dropped(S) == [m \in Models |-> IF m \in S THEN {} ELSE held[m]]
Gained(S)  == free \cup UNION {held[m] : m \in S}
Droppable  == {m \in Models : phase[m] \in {"reserved", "full"}}
Absent(S)  == [m \in Models |-> IF m \in S THEN "absent" ELSE phase[m]]

\* m gets its buffers, the models in S having made room.
Reserve(m, S) ==
    LET bufs == held'[m] IN
    /\ phase[m] = "absent" /\ S \subseteq Droppable
    /\ bufs \subseteq Gained(S) /\ Cardinality(bufs) = Need[m]
    /\ held' = [Dropped(S) EXCEPT ![m] = bufs]
    /\ free' = Gained(S) \ bufs
    /\ phase' = [Absent(S) EXCEPT ![m] = "reserved"]

Drop(S) ==
    /\ S # {} /\ S \subseteq Droppable
    /\ held' = Dropped(S) /\ free' = Gained(S) /\ phase' = Absent(S)

Move(m, from, to) ==
    /\ phase[m] = from /\ phase' = [phase EXCEPT ![m] = to]
    /\ UNCHANGED <<free, held>>

\* The filling of m ends without success.
Abort(m) ==
    /\ phase[m] = "filling"
    /\ held' = Dropped({m}) /\ free' = Gained({m}) /\ phase' = Absent({m})

Next ==
    \/ \E S \in SUBSET Models : Drop(S) \/ \E m \in Models \ S : Reserve(m, S)
    \/ \E m \in Models : \/ Move(m, "reserved", "filling")
                         \/ Move(m, "filling", "full")
                         \/ Abort(m)

Spec == Init /\ [][Next]_vars
=============================================================================
