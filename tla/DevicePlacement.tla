-------------------------- MODULE DevicePlacement --------------------------
(***************************************************************************)
(* Which device each module of a model goes to when it is loaded with a    *)
(* named strategy: _compute_device_placement_from_map_fast and its two     *)
(* algorithms (sllm_store/device_map_utils.py).                            *)
(*                                                                         *)
(* A dict of module sizes is [names, size], a sequence of its keys and a   *)
(* function; mem[d] is the memory of the d-th device (the code counts from *)
(* 0); a tie is [group, shared], modules that share a parameter and its    *)
(* size.  Raised stands for any exception.                                 *)
(***************************************************************************)
EXTENDS Integers, Sequences, SequencesExt, FiniteSetsExt, Functions

CONSTANT Raised

Larger(a, b)   == IF a > b THEN a ELSE b
Lesser(a, b)  == IF a < b THEN a ELSE b
Distance(a, b) == Larger(a, b) - Lesser(a, b)
SumOver(f, S)  == SumFunctionOnSet(f, S)

\* Mutant of Merge: the modules of a tie are placed one by one.
MergeNone(dict, tie) == dict
\* The modules of a tie become one, which has the shared parameter once.
Merge(dict, tie) ==
    LET tied == SelectSeq(dict.names, LAMBDA m : m \in tie.group) IN
    IF tied = <<>> THEN dict
    ELSE LET rest == Range(tied) \ {tied[1]} IN
         [names |-> SelectSeq(dict.names, LAMBDA m : m \notin rest),
          size |-> [dict.size EXCEPT ![tied[1]] =
                       @ + SumOver([m \in rest |-> dict.size[m] - tie.shared], rest)]]

\* A table entry of _get_balanced_placement: [gap, lo, hi, parts] for a split
\* of the first modules over the first devices, or Unreached.
Unreached == [gap |-> -1]

\* The entry that puts the modules after the j-th, up to the i-th, on one
\* more device than entry e has.
Extend(e, part, size) ==
    [gap |-> IF e.parts = <<>> THEN 0
             ELSE Larger(Distance(e.lo, size), Distance(e.hi, size)),
     lo |-> IF e.parts = <<>> THEN size ELSE Lesser(e.lo, size),
     hi |-> Larger(e.hi, size),
     parts |-> Append(e.parts, part)]

\* Mutant of Better: the last candidate wins.
BetterLast(old, new) == TRUE
Better(old, new) == old = Unreached \/ new.gap < old.gap

\* The table, an entry for i modules on k devices.
Table(dict, mem) ==
    LET size(j, i) == SumOver(dict.size, Range(SubSeq(dict.names, j + 1, i)))
        T[p \in (0 .. Len(dict.names)) \X (0 .. Len(mem))] ==
            LET i == p[1]
                k == p[2]
                step(old, j) ==
                    LET new == Extend(T[j, k - 1], SubSeq(dict.names, j + 1, i), size(j, i)) IN
                    IF size(j, i) <= mem[k] /\ T[j, k - 1] # Unreached /\ Better(old, new)
                    THEN new ELSE old
            IN IF i = 0 /\ k = 0 THEN [gap |-> 0, lo |-> 0, hi |-> 0, parts |-> <<>>]
               ELSE IF i = 0 \/ k = 0 THEN Unreached
               ELSE FoldLeft(step, Unreached, [j \in 1..i |-> j - 1])
    IN T

\* A placement is a sequence of [module, device], the dict in its order.
\* With no split that fits the table entry is empty, and so is the result.
Balanced(dict, mem) ==
    LET best == Table(dict, mem)[Len(dict.names), Len(mem)]
        dev(m) == CHOOSE k \in DOMAIN best.parts : m \in Range(best.parts[k])
    IN IF Len(dict.names) < Len(mem) THEN Raised
       ELSE IF best = Unreached THEN <<>>
       ELSE [i \in DOMAIN dict.names |->
                [module |-> dict.names[i], device |-> dev(dict.names[i])]]

\* Mutant of Sequential: the last device is not checked.
SequentialPast(dict, mem) ==
    LET place(r, m) ==
            LET d == IF r = <<>> THEN 1 ELSE Last(r).device IN
            Append(r, [module |-> m,
                       device |-> Min({e \in d .. Len(mem) : dict.size[m] <= mem[e]}
                                      \cup {Len(mem) + 1})])
    IN FoldLeft(place, <<>>, dict.names)
\* The first device from the current one whose whole memory holds a module;
\* what is on the device already is not taken off.
Sequential(dict, mem) ==
    LET roomy(d, m) == {e \in DOMAIN mem : e >= d /\ dict.size[m] <= mem[e]}
        place(r, m) ==
            IF r = Raised THEN r
            ELSE LET d == IF r = <<>> THEN 1 ELSE Last(r).device IN
                 IF roomy(d, m) = {} THEN Raised
                 ELSE Append(r, [module |-> m, device |-> Min(roomy(d, m))])
    IN IF Len(dict.names) < Len(mem) THEN Raised
       ELSE FoldLeft(place, <<>>, dict.names)

DeviceOf(placement, m) ==
    placement[CHOOSE i \in DOMAIN placement : placement[i].module = m].device
Placed(placement) == {placement[i].module : i \in DOMAIN placement}

\* Mutant of Reassign: the modules of a tie stay where they are.
ReassignNone(placement, tie) == placement
\* The modules of a tie go to the device of the first of them; those that
\* were merged are new keys, at the end of the dict.
Reassign(placement, tie) ==
    LET tied == SelectSeq(placement, LAMBDA p : p.module \in tie.group) IN
    IF tied = <<>> THEN placement
    ELSE [i \in DOMAIN placement |->
             IF placement[i].module \in tie.group
             THEN [placement[i] EXCEPT !.device = tied[1].device] ELSE placement[i]]
         \o [i \in 1..Cardinality(tie.group \ Placed(placement)) |->
                [module |-> SetToSeq(tie.group \ Placed(placement))[i],
                 device |-> tied[1].device]]

\* _compute_device_placement_from_map_fast.  The loop that drops devices
\* drops the last one and looks at the first: it ends with an exception
\* whenever the first module does not fit the first device.
FastPlacement(dict, ties, mem, strategy) ==
    LET merged == FoldLeft(Merge, dict, ties)
        placement == IF strategy \in {"auto", "balanced"} THEN Balanced(merged, mem)
                     ELSE IF strategy = "sequential" THEN Sequential(merged, mem)
                     ELSE Raised
    IN IF \/ dict.names = <<>> \/ mem = <<>>
          \/ merged.size[merged.names[1]] > mem[1]
          \/ SumOver(merged.size, Range(merged.names)) > SumOver(mem, DOMAIN mem)
          \/ placement = Raised
       THEN Raised
       ELSE FoldLeft(Reassign, placement, ties)

-----------------------------------------------------------------------------
(* What the comments ask of the balanced placement, over all the splits of *)
(* the modules into consecutive parts, one for each device.                *)

Cuts(dict, mem) ==
    {c \in [0 .. Len(mem) -> 0 .. Len(dict.names)] :
        /\ c[0] = 0 /\ c[Len(mem)] = Len(dict.names)
        /\ \A k \in DOMAIN mem : c[k - 1] < c[k]}
PartSize(dict, c, k) == SumOver(dict.size, Range(SubSeq(dict.names, c[k - 1] + 1, c[k])))
Splits(dict, mem) ==
    {c \in Cuts(dict, mem) : \A k \in DOMAIN mem : PartSize(dict, c, k) <= mem[k]}
SplitGap(dict, mem, c) ==
    LET sizes == {PartSize(dict, c, k) : k \in DOMAIN mem} IN Max(sizes) - Min(sizes)
=============================================================================
