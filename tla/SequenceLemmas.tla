-------------------------- MODULE SequenceLemmas ---------------------------
(***************************************************************************)
(* Lemmas about the sequences the models keep: the queues of calls and the *)
(* dictionaries whose order matters.  An entry is appended, taken from     *)
(* either end or removed from the middle, and no element is in one twice.  *)
(* The search for the first position with some property ends at the least. *)
(***************************************************************************)
EXTENDS Integers, FiniteSets, SequencesExt, FiniteSetTheorems,
        SequenceTheorems, WellFoundedInduction, TLAPS

\* The order of the natural numbers is well-founded, as a relation the
\* provers can use.
LEMMA LessThanOnNat ==
    \E R : /\ IsWellFoundedOn(R, Nat)
          /\ \A x, y \in Nat : <<x, y>> \in R <=> x < y
<1>1. IsWellFoundedOn(OpToRel(<, Nat), Nat)
  BY NatLessThanWellFounded
<1>2. \A x, y \in Nat : <<x, y>> \in OpToRel(<, Nat) <=> x < y
  BY DEF OpToRel
<1>. QED
  BY <1>1, <1>2, Zenon

\* A set of natural numbers has a least one.
LEMMA NatLeast ==
    ASSUME NEW T, T \subseteq Nat, T # {}
    PROVE  \E x \in T : \A y \in T : x <= y
<1>1. PICK R : /\ IsWellFoundedOn(R, Nat)
               /\ \A x, y \in Nat : <<x, y>> \in R <=> x < y
  BY LessThanOnNat
<1>2. IsWellFoundedOn(R, Nat)
  BY <1>1, Zenon
<1>3. PICK x \in T : \A y \in T : ~ (<<y, x>> \in R)
  BY <1>2, WFMin
<1>4. ASSUME NEW y \in T PROVE x <= y
  <2>1. x \in Nat /\ y \in Nat
    OBVIOUS
  <2>2. ~ (<<y, x>> \in R)
    BY <1>3
  <2>3. ~ (y < x)
    BY <2>1, <2>2, <1>1
  <2>. QED
    BY <2>1, <2>3
<1>. QED
  BY <1>4

\* An element of a sequence is at some position.
LEMMA ToSetMember ==
    ASSUME NEW S, NEW s \in Seq(S)
    PROVE  /\ \A e : e \in ToSet(s) <=> \E i \in 1 .. Len(s) : s[i] = e
           /\ ToSet(s) \subseteq S
           /\ IsInjective(s) <=>
                  \A i, j \in 1 .. Len(s) : s[i] = s[j] => i = j
BY DEF ToSet, IsInjective

\* The empty sequence has no element.
LEMMA EmptyElements == ToSet(<<>>) = {} /\ IsInjective(<<>>)
BY DEF ToSet, IsInjective

\* A new element at the end: dict[key] = value and Queue.put.
LEMMA AppendElements ==
    ASSUME NEW S, NEW s \in Seq(S), NEW e \in S
    PROVE  /\ Append(s, e) \in Seq(S)
           /\ Len(Append(s, e)) = Len(s) + 1
           /\ ToSet(Append(s, e)) = ToSet(s) \cup {e}
           /\ IsInjective(s) /\ e \notin ToSet(s) => IsInjective(Append(s, e))
<1> DEFINE t == Append(s, e)
<1>1. /\ t \in Seq(S)
      /\ Len(t) = Len(s) + 1
      /\ \A i \in 1 .. Len(s) : t[i] = s[i]
      /\ t[Len(s) + 1] = e
      /\ Len(s) \in Nat
  OBVIOUS
<1> HIDE DEF t
<1>2. \A i \in 1 .. Len(t) : i \in 1 .. Len(s) \/ i = Len(s) + 1
  BY <1>1
<1>3. 1 .. Len(s) \subseteq 1 .. Len(t) /\ Len(s) + 1 \in 1 .. Len(t)
  BY <1>1
<1>4. ASSUME NEW x
      PROVE  x \in ToSet(t) <=> x \in ToSet(s) \/ x = e
  BY <1>1, <1>2, <1>3, ToSetMember
<1>5. ToSet(t) = ToSet(s) \cup {e}
  BY <1>4
<1>6. ASSUME IsInjective(s), e \notin ToSet(s)
      PROVE  IsInjective(t)
  <2>1. \A i, j \in 1 .. Len(s) : s[i] = s[j] => i = j
    BY <1>6, ToSetMember
  <2>2. \A i \in 1 .. Len(s) : s[i] # e
    BY <1>6, ToSetMember
  <2>3. \A i, j \in 1 .. Len(t) : t[i] = t[j] => i = j
    BY <1>1, <1>2, <2>1, <2>2
  <2>. QED
    BY <1>1, <2>3, ToSetMember
<1>. QED
  BY <1>1, <1>5, <1>6 DEF t

\* A new element at the front.
LEMMA PrependElements ==
    ASSUME NEW S, NEW s \in Seq(S), NEW e \in S
    PROVE  /\ ToSet(<<e>> \o s) = {e} \cup ToSet(s)
           /\ IsInjective(<<e>> \o s) <=> IsInjective(s) /\ e \notin ToSet(s)
<1> DEFINE t == <<e>> \o s
<1>1. /\ t \in Seq(S)
      /\ Len(t) = Len(s) + 1
      /\ \A i \in 1 .. Len(s) : t[i + 1] = s[i]
      /\ t[1] = e
      /\ Len(s) \in Nat
  <2>1. /\ <<e>> \in Seq(S)
        /\ Len(<<e>>) = 1
        /\ <<e>>[1] = e
    OBVIOUS
  <2>. QED
    BY <2>1, ConcatProperties
<1> HIDE DEF t
<1>2. \A i \in 1 .. Len(t) : i = 1 \/ \E j \in 1 .. Len(s) : i = j + 1
  <2>1. \A i \in 1 .. Len(t) : i = 1 \/ (i - 1 \in 1 .. Len(s) /\ i = (i - 1) + 1)
    BY <1>1
  <2>. QED
    BY <2>1
<1>3. \A j \in 1 .. Len(s) : j + 1 \in 1 .. Len(t) /\ t[j + 1] = s[j]
  BY <1>1
<1>4. 1 \in 1 .. Len(t) /\ t[1] = e
  BY <1>1
<1>5. ASSUME NEW x
      PROVE  x \in ToSet(t) <=> x \in ToSet(s) \/ x = e
  <2>1. x \in ToSet(t) <=> \E i \in 1 .. Len(t) : t[i] = x
    BY <1>1, ToSetMember
  <2>2. x \in ToSet(s) <=> \E j \in 1 .. Len(s) : s[j] = x
    BY ToSetMember
  <2>. QED
    BY <1>2, <1>3, <1>4, <2>1, <2>2
<1>6. ASSUME IsInjective(s), e \notin ToSet(s)
      PROVE  IsInjective(t)
  <2>1. \A i, j \in 1 .. Len(s) : s[i] = s[j] => i = j
    BY <1>6, ToSetMember
  <2>2. \A i \in 1 .. Len(s) : s[i] # e
    BY <1>6, ToSetMember
  <2>3. ASSUME NEW i \in 1 .. Len(t), NEW j \in 1 .. Len(t), t[i] = t[j]
        PROVE  i = j
    <3>1. CASE i = 1 /\ j = 1
      BY <3>1
    <3>2. CASE i = 1 /\ \E k \in 1 .. Len(s) : j = k + 1
      BY <1>3, <1>4, <2>2, <2>3, <3>2, Zenon
    <3>3. CASE j = 1 /\ \E k \in 1 .. Len(s) : i = k + 1
      BY <1>3, <1>4, <2>2, <2>3, <3>3, Zenon
    <3>4. CASE (\E k \in 1 .. Len(s) : i = k + 1) /\ (\E l \in 1 .. Len(s) : j = l + 1)
      BY <1>3, <2>1, <2>3, <3>4, ZenonT(30)
    <3>. QED
      BY <1>2, <3>1, <3>2, <3>3, <3>4, Zenon
  <2>. QED
    BY <1>1, <2>3, ToSetMember
<1>7. ASSUME IsInjective(t)
      PROVE  IsInjective(s) /\ e \notin ToSet(s)
  <2>1. \A i, j \in 1 .. Len(t) : t[i] = t[j] => i = j
    BY <1>1, <1>7, ToSetMember
  <2>2. \A i, j \in 1 .. Len(s) : s[i] = s[j] => i = j
    <3>1. \A i, j \in 1 .. Len(s) : s[i] = s[j] => i + 1 = j + 1
      BY <1>3, <2>1, Zenon
    <3>. QED
      BY <1>1, <3>1
  <2>3. \A i \in 1 .. Len(s) : s[i] # e
    <3>1. \A i \in 1 .. Len(s) : s[i] = e => i + 1 = 1
      BY <1>3, <1>4, <2>1, Zenon
    <3>. QED
      BY <1>1, <3>1
  <2>. QED
    BY <2>2, <2>3, ToSetMember
<1>. QED
  BY <1>5, <1>6, <1>7 DEF t

\* The element at the front is taken: Queue.get.
LEMMA TailElements ==
    ASSUME NEW S, NEW s \in Seq(S), s # <<>>, IsInjective(s)
    PROVE  /\ Tail(s) \in Seq(S)
           /\ IsInjective(Tail(s))
           /\ Head(s) \in ToSet(s)
           /\ ToSet(Tail(s)) = ToSet(s) \ {Head(s)}
<1>1. /\ Tail(s) \in Seq(S)
      /\ Len(Tail(s)) = Len(s) - 1
      /\ \A i \in 1 .. Len(s) - 1 : Tail(s)[i] = s[i + 1]
      /\ Head(s) = s[1]
      /\ Len(s) \in Nat \ {0}
  BY HeadTailProperties
<1>2. \A i, j \in 1 .. Len(s) : s[i] = s[j] => i = j
  BY ToSetMember
<1>3. \A i, j \in 1 .. Len(Tail(s)) : Tail(s)[i] = Tail(s)[j] => i = j
  <2>1. \A i \in 1 .. Len(Tail(s)) :
            i + 1 \in 1 .. Len(s) /\ Tail(s)[i] = s[i + 1] /\ i \in Int
    BY <1>1
  <2>2. \A i, j \in 1 .. Len(Tail(s)) : Tail(s)[i] = Tail(s)[j] => i + 1 = j + 1
    BY <1>2, <2>1, Zenon
  <2>. QED
    BY <2>1, <2>2
<1>4. 1 \in 1 .. Len(s)
  BY <1>1
<1>5. ASSUME NEW x
      PROVE  x \in ToSet(Tail(s)) <=> x \in ToSet(s) /\ x # Head(s)
  <2>1. \A i \in 1 .. Len(Tail(s)) :
            i + 1 \in 1 .. Len(s) /\ i + 1 # 1 /\ Tail(s)[i] = s[i + 1]
    BY <1>1
  <2>2. \A i \in 1 .. Len(s) :
            i = 1 \/ \E j \in 1 .. Len(Tail(s)) : Tail(s)[j] = s[i]
    <3>1. \A i \in 1 .. Len(s) :
              i = 1 \/ (i - 1 \in 1 .. Len(Tail(s)) /\ Tail(s)[i - 1] = s[i])
      BY <1>1
    <3>. QED
      BY <3>1, Zenon
  <2>3. x \in ToSet(Tail(s)) <=> \E i \in 1 .. Len(Tail(s)) : Tail(s)[i] = x
    <3>1. PICK t \in Seq(S) : t = Tail(s)
      BY <1>1
    <3>2. x \in ToSet(t) <=> \E i \in 1 .. Len(t) : t[i] = x
      BY ToSetMember
    <3>. QED
      BY <3>1, <3>2
  <2>4. x \in ToSet(s) <=> \E i \in 1 .. Len(s) : s[i] = x
    BY ToSetMember
  <2>5. Head(s) = s[1]
    BY <1>1
  <2>6. ASSUME x \in ToSet(Tail(s))
        PROVE  x \in ToSet(s) /\ x # Head(s)
    <3>1. PICK i \in 1 .. Len(Tail(s)) : Tail(s)[i] = x
      BY <2>3, <2>6
    <3>2. i + 1 \in 1 .. Len(s) /\ s[i + 1] = x /\ i + 1 # 1
      BY <2>1, <3>1, Zenon
    <3>3. x # s[1]
      BY <1>2, <1>4, <3>2, Zenon
    <3>. QED
      BY <2>4, <2>5, <3>2, <3>3
  <2>7. ASSUME x \in ToSet(s), x # Head(s)
        PROVE  x \in ToSet(Tail(s))
    BY <2>2, <2>3, <2>4, <2>5, <2>7
  <2>. QED
    BY <2>6, <2>7
<1>. QED
  BY <1>1, <1>3, <1>4, <1>5, ToSetMember

\* What Front leaves.
LEMMA FrontProperties ==
    ASSUME NEW S, NEW s \in Seq(S), s # <<>>
    PROVE  /\ Front(s) \in Seq(S)
           /\ Len(Front(s)) = Len(s) - 1
           /\ \A i \in 1 .. Len(s) - 1 : Front(s)[i] = s[i]
           /\ Last(s) = s[Len(s)]
<1>0. Len(s) \in Nat /\ Len(s) >= 1 /\ Len(s) \in 1 .. Len(s)
  OBVIOUS
<1>1. \A i \in 1 .. Len(s) - 1 : s[i] \in S
  BY <1>0
<1> DEFINE f == SubSeq(s, 1, Len(s) - 1)
<1>2. /\ f \in Seq(S)
      /\ Len(f) = IF 1 <= Len(s) - 1 THEN Len(s) - 1 - 1 + 1 ELSE 0
      /\ \A i \in 1 .. Len(s) - 1 - 1 + 1 : f[i] = s[1 + i - 1]
  <2>1. 1 \in Int /\ Len(s) - 1 \in Int
    BY <1>0
  <2>. QED
    BY <1>1, <2>1, SubSeqProperties
<1>3. Front(s) = f /\ Last(s) = s[Len(s)]
  BY DEF Front, Last
<1> HIDE DEF f
<1>4. /\ f \in Seq(S)
      /\ Len(f) = Len(s) - 1
      /\ \A i \in 1 .. Len(s) - 1 : f[i] = s[i]
  <2>1. \A i \in 1 .. Len(s) - 1 :
            i \in 1 .. Len(s) - 1 - 1 + 1 /\ 1 + i - 1 = i
    BY <1>0
  <2>2. ASSUME NEW i \in 1 .. Len(s) - 1
        PROVE  f[i] = s[i]
    <3>1. f[i] = s[1 + i - 1]
      BY <1>2, <2>1, Zenon
    <3>2. 1 + i - 1 = i
      BY <2>1
    <3>. QED
      BY <3>1, <3>2, Zenon
  <2>3. (IF 1 <= Len(s) - 1 THEN Len(s) - 1 - 1 + 1 ELSE 0) = Len(s) - 1
    <3>1. PICK n \in Nat : n = Len(s) /\ n >= 1
      BY <1>0
    <3>2. (IF 1 <= n - 1 THEN n - 1 - 1 + 1 ELSE 0) = n - 1
      BY <3>1
    <3>. QED
      BY <3>1, <3>2
  <2>. QED
    BY <1>2, <2>2, <2>3
<1>. QED
  BY <1>3, <1>4

\* The element at the end is taken: dict.popitem.
LEMMA FrontElements ==
    ASSUME NEW S, NEW s \in Seq(S), s # <<>>, IsInjective(s)
    PROVE  /\ Front(s) \in Seq(S)
           /\ Len(Front(s)) = Len(s) - 1
           /\ IsInjective(Front(s))
           /\ Last(s) \in ToSet(s)
           /\ ToSet(Front(s)) = ToSet(s) \ {Last(s)}
<1>1. Len(s) \in Nat /\ Len(s) >= 1 /\ Len(s) \in 1 .. Len(s)
  OBVIOUS
<1>2. /\ Front(s) \in Seq(S)
      /\ Len(Front(s)) = Len(s) - 1
      /\ \A i \in 1 .. Len(s) - 1 : Front(s)[i] = s[i]
      /\ Last(s) = s[Len(s)]
  BY FrontProperties
<1>3. \A i, j \in 1 .. Len(s) : s[i] = s[j] => i = j
  BY ToSetMember
<1>4. \A i \in 1 .. Len(Front(s)) :
          i \in 1 .. Len(s) /\ i # Len(s) /\ Front(s)[i] = s[i]
  BY <1>1, <1>2
<1>5. \A i \in 1 .. Len(s) : i = Len(s) \/ i \in 1 .. Len(Front(s))
  BY <1>1, <1>2
<1>6. \A i, j \in 1 .. Len(Front(s)) : Front(s)[i] = Front(s)[j] => i = j
  BY <1>3, <1>4, Zenon
<1>7. ASSUME NEW x
      PROVE  x \in ToSet(Front(s)) <=> x \in ToSet(s) /\ x # Last(s)
  <2>1. x \in ToSet(s) /\ x # Last(s) => x \in ToSet(Front(s))
    BY <1>2, <1>4, <1>5, ToSetMember, SMTT(30)
  <2>2. x \in ToSet(Front(s)) => x \in ToSet(s) /\ x # s[Len(s)]
    BY <1>1, <1>2, <1>3, <1>4, ToSetMember
  <2>. QED
    BY <1>2, <2>1, <2>2
<1>8. ToSet(Front(s)) = ToSet(s) \ {Last(s)}
  BY <1>7
<1>9. Last(s) \in ToSet(s)
  BY <1>1, <1>2, ToSetMember
<1>10. IsInjective(Front(s))
  BY <1>2, <1>6, ToSetMember
<1>. QED
  BY <1>2, <1>8, <1>9, <1>10

\* Removing the entry at i shifts the later entries down by one: what
\* list.remove and list.pop do to a queue.
LEMMA RemoveAtProperties ==
    ASSUME NEW S, NEW s \in Seq(S), NEW i \in 1 .. Len(s)
    PROVE  /\ RemoveAt(s, i) \in Seq(S)
           /\ Len(RemoveAt(s, i)) = Len(s) - 1
           /\ \A j \in 1 .. i - 1 : RemoveAt(s, i)[j] = s[j]
           /\ \A j \in i .. Len(s) - 1 : RemoveAt(s, i)[j] = s[j + 1]
<1> DEFINE a == SubSeq(s, 1, i - 1)
           b == SubSeq(s, i + 1, Len(s))
<1>1. /\ a \in Seq(S)
      /\ Len(a) = i - 1
      /\ \A j \in 1 .. i - 1 : a[j] = s[j]
  OBVIOUS
<1>2. /\ b \in Seq(S)
      /\ Len(b) = Len(s) - i
      /\ \A j \in 1 .. Len(s) - i : b[j] = s[i + j]
  OBVIOUS
<1>3. RemoveAt(s, i) = a \o b
  BY DEF RemoveAt
<1> HIDE DEF a, b
<1>4. /\ a \o b \in Seq(S)
      /\ Len(a \o b) = Len(a) + Len(b)
      /\ \A j \in 1 .. Len(a) + Len(b) :
            (a \o b)[j] = IF j <= Len(a) THEN a[j] ELSE b[j - Len(a)]
  BY <1>1, <1>2, ConcatProperties
<1>5. Len(s) \in Nat /\ Len(a) + Len(b) = Len(s) - 1
  BY <1>1, <1>2
<1>6. \A j \in 1 .. i - 1 : (a \o b)[j] = s[j]
  <2> SUFFICES ASSUME NEW j \in 1 .. i - 1 PROVE (a \o b)[j] = s[j]
    OBVIOUS
  <2>1. j \in 1 .. Len(a) + Len(b) /\ j <= Len(a)
    BY <1>1, <1>5
  <2>. QED
    BY <2>1, <1>1, <1>4
<1>7. \A j \in i .. Len(s) - 1 : (a \o b)[j] = s[j + 1]
  <2> SUFFICES ASSUME NEW j \in i .. Len(s) - 1 PROVE (a \o b)[j] = s[j + 1]
    OBVIOUS
  <2>1. /\ j \in 1 .. Len(a) + Len(b) /\ ~(j <= Len(a))
        /\ j - Len(a) \in 1 .. Len(s) - i /\ i + (j - Len(a)) = j + 1
    BY <1>1, <1>5
  <2>2. (a \o b)[j] = b[j - Len(a)]
    BY <2>1, <1>4
  <2>3. b[j - Len(a)] = s[i + (j - Len(a))]
    BY <2>1, <1>2
  <2>. QED
    BY <2>1, <2>2, <2>3
<1>. QED
  BY <1>3, <1>4, <1>5, <1>6, <1>7

\* Removing the entry at i from a sequence without duplicates leaves one
\* without duplicates, whose entries are the others.
LEMMA RemoveAtNoDuplicates ==
    ASSUME NEW S, NEW s \in Seq(S), NEW i \in DOMAIN s,
           \A j, l \in DOMAIN s : s[j] = s[l] => j = l
    PROVE  /\ \A j, l \in DOMAIN RemoveAt(s, i) :
                 RemoveAt(s, i)[j] = RemoveAt(s, i)[l] => j = l
           /\ \A j \in DOMAIN RemoveAt(s, i) :
                 \E l \in DOMAIN s : l # i /\ RemoveAt(s, i)[j] = s[l]
<1> DEFINE old(j) == IF j < i THEN j ELSE j + 1
<1>0. i \in 1 .. Len(s)
  OBVIOUS
<1>1. DOMAIN s = 1 .. Len(s) /\ Len(s) \in Nat
  OBVIOUS
<1>2a. RemoveAt(s, i) \in Seq(S)
  BY <1>0, RemoveAtProperties
<1>2b. Len(RemoveAt(s, i)) = Len(s) - 1
  BY <1>0, RemoveAtProperties
<1>2c. \A j \in 1 .. i - 1 : RemoveAt(s, i)[j] = s[j]
  BY <1>0, RemoveAtProperties, Zenon
<1>2d. \A j \in i .. Len(s) - 1 : RemoveAt(s, i)[j] = s[j + 1]
  BY <1>0, RemoveAtProperties, Zenon
<1>3. DOMAIN RemoveAt(s, i) = 1 .. Len(s) - 1
  BY <1>2a, <1>2b
<1>4. ASSUME NEW j \in DOMAIN RemoveAt(s, i)
      PROVE  old(j) \in DOMAIN s /\ old(j) # i /\ RemoveAt(s, i)[j] = s[old(j)]
  BY <1>0, <1>1, <1>2c, <1>2d, <1>3
<1>5. ASSUME NEW j \in DOMAIN RemoveAt(s, i), NEW l \in DOMAIN RemoveAt(s, i),
             RemoveAt(s, i)[j] = RemoveAt(s, i)[l]
      PROVE  j = l
  <2>1. old(j) = old(l)
    BY <1>4, <1>5
  <2>. QED
    BY <1>0, <1>1, <1>3, <2>1
<1> HIDE DEF old
<1>6. \A j \in DOMAIN RemoveAt(s, i) :
          \E l \in DOMAIN s : l # i /\ RemoveAt(s, i)[j] = s[l]
  BY <1>4
<1>. QED
  BY <1>5, <1>6

\* Removing an entry keeps the others in order, here of increasing f.
LEMMA RemoveAtIncreasing ==
    ASSUME NEW S, NEW s \in Seq(S), NEW i \in 1 .. Len(s),
           NEW f \in [S -> Nat],
           \A j, l \in 1 .. Len(s) : j < l => f[s[j]] < f[s[l]]
    PROVE  \A j, l \in 1 .. Len(RemoveAt(s, i)) :
               j < l => f[RemoveAt(s, i)[j]] < f[RemoveAt(s, i)[l]]
<1>1. Len(RemoveAt(s, i)) = Len(s) - 1 /\ Len(s) \in Nat
  BY RemoveAtProperties
<1>2. \A j \in 1 .. i - 1 : RemoveAt(s, i)[j] = s[j]
  BY RemoveAtProperties, Zenon
<1>3. \A j \in i .. Len(s) - 1 : RemoveAt(s, i)[j] = s[j + 1]
  BY RemoveAtProperties, Zenon
<1> DEFINE old(j) == IF j < i THEN j ELSE j + 1
<1>4. ASSUME NEW j \in 1 .. Len(s) - 1
      PROVE  old(j) \in 1 .. Len(s) /\ RemoveAt(s, i)[j] = s[old(j)]
  BY <1>1, <1>2, <1>3
<1>5. ASSUME NEW j \in 1 .. Len(s) - 1, NEW l \in 1 .. Len(s) - 1, j < l
      PROVE  old(j) < old(l)
  BY <1>1, <1>5
<1> HIDE DEF old
<1>. QED
  BY <1>1, <1>4, <1>5

\* An enumeration of a finite set is a sequence of its elements.
LEMMA EnumerationIsSeq ==
    ASSUME NEW S, IsFiniteSet(S), NEW s \in SetToSeqs(S)
    PROVE  s \in Seq(S)
<1>1. Cardinality(S) \in Nat
  BY FS_CardinalityType
<1>. QED
  BY <1>1 DEF SetToSeqs

\* The element at position i is taken: dict.pop.
LEMMA RemoveAtElements ==
    ASSUME NEW S, NEW s \in Seq(S), NEW i \in DOMAIN s, IsInjective(s)
    PROVE  /\ RemoveAt(s, i) \in Seq(S)
           /\ Len(RemoveAt(s, i)) = Len(s) - 1
           /\ IsInjective(RemoveAt(s, i))
           /\ ToSet(RemoveAt(s, i)) = ToSet(s) \ {s[i]}
<1> DEFINE t == RemoveAt(s, i)
<1>1. i \in 1 .. Len(s) /\ Len(s) \in Nat
  OBVIOUS
<1>2. /\ t \in Seq(S)
      /\ Len(t) = Len(s) - 1
      /\ \A j \in 1 .. i - 1 : t[j] = s[j]
      /\ \A j \in i .. Len(s) - 1 : t[j] = s[j + 1]
  BY <1>1, RemoveAtProperties
<1>3. \A j, l \in DOMAIN s : s[j] = s[l] => j = l
  BY DEF IsInjective
<1>4. /\ \A j, l \in DOMAIN t : t[j] = t[l] => j = l
      /\ \A j \in DOMAIN t : \E l \in DOMAIN s : l # i /\ t[j] = s[l]
  BY <1>3, RemoveAtNoDuplicates
<1>5. ASSUME NEW l \in 1 .. Len(s), l # i
      PROVE  \E j \in 1 .. Len(t) : t[j] = s[l]
  <2>1. CASE l < i
    <3>1. l \in 1 .. Len(t) /\ l \in 1 .. i - 1
      BY <1>1, <1>2, <2>1
    <3>. QED
      BY <1>2, <3>1
  <2>2. CASE l > i
    <3>1. PICK j \in Int : j + 1 = l
      BY <1>1
    <3>2. j \in 1 .. Len(t) /\ j \in i .. Len(s) - 1
      BY <1>1, <1>2, <2>2, <3>1
    <3>. QED
      BY <1>2, <3>1, <3>2
  <2>. QED
    BY <1>1, <1>5, <2>1, <2>2
<1> HIDE DEF t
<1>6. ASSUME NEW x
      PROVE  x \in ToSet(t) <=> x \in ToSet(s) /\ x # s[i]
  <2>1. DOMAIN s = 1 .. Len(s)
    OBVIOUS
  <2>2. ASSUME x \in ToSet(t)
        PROVE  x \in ToSet(s) /\ x # s[i]
    <3>1. PICK j \in DOMAIN t : x = t[j]
      BY <2>2 DEF ToSet
    <3>2. PICK l \in DOMAIN s : l # i /\ x = s[l]
      BY <1>4, <3>1
    <3>. QED
      BY <1>3, <3>2 DEF ToSet
  <2>3. ASSUME x \in ToSet(s), x # s[i]
        PROVE  x \in ToSet(t)
    <3>1. PICK l \in 1 .. Len(s) : x = s[l] /\ l # i
      BY <2>1, <2>3 DEF ToSet
    <3>. QED
      BY <1>2, <1>5, <3>1, ToSetMember
  <2>. QED
    BY <2>2, <2>3
<1>7. IsInjective(t)
  BY <1>4 DEF IsInjective
<1>8. ToSet(t) = ToSet(s) \ {s[i]}
  BY <1>6
<1>. QED
  BY <1>2, <1>7, <1>8 DEF t


\* Induction up to a bound, with a set in the place of a formula.
LEMMA UpToBound ==
    ASSUME NEW N \in Nat, NEW T, 0 \in T,
           \A i \in 1 .. N : i - 1 \in T => i \in T
    PROVE  0 .. N \subseteq T
<1> DEFINE Out == {i \in 0 .. N : i \notin T}
<1> SUFFICES ASSUME Out # {} PROVE FALSE
  OBVIOUS
<1>1. PICK k \in Out : \A j \in Out : k <= j
  <2>1. Out \subseteq Nat
    OBVIOUS
  <2> HIDE DEF Out
  <2>. QED
    BY <2>1, NatLeast
<1>2. k \in 1 .. N /\ k - 1 \in 0 .. N /\ k - 1 < k
  OBVIOUS
<1>3. k - 1 \in T
  BY <1>1, <1>2
<1>. QED
  BY <1>2, <1>3

\* f[i] is the value after i of the N turns of a loop.
IsLoop(f, S, N, start, turn) ==
    /\ f \in [0 .. N -> S] /\ f[0] = start
    /\ \A i \in 1 .. N : f[i] = turn[i][f[i - 1]]

\* A loop whose turns are functions has a value after each turn.
LEMMA LoopExists ==
    ASSUME NEW S, NEW N \in Nat, NEW start \in S, NEW turn \in [1 .. N -> [S -> S]]
    PROVE  \E f : IsLoop(f, S, N, start, turn)
<1> DEFINE Is(f, k) == f[0] = start /\ \A i \in 1 .. k : f[i] = turn[i][f[i - 1]]
           T == {k \in 0 .. N : \E f \in [0 .. k -> S] : Is(f, k)}
<1>1. 0 \in T
  <2>1. [i \in 0 .. 0 |-> start] \in [0 .. 0 -> S]
    OBVIOUS
  <2>2. Is([i \in 0 .. 0 |-> start], 0)
    OBVIOUS
  <2> HIDE DEF Is
  <2>3. \E f \in [0 .. 0 -> S] : Is(f, 0)
    BY <2>1, <2>2
  <2>. QED
    BY <2>3
<1>2. ASSUME NEW k \in 1 .. N, k - 1 \in T PROVE k \in T
  <2>1. PICK f \in [0 .. k - 1 -> S] : Is(f, k - 1)
    BY <1>2
  <2> DEFINE g == [i \in 0 .. k |-> IF i < k THEN f[i] ELSE turn[k][f[k - 1]]]
  <2>2. k - 1 \in 0 .. k - 1 /\ f[k - 1] \in S /\ turn[k] \in [S -> S]
    OBVIOUS
  <2>3. turn[k][f[k - 1]] \in S
    BY <2>2
  <2>4. g \in [0 .. k -> S]
    BY <2>3
  <2>5. g[0] = start
    BY <2>1
  <2>6. ASSUME NEW i \in 1 .. k PROVE g[i] = turn[i][g[i - 1]]
    <3>1. CASE i = k
      <4>1. g[k - 1] = f[k - 1] /\ g[k] = turn[k][f[k - 1]]
        OBVIOUS
      <4>. QED
        BY <3>1, <4>1
    <3>2. CASE i # k
      <4>1. i \in 1 .. k - 1
        BY <3>2
      <4>2. g[i] = f[i] /\ g[i - 1] = f[i - 1]
        BY <4>1
      <4>. QED
        BY <2>1, <4>1, <4>2
    <3>. QED
      BY <3>1, <3>2
  <2>7. Is(g, k)
    BY <2>5, <2>6
  <2> HIDE DEF Is, g
  <2>8. \E h \in [0 .. k -> S] : Is(h, k)
    BY <2>4, <2>7
  <2>. QED
    BY <2>8
<1>3. N \in T
  <2>1. \A i \in 1 .. N : i - 1 \in T => i \in T
    BY <1>2
  <2> HIDE DEF T
  <2>2. 0 .. N \subseteq T
    BY <1>1, <2>1, UpToBound
  <2>. QED
    BY <2>2
<1>4. PICK f \in [0 .. N -> S] : Is(f, N)
  BY <1>3
<1>5. IsLoop(f, S, N, start, turn)
  BY <1>4 DEF IsLoop
<1>. QED
  BY <1>5
=============================================================================
