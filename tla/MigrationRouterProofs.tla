----------------------- MODULE MigrationRouterProofs ------------------------
(***************************************************************************)
(* Proofs about MigrationRouter, for any calls, instances, limits of the   *)
(* auto scaler and number of migrations, however many calls a backend      *)
(* serves at a time.                                                       *)
(***************************************************************************)
EXTENDS MigrationRouter, SequenceLemmas

(***************************************************************************)
(* The inductive invariant                                                 *)
(***************************************************************************)

Rows == Seq(Calls \cup {Foreign})

CallRecords ==
    [pc : {"new", "queued", "assigned", "executing", "resuming", "ended"},
     kind : Kinds \cup {None}, on : Backends \cup {None},
     answer : {None, "ok", "error", "raised"}, row : Rows]

WorkerRecords ==
    [pc : {"none", "sent", "checked", "generating", "preempted", "answered"},
     kind : {None, "generate", "encode", "resume"}, on : Backends \cup {None},
     row : Rows, left : Int, result : {None, "ok", "error", "raised", "preempted"}]

MigrationRecords ==
    [pc : {"idle", "starting", "asking", "copying", "swap", "draining"},
     source : Backends \cup {None}, target : Backends \cup {None},
     previous : Nat, row : Rows]

RouterTypes ==
    /\ request_queue \in Seq(Calls) /\ request_count \in Int
    /\ starting_instances \subseteq Backends /\ ready_instances \in Seq(Backends)
    /\ concurrency \in [Backends -> Int] /\ max_queue_length \in [Backends -> Nat]
    /\ alive \subseteq Backends /\ marked \subseteq Backends
    /\ migration_record \in [Backends -> Backends \cup {None}]
    /\ migration \in MigrationRecords
    /\ call \in [Calls -> CallRecords] /\ shared \subseteq Calls

BackendTypes ==
    /\ status \in [Backends -> {"uninitialized", "running", "stopping", "deleting"}]
    /\ model \in [Backends -> {"none", "loaded", "deleted"}]
    /\ ending \in [Backends -> {"none", "stop", "shutdown", "done"}]
    /\ intermediate \in [Backends -> [flat : BOOLEAN, row : Rows]]
    /\ resumed \in [Backends -> [tokens : Rows, cache : Rows] \cup {None}]
    /\ worker \in [Calls -> WorkerRecords]

\* While there is a target that is not ready yet, and while it is up.
Building == migration.pc \in {"starting", "asking", "copying", "swap"}
Built == migration.pc \in {"asking", "copying", "swap"}

\* Instances are in one place: starting, ready, target of the migration, or
\* given up.  The source stays ready while its tokens are asked for, as the
\* event loop is kept then; and only what left the ready ones has a successor.
TargetStands ==
    /\ migration.pc # "idle" =>
        /\ migration.source \in Backends /\ migration.target \in Backends
        /\ migration.source # migration.target
    /\ Building =>
        /\ migration.target \notin Ready \cup starting_instances
        /\ migration.target \in marked
        /\ migration_record[migration.target] = None
    /\ migration.pc = "starting" => migration.target \notin alive
    /\ Built =>
        /\ migration.target \in alive
        /\ status[migration.target] = "running" /\ model[migration.target] = "loaded"
        /\ ending[migration.target] = "none"
    /\ migration.pc \in {"asking", "copying"} => migration.source \in Ready

InstancesStand ==
    /\ ReadyIsRunning
    /\ starting_instances \cap alive = {}
    /\ \A b \in Ready \cup starting_instances : migration_record[b] = None
    /\ TargetStands

\* The concurrency of an instance covers the calls it was given, so that one
\* which returns finds something to give back.
Given(c) == call[c].pc \in {"assigned", "executing", "resuming"}
OnInstance(b) == {c \in Calls : Given(c) /\ call[c].on = b}
ConcurrencyCovers ==
    \A b \in Backends : Cardinality(OnInstance(b)) <= concurrency[b]
ConcurrencyBound ==
    \A b \in Backends : concurrency[b] <= max_queue_length[b]
QueueIsQueued ==
    IsInjective(request_queue) /\ \A c \in ToSet(request_queue) : call[c].pc = "queued"

\* The instance of a call, and the one that took its place, are not made anew.
InUse(b) == b \notin starting_instances /\ (Building => b # migration.target)
GivenInUse(c) ==
    Given(c) =>
        /\ call[c].on \in Backends /\ InUse(call[c].on)
        /\ migration_record[call[c].on] # None => InUse(migration_record[call[c].on])

\* What the backend does is what the call is at.
WorkerServes(c) ==
    LET w == worker[c] IN
    /\ w.pc = "none" <=> call[c].pc \notin {"executing", "resuming"}
    /\ call[c].pc = "executing" =>
        /\ w.on = call[c].on /\ w.kind = call[c].kind
    /\ call[c].pc = "resuming" =>
        /\ w.on = migration_record[call[c].on] /\ w.on \in Backends
        /\ w.kind = "resume" /\ call[c].kind = "generate"
    /\ w.pc \in {"generating", "preempted"} => w.kind # "encode"
    /\ w.pc = "answered" => w.result \in {"ok", "error", "raised", "preempted"}
    /\ w.pc = "answered" /\ w.result = "preempted" => w.kind = "generate"
    /\ call[c].pc # "new" => call[c].kind \in {"generate", "encode"}
    /\ call[c].pc # "ended" => call[c].answer = None

Own(c, n) == [i \in 1 .. n |-> c]
MadeOf(c, row) == row # <<>> /\ row = Own(c, Len(row))

Generates(c, pcs) == worker[c].pc \in pcs /\ worker[c].kind = "generate"
Resumes(c, pcs) == worker[c].pc \in pcs /\ worker[c].kind = "resume"
Completed(c, kind) == worker[c].pc = "answered" /\ worker[c].result = "ok" /\ worker[c].kind = kind
Returned(c) == worker[c].pc = "answered" /\ worker[c].result = "preempted"

\* The row of a call is its own tokens, as many as are not left.  One that is
\* resumed relies on the cache it found to be the beginning of its row.
GeneratesOwn(c) ==
    LET w == worker[c] IN
    /\ Generates(c, {"sent", "checked"}) => w.row = <<>> /\ w.left = MaxTokens
    /\ Generates(c, {"generating", "preempted"}) =>
          w.left \in 0 .. MaxTokens /\ w.row = Own(c, MaxTokens + 1 - w.left)
    /\ Completed(c, "generate") => w.row = Own(c, MaxTokens + 1)
ResumesOwn(c) ==
    LET w == worker[c] IN
    /\ Returned(c) => MadeOf(c, w.row)
    /\ Resumes(c, {"sent", "checked"}) =>
          MadeOf(c, w.row) /\ w.left = MaxTokens + 1 - Len(w.row)
    /\ Resumes(c, {"generating"}) =>
          /\ w.left \in 0 .. MaxTokens /\ w.row = Own(c, MaxTokens + 1 - w.left)
          /\ resumed[w.on] # None /\ IsPrefix(resumed[w.on].cache, w.row)
    /\ Completed(c, "resume") => w.row = Own(c, MaxTokens + 1)
RowsAreOwn == \A c \in Calls : GeneratesOwn(c) /\ (c \notin shared => ResumesOwn(c))

\* Two calls that stream into one intermediate met; one that met no other
\* finds its row there.
FlatHasRow == \A b \in Backends : intermediate[b].flat => intermediate[b].row # <<>>
PreemptedIsDeleting ==
    \A c \in Calls : worker[c].pc = "preempted" \/ Returned(c) => status[worker[c].on] = "deleting"
MeetingIsShared ==
    \A c, d \in Calls : \A b \in Backends :
        c # d /\ Streaming(c, b) /\ Streaming(d, b) => c \in shared
StreamIsKept ==
    \A c \in Calls : \A b \in Backends :
        Streaming(c, b) /\ c \notin shared =>
            intermediate[b].row = worker[c].row /\ ~intermediate[b].flat

\* A call that no model has begun has no tokens anywhere.
NotBegun(c) ==
    \/ call[c].pc \in {"new", "queued", "assigned"}
    \/ call[c].pc = "executing" /\ worker[c].pc \in {"sent", "checked"}
NowhereYet(c) ==
    /\ \A b \in Backends :
          /\ c \notin ToSet(intermediate[b].row)
          /\ resumed[b] # None =>
                c \notin ToSet(resumed[b].cache) /\ c \notin ToSet(resumed[b].tokens)
    /\ c \notin ToSet(migration.row)
    /\ \A d \in Calls : c \notin ToSet(worker[d].row)
NothingEarly == \A c \in Calls : NotBegun(c) => NowhereYet(c)

\* The cache of the instance that takes another's place is not ahead of a call
\* whose tokens are in it, and behind one that was preempted: then tokens were
\* added since they were last asked for.
TokensOfCache ==
    \A b \in Backends :
        resumed[b] # None => Len(resumed[b].tokens) <= Len(resumed[b].cache) + 1
CopyHasRow == migration.pc = "copying" => migration.row # <<>>
Replaces(t, s) ==
    \/ migration_record[s] = t
    \/ Built /\ migration.source = s /\ migration.target = t
CacheHas(t, c) == resumed[t] # None /\ c \in ToSet(resumed[t].cache)
CacheBehind(c, t) ==
    LET w == worker[c] IN
    /\ Generates(c, {"generating"}) /\ Replaces(t, w.on) /\ CacheHas(t, c) =>
          Len(resumed[t].cache) <= Len(w.row)
    /\ (Generates(c, {"preempted"}) \/ Returned(c)) /\ Replaces(t, w.on) /\ CacheHas(t, c) =>
          Len(resumed[t].cache) < Len(w.row)
    /\ Resumes(c, {"sent", "checked"}) /\ t = w.on /\ CacheHas(t, c) =>
          Len(resumed[t].cache) < Len(w.row)
CopyIsBehind(c) ==
    Generates(c, {"generating"}) /\ migration.pc = "copying" /\ migration.source = worker[c].on =>
        \/ MadeOf(c, migration.row) /\ Len(migration.row) <= Len(worker[c].row)
        \/ c \notin ToSet(migration.row) /\ ~CacheHas(migration.target, c)
CachesAreBehind ==
    \A c \in Calls : c \notin shared =>
        CopyIsBehind(c) /\ \A t \in Backends : CacheBehind(c, t)

\* The counts, the queue and the instances of calls.
CallsStand ==
    /\ DemandCovered /\ ConcurrencyCovers /\ ConcurrencyBound /\ QueueIsQueued
    /\ \A c \in Calls : GivenInUse(c)

\* The tokens of calls.
StreamsStand == FlatHasRow /\ PreemptedIsDeleting /\ MeetingIsShared /\ StreamIsKept
CachesStand == TokensOfCache /\ CopyHasRow /\ CachesAreBehind

IndInv ==
    /\ RouterTypes /\ BackendTypes
    /\ InstancesStand /\ CallsStand
    /\ \A c \in Calls : WorkerServes(c)
    /\ RowsAreOwn /\ StreamsStand /\ NothingEarly /\ CachesStand
    /\ AnswersAreWhole

(***************************************************************************)
(* Rows of tokens                                                          *)
(***************************************************************************)

\* A row of tokens of one call.
LEMMA OwnRow ==
    ASSUME NEW c \in Calls, NEW n \in Nat
    PROVE  /\ Own(c, n) \in Rows
           /\ Len(Own(c, n)) = n
           /\ \A i \in 1 .. n : Own(c, n)[i] = c
           /\ n > 0 => ToSet(Own(c, n)) = {c} /\ Own(c, n) # <<>>
<1>1. Own(c, n) \in [1 .. n -> Calls \cup {Foreign}]
  BY DEF Own
<1>2. Own(c, n) \in Rows /\ Len(Own(c, n)) = n
  BY <1>1, SeqDef DEF Rows
<1>3. \A i \in 1 .. n : Own(c, n)[i] = c
  BY DEF Own
<1>4. ASSUME n > 0 PROVE ToSet(Own(c, n)) = {c} /\ Own(c, n) # <<>>
  <2>1. \A e : e \in ToSet(Own(c, n)) <=> \E i \in 1 .. n : Own(c, n)[i] = e
    BY <1>2, ToSetMember DEF Rows
  <2>2. 1 \in 1 .. n
    BY <1>4
  <2>3. c \in ToSet(Own(c, n)) /\ \A e \in ToSet(Own(c, n)) : e = c
    BY <1>3, <2>1, <2>2
  <2>4. Own(c, n) # <<>>
    BY <1>2, <1>4
  <2>. QED
    BY <2>3, <2>4
<1>. QED
  BY <1>2, <1>3, <1>4

\* A row all of whose elements are one call's tokens.
LEMMA RowOfOne ==
    ASSUME NEW c \in Calls, NEW row \in Rows, \A i \in 1 .. Len(row) : row[i] = c
    PROVE  row = Own(c, Len(row))
<1>1. Len(row) \in Nat
  BY DEF Rows
<1>2. /\ Own(c, Len(row)) \in Rows /\ Len(Own(c, Len(row))) = Len(row)
      /\ \A i \in 1 .. Len(row) : Own(c, Len(row))[i] = c
  BY <1>1, OwnRow
<1>. QED
  BY <1>1, <1>2, SeqEqual DEF Rows

\* One token, and one more token.
LEMMA OwnGrows ==
    ASSUME NEW c \in Calls
    PROVE  /\ <<c>> = Own(c, 1)
           /\ \A n \in Nat : Own(c, n) \o <<c>> = Own(c, n + 1)
<1>1. <<c>> \in Rows /\ Len(<<c>>) = 1 /\ <<c>>[1] = c
  BY DEF Rows
<1>2. <<c>> = Own(c, 1)
  <2>1. PICK row \in Rows : row = <<c>>
    BY <1>1
  <2>2. \A i \in 1 .. Len(row) : row[i] = c
    BY <1>1, <2>1
  <2>3. row = Own(c, Len(row))
    BY <2>2, RowOfOne
  <2>. QED
    BY <1>1, <2>1, <2>3
<1>3. ASSUME NEW n \in Nat PROVE Own(c, n) \o <<c>> = Own(c, n + 1)
  <2> DEFINE s == Own(c, n)
             t == s \o <<c>>
  <2>1. s \in Rows /\ Len(s) = n /\ \A i \in 1 .. n : s[i] = c
    BY OwnRow
  <2> HIDE DEF s
  <2>2. /\ t \in Rows /\ Len(t) = n + 1
        /\ \A i \in 1 .. n + 1 : t[i] = IF i <= n THEN s[i] ELSE <<c>>[i - n]
    BY <1>1, <2>1, ConcatProperties DEF Rows
  <2> HIDE DEF t
  <2>3. \A i \in 1 .. n + 1 : t[i] = c
    <3>1. ASSUME NEW i \in 1 .. n + 1 PROVE t[i] = c
      <4>1. CASE i <= n
        BY <2>1, <2>2, <4>1
      <4>2. CASE i = n + 1
        BY <1>1, <2>2, <4>2
      <4>. QED
        BY <4>1, <4>2
    <3>. QED
      BY <3>1
  <2>4. t = Own(c, n + 1)
    BY <2>2, <2>3, RowOfOne
  <2>. QED
    BY <2>4 DEF s, t
<1>. QED
  BY <1>2, <1>3

\* What is in two rows together.
LEMMA ConcatElements ==
    ASSUME NEW S, NEW s \in Seq(S), NEW t \in Seq(S)
    PROVE  ToSet(s \o t) = ToSet(s) \cup ToSet(t)
<1> DEFINE u == s \o t
<1>1. /\ u \in Seq(S) /\ Len(u) = Len(s) + Len(t)
      /\ \A i \in 1 .. Len(s) + Len(t) : u[i] = IF i <= Len(s) THEN s[i] ELSE t[i - Len(s)]
      /\ Len(s) \in Nat /\ Len(t) \in Nat
  BY ConcatProperties
<1> HIDE DEF u
<1>2. \A e : e \in ToSet(u) <=> \E i \in 1 .. Len(u) : u[i] = e
  BY <1>1, ToSetMember
<1>3. \A e : e \in ToSet(s) <=> \E i \in 1 .. Len(s) : s[i] = e
  BY ToSetMember
<1>4. \A e : e \in ToSet(t) <=> \E i \in 1 .. Len(t) : t[i] = e
  BY ToSetMember
<1>5. \A i \in 1 .. Len(u) : (i \in 1 .. Len(s) /\ u[i] = s[i])
                          \/ (i - Len(s) \in 1 .. Len(t) /\ u[i] = t[i - Len(s)])
  BY <1>1
<1>6. \A i \in 1 .. Len(s) : i \in 1 .. Len(u) /\ u[i] = s[i]
  BY <1>1
<1>7. \A i \in 1 .. Len(t) : i + Len(s) \in 1 .. Len(u) /\ u[i + Len(s)] = t[i]
  BY <1>1
<1>8. ASSUME NEW e PROVE e \in ToSet(u) <=> e \in ToSet(s) \/ e \in ToSet(t)
  <2>1. e \in ToSet(u) => e \in ToSet(s) \/ e \in ToSet(t)
    BY <1>2, <1>3, <1>4, <1>5
  <2>2. e \in ToSet(s) => e \in ToSet(u)
    BY <1>2, <1>3, <1>6
  <2>3. e \in ToSet(t) => e \in ToSet(u)
    BY <1>2, <1>4, <1>7
  <2>. QED
    BY <2>1, <2>2, <2>3
<1>. QED
  BY <1>8 DEF u

\* The beginning of a row, element by element; it stays one when the row grows.
LEMMA PrefixElements ==
    ASSUME NEW S, NEW s \in Seq(S), NEW t \in Seq(S)
    PROVE  /\ IsPrefix(s, t) <=> Len(s) <= Len(t) /\ \A i \in 1 .. Len(s) : s[i] = t[i]
           /\ \A u \in Seq(S) : IsPrefix(s, t) => IsPrefix(s, t \o u)
<1>1. ASSUME NEW v \in Seq(S)
      PROVE  IsPrefix(s, v) <=> Len(s) <= Len(v) /\ \A i \in 1 .. Len(s) : s[i] = v[i]
  <2>1. Len(s) \in Nat /\ Len(v) \in Nat
    OBVIOUS
  <2>2. CASE Len(s) <= Len(v)
    <3>1. \A i \in 1 .. Len(s) : s[i] \in S /\ v[i] \in S
      BY <2>1, <2>2, ElementOfSeq
    <3>2. /\ SubSeq(s, 1, Len(s)) \in Seq(S) /\ Len(SubSeq(s, 1, Len(s))) = Len(s)
          /\ \A i \in 1 .. Len(s) : SubSeq(s, 1, Len(s))[i] = s[i]
      BY <2>1, SubSeqFull
    <3>3. /\ SubSeq(v, 1, Len(s)) \in Seq(S)
          /\ Len(SubSeq(v, 1, Len(s))) = IF 1 <= Len(s) THEN Len(s) - 1 + 1 ELSE 0
          /\ \A i \in 1 .. Len(s) - 1 + 1 : SubSeq(v, 1, Len(s))[i] = v[1 + i - 1]
      <4>1. 1 \in Int /\ Len(s) \in Int /\ \A i \in 1 .. Len(s) : v[i] \in S
        BY <2>1, <3>1
      <4>. QED
        BY <4>1, SubSeqProperties
    <3>4. /\ Len(SubSeq(v, 1, Len(s))) = Len(s)
          /\ \A i \in 1 .. Len(s) : SubSeq(v, 1, Len(s))[i] = v[i]
      BY <2>1, <3>3
    <3>5. SubSeq(s, 1, Len(s)) = SubSeq(v, 1, Len(s)) <=> \A i \in 1 .. Len(s) : s[i] = v[i]
      BY <3>2, <3>3, <3>4, SeqEqual
    <3>. QED
      BY <2>2, <3>5 DEF IsPrefix
  <2>3. CASE ~ (Len(s) <= Len(v))
    BY <2>3 DEF IsPrefix
  <2>. QED
    BY <2>2, <2>3
<1>2. ASSUME NEW u \in Seq(S), IsPrefix(s, t) PROVE IsPrefix(s, t \o u)
  <2>1. Len(s) \in Nat /\ Len(t) \in Nat /\ Len(u) \in Nat
    OBVIOUS
  <2>2. /\ t \o u \in Seq(S) /\ Len(t \o u) = Len(t) + Len(u)
        /\ \A i \in 1 .. Len(t) + Len(u) : (t \o u)[i] = IF i <= Len(t) THEN t[i] ELSE u[i - Len(t)]
    BY ConcatProperties
  <2>3. Len(s) <= Len(t) /\ \A i \in 1 .. Len(s) : s[i] = t[i]
    BY <1>1, <1>2
  <2>4. \A i \in 1 .. Len(s) : i \in 1 .. Len(t) + Len(u) /\ i <= Len(t)
    BY <2>1, <2>3
  <2>5. \A i \in 1 .. Len(s) : s[i] = (t \o u)[i]
    BY <2>2, <2>3, <2>4
  <2>6. Len(s) <= Len(t \o u)
    BY <2>1, <2>2, <2>3
  <2>. QED
    BY <1>1, <2>2, <2>5, <2>6
<1>. QED
  BY <1>1, <1>2

\* A beginning of a row of one call's tokens is one itself.
LEMMA PrefixOfOwn ==
    ASSUME NEW c \in Calls, NEW n \in Nat, NEW s \in Rows, IsPrefix(s, Own(c, n))
    PROVE  Len(s) <= n /\ (s # <<>> => c \in ToSet(s))
<1>1. /\ Own(c, n) \in Rows /\ Len(Own(c, n)) = n
      /\ \A i \in 1 .. n : Own(c, n)[i] = c
  BY OwnRow
<1>2. Len(s) <= n /\ \A i \in 1 .. Len(s) : s[i] = Own(c, n)[i]
  BY <1>1, PrefixElements DEF Rows
<1>3. ASSUME s # <<>> PROVE c \in ToSet(s)
  <2>1. Len(s) \in Nat \ {0}
    BY <1>3, EmptySeq DEF Rows
  <2>2. 1 \in 1 .. Len(s) /\ 1 \in 1 .. n
    BY <1>2, <2>1
  <2>3. s[1] = c
    BY <1>1, <1>2, <2>2
  <2>. QED
    BY <2>2, <2>3, ToSetMember DEF Rows
<1>. QED
  BY <1>2, <1>3

\* The last token of a row.
LEMMA LastOfRow ==
    ASSUME NEW S, NEW row \in Seq(S), row # <<>>
    PROVE  Last(row) \in S /\ Last(row) \in ToSet(row)
<1>1. Len(row) \in Nat \ {0}
  BY EmptySeq
<1>2. Len(row) \in 1 .. Len(row)
  BY <1>1
<1>. QED
  BY <1>2, ElementOfSeq, ToSetMember DEF Last

\* What resume_kv_cache makes of a row: its tokens and one more, and a cache
\* that is at least as long, with nothing but what was in it and in the row.
LEMMA ResumedRow ==
    ASSUME BackendTypes, NEW b \in Backends, NEW row \in Rows, row # <<>>
    PROVE  LET r == Resumed(b, row) IN
           /\ r \in [tokens : Rows, cache : Rows]
           /\ Len(r.tokens) <= Len(r.cache) + 1
           /\ ToSet(r.tokens) = ToSet(row)
           /\ \A c : c \in ToSet(r.cache) => CacheHas(b, c) \/ c \in ToSet(row)
           /\ Len(r.cache) <= Len(row) \/ (resumed[b] # None /\ r.cache = resumed[b].cache)
<1> DEFINE old == IF resumed[b] = None THEN <<>> ELSE resumed[b].cache
           tokens == Append(row, Last(row))
           rest == SubSeq(row, Len(old) + 1, Len(row))
           cache == old \o rest
<1>1. Resumed(b, row) = [tokens |-> tokens, cache |-> cache]
  BY DEF Resumed
<1>2. old \in Rows
  BY DEF BackendTypes, Rows
<1>3. \A c : c \in ToSet(old) => CacheHas(b, c)
  BY EmptyElements DEF CacheHas
<1>4. resumed[b] = None => Len(old) = 0
  OBVIOUS
<1>5. resumed[b] # None => old = resumed[b].cache
  OBVIOUS
<1> HIDE DEF old
<1>6. Len(old) \in Nat /\ Len(row) \in Nat \ {0}
  BY <1>2, EmptySeq DEF Rows
<1>7. /\ tokens \in Rows /\ Len(tokens) = Len(row) + 1 /\ ToSet(tokens) = ToSet(row)
  <2>1. Last(row) \in Calls \cup {Foreign} /\ Last(row) \in ToSet(row)
    BY LastOfRow DEF Rows
  <2>2. /\ Append(row, Last(row)) \in Rows /\ Len(Append(row, Last(row))) = Len(row) + 1
        /\ ToSet(Append(row, Last(row))) = ToSet(row) \cup {Last(row)}
    BY <2>1, AppendElements DEF Rows
  <2>. QED
    BY <2>1, <2>2
<1>8. /\ rest \in Rows
      /\ Len(rest) = IF Len(old) + 1 <= Len(row) THEN Len(row) - Len(old) ELSE 0
      /\ ToSet(rest) \subseteq ToSet(row)
  <2>1. \A i \in Len(old) + 1 .. Len(row) : row[i] \in Calls \cup {Foreign}
    BY <1>6, ElementOfSeq DEF Rows
  <2>2. /\ rest \in Rows
        /\ Len(rest) = IF Len(old) + 1 <= Len(row) THEN Len(row) - (Len(old) + 1) + 1 ELSE 0
        /\ \A i \in 1 .. Len(row) - (Len(old) + 1) + 1 : rest[i] = row[(Len(old) + 1) + i - 1]
    <3>1. Len(old) + 1 \in Int /\ Len(row) \in Int
      BY <1>6
    <3>. QED
      BY <2>1, <3>1, SubSeqProperties DEF Rows
  <2> HIDE DEF rest
  <2>3. ASSUME NEW i \in 1 .. Len(rest)
        PROVE  i + Len(old) \in 1 .. Len(row) /\ rest[i] = row[i + Len(old)]
    BY <1>6, <2>2
  <2>4. ASSUME NEW c \in ToSet(rest) PROVE c \in ToSet(row)
    <3>1. PICK i \in 1 .. Len(rest) : rest[i] = c
      BY <2>2, ToSetMember DEF Rows
    <3>2. i + Len(old) \in 1 .. Len(row) /\ row[i + Len(old)] = c
      BY <2>3, <3>1
    <3>. QED
      BY <3>2, ToSetMember DEF Rows
  <2>. QED
    BY <1>6, <2>2, <2>4
<1> HIDE DEF tokens, rest
<1>9. /\ cache \in Rows /\ Len(cache) = Len(old) + Len(rest)
      /\ ToSet(cache) = ToSet(old) \cup ToSet(rest)
  <2>1. old \in Rows /\ rest \in Rows
    BY <1>2, <1>8
  <2>2. cache \in Rows /\ Len(cache) = Len(old) + Len(rest)
    BY <2>1, ConcatProperties DEF Rows
  <2>3. ToSet(cache) = ToSet(old) \cup ToSet(rest)
    BY <2>1, ConcatElements DEF Rows
  <2>. QED
    BY <2>2, <2>3
<1>10. Len(old) >= Len(row) => cache = old
  <2>1. ASSUME Len(old) >= Len(row) PROVE cache = old
    <3>1. Len(rest) = 0
      BY <1>6, <1>8, <2>1
    <3>2. rest = <<>>
      BY <1>8, <3>1, EmptySeq DEF Rows
    <3>. QED
      BY <1>2, <3>2, ConcatEmptySeq DEF Rows
  <2>. QED
    BY <2>1
<1> HIDE DEF cache
<1>11. Len(tokens) <= Len(cache) + 1
  BY <1>6, <1>7, <1>8, <1>9
<1>12. \A c : c \in ToSet(cache) => CacheHas(b, c) \/ c \in ToSet(row)
  BY <1>3, <1>8, <1>9
<1>13. Len(cache) <= Len(row) \/ (resumed[b] # None /\ cache = resumed[b].cache)
  <2>1. CASE Len(old) < Len(row)
    BY <1>6, <1>8, <1>9, <2>1
  <2>2. CASE Len(old) >= Len(row)
    BY <1>4, <1>5, <1>6, <1>10, <2>2
  <2>. QED
    BY <1>6, <2>1, <2>2
<1>14. [tokens |-> tokens, cache |-> cache] \in [tokens : Rows, cache : Rows]
  BY <1>7, <1>9
<1>. QED
  BY <1>1, <1>7, <1>11, <1>12, <1>13, <1>14

(***************************************************************************)
(* What the actions do to calls and to the workers of the backends         *)
(***************************************************************************)

SameCalls(c) == \A d \in Calls \ {c} : call'[d] = call[d]
SameWorkers(c) == \A d \in Calls \ {c} : worker'[d] = worker[d]

\* The fields of the records that are kept.
LEMMA Fields ==
    ASSUME RouterTypes, BackendTypes
    PROVE  /\ \A c \in Calls :
                 /\ call[c] \in CallRecords /\ worker[c] \in WorkerRecords
                 /\ worker[c].row \in Rows /\ worker[c].left \in Int
                 /\ worker[c].on \in Backends \cup {None} /\ call[c].on \in Backends \cup {None}
           /\ \A b \in Backends : intermediate[b].row \in Rows /\ intermediate[b].flat \in BOOLEAN
           /\ \A b \in Backends : resumed[b] # None =>
                 resumed[b].tokens \in Rows /\ resumed[b].cache \in Rows
           /\ migration.row \in Rows
<1>1. ASSUME NEW c \in Calls
      PROVE  call[c] \in CallRecords /\ worker[c] \in WorkerRecords
  BY DEF RouterTypes, BackendTypes
<1>2. ASSUME NEW c \in Calls
      PROVE  /\ worker[c].row \in Rows /\ worker[c].left \in Int
             /\ worker[c].on \in Backends \cup {None} /\ call[c].on \in Backends \cup {None}
  BY <1>1 DEF CallRecords, WorkerRecords
<1>3. ASSUME NEW b \in Backends
      PROVE  intermediate[b].row \in Rows /\ intermediate[b].flat \in BOOLEAN
  BY DEF BackendTypes
<1>4. ASSUME NEW b \in Backends, resumed[b] # None
      PROVE  resumed[b].tokens \in Rows /\ resumed[b].cache \in Rows
  BY <1>4 DEF BackendTypes
<1>5. migration.row \in Rows
  BY DEF RouterTypes, MigrationRecords
<1>. QED
  BY <1>1, <1>2, <1>3, <1>4, <1>5

\* A call that ends is answered; nothing else of it changes.
LEMMA EndedCall ==
    ASSUME RouterTypes, NEW c \in Calls, NEW answer \in {"ok", "error", "raised"}, NEW row \in Rows,
           call' = Ended(c, answer, row)
    PROVE  /\ call' \in [Calls -> CallRecords] /\ SameCalls(c)
           /\ call'[c].pc = "ended" /\ call'[c].kind = call[c].kind /\ call'[c].on = call[c].on
           /\ call'[c].answer = answer /\ call'[c].row = row
<1>1. call[c] \in CallRecords /\ call \in [Calls -> CallRecords]
  BY DEF RouterTypes
<1>2. /\ call'[c] = [call[c] EXCEPT !.pc = "ended", !.answer = answer, !.row = row]
      /\ SameCalls(c) /\ DOMAIN call' = Calls /\ call' = [d \in Calls |-> call'[d]]
  BY <1>1 DEF Ended, SameCalls, CallRecords
<1>3. /\ call'[c] \in CallRecords
      /\ call'[c].pc = "ended" /\ call'[c].kind = call[c].kind /\ call'[c].on = call[c].on
      /\ call'[c].answer = answer /\ call'[c].row = row
  BY <1>1, <1>2 DEF CallRecords
<1>4. \A d \in Calls : call'[d] \in CallRecords
  BY <1>1, <1>2, <1>3 DEF SameCalls
<1>. QED
  BY <1>2, <1>3, <1>4

\* A worker takes another record.
LEMMA NewWorker ==
    ASSUME BackendTypes, NEW c \in Calls, NEW w \in WorkerRecords, worker' = [worker EXCEPT ![c] = w]
    PROVE  /\ worker' \in [Calls -> WorkerRecords] /\ worker'[c] = w /\ SameWorkers(c)
BY DEF BackendTypes, SameWorkers

\* What the records of workers are: none, one that was sent, one that has answered.
LEMMA WorkerShapes ==
    /\ NoWorker \in WorkerRecords /\ NoWorker.pc = "none" /\ NoWorker.row = <<>>
    /\ \A kind \in {"generate", "encode", "resume"}, b \in Backends, row \in Rows, left \in Int :
          LET w == Sent(kind, b, row, left) IN
          /\ w \in WorkerRecords /\ w.pc = "sent" /\ w.kind = kind /\ w.on = b
          /\ w.row = row /\ w.left = left
    /\ \A w \in WorkerRecords, result \in {"ok", "error", "raised", "preempted"}, row \in Rows :
          LET a == Answer(w, result, row) IN
          /\ a \in WorkerRecords /\ a.pc = "answered" /\ a.kind = w.kind /\ a.on = w.on
          /\ a.row = row /\ a.result = result /\ a.left = w.left
<1>1. <<>> \in Rows
  BY DEF Rows
<1>2. NoWorker \in WorkerRecords /\ NoWorker.pc = "none" /\ NoWorker.row = <<>>
  BY <1>1 DEF NoWorker, WorkerRecords
<1>3. ASSUME NEW kind \in {"generate", "encode", "resume"}, NEW b \in Backends, NEW row \in Rows,
             NEW left \in Int
      PROVE  LET w == Sent(kind, b, row, left) IN
             /\ w \in WorkerRecords /\ w.pc = "sent" /\ w.kind = kind /\ w.on = b
             /\ w.row = row /\ w.left = left
  BY <1>1 DEF NoWorker, WorkerRecords, Sent
<1>4. ASSUME NEW w \in WorkerRecords, NEW result \in {"ok", "error", "raised", "preempted"},
             NEW row \in Rows
      PROVE  LET a == Answer(w, result, row) IN
             /\ a \in WorkerRecords /\ a.pc = "answered" /\ a.kind = w.kind /\ a.on = w.on
             /\ a.row = row /\ a.result = result /\ a.left = w.left
  BY DEF WorkerRecords, Answer
<1>. QED
  BY <1>2, <1>3, <1>4

\* What calls and their workers alone leave as it is.
SameBackends == UNCHANGED <<status, model, intermediate, resumed, ending>>
SameInstances == UNCHANGED <<starting_instances, ready_instances, alive, marked, migration_record>>
SameMigration == UNCHANGED <<migration, plans, shared>>
SameCounts == UNCHANGED <<request_queue, request_count, concurrency, max_queue_length>>

\* A call arrives.
LEMMA SubmitView ==
    ASSUME RouterTypes, NEW c \in Calls, NEW kind \in Kinds, Submit(c, kind)
    PROVE  /\ call[c].pc = "new" /\ SameCalls(c) /\ call' \in [Calls -> CallRecords]
           /\ call'[c].pc = "queued" /\ call'[c].kind = kind
           /\ call'[c].on = call[c].on /\ call'[c].answer = call[c].answer
           /\ request_queue' = Append(request_queue, c) /\ request_count' = request_count + 1
           /\ SameBackends /\ SameInstances /\ SameMigration
           /\ UNCHANGED <<worker, concurrency, max_queue_length>>
<1>1. call[c] \in CallRecords /\ call \in [Calls -> CallRecords]
  BY DEF RouterTypes
<1>2. /\ call' = [call EXCEPT ![c].pc = "queued", ![c].kind = kind]
      /\ call[c].pc = "new"
  BY DEF Submit
<1>3. /\ call'[c] = [call[c] EXCEPT !.pc = "queued", !.kind = kind] /\ SameCalls(c)
      /\ DOMAIN call' = Calls /\ call' = [d \in Calls |-> call'[d]]
  BY <1>1, <1>2 DEF SameCalls, CallRecords
<1>4. /\ call'[c] \in CallRecords
      /\ call'[c].pc = "queued" /\ call'[c].kind = kind
      /\ call'[c].on = call[c].on /\ call'[c].answer = call[c].answer
  BY <1>1, <1>3 DEF CallRecords
<1>5. call' \in [Calls -> CallRecords]
  BY <1>1, <1>3, <1>4 DEF SameCalls
<1>6. /\ request_queue' = Append(request_queue, c) /\ request_count' = request_count + 1
      /\ SameBackends /\ SameInstances /\ SameMigration
      /\ UNCHANGED <<worker, concurrency, max_queue_length>>
  BY DEF Submit, SameBackends, SameInstances, SameMigration, backends, scaling
<1>. QED
  BY <1>2, <1>3, <1>4, <1>5, <1>6

\* The call at the head of the queue is given a ready instance.
LEMMA AssignView ==
    ASSUME RouterTypes, NEW b \in Backends, Assign(b)
    PROVE  \E c \in Calls :
           /\ c = Head(request_queue) /\ request_queue # <<>>
           /\ b \in Ready /\ concurrency[b] < max_queue_length[b]
           /\ SameCalls(c) /\ call' \in [Calls -> CallRecords]
           /\ call'[c].pc = "assigned" /\ call'[c].kind = call[c].kind
           /\ call'[c].on = b /\ call'[c].answer = call[c].answer
           /\ request_queue' = Tail(request_queue)
           /\ concurrency' = [concurrency EXCEPT ![b] = @ + 1]
           /\ SameBackends /\ SameInstances /\ SameMigration
           /\ UNCHANGED <<worker, request_count, max_queue_length>>
<1>1. PICK c \in Calls : c = Head(request_queue)
  <2>1. request_queue # <<>> /\ request_queue \in Seq(Calls)
    BY DEF Assign, RouterTypes
  <2>2. Head(request_queue) \in Calls
    BY <2>1, HeadTailProperties
  <2>. QED
    BY <2>2
<1>2. call[c] \in CallRecords /\ call \in [Calls -> CallRecords]
  BY DEF RouterTypes
<1>3. call' = [call EXCEPT ![c].pc = "assigned", ![c].on = b]
  BY <1>1 DEF Assign
<1>4. /\ call'[c] = [call[c] EXCEPT !.pc = "assigned", !.on = b] /\ SameCalls(c)
      /\ DOMAIN call' = Calls /\ call' = [d \in Calls |-> call'[d]]
  BY <1>2, <1>3 DEF SameCalls, CallRecords
<1>5. /\ call'[c] \in CallRecords
      /\ call'[c].pc = "assigned" /\ call'[c].kind = call[c].kind
      /\ call'[c].on = b /\ call'[c].answer = call[c].answer
  BY <1>2, <1>4 DEF CallRecords
<1>6. call' \in [Calls -> CallRecords]
  BY <1>2, <1>4, <1>5 DEF SameCalls
<1>7. /\ request_queue # <<>> /\ b \in Ready /\ concurrency[b] < max_queue_length[b]
      /\ request_queue' = Tail(request_queue)
      /\ concurrency' = [concurrency EXCEPT ![b] = @ + 1]
      /\ SameBackends /\ SameInstances /\ SameMigration
      /\ UNCHANGED <<worker, request_count, max_queue_length>>
  BY DEF Assign, SameBackends, SameInstances, SameMigration, backends
<1>. QED
  BY <1>1, <1>4, <1>5, <1>6, <1>7

\* A call is at its backend from now on, with the worker w.
Sends(c, pc, w) ==
    /\ call' \in [Calls -> CallRecords] /\ SameCalls(c)
    /\ call'[c].pc = pc /\ call'[c].kind = call[c].kind
    /\ call'[c].on = call[c].on /\ call'[c].answer = call[c].answer
    /\ worker' \in [Calls -> WorkerRecords] /\ SameWorkers(c)
    /\ worker'[c] = w

\* A call has ended, and no worker works for it.
Leaves(c, answer, row) ==
    /\ call' \in [Calls -> CallRecords] /\ SameCalls(c)
    /\ call'[c].pc = "ended" /\ call'[c].kind = call[c].kind /\ call'[c].on = call[c].on
    /\ call'[c].answer = answer /\ call'[c].row = row
    /\ worker' \in [Calls -> WorkerRecords] /\ SameWorkers(c)
    /\ worker'[c].pc = "none" /\ worker'[c].row \in {<<>>, worker[c].row}

\* A call is sent to a backend.
LEMMA SendsCall ==
    ASSUME RouterTypes, BackendTypes, NEW c \in Calls, NEW pc \in {"executing", "resuming"},
           NEW w \in WorkerRecords,
           call' = [call EXCEPT ![c].pc = pc], worker' = [worker EXCEPT ![c] = w]
    PROVE  Sends(c, pc, w)
<1>1. call[c] \in CallRecords /\ call \in [Calls -> CallRecords]
  BY DEF RouterTypes
<1>2. /\ call'[c] = [call[c] EXCEPT !.pc = pc] /\ SameCalls(c)
      /\ DOMAIN call' = Calls /\ call' = [d \in Calls |-> call'[d]]
  BY <1>1 DEF SameCalls, CallRecords
<1>3. /\ call'[c] \in CallRecords
      /\ call'[c].pc = pc /\ call'[c].kind = call[c].kind
      /\ call'[c].on = call[c].on /\ call'[c].answer = call[c].answer
  BY <1>1, <1>2 DEF CallRecords
<1>4. call' \in [Calls -> CallRecords]
  BY <1>1, <1>2, <1>3 DEF SameCalls
<1>5. worker' \in [Calls -> WorkerRecords] /\ worker'[c] = w /\ SameWorkers(c)
  BY NewWorker
<1>. QED
  BY <1>2, <1>3, <1>4, <1>5 DEF Sends

\* A call that was assigned is sent, or ends.
LEMMA DispatchView ==
    ASSUME RouterTypes, BackendTypes, NEW c \in Calls, WorkerServes(c), GivenInUse(c),
           Dispatch(c)
    PROVE  /\ call[c].pc = "assigned"
           /\ \/ /\ call[c].on \in Ready
                 /\ Sends(c, "executing", Sent(call[c].kind, call[c].on, <<>>, MaxTokens))
              \/ Leaves(c, "error", <<>>)
           /\ SameBackends /\ SameInstances /\ SameMigration /\ SameCounts
<1>1. /\ call[c].pc = "assigned"
      /\ SameBackends /\ SameInstances /\ SameMigration /\ SameCounts
  BY DEF Dispatch, SameBackends, SameInstances, SameMigration, SameCounts, scaling
<1>2. /\ call[c].on \in Backends /\ <<>> \in Rows /\ MaxTokens \in Int
      /\ call[c].kind \in {"generate", "encode"}
  BY <1>1, RouterAssumption DEF GivenInUse, Given, Rows, WorkerServes
<1>3. CASE call[c].on \in Ready
  <2> DEFINE w == Sent(call[c].kind, call[c].on, <<>>, MaxTokens)
  <2>1. w \in WorkerRecords
    BY <1>2, WorkerShapes
  <2>2. /\ call' = [call EXCEPT ![c].pc = "executing"]
        /\ worker' = [worker EXCEPT ![c] = w]
    BY <1>3 DEF Dispatch
  <2>3. Sends(c, "executing", w)
    BY <2>1, <2>2, SendsCall
  <2>. QED
    BY <1>1, <1>3, <2>3
<1>4. CASE call[c].on \notin Ready
  <2>1. call' = Ended(c, "error", <<>>) /\ UNCHANGED worker
    BY <1>4 DEF Dispatch
  <2>2. worker[c].pc = "none"
    BY <1>1 DEF WorkerServes
  <2>. QED
    BY <1>1, <1>2, <2>1, <2>2, EndedCall DEF Leaves, BackendTypes, SameWorkers
<1>. QED
  BY <1>3, <1>4

\* A preempted call has no target, one that is gone, or a ready one.
LEMMA ResumeView ==
    ASSUME RouterTypes, BackendTypes, NEW c \in Calls, Resume(c)
    PROVE  LET to == migration_record[worker[c].on] IN
           /\ call[c].pc = "executing" /\ worker[c].pc = "answered"
           /\ worker[c].result = "preempted"
           /\ \/ /\ to \in Ready
                 /\ Sends(c, "resuming", Sent("resume", to, worker[c].row, LeftTokens(worker[c].row)))
              \/ \E answer \in {"error", "raised"} : Leaves(c, answer, <<>>)
           /\ SameBackends /\ SameInstances /\ SameMigration /\ SameCounts
<1> DEFINE to == migration_record[worker[c].on]
<1>1. /\ call[c].pc = "executing" /\ worker[c].pc = "answered"
      /\ worker[c].result = "preempted"
      /\ SameBackends /\ SameInstances /\ SameMigration /\ SameCounts
  BY DEF Resume, Has, SameBackends, SameInstances, SameMigration, SameCounts, scaling
<1>2. /\ <<>> \in Rows /\ worker[c].row \in Rows /\ LeftTokens(worker[c].row) \in Int
  <2>1. worker[c].row \in Rows
    BY Fields
  <2>2. Len(worker[c].row) \in Nat
    BY <2>1 DEF Rows
  <2>. QED
    BY <2>1, <2>2, RouterAssumption DEF LeftTokens, Rows
<1>3. \/ to # None /\ to \in Ready
         /\ call' = [call EXCEPT ![c].pc = "resuming"]
         /\ worker' = [worker EXCEPT ![c] = Sent("resume", to, worker[c].row, LeftTokens(worker[c].row))]
      \/ \E answer \in {"error", "raised"} :
            call' = Ended(c, answer, <<>>) /\ worker' = [worker EXCEPT ![c] = NoWorker]
  BY DEF Resume
<1>4. CASE to # None /\ to \in Ready
         /\ call' = [call EXCEPT ![c].pc = "resuming"]
         /\ worker' = [worker EXCEPT ![c] = Sent("resume", to, worker[c].row, LeftTokens(worker[c].row))]
  <2> DEFINE w == Sent("resume", to, worker[c].row, LeftTokens(worker[c].row))
  <2>1. to \in Backends
    BY <1>4, ToSetMember DEF Ready, RouterTypes
  <2>2. w \in WorkerRecords
    BY <1>2, <2>1, WorkerShapes
  <2>3. Sends(c, "resuming", w)
    BY <1>4, <2>2, SendsCall
  <2>. QED
    BY <1>1, <1>4, <2>3
<1>5. CASE \E answer \in {"error", "raised"} :
            call' = Ended(c, answer, <<>>) /\ worker' = [worker EXCEPT ![c] = NoWorker]
  <2>1. PICK answer \in {"error", "raised"} :
            call' = Ended(c, answer, <<>>) /\ worker' = [worker EXCEPT ![c] = NoWorker]
    BY <1>5
  <2>2. /\ call' \in [Calls -> CallRecords] /\ SameCalls(c)
        /\ call'[c].pc = "ended" /\ call'[c].kind = call[c].kind /\ call'[c].on = call[c].on
        /\ call'[c].answer = answer /\ call'[c].row = <<>>
    BY <1>2, <2>1, EndedCall
  <2>3. worker' \in [Calls -> WorkerRecords] /\ worker'[c] = NoWorker /\ SameWorkers(c)
    BY <2>1, WorkerShapes, NewWorker
  <2>4. Leaves(c, answer, <<>>)
    BY <2>2, <2>3, WorkerShapes DEF Leaves
  <2>. QED
    BY <1>1, <2>4
<1>. QED
  BY <1>3, <1>4, <1>5

\* The answer of a backend is the answer of the call.
LEMMA ReturnView ==
    ASSUME RouterTypes, BackendTypes, NEW c \in Calls, WorkerServes(c), Return(c)
    PROVE  LET b == call[c].on
               w == worker[c]
           IN
           /\ call[c].pc \in {"executing", "resuming"} /\ w.pc = "answered"
           /\ w.result \in {"ok", "error", "raised"} /\ Leaves(c, w.result, w.row)
           /\ \/ UNCHANGED <<request_count, concurrency>>
              \/ /\ request_count' = request_count - 1
                 /\ concurrency' = [concurrency EXCEPT ![b] = @ - 1]
           /\ SameBackends /\ SameInstances /\ SameMigration
           /\ UNCHANGED <<request_queue, max_queue_length>>
<1> DEFINE w == worker[c]
<1>1. /\ call[c].pc \in {"executing", "resuming"} /\ w.pc = "answered" /\ w.result # "preempted"
      /\ call' = Ended(c, w.result, w.row) /\ worker' = [worker EXCEPT ![c] = NoWorker]
      /\ \/ UNCHANGED <<request_count, concurrency>>
         \/ /\ request_count' = request_count - 1
            /\ concurrency' = [concurrency EXCEPT ![call[c].on] = @ - 1]
      /\ SameBackends /\ SameInstances /\ SameMigration
      /\ UNCHANGED <<request_queue, max_queue_length>>
  BY DEF Return, Has, SameBackends, SameInstances, SameMigration
<1>2. w.result \in {"ok", "error", "raised"} /\ w.row \in Rows
  BY <1>1, Fields DEF WorkerServes
<1>3. /\ call' \in [Calls -> CallRecords] /\ SameCalls(c)
      /\ call'[c].pc = "ended" /\ call'[c].kind = call[c].kind /\ call'[c].on = call[c].on
      /\ call'[c].answer = w.result /\ call'[c].row = w.row
  BY <1>1, <1>2, EndedCall
<1>4. worker' \in [Calls -> WorkerRecords] /\ worker'[c] = NoWorker /\ SameWorkers(c)
  BY <1>1, WorkerShapes, NewWorker
<1>5. Leaves(c, w.result, w.row)
  BY <1>3, <1>4, WorkerShapes DEF Leaves
<1>. QED
  BY <1>1, <1>2, <1>5

\* The worker of a call that a backend works for.
Active(c) == worker[c].pc \notin {"none", "answered"}

\* A worker serves a call that was given an instance.
LEMMA WorkerIsOn ==
    ASSUME RouterTypes, BackendTypes, NEW c \in Calls, WorkerServes(c), GivenInUse(c),
           worker[c].pc # "none"
    PROVE  /\ call[c].pc \in {"executing", "resuming"}
           /\ worker[c].on \in Backends /\ InUse(worker[c].on)
           /\ worker[c].kind \in {"generate", "encode", "resume"}
<1>1. call[c].pc \in {"executing", "resuming"}
  BY DEF WorkerServes
<1>2. /\ call[c].on \in Backends /\ InUse(call[c].on)
      /\ migration_record[call[c].on] # None => InUse(migration_record[call[c].on])
  BY <1>1 DEF GivenInUse, Given
<1>3. CASE call[c].pc = "executing"
  BY <1>2, <1>3 DEF WorkerServes
<1>4. CASE call[c].pc = "resuming"
  <2>1. worker[c].on = migration_record[call[c].on] /\ worker[c].on \in Backends
    BY <1>4 DEF WorkerServes
  <2>2. worker[c].on # None
    BY <2>1, RouterAssumption
  <2>3. InUse(worker[c].on)
    BY <1>2, <2>1, <2>2, Zenon
  <2>4. worker[c].kind = "resume"
    BY <1>4 DEF WorkerServes
  <2>. QED
    BY <1>1, <2>1, <2>3, <2>4
<1>. QED
  BY <1>1, <1>3, <1>4

\* c answers with a result and a row.
GivesAnswer(c, result, row) ==
    /\ worker' \in [Calls -> WorkerRecords] /\ SameWorkers(c)
    /\ worker'[c].pc = "answered" /\ worker'[c].kind = worker[c].kind
    /\ worker'[c].on = worker[c].on /\ worker'[c].left = worker[c].left
    /\ worker'[c].row = row /\ worker'[c].result = result

\* c puts tokens into the intermediate of its backend and has row then.
PutsRow(c, value, prompt, row, left) ==
    LET w == worker[c]
        b == w.on
        new == intermediate'[b]
    IN
    /\ worker' \in [Calls -> WorkerRecords] /\ SameWorkers(c)
    /\ worker'[c].pc = (IF status[b] = "deleting" THEN "preempted" ELSE "generating")
    /\ worker'[c].kind = w.kind /\ worker'[c].on = b /\ worker'[c].result = w.result
    /\ worker'[c].row = row /\ worker'[c].left = left
    /\ intermediate' \in [Backends -> [flat : BOOLEAN, row : Rows]]
    /\ \A o \in Backends \ {b} : intermediate'[o] = intermediate[o]
    /\ \/ intermediate[b].row = <<>> /\ new.row = value /\ new.flat = ~prompt
       \/ /\ intermediate[b].row # <<>> /\ ~intermediate[b].flat /\ ~new.flat
          /\ new.row = intermediate[b].row \o (IF prompt THEN <<Foreign>> ELSE value)

\* c marks itself and all it meets.
Marks(c) ==
    LET w == worker[c] IN
    /\ \A d \in Calls \ {c} : Streaming(d, w.on) => d \in shared' /\ c \in shared'
    /\ w.pc = "checked" /\ intermediate[w.on].row # <<>> => c \in shared'
    /\ w.kind = "resume" /\ resumed[w.on] # None /\ ~IsPrefix(resumed[w.on].cache, w.row) =>
          c \in shared'

\* What generate puts first.
PromptRow(c) ==
    LET w == worker[c]
        r == resumed[w.on]
    IN  CASE w.kind # "resume" -> <<c>>
          [] w.kind = "resume" /\ r # None /\ Len(w.row) < Len(r.tokens) -> r.tokens
          [] OTHER -> w.row

\* The token that is generated next.
NextToken(c) ==
    LET w == worker[c] IN
    IF w.kind = "generate" \/ IsPrefix(resumed[w.on].cache, w.row) THEN <<c>> ELSE <<Foreign>>

ChecksStatus(c) ==
    /\ worker[c].pc = "sent" /\ UNCHANGED intermediate
    /\ worker' \in [Calls -> WorkerRecords] /\ SameWorkers(c)
    /\ worker'[c].pc = "checked" /\ worker'[c].kind = worker[c].kind
    /\ worker'[c].on = worker[c].on /\ worker'[c].left = worker[c].left
    /\ worker'[c].row = worker[c].row
ClearsRow(b) == intermediate' = [intermediate EXCEPT ![b] = Nothing]
Fails(c) ==
    /\ \E result \in {"error", "raised"} : GivesAnswer(c, result, <<>>)
    /\ UNCHANGED intermediate \/ (worker[c].pc = "preempted" /\ ClearsRow(worker[c].on))
Encodes(c) ==
    /\ worker[c].pc = "checked" /\ worker[c].kind = "encode"
    /\ GivesAnswer(c, "ok", <<c>>) /\ UNCHANGED intermediate
Prompts(c) ==
    /\ worker[c].pc = "checked" /\ worker[c].kind # "encode"
    /\ worker[c].kind = "resume" => resumed[worker[c].on] # None /\ worker[c].left > 0
    /\ PutsRow(c, PromptRow(c), TRUE, PromptRow(c), worker[c].left) /\ Marks(c)
Continues(c) ==
    /\ worker[c].pc = "generating" /\ worker[c].left > 0
    /\ PutsRow(c, NextToken(c), FALSE, worker[c].row \o NextToken(c), worker[c].left - 1) /\ Marks(c)
Completes(c) ==
    /\ worker[c].pc = "generating" /\ worker[c].left = 0
    /\ GivesAnswer(c, "ok", worker[c].row) /\ ClearsRow(worker[c].on)
GivesTokens(c) ==
    /\ worker[c].pc = "preempted" /\ worker[c].kind # "resume"
    /\ intermediate[worker[c].on].row # <<>> /\ ~intermediate[worker[c].on].flat
    /\ GivesAnswer(c, "preempted", intermediate[worker[c].on].row) /\ ClearsRow(worker[c].on)

WorksOn(c) ==
    \/ ChecksStatus(c) \/ Fails(c) \/ Encodes(c) \/ Prompts(c)
    \/ Continues(c) \/ Completes(c) \/ GivesTokens(c)

\* The answer of a worker.
LEMMA AnswersView ==
    ASSUME BackendTypes, NEW c \in Calls, NEW result \in {"ok", "error", "raised", "preempted"},
           NEW row \in Rows, Answers(c, result, row)
    PROVE  GivesAnswer(c, result, row)
<1>1. worker[c] \in WorkerRecords
  BY DEF BackendTypes
<1>2. worker' = [worker EXCEPT ![c] = Answer(worker[c], result, row)]
  BY DEF Answers, BackendTypes
<1>3. PICK w \in WorkerRecords : w = worker[c]
  BY <1>1
<1>a. PICK a : a = Answer(w, result, row)
  OBVIOUS
<1>b. /\ a \in WorkerRecords /\ a.pc = "answered" /\ a.kind = w.kind /\ a.on = w.on
      /\ a.row = row /\ a.result = result /\ a.left = w.left
  BY <1>a DEF Answer, WorkerRecords
<1>4. worker' = [worker EXCEPT ![c] = a]
  BY <1>2, <1>3, <1>a
<1>5. worker' \in [Calls -> WorkerRecords] /\ worker'[c] = a /\ SameWorkers(c)
  BY <1>4, <1>b, NewWorker
<1>. QED
  BY <1>3, <1>b, <1>5 DEF GivesAnswer

\* Putting tokens: the backend raises, or appends them.
LEMMA StreamsView ==
    ASSUME RouterTypes, BackendTypes, NEW c \in Calls, worker[c].on \in Backends,
           NEW value \in Rows, NEW prompt \in BOOLEAN, NEW row \in Rows, NEW left \in Int,
           Streams(c, value, prompt, row, left)
    PROVE  \/ GivesAnswer(c, "raised", <<>>) /\ UNCHANGED intermediate
           \/ PutsRow(c, value, prompt, row, left)
<1> DEFINE b == worker[c].on
           s == Put(intermediate[b], value, prompt)
           w == [worker[c] EXCEPT !.row = row, !.left = left,
                      !.pc = IF status[b] = "deleting" THEN "preempted" ELSE "generating"]
<1>0. worker[c] \in WorkerRecords /\ <<>> \in Rows /\ <<Foreign>> \in Rows
  BY DEF BackendTypes, Rows
<1>1. CASE s = None
  <2>1. Answers(c, "raised", <<>>) /\ UNCHANGED intermediate
    BY <1>1 DEF Streams
  <2>. QED
    BY <1>0, <2>1, AnswersView
<1>2. CASE s # None
  <2>1. /\ intermediate' = [intermediate EXCEPT ![b] = s]
        /\ worker' = [worker EXCEPT ![c].row = row, ![c].left = left,
                            ![c].pc = IF status[b] = "deleting" THEN "preempted" ELSE "generating"]
    BY <1>2 DEF Streams
  <2>2. w \in WorkerRecords
    BY <1>0 DEF WorkerRecords
  <2>3. /\ w.pc = (IF status[b] = "deleting" THEN "preempted" ELSE "generating")
        /\ w.kind = worker[c].kind /\ w.on = b /\ w.result = worker[c].result
        /\ w.row = row /\ w.left = left
    BY <1>0 DEF WorkerRecords
  <2>4. worker' = [worker EXCEPT ![c] = w]
    BY <2>1 DEF BackendTypes
  <2>5. worker' \in [Calls -> WorkerRecords] /\ worker'[c] = w /\ SameWorkers(c)
    BY <2>2, <2>4, NewWorker
  <2> HIDE DEF w
  <2>6. intermediate[b] \in [flat : BOOLEAN, row : Rows]
    BY DEF BackendTypes
  <2>7. /\ s \in [flat : BOOLEAN, row : Rows]
        /\ \/ intermediate[b].row = <<>> /\ s.row = value /\ s.flat = ~prompt
           \/ /\ intermediate[b].row # <<>> /\ ~intermediate[b].flat /\ ~s.flat
              /\ s.row = intermediate[b].row \o (IF prompt THEN <<Foreign>> ELSE value)
    <3>1. PICK old \in [flat : BOOLEAN, row : Rows] : old = intermediate[b]
      BY <2>6
    <3>2. old.flat \in BOOLEAN /\ old.row \in Rows
      BY <3>1
    <3>3. CASE old.row = <<>>
      <4>1. s = [flat |-> ~prompt, row |-> value]
        BY <3>1, <3>3 DEF Put
      <4>. QED
        BY <3>1, <3>3, <4>1
    <3>4. CASE old.row # <<>> /\ old.flat
      BY <1>2, <3>1, <3>4 DEF Put
    <3>5. CASE old.row # <<>> /\ ~old.flat
      <4>1. PICK more \in Rows : more = IF prompt THEN <<Foreign>> ELSE value
        BY <1>0
      <4>2. s = [old EXCEPT !.row = old.row \o more]
        BY <3>1, <3>5, <4>1 DEF Put
      <4>3. old.row \o more \in Rows
        BY <3>2, <4>1, ConcatProperties DEF Rows
      <4>4. s = [flat |-> FALSE, row |-> old.row \o more]
        BY <3>2, <3>5, <4>2, <4>3
      <4>5. /\ s \in [flat : BOOLEAN, row : Rows] /\ ~s.flat
            /\ s.row = old.row \o more
        BY <4>3, <4>4
      <4>. QED
        BY <3>1, <3>5, <4>1, <4>5
    <3>. QED
      BY <3>2, <3>3, <3>4, <3>5
  <2> HIDE DEF s
  <2>8. /\ intermediate' \in [Backends -> [flat : BOOLEAN, row : Rows]]
        /\ intermediate'[b] = s
        /\ \A o \in Backends \ {b} : intermediate'[o] = intermediate[o]
    BY <2>1, <2>7 DEF BackendTypes
  <2>. QED
    BY <2>3, <2>5, <2>7, <2>8 DEF PutsRow
<1>. QED
  BY <1>1, <1>2

\* What a model puts and generates are rows.
LEMMA WorkRows ==
    ASSUME RouterTypes, BackendTypes, NEW c \in Calls, worker[c].on \in Backends
    PROVE  /\ worker[c].kind = "resume" => worker[c].row \in Rows
           /\ PromptRow(c) \in Rows /\ NextToken(c) \in Rows
           /\ worker[c].row \o NextToken(c) \in Rows
<1>1. worker[c].row \in Rows /\ <<c>> \in Rows /\ <<Foreign>> \in Rows
  BY Fields DEF Rows
<1>2. NextToken(c) \in Rows
  BY <1>1 DEF NextToken
<1>3. worker[c].row \o NextToken(c) \in Rows
  BY <1>1, <1>2, ConcatProperties DEF Rows
<1>4. resumed[worker[c].on] # None => resumed[worker[c].on].tokens \in Rows
  BY Fields
<1>5. PromptRow(c) \in Rows
  <2>1. CASE worker[c].kind # "resume"
    BY <1>1, <2>1 DEF PromptRow
  <2>2. CASE /\ worker[c].kind = "resume" /\ resumed[worker[c].on] # None
             /\ Len(worker[c].row) < Len(resumed[worker[c].on].tokens)
    BY <1>4, <2>2 DEF PromptRow
  <2>3. CASE /\ worker[c].kind = "resume"
             /\ ~ (resumed[worker[c].on] # None
                     /\ Len(worker[c].row) < Len(resumed[worker[c].on].tokens))
    BY <1>1, <2>3 DEF PromptRow
  <2>. QED
    BY <2>1, <2>2, <2>3
<1>. QED
  BY <1>1, <1>2, <1>3, <1>5

\* The marks of a call that streams.
LEMMA MarksView ==
    ASSUME NEW c \in Calls, Work(c), worker[c].pc \in {"checked", "generating"},
           worker[c].kind # "encode"
    PROVE  Marks(c)
<1> DEFINE b == worker[c].on
           others == {d \in Calls \ {c} : Streaming(d, b)}
           left == intermediate[b].row # <<>> /\ Has(c, "checked")
           cache == worker[c].kind = "resume" /\ resumed[b] # None
                        /\ ~IsPrefix(resumed[b].cache, worker[c].row)
<1>1. IF others # {} \/ left \/ cache THEN shared' = shared \cup others \cup {c} ELSE shared' = shared
  BY DEF Work
<1>2. ASSUME NEW d \in Calls \ {c}, Streaming(d, b)
      PROVE  d \in shared' /\ c \in shared'
  <2>1. d \in others
    BY <1>2
  <2>. QED
    BY <1>1, <2>1
<1>3. worker[c].pc = "checked" /\ intermediate[b].row # <<>> => c \in shared'
  BY <1>1 DEF Has
<1>4. (/\ worker[c].kind = "resume" /\ resumed[b] # None
       /\ ~IsPrefix(resumed[b].cache, worker[c].row)) => c \in shared'
  BY <1>1
<1>. QED
  BY <1>2, <1>3, <1>4 DEF Marks

\* A backend works on.
LEMMA WorkView ==
    ASSUME RouterTypes, BackendTypes, NEW c \in Calls, WorkerServes(c), GivenInUse(c), Work(c)
    PROVE  /\ Active(c) /\ worker[c].on \in Backends /\ shared \subseteq shared' /\ shared' \subseteq Calls
           /\ UNCHANGED <<status, model, resumed, ending, call, migration, plans>>
           /\ SameCounts /\ SameInstances /\ WorksOn(c)
<1>1. Active(c) /\ worker[c].pc # "none"
  BY DEF Work, Active
<1>2. worker[c].on \in Backends /\ worker[c].kind \in {"generate", "encode", "resume"}
  BY <1>1, WorkerIsOn
<1>3. /\ UNCHANGED <<call, migration, plans>> /\ SameCounts /\ SameInstances
      /\ shared \subseteq shared' /\ shared' \subseteq Calls
  BY DEF Work, requests, scaling, SameCounts, SameInstances, RouterTypes
<1>4. Works(c)
  BY DEF Work
<1>5. worker[c] \in WorkerRecords /\ <<>> \in Rows /\ <<c>> \in Rows /\ worker[c].row \in Rows
  BY Fields DEF Rows
<1>6. ASSUME Check(c)
      PROVE  (ChecksStatus(c) \/ Fails(c)) /\ UNCHANGED <<status, model, resumed, ending>>
  <2>1. UNCHANGED <<status, model, intermediate, resumed, ending>> /\ worker[c].pc = "sent"
    BY <1>6 DEF Check, Has
  <2>2. CASE Goes(c, "checked")
    <3> DEFINE w == [worker[c] EXCEPT !.pc = "checked"]
    <3>1. /\ w \in WorkerRecords /\ w.pc = "checked" /\ w.kind = worker[c].kind
          /\ w.on = worker[c].on /\ w.left = worker[c].left /\ w.row = worker[c].row
      BY <1>5 DEF WorkerRecords
    <3>2. worker' = [worker EXCEPT ![c] = w]
      BY <2>2 DEF Goes, BackendTypes
    <3> HIDE DEF w
    <3>3. worker' \in [Calls -> WorkerRecords] /\ worker'[c] = w /\ SameWorkers(c)
      BY <3>1, <3>2, NewWorker
    <3>. QED
      BY <2>1, <3>1, <3>3 DEF ChecksStatus
  <2>3. CASE Answers(c, "error", <<>>)
    <3>1. GivesAnswer(c, "error", <<>>)
      BY <1>5, <2>3, AnswersView
    <3>. QED
      BY <2>1, <3>1 DEF Fails
  <2>. QED
    BY <1>6, <2>2, <2>3 DEF Check
<1>7. ASSUME Begin(c)
      PROVE  (Fails(c) \/ Encodes(c) \/ Prompts(c)) /\ UNCHANGED <<status, model, resumed, ending>>
  <2>1. UNCHANGED <<status, model, resumed, ending>> /\ worker[c].pc = "checked"
    BY <1>7 DEF Begin, Has
  <2>2. CASE Answers(c, "raised", <<>>) /\ UNCHANGED intermediate
    <3>1. GivesAnswer(c, "raised", <<>>)
      BY <1>5, <2>2, AnswersView
    <3>. QED
      BY <2>1, <2>2, <3>1 DEF Fails
  <2>3. CASE worker[c].kind = "encode" /\ Answers(c, "ok", <<c>>) /\ UNCHANGED intermediate
    <3>1. GivesAnswer(c, "ok", <<c>>)
      BY <1>5, <2>3, AnswersView
    <3>. QED
      BY <2>1, <2>3, <3>1 DEF Encodes
  <2>4. CASE /\ worker[c].kind # "encode"
             /\ worker[c].kind = "resume" => resumed[worker[c].on] # None /\ ~ (worker[c].left <= 0)
             /\ Streams(c, PromptRow(c), TRUE, PromptRow(c), worker[c].left)
    <3>1. \/ GivesAnswer(c, "raised", <<>>) /\ UNCHANGED intermediate
          \/ PutsRow(c, PromptRow(c), TRUE, PromptRow(c), worker[c].left)
      <4>1. PromptRow(c) \in Rows /\ worker[c].left \in Int /\ TRUE \in BOOLEAN
        BY <1>2, WorkRows, Fields
      <4>. QED
        BY <1>2, <2>4, <4>1, StreamsView
    <3>2. Marks(c)
      BY <2>1, <2>4, MarksView
    <3>3. worker[c].left \in Int
      BY Fields
    <3>4. worker[c].kind = "resume" => resumed[worker[c].on] # None /\ worker[c].left > 0
      BY <2>4, <3>3
    <3>. QED
      BY <2>1, <2>4, <3>1, <3>2, <3>4 DEF Prompts, Fails
  <2>5. \/ Answers(c, "raised", <<>>) /\ UNCHANGED intermediate
        \/ worker[c].kind = "encode" /\ Answers(c, "ok", <<c>>) /\ UNCHANGED intermediate
        \/ /\ worker[c].kind # "encode"
           /\ worker[c].kind = "resume" => resumed[worker[c].on] # None /\ ~ (worker[c].left <= 0)
           /\ Streams(c, PromptRow(c), TRUE, PromptRow(c), worker[c].left)
    BY <1>7 DEF Begin, PromptRow
  <2>. QED
    BY <2>2, <2>3, <2>4, <2>5
<1>8. ASSUME Token(c)
      PROVE  (Fails(c) \/ Continues(c)) /\ UNCHANGED <<status, model, resumed, ending>>
  <2>1. /\ UNCHANGED <<status, model, resumed, ending>>
        /\ worker[c].pc = "generating" /\ worker[c].left > 0
        /\ Streams(c, NextToken(c), FALSE, worker[c].row \o NextToken(c), worker[c].left - 1)
    BY <1>8 DEF Token, Has, NextToken
  <2>2. NextToken(c) \in Rows /\ worker[c].row \o NextToken(c) \in Rows
        /\ worker[c].left - 1 \in Int /\ FALSE \in BOOLEAN
    BY <1>2, WorkRows, Fields
  <2>3. \/ GivesAnswer(c, "raised", <<>>) /\ UNCHANGED intermediate
        \/ PutsRow(c, NextToken(c), FALSE, worker[c].row \o NextToken(c), worker[c].left - 1)
    BY <1>2, <2>1, <2>2, StreamsView
  <2>4. Marks(c)
    <3>1. worker[c].kind # "encode"
      BY <2>1 DEF WorkerServes
    <3>. QED
      BY <2>1, <3>1, MarksView
  <2>. QED
    BY <2>1, <2>3, <2>4 DEF Continues, Fails
<1>9. ASSUME Complete(c)
      PROVE  Completes(c) /\ UNCHANGED <<status, model, resumed, ending>>
  <2>1. GivesAnswer(c, "ok", worker[c].row)
    BY <1>5, <1>9, AnswersView DEF Complete
  <2>. QED
    BY <1>9, <2>1 DEF Complete, Has, Completes, ClearsRow
<1>10. ASSUME Preempt(c)
       PROVE  (Fails(c) \/ GivesTokens(c)) /\ UNCHANGED <<status, model, resumed, ending>>
  <2> DEFINE s == intermediate[worker[c].on]
  <2>1. UNCHANGED <<status, model, resumed, ending>> /\ worker[c].pc = "preempted"
    BY <1>10 DEF Preempt, Has
  <2>2. CASE Answers(c, "raised", <<>>)
    <3>1. UNCHANGED intermediate \/ ClearsRow(worker[c].on)
      BY <1>10 DEF Preempt, ClearsRow
    <3>2. GivesAnswer(c, "raised", <<>>)
      BY <1>5, <2>2, AnswersView
    <3>. QED
      BY <2>1, <3>1, <3>2 DEF Fails
  <2>3. CASE worker[c].kind # "resume" /\ ~s.flat /\ s.row # <<>> /\ ClearsRow(worker[c].on)
             /\ Answers(c, "preempted", s.row)
    <3>1. s.row \in Rows
      BY <1>2, Fields
    <3>2. GivesAnswer(c, "preempted", s.row)
      BY <1>5, <2>3, <3>1, AnswersView
    <3>. QED
      BY <2>1, <2>3, <3>2 DEF GivesTokens
  <2>4. \/ Answers(c, "raised", <<>>)
        \/ worker[c].kind # "resume" /\ ~s.flat /\ s.row # <<>> /\ ClearsRow(worker[c].on)
             /\ Answers(c, "preempted", s.row)
    <3>1. CASE worker[c].kind = "resume" \/ s.flat \/ s.row = <<>>
      BY <1>10, <3>1 DEF Preempt
    <3>2. CASE ~ (worker[c].kind = "resume" \/ s.flat \/ s.row = <<>>)
      BY <1>10, <3>2 DEF Preempt, ClearsRow
    <3>. QED
      BY <3>1, <3>2
  <2>. QED
    BY <2>2, <2>3, <2>4
<1>. QED
  BY <1>1, <1>2, <1>3, <1>4, <1>6, <1>7, <1>8, <1>9, <1>10 DEF Works, WorksOn

\* The backend of a call that it works for is killed.
DiesOn(c, b) ==
    /\ worker[c].on = b /\ Active(c)
    /\ worker'[c].pc = "answered" /\ worker'[c].kind = worker[c].kind
    /\ worker'[c].on = worker[c].on /\ worker'[c].row = <<>> /\ worker'[c].result = "raised"

\* A killed actor raises at the calls it works for; the rest is as it was.
LEMMA KillView ==
    ASSUME BackendTypes, NEW b, Kill(b)
    PROVE  /\ worker' \in [Calls -> WorkerRecords]
           /\ \A c \in Calls : DiesOn(c, b) \/ worker'[c] = worker[c]
           /\ ending[b] = "done" /\ b \in alive
           /\ alive' = alive \ {b} /\ marked' = marked \ {b}
           /\ SameBackends /\ SameCounts
           /\ UNCHANGED <<call, starting_instances, ready_instances, migration_record, plans, shared>>
<1>1. /\ worker' = Killed(b, worker) /\ ending[b] = "done" /\ b \in alive
      /\ alive' = alive \ {b} /\ marked' = marked \ {b}
      /\ SameBackends /\ SameCounts
      /\ UNCHANGED <<call, starting_instances, ready_instances, migration_record, plans, shared>>
  BY DEF Kill, SameBackends, SameCounts, requests
<1>2. ASSUME NEW c \in Calls
      PROVE  /\ worker'[c] \in WorkerRecords
             /\ DiesOn(c, b) \/ worker'[c] = worker[c]
  <2>1. PICK w \in WorkerRecords : w = worker[c]
    BY DEF BackendTypes
  <2>2. worker'[c] = IF w.on = b /\ w.pc \notin {"none", "answered"}
                     THEN Answer(w, "raised", <<>>) ELSE w
    BY <1>1, <2>1 DEF Killed
  <2>3. PICK a, row : a = Answer(w, "raised", row) /\ row = <<>>
    OBVIOUS
  <2>4. /\ a \in WorkerRecords /\ a.pc = "answered" /\ a.kind = w.kind /\ a.on = w.on
        /\ a.row = <<>> /\ a.result = "raised"
    <3>1. row \in Rows
      BY <2>3 DEF Rows
    <3>2. a = Answer(w, "raised", row)
      BY <2>3
    <3>3. /\ a \in WorkerRecords /\ a.pc = "answered" /\ a.kind = w.kind /\ a.on = w.on
          /\ a.row = row /\ a.result = "raised"
      BY <3>1, <3>2 DEF WorkerRecords, Answer
    <3>. QED
      BY <2>3, <3>3
  <2>5. CASE w.on = b /\ w.pc \notin {"none", "answered"}
    <3>1. worker'[c] = a
      BY <2>2, <2>3, <2>5
    <3>. QED
      BY <2>1, <2>4, <2>5, <3>1 DEF DiesOn, Active
  <2>6. CASE ~ (w.on = b /\ w.pc \notin {"none", "answered"})
    BY <2>1, <2>2, <2>6
  <2>. QED
    BY <2>5, <2>6
<1>3. worker' \in [Calls -> WorkerRecords]
  BY <1>1, <1>2 DEF Killed
<1>. QED
  BY <1>1, <1>2, <1>3

(***************************************************************************)
(* Types                                                                   *)
(***************************************************************************)

\* The actions of calls keep the types.
LEMMA CallTypes ==
    ASSUME RouterTypes, BackendTypes, NEW c \in Calls, WorkerServes(c), GivenInUse(c),
           \/ \E kind \in Kinds : Submit(c, kind)
           \/ Dispatch(c) \/ Resume(c) \/ Return(c) \/ Work(c)
    PROVE  RouterTypes' /\ BackendTypes'
<1>1. ASSUME NEW kind \in Kinds, Submit(c, kind) PROVE RouterTypes' /\ BackendTypes'
  <2>1. /\ call' \in [Calls -> CallRecords] /\ request_queue' = Append(request_queue, c)
        /\ request_count' = request_count + 1 /\ UNCHANGED <<worker, concurrency, max_queue_length>>
        /\ SameBackends /\ SameInstances /\ SameMigration
    BY <1>1, SubmitView
  <2>2. request_queue' \in Seq(Calls)
    BY <2>1, AppendProperties DEF RouterTypes
  <2>3. RouterTypes'
    BY <2>1, <2>2 DEF RouterTypes, SameInstances, SameMigration
  <2>4. BackendTypes'
    BY <2>1 DEF BackendTypes, SameBackends
  <2>. QED
    BY <2>3, <2>4
<1>2. ASSUME Dispatch(c) PROVE RouterTypes' /\ BackendTypes'
  <2>1. /\ call' \in [Calls -> CallRecords] /\ worker' \in [Calls -> WorkerRecords]
        /\ SameBackends /\ SameInstances /\ SameMigration /\ SameCounts
    BY <1>2, DispatchView DEF Sends, Leaves
  <2>. QED
    BY <2>1 DEF RouterTypes, BackendTypes, SameBackends, SameInstances, SameMigration, SameCounts
<1>3. ASSUME Resume(c) PROVE RouterTypes' /\ BackendTypes'
  <2>1. /\ call' \in [Calls -> CallRecords] /\ worker' \in [Calls -> WorkerRecords]
        /\ SameBackends /\ SameInstances /\ SameMigration /\ SameCounts
    BY <1>3, ResumeView DEF Sends, Leaves
  <2>. QED
    BY <2>1 DEF RouterTypes, BackendTypes, SameBackends, SameInstances, SameMigration, SameCounts
<1>4. ASSUME Return(c) PROVE RouterTypes' /\ BackendTypes'
  <2>1. /\ call' \in [Calls -> CallRecords] /\ worker' \in [Calls -> WorkerRecords]
        /\ SameBackends /\ SameInstances /\ SameMigration
        /\ UNCHANGED <<request_queue, max_queue_length>>
        /\ \/ UNCHANGED <<request_count, concurrency>>
           \/ /\ request_count' = request_count - 1
              /\ concurrency' = [concurrency EXCEPT ![call[c].on] = @ - 1]
    BY <1>4, ReturnView DEF Leaves
  <2>2. request_count' \in Int /\ concurrency' \in [Backends -> Int]
    BY <2>1 DEF RouterTypes
  <2>. QED
    BY <2>1, <2>2 DEF RouterTypes, BackendTypes, SameBackends, SameInstances, SameMigration
<1>5. ASSUME Work(c) PROVE RouterTypes' /\ BackendTypes'
  <2>1. /\ shared' \subseteq Calls /\ UNCHANGED <<status, model, resumed, ending, call, migration, plans>>
        /\ SameCounts /\ SameInstances /\ WorksOn(c) /\ worker[c].on \in Backends
    BY <1>5, WorkView
  <2>2. worker' \in [Calls -> WorkerRecords]
    BY <2>1 DEF WorksOn, ChecksStatus, Fails, Encodes, Prompts, Continues, Completes,
                GivesTokens, GivesAnswer, PutsRow
  <2>3. intermediate' \in [Backends -> [flat : BOOLEAN, row : Rows]]
    <3>1. Nothing \in [flat : BOOLEAN, row : Rows]
      BY DEF Nothing, Rows
    <3>2. /\ UNCHANGED intermediate => intermediate' \in [Backends -> [flat : BOOLEAN, row : Rows]]
          /\ ClearsRow(worker[c].on) => intermediate' \in [Backends -> [flat : BOOLEAN, row : Rows]]
      BY <3>1 DEF ClearsRow, BackendTypes
    <3>. QED
      BY <2>1, <3>2 DEF WorksOn, ChecksStatus, Fails, Encodes, Prompts, Continues, Completes,
                GivesTokens, PutsRow
  <2>4. RouterTypes'
    BY <2>1 DEF RouterTypes, SameInstances, SameCounts
  <2>5. BackendTypes'
    BY <2>1, <2>2, <2>3 DEF BackendTypes
  <2>. QED
    BY <2>4, <2>5
<1>. QED
  BY <1>1, <1>2, <1>3, <1>4, <1>5

\* A backend is made anew.
LEMMA InitializedView ==
    ASSUME BackendTypes, NEW b \in Backends, Initialized(b), worker' = worker
    PROVE  /\ BackendTypes'
           /\ status'[b] = "running" /\ model'[b] = "loaded" /\ ending'[b] = "none"
           /\ intermediate'[b] = Nothing /\ resumed'[b] = None
           /\ \A o \in Backends \ {b} :
                 /\ status'[o] = status[o] /\ model'[o] = model[o] /\ ending'[o] = ending[o]
                 /\ intermediate'[o] = intermediate[o] /\ resumed'[o] = resumed[o]
<1>1. Nothing \in [flat : BOOLEAN, row : Rows]
  BY DEF Nothing, Rows
<1>2. /\ status' \in [Backends -> {"uninitialized", "running", "stopping", "deleting"}]
      /\ model' \in [Backends -> {"none", "loaded", "deleted"}]
      /\ ending' \in [Backends -> {"none", "stop", "shutdown", "done"}]
  BY DEF BackendTypes, Initialized
<1>3. /\ intermediate' \in [Backends -> [flat : BOOLEAN, row : Rows]]
      /\ resumed' \in [Backends -> [tokens : Rows, cache : Rows] \cup {None}]
  BY <1>1 DEF BackendTypes, Initialized
<1>4. BackendTypes'
  BY <1>2, <1>3 DEF BackendTypes
<1>5. /\ status'[b] = "running" /\ model'[b] = "loaded" /\ ending'[b] = "none"
      /\ intermediate'[b] = Nothing /\ resumed'[b] = None
      /\ \A o \in Backends \ {b} :
            /\ status'[o] = status[o] /\ model'[o] = model[o] /\ ending'[o] = ending[o]
            /\ intermediate'[o] = intermediate[o] /\ resumed'[o] = resumed[o]
  BY DEF BackendTypes, Initialized
<1>. QED
  BY <1>4, <1>5

\* A backend begins to end.
LEMMA EndsView ==
    ASSUME BackendTypes, NEW b \in Backends, NEW how \in {"stop", "shutdown"}, Ends(b, how)
    PROVE  /\ status' \in [Backends -> {"uninitialized", "running", "stopping", "deleting"}]
           /\ ending' \in [Backends -> {"none", "stop", "shutdown", "done"}]
           /\ status'[b] = (IF how = "stop" THEN "stopping" ELSE "deleting") /\ ending'[b] = how
           /\ \A o \in Backends \ {b} : status'[o] = status[o] /\ ending'[o] = ending[o]
BY DEF BackendTypes, Ends

\* The auto scaler creates an instance.
LEMMA CreateInstanceView ==
    ASSUME RouterTypes, NEW b \in Backends, CreateInstance(b)
    PROVE  /\ Free /\ Unused(b)
           /\ starting_instances' = starting_instances \cup {b}
           /\ max_queue_length' = [max_queue_length EXCEPT ![b] = Target]
           /\ concurrency' = [concurrency EXCEPT ![b] = 0]
           /\ migration_record' = [migration_record EXCEPT ![b] = None]
           /\ SameBackends /\ SameMigration
           /\ UNCHANGED <<worker, call, request_queue, request_count, ready_instances, alive, marked>>
BY DEF CreateInstance, Fresh, SameBackends, SameMigration, backends, requests

\* An instance is up.
LEMMA InstanceUpView ==
    ASSUME RouterTypes, NEW b \in Backends, InstanceUp(b)
    PROVE  /\ Free /\ b \in starting_instances /\ Initialized(b)
           /\ starting_instances' = starting_instances \ {b}
           /\ ready_instances' = Append(ready_instances, b)
           /\ alive' = alive \cup {b} /\ marked' = marked \cup {b}
           /\ SameCounts /\ SameMigration /\ UNCHANGED <<worker, call, migration_record>>
BY DEF InstanceUp, SameCounts, SameMigration, requests

\* The auto scaler takes an instance off the ready ones.
LEMMA StopInstanceView ==
    ASSUME RouterTypes, StopInstance
    PROVE  \E b \in Backends :
           /\ Free /\ ready_instances # <<>> /\ b = Last(ready_instances) /\ Ends(b, "stop")
           /\ ready_instances' = Front(ready_instances)
           /\ SameCounts /\ SameMigration
           /\ UNCHANGED <<model, intermediate, resumed, worker, call, starting_instances,
                          alive, marked, migration_record>>
<1>1. ready_instances \in Seq(Backends) /\ ready_instances # <<>>
  BY DEF StopInstance, RouterTypes
<1>2. PICK b \in Backends : b = Last(ready_instances)
  BY <1>1, LastOfRow
<1>. QED
  BY <1>1, <1>2 DEF StopInstance, SameCounts, SameMigration, requests

\* A backend goes on with its end.
LEMMA EndBackendView ==
    ASSUME RouterTypes, NEW b \in Backends, EndBackend(b)
    PROVE  /\ SameCounts /\ SameInstances /\ SameMigration
           /\ UNCHANGED <<intermediate, resumed, worker, call>>
           /\ intermediate[b].row = <<>>
           /\ \/ ending[b] = "stop" /\ Ends(b, "shutdown") /\ UNCHANGED model
              \/ /\ ending[b] = "shutdown" /\ UNCHANGED status
                 /\ ending' = [ending EXCEPT ![b] = "done"]
                 /\ model' = [model EXCEPT ![b] = "deleted"]
<1>1. /\ Stopped(b) \/ ShutDown(b)
      /\ SameCounts /\ SameInstances /\ SameMigration /\ UNCHANGED call
  BY DEF EndBackend, SameCounts, SameInstances, SameMigration, requests, scaling
<1>2. CASE Stopped(b)
  BY <1>1, <1>2 DEF Stopped
<1>3. CASE ShutDown(b)
  BY <1>1, <1>3 DEF ShutDown
<1>. QED
  BY <1>1, <1>2, <1>3

\* What a migration leaves to the calls and the auto scaler.
LEMMA NoMigrationView ==
    /\ NoMigration \in MigrationRecords
    /\ NoMigration.pc = "idle" /\ NoMigration.row = <<>>
BY DEF NoMigration, MigrationRecords, Rows

\* A migration begins.
LEMMA BeginMigrationView ==
    ASSUME RouterTypes, NEW b \in Backends, NEW target \in Backends, BeginMigration(b, target)
    PROVE  /\ Free /\ migration.pc = "idle" /\ b \in alive /\ b # target /\ Unused(target)
           /\ migration' \in MigrationRecords /\ migration'.pc = "starting"
           /\ migration'.source = b /\ migration'.target = target /\ migration'.row = <<>>
           /\ marked' = marked \cup {target}
           /\ max_queue_length' = [max_queue_length EXCEPT ![target] = TargetQueue]
           /\ concurrency' = [concurrency EXCEPT ![target] = 0]
           /\ migration_record' = [migration_record EXCEPT ![target] = None]
           /\ SameBackends
           /\ UNCHANGED <<worker, call, request_queue, request_count, starting_instances,
                          ready_instances, alive, shared>>
<1>1. migration' = [NoMigration EXCEPT !.pc = "starting", !.source = b, !.target = target]
  BY DEF BeginMigration
<1>2. /\ Free /\ migration.pc = "idle" /\ b \in alive /\ b # target /\ Unused(target)
      /\ marked' = marked \cup {target}
      /\ max_queue_length' = [max_queue_length EXCEPT ![target] = TargetQueue]
      /\ concurrency' = [concurrency EXCEPT ![target] = 0]
      /\ migration_record' = [migration_record EXCEPT ![target] = None]
      /\ SameBackends
      /\ UNCHANGED <<worker, call, request_queue, request_count, starting_instances,
                     ready_instances, alive, shared>>
  BY DEF BeginMigration, Fresh, SameBackends, backends, requests
<1>3. /\ migration' \in MigrationRecords /\ migration'.pc = "starting"
      /\ migration'.source = b /\ migration'.target = target /\ migration'.row = <<>>
  <2>1. migration' = [pc |-> "starting", source |-> b, target |-> target, previous |-> 0, row |-> <<>>]
    BY <1>1 DEF NoMigration
  <2>2. <<>> \in Rows
    BY DEF Rows
  <2>. QED
    BY <2>1, <2>2 DEF MigrationRecords
<1>. QED
  BY <1>2, <1>3

\* The place in the migration is another one.
Moves(pc) ==
    /\ migration' \in MigrationRecords /\ migration'.pc = pc
    /\ migration'.source = migration.source /\ migration'.target = migration.target

\* What the migration is then, and the row it has.
LEMMA MovesView ==
    ASSUME RouterTypes, NEW pc \in {"asking", "copying", "swap", "draining"},
           NEW row \in Rows, NEW previous \in Nat,
           \/ migration' = [migration EXCEPT !.pc = pc]
           \/ migration' = [migration EXCEPT !.pc = pc, !.row = row]
           \/ migration' = [migration EXCEPT !.pc = pc, !.previous = previous, !.row = row]
    PROVE  Moves(pc) /\ migration'.row \in {migration.row, row}
<1>1. migration \in MigrationRecords
  BY DEF RouterTypes
<1>2. CASE migration' = [migration EXCEPT !.pc = pc]
  BY <1>1, <1>2 DEF MigrationRecords, Moves
<1>3. CASE migration' = [migration EXCEPT !.pc = pc, !.row = row]
  BY <1>1, <1>3 DEF MigrationRecords, Moves
<1>4. CASE migration' = [migration EXCEPT !.pc = pc, !.previous = previous, !.row = row]
  BY <1>1, <1>4 DEF MigrationRecords, Moves
<1>. QED
  BY <1>2, <1>3, <1>4

\* The target of a migration is up; if the source is gone it ends.
LEMMA TargetUpView ==
    ASSUME RouterTypes, TargetUp
    PROVE  /\ migration.pc = "starting"
           /\ \/ /\ migration.source \in Ready /\ Initialized(migration.target)
                 /\ alive' = alive \cup {migration.target}
                 /\ Moves("asking") /\ migration'.row = migration.row
              \/ migration' = NoMigration /\ SameBackends /\ UNCHANGED alive
           /\ SameCounts
           /\ UNCHANGED <<worker, call, starting_instances, ready_instances, marked,
                          migration_record, shared>>
<1>1. /\ migration.pc = "starting" /\ SameCounts
      /\ UNCHANGED <<worker, call, starting_instances, ready_instances, marked,
                     migration_record, shared>>
  BY DEF TargetUp, SameCounts, requests
<1>2. CASE migration.source \in Ready
  <2>1. /\ Initialized(migration.target) /\ alive' = alive \cup {migration.target}
        /\ migration' = [migration EXCEPT !.pc = "asking"]
    BY <1>2 DEF TargetUp
  <2>2. migration.row \in Rows /\ 0 \in Nat
    BY DEF RouterTypes, MigrationRecords
  <2>3. Moves("asking") /\ migration'.row = migration.row
    BY <2>1, <2>2, MovesView
  <2>. QED
    BY <1>1, <1>2, <2>1, <2>3
<1>3. CASE migration.source \notin Ready
  BY <1>1, <1>3 DEF TargetUp, SameBackends
<1>. QED
  BY <1>2, <1>3

\* The tokens of the source.
LEMMA AskView ==
    ASSUME RouterTypes, BackendTypes, migration.source \in Backends, Ask
    PROVE  /\ migration.pc = "asking"
           /\ \/ migration' = NoMigration
              \/ Moves("swap") /\ migration'.row = migration.row
              \/ /\ Moves("copying") /\ migration'.row # <<>>
                 /\ migration'.row = intermediate[migration.source].row
                 /\ status[migration.source] = "running"
           /\ SameCounts /\ SameInstances /\ SameBackends
           /\ UNCHANGED <<worker, call, shared>>
<1> DEFINE s == CurrentTokens(migration.source)
<1>1. /\ migration.pc = "asking"
      /\ SameCounts /\ SameInstances /\ SameBackends
      /\ UNCHANGED <<worker, call, shared>>
  BY DEF Ask, SameCounts, SameInstances, SameBackends, backends, requests, scaling
<1>2. \/ migration' = NoMigration
      \/ migration' = [migration EXCEPT !.pc = "swap"]
      \/ /\ migration' = [migration EXCEPT !.pc = "copying", !.previous = Len(s.row), !.row = s.row]
         /\ s.row # <<>>
  BY DEF Ask
<1>3. CASE migration' = NoMigration
  BY <1>1, <1>3
<1>4. CASE migration' = [migration EXCEPT !.pc = "swap"]
  <2>1. migration.row \in Rows /\ 0 \in Nat
    BY DEF RouterTypes, MigrationRecords
  <2>2. Moves("swap") /\ migration'.row = migration.row
    BY <1>4, <2>1, MovesView
  <2>. QED
    BY <1>1, <2>2
<1>5. CASE /\ migration' = [migration EXCEPT !.pc = "copying", !.previous = Len(s.row), !.row = s.row]
           /\ s.row # <<>>
  <2>1. status[migration.source] = "running" /\ s = intermediate[migration.source]
    BY <1>5 DEF CurrentTokens, Nothing
  <2>2. s.row \in Rows
    BY <2>1, Fields
  <2>3. Len(s.row) \in Nat
    BY <2>2 DEF Rows
  <2>4. migration \in MigrationRecords
    BY DEF RouterTypes
  <2> HIDE DEF s
  <2>5. Moves("copying") /\ migration'.row = s.row
    BY <1>5, <2>2, <2>3, <2>4 DEF MigrationRecords, Moves
  <2>. QED
    BY <1>1, <1>5, <2>1, <2>5
<1>. QED
  BY <1>2, <1>3, <1>4, <1>5

\* The target resumes what was copied.
LEMMA CopyView ==
    ASSUME RouterTypes, BackendTypes, Copy
    PROVE  /\ migration.pc = "copying"
           /\ \/ migration' = NoMigration /\ UNCHANGED resumed
              \/ /\ Moves("asking") /\ migration'.row \in {migration.row, <<>>}
                 /\ resumed' = [resumed EXCEPT ![migration.target] =
                                     Resumed(migration.target, migration.row)]
           /\ SameCounts /\ SameInstances
           /\ UNCHANGED <<status, model, intermediate, ending, worker, call, shared>>
<1>1. /\ migration.pc = "copying"
      /\ SameCounts /\ SameInstances
      /\ UNCHANGED <<status, model, intermediate, ending, worker, call, shared>>
  BY DEF Copy, SameCounts, SameInstances, requests, scaling
<1>2. \/ migration' = NoMigration /\ UNCHANGED resumed
      \/ /\ migration' = [migration EXCEPT !.pc = "asking", !.row = <<>>]
         /\ resumed' = [resumed EXCEPT ![migration.target] =
                                     Resumed(migration.target, migration.row)]
  BY DEF Copy
<1>3. ASSUME migration' = [migration EXCEPT !.pc = "asking", !.row = <<>>]
      PROVE  Moves("asking") /\ migration'.row \in {migration.row, <<>>}
  <2>1. <<>> \in Rows /\ 0 \in Nat
    BY DEF Rows
  <2>. QED
    BY <1>3, <2>1, MovesView
<1>. QED
  BY <1>1, <1>2, <1>3

\* The target takes the place of the source, or is given up.
LEMMA SwapView ==
    ASSUME RouterTypes, BackendTypes, IsInjective(ready_instances), Swap,
           migration.source \in Backends, migration.target \in Backends
    PROVE  LET source == migration.source
               target == migration.target
           IN
           /\ migration.pc = "swap"
           /\ \/ /\ source \in Ready /\ ready_instances' \in Seq(Backends)
                 /\ Ready' = (Ready \ {source}) \cup {target}
                 /\ target \notin Ready => IsInjective(ready_instances')
                 /\ migration_record' = [migration_record EXCEPT ![source] = target]
                 /\ Moves("draining") /\ migration'.row = migration.row
                 /\ Ends(source, "shutdown") /\ UNCHANGED <<model, alive>>
              \/ /\ migration' = NoMigration /\ alive' = alive \ {target}
                 /\ model' = [model EXCEPT ![target] = "deleted"]
                 /\ status' = [status EXCEPT ![target] = "deleting"]
                 /\ UNCHANGED <<ready_instances, migration_record, ending>>
           /\ SameCounts
           /\ UNCHANGED <<intermediate, resumed, worker, call, starting_instances, marked, shared>>
<1> DEFINE source == migration.source
           target == migration.target
<1>1. /\ migration.pc = "swap" /\ SameCounts
      /\ UNCHANGED <<intermediate, resumed, worker, call, starting_instances, marked, shared>>
  BY DEF Swap, SameCounts, requests
<1>2. CASE source \in Ready
  <2>1. /\ ready_instances' = Append(RemoveAt(ready_instances, Position(source)), target)
        /\ migration_record' = [migration_record EXCEPT ![source] = target]
        /\ migration' = [migration EXCEPT !.pc = "draining"]
        /\ Ends(source, "shutdown") /\ UNCHANGED <<model, alive>>
    BY <1>2 DEF Swap
  <2>2. ready_instances \in Seq(Backends)
    BY DEF RouterTypes
  <2>3. PICK i : i = Position(source)
    OBVIOUS
  <2>4. i \in DOMAIN ready_instances /\ ready_instances[i] = source
    <3>1. \E k \in 1 .. Len(ready_instances) : ready_instances[k] = source
      BY <1>2, <2>2, ToSetMember DEF Ready
    <3>2. DOMAIN ready_instances = 1 .. Len(ready_instances)
      BY <2>2
    <3>. QED
      BY <2>3, <3>1, <3>2 DEF Position
  <2>5. PICK rest : rest = RemoveAt(ready_instances, i)
    OBVIOUS
  <2>6. rest \in Seq(Backends) /\ IsInjective(rest) /\ ToSet(rest) = Ready \ {source}
    BY <2>2, <2>4, <2>5, RemoveAtElements DEF Ready
  <2>7. ready_instances' = Append(rest, target)
    BY <2>1, <2>3, <2>5
  <2>8. /\ ready_instances' \in Seq(Backends)
        /\ Ready' = (Ready \ {source}) \cup {target}
        /\ target \notin Ready => IsInjective(ready_instances')
    BY <2>6, <2>7, AppendElements DEF Ready
  <2>9. migration.row \in Rows /\ 0 \in Nat
    BY DEF RouterTypes, MigrationRecords
  <2>10. Moves("draining") /\ migration'.row = migration.row
    BY <2>1, <2>9, MovesView
  <2>. QED
    BY <1>1, <1>2, <2>1, <2>8, <2>10
<1>3. CASE source \notin Ready
  BY <1>1, <1>3 DEF Swap
<1>. QED
  BY <1>2, <1>3

\* The actions of instances.
InstanceAction(b) ==
    \/ Assign(b) \/ CreateInstance(b) \/ InstanceUp(b) \/ FinishInstance(b) \/ EndBackend(b)
    \/ \E target \in Backends : BeginMigration(b, target)

\* They keep the types, of the router and of the backends.
LEMMA InstanceTypes ==
    ASSUME RouterTypes, BackendTypes, NEW b \in Backends, InstanceAction(b)
    PROVE  RouterTypes' /\ BackendTypes'
<1>1. ASSUME Assign(b) PROVE RouterTypes' /\ BackendTypes'
  <2>1. /\ call' \in [Calls -> CallRecords] /\ request_queue # <<>>
        /\ request_queue' = Tail(request_queue)
        /\ concurrency' = [concurrency EXCEPT ![b] = @ + 1]
        /\ SameBackends /\ SameInstances /\ SameMigration
        /\ UNCHANGED <<worker, request_count, max_queue_length>>
    BY <1>1, AssignView
  <2>2. request_queue' \in Seq(Calls)
    BY <2>1, HeadTailProperties DEF RouterTypes
  <2>3. RouterTypes'
    BY <2>1, <2>2 DEF RouterTypes, SameInstances, SameMigration
  <2>4. BackendTypes'
    BY <2>1 DEF BackendTypes, SameBackends
  <2>. QED
    BY <2>3, <2>4
<1>2. ASSUME CreateInstance(b) PROVE RouterTypes' /\ BackendTypes'
  <2>1. /\ starting_instances' = starting_instances \cup {b}
        /\ max_queue_length' = [max_queue_length EXCEPT ![b] = Target]
        /\ concurrency' = [concurrency EXCEPT ![b] = 0]
        /\ migration_record' = [migration_record EXCEPT ![b] = None]
        /\ SameBackends /\ SameMigration
        /\ UNCHANGED <<worker, call, request_queue, request_count, ready_instances, alive, marked>>
    BY <1>2, CreateInstanceView
  <2>2. Target \in Nat
    BY RouterAssumption
  <2>3. /\ max_queue_length' \in [Backends -> Nat] /\ concurrency' \in [Backends -> Int]
        /\ migration_record' \in [Backends -> Backends \cup {None}]
    BY <2>1, <2>2 DEF RouterTypes
  <2>4. RouterTypes'
    BY <2>1, <2>3 DEF RouterTypes, SameMigration
  <2>5. BackendTypes'
    BY <2>1 DEF BackendTypes, SameBackends
  <2>. QED
    BY <2>4, <2>5
<1>3. ASSUME InstanceUp(b) PROVE RouterTypes' /\ BackendTypes'
  <2>1. /\ Initialized(b)
        /\ starting_instances' = starting_instances \ {b}
        /\ ready_instances' = Append(ready_instances, b)
        /\ alive' = alive \cup {b} /\ marked' = marked \cup {b}
        /\ SameCounts /\ SameMigration /\ UNCHANGED <<worker, call, migration_record>>
    BY <1>3, InstanceUpView
  <2>2. ready_instances' \in Seq(Backends)
    BY <2>1, AppendProperties DEF RouterTypes
  <2>3. RouterTypes'
    BY <2>1, <2>2 DEF RouterTypes, SameCounts, SameMigration
  <2>4. BackendTypes'
    BY <2>1, InitializedView
  <2>. QED
    BY <2>3, <2>4
<1>4. ASSUME FinishInstance(b) PROVE RouterTypes' /\ BackendTypes'
  <2>1. Kill(b) /\ UNCHANGED migration
    BY <1>4 DEF FinishInstance
  <2>2. /\ worker' \in [Calls -> WorkerRecords]
        /\ alive' = alive \ {b} /\ marked' = marked \ {b}
        /\ SameBackends /\ SameCounts
        /\ UNCHANGED <<call, starting_instances, ready_instances, migration_record, plans, shared>>
    BY <2>1, KillView
  <2>. QED
    BY <2>1, <2>2 DEF RouterTypes, BackendTypes, SameBackends, SameCounts
<1>5. ASSUME EndBackend(b) PROVE RouterTypes' /\ BackendTypes'
  <2>1. /\ SameCounts /\ SameInstances /\ SameMigration
        /\ UNCHANGED <<intermediate, resumed, worker, call>>
        /\ \/ Ends(b, "shutdown") /\ UNCHANGED model
           \/ /\ UNCHANGED status
              /\ ending' = [ending EXCEPT ![b] = "done"]
              /\ model' = [model EXCEPT ![b] = "deleted"]
    BY <1>5, EndBackendView
  <2>2. RouterTypes'
    BY <2>1 DEF RouterTypes, SameCounts, SameInstances, SameMigration
  <2>3. /\ status' \in [Backends -> {"uninitialized", "running", "stopping", "deleting"}]
        /\ model' \in [Backends -> {"none", "loaded", "deleted"}]
        /\ ending' \in [Backends -> {"none", "stop", "shutdown", "done"}]
    <3>1. CASE Ends(b, "shutdown") /\ UNCHANGED model
      BY <3>1, EndsView DEF BackendTypes
    <3>2. CASE /\ UNCHANGED status
               /\ ending' = [ending EXCEPT ![b] = "done"]
               /\ model' = [model EXCEPT ![b] = "deleted"]
      BY <3>2 DEF BackendTypes
    <3>. QED
      BY <2>1, <3>1, <3>2
  <2>4. BackendTypes'
    BY <2>1, <2>3 DEF BackendTypes
  <2>. QED
    BY <2>2, <2>4
<1>6. ASSUME NEW target \in Backends, BeginMigration(b, target) PROVE RouterTypes' /\ BackendTypes'
  <2>1. /\ migration' \in MigrationRecords
        /\ marked' = marked \cup {target}
        /\ max_queue_length' = [max_queue_length EXCEPT ![target] = TargetQueue]
        /\ concurrency' = [concurrency EXCEPT ![target] = 0]
        /\ migration_record' = [migration_record EXCEPT ![target] = None]
        /\ SameBackends
        /\ UNCHANGED <<worker, call, request_queue, request_count, starting_instances,
                       ready_instances, alive, shared>>
    BY <1>6, BeginMigrationView
  <2>2. TargetQueue \in Nat
    BY RouterAssumption
  <2>3. /\ max_queue_length' \in [Backends -> Nat] /\ concurrency' \in [Backends -> Int]
        /\ migration_record' \in [Backends -> Backends \cup {None}]
    BY <2>1, <2>2 DEF RouterTypes
  <2>4. RouterTypes'
    BY <2>1, <2>3 DEF RouterTypes
  <2>5. BackendTypes'
    BY <2>1 DEF BackendTypes, SameBackends
  <2>. QED
    BY <2>4, <2>5
<1>. QED
  BY <1>1, <1>2, <1>3, <1>4, <1>5, <1>6 DEF InstanceAction

\* The auto scaler stops an instance, or the migration goes on.
MigrationAction == StopInstance \/ TargetUp \/ Ask \/ Copy \/ Swap \/ EndMigration

\* So do the actions of the migration.
LEMMA MigrationTypes ==
    ASSUME RouterTypes, BackendTypes, InstancesStand, CopyHasRow, MigrationAction
    PROVE  RouterTypes' /\ BackendTypes'
<1>0. /\ migration.pc # "idle" => migration.source \in Backends /\ migration.target \in Backends
      /\ IsInjective(ready_instances)
      /\ NoMigration \in MigrationRecords
  BY NoMigrationView DEF InstancesStand, TargetStands, ReadyIsRunning
<1>1. ASSUME StopInstance PROVE RouterTypes' /\ BackendTypes'
  <2>1. PICK b \in Backends :
           /\ ready_instances # <<>> /\ b = Last(ready_instances) /\ Ends(b, "stop")
           /\ ready_instances' = Front(ready_instances)
           /\ SameCounts /\ SameMigration
           /\ UNCHANGED <<model, intermediate, resumed, worker, call, starting_instances,
                          alive, marked, migration_record>>
    BY <1>1, StopInstanceView
  <2>2. ready_instances' \in Seq(Backends)
    BY <1>0, <2>1, FrontElements DEF RouterTypes
  <2>3. RouterTypes'
    BY <2>1, <2>2 DEF RouterTypes, SameCounts, SameMigration
  <2>4. BackendTypes'
    BY <2>1, EndsView DEF BackendTypes
  <2>. QED
    BY <2>3, <2>4
<1>2. ASSUME TargetUp PROVE RouterTypes' /\ BackendTypes'
  <2>1. /\ migration.pc = "starting"
        /\ \/ /\ Initialized(migration.target)
              /\ alive' = alive \cup {migration.target} /\ Moves("asking")
           \/ migration' = NoMigration /\ SameBackends /\ UNCHANGED alive
        /\ SameCounts
        /\ UNCHANGED <<worker, call, starting_instances, ready_instances, marked,
                       migration_record, shared>>
    BY <1>2, TargetUpView
  <2>2. PICK target \in Backends : target = migration.target
    BY <1>0, <2>1
  <2>3. CASE /\ Initialized(migration.target)
             /\ alive' = alive \cup {migration.target} /\ Moves("asking")
    <3>1. Initialized(target) /\ worker' = worker
      BY <2>1, <2>2, <2>3
    <3>2. BackendTypes'
      BY <3>1, InitializedView
    <3>. QED
      BY <2>1, <2>2, <2>3, <3>2 DEF RouterTypes, SameCounts, Moves
  <2>4. CASE migration' = NoMigration /\ SameBackends /\ UNCHANGED alive
    BY <1>0, <2>1, <2>4 DEF RouterTypes, BackendTypes, SameBackends, SameCounts
  <2>. QED
    BY <2>1, <2>3, <2>4
<1>3. ASSUME Ask PROVE RouterTypes' /\ BackendTypes'
  <2>1. migration.source \in Backends
    BY <1>0, <1>3 DEF Ask
  <2>2. /\ migration' \in MigrationRecords
        /\ SameCounts /\ SameInstances /\ SameBackends /\ UNCHANGED <<worker, call, shared>>
    BY <1>0, <1>3, <2>1, AskView DEF Moves
  <2>. QED
    BY <2>2 DEF RouterTypes, BackendTypes, SameCounts, SameInstances, SameBackends
<1>4. ASSUME Copy PROVE RouterTypes' /\ BackendTypes'
  <2>1. /\ migration.pc = "copying" /\ SameCounts /\ SameInstances
        /\ UNCHANGED <<status, model, intermediate, ending, worker, call, shared>>
        /\ migration' \in MigrationRecords
        /\ \/ UNCHANGED resumed
           \/ resumed' = [resumed EXCEPT ![migration.target] =
                                     Resumed(migration.target, migration.row)]
    BY <1>0, <1>4, CopyView DEF Moves
  <2>2. migration.target \in Backends /\ migration.row \in Rows /\ migration.row # <<>>
    BY <1>0, <2>1, Fields DEF CopyHasRow
  <2>3. Resumed(migration.target, migration.row) \in [tokens : Rows, cache : Rows]
    BY <2>2, ResumedRow
  <2>4. resumed' \in [Backends -> [tokens : Rows, cache : Rows] \cup {None}]
    BY <2>1, <2>3 DEF BackendTypes
  <2>. QED
    BY <2>1, <2>4 DEF RouterTypes, BackendTypes, SameCounts, SameInstances
<1>5. ASSUME Swap PROVE RouterTypes' /\ BackendTypes'
  <2>1. migration.source \in Backends /\ migration.target \in Backends
    BY <1>0, <1>5 DEF Swap
  <2>2. /\ \/ /\ ready_instances' \in Seq(Backends)
              /\ migration_record' = [migration_record EXCEPT ![migration.source] = migration.target]
              /\ Moves("draining")
              /\ Ends(migration.source, "shutdown") /\ UNCHANGED <<model, alive>>
           \/ /\ migration' = NoMigration /\ alive' = alive \ {migration.target}
              /\ model' = [model EXCEPT ![migration.target] = "deleted"]
              /\ status' = [status EXCEPT ![migration.target] = "deleting"]
              /\ UNCHANGED <<ready_instances, migration_record, ending>>
        /\ SameCounts
        /\ UNCHANGED <<intermediate, resumed, worker, call, starting_instances, marked, shared>>
    BY <1>0, <1>5, <2>1, SwapView
  <2>3. CASE /\ ready_instances' \in Seq(Backends)
             /\ migration_record' = [migration_record EXCEPT ![migration.source] = migration.target]
             /\ Moves("draining")
             /\ Ends(migration.source, "shutdown") /\ UNCHANGED <<model, alive>>
    <3>1. migration_record' \in [Backends -> Backends \cup {None}]
      BY <2>1, <2>3 DEF RouterTypes
    <3>2. RouterTypes'
      BY <2>2, <2>3, <3>1 DEF RouterTypes, SameCounts, Moves
    <3>3. PICK source \in Backends : source = migration.source
      BY <2>1
    <3>4. Ends(source, "shutdown")
      BY <2>3, <3>3
    <3>5. BackendTypes'
      BY <2>2, <2>3, <3>4, EndsView DEF BackendTypes
    <3>. QED
      BY <3>2, <3>5
  <2>4. CASE /\ migration' = NoMigration /\ alive' = alive \ {migration.target}
             /\ model' = [model EXCEPT ![migration.target] = "deleted"]
             /\ status' = [status EXCEPT ![migration.target] = "deleting"]
             /\ UNCHANGED <<ready_instances, migration_record, ending>>
    <3>1. RouterTypes'
      BY <1>0, <2>2, <2>4 DEF RouterTypes, SameCounts
    <3>2. BackendTypes'
      BY <2>2, <2>4 DEF BackendTypes
    <3>. QED
      BY <3>1, <3>2
  <2>. QED
    BY <2>2, <2>3, <2>4
<1>6. ASSUME EndMigration PROVE RouterTypes' /\ BackendTypes'
  <2>1. Kill(migration.source) /\ migration' = NoMigration
    BY <1>6 DEF EndMigration
  <2>2. PICK b : b = migration.source
    OBVIOUS
  <2>3. /\ worker' \in [Calls -> WorkerRecords]
        /\ alive' = alive \ {b} /\ marked' = marked \ {b}
        /\ SameBackends /\ SameCounts
        /\ UNCHANGED <<call, starting_instances, ready_instances, migration_record, plans, shared>>
    BY <2>1, <2>2, KillView
  <2>. QED
    BY <1>0, <2>1, <2>3 DEF RouterTypes, BackendTypes, SameBackends, SameCounts
<1>. QED
  BY <1>1, <1>2, <1>3, <1>4, <1>5, <1>6 DEF MigrationAction

(***************************************************************************)
(* Instances                                                               *)
(***************************************************************************)

\* What does not touch instances leaves them standing.
LEMMA InstancesFrame ==
    ASSUME InstancesStand, SameInstances, UNCHANGED <<status, model, ending, migration>>
    PROVE  InstancesStand'
BY DEF InstancesStand, ReadyIsRunning, TargetStands, SameInstances, Ready, Building, Built

\* The parts of the invariant, and that ready instances are instances.
LEMMA Standing ==
    ASSUME RouterTypes, InstancesStand
    PROVE  /\ Ready \subseteq Backends /\ Ready \subseteq alive /\ alive \subseteq marked
           /\ IsInjective(ready_instances)
           /\ \A b \in Ready : status[b] = "running" /\ model[b] = "loaded" /\ ending[b] = "none"
           /\ starting_instances \cap alive = {} /\ starting_instances \cap Ready = {}
           /\ \A b \in Ready \cup starting_instances : migration_record[b] = None
           /\ TargetStands
<1>1. Ready \subseteq Backends
  BY ToSetMember DEF Ready, RouterTypes
<1>. QED
  BY <1>1 DEF InstancesStand, ReadyIsRunning

\* A new instance is starting, and nothing else.
LEMMA CreateInstanceStands ==
    ASSUME RouterTypes, BackendTypes, InstancesStand, NEW b \in Backends, CreateInstance(b)
    PROVE  InstancesStand'
<1>1. /\ Unused(b) /\ starting_instances' = starting_instances \cup {b}
      /\ migration_record' = [migration_record EXCEPT ![b] = None]
      /\ SameBackends /\ SameMigration
      /\ UNCHANGED <<worker, call, request_queue, request_count, ready_instances, alive, marked>>
  BY CreateInstanceView
<1>2. b \notin alive \cup Ready /\ b # migration.target
  BY <1>1 DEF Unused
<1>3. /\ starting_instances \cap alive = {}
      /\ \A o \in Ready \cup starting_instances : migration_record[o] = None
      /\ ReadyIsRunning /\ TargetStands
  BY DEF InstancesStand
<1>4. \A o \in Backends : migration_record'[o] = IF o = b THEN None ELSE migration_record[o]
  BY <1>1 DEF RouterTypes
<1>5. Ready' = Ready /\ Ready \subseteq Backends /\ starting_instances \subseteq Backends
  BY <1>1, Standing DEF Ready, RouterTypes
<1>6. ReadyIsRunning'
  BY <1>1, <1>3, <1>5 DEF ReadyIsRunning, SameBackends
<1>7. starting_instances' \cap alive' = {}
  BY <1>1, <1>2, <1>3
<1>8. \A o \in Ready' \cup starting_instances' : migration_record'[o] = None
  BY <1>1, <1>3, <1>4, <1>5
<1>9. TargetStands'
  <2>1. migration' = migration
    BY <1>1 DEF SameMigration
  <2>. QED
    BY <1>1, <1>2, <1>3, <1>4, <1>5, <2>1 DEF TargetStands, SameBackends, Building, Built
<1>. QED
  BY <1>6, <1>7, <1>8, <1>9 DEF InstancesStand

\* An instance that comes up goes from the starting to the ready ones.
LEMMA InstanceUpStands ==
    ASSUME RouterTypes, BackendTypes, InstancesStand, NEW b \in Backends, InstanceUp(b)
    PROVE  InstancesStand'
<1>1. /\ Free /\ b \in starting_instances /\ Initialized(b)
      /\ starting_instances' = starting_instances \ {b}
      /\ ready_instances' = Append(ready_instances, b)
      /\ alive' = alive \cup {b} /\ marked' = marked \cup {b}
      /\ SameCounts /\ SameMigration /\ UNCHANGED <<worker, call, migration_record>>
  BY InstanceUpView
<1>2. /\ Ready \subseteq Backends /\ Ready \subseteq alive /\ alive \subseteq marked
      /\ IsInjective(ready_instances)
      /\ \A o \in Ready : status[o] = "running" /\ model[o] = "loaded" /\ ending[o] = "none"
      /\ starting_instances \cap alive = {} /\ starting_instances \cap Ready = {}
      /\ \A o \in Ready \cup starting_instances : migration_record[o] = None
      /\ TargetStands
  BY Standing
<1>3. b \notin Ready
  BY <1>1, <1>2
<1>4. Ready' = Ready \cup {b} /\ IsInjective(ready_instances')
  <2>1. ready_instances \in Seq(Backends)
    BY DEF RouterTypes
  <2>. QED
    BY <1>1, <1>2, <1>3, <2>1, AppendElements DEF Ready
<1>5. /\ status'[b] = "running" /\ model'[b] = "loaded" /\ ending'[b] = "none"
      /\ \A o \in Backends \ {b} :
            status'[o] = status[o] /\ model'[o] = model[o] /\ ending'[o] = ending[o]
  BY <1>1, InitializedView
<1>6. ReadyIsRunning'
  BY <1>1, <1>2, <1>4, <1>5 DEF ReadyIsRunning
<1>7. starting_instances' \cap alive' = {}
  BY <1>1, <1>2
<1>8. \A o \in Ready' \cup starting_instances' : migration_record'[o] = None
  BY <1>1, <1>2, <1>4
<1>9. TargetStands'
  <2>1. migration' = migration
    BY <1>1 DEF SameMigration
  <2>2. Building => migration.target # b
    BY <1>1, <1>2 DEF TargetStands
  <2>3. Built => Building
    BY DEF Built, Building
  <2>4. Built => migration.target \in Backends
    BY <1>2 DEF TargetStands, Built
  <2>. QED
    BY <1>1, <1>2, <1>4, <1>5, <2>1, <2>2, <2>3, <2>4 DEF TargetStands, Building, Built
<1>. QED
  BY <1>6, <1>7, <1>8, <1>9 DEF InstancesStand

\* A killed actor was no ready instance and no target that is up.
LEMMA KillStands ==
    ASSUME RouterTypes, BackendTypes, InstancesStand, NEW b, Kill(b),
           migration' \in {migration, NoMigration}
    PROVE  InstancesStand'
<1>1. /\ ending[b] = "done" /\ b \in alive
      /\ alive' = alive \ {b} /\ marked' = marked \ {b}
      /\ SameBackends /\ SameCounts
      /\ UNCHANGED <<call, starting_instances, ready_instances, migration_record, plans, shared>>
  BY KillView
<1>2. /\ Ready \subseteq Backends /\ Ready \subseteq alive /\ alive \subseteq marked
      /\ IsInjective(ready_instances)
      /\ \A o \in Ready : status[o] = "running" /\ model[o] = "loaded" /\ ending[o] = "none"
      /\ starting_instances \cap alive = {} /\ starting_instances \cap Ready = {}
      /\ \A o \in Ready \cup starting_instances : migration_record[o] = None
      /\ TargetStands
  BY Standing
<1>3. Ready' = Ready /\ b \notin Ready
  BY <1>1, <1>2 DEF Ready
<1>4. ReadyIsRunning'
  BY <1>1, <1>2, <1>3 DEF ReadyIsRunning, SameBackends
<1>5. starting_instances' \cap alive' = {}
  BY <1>1, <1>2
<1>6. \A o \in Ready' \cup starting_instances' : migration_record'[o] = None
  BY <1>1, <1>2, <1>3
<1>7. TargetStands'
  <2>1. CASE migration' = NoMigration
    BY <2>1, NoMigrationView DEF TargetStands, Building, Built
  <2>2. CASE migration' = migration
    <3>1. Building => migration.target # b
      BY <1>1, <1>2 DEF TargetStands, Building, Built
    <3>. QED
      BY <1>1, <1>2, <1>3, <2>2, <3>1 DEF TargetStands, Building, Built, SameBackends
  <2>. QED
    BY <2>1, <2>2
<1>. QED
  BY <1>4, <1>5, <1>6, <1>7 DEF InstancesStand

\* Only a backend that is ending goes on with its end.
LEMMA EndBackendStands ==
    ASSUME RouterTypes, BackendTypes, InstancesStand, NEW b \in Backends, EndBackend(b)
    PROVE  InstancesStand'
<1>1. /\ SameCounts /\ SameInstances /\ SameMigration
      /\ UNCHANGED <<intermediate, resumed, worker, call>>
      /\ \/ ending[b] = "stop" /\ Ends(b, "shutdown") /\ UNCHANGED model
         \/ /\ ending[b] = "shutdown" /\ UNCHANGED status
            /\ ending' = [ending EXCEPT ![b] = "done"]
            /\ model' = [model EXCEPT ![b] = "deleted"]
  BY EndBackendView
<1>2. ending[b] # "none"
  BY <1>1
<1>3. \A o \in Backends \ {b} :
         status'[o] = status[o] /\ model'[o] = model[o] /\ ending'[o] = ending[o]
  <2>1. CASE Ends(b, "shutdown") /\ UNCHANGED model
    BY <2>1, EndsView
  <2>2. CASE /\ UNCHANGED status
             /\ ending' = [ending EXCEPT ![b] = "done"]
             /\ model' = [model EXCEPT ![b] = "deleted"]
    BY <2>2 DEF BackendTypes
  <2>. QED
    BY <1>1, <2>1, <2>2
<1>4. /\ Ready \subseteq Backends /\ ReadyIsRunning /\ TargetStands
      /\ starting_instances \cap alive = {}
      /\ \A o \in Ready \cup starting_instances : migration_record[o] = None
  BY Standing DEF InstancesStand
<1>5. Ready' = Ready /\ b \notin Ready
  BY <1>1, <1>2, <1>4 DEF Ready, ReadyIsRunning, SameInstances
<1>6. ReadyIsRunning'
  BY <1>1, <1>3, <1>4, <1>5 DEF ReadyIsRunning, SameInstances
<1>7. /\ starting_instances' \cap alive' = {}
      /\ \A o \in Ready' \cup starting_instances' : migration_record'[o] = None
  BY <1>1, <1>4, <1>5 DEF SameInstances
<1>8. TargetStands'
  <2>1. migration' = migration
    BY <1>1 DEF SameMigration
  <2>2. Built => migration.target # b /\ migration.target \in Backends
    BY <1>2, <1>4 DEF TargetStands, Built
  <2>. QED
    BY <1>1, <1>3, <1>4, <1>5, <2>1, <2>2 DEF TargetStands, Building, Built, SameInstances
<1>. QED
  BY <1>6, <1>7, <1>8 DEF InstancesStand

\* The target of a migration is neither starting nor ready, and marked.
LEMMA BeginMigrationStands ==
    ASSUME RouterTypes, BackendTypes, InstancesStand, NEW b \in Backends, NEW target \in Backends,
           BeginMigration(b, target)
    PROVE  InstancesStand'
<1>1. /\ b \in alive /\ b # target /\ Unused(target)
      /\ migration'.pc = "starting" /\ migration'.source = b /\ migration'.target = target
      /\ marked' = marked \cup {target}
      /\ migration_record' = [migration_record EXCEPT ![target] = None]
      /\ SameBackends
      /\ UNCHANGED <<worker, call, starting_instances, ready_instances, alive, shared>>
  BY BeginMigrationView
<1>2. target \notin starting_instances \cup Ready \cup alive
  BY <1>1 DEF Unused
<1>3. /\ Ready \subseteq Backends /\ ReadyIsRunning
      /\ starting_instances \cap alive = {}
      /\ \A o \in Ready \cup starting_instances : migration_record[o] = None
  BY Standing DEF InstancesStand
<1>4. Ready' = Ready /\ starting_instances \subseteq Backends
  BY <1>1 DEF Ready, RouterTypes
<1>5. \A o \in Backends : migration_record'[o] = IF o = target THEN None ELSE migration_record[o]
  BY <1>1 DEF RouterTypes
<1>6. ReadyIsRunning'
  BY <1>1, <1>3, <1>4 DEF ReadyIsRunning, SameBackends
<1>7. /\ starting_instances' \cap alive' = {}
      /\ \A o \in Ready' \cup starting_instances' : migration_record'[o] = None
  BY <1>1, <1>3, <1>4, <1>5
<1>8. TargetStands'
  BY <1>1, <1>2, <1>4, <1>5 DEF TargetStands, Building, Built
<1>. QED
  BY <1>6, <1>7, <1>8 DEF InstancesStand

\* The auto scaler stops no source whose tokens are asked for, as it waits
\* for the event loop.
LEMMA StopInstanceStands ==
    ASSUME RouterTypes, BackendTypes, InstancesStand, StopInstance
    PROVE  InstancesStand'
<1>1. PICK b \in Backends :
         /\ Free /\ ready_instances # <<>> /\ b = Last(ready_instances) /\ Ends(b, "stop")
         /\ ready_instances' = Front(ready_instances)
         /\ SameCounts /\ SameMigration
         /\ UNCHANGED <<model, intermediate, resumed, worker, call, starting_instances,
                        alive, marked, migration_record>>
  BY StopInstanceView
<1>2. /\ Ready \subseteq Backends /\ Ready \subseteq alive /\ alive \subseteq marked
      /\ IsInjective(ready_instances)
      /\ \A o \in Ready : status[o] = "running" /\ model[o] = "loaded" /\ ending[o] = "none"
      /\ starting_instances \cap alive = {}
      /\ \A o \in Ready \cup starting_instances : migration_record[o] = None
      /\ TargetStands
  BY Standing
<1>3. b \in Ready /\ Ready' = Ready \ {b} /\ IsInjective(ready_instances')
  <2>1. ready_instances \in Seq(Backends)
    BY DEF RouterTypes
  <2>. QED
    BY <1>1, <1>2, <2>1, FrontElements DEF Ready
<1>4. \A o \in Backends \ {b} : status'[o] = status[o] /\ ending'[o] = ending[o]
  BY <1>1, EndsView
<1>5. ReadyIsRunning'
  BY <1>1, <1>2, <1>3, <1>4 DEF ReadyIsRunning
<1>6. /\ starting_instances' \cap alive' = {}
      /\ \A o \in Ready' \cup starting_instances' : migration_record'[o] = None
  BY <1>1, <1>2, <1>3
<1>7. TargetStands'
  <2>1. migration' = migration
    BY <1>1 DEF SameMigration
  <2>2. migration.pc \notin {"asking", "copying"}
    BY <1>1 DEF Free
  <2>3. Built => migration.target # b /\ migration.target \in Backends
    BY <1>2, <1>3 DEF TargetStands, Built, Building
  <2>. QED
    BY <1>1, <1>2, <1>3, <1>4, <2>1, <2>2, <2>3 DEF TargetStands, Building, Built
<1>. QED
  BY <1>5, <1>6, <1>7 DEF InstancesStand

\* The target runs when its source is asked, which is still ready.
LEMMA TargetUpStands ==
    ASSUME RouterTypes, BackendTypes, InstancesStand, TargetUp
    PROVE  InstancesStand'
<1>1. /\ migration.pc = "starting"
      /\ \/ /\ migration.source \in Ready /\ Initialized(migration.target)
            /\ alive' = alive \cup {migration.target}
            /\ Moves("asking") /\ migration'.row = migration.row
         \/ migration' = NoMigration /\ SameBackends /\ UNCHANGED alive
      /\ UNCHANGED <<worker, call, starting_instances, ready_instances, marked,
                     migration_record, shared>>
  BY TargetUpView
<1>2. /\ Ready \subseteq Backends /\ Ready \subseteq alive /\ alive \subseteq marked
      /\ IsInjective(ready_instances) /\ ReadyIsRunning
      /\ \A o \in Ready : status[o] = "running" /\ model[o] = "loaded" /\ ending[o] = "none"
      /\ starting_instances \cap alive = {}
      /\ \A o \in Ready \cup starting_instances : migration_record[o] = None
      /\ TargetStands
  BY Standing DEF InstancesStand
<1>3. Ready' = Ready
  BY <1>1 DEF Ready
<1>4. \A o \in Ready' \cup starting_instances' : migration_record'[o] = None
  BY <1>1, <1>2, <1>3
<1>5. CASE migration' = NoMigration /\ SameBackends /\ UNCHANGED alive
  <2>1. TargetStands'
    BY <1>5, NoMigrationView DEF TargetStands, Building, Built
  <2>2. ReadyIsRunning' /\ starting_instances' \cap alive' = {}
    BY <1>1, <1>2, <1>3, <1>5 DEF ReadyIsRunning, SameBackends
  <2>. QED
    BY <1>4, <2>1, <2>2 DEF InstancesStand
<1>6. CASE /\ migration.source \in Ready /\ Initialized(migration.target)
           /\ alive' = alive \cup {migration.target} /\ Moves("asking")
  <2>1. PICK t \in Backends : t = migration.target
    BY <1>1, <1>2 DEF TargetStands
  <2>2. /\ t \notin Ready /\ t \notin starting_instances /\ t \in marked
        /\ migration_record[t] = None /\ migration.source # t /\ migration.source \in Backends
    BY <1>1, <1>2, <2>1 DEF TargetStands, Building
  <2>3. /\ status'[t] = "running" /\ model'[t] = "loaded" /\ ending'[t] = "none"
        /\ \A o \in Backends \ {t} :
              status'[o] = status[o] /\ model'[o] = model[o] /\ ending'[o] = ending[o]
    BY <1>1, <1>6, <2>1, InitializedView
  <2>4. migration'.pc = "asking" /\ migration'.source = migration.source /\ migration'.target = t
    BY <1>6, <2>1 DEF Moves
  <2>5. ReadyIsRunning' /\ starting_instances' \cap alive' = {}
    BY <1>1, <1>2, <1>3, <1>6, <2>1, <2>2, <2>3 DEF ReadyIsRunning
  <2>6. TargetStands'
    BY <1>1, <1>3, <1>6, <2>1, <2>2, <2>3, <2>4 DEF TargetStands, Building, Built
  <2>. QED
    BY <1>4, <2>5, <2>6 DEF InstancesStand
<1>. QED
  BY <1>1, <1>5, <1>6

\* Asking and copying change nothing but where the migration is.
LEMMA RoundStands ==
    ASSUME RouterTypes, BackendTypes, InstancesStand, Ask \/ Copy
    PROVE  InstancesStand'
<1>1. /\ migration.pc \in {"asking", "copying"}
      /\ \/ migration' = NoMigration
         \/ \E pc \in {"asking", "copying", "swap"} : Moves(pc)
      /\ SameInstances /\ UNCHANGED <<status, model, ending>>
  <2>1. CASE Ask
    <3>1. migration.source \in Backends
      BY <2>1, Standing DEF TargetStands, Ask
    <3>. QED
      BY <2>1, <3>1, AskView DEF SameBackends
  <2>2. CASE Copy
    BY <2>2, CopyView
  <2>. QED
    BY <2>1, <2>2
<1>2. /\ ReadyIsRunning /\ starting_instances \cap alive = {} /\ TargetStands
      /\ \A o \in Ready \cup starting_instances : migration_record[o] = None
  BY DEF InstancesStand
<1>3. Ready' = Ready
  BY <1>1 DEF Ready, SameInstances
<1>4. /\ ReadyIsRunning' /\ starting_instances' \cap alive' = {}
      /\ \A o \in Ready' \cup starting_instances' : migration_record'[o] = None
  BY <1>1, <1>2, <1>3 DEF ReadyIsRunning, SameInstances
<1>5. TargetStands'
  <2>1. CASE migration' = NoMigration
    BY <2>1, NoMigrationView DEF TargetStands, Building, Built
  <2>2. ASSUME NEW pc \in {"asking", "copying", "swap"}, Moves(pc) PROVE TargetStands'
    BY <1>1, <1>2, <1>3, <2>2 DEF TargetStands, Building, Built, Moves, SameInstances
  <2>. QED
    BY <1>1, <2>1, <2>2
<1>. QED
  BY <1>4, <1>5 DEF InstancesStand

\* The target that takes the place of the source runs.
LEMMA SwapStands ==
    ASSUME RouterTypes, BackendTypes, InstancesStand, Swap
    PROVE  InstancesStand'
<1>1. PICK s \in Backends, t \in Backends :
         s = migration.source /\ t = migration.target
  BY Standing DEF Swap, TargetStands
<1>2. /\ Ready \subseteq Backends /\ Ready \subseteq alive /\ alive \subseteq marked
      /\ IsInjective(ready_instances) /\ ReadyIsRunning
      /\ \A o \in Ready : status[o] = "running" /\ model[o] = "loaded" /\ ending[o] = "none"
      /\ starting_instances \cap alive = {} /\ starting_instances \cap Ready = {}
      /\ \A o \in Ready \cup starting_instances : migration_record[o] = None
      /\ TargetStands
  BY Standing DEF InstancesStand
<1>3. /\ migration.pc = "swap"
      /\ \/ /\ s \in Ready
            /\ Ready' = (Ready \ {s}) \cup {t}
            /\ t \notin Ready => IsInjective(ready_instances')
            /\ migration_record' = [migration_record EXCEPT ![s] = t]
            /\ Moves("draining")
            /\ Ends(s, "shutdown") /\ UNCHANGED <<model, alive>>
         \/ /\ migration' = NoMigration /\ alive' = alive \ {t}
            /\ model' = [model EXCEPT ![t] = "deleted"]
            /\ status' = [status EXCEPT ![t] = "deleting"]
            /\ UNCHANGED <<ready_instances, migration_record, ending>>
      /\ UNCHANGED <<worker, call, starting_instances, marked, shared>>
  BY <1>1, <1>2, SwapView
<1>4. /\ t \notin Ready /\ t \notin starting_instances /\ t \in alive /\ s # t
      /\ status[t] = "running" /\ model[t] = "loaded" /\ ending[t] = "none"
      /\ migration_record[t] = None
  BY <1>1, <1>2, <1>3 DEF TargetStands, Building, Built
<1>5. CASE /\ s \in Ready
           /\ Ready' = (Ready \ {s}) \cup {t}
           /\ t \notin Ready => IsInjective(ready_instances')
           /\ migration_record' = [migration_record EXCEPT ![s] = t]
           /\ Moves("draining")
           /\ Ends(s, "shutdown") /\ UNCHANGED <<model, alive>>
  <2>1. \A o \in Backends \ {s} : status'[o] = status[o] /\ ending'[o] = ending[o]
    BY <1>5, EndsView
  <2>2. \A o \in Backends \ {s} : migration_record'[o] = migration_record[o]
    BY <1>5 DEF RouterTypes
  <2>3. ReadyIsRunning' /\ starting_instances' \cap alive' = {}
    BY <1>2, <1>3, <1>4, <1>5, <2>1 DEF ReadyIsRunning
  <2>4. \A o \in Ready' \cup starting_instances' : migration_record'[o] = None
    <3>1. s \notin starting_instances /\ starting_instances \subseteq Backends
      BY <1>2, <1>5 DEF RouterTypes
    <3>. QED
      BY <1>2, <1>3, <1>4, <1>5, <2>2, <3>1
  <2>5. TargetStands'
    BY <1>1, <1>4, <1>5 DEF TargetStands, Building, Built, Moves
  <2>. QED
    BY <2>3, <2>4, <2>5 DEF InstancesStand
<1>6. CASE /\ migration' = NoMigration /\ alive' = alive \ {t}
           /\ model' = [model EXCEPT ![t] = "deleted"]
           /\ status' = [status EXCEPT ![t] = "deleting"]
           /\ UNCHANGED <<ready_instances, migration_record, ending>>
  <2>1. \A o \in Backends \ {t} : status'[o] = status[o] /\ model'[o] = model[o]
    BY <1>6 DEF BackendTypes
  <2>2. Ready' = Ready
    BY <1>6 DEF Ready
  <2>3. ReadyIsRunning' /\ starting_instances' \cap alive' = {}
    BY <1>2, <1>3, <1>4, <1>6, <2>1, <2>2 DEF ReadyIsRunning
  <2>4. \A o \in Ready' \cup starting_instances' : migration_record'[o] = None
    BY <1>2, <1>3, <1>6, <2>2
  <2>5. TargetStands'
    BY <1>6, NoMigrationView DEF TargetStands, Building, Built
  <2>. QED
    BY <2>3, <2>4, <2>5 DEF InstancesStand
<1>. QED
  BY <1>3, <1>5, <1>6

(***************************************************************************)
(* Counts, the queue and the instances of calls                            *)
(***************************************************************************)

\* The calls that have not returned.
PendingCalls == {c \in Calls : Pending(c)}

\* Sets of calls are finite; one more call makes one more.
LEMMA FiniteCalls ==
    ASSUME NEW S \in SUBSET Calls
    PROVE  /\ IsFiniteSet(S) /\ Cardinality(S) \in Nat
           /\ \A T \in SUBSET S : Cardinality(T) <= Cardinality(S)
           /\ \A c \in Calls : /\ c \notin S => Cardinality(S \cup {c}) = Cardinality(S) + 1
                               /\ c \in S => Cardinality(S \ {c}) = Cardinality(S) - 1
                               /\ Cardinality(S \ {c}) <= Cardinality(S)
<1>1. IsFiniteSet(S) /\ Cardinality(S) \in Nat
  BY RouterAssumption, FS_Subset, FS_CardinalityType
<1>2. \A T \in SUBSET S : Cardinality(T) <= Cardinality(S)
  BY <1>1, FS_Subset
<1>3. ASSUME NEW c \in Calls
      PROVE  /\ c \notin S => Cardinality(S \cup {c}) = Cardinality(S) + 1
             /\ c \in S => Cardinality(S \ {c}) = Cardinality(S) - 1
             /\ Cardinality(S \ {c}) <= Cardinality(S)
  <2>1. c \notin S => Cardinality(S \cup {c}) = Cardinality(S) + 1
    BY <1>1, FS_AddElement
  <2>2. c \in S => Cardinality(S \ {c}) = Cardinality(S) - 1
    BY <1>1, FS_RemoveElement
  <2>3. S \ {c} \in SUBSET S
    OBVIOUS
  <2>. QED
    BY <1>2, <2>1, <2>2, <2>3
<1>. QED
  BY <1>1, <1>2, <1>3

\* The counts of the calls, with their types.
LEMMA Counting ==
    ASSUME RouterTypes, CallsStand
    PROVE  /\ PendingCalls \in SUBSET Calls /\ Cardinality(PendingCalls) \in Nat
           /\ request_count \in Int /\ Cardinality(PendingCalls) <= request_count
           /\ \A b \in Backends :
                 /\ OnInstance(b) \in SUBSET Calls /\ Cardinality(OnInstance(b)) \in Nat
                 /\ concurrency[b] \in Int /\ max_queue_length[b] \in Nat
                 /\ Cardinality(OnInstance(b)) <= concurrency[b]
                 /\ concurrency[b] <= max_queue_length[b]
<1>1. PendingCalls \in SUBSET Calls /\ \A b \in Backends : OnInstance(b) \in SUBSET Calls
  BY DEF PendingCalls, OnInstance
<1>2. /\ Cardinality(PendingCalls) \in Nat
      /\ \A b \in Backends : Cardinality(OnInstance(b)) \in Nat
  BY <1>1, FiniteCalls
<1>3. request_count >= Cardinality(PendingCalls)
  BY DEF CallsStand, DemandCovered, PendingCalls
<1>4. /\ request_count \in Int
      /\ \A b \in Backends : concurrency[b] \in Int /\ max_queue_length[b] \in Nat
  BY DEF RouterTypes
<1>5. \A b \in Backends : /\ Cardinality(OnInstance(b)) <= concurrency[b]
                          /\ concurrency[b] <= max_queue_length[b]
  BY DEF CallsStand, ConcurrencyCovers, ConcurrencyBound
<1>. QED
  BY <1>1, <1>2, <1>3, <1>4, <1>5

\* What does not touch calls or counts, and takes no instance that is in use.
LEMMA CallsFrame ==
    ASSUME CallsStand, SameCounts, UNCHANGED <<call, migration_record>>,
           \A b : InUse(b) => InUse(b)'
    PROVE  CallsStand'
<1>1. DemandCovered' /\ ConcurrencyCovers' /\ ConcurrencyBound' /\ QueueIsQueued'
  BY DEF CallsStand, SameCounts, DemandCovered, Pending, ConcurrencyCovers, ConcurrencyBound,
         QueueIsQueued, OnInstance, Given
<1>2. \A c \in Calls : GivenInUse(c)'
  BY DEF CallsStand, GivenInUse, Given
<1>. QED
  BY <1>1, <1>2 DEF CallsStand

\* A call arrives: it is counted and in the queue.
LEMMA SubmitStands ==
    ASSUME RouterTypes, CallsStand, NEW c \in Calls, NEW kind \in Kinds, Submit(c, kind)
    PROVE  CallsStand'
<1>1. /\ call[c].pc = "new" /\ SameCalls(c)
      /\ call'[c].pc = "queued" /\ call'[c].on = call[c].on
      /\ request_queue' = Append(request_queue, c) /\ request_count' = request_count + 1
      /\ SameInstances /\ SameMigration
      /\ UNCHANGED <<concurrency, max_queue_length>>
  BY SubmitView
<1>2. PendingCalls' = PendingCalls \cup {c} /\ c \notin PendingCalls
  BY <1>1 DEF PendingCalls, Pending, SameCalls
<1>3. DemandCovered'
  <2>1. Cardinality(PendingCalls') = Cardinality(PendingCalls) + 1
    BY <1>2, Counting, FiniteCalls
  <2>2. request_count' >= Cardinality(PendingCalls')
    BY <1>1, <2>1, Counting
  <2>. QED
    BY <2>2 DEF DemandCovered, PendingCalls
<1>4. \A b \in Backends : OnInstance(b)' = OnInstance(b)
  BY <1>1 DEF OnInstance, Given, SameCalls
<1>5. ConcurrencyCovers' /\ ConcurrencyBound'
  BY <1>1, <1>4 DEF CallsStand, ConcurrencyCovers, ConcurrencyBound
<1>6. QueueIsQueued'
  <2>1. request_queue \in Seq(Calls) /\ IsInjective(request_queue)
    BY DEF RouterTypes, CallsStand, QueueIsQueued
  <2>2. c \notin ToSet(request_queue)
    BY <1>1 DEF CallsStand, QueueIsQueued
  <2>3. IsInjective(request_queue') /\ ToSet(request_queue') = ToSet(request_queue) \cup {c}
    BY <1>1, <2>1, <2>2, AppendElements
  <2>4. \A d \in ToSet(request_queue) : d \in Calls /\ d # c /\ call[d].pc = "queued"
    BY <2>1, <2>2, ToSetMember DEF CallsStand, QueueIsQueued
  <2>. QED
    BY <1>1, <2>3, <2>4 DEF QueueIsQueued, SameCalls
<1>7. \A d \in Calls : GivenInUse(d)'
  BY <1>1 DEF CallsStand, GivenInUse, Given, SameCalls, SameInstances, SameMigration,
              InUse, Building
<1>. QED
  BY <1>3, <1>5, <1>6, <1>7 DEF CallsStand

\* A call is given an instance with room.
LEMMA AssignStands ==
    ASSUME RouterTypes, InstancesStand, CallsStand, NEW b \in Backends, Assign(b)
    PROVE  CallsStand'
<1>1. PICK c \in Calls :
         /\ c = Head(request_queue) /\ request_queue # <<>>
         /\ b \in Ready /\ concurrency[b] < max_queue_length[b]
         /\ SameCalls(c)
         /\ call'[c].pc = "assigned" /\ call'[c].on = b
         /\ request_queue' = Tail(request_queue)
         /\ concurrency' = [concurrency EXCEPT ![b] = @ + 1]
         /\ SameInstances /\ SameMigration
         /\ UNCHANGED <<request_count, max_queue_length>>
  BY AssignView
<1>2. /\ request_queue \in Seq(Calls) /\ IsInjective(request_queue)
      /\ \A d \in ToSet(request_queue) : call[d].pc = "queued"
  BY DEF RouterTypes, CallsStand, QueueIsQueued
<1>3. /\ IsInjective(request_queue') /\ c \in ToSet(request_queue)
      /\ ToSet(request_queue') = ToSet(request_queue) \ {c}
  BY <1>1, <1>2, TailElements
<1>4. call[c].pc = "queued"
  BY <1>2, <1>3
<1>5. QueueIsQueued'
  <2>1. \A d \in ToSet(request_queue') : d \in Calls /\ d # c /\ call[d].pc = "queued"
    BY <1>2, <1>3, ToSetMember
  <2>. QED
    BY <1>1, <1>3, <2>1 DEF QueueIsQueued, SameCalls
<1>6. DemandCovered'
  <2>1. PendingCalls' = PendingCalls
    BY <1>1, <1>4 DEF PendingCalls, Pending, SameCalls
  <2>. QED
    BY <1>1, <2>1 DEF CallsStand, DemandCovered, PendingCalls
<1>7. /\ OnInstance(b)' = OnInstance(b) \cup {c} /\ c \notin OnInstance(b)
      /\ \A o \in Backends \ {b} : OnInstance(o)' = OnInstance(o)
  BY <1>1, <1>4 DEF OnInstance, Given, SameCalls
<1>8. /\ concurrency'[b] = concurrency[b] + 1
      /\ \A o \in Backends \ {b} : concurrency'[o] = concurrency[o]
  BY <1>1 DEF RouterTypes
<1>9. Cardinality(OnInstance(b)') = Cardinality(OnInstance(b)) + 1
  BY <1>7, Counting, FiniteCalls
<1>10. ConcurrencyCovers'
  <2>1. Cardinality(OnInstance(b)') <= concurrency'[b]
    BY <1>8, <1>9, Counting
  <2>2. \A o \in Backends \ {b} : Cardinality(OnInstance(o)') <= concurrency'[o]
    BY <1>7, <1>8, Counting
  <2>. QED
    BY <2>1, <2>2 DEF ConcurrencyCovers
<1>11. ConcurrencyBound'
  <2>1. concurrency'[b] <= max_queue_length'[b]
    BY <1>1, <1>8, Counting
  <2>2. \A o \in Backends \ {b} : concurrency'[o] <= max_queue_length'[o]
    BY <1>1, <1>8, Counting
  <2>. QED
    BY <2>1, <2>2 DEF ConcurrencyBound
<1>12. \A d \in Calls : GivenInUse(d)'
  <2>1. InUse(b) /\ migration_record[b] = None
    BY <1>1, Standing DEF InUse, TargetStands
  <2>2. /\ \A o : InUse(o)' = InUse(o)
        /\ migration_record' = migration_record
    BY <1>1 DEF SameInstances, SameMigration, InUse, Building
  <2>3. GivenInUse(c)'
    BY <1>1, <2>1, <2>2 DEF GivenInUse
  <2>4. ASSUME NEW d \in Calls \ {c} PROVE GivenInUse(d)'
    BY <1>1, <2>2 DEF CallsStand, GivenInUse, Given, SameCalls
  <2>. QED
    BY <2>3, <2>4
<1>. QED
  BY <1>5, <1>6, <1>10, <1>11, <1>12 DEF CallsStand

\* A call that is sent stays where it is counted.
LEMMA SendsStands ==
    ASSUME RouterTypes, CallsStand, NEW c \in Calls, NEW pc \in {"executing", "resuming"}, NEW w,
           Given(c), Sends(c, pc, w), SameInstances, SameMigration, SameCounts
    PROVE  CallsStand'
<1>1. SameCalls(c) /\ call'[c].pc = pc /\ call'[c].on = call[c].on
  BY DEF Sends
<1>2. PendingCalls' = PendingCalls /\ \A b \in Backends : OnInstance(b)' = OnInstance(b)
  BY <1>1 DEF PendingCalls, Pending, OnInstance, Given, SameCalls
<1>3. DemandCovered' /\ ConcurrencyCovers' /\ ConcurrencyBound'
  BY <1>2 DEF CallsStand, DemandCovered, PendingCalls, ConcurrencyCovers, ConcurrencyBound, SameCounts
<1>4. QueueIsQueued'
  <2>1. \A d \in ToSet(request_queue) : d \in Calls /\ d # c
    BY ToSetMember DEF RouterTypes, CallsStand, QueueIsQueued, Given
  <2>. QED
    BY <1>1, <2>1 DEF CallsStand, QueueIsQueued, SameCounts, SameCalls
<1>5. \A d \in Calls : GivenInUse(d)'
  BY <1>1 DEF CallsStand, GivenInUse, Given, SameCalls, SameInstances, SameMigration,
              InUse, Building
<1>. QED
  BY <1>3, <1>4, <1>5 DEF CallsStand

\* A call that ends gives back what was counted, or leaves it.
LEMMA LeavesStands ==
    ASSUME RouterTypes, CallsStand, NEW c \in Calls, NEW answer, NEW row,
           Given(c), Leaves(c, answer, row), SameInstances, SameMigration,
           UNCHANGED <<request_queue, max_queue_length>>,
           \/ UNCHANGED <<request_count, concurrency>>
           \/ /\ request_count' = request_count - 1
              /\ concurrency' = [concurrency EXCEPT ![call[c].on] = @ - 1]
    PROVE  CallsStand'
<1>1. SameCalls(c) /\ call'[c].pc = "ended" /\ call'[c].on = call[c].on
  BY DEF Leaves
<1>2. PICK b \in Backends : b = call[c].on
  BY DEF CallsStand, GivenInUse
<1>3. /\ PendingCalls' = PendingCalls \ {c} /\ c \in PendingCalls
      /\ OnInstance(b)' = OnInstance(b) \ {c} /\ c \in OnInstance(b)
      /\ \A o \in Backends \ {b} : OnInstance(o)' = OnInstance(o)
  BY <1>1, <1>2 DEF PendingCalls, Pending, OnInstance, Given, SameCalls
<1>4. /\ Cardinality(PendingCalls') = Cardinality(PendingCalls) - 1
      /\ Cardinality(OnInstance(b)') = Cardinality(OnInstance(b)) - 1
  BY <1>3, Counting, FiniteCalls
<1>5. /\ concurrency'[b] \in {concurrency[b], concurrency[b] - 1}
      /\ \A o \in Backends \ {b} : concurrency'[o] = concurrency[o]
      /\ request_count' \in {request_count, request_count - 1}
  BY <1>2 DEF RouterTypes
<1>6. DemandCovered'
  <2>1. request_count' >= Cardinality(PendingCalls')
    BY <1>4, <1>5, Counting
  <2>. QED
    BY <2>1 DEF DemandCovered, PendingCalls
<1>7. ConcurrencyCovers'
  <2>1. Cardinality(OnInstance(b)') <= concurrency'[b]
    BY <1>4, <1>5, Counting
  <2>2. \A o \in Backends \ {b} : Cardinality(OnInstance(o)') <= concurrency'[o]
    BY <1>3, <1>5, Counting
  <2>. QED
    BY <2>1, <2>2 DEF ConcurrencyCovers
<1>8. ConcurrencyBound'
  <2>1. concurrency'[b] <= max_queue_length'[b]
    BY <1>5, Counting
  <2>2. \A o \in Backends \ {b} : concurrency'[o] <= max_queue_length'[o]
    BY <1>5, Counting
  <2>. QED
    BY <2>1, <2>2 DEF ConcurrencyBound
<1>9. QueueIsQueued'
  <2>1. \A d \in ToSet(request_queue) : d \in Calls /\ d # c
    BY ToSetMember DEF RouterTypes, CallsStand, QueueIsQueued, Given
  <2>. QED
    BY <1>1, <2>1 DEF CallsStand, QueueIsQueued, SameCalls
<1>10. \A d \in Calls : GivenInUse(d)'
  BY <1>1 DEF CallsStand, GivenInUse, Given, SameCalls, SameInstances, SameMigration,
              InUse, Building
<1>. QED
  BY <1>6, <1>7, <1>8, <1>9, <1>10 DEF CallsStand

\* An unused id is made an instance: no call was given it, or its successor.
LEMMA NewInstanceCalls ==
    ASSUME RouterTypes, CallsStand, NEW b \in Backends, NEW n \in Nat, Unused(b),
           concurrency' = [concurrency EXCEPT ![b] = 0],
           max_queue_length' = [max_queue_length EXCEPT ![b] = n],
           migration_record' = [migration_record EXCEPT ![b] = None],
           UNCHANGED <<call, request_queue, request_count>>,
           \A o : o # b /\ InUse(o) => InUse(o)'
    PROVE  CallsStand'
<1>1. ASSUME NEW c \in Calls, Given(c)
      PROVE  /\ call[c].on \in Backends \ {b} /\ migration_record[call[c].on] # b
             /\ InUse(call[c].on)
             /\ migration_record[call[c].on] # None => InUse(migration_record[call[c].on])
  <2>1. Pending(c)
    BY <1>1 DEF Given, Pending
  <2>2. /\ call[c].on \in Backends /\ InUse(call[c].on)
        /\ migration_record[call[c].on] # None => InUse(migration_record[call[c].on])
    BY <1>1 DEF CallsStand, GivenInUse
  <2>3. call[c].on # None
    BY <2>2, RouterAssumption
  <2>4. b # call[c].on /\ migration_record[call[c].on] # b
    BY <2>1, <2>3 DEF Unused
  <2>. QED
    BY <2>2, <2>4
<1>2. /\ concurrency'[b] = 0 /\ max_queue_length'[b] = n
      /\ \A o \in Backends \ {b} : /\ concurrency'[o] = concurrency[o]
                                   /\ max_queue_length'[o] = max_queue_length[o]
                                   /\ migration_record'[o] = migration_record[o]
  BY DEF RouterTypes
<1>3. \A o \in Backends : OnInstance(o)' = OnInstance(o)
  BY DEF OnInstance, Given
<1>4. Cardinality(OnInstance(b)) = 0
  <2>1. OnInstance(b) = {}
    BY <1>1 DEF OnInstance
  <2>. QED
    BY <2>1, FS_EmptySet
<1>5. ConcurrencyCovers' /\ ConcurrencyBound'
  <2>1. ASSUME NEW o \in Backends
        PROVE  Cardinality(OnInstance(o)') <= concurrency'[o] /\ concurrency'[o] <= max_queue_length'[o]
    <3>1. CASE o = b
      BY <1>2, <1>3, <1>4, <3>1
    <3>2. CASE o # b
      BY <1>2, <1>3, <3>2, Counting
    <3>. QED
      BY <3>1, <3>2
  <2>. QED
    BY <2>1 DEF ConcurrencyCovers, ConcurrencyBound
<1>6. DemandCovered' /\ QueueIsQueued'
  BY DEF CallsStand, DemandCovered, Pending, QueueIsQueued
<1>7. ASSUME NEW c \in Calls PROVE GivenInUse(c)'
  <2>1. Given(c)' <=> Given(c)
    BY DEF Given
  <2>2. CASE Given(c)
    <3>1. migration_record'[call[c].on] = migration_record[call[c].on]
      BY <1>1, <1>2, <2>2
    <3>2. InUse(call[c].on)'
      BY <1>1, <2>2
    <3>3. migration_record[call[c].on] # None => InUse(migration_record[call[c].on])'
      BY <1>1, <2>2
    <3>. QED
      BY <1>1, <2>2, <3>1, <3>2, <3>3 DEF GivenInUse
  <2>. QED
    BY <2>1, <2>2 DEF GivenInUse
<1>. QED
  BY <1>5, <1>6, <1>7 DEF CallsStand

\* What is in use stays so while instances come up and end, and while the
\* migration goes on.
LEMMA KeepsInUse ==
    ASSUME RouterTypes, starting_instances' \subseteq starting_instances,
           \/ migration' = migration
           \/ migration' = NoMigration
           \/ Building /\ (\E pc \in {"asking", "copying", "swap", "draining"} : Moves(pc))
    PROVE  \A b : InUse(b) => InUse(b)'
<1>1. ASSUME NEW b, InUse(b) PROVE b \notin starting_instances'
  BY <1>1 DEF InUse
<1>2. CASE migration' = migration
  BY <1>1, <1>2 DEF InUse, Building
<1>3. CASE migration' = NoMigration
  BY <1>1, <1>3, NoMigrationView DEF InUse, Building
<1>4. CASE Building /\ (\E pc \in {"asking", "copying", "swap", "draining"} : Moves(pc))
  BY <1>1, <1>4 DEF InUse, Moves
<1>. QED
  BY <1>2, <1>3, <1>4

\* The actions of instances leave the calls standing.
LEMMA InstanceCalls ==
    ASSUME RouterTypes, BackendTypes, InstancesStand, CallsStand, NEW b \in Backends,
           InstanceAction(b)
    PROVE  CallsStand'
<1>1. ASSUME Assign(b) PROVE CallsStand'
  BY <1>1, AssignStands
<1>2. ASSUME CreateInstance(b) PROVE CallsStand'
  <2>1. /\ Unused(b) /\ starting_instances' = starting_instances \cup {b}
        /\ max_queue_length' = [max_queue_length EXCEPT ![b] = Target]
        /\ concurrency' = [concurrency EXCEPT ![b] = 0]
        /\ migration_record' = [migration_record EXCEPT ![b] = None]
        /\ SameMigration /\ UNCHANGED <<call, request_queue, request_count>>
    BY <1>2, CreateInstanceView
  <2>2. \A o : o # b /\ InUse(o) => InUse(o)'
    BY <2>1 DEF InUse, Building, SameMigration
  <2>3. Target \in Nat
    BY RouterAssumption
  <2>. QED
    BY <2>1, <2>2, <2>3, NewInstanceCalls
<1>3. ASSUME NEW target \in Backends, BeginMigration(b, target) PROVE CallsStand'
  <2>1. /\ Unused(target) /\ migration'.target = target
        /\ max_queue_length' = [max_queue_length EXCEPT ![target] = TargetQueue]
        /\ concurrency' = [concurrency EXCEPT ![target] = 0]
        /\ migration_record' = [migration_record EXCEPT ![target] = None]
        /\ UNCHANGED <<call, request_queue, request_count, starting_instances>>
    BY <1>3, BeginMigrationView
  <2>2. \A o : o # target /\ InUse(o) => InUse(o)'
    BY <2>1 DEF InUse
  <2>3. TargetQueue \in Nat
    BY RouterAssumption
  <2>. QED
    BY <2>1, <2>2, <2>3, NewInstanceCalls
<1>4. ASSUME InstanceUp(b) \/ FinishInstance(b) \/ EndBackend(b) PROVE CallsStand'
  <2>1. /\ SameCounts /\ UNCHANGED <<call, migration_record>>
        /\ starting_instances' \subseteq starting_instances /\ migration' = migration
    <3>1. CASE InstanceUp(b)
      BY <3>1, InstanceUpView DEF SameMigration
    <3>2. CASE FinishInstance(b)
      BY <3>2, KillView DEF FinishInstance
    <3>3. CASE EndBackend(b)
      BY <3>3, EndBackendView DEF SameMigration, SameInstances
    <3>. QED
      BY <1>4, <3>1, <3>2, <3>3
  <2>. QED
    BY <2>1, KeepsInUse, CallsFrame
<1>. QED
  BY <1>1, <1>2, <1>3, <1>4 DEF InstanceAction

\* What the migration does to the router, but for the swap.
LEMMA RoundView ==
    ASSUME RouterTypes, BackendTypes, InstancesStand, MigrationAction, ~Swap
    PROVE  /\ SameCounts /\ UNCHANGED <<call, starting_instances, migration_record, shared>>
           /\ \/ migration' = migration
              \/ migration' = NoMigration
              \/ Building /\ (\E pc \in {"asking", "copying", "swap", "draining"} : Moves(pc))
<1>1. CASE StopInstance
  BY <1>1, StopInstanceView DEF SameMigration
<1>2. CASE TargetUp
  BY <1>2, TargetUpView DEF Building
<1>3. CASE Ask
  <2>1. migration.source \in Backends
    BY <1>3, Standing DEF TargetStands, Ask
  <2>. QED
    BY <1>3, <2>1, AskView DEF Building, SameInstances
<1>4. CASE Copy
  BY <1>4, CopyView DEF Building, SameInstances
<1>5. CASE EndMigration
  <2>1. PICK b : b = migration.source
    OBVIOUS
  <2>2. Kill(b) /\ migration' = NoMigration
    BY <1>5, <2>1 DEF EndMigration
  <2>. QED
    BY <2>2, KillView
<1>. QED
  BY <1>1, <1>2, <1>3, <1>4, <1>5 DEF MigrationAction

\* The migration leaves the calls standing; after the swap those of the source
\* have the target to resume at.
LEMMA MigrationCalls ==
    ASSUME RouterTypes, BackendTypes, InstancesStand, CallsStand, MigrationAction
    PROVE  CallsStand'
<1>1. CASE ~Swap
  BY <1>1, RoundView, KeepsInUse, CallsFrame
<1>2. CASE Swap
  <2>1. PICK s \in Backends, t \in Backends : s = migration.source /\ t = migration.target
    BY <1>2, Standing DEF Swap, TargetStands
  <2>2. /\ migration.pc = "swap" /\ SameCounts
        /\ UNCHANGED <<call, starting_instances>>
        /\ \/ migration_record' = [migration_record EXCEPT ![s] = t] /\ Moves("draining")
           \/ migration' = NoMigration /\ UNCHANGED migration_record
    BY <1>2, <2>1, SwapView, Standing
  <2>3. \A o : o \notin starting_instances => InUse(o)'
    <3>1. migration'.pc \in {"draining", "idle"}
      BY <2>2, NoMigrationView DEF Moves
    <3>. QED
      BY <2>2, <3>1 DEF InUse, Building
  <2>4. t \notin starting_instances
    BY <2>1, <2>2, Standing DEF TargetStands, Building
  <2>5. \A o \in Backends : migration_record'[o] = migration_record[o] \/ migration_record'[o] = t
    BY <2>2 DEF RouterTypes
  <2>6. ASSUME NEW c \in Calls PROVE GivenInUse(c)'
    <3>1. CASE Given(c)
      <4>1. /\ call[c].on \in Backends /\ InUse(call[c].on)
            /\ migration_record[call[c].on] # None => InUse(migration_record[call[c].on])
        BY <3>1 DEF CallsStand, GivenInUse
      <4>2. InUse(call[c].on)'
        BY <2>2, <2>3, <4>1 DEF InUse
      <4>3. migration_record'[call[c].on] # None => migration_record'[call[c].on] \notin starting_instances
        BY <2>4, <2>5, <4>1 DEF InUse
      <4>4. migration_record'[call[c].on] # None => InUse(migration_record[call[c].on])'
        <5>1. PICK o : o = migration_record'[call[c].on]
          OBVIOUS
        <5>2. o # None => InUse(o)'
          BY <2>3, <4>3, <5>1
        <5>. QED
          BY <2>2, <5>1, <5>2 DEF InUse
      <4>. QED
        BY <2>2, <4>1, <4>2, <4>4 DEF GivenInUse
    <3>2. CASE ~Given(c)
      BY <2>2, <3>2 DEF GivenInUse, Given
    <3>. QED
      BY <3>1, <3>2
  <2>7. DemandCovered' /\ ConcurrencyCovers' /\ ConcurrencyBound' /\ QueueIsQueued'
    BY <2>2 DEF CallsStand, SameCounts, DemandCovered, Pending, ConcurrencyCovers, ConcurrencyBound,
         QueueIsQueued, OnInstance, Given
  <2>. QED
    BY <2>6, <2>7 DEF CallsStand
<1>. QED
  BY <1>1, <1>2

\* The actions of calls keep the counts.
LEMMA CallCalls ==
    ASSUME RouterTypes, BackendTypes, CallsStand, NEW c \in Calls, WorkerServes(c),
           \/ \E kind \in Kinds : Submit(c, kind)
           \/ Dispatch(c) \/ Resume(c) \/ Return(c) \/ Work(c)
    PROVE  CallsStand'
<1>0. GivenInUse(c)
  BY DEF CallsStand
<1>1. CASE \E kind \in Kinds : Submit(c, kind)
  BY <1>1, SubmitStands
<1>2. CASE Dispatch(c)
  <2>1. /\ call[c].pc = "assigned"
        /\ \/ Sends(c, "executing", Sent(call[c].kind, call[c].on, <<>>, MaxTokens))
           \/ Leaves(c, "error", <<>>)
        /\ SameInstances /\ SameMigration /\ SameCounts
    BY <1>0, <1>2, DispatchView
  <2>2. Given(c)
    BY <2>1 DEF Given
  <2>3. PICK w : w = Sent(call[c].kind, call[c].on, <<>>, MaxTokens)
    OBVIOUS
  <2>4. CASE Sends(c, "executing", w)
    BY <2>1, <2>2, <2>4, SendsStands
  <2>5. CASE Leaves(c, "error", <<>>)
    BY <2>1, <2>2, <2>5, LeavesStands DEF SameCounts
  <2>. QED
    BY <2>1, <2>3, <2>4, <2>5
<1>3. CASE Resume(c)
  <2>1. PICK w : w = Sent("resume", migration_record[worker[c].on], worker[c].row, LeftTokens(worker[c].row))
    OBVIOUS
  <2>2. /\ call[c].pc = "executing"
        /\ \/ Sends(c, "resuming", w)
           \/ \E answer \in {"error", "raised"} : Leaves(c, answer, <<>>)
        /\ SameInstances /\ SameMigration /\ SameCounts
    BY <1>3, <2>1, ResumeView
  <2>3. Given(c)
    BY <2>2 DEF Given
  <2>4. CASE Sends(c, "resuming", w)
    BY <2>2, <2>3, <2>4, SendsStands
  <2>5. ASSUME NEW answer, Leaves(c, answer, <<>>) PROVE CallsStand'
    BY <2>2, <2>3, <2>5, LeavesStands DEF SameCounts
  <2>. QED
    BY <2>2, <2>4, <2>5
<1>4. CASE Return(c)
  <2>1. PICK answer, row : answer = worker[c].result /\ row = worker[c].row
    OBVIOUS
  <2>2. /\ call[c].pc \in {"executing", "resuming"} /\ Leaves(c, answer, row)
        /\ \/ UNCHANGED <<request_count, concurrency>>
           \/ /\ request_count' = request_count - 1
              /\ concurrency' = [concurrency EXCEPT ![call[c].on] = @ - 1]
        /\ SameInstances /\ SameMigration /\ UNCHANGED <<request_queue, max_queue_length>>
    BY <1>4, <2>1, ReturnView
  <2>3. Given(c)
    BY <2>2 DEF Given
  <2>. QED
    BY <2>2, <2>3, LeavesStands
<1>5. CASE Work(c)
  <2>1. SameCounts /\ SameInstances /\ UNCHANGED <<call, migration>>
    BY <1>0, <1>5, WorkView
  <2>2. \A b : InUse(b) => InUse(b)'
    BY <2>1, KeepsInUse DEF SameInstances
  <2>. QED
    BY <2>1, <2>2, CallsFrame DEF SameInstances
<1>. QED
  BY <1>1, <1>2, <1>3, <1>4, <1>5

(***************************************************************************)
(* What a backend does is what the call is at                              *)
(***************************************************************************)

\* A call, its worker and the successor of its instance are as they were.
LEMMA ServesFrame ==
    ASSUME NEW c \in Calls, WorkerServes(c),
           call'[c] = call[c], worker'[c] = worker[c] \/ \E b : DiesOn(c, b),
           call[c].pc = "resuming" =>
               migration_record'[call[c].on] = migration_record[call[c].on]
    PROVE  WorkerServes(c)'
<1>1. CASE worker'[c] = worker[c]
  BY <1>1 DEF WorkerServes
<1>2. CASE \E b : DiesOn(c, b)
  BY <1>2 DEF WorkerServes, DiesOn, Active
<1>. QED
  BY <1>1, <1>2

\* A call that is sent is served by its worker; one that left by none.
LEMMA CallServes ==
    ASSUME RouterTypes, BackendTypes, CallsStand, \A d \in Calls : WorkerServes(d), NEW c \in Calls,
           \/ \E kind \in Kinds : Submit(c, kind)
           \/ Dispatch(c) \/ Resume(c) \/ Return(c) \/ Work(c)
    PROVE  \A d \in Calls : WorkerServes(d)'
<1>0. GivenInUse(c) /\ WorkerServes(c)
  BY DEF CallsStand
<1>1. SameInstances /\ SameCalls(c) /\ SameWorkers(c)
  <2>1. CASE \E kind \in Kinds : Submit(c, kind)
    BY <2>1, SubmitView DEF SameWorkers
  <2>2. CASE Dispatch(c)
    BY <1>0, <2>2, DispatchView DEF Sends, Leaves
  <2>3. CASE Resume(c)
    BY <2>3, ResumeView DEF Sends, Leaves
  <2>4. CASE Return(c)
    BY <1>0, <2>4, ReturnView DEF Leaves
  <2>5. CASE Work(c)
    <3>1. SameInstances /\ call' = call /\ WorksOn(c)
      BY <1>0, <2>5, WorkView
    <3>2. SameWorkers(c)
      BY <3>1 DEF WorksOn, ChecksStatus, Fails, Encodes, Prompts, Continues, Completes,
                  GivesTokens, GivesAnswer, PutsRow
    <3>. QED
      BY <3>1, <3>2 DEF SameCalls
  <2>. QED
    BY <2>1, <2>2, <2>3, <2>4, <2>5
<1>2. ASSUME NEW d \in Calls \ {c} PROVE WorkerServes(d)'
  BY <1>1, ServesFrame DEF SameCalls, SameWorkers, SameInstances
<1>3. ASSUME NEW answer, NEW row, call[c].pc \in {"assigned", "executing", "resuming"},
             Leaves(c, answer, row)
      PROVE  WorkerServes(c)'
  BY <1>0, <1>3 DEF Leaves, WorkerServes
<1>4. WorkerServes(c)'
  <2>1. ASSUME NEW kind \in Kinds, Submit(c, kind) PROVE WorkerServes(c)'
    <3>1. /\ call[c].pc = "new" /\ call'[c].pc = "queued" /\ call'[c].kind = kind
          /\ call'[c].answer = call[c].answer /\ worker' = worker
      BY <2>1, SubmitView
    <3>2. kind \in {"generate", "encode"}
      BY RouterAssumption
    <3>. QED
      BY <1>0, <3>1, <3>2 DEF WorkerServes
  <2>2. CASE Dispatch(c)
    <3>1. PICK w : w = Sent(call[c].kind, call[c].on, <<>>, MaxTokens)
      OBVIOUS
    <3>2. /\ call[c].pc = "assigned"
          /\ Sends(c, "executing", w) \/ Leaves(c, "error", <<>>)
      BY <1>0, <2>2, <3>1, DispatchView
    <3>3. CASE Sends(c, "executing", w)
      <4>1. w.pc = "sent" /\ w.kind = call[c].kind /\ w.on = call[c].on
        BY <3>1 DEF Sent, NoWorker
      <4>. QED
        BY <1>0, <3>2, <3>3, <4>1 DEF Sends, WorkerServes
    <3>. QED
      BY <1>3, <3>2, <3>3
  <2>3. CASE Resume(c)
    <3>1. PICK w : w = Sent("resume", migration_record[worker[c].on], worker[c].row, LeftTokens(worker[c].row))
      OBVIOUS
    <3>2. /\ call[c].pc = "executing" /\ worker[c].pc = "answered"
          /\ worker[c].result = "preempted" /\ SameInstances
          /\ \/ migration_record[worker[c].on] \in Ready /\ Sends(c, "resuming", w)
             \/ \E answer \in {"error", "raised"} : Leaves(c, answer, <<>>)
      BY <2>3, <3>1, ResumeView
    <3>3. CASE migration_record[worker[c].on] \in Ready /\ Sends(c, "resuming", w)
      <4>1. w.pc = "sent" /\ w.kind = "resume" /\ w.on = migration_record[worker[c].on]
        BY <3>1 DEF Sent, NoWorker
      <4>2. worker[c].on = call[c].on /\ call[c].kind = "generate"
        BY <1>0, <3>2 DEF WorkerServes
      <4>3. w.on \in Backends
        BY <3>3, <4>1, ToSetMember DEF Ready, RouterTypes
      <4>. QED
        BY <1>0, <3>2, <3>3, <4>1, <4>2, <4>3 DEF Sends, WorkerServes, SameInstances
    <3>. QED
      BY <1>3, <3>2, <3>3
  <2>4. CASE Return(c)
    <3>1. PICK answer, row : answer = worker[c].result /\ row = worker[c].row
      OBVIOUS
    <3>2. call[c].pc \in {"executing", "resuming"} /\ Leaves(c, answer, row)
      BY <1>0, <2>4, <3>1, ReturnView
    <3>. QED
      BY <1>3, <3>2
  <2>5. CASE Work(c)
    <3>1. /\ Active(c) /\ call' = call /\ SameInstances /\ WorksOn(c)
      BY <1>0, <2>5, WorkView
    <3>2. worker[c].kind \in {"generate", "encode", "resume"}
      BY <1>0, <3>1, WorkerIsOn DEF Active
    <3>3. /\ worker'[c].pc # "none" /\ worker'[c].on = worker[c].on /\ worker'[c].kind = worker[c].kind
      BY <3>1 DEF WorksOn, ChecksStatus, Fails, Encodes, Prompts, Continues, Completes,
                  GivesTokens, GivesAnswer, PutsRow
    <3>4. /\ worker'[c].pc \in {"generating", "preempted"} => worker'[c].kind # "encode"
          /\ worker'[c].pc = "answered" =>
                worker'[c].result \in {"ok", "error", "raised", "preempted"}
          /\ worker'[c].pc = "answered" /\ worker'[c].result = "preempted" =>
                worker'[c].kind = "generate"
      BY <1>0, <3>1, <3>2 DEF WorksOn, ChecksStatus, Fails, Encodes, Prompts, Continues, Completes,
                  GivesTokens, GivesAnswer, PutsRow, WorkerServes
    <3>5. worker[c].pc # "none" /\ migration_record' = migration_record
      BY <3>1 DEF Active, SameInstances
    <3>. QED
      BY <1>0, <3>1, <3>3, <3>4, <3>5 DEF WorkerServes
  <2>. QED
    BY <2>1, <2>2, <2>3, <2>4, <2>5
<1>. QED
  BY <1>2, <1>4

\* An id that becomes an instance is none that a call resumes from.
LEMMA NewInstanceServes ==
    ASSUME RouterTypes, CallsStand, \A d \in Calls : WorkerServes(d), NEW b \in Backends, Unused(b),
           migration_record' = [migration_record EXCEPT ![b] = None],
           UNCHANGED <<call, worker>>
    PROVE  \A d \in Calls : WorkerServes(d)'
<1>1. ASSUME NEW d \in Calls PROVE WorkerServes(d)'
  <2>1. ASSUME call[d].pc = "resuming"
        PROVE  migration_record'[call[d].on] = migration_record[call[d].on]
    <3>1. call[d].on \in Backends
      BY <2>1 DEF CallsStand, GivenInUse, Given
    <3>2. b # call[d].on
      BY <2>1 DEF Unused, Pending
    <3>. QED
      BY <3>1, <3>2 DEF RouterTypes
  <2>. QED
    BY <2>1, ServesFrame
<1>. QED
  BY <1>1

\* The actions of instances.
LEMMA InstanceServes ==
    ASSUME RouterTypes, BackendTypes, CallsStand, \A d \in Calls : WorkerServes(d),
           NEW b \in Backends, InstanceAction(b)
    PROVE  \A d \in Calls : WorkerServes(d)'
<1>1. CASE Assign(b)
  <2>1. PICK c \in Calls :
           /\ c = Head(request_queue) /\ request_queue # <<>> /\ SameCalls(c)
           /\ call'[c].pc = "assigned" /\ call'[c].kind = call[c].kind
           /\ call'[c].answer = call[c].answer /\ SameInstances /\ worker' = worker
    BY <1>1, AssignView
  <2>2. call[c].pc = "queued"
    <3>1. c \in ToSet(request_queue)
      BY <2>1, TailElements DEF RouterTypes, CallsStand, QueueIsQueued
    <3>. QED
      BY <3>1 DEF CallsStand, QueueIsQueued
  <2>3. WorkerServes(c)'
    BY <2>1, <2>2 DEF WorkerServes
  <2>4. ASSUME NEW d \in Calls \ {c} PROVE WorkerServes(d)'
    BY <2>1, ServesFrame DEF SameCalls, SameInstances
  <2>. QED
    BY <2>3, <2>4
<1>2. CASE CreateInstance(b)
  BY <1>2, CreateInstanceView, NewInstanceServes
<1>3. ASSUME NEW target \in Backends, BeginMigration(b, target)
      PROVE  \A d \in Calls : WorkerServes(d)'
  BY <1>3, BeginMigrationView, NewInstanceServes
<1>4. CASE InstanceUp(b) \/ FinishInstance(b) \/ EndBackend(b)
  <2>1. /\ UNCHANGED <<call, migration_record>>
        /\ \A d \in Calls : worker'[d] = worker[d] \/ DiesOn(d, b)
    <3>1. CASE InstanceUp(b)
      BY <3>1, InstanceUpView
    <3>2. CASE FinishInstance(b)
      BY <3>2, KillView DEF FinishInstance
    <3>3. CASE EndBackend(b)
      BY <3>3, EndBackendView DEF SameInstances
    <3>. QED
      BY <1>4, <3>1, <3>2, <3>3
  <2>. QED
    BY <2>1, ServesFrame
<1>. QED
  BY <1>1, <1>2, <1>3, <1>4 DEF InstanceAction

\* The migration; no call resumes from a source that is ready.
LEMMA MigrationServes ==
    ASSUME RouterTypes, BackendTypes, InstancesStand, CallsStand, \A d \in Calls : WorkerServes(d),
           MigrationAction
    PROVE  \A d \in Calls : WorkerServes(d)'
<1>1. CASE Swap
  <2>1. PICK s \in Backends, t \in Backends : s = migration.source /\ t = migration.target
    BY <1>1, Standing DEF Swap, TargetStands
  <2>2. /\ UNCHANGED <<call, worker>>
        /\ \/ s \in Ready /\ migration_record' = [migration_record EXCEPT ![s] = t]
           \/ UNCHANGED migration_record
    BY <1>1, <2>1, SwapView, Standing
  <2>3. ASSUME NEW d \in Calls, call[d].pc = "resuming"
        PROVE  migration_record'[call[d].on] = migration_record[call[d].on]
    <3>1. migration_record[call[d].on] \in Backends
      BY <2>3 DEF WorkerServes
    <3>2. s \in Ready => call[d].on # s
      BY <3>1, Standing, RouterAssumption
    <3>3. call[d].on \in Backends
      BY <2>3 DEF CallsStand, GivenInUse, Given
    <3>. QED
      BY <2>2, <3>2, <3>3 DEF RouterTypes
  <2>. QED
    BY <2>2, <2>3, ServesFrame
<1>2. CASE ~Swap
  <2>1. UNCHANGED <<call, migration_record>>
    BY <1>2, RoundView
  <2>2. \A d \in Calls : worker'[d] = worker[d] \/ \E b : DiesOn(d, b)
    <3>1. CASE EndMigration
      <4>1. PICK b : b = migration.source
        OBVIOUS
      <4>2. Kill(b)
        BY <3>1, <4>1 DEF EndMigration
      <4>. QED
        BY <4>2, KillView
    <3>2. CASE StopInstance \/ TargetUp \/ Ask \/ Copy
      <4>1. worker' = worker
        BY <3>2 DEF StopInstance, TargetUp, Ask, Copy, backends
      <4>. QED
        BY <4>1
    <3>. QED
      BY <1>2, <3>1, <3>2 DEF MigrationAction
  <2>. QED
    BY <2>1, <2>2, ServesFrame
<1>. QED
  BY <1>1, <1>2

(***************************************************************************)
(* What the actions that generate nothing do to tokens                     *)
(***************************************************************************)

\* Only an instance that no call uses forgets its tokens or takes a cache, and
\* one that is being deleted is not revived.
Backdrop ==
    /\ UNCHANGED shared
    /\ \A b \in Backends :
          /\ intermediate'[b] = intermediate[b] \/ (~InUse(b) /\ intermediate'[b] = Nothing)
          /\ resumed'[b] = resumed[b] \/ ~InUse(b)
          /\ InUse(b) /\ status[b] = "deleting" => status'[b] = "deleting"

\* No cache is made, no tokens are taken to copy them, and no instance takes the
\* place of another that it was not to replace already.
QuietCaches ==
    /\ \A b \in Backends : resumed'[b] \in {resumed[b], None}
    /\ migration'.row \in {migration.row, <<>>}
    /\ \A t, s \in Backends : resumed'[t] # None /\ Replaces(t, s)' => Replaces(t, s)
    /\ migration'.pc = "copying" => migration' = migration

Quiet(c) ==
    \/ worker'[c] = worker[c]
    \/ \E b : DiesOn(c, b)
    \/ worker'[c].pc = "none" /\ worker'[c].row \in {<<>>, worker[c].row}

\* What changes nothing but calls and workers.
LEMMA SameBackdrop ==
    ASSUME SameBackends, SameInstances, SameMigration
    PROVE  Backdrop /\ QuietCaches
BY DEF Backdrop, QuietCaches, SameBackends, SameInstances, SameMigration, Replaces, Built

\* A new instance that has not come up.
LEMMA NewBackdrop ==
    ASSUME RouterTypes, NEW b \in Backends, migration_record' = [migration_record EXCEPT ![b] = None],
           SameBackends, UNCHANGED shared,
           migration' = migration \/ (migration'.pc = "starting" /\ migration'.row = <<>>)
    PROVE  Backdrop /\ QuietCaches
<1>1. Backdrop
  BY DEF Backdrop, SameBackends
<1>2. ASSUME NEW t \in Backends, NEW s \in Backends, Replaces(t, s)' PROVE Replaces(t, s)
  <2>1. migration_record'[s] = t => migration_record[s] = t
    BY RouterAssumption DEF RouterTypes
  <2>. QED
    BY <1>2, <2>1 DEF Replaces, Built
<1>. QED
  BY <1>1, <1>2 DEF QuietCaches, SameBackends

\* A backend that is made anew was in no use, and resumed nothing.
LEMMA InitializedBackdrop ==
    ASSUME BackendTypes, NEW b \in Backends, Initialized(b), ~InUse(b), worker' = worker,
           UNCHANGED <<shared, migration_record>>,
           migration' = migration \/ (migration.target = b /\ Moves("asking") /\ migration'.row = migration.row)
    PROVE  Backdrop /\ QuietCaches
<1>1. /\ intermediate'[b] = Nothing /\ resumed'[b] = None
      /\ \A o \in Backends \ {b} :
            status'[o] = status[o] /\ intermediate'[o] = intermediate[o] /\ resumed'[o] = resumed[o]
  BY InitializedView
<1>2. Backdrop
  BY <1>1 DEF Backdrop
<1>3. ASSUME NEW t \in Backends, NEW s \in Backends, resumed'[t] # None, Replaces(t, s)'
      PROVE  Replaces(t, s)
  <2>1. t # b
    BY <1>1, <1>3
  <2>. QED
    BY <1>3, <2>1 DEF Replaces, Built, Moves
<1>. QED
  BY <1>1, <1>2, <1>3 DEF QuietCaches, Moves

\* An actor is killed.
LEMMA KillBackdrop ==
    ASSUME BackendTypes, NEW b, Kill(b), migration' \in {migration, NoMigration}
    PROVE  Backdrop /\ QuietCaches /\ \A c \in Calls : Quiet(c)
<1>1. /\ \A c \in Calls : DiesOn(c, b) \/ worker'[c] = worker[c]
      /\ SameBackends /\ UNCHANGED <<migration_record, shared>>
  BY KillView
<1>2. \A c \in Calls : Quiet(c)
  BY <1>1 DEF Quiet
<1>3. Backdrop
  BY <1>1 DEF Backdrop, SameBackends
<1>4. QuietCaches
  BY <1>1, NoMigrationView DEF QuietCaches, SameBackends, Replaces, Built
<1>. QED
  BY <1>2, <1>3, <1>4

\* The actions of instances.
LEMMA InstanceBackdrop ==
    ASSUME RouterTypes, BackendTypes, NEW b \in Backends, InstanceAction(b)
    PROVE  Backdrop /\ QuietCaches /\ \A c \in Calls : Quiet(c)
<1>1. CASE Assign(b)
  BY <1>1, AssignView, SameBackdrop DEF Quiet
<1>2. CASE CreateInstance(b)
  <2>1. /\ migration_record' = [migration_record EXCEPT ![b] = None]
        /\ SameBackends /\ SameMigration /\ worker' = worker
    BY <1>2, CreateInstanceView
  <2>. QED
    BY <2>1, NewBackdrop DEF Quiet, SameMigration
<1>3. CASE InstanceUp(b)
  <2>1. /\ b \in starting_instances /\ Initialized(b) /\ SameMigration
        /\ UNCHANGED <<worker, call, migration_record>>
    BY <1>3, InstanceUpView
  <2>2. ~InUse(b)
    BY <2>1 DEF InUse
  <2>. QED
    BY <2>1, <2>2, InitializedBackdrop DEF Quiet, SameMigration
<1>4. CASE FinishInstance(b)
  BY <1>4, KillBackdrop DEF FinishInstance
<1>5. CASE EndBackend(b)
  <2>1. /\ SameInstances /\ SameMigration /\ UNCHANGED <<intermediate, resumed, worker>>
        /\ Ends(b, "shutdown") \/ UNCHANGED status
    BY <1>5, EndBackendView
  <2>2. \A o \in Backends : status[o] = "deleting" => status'[o] = "deleting"
    <3>1. CASE Ends(b, "shutdown")
      BY <3>1, EndsView
    <3>. QED
      BY <2>1, <3>1
  <2>3. Backdrop
    BY <2>1, <2>2 DEF Backdrop, SameMigration
  <2>4. QuietCaches
    BY <2>1 DEF QuietCaches, SameMigration, SameInstances, Replaces, Built
  <2>. QED
    BY <2>1, <2>3, <2>4 DEF Quiet
<1>6. ASSUME NEW target \in Backends, BeginMigration(b, target)
      PROVE  Backdrop /\ QuietCaches /\ \A c \in Calls : Quiet(c)
  <2>1. /\ migration_record' = [migration_record EXCEPT ![target] = None]
        /\ migration'.pc = "starting" /\ migration'.row = <<>>
        /\ SameBackends /\ UNCHANGED <<worker, shared>>
    BY <1>6, BeginMigrationView
  <2>. QED
    BY <2>1, NewBackdrop DEF Quiet
<1>. QED
  BY <1>1, <1>2, <1>3, <1>4, <1>5, <1>6 DEF InstanceAction

\* The migration; a ready instance that is stopped was not being deleted.
LEMMA MigrationBackdrop ==
    ASSUME RouterTypes, BackendTypes, InstancesStand, MigrationAction
    PROVE  /\ Backdrop /\ \A c \in Calls : Quiet(c)
           /\ ~Ask /\ ~Copy => QuietCaches
<1>0. migration.pc # "idle" => migration.source \in Backends /\ migration.target \in Backends
  BY Standing DEF TargetStands
<1>1. CASE StopInstance
  <2>1. PICK b \in Backends :
           /\ ready_instances # <<>> /\ b = Last(ready_instances) /\ Ends(b, "stop") /\ SameMigration
           /\ UNCHANGED <<intermediate, resumed, worker, migration_record>>
    BY <1>1, StopInstanceView
  <2>2. status[b] = "running"
    <3>1. ready_instances \in Seq(Backends)
      BY DEF RouterTypes
    <3>2. b \in Ready
      BY <2>1, <3>1, LastOfRow DEF Ready
    <3>. QED
      BY <3>2, Standing
  <2>3. \A o \in Backends : status[o] = "deleting" => status'[o] = "deleting"
    BY <2>1, <2>2, EndsView
  <2>4. Backdrop
    BY <2>1, <2>3 DEF Backdrop, SameMigration
  <2>5. QuietCaches
    BY <2>1 DEF QuietCaches, SameMigration, Replaces, Built
  <2>. QED
    BY <2>1, <2>4, <2>5 DEF Quiet
<1>2. CASE TargetUp
  <2>1. /\ migration.pc = "starting"
        /\ \/ /\ Initialized(migration.target)
              /\ Moves("asking") /\ migration'.row = migration.row
           \/ migration' = NoMigration /\ SameBackends
        /\ UNCHANGED <<worker, migration_record, shared>>
    BY <1>2, TargetUpView
  <2>2. PICK t \in Backends : t = migration.target
    BY <1>0, <2>1
  <2>3. CASE /\ Initialized(migration.target)
             /\ Moves("asking") /\ migration'.row = migration.row
    <3>1. ~InUse(t)
      BY <2>1, <2>2 DEF InUse, Building
    <3>2. Initialized(t)
      BY <2>2, <2>3
    <3>. QED
      BY <2>1, <2>2, <2>3, <3>1, <3>2, InitializedBackdrop DEF Quiet
  <2>4. CASE migration' = NoMigration /\ SameBackends
    BY <2>1, <2>4, NoMigrationView DEF Backdrop, QuietCaches, Quiet, SameBackends, Replaces, Built
  <2>. QED
    BY <2>1, <2>3, <2>4
<1>3. CASE Ask
  <2>1. SameBackends /\ UNCHANGED <<worker, shared>>
    BY <1>0, <1>3, AskView DEF Ask
  <2>. QED
    BY <1>3, <2>1 DEF Backdrop, Quiet, SameBackends
<1>4. CASE Copy
  <2>1. /\ migration.pc = "copying"
        /\ \/ UNCHANGED resumed
           \/ resumed' = [resumed EXCEPT ![migration.target] =
                                     Resumed(migration.target, migration.row)]
        /\ UNCHANGED <<status, intermediate, worker, shared>>
    BY <1>4, CopyView
  <2>2. ~InUse(migration.target)
    BY <2>1 DEF InUse, Building
  <2>3. \A o \in Backends : resumed'[o] = resumed[o] \/ o = migration.target
    BY <2>1 DEF BackendTypes
  <2>. QED
    BY <1>4, <2>1, <2>2, <2>3 DEF Backdrop, Quiet
<1>5. CASE Swap
  <2>1. PICK s \in Backends, t \in Backends : s = migration.source /\ t = migration.target
    BY <1>0, <1>5 DEF Swap
  <2>2. /\ migration.pc = "swap"
        /\ \/ /\ migration_record' = [migration_record EXCEPT ![s] = t]
              /\ Moves("draining") /\ migration'.row = migration.row
              /\ Ends(s, "shutdown")
           \/ /\ migration' = NoMigration
              /\ status' = [status EXCEPT ![t] = "deleting"]
              /\ UNCHANGED migration_record
        /\ UNCHANGED <<intermediate, resumed, worker, shared>>
    BY <1>5, <2>1, SwapView, Standing
  <2>3. CASE /\ migration_record' = [migration_record EXCEPT ![s] = t]
             /\ Moves("draining") /\ migration'.row = migration.row
             /\ Ends(s, "shutdown")
    <3>1. \A o \in Backends : status[o] = "deleting" => status'[o] = "deleting"
      BY <2>3, EndsView
    <3>2. \A t1, s1 \in Backends : Replaces(t1, s1)' => Replaces(t1, s1)
      <4>1. Replaces(t, s)
        BY <2>1, <2>2 DEF Replaces, Built
      <4>2. \A s1 \in Backends \ {s} : migration_record'[s1] = migration_record[s1]
        BY <2>3 DEF RouterTypes
      <4>3. migration_record'[s] = t
        BY <2>3 DEF RouterTypes
      <4>4. ~Built'
        BY <2>3 DEF Moves, Built
      <4>. QED
        BY <4>1, <4>2, <4>3, <4>4 DEF Replaces
    <3>3. migration'.pc # "copying"
      BY <2>3 DEF Moves
    <3>. QED
      BY <2>2, <2>3, <3>1, <3>2, <3>3 DEF Backdrop, QuietCaches, Quiet
  <2>4. CASE /\ migration' = NoMigration
             /\ status' = [status EXCEPT ![t] = "deleting"]
             /\ UNCHANGED migration_record
    <3>1. \A o \in Backends : status[o] = "deleting" => status'[o] = "deleting"
      BY <2>4 DEF BackendTypes
    <3>. QED
      BY <2>2, <2>4, <3>1, NoMigrationView DEF Backdrop, QuietCaches, Quiet, Replaces, Built
  <2>. QED
    BY <2>2, <2>3, <2>4
<1>6. CASE EndMigration
  <2>1. PICK b : b = migration.source
    OBVIOUS
  <2>2. Kill(b) /\ migration' = NoMigration
    BY <1>6, <2>1 DEF EndMigration
  <2>. QED
    BY <2>2, KillBackdrop
<1>. QED
  BY <1>1, <1>2, <1>3, <1>4, <1>5, <1>6 DEF MigrationAction

(***************************************************************************)
(* The rows of calls are their own                                         *)
(***************************************************************************)

\* The row of a call a backend works for stays as the cache it is resumed from.
LEMMA RowsFrame ==
    ASSUME RouterTypes, BackendTypes, RowsAreOwn, Backdrop, NEW d \in Calls,
           WorkerServes(d), GivenInUse(d), Quiet(d)
    PROVE  GeneratesOwn(d)' /\ (d \notin shared' => ResumesOwn(d)')
<1>1. GeneratesOwn(d) /\ (d \notin shared => ResumesOwn(d)) /\ shared' = shared
  BY DEF RowsAreOwn, Backdrop
<1>2. CASE worker'[d] = worker[d]
  <2>1. worker[d].pc # "none" => resumed'[worker[d].on] = resumed[worker[d].on]
    BY WorkerIsOn DEF Backdrop
  <2>2. GeneratesOwn(d)'
    BY <1>1, <1>2 DEF GeneratesOwn, Generates, Completed
  <2>3. ResumesOwn(d) => ResumesOwn(d)'
    BY <1>2, <2>1 DEF ResumesOwn, Resumes, Returned, Completed
  <2>. QED
    BY <1>1, <2>2, <2>3
<1>3. CASE \E b : DiesOn(d, b)
  BY <1>3 DEF GeneratesOwn, Generates, Completed, ResumesOwn, Resumes, Returned, DiesOn
<1>4. CASE worker'[d].pc = "none"
  BY <1>4 DEF GeneratesOwn, Generates, Completed, ResumesOwn, Resumes, Returned
<1>. QED
  BY <1>2, <1>3, <1>4 DEF Quiet

\* A call that is sent begins with no row, or with the one it was preempted with.
LEMMA SentRows ==
    ASSUME RouterTypes, BackendTypes, RowsAreOwn, \A d \in Calls : WorkerServes(d) /\ GivenInUse(d),
           NEW c \in Calls, Dispatch(c) \/ Resume(c) \/ Return(c)
    PROVE  RowsAreOwn'
<1>1. /\ SameBackends /\ SameInstances /\ SameMigration /\ SameWorkers(c)
      /\ Dispatch(c) => /\ call[c].pc = "assigned"
                        /\ \/ worker'[c] = Sent(call[c].kind, call[c].on, <<>>, MaxTokens)
                           \/ worker'[c].pc = "none"
      /\ Resume(c) => /\ Returned(c)
                      /\ \/ worker'[c] = Sent("resume", migration_record[worker[c].on],
                                              worker[c].row, LeftTokens(worker[c].row))
                         \/ worker'[c].pc = "none"
      /\ Return(c) => worker'[c].pc = "none"
  <2>1. CASE Dispatch(c)
    BY <2>1, DispatchView DEF Sends, Leaves, Resume, Return
  <2>2. CASE Resume(c)
    BY <2>2, ResumeView DEF Sends, Leaves, Returned, Dispatch, Return
  <2>3. CASE Return(c)
    BY <2>3, ReturnView DEF Leaves, Dispatch, Resume
  <2>. QED
    BY <2>1, <2>2, <2>3
<1>2. Backdrop
  BY <1>1, SameBackdrop
<1>3. ASSUME NEW d \in Calls \ {c} PROVE GeneratesOwn(d)' /\ (d \notin shared' => ResumesOwn(d)')
  BY <1>1, <1>2, RowsFrame DEF SameWorkers, Quiet
<1>4. GeneratesOwn(c)' /\ (c \notin shared' => ResumesOwn(c)')
  <2>1. CASE worker'[c].pc = "none"
    BY <2>1 DEF GeneratesOwn, Generates, Completed, ResumesOwn, Resumes, Returned
  <2>2. CASE Dispatch(c) /\ worker'[c] = Sent(call[c].kind, call[c].on, <<>>, MaxTokens)
    <3>1. /\ worker'[c].pc = "sent" /\ worker'[c].kind = call[c].kind
          /\ worker'[c].row = <<>> /\ worker'[c].left = MaxTokens
      BY <2>2 DEF Sent, NoWorker
    <3>2. call[c].kind # "resume"
      BY <1>1, <2>2 DEF WorkerServes
    <3>. QED
      BY <3>1, <3>2 DEF GeneratesOwn, Generates, Completed, ResumesOwn, Resumes, Returned
  <2>3. CASE Resume(c) /\ worker'[c] = Sent("resume", migration_record[worker[c].on],
                                            worker[c].row, LeftTokens(worker[c].row))
    <3>1. /\ worker'[c].pc = "sent" /\ worker'[c].kind = "resume"
          /\ worker'[c].row = worker[c].row /\ worker'[c].left = LeftTokens(worker[c].row)
      BY <2>3 DEF Sent, NoWorker
    <3>2. c \notin shared => MadeOf(c, worker[c].row)
      BY <1>1, <2>3 DEF RowsAreOwn, ResumesOwn
    <3>3. LeftTokens(worker[c].row) = MaxTokens + 1 - Len(worker[c].row)
      <4>1. Len(worker[c].row) \in Nat
        BY Fields DEF Rows
      <4>. QED
        BY <4>1, RouterAssumption DEF LeftTokens
    <3>4. shared' = shared
      BY <1>2 DEF Backdrop
    <3>. QED
      BY <3>1, <3>2, <3>3, <3>4 DEF GeneratesOwn, Generates, Completed, ResumesOwn, Resumes, Returned
  <2>. QED
    BY <1>1, <2>1, <2>2, <2>3
<1>. QED
  BY <1>3, <1>4 DEF RowsAreOwn

\* A row of c's own tokens, and what is left of it.
OwnLeft(c, w) == w.left \in 0 .. MaxTokens /\ w.row = Own(c, MaxTokens + 1 - w.left)

\* The first tokens of a call that is not shared: its prompt, or the row it was
\* preempted with, as the cache is no longer than that.
LEMMA PromptIsOwn ==
    ASSUME RouterTypes, BackendTypes, RowsAreOwn, TokensOfCache, CachesAreBehind, NEW c \in Calls,
           worker[c].on \in Backends, Prompts(c), shared \subseteq shared'
    PROVE  /\ worker[c].kind = "generate" =>
                 PromptRow(c) = <<c>> /\ OwnLeft(c, [left |-> worker[c].left, row |-> PromptRow(c)])
           /\ worker[c].kind = "resume" /\ c \notin shared' =>
                 /\ PromptRow(c) = worker[c].row /\ MadeOf(c, worker[c].row)
                 /\ OwnLeft(c, [left |-> worker[c].left, row |-> PromptRow(c)])
                 /\ IsPrefix(resumed[worker[c].on].cache, worker[c].row)
<1> DEFINE w == worker[c]
           r == resumed[w.on]
<1>1. w.pc = "checked" /\ Marks(c) /\ MaxTokens \in Nat
  BY RouterAssumption DEF Prompts
<1>2. ASSUME w.kind = "generate"
      PROVE  PromptRow(c) = <<c>> /\ OwnLeft(c, [left |-> w.left, row |-> PromptRow(c)])
  <2>1. PromptRow(c) = <<c>>
    BY <1>2 DEF PromptRow
  <2>2. w.left = MaxTokens
    BY <1>1, <1>2 DEF RowsAreOwn, GeneratesOwn, Generates
  <2>3. <<c>> = Own(c, MaxTokens + 1 - MaxTokens)
    <3>1. MaxTokens + 1 - MaxTokens = 1
      BY <1>1
    <3>. QED
      BY <3>1, OwnGrows
  <2>. QED
    BY <1>1, <2>1, <2>2, <2>3 DEF OwnLeft
<1>3. ASSUME w.kind = "resume", c \notin shared'
      PROVE  /\ PromptRow(c) = w.row /\ MadeOf(c, w.row)
             /\ OwnLeft(c, [left |-> w.left, row |-> PromptRow(c)])
             /\ IsPrefix(r.cache, w.row)
  <2>1. r # None /\ w.left > 0 /\ IsPrefix(r.cache, w.row) /\ c \notin shared
    BY <1>1, <1>3 DEF Prompts, Marks
  <2>2. MadeOf(c, w.row) /\ w.left = MaxTokens + 1 - Len(w.row)
    BY <1>1, <1>3, <2>1 DEF RowsAreOwn, ResumesOwn, Resumes
  <2>3. /\ r.cache \in Rows /\ r.tokens \in Rows /\ w.row \in Rows
        /\ Len(r.tokens) <= Len(r.cache) + 1
    BY <2>1, Fields DEF TokensOfCache
  <2>4. Len(w.row) \in Nat \ {0} /\ Len(r.cache) \in Nat /\ Len(r.tokens) \in Nat
    BY <2>2, <2>3, EmptySeq, SMTT(30) DEF Rows, MadeOf
  <2>5. w.row = Own(c, Len(w.row))
    BY <2>2 DEF MadeOf
  <2>6. Len(r.tokens) <= Len(w.row)
    <3>1. CASE r.cache = <<>>
      <4>1. Len(r.cache) = 0
        BY <2>3, <3>1, EmptySeq DEF Rows
      <4>. QED
        BY <2>3, <2>4, <4>1
    <3>2. CASE r.cache # <<>>
      <4>1. PICK n \in Nat : n = Len(w.row)
        BY <2>4
      <4>2. IsPrefix(r.cache, Own(c, n))
        BY <2>1, <2>5, <4>1
      <4>3. c \in ToSet(r.cache)
        BY <2>3, <3>2, <4>2, PrefixOfOwn
      <4>4. CacheBehind(c, w.on) /\ CacheHas(w.on, c)
        BY <2>1, <4>3 DEF CachesAreBehind, CacheHas
      <4>5. Len(r.cache) < Len(w.row)
        BY <1>1, <1>3, <4>4 DEF CacheBehind, Resumes
      <4>. QED
        BY <2>3, <2>4, <4>5
    <3>. QED
      BY <3>1, <3>2
  <2>7. PromptRow(c) = w.row
    <3>1. ~ (Len(w.row) < Len(r.tokens))
      BY <2>4, <2>6
    <3>. QED
      BY <1>3, <3>1 DEF PromptRow
  <2>8. w.left \in 0 .. MaxTokens /\ MaxTokens + 1 - w.left = Len(w.row)
    BY <1>1, <2>1, <2>2, <2>4, SMTT(30)
  <2>9. OwnLeft(c, [left |-> w.left, row |-> PromptRow(c)])
    BY <2>5, <2>7, <2>8 DEF OwnLeft
  <2>. QED
    BY <2>1, <2>2, <2>7, <2>9
<1>. QED
  BY <1>2, <1>3

\* The next token of a call that is not shared is its own.
LEMMA TokenIsOwn ==
    ASSUME RouterTypes, BackendTypes, RowsAreOwn, NEW c \in Calls,
           worker[c].on \in Backends, Continues(c),
           \/ worker[c].kind = "generate"
           \/ worker[c].kind = "resume" /\ c \notin shared
    PROVE  /\ NextToken(c) = <<c>> /\ OwnLeft(c, worker[c]) /\ worker[c].row # <<>>
           /\ OwnLeft(c, [left |-> worker[c].left - 1, row |-> worker[c].row \o NextToken(c)])
           /\ worker[c].kind = "resume" =>
                 IsPrefix(resumed[worker[c].on].cache, worker[c].row)
<1> DEFINE w == worker[c]
<1>1. w.pc = "generating" /\ w.left > 0 /\ MaxTokens \in Nat /\ w.left \in Int
  BY RouterAssumption, Fields DEF Continues
<1>2. /\ OwnLeft(c, w) /\ NextToken(c) = <<c>>
      /\ w.kind = "resume" => IsPrefix(resumed[w.on].cache, w.row)
  <2>1. CASE w.kind = "generate"
    BY <1>1, <2>1 DEF RowsAreOwn, GeneratesOwn, Generates, OwnLeft, NextToken
  <2>2. CASE w.kind = "resume" /\ c \notin shared
    BY <1>1, <2>2 DEF RowsAreOwn, ResumesOwn, Resumes, OwnLeft, NextToken
  <2>. QED
    BY <2>1, <2>2
<1>3. PICK n \in Nat : n = MaxTokens + 1 - w.left
  BY <1>1, <1>2 DEF OwnLeft
<1>4. w.row = Own(c, n) /\ n > 0 /\ n + 1 = MaxTokens + 1 - (w.left - 1)
      /\ w.left - 1 \in 0 .. MaxTokens
  BY <1>1, <1>2, <1>3 DEF OwnLeft
<1>5. w.row \o NextToken(c) = Own(c, n + 1)
  BY <1>2, <1>4, OwnGrows
<1>6. w.row # <<>>
  BY <1>4, OwnRow
<1>. QED
  BY <1>2, <1>4, <1>5, <1>6 DEF OwnLeft

\* What a backend makes for a call is its own.
LEMMA RowsOfWork ==
    ASSUME RouterTypes, BackendTypes, RowsAreOwn, StreamIsKept, TokensOfCache, CachesAreBehind,
           \A d \in Calls : WorkerServes(d) /\ GivenInUse(d), NEW c \in Calls, Work(c)
    PROVE  RowsAreOwn'
<1>1. /\ Active(c) /\ worker[c].on \in Backends /\ shared \subseteq shared'
      /\ UNCHANGED <<status, model, resumed, ending, call, migration, plans>> /\ WorksOn(c)
  BY WorkView
<1>2. SameWorkers(c)
  BY <1>1 DEF WorksOn, ChecksStatus, Fails, Encodes, Prompts, Continues, Completes,
              GivesTokens, GivesAnswer, PutsRow
<1>3. ASSUME NEW d \in Calls \ {c} PROVE GeneratesOwn(d)' /\ (d \notin shared' => ResumesOwn(d)')
  <2>1. GeneratesOwn(d) /\ (d \notin shared => ResumesOwn(d)) /\ worker'[d] = worker[d]
    BY <1>2 DEF RowsAreOwn, SameWorkers
  <2>2. GeneratesOwn(d)'
    BY <2>1 DEF GeneratesOwn, Generates, Completed
  <2>3. ResumesOwn(d) => ResumesOwn(d)'
    BY <1>1, <2>1 DEF ResumesOwn, Resumes, Returned, Completed
  <2>. QED
    BY <1>1, <2>1, <2>2, <2>3
<1>4. /\ GeneratesOwn(c) /\ (c \notin shared => ResumesOwn(c))
      /\ worker[c].kind \in {"generate", "encode", "resume"} /\ WorkerServes(c)
  BY <1>1, WorkerIsOn DEF RowsAreOwn, Active
<1> DEFINE G == GeneratesOwn(c)' /\ (c \notin shared' => ResumesOwn(c)')
<1>5. ASSUME ChecksStatus(c) PROVE G
  <2>1. GeneratesOwn(c)'
    BY <1>4, <1>5 DEF ChecksStatus, GeneratesOwn, Generates, Completed
  <2>2. ResumesOwn(c) => ResumesOwn(c)'
    BY <1>5 DEF ChecksStatus, ResumesOwn, Resumes, Returned, Completed
  <2>. QED
    BY <1>1, <1>4, <2>1, <2>2
<1>6. ASSUME Fails(c) PROVE G
  BY <1>6 DEF Fails, GivesAnswer, GeneratesOwn, Generates, Completed, ResumesOwn, Resumes, Returned
<1>7. ASSUME Encodes(c) PROVE G
  BY <1>7 DEF Encodes, GivesAnswer, GeneratesOwn, Generates, Completed, ResumesOwn, Resumes, Returned
<1>8. ASSUME Prompts(c) PROVE G
  <2>1. /\ worker'[c].pc \in {"preempted", "generating"} /\ worker'[c].kind = worker[c].kind
        /\ worker'[c].on = worker[c].on
        /\ worker'[c].row = PromptRow(c) /\ worker'[c].left = worker[c].left
    BY <1>8 DEF Prompts, PutsRow
  <2>2. CASE worker[c].kind = "generate"
    <3>1. OwnLeft(c, [left |-> worker[c].left, row |-> PromptRow(c)])
      BY <1>1, <1>8, <2>2, PromptIsOwn
    <3>. QED
      BY <2>1, <2>2, <3>1 DEF OwnLeft, GeneratesOwn, Generates, Completed, ResumesOwn, Resumes, Returned
  <2>3. CASE worker[c].kind = "resume"
    <3>1. c \notin shared' =>
             /\ PromptRow(c) = worker[c].row
             /\ OwnLeft(c, [left |-> worker[c].left, row |-> PromptRow(c)])
             /\ IsPrefix(resumed[worker[c].on].cache, worker[c].row)
      BY <1>1, <1>8, <2>3, PromptIsOwn
    <3>2. resumed[worker[c].on] # None
      BY <1>8, <2>3 DEF Prompts
    <3>. QED
      BY <1>1, <2>1, <2>3, <3>1, <3>2 DEF OwnLeft, GeneratesOwn, Generates, Completed, ResumesOwn, Resumes, Returned
  <2>. QED
    BY <1>4, <1>8, <2>2, <2>3 DEF Prompts
<1>9. ASSUME Continues(c) PROVE G
  <2>1. /\ worker'[c].pc \in {"preempted", "generating"} /\ worker'[c].kind = worker[c].kind
        /\ worker'[c].on = worker[c].on
        /\ worker'[c].row = worker[c].row \o NextToken(c) /\ worker'[c].left = worker[c].left - 1
    BY <1>9 DEF Continues, PutsRow
  <2>2. worker[c].kind # "encode"
    BY <1>4, <1>9 DEF WorkerServes, Continues
  <2>3. CASE worker[c].kind = "generate"
    <3>1. OwnLeft(c, [left |-> worker[c].left - 1, row |-> worker[c].row \o NextToken(c)])
      BY <1>1, <1>9, <2>3, TokenIsOwn
    <3>. QED
      BY <2>1, <2>3, <3>1 DEF OwnLeft, GeneratesOwn, Generates, Completed, ResumesOwn, Resumes, Returned
  <2>4. CASE worker[c].kind = "resume"
    <3>1. ASSUME c \notin shared'
          PROVE  /\ OwnLeft(c, [left |-> worker[c].left - 1, row |-> worker[c].row \o NextToken(c)])
                 /\ resumed[worker[c].on] # None
                 /\ IsPrefix(resumed[worker[c].on].cache, worker[c].row \o NextToken(c))
      <4>1. c \notin shared
        BY <1>1, <3>1
      <4>2. /\ OwnLeft(c, [left |-> worker[c].left - 1, row |-> worker[c].row \o NextToken(c)])
            /\ IsPrefix(resumed[worker[c].on].cache, worker[c].row)
        BY <1>1, <1>9, <2>4, <4>1, TokenIsOwn
      <4>3. resumed[worker[c].on] # None
        BY <1>9, <2>4, <4>1, <1>4 DEF Continues, ResumesOwn, Resumes
      <4>4. resumed[worker[c].on].cache \in Rows /\ worker[c].row \in Rows /\ NextToken(c) \in Rows
        BY <1>1, <4>3, Fields, WorkRows
      <4>. QED
        BY <4>2, <4>3, <4>4, PrefixElements DEF Rows
    <3>. QED
      BY <1>1, <2>1, <2>4, <3>1 DEF OwnLeft, GeneratesOwn, Generates, Completed, ResumesOwn, Resumes, Returned
  <2>. QED
    BY <1>4, <2>2, <2>3, <2>4
<1>10. ASSUME Completes(c) PROVE G
  <2>1. /\ worker[c].pc = "generating" /\ worker[c].left = 0
        /\ worker'[c].pc = "answered" /\ worker'[c].kind = worker[c].kind
        /\ worker'[c].result = "ok" /\ worker'[c].row = worker[c].row
    BY <1>10 DEF Completes, GivesAnswer
  <2>2. MaxTokens + 1 - 0 = MaxTokens + 1
    BY RouterAssumption
  <2>3. GeneratesOwn(c)'
    BY <1>4, <2>1, <2>2 DEF GeneratesOwn, Generates, Completed
  <2>4. ResumesOwn(c) => ResumesOwn(c)'
    BY <2>1, <2>2 DEF ResumesOwn, Resumes, Returned, Completed
  <2>. QED
    BY <1>1, <1>4, <2>3, <2>4
<1>11. ASSUME GivesTokens(c) PROVE G
  <2>1. /\ worker[c].pc = "preempted" /\ worker[c].kind # "resume"
        /\ intermediate[worker[c].on].row # <<>>
        /\ worker'[c].pc = "answered" /\ worker'[c].kind = worker[c].kind
        /\ worker'[c].result = "preempted" /\ worker'[c].row = intermediate[worker[c].on].row
    BY <1>11 DEF GivesTokens, GivesAnswer
  <2>2. GeneratesOwn(c)'
    BY <2>1 DEF GeneratesOwn, Generates, Completed
  <2>3. ASSUME c \notin shared' PROVE ResumesOwn(c)'
    <3>1. worker[c].kind = "generate" /\ c \notin shared
      BY <1>1, <1>4, <2>1, <2>3 DEF WorkerServes
    <3>2. worker'[c].row = worker[c].row
      BY <1>1, <2>1, <3>1 DEF StreamIsKept, Streaming
    <3>3. worker[c].left \in 0 .. MaxTokens /\ worker[c].row = Own(c, MaxTokens + 1 - worker[c].left)
      BY <1>4, <2>1, <3>1 DEF GeneratesOwn, Generates
    <3>4. PICK n \in Nat : n = MaxTokens + 1 - worker[c].left
      BY <3>3, RouterAssumption
    <3>5. worker[c].row = Own(c, Len(worker[c].row))
      BY <3>3, <3>4, OwnRow
    <3>6. MadeOf(c, worker'[c].row)
      BY <2>1, <3>2, <3>5 DEF MadeOf
    <3>. QED
      BY <2>1, <3>6 DEF ResumesOwn, Resumes, Returned, Completed
  <2>. QED
    BY <2>2, <2>3
<1>12. G
  <2> HIDE DEF G
  <2>. QED
    BY <1>1, <1>5, <1>6, <1>7, <1>8, <1>9, <1>10, <1>11 DEF WorksOn
<1>. QED
  BY <1>3, <1>12 DEF RowsAreOwn

(***************************************************************************)
(* The tokens that stream                                                  *)
(***************************************************************************)

\* A worker that goes on as it was, or has nothing in an intermediate.
Settled(c) ==
    \/ worker'[c] = worker[c]
    \/ worker'[c].pc \in {"none", "sent"}
    \/ worker'[c].pc = "answered" /\ worker'[c].result = "raised"

\* What generates nothing leaves the tokens that stream.
LEMMA StreamsFrame ==
    ASSUME RouterTypes, BackendTypes, StreamsStand, Backdrop,
           \A d \in Calls : WorkerServes(d) /\ GivenInUse(d) /\ Settled(d)
    PROVE  StreamsStand'
<1>1. \A d \in Calls : \A b \in Backends :
         Streaming(d, b)' => /\ Streaming(d, b) /\ worker'[d] = worker[d] /\ InUse(b)
                             /\ intermediate'[b] = intermediate[b]
  <2>1. ASSUME NEW d \in Calls, NEW b \in Backends, Streaming(d, b)'
        PROVE  Streaming(d, b) /\ worker'[d] = worker[d] /\ InUse(b)
    <3>1. worker'[d] = worker[d]
      BY <2>1 DEF Settled, Streaming
    <3>2. Streaming(d, b)
      BY <2>1, <3>1 DEF Streaming
    <3>3. worker[d].pc # "none" /\ worker[d].on = b
      BY <3>2 DEF Streaming
    <3>. QED
      BY <3>1, <3>2, <3>3, WorkerIsOn
  <2>. QED
    BY <2>1 DEF Backdrop
<1>2. FlatHasRow'
  BY DEF StreamsStand, FlatHasRow, Backdrop, Nothing
<1>3. PreemptedIsDeleting'
  <2>1. ASSUME NEW d \in Calls, (worker[d].pc = "preempted" \/ Returned(d))'
        PROVE  status'[worker'[d].on] = "deleting"
    <3>1. worker'[d] = worker[d] /\ (worker[d].pc = "preempted" \/ Returned(d))
      BY <2>1 DEF Settled, Returned
    <3>2. status[worker[d].on] = "deleting"
      BY <3>1 DEF StreamsStand, PreemptedIsDeleting
    <3>3. worker[d].on \in Backends /\ InUse(worker[d].on)
      BY <3>1, WorkerIsOn DEF Returned
    <3>. QED
      BY <3>1, <3>2, <3>3 DEF Backdrop
  <2>. QED
    BY <2>1 DEF PreemptedIsDeleting
<1>4. MeetingIsShared'
  BY <1>1 DEF StreamsStand, MeetingIsShared, Backdrop
<1>5. StreamIsKept'
  BY <1>1 DEF StreamsStand, StreamIsKept, Backdrop
<1>. QED
  BY <1>2, <1>3, <1>4, <1>5 DEF StreamsStand

\* c puts tokens: who meets it is marked, and a call that meets no other has
\* its row in the intermediate.
LEMMA PutStreams ==
    ASSUME RouterTypes, BackendTypes, StreamsStand, NEW c \in Calls, worker[c].on \in Backends,
           shared \subseteq shared', UNCHANGED status, Marks(c),
           NEW value, NEW prompt \in BOOLEAN, NEW row, NEW left,
           PutsRow(c, value, prompt, row, left), prompt \/ value # <<>>,
           c \notin shared' => \/ prompt /\ value = row /\ intermediate[worker[c].on].row = <<>>
                               \/ /\ ~prompt /\ worker[c].pc = "generating"
                                  /\ row = worker[c].row \o value /\ worker[c].row # <<>>
    PROVE  StreamsStand'
<1> DEFINE b == worker[c].on
           old == intermediate[b]
           new == intermediate'[b]
<1>1. /\ SameWorkers(c) /\ worker'[c].on = b /\ worker'[c].row = row
      /\ worker'[c].pc = (IF status[b] = "deleting" THEN "preempted" ELSE "generating")
      /\ \A o \in Backends \ {b} : intermediate'[o] = intermediate[o]
      /\ \/ old.row = <<>> /\ new.row = value /\ new.flat = ~prompt
         \/ /\ old.row # <<>> /\ ~old.flat /\ ~new.flat
            /\ new.row = old.row \o (IF prompt THEN <<Foreign>> ELSE value)
  BY DEF PutsRow
<1>2. /\ \A d \in Calls \ {c} : Streaming(d, b) => d \in shared' /\ c \in shared'
      /\ worker[c].pc = "checked" /\ old.row # <<>> => c \in shared'
  BY DEF Marks
<1>3. FlatHasRow'
  <2>1. new.flat => new.row # <<>>
    BY <1>1
  <2>2. ASSUME NEW o \in Backends \ {b} PROVE intermediate'[o].flat => intermediate'[o].row # <<>>
    BY <1>1 DEF StreamsStand, FlatHasRow
  <2>. QED
    BY <2>1, <2>2 DEF FlatHasRow
<1>4. PreemptedIsDeleting'
  <2>1. ASSUME NEW d \in Calls, (worker[d].pc = "preempted" \/ Returned(d))'
        PROVE  status'[worker'[d].on] = "deleting"
    <3>1. CASE d = c
      BY <1>1, <2>1, <3>1 DEF Returned
    <3>2. CASE d # c
      BY <1>1, <2>1, <3>2 DEF Returned, SameWorkers, StreamsStand, PreemptedIsDeleting
    <3>. QED
      BY <3>1, <3>2
  <2>. QED
    BY <2>1 DEF PreemptedIsDeleting
<1>5. \A d \in Calls \ {c} : \A o \in Backends : Streaming(d, o)' <=> Streaming(d, o)
  BY <1>1 DEF Streaming, SameWorkers
<1>6. \A o \in Backends : Streaming(c, o)' => o = b
  BY <1>1 DEF Streaming
<1>7. MeetingIsShared'
  <2>1. ASSUME NEW d \in Calls, NEW e \in Calls, NEW o \in Backends,
               d # e, Streaming(d, o)', Streaming(e, o)'
        PROVE  d \in shared'
    <3>1. CASE d = c
      BY <1>2, <1>5, <1>6, <2>1, <3>1
    <3>2. CASE e = c
      BY <1>2, <1>5, <1>6, <2>1, <3>2
    <3>3. CASE d # c /\ e # c
      BY <1>5, <2>1, <3>3 DEF StreamsStand, MeetingIsShared
    <3>. QED
      BY <3>1, <3>2, <3>3
  <2>. QED
    BY <2>1 DEF MeetingIsShared
<1>8. StreamIsKept'
  <2>1. ASSUME NEW d \in Calls, NEW o \in Backends, Streaming(d, o)', d \notin shared'
        PROVE  intermediate'[o].row = worker'[d].row /\ ~intermediate'[o].flat
    <3>1. CASE d = c
      <4>1. o = b /\ c \notin shared /\ c \notin shared'
        BY <1>6, <2>1, <3>1
      <4>2. CASE prompt /\ value = row /\ old.row = <<>>
        BY <1>1, <3>1, <4>1, <4>2
      <4>3. CASE /\ ~prompt /\ worker[c].pc = "generating"
                 /\ row = worker[c].row \o value /\ worker[c].row # <<>>
        <5>1. old.row = worker[c].row /\ ~old.flat
          BY <4>1, <4>3 DEF StreamsStand, StreamIsKept, Streaming
        <5>. QED
          BY <1>1, <3>1, <4>1, <4>3, <5>1
      <4>. QED
        BY <4>1, <4>2, <4>3
    <3>2. CASE d # c
      <4>1. Streaming(d, o) /\ d \notin shared /\ worker'[d] = worker[d]
        BY <1>1, <1>5, <2>1, <3>2 DEF SameWorkers
      <4>2. o # b
        BY <1>2, <2>1, <3>2, <4>1
      <4>. QED
        BY <1>1, <4>1, <4>2 DEF StreamsStand, StreamIsKept
    <3>. QED
      BY <3>1, <3>2
  <2>. QED
    BY <2>1 DEF StreamIsKept
<1>. QED
  BY <1>3, <1>4, <1>7, <1>8 DEF StreamsStand

\* c has its answer, or has only looked at the status.
LEMMA AnswerStreams ==
    ASSUME RouterTypes, BackendTypes, StreamsStand, NEW c \in Calls, worker[c].on \in Backends,
           shared \subseteq shared', UNCHANGED status, SameWorkers(c),
           worker'[c].pc \in {"checked", "answered"},
           Returned(c)' => worker[c].pc = "preempted" /\ worker'[c].on = worker[c].on,
           \/ UNCHANGED intermediate
           \/ ClearsRow(worker[c].on) /\ Streaming(c, worker[c].on)
    PROVE  StreamsStand'
<1> DEFINE b == worker[c].on
<1>1. \A o \in Backends :
         \/ intermediate'[o] = intermediate[o]
         \/ o = b /\ intermediate'[o] = Nothing /\ Streaming(c, b)
  BY DEF ClearsRow, BackendTypes
<1>2. \A d \in Calls : \A o \in Backends :
         Streaming(d, o)' => d # c /\ Streaming(d, o) /\ worker'[d] = worker[d]
  BY DEF Streaming, SameWorkers
<1>3. FlatHasRow'
  BY <1>1 DEF StreamsStand, FlatHasRow, Nothing
<1>4. PreemptedIsDeleting'
  <2>1. ASSUME NEW d \in Calls, (worker[d].pc = "preempted" \/ Returned(d))'
        PROVE  status'[worker'[d].on] = "deleting"
    <3>1. CASE d = c
      BY <2>1, <3>1 DEF StreamsStand, PreemptedIsDeleting
    <3>2. CASE d # c
      BY <2>1, <3>2 DEF Returned, SameWorkers, StreamsStand, PreemptedIsDeleting
    <3>. QED
      BY <3>1, <3>2
  <2>. QED
    BY <2>1 DEF PreemptedIsDeleting
<1>5. MeetingIsShared'
  BY <1>2 DEF StreamsStand, MeetingIsShared
<1>6. StreamIsKept'
  <2>1. ASSUME NEW d \in Calls, NEW o \in Backends, Streaming(d, o)', d \notin shared'
        PROVE  intermediate'[o].row = worker'[d].row /\ ~intermediate'[o].flat
    <3>1. d # c /\ Streaming(d, o) /\ worker'[d] = worker[d] /\ d \notin shared
      BY <1>2, <2>1
    <3>2. intermediate'[o] = intermediate[o]
      <4>1. o = b /\ Streaming(c, b) => d \in shared
        BY <3>1 DEF StreamsStand, MeetingIsShared
      <4>. QED
        BY <1>1, <3>1, <4>1
    <3>. QED
      BY <3>1, <3>2 DEF StreamsStand, StreamIsKept
  <2>. QED
    BY <2>1 DEF StreamIsKept
<1>. QED
  BY <1>3, <1>4, <1>5, <1>6 DEF StreamsStand

\* What a backend does for a call.
LEMMA StreamsOfWork ==
    ASSUME RouterTypes, BackendTypes, RowsAreOwn, StreamsStand,
           \A d \in Calls : WorkerServes(d) /\ GivenInUse(d), NEW c \in Calls, Work(c)
    PROVE  StreamsStand'
<1>1. /\ Active(c) /\ worker[c].on \in Backends /\ shared \subseteq shared'
      /\ UNCHANGED status /\ WorksOn(c)
  BY WorkView
<1>2. worker[c].kind \in {"generate", "encode", "resume"}
  BY <1>1, WorkerIsOn DEF Active
<1>3. ASSUME ChecksStatus(c) PROVE StreamsStand'
  <2>1. /\ SameWorkers(c) /\ worker'[c].pc = "checked" /\ UNCHANGED intermediate
    BY <1>3 DEF ChecksStatus
  <2>2. ~Returned(c)'
    BY <2>1 DEF Returned
  <2>. QED
    BY <1>1, <2>1, <2>2, AnswerStreams
<1>4. ASSUME Fails(c) PROVE StreamsStand'
  <2>1. /\ SameWorkers(c) /\ worker'[c].pc = "answered" /\ worker'[c].result # "preempted"
        /\ UNCHANGED intermediate \/ (worker[c].pc = "preempted" /\ ClearsRow(worker[c].on))
    BY <1>4 DEF Fails, GivesAnswer
  <2>2. ~Returned(c)'
    BY <2>1 DEF Returned
  <2>3. worker[c].pc = "preempted" => Streaming(c, worker[c].on)
    BY DEF Streaming
  <2>. QED
    BY <1>1, <2>1, <2>2, <2>3, AnswerStreams
<1>5. ASSUME Encodes(c) PROVE StreamsStand'
  <2>1. /\ SameWorkers(c) /\ worker'[c].pc = "answered" /\ worker'[c].result = "ok"
        /\ UNCHANGED intermediate
    BY <1>5 DEF Encodes, GivesAnswer
  <2>2. ~Returned(c)'
    BY <2>1 DEF Returned
  <2>. QED
    BY <1>1, <2>1, <2>2, AnswerStreams
<1>6. ASSUME Prompts(c) PROVE StreamsStand'
  <2>1. PICK row, left : row = PromptRow(c) /\ left = worker[c].left
    OBVIOUS
  <2>2. PutsRow(c, row, TRUE, row, left) /\ Marks(c) /\ worker[c].pc = "checked"
    BY <1>6, <2>1 DEF Prompts
  <2>3. c \notin shared' => intermediate[worker[c].on].row = <<>>
    BY <2>2 DEF Marks
  <2>. QED
    BY <1>1, <2>2, <2>3, PutStreams
<1>7. ASSUME Continues(c) PROVE StreamsStand'
  <2>1. PICK value, row, left : /\ value = NextToken(c) /\ left = worker[c].left - 1
                                /\ row = worker[c].row \o NextToken(c)
    OBVIOUS
  <2>2. PutsRow(c, value, FALSE, row, left) /\ Marks(c) /\ worker[c].pc = "generating"
    BY <1>7, <2>1 DEF Continues
  <2>3. value # <<>>
    BY <2>1 DEF NextToken
  <2>4. worker[c].kind # "encode"
    BY <2>2 DEF WorkerServes
  <2>5. c \notin shared' => worker[c].row # <<>>
    <3>1. ASSUME c \notin shared' PROVE worker[c].row # <<>>
      <4>1. c \notin shared
        BY <1>1, <3>1
      <4>. QED
        BY <1>1, <1>2, <1>7, <2>4, <4>1, TokenIsOwn
    <3>. QED
      BY <3>1
  <2>6. c \notin shared' => row = worker[c].row \o value /\ worker[c].row # <<>>
    BY <2>1, <2>5
  <2>. QED
    BY <1>1, <2>2, <2>3, <2>6, PutStreams
<1>8. ASSUME Completes(c) PROVE StreamsStand'
  <2>1. /\ SameWorkers(c) /\ worker'[c].pc = "answered" /\ worker'[c].result = "ok"
        /\ worker[c].pc = "generating" /\ ClearsRow(worker[c].on)
    BY <1>8 DEF Completes, GivesAnswer
  <2>2. ~Returned(c)' /\ Streaming(c, worker[c].on)
    BY <2>1 DEF Returned, Streaming
  <2>. QED
    BY <1>1, <2>1, <2>2, AnswerStreams
<1>9. ASSUME GivesTokens(c) PROVE StreamsStand'
  <2>1. /\ SameWorkers(c) /\ worker'[c].pc = "answered" /\ worker'[c].on = worker[c].on
        /\ worker[c].pc = "preempted" /\ ClearsRow(worker[c].on)
    BY <1>9 DEF GivesTokens, GivesAnswer
  <2>2. Streaming(c, worker[c].on)
    BY <2>1 DEF Streaming
  <2>. QED
    BY <1>1, <2>1, <2>2, AnswerStreams
<1>. QED
  BY <1>1, <1>3, <1>4, <1>5, <1>6, <1>7, <1>8, <1>9 DEF WorksOn

(***************************************************************************)
(* Tokens of a call that no model has begun                                *)
(***************************************************************************)

\* What generates nothing brings tokens only where some of the call were before.
LEMMA EarlyFrame ==
    ASSUME NothingEarly, Backdrop,
           \A d \in Calls : NotBegun(d)' => NotBegun(d),
           \A b \in Backends : \A d \in Calls :
               resumed'[b] # None /\ d \in ToSet(resumed'[b].cache) \cup ToSet(resumed'[b].tokens) =>
                  \/ resumed'[b] = resumed[b]
                  \/ CacheHas(b, d) \/ d \in ToSet(migration.row),
           \/ migration'.row \in {migration.row, <<>>}
           \/ \E b \in Backends : migration'.row = intermediate[b].row,
           \A d \in Calls : worker'[d].row \in {<<>>, worker[d].row}
    PROVE  NothingEarly'
<1>1. ASSUME NEW c \in Calls, NotBegun(c)'
      PROVE  NowhereYet(c)'
  <2>1. NowhereYet(c) /\ c \notin ToSet(<<>>)
    BY <1>1, EmptyElements DEF NothingEarly
  <2>2. ASSUME NEW b \in Backends PROVE c \notin ToSet(intermediate'[b].row)
    BY <2>1 DEF NowhereYet, Nothing, Backdrop
  <2>3. ASSUME NEW b \in Backends, resumed'[b] # None
        PROVE  c \notin ToSet(resumed'[b].cache) /\ c \notin ToSet(resumed'[b].tokens)
    BY <2>1, <2>3 DEF NowhereYet, CacheHas
  <2>4. c \notin ToSet(migration'.row)
    BY <2>1 DEF NowhereYet
  <2>5. ASSUME NEW d \in Calls PROVE c \notin ToSet(worker'[d].row)
    BY <2>1 DEF NowhereYet
  <2>. QED
    BY <2>2, <2>3, <2>4, <2>5 DEF NowhereYet
<1>. QED
  BY <1>1 DEF NothingEarly

\* A row with nothing but the tokens of c and of calls that have some somewhere.
Within(c, row) == \A e \in Calls : e \in ToSet(row) => e = c \/ ~NowhereYet(e)

\* The rows that a backend works with are within, and so is what it makes.
LEMMA WithinRows ==
    ASSUME RouterTypes, BackendTypes, NEW c \in Calls, worker[c].on \in Backends
    PROVE  /\ Within(c, <<c>>) /\ Within(c, <<Foreign>>) /\ Within(c, <<>>)
           /\ Within(c, worker[c].row) /\ Within(c, PromptRow(c)) /\ Within(c, NextToken(c))
           /\ \A b \in Backends : Within(c, intermediate[b].row)
           /\ \A r, t \in Rows : Within(c, r) /\ Within(c, t) => Within(c, r \o t)
<1>1. ToSet(<<c>>) = {c} /\ ToSet(<<Foreign>>) = {Foreign} /\ ToSet(<<>>) = {}
  BY EmptyElements DEF ToSet
<1>2. Within(c, <<c>>) /\ Within(c, <<Foreign>>) /\ Within(c, <<>>)
  BY <1>1, RouterAssumption DEF Within
<1>3. Within(c, worker[c].row) /\ \A b \in Backends : Within(c, intermediate[b].row)
  BY DEF Within, NowhereYet
<1>4. ASSUME resumed[worker[c].on] # None PROVE Within(c, resumed[worker[c].on].tokens)
  BY <1>4 DEF Within, NowhereYet
<1>5. Within(c, PromptRow(c))
  <2>1. PromptRow(c) \in {<<c>>, worker[c].row}
           \/ (resumed[worker[c].on] # None /\ PromptRow(c) = resumed[worker[c].on].tokens)
    BY DEF PromptRow
  <2>. QED
    BY <1>2, <1>3, <1>4, <2>1
<1>6. Within(c, NextToken(c))
  BY <1>2 DEF NextToken
<1>7. ASSUME NEW r \in Rows, NEW t \in Rows, Within(c, r), Within(c, t) PROVE Within(c, r \o t)
  <2>1. ToSet(r \o t) = ToSet(r) \cup ToSet(t)
    BY ConcatElements DEF Rows
  <2>. QED
    BY <1>7, <2>1 DEF Within
<1>. QED
  BY <1>2, <1>3, <1>5, <1>6, <1>7

\* A call that a backend works for brings no tokens of a call that is not begun.
LEMMA EarlyOfWork ==
    ASSUME RouterTypes, BackendTypes, NothingEarly,
           \A d \in Calls : WorkerServes(d) /\ GivenInUse(d), NEW c \in Calls, Work(c)
    PROVE  NothingEarly'
<1>1. /\ Active(c) /\ worker[c].on \in Backends
      /\ UNCHANGED <<status, model, resumed, ending, call, migration>> /\ WorksOn(c)
  BY WorkView
<1>2. /\ Within(c, <<c>>) /\ Within(c, <<Foreign>>) /\ Within(c, <<>>)
      /\ Within(c, worker[c].row) /\ Within(c, PromptRow(c)) /\ Within(c, NextToken(c))
      /\ \A b \in Backends : Within(c, intermediate[b].row)
      /\ \A r, t \in Rows : Within(c, r) /\ Within(c, t) => Within(c, r \o t)
  BY <1>1, WithinRows
<1>3. /\ worker[c].row \in Rows /\ NextToken(c) \in Rows /\ PromptRow(c) \in Rows
      /\ <<Foreign>> \in Rows /\ \A b \in Backends : intermediate[b].row \in Rows
  BY <1>1, Fields, WorkRows DEF Rows
<1>4. SameWorkers(c)
  BY <1>1 DEF WorksOn, ChecksStatus, Fails, Encodes, Prompts, Continues, Completes,
              GivesTokens, GivesAnswer, PutsRow
<1>5. ASSUME NEW value \in Rows, Within(c, value), NEW prompt \in BOOLEAN, NEW row, NEW left,
             PutsRow(c, value, prompt, row, left)
      PROVE  \A b \in Backends : Within(c, intermediate'[b].row)
  <2>1. PICK b \in Backends : b = worker[c].on
    BY <1>1
  <2>2. ASSUME NEW o \in Backends \ {b} PROVE Within(c, intermediate'[o].row)
    BY <1>2, <1>5, <2>1 DEF PutsRow
  <2>3. Within(c, intermediate'[b].row)
    <3>1. \/ intermediate'[b].row = value
          \/ intermediate'[b].row = intermediate[b].row \o <<Foreign>>
          \/ intermediate'[b].row = intermediate[b].row \o value
      BY <1>5, <2>1 DEF PutsRow
    <3>2. PICK old \in Rows : old = intermediate[b].row
      BY <1>3
    <3>3. Within(c, old \o <<Foreign>>) /\ Within(c, old \o value)
      BY <1>2, <1>3, <1>5, <3>2
    <3>. QED
      BY <1>5, <3>1, <3>2, <3>3
  <2>. QED
    BY <2>2, <2>3
<1>6. \A b \in Backends : Within(c, intermediate'[b].row)
  <2>1. CASE UNCHANGED intermediate
    BY <1>2, <2>1
  <2>2. CASE ClearsRow(worker[c].on)
    BY <1>2, <2>2 DEF ClearsRow, BackendTypes, Nothing
  <2>3. CASE Prompts(c)
    <3>1. PICK row \in Rows : row = PromptRow(c)
      BY <1>3
    <3>2. PICK left : left = worker[c].left
      OBVIOUS
    <3>3. PutsRow(c, row, TRUE, row, left) /\ Within(c, row)
      BY <1>2, <2>3, <3>1, <3>2 DEF Prompts
    <3>. QED
      BY <1>5, <3>3
  <2>4. CASE Continues(c)
    <3>1. PICK value \in Rows : value = NextToken(c)
      BY <1>3
    <3>2. PICK row, left : left = worker[c].left - 1 /\ row = worker[c].row \o value
      OBVIOUS
    <3>3. PutsRow(c, value, FALSE, row, left) /\ Within(c, value)
      BY <1>2, <2>4, <3>1, <3>2 DEF Continues
    <3>. QED
      BY <1>5, <3>3
  <2>. QED
    BY <1>1, <2>1, <2>2, <2>3, <2>4 DEF WorksOn, ChecksStatus, Fails, Encodes, Completes, GivesTokens
<1>7. Within(c, worker'[c].row)
  <2>1. PICK r \in Rows, t \in Rows : r = worker[c].row /\ t = NextToken(c)
    BY <1>3
  <2>2. Within(c, r \o t)
    BY <1>2, <2>1
  <2>3. \/ worker'[c].row \in {<<>>, <<c>>, worker[c].row, PromptRow(c), r \o t}
        \/ worker'[c].row = intermediate[worker[c].on].row
    BY <1>1, <2>1 DEF WorksOn, ChecksStatus, Fails, Encodes, Prompts, Continues, Completes,
              GivesTokens, GivesAnswer, PutsRow
  <2>. QED
    BY <1>1, <1>2, <2>2, <2>3
<1>8. ASSUME NEW d \in Calls, NotBegun(d)'
      PROVE  /\ NotBegun(d)
             /\ d = c => UNCHANGED intermediate /\ worker'[c].row = worker[c].row
  <2>1. CASE d # c
    BY <1>1, <1>4, <1>8, <2>1 DEF NotBegun, SameWorkers
  <2>2. CASE d = c
    <3>1. call[c].pc \in {"executing", "resuming"}
      BY <1>1, WorkerIsOn DEF Active
    <3>2. worker'[c].pc \in {"sent", "checked"} /\ call[c].pc = "executing"
      BY <1>1, <1>8, <2>2, <3>1 DEF NotBegun
    <3>3. ChecksStatus(c)
      BY <1>1, <3>2 DEF WorksOn, Fails, Encodes, Prompts, Continues, Completes,
              GivesTokens, GivesAnswer, PutsRow
    <3>. QED
      BY <2>2, <3>2, <3>3 DEF ChecksStatus, NotBegun
  <2>. QED
    BY <2>1, <2>2
<1>9. ASSUME NEW d \in Calls, NotBegun(d)' PROVE NowhereYet(d)'
  <2>1. NowhereYet(d)
    BY <1>8, <1>9 DEF NothingEarly
  <2>2. ASSUME NEW b \in Backends PROVE d \notin ToSet(intermediate'[b].row)
    <3>1. CASE d = c
      BY <1>8, <1>9, <2>1, <3>1 DEF NowhereYet
    <3>2. CASE d # c
      BY <1>6, <2>1, <3>2 DEF Within
    <3>. QED
      BY <3>1, <3>2
  <2>3. ASSUME NEW e \in Calls PROVE d \notin ToSet(worker'[e].row)
    <3>1. CASE e # c
      BY <1>4, <2>1, <3>1 DEF NowhereYet, SameWorkers
    <3>2. CASE e = c /\ d = c
      BY <1>8, <1>9, <2>1, <3>2 DEF NowhereYet
    <3>3. CASE e = c /\ d # c
      BY <1>7, <2>1, <3>3 DEF Within
    <3>. QED
      BY <3>1, <3>2, <3>3
  <2>. QED
    BY <1>1, <2>1, <2>2, <2>3 DEF NowhereYet
<1>. QED
  BY <1>9 DEF NothingEarly

(***************************************************************************)
(* The caches that calls are resumed from                                  *)
(***************************************************************************)

\* A worker that has no part in a migration.
Aside(c) ==
    \/ worker'[c].pc \in {"none", "checked"} /\ worker'[c].kind # "resume"
    \/ worker'[c].pc = "none"
    \/ worker'[c].pc = "sent" /\ worker'[c].kind # "resume"
    \/ worker'[c].pc = "answered" /\ worker'[c].result # "preempted"
    \/ worker'[c].pc \in {"generating", "preempted"} /\ worker'[c].kind # "generate"

\* Nothing is asked of a cache or a copy for it.
LEMMA AsideStands ==
    ASSUME NEW c, Aside(c)
    PROVE  CopyIsBehind(c)' /\ \A t \in Backends : CacheBehind(c, t)'
BY DEF Aside, CopyIsBehind, CacheBehind, Generates, Resumes, Returned

\* The cache of an instance is no newer for a worker that goes on as it was.
LEMMA BehindFrame ==
    ASSUME RouterTypes, BackendTypes, InstancesStand, QuietCaches, NEW c \in Calls,
           WorkerServes(c), GivenInUse(c), Quiet(c),
           CopyIsBehind(c), \A t \in Backends : CacheBehind(c, t)
    PROVE  CopyIsBehind(c)' /\ \A t \in Backends : CacheBehind(c, t)'
<1>1. ASSUME worker'[c] = worker[c], worker[c].pc # "none"
      PROVE  CopyIsBehind(c)' /\ \A t \in Backends : CacheBehind(c, t)'
  <2>1. worker[c].on \in Backends
    BY <1>1, WorkerIsOn
  <2>2. CopyIsBehind(c)'
    <3>1. CASE migration'.pc # "copying"
      BY <3>1 DEF CopyIsBehind
    <3>2. CASE migration'.pc = "copying"
      <4>1. migration' = migration /\ migration.target \in Backends
        BY <3>2, Standing DEF QuietCaches, TargetStands
      <4>2. CacheHas(migration.target, c)' => CacheHas(migration.target, c)
        BY <4>1 DEF QuietCaches, CacheHas
      <4>. QED
        BY <1>1, <4>1, <4>2 DEF CopyIsBehind, Generates
    <3>. QED
      BY <3>1, <3>2
  <2>3. ASSUME NEW t \in Backends PROVE CacheBehind(c, t)'
    <3>1. CacheHas(t, c)' => resumed'[t] # None /\ resumed'[t] = resumed[t] /\ CacheHas(t, c)
      BY DEF QuietCaches, CacheHas
    <3>2. CacheHas(t, c)' /\ Replaces(t, worker[c].on)' => Replaces(t, worker[c].on)
      <4>1. PICK s \in Backends : s = worker[c].on
        BY <2>1
      <4>2. CacheHas(t, c)' /\ Replaces(t, s)' => Replaces(t, s)
        BY <3>1 DEF QuietCaches
      <4>. QED
        BY <1>1, <4>1, <4>2 DEF Replaces
    <3>3. CacheBehind(c, t)
      OBVIOUS
    <3>. QED
      BY <1>1, <3>1, <3>2, <3>3 DEF CacheBehind, Generates, Resumes, Returned
  <2>. QED
    BY <2>2, <2>3
<1>2. ASSUME worker'[c].pc = "none" \/ \E b : DiesOn(c, b)
      PROVE  Aside(c)
  BY <1>2 DEF Aside, DiesOn
<1>. QED
  BY <1>1, <1>2, AsideStands DEF Quiet

\* What generates nothing, and takes no tokens of the source.
LEMMA CachesFrame ==
    ASSUME RouterTypes, BackendTypes, InstancesStand, CachesStand, Backdrop, QuietCaches,
           \A d \in Calls : WorkerServes(d) /\ GivenInUse(d),
           NEW c \in Calls, \A d \in Calls \ {c} : Quiet(d),
           c \notin shared =>
              Quiet(c) \/ Aside(c) \/ (CopyIsBehind(c)' /\ \A t \in Backends : CacheBehind(c, t)')
    PROVE  CachesStand'
<1>1. TokensOfCache'
  BY DEF CachesStand, TokensOfCache, QuietCaches
<1>2. CopyHasRow'
  BY DEF CachesStand, CopyHasRow, QuietCaches
<1>3. ASSUME NEW d \in Calls, d \notin shared'
      PROVE  CopyIsBehind(d)' /\ \A t \in Backends : CacheBehind(d, t)'
  <2>1. d \notin shared /\ CopyIsBehind(d) /\ \A t \in Backends : CacheBehind(d, t)
    BY <1>3 DEF CachesStand, CachesAreBehind, Backdrop
  <2>2. CASE Quiet(d)
    BY <2>1, <2>2, BehindFrame
  <2>3. CASE ~Quiet(d)
    BY <2>1, <2>3, AsideStands
  <2>. QED
    BY <2>2, <2>3
<1>. QED
  BY <1>1, <1>2, <1>3 DEF CachesStand, CachesAreBehind

\* A preempted call that is sent to the successor finds the cache behind it.
LEMMA CachesOfSending ==
    ASSUME RouterTypes, BackendTypes, InstancesStand, CachesStand,
           \A d \in Calls : WorkerServes(d) /\ GivenInUse(d),
           NEW c \in Calls, Dispatch(c) \/ Resume(c) \/ Return(c)
    PROVE  CachesStand'
<1>1. /\ SameBackends /\ SameInstances /\ SameMigration /\ SameWorkers(c)
      /\ Dispatch(c) => Aside(c)
      /\ Resume(c) => \/ /\ Returned(c) /\ migration_record[worker[c].on] \in Ready
                         /\ worker'[c] = Sent("resume", migration_record[worker[c].on],
                                              worker[c].row, LeftTokens(worker[c].row))
                      \/ Aside(c)
      /\ Return(c) => Aside(c)
  <2>1. CASE Dispatch(c)
    <3>1. /\ call[c].pc = "assigned" /\ SameBackends /\ SameInstances /\ SameMigration
          /\ \/ Sends(c, "executing", Sent(call[c].kind, call[c].on, <<>>, MaxTokens))
             \/ Leaves(c, "error", <<>>)
      BY <2>1, DispatchView
    <3>2. call[c].kind # "resume"
      BY <3>1 DEF WorkerServes
    <3>3. PICK w : w = Sent(call[c].kind, call[c].on, <<>>, MaxTokens)
      OBVIOUS
    <3>4. w.pc = "sent" /\ w.kind = call[c].kind
      BY <3>3 DEF Sent, NoWorker
    <3>5. Aside(c) /\ SameWorkers(c)
      BY <3>1, <3>2, <3>3, <3>4 DEF Aside, Sends, Leaves
    <3>. QED
      BY <2>1, <3>1, <3>5 DEF Dispatch, Resume, Return
  <2>2. CASE Resume(c)
    BY <2>2, ResumeView DEF Sends, Leaves, Returned, Dispatch, Return, Aside
  <2>3. CASE Return(c)
    BY <2>3, ReturnView DEF Leaves, Dispatch, Resume, Aside
  <2>. QED
    BY <2>1, <2>2, <2>3
<1>2. Backdrop /\ QuietCaches /\ \A d \in Calls \ {c} : Quiet(d)
  BY <1>1, SameBackdrop DEF SameWorkers, Quiet
<1>3. CASE Aside(c)
  BY <1>2, <1>3, CachesFrame
<1>4. CASE /\ Returned(c) /\ migration_record[worker[c].on] \in Ready
           /\ worker'[c] = Sent("resume", migration_record[worker[c].on],
                                worker[c].row, LeftTokens(worker[c].row))
  <2>1. PICK to \in Backends : to = migration_record[worker[c].on]
    BY <1>4, ToSetMember DEF Ready, RouterTypes
  <2>2. /\ worker'[c].pc = "sent" /\ worker'[c].kind = "resume" /\ worker'[c].on = to
        /\ worker'[c].row = worker[c].row
    BY <1>4, <2>1 DEF Sent, NoWorker
  <2>3. Replaces(to, worker[c].on)
    BY <2>1 DEF Replaces
  <2>4. CopyIsBehind(c)'
    BY <2>2 DEF CopyIsBehind, Generates
  <2>5. ASSUME c \notin shared, NEW t \in Backends PROVE CacheBehind(c, t)'
    <3>1. CacheBehind(c, to)
      BY <2>5 DEF CachesStand, CachesAreBehind
    <3>2. resumed' = resumed
      BY <1>1 DEF SameBackends
    <3>3. CacheHas(to, c) => Len(resumed[to].cache) < Len(worker[c].row)
      BY <1>4, <2>3, <3>1 DEF CacheBehind
    <3>. QED
      BY <2>2, <3>2, <3>3 DEF CacheBehind, Generates, Resumes, Returned, CacheHas
  <2>. QED
    BY <1>2, <2>4, <2>5, CachesFrame
<1>. QED
  BY <1>1, <1>3, <1>4

\* A call that a backend works for gets ahead of the caches with its tokens.
LEMMA CachesOfWork ==
    ASSUME RouterTypes, BackendTypes, InstancesStand, RowsAreOwn, StreamIsKept, NothingEarly, CachesStand,
           \A d \in Calls : WorkerServes(d) /\ GivenInUse(d), NEW c \in Calls, Work(c)
    PROVE  CachesStand'
<1>1. /\ Active(c) /\ worker[c].on \in Backends /\ shared \subseteq shared'
      /\ UNCHANGED <<status, model, resumed, ending, call, migration, migration_record>> /\ WorksOn(c)
  BY WorkView DEF SameInstances
<1>2. SameWorkers(c)
  BY <1>1 DEF WorksOn, ChecksStatus, Fails, Encodes, Prompts, Continues, Completes,
              GivesTokens, GivesAnswer, PutsRow
<1>3. TokensOfCache' /\ CopyHasRow'
  BY <1>1 DEF CachesStand, TokensOfCache, CopyHasRow
<1>4. ASSUME NEW d \in Calls \ {c}, d \notin shared'
      PROVE  CopyIsBehind(d)' /\ \A t \in Backends : CacheBehind(d, t)'
  <2>1. /\ CopyIsBehind(d) /\ \A t \in Backends : CacheBehind(d, t)
        /\ worker'[d] = worker[d]
    BY <1>1, <1>2, <1>4 DEF CachesStand, CachesAreBehind, SameWorkers
  <2>2. CopyIsBehind(d)'
    BY <1>1, <2>1 DEF CopyIsBehind, Generates, CacheHas
  <2>3. ASSUME NEW t \in Backends PROVE CacheBehind(d, t)'
    <3>1. CacheBehind(d, t)
      BY <2>1
    <3>. QED
      BY <1>1, <2>1, <3>1 DEF CacheBehind, Generates, Resumes, Returned, CacheHas, Replaces, Built
  <2>. QED
    BY <2>2, <2>3
<1>5. /\ worker[c].kind \in {"generate", "encode", "resume"} /\ call[c].pc \in {"executing", "resuming"}
      /\ WorkerServes(c)
  BY <1>1, WorkerIsOn DEF Active
<1> DEFINE G == CopyIsBehind(c)' /\ \A t \in Backends : CacheBehind(c, t)'
<1>6. ASSUME c \notin shared' PROVE G
  <2>1. /\ c \notin shared /\ CopyIsBehind(c) /\ \A t \in Backends : CacheBehind(c, t)
    BY <1>1, <1>6 DEF CachesStand, CachesAreBehind
  <2>2. CASE Aside(c)
    BY <2>2, AsideStands
  <2>3. ASSUME ChecksStatus(c), worker[c].kind = "resume" PROVE G
    <3>1. /\ worker[c].pc = "sent" /\ worker'[c].pc = "checked" /\ worker'[c].kind = "resume"
          /\ worker'[c].on = worker[c].on /\ worker'[c].row = worker[c].row
      BY <2>3 DEF ChecksStatus
    <3>2. CopyIsBehind(c)'
      BY <3>1 DEF CopyIsBehind, Generates
    <3>3. ASSUME NEW t \in Backends PROVE CacheBehind(c, t)'
      <4>1. CacheBehind(c, t)
        BY <2>1
      <4>. QED
        BY <1>1, <2>3, <3>1, <4>1 DEF CacheBehind, Generates, Resumes, Returned, CacheHas
    <3>. QED
      BY <3>2, <3>3
  <2>4. ASSUME Prompts(c), worker[c].kind = "generate" PROVE G
    <3>1. call[c].pc = "executing" /\ worker[c].pc = "checked"
      BY <1>5, <2>4 DEF WorkerServes, Prompts
    <3>2. NowhereYet(c)
      BY <3>1 DEF NothingEarly, NotBegun
    <3>3. \A t \in Backends : ~CacheHas(t, c)'
      BY <1>1, <3>2 DEF NowhereYet, CacheHas
    <3>4. worker'[c].kind = "generate" /\ worker'[c].pc \in {"preempted", "generating"}
      BY <2>4 DEF Prompts, PutsRow
    <3>5. CopyIsBehind(c)'
      <4>1. migration.pc = "copying" => migration.target \in Backends
        BY Standing DEF TargetStands
      <4>. QED
        BY <1>1, <3>2, <3>3, <4>1 DEF NowhereYet, CopyIsBehind
    <3>. QED
      BY <3>3, <3>4, <3>5 DEF CacheBehind, Resumes
  <2>5. ASSUME Continues(c), worker[c].kind = "generate" PROVE G
    <3>1. /\ worker[c].pc = "generating" /\ worker'[c].kind = "generate" /\ worker'[c].on = worker[c].on
          /\ worker'[c].pc \in {"preempted", "generating"} /\ worker'[c].row = worker[c].row \o NextToken(c)
      BY <2>5 DEF Continues, PutsRow
    <3>2. Len(worker'[c].row) = Len(worker[c].row) + 1 /\ Len(worker[c].row) \in Nat
      <4>1. NextToken(c) = <<c>>
        BY <1>1, <2>5, TokenIsOwn
      <4>2. worker[c].row \in Rows /\ <<c>> \in Rows /\ Len(<<c>>) = 1
        BY Fields DEF Rows
      <4>3. Len(worker[c].row \o <<c>>) = Len(worker[c].row) + Len(<<c>>) /\ Len(worker[c].row) \in Nat
        BY <4>2, ConcatProperties DEF Rows
      <4>. QED
        BY <3>1, <4>1, <4>2, <4>3
    <3>3. CopyIsBehind(c)'
      <4>1. Len(migration.row) \in Nat
        BY Fields DEF Rows
      <4>. QED
        BY <1>1, <2>1, <2>5, <3>1, <3>2, <4>1 DEF CopyIsBehind, Generates, CacheHas
    <3>4. ASSUME NEW t \in Backends PROVE CacheBehind(c, t)'
      <4>1. CacheBehind(c, t)
        BY <2>1
      <4>2. ASSUME Replaces(t, worker[c].on), CacheHas(t, c)
            PROVE  Len(resumed[t].cache) < Len(worker'[c].row)
        <5>1. Len(resumed[t].cache) <= Len(worker[c].row)
          BY <2>5, <3>1, <4>1, <4>2 DEF CacheBehind, Generates
        <5>2. Len(resumed[t].cache) \in Nat
          BY <4>2, Fields DEF CacheHas, Rows
        <5>. QED
          BY <3>2, <5>1, <5>2
      <4>3. CacheHas(t, c)' => Len(resumed[t].cache) \in Nat
        BY <1>1, Fields DEF CacheHas, Rows
      <4>4. (Replaces(t, worker[c].on)' <=> Replaces(t, worker[c].on)) /\ (CacheHas(t, c)' <=> CacheHas(t, c))
        BY <1>1, <3>1 DEF Replaces, Built, CacheHas
      <4>5. Len(worker'[c].row) \in Nat
        BY <3>2
      <4>6. Replaces(t, worker[c].on)' /\ CacheHas(t, c)' =>
               /\ Len(resumed'[t].cache) < Len(worker'[c].row)
               /\ Len(resumed'[t].cache) <= Len(worker'[c].row)
        BY <1>1, <4>2, <4>3, <4>4, <4>5
      <4>. QED
        BY <3>1, <4>6 DEF CacheBehind, Resumes
    <3>. QED
      BY <3>3, <3>4
  <2>6. ASSUME GivesTokens(c) PROVE G
    <3>1. /\ worker[c].pc = "preempted" /\ worker[c].kind # "resume"
          /\ worker'[c].pc = "answered" /\ worker'[c].kind = worker[c].kind
          /\ worker'[c].on = worker[c].on /\ worker'[c].row = intermediate[worker[c].on].row
      BY <2>6 DEF GivesTokens, GivesAnswer
    <3>2. worker[c].kind = "generate"
      BY <1>5, <3>1 DEF WorkerServes
    <3>3. worker'[c].row = worker[c].row
      BY <1>1, <2>1, <3>1 DEF StreamIsKept, Streaming
    <3>4. CopyIsBehind(c)'
      BY <3>1 DEF CopyIsBehind, Generates
    <3>5. ASSUME NEW t \in Backends PROVE CacheBehind(c, t)'
      <4>1. CacheBehind(c, t)
        BY <2>1
      <4>. QED
        BY <1>1, <3>1, <3>2, <3>3, <4>1 DEF CacheBehind, Generates, Resumes, Returned, CacheHas, Replaces, Built
    <3>. QED
      BY <3>4, <3>5
  <2>7. \/ Aside(c)
        \/ ChecksStatus(c) /\ worker[c].kind = "resume"
        \/ (Prompts(c) \/ Continues(c)) /\ worker[c].kind = "generate"
        \/ GivesTokens(c)
    <3>1. CASE ChecksStatus(c)
      BY <3>1 DEF ChecksStatus, Aside
    <3>2. CASE Fails(c) \/ Encodes(c) \/ Completes(c)
      BY <3>2 DEF Fails, Encodes, Completes, GivesAnswer, Aside
    <3>3. CASE Prompts(c) \/ Continues(c)
      BY <3>3 DEF Prompts, Continues, PutsRow, Aside
    <3>. QED
      BY <1>1, <3>1, <3>2, <3>3 DEF WorksOn
  <2> HIDE DEF G
  <2>. QED
    BY <2>2, <2>3, <2>4, <2>5, <2>6, <2>7 DEF G
<1>. QED
  BY <1>3, <1>4, <1>6 DEF CachesStand, CachesAreBehind

\* The tokens of the source are the row of the call that streams there.
LEMMA CachesOfAsk ==
    ASSUME RouterTypes, BackendTypes, InstancesStand, RowsAreOwn, StreamIsKept, CachesStand,
           \A d \in Calls : WorkerServes(d) /\ GivenInUse(d), Ask
    PROVE  CachesStand'
<1>1. migration.pc = "asking" /\ migration.source \in Backends /\ migration.target \in Backends
  BY Standing DEF Ask, TargetStands
<1>2. /\ \/ migration' = NoMigration
         \/ Moves("swap") /\ migration'.row = migration.row
         \/ /\ Moves("copying") /\ migration'.row # <<>>
            /\ migration'.row = intermediate[migration.source].row
      /\ SameInstances /\ SameBackends /\ UNCHANGED <<worker, call, shared>>
  BY <1>1, AskView
<1>3. TokensOfCache' /\ CopyHasRow'
  BY <1>2, NoMigrationView DEF CachesStand, TokensOfCache, CopyHasRow, SameBackends, Moves
<1>4. \A t, s : Replaces(t, s)' => Replaces(t, s)
  BY <1>1, <1>2, NoMigrationView DEF Replaces, Built, Moves, SameInstances
<1>5. ASSUME NEW d \in Calls, d \notin shared'
      PROVE  CopyIsBehind(d)' /\ \A t \in Backends : CacheBehind(d, t)'
  <2>1. d \notin shared /\ CopyIsBehind(d) /\ \A t \in Backends : CacheBehind(d, t)
    BY <1>2, <1>5 DEF CachesStand, CachesAreBehind
  <2>2. ASSUME NEW t \in Backends PROVE CacheBehind(d, t)'
    <3>1. CacheBehind(d, t)
      BY <2>1
    <3>2. Replaces(t, worker[d].on)' => Replaces(t, worker[d].on)
      <4>1. PICK s : s = worker[d].on
        OBVIOUS
      <4>2. Replaces(t, s)' => Replaces(t, s)
        BY <1>4
      <4>. QED
        BY <1>2, <4>1, <4>2 DEF Replaces
    <3>. QED
      BY <1>2, <3>1, <3>2 DEF CacheBehind, Generates, Resumes, Returned, CacheHas, SameBackends
  <2>3. ASSUME Generates(d, {"generating"})', migration'.pc = "copying", migration'.source = worker'[d].on
        PROVE  MadeOf(d, migration'.row) /\ Len(migration'.row) <= Len(worker'[d].row)
    <3>1. /\ migration'.row # <<>> /\ migration'.row = intermediate[migration.source].row
          /\ migration'.source = migration.source /\ worker' = worker
      BY <1>2, <2>3, NoMigrationView DEF Moves
    <3>2. Generates(d, {"generating"}) /\ worker[d].on = migration.source
      BY <2>3, <3>1 DEF Generates
    <3>3. migration'.row = worker[d].row
      BY <1>1, <2>1, <3>1, <3>2 DEF StreamIsKept, Streaming, Generates
    <3>4. worker[d].left \in 0 .. MaxTokens /\ worker[d].row = Own(d, MaxTokens + 1 - worker[d].left)
      BY <3>2 DEF RowsAreOwn, GeneratesOwn, Generates
    <3>5. PICK n \in Nat : n = MaxTokens + 1 - worker[d].left
      BY <3>4, RouterAssumption
    <3>6. worker[d].row = Own(d, Len(worker[d].row)) /\ Len(worker[d].row) \in Nat
      BY <3>4, <3>5, OwnRow
    <3>. QED
      BY <3>1, <3>3, <3>6 DEF MadeOf
  <2>4. CopyIsBehind(d)'
    BY <2>3 DEF CopyIsBehind
  <2>. QED
    BY <2>2, <2>4
<1>. QED
  BY <1>3, <1>5 DEF CachesStand, CachesAreBehind

\* While a migration builds, no call uses its target, and the calls it may
\* overtake are at its source.
LEMMA ReplacesSource ==
    ASSUME RouterTypes, BackendTypes, Building, NEW d \in Calls, WorkerServes(d), GivenInUse(d),
           worker[d].pc # "none"
    PROVE  /\ worker[d].on # migration.target
           /\ call[d].pc = "executing" /\ Replaces(migration.target, worker[d].on) =>
                 \/ migration.target = None
                 \/ worker[d].on = migration.source
<1>1. call[d].pc \in {"executing", "resuming"} /\ InUse(worker[d].on)
  BY WorkerIsOn
<1>2. worker[d].on # migration.target
  BY <1>1 DEF InUse
<1>3. ASSUME call[d].pc = "executing", migration_record[worker[d].on] = migration.target
      PROVE  migration.target = None
  <2>1. worker[d].on = call[d].on /\ Given(d)
    BY <1>3 DEF WorkerServes, Given
  <2>2. migration_record[call[d].on] # None => InUse(migration_record[call[d].on])
    BY <2>1 DEF GivenInUse
  <2>. QED
    BY <1>3, <2>1, <2>2 DEF InUse
<1>. QED
  BY <1>2, <1>3 DEF Replaces

\* What is copied to the target is not ahead of the call it was asked from.
LEMMA CachesOfCopy ==
    ASSUME RouterTypes, BackendTypes, InstancesStand, PreemptedIsDeleting, CachesStand,
           \A d \in Calls : WorkerServes(d) /\ GivenInUse(d), Copy
    PROVE  CachesStand'
<1>1. PICK s \in Backends, t \in Backends : s = migration.source /\ t = migration.target
  BY Standing DEF Copy, TargetStands
<1>2. PICK row \in Rows : row = migration.row
  BY Fields
<1>3. /\ migration.pc = "copying"
      /\ \/ migration' = NoMigration /\ UNCHANGED resumed
         \/ /\ Moves("asking") /\ resumed' = [resumed EXCEPT ![t] = Resumed(t, row)]
      /\ SameInstances /\ UNCHANGED <<worker, call, shared>>
  BY <1>1, <1>2, CopyView
<1>4. row # <<>> /\ s \in Ready /\ Building /\ Built /\ t # None
  <2>1. s \in Ready
    BY <1>1, <1>3, Standing DEF TargetStands
  <2>. QED
    BY <1>2, <1>3, <2>1, RouterAssumption DEF CachesStand, CopyHasRow, Building, Built
<1>5. PICK r : r = Resumed(t, row)
  OBVIOUS
<1>6. /\ r \in [tokens : Rows, cache : Rows]
      /\ Len(r.tokens) <= Len(r.cache) + 1
      /\ \A c : c \in ToSet(r.cache) => CacheHas(t, c) \/ c \in ToSet(row)
      /\ Len(r.cache) <= Len(row) \/ (resumed[t] # None /\ r.cache = resumed[t].cache)
  BY <1>4, <1>5, ResumedRow
<1>7. \A o \in Backends \ {t} : resumed'[o] = resumed[o]
  BY <1>3 DEF BackendTypes
<1>8. resumed'[t] = resumed[t] \/ resumed'[t] = r
  BY <1>3, <1>5 DEF BackendTypes
<1>9. TokensOfCache'
  BY <1>6, <1>7, <1>8 DEF CachesStand, TokensOfCache
<1>10. migration'.pc # "copying" /\ CopyHasRow'
  BY <1>3, NoMigrationView DEF Moves, CopyHasRow
<1>11. \A o, p : Replaces(o, p)' => Replaces(o, p)
  BY <1>3, <1>4, NoMigrationView DEF Replaces, Built, Moves, SameInstances
<1>12. ASSUME NEW d \in Calls, d \notin shared'
       PROVE  CopyIsBehind(d)' /\ \A o \in Backends : CacheBehind(d, o)'
  <2>1. d \notin shared /\ CopyIsBehind(d) /\ \A o \in Backends : CacheBehind(d, o)
    BY <1>3, <1>12 DEF CachesStand, CachesAreBehind
  <2>2. CopyIsBehind(d)'
    BY <1>10 DEF CopyIsBehind
  <2>3. \A o : Replaces(o, worker[d].on)' => Replaces(o, worker[d].on)
    <3>1. PICK p : p = worker[d].on
      OBVIOUS
    <3>2. \A o : Replaces(o, p)' => Replaces(o, p)
      BY <1>11
    <3>. QED
      BY <1>3, <3>1, <3>2 DEF Replaces
  <2>4. ASSUME NEW o \in Backends, resumed'[o] = resumed[o] PROVE CacheBehind(d, o)'
    <3>1. CacheBehind(d, o)
      BY <2>1
    <3>. QED
      BY <1>3, <2>3, <2>4, <3>1 DEF CacheBehind, Generates, Resumes, Returned, CacheHas
  <2>5. ASSUME resumed'[t] = r PROVE CacheBehind(d, t)'
    <3>0. worker[d].row \in Rows /\ Len(worker[d].row) \in Nat /\ Len(row) \in Nat /\ Len(r.cache) \in Nat
      BY <1>6, Fields DEF Rows
    <3>1. worker[d].pc # "none" => worker[d].on # t
      BY <1>1, <1>4, ReplacesSource
    <3>2. worker[d].pc # "none" /\ worker[d].kind = "generate" /\ Replaces(t, worker[d].on) =>
             worker[d].on = s
      <4>1. worker[d].pc # "none" /\ worker[d].kind = "generate" => call[d].pc = "executing"
        BY DEF WorkerServes
      <4>. QED
        BY <1>1, <1>4, <4>1, ReplacesSource
    <3>3. ASSUME Generates(d, {"generating"}), Replaces(t, worker[d].on), d \in ToSet(r.cache)
          PROVE  Len(r.cache) <= Len(worker[d].row)
      <4>1. worker[d].on = s
        BY <3>2, <3>3 DEF Generates
      <4>2. CASE MadeOf(d, row) /\ Len(row) <= Len(worker[d].row)
        <5>1. CASE Len(r.cache) <= Len(row)
          BY <3>0, <4>2, <5>1
        <5>2. CASE resumed[t] # None /\ r.cache = resumed[t].cache
          <6>1. CacheHas(t, d) /\ CacheBehind(d, t)
            BY <2>1, <3>3, <5>2 DEF CacheHas
          <6>. QED
            BY <3>3, <5>2, <6>1 DEF CacheBehind
        <5>. QED
          BY <1>6, <5>1, <5>2
      <4>3. CASE d \notin ToSet(row) /\ ~CacheHas(t, d)
        BY <1>6, <3>3, <4>3
      <4>. QED
        BY <1>1, <1>2, <1>3, <2>1, <3>3, <4>1, <4>2, <4>3 DEF CopyIsBehind
    <3>4. ~ ((Generates(d, {"preempted"}) \/ Returned(d)) /\ Replaces(t, worker[d].on))
      <4>1. ASSUME Generates(d, {"preempted"}) \/ Returned(d), Replaces(t, worker[d].on) PROVE FALSE
        <5>1. worker[d].pc # "none" /\ worker[d].kind = "generate"
          BY <4>1 DEF Generates, Returned, WorkerServes
        <5>2. worker[d].on = s
          BY <3>2, <4>1, <5>1
        <5>3. status[s] = "deleting"
          BY <4>1, <5>2 DEF PreemptedIsDeleting, Generates
        <5>4. status[s] = "running"
          BY <1>4, Standing
        <5>. QED
          BY <5>3, <5>4
      <4>. QED
        BY <4>1
    <3>5. ~ (Resumes(d, {"sent", "checked"}) /\ t = worker[d].on)
      BY <3>1 DEF Resumes
    <3>6. CacheHas(t, d)' => d \in ToSet(r.cache)
      BY <2>5 DEF CacheHas
    <3>. QED
      BY <1>3, <2>3, <2>5, <3>3, <3>4, <3>5, <3>6 DEF CacheBehind, Generates, Resumes, Returned
  <2>. QED
    BY <1>7, <1>8, <2>2, <2>4, <2>5
<1>. QED
  BY <1>9, <1>10, <1>12 DEF CachesStand, CachesAreBehind

(***************************************************************************)
(* Every action keeps the tokens where they are right                      *)
(***************************************************************************)

TokensStand == RowsAreOwn /\ StreamsStand /\ NothingEarly /\ CachesStand

\* A call that is as it was is begun if it was.
LEMMA BegunFrame ==
    ASSUME NEW d \in Calls, call'[d] = call[d], Quiet(d), NotBegun(d)'
    PROVE  NotBegun(d)
<1>1. CASE worker'[d] = worker[d]
  BY <1>1 DEF NotBegun
<1>2. CASE worker'[d].pc = "none" \/ \E b : DiesOn(d, b)
  BY <1>2 DEF NotBegun, DiesOn
<1>. QED
  BY <1>1, <1>2 DEF Quiet

\* What generates nothing keeps rows and streams; if it makes no cache and
\* copies no tokens either, all of them.
LEMMA QuietStep ==
    ASSUME IndInv, Backdrop, \A d \in Calls : Quiet(d), \A d \in Calls : NotBegun(d)' => NotBegun(d)
    PROVE  /\ RowsAreOwn' /\ StreamsStand'
           /\ QuietCaches => NothingEarly' /\ CachesStand'
<1>1. /\ RouterTypes /\ BackendTypes /\ InstancesStand
      /\ RowsAreOwn /\ StreamsStand /\ NothingEarly /\ CachesStand
      /\ \A d \in Calls : WorkerServes(d) /\ GivenInUse(d)
  BY DEF IndInv, CallsStand
<1>2. ASSUME NEW d \in Calls PROVE GeneratesOwn(d)' /\ (d \notin shared' => ResumesOwn(d)')
  BY <1>1, RowsFrame
<1>3. RowsAreOwn'
  BY <1>2 DEF RowsAreOwn
<1>4. \A d \in Calls : Settled(d) /\ worker'[d].row \in {<<>>, worker[d].row}
  BY DEF Settled, Quiet, DiesOn
<1>5. StreamsStand'
  BY <1>1, <1>4, StreamsFrame
<1>6. ASSUME QuietCaches PROVE NothingEarly'
  <2>1. \A b \in Backends : resumed'[b] # None => resumed'[b] = resumed[b]
    BY <1>6 DEF QuietCaches
  <2>2. migration'.row \in {migration.row, <<>>}
    BY <1>6 DEF QuietCaches
  <2>. QED
    BY <1>1, <1>4, <2>1, <2>2, EarlyFrame
<1>7. ASSUME QuietCaches PROVE CachesStand'
  <2>1. CASE Calls = {}
    <3>1. TokensOfCache' /\ CopyHasRow'
      BY <1>1, <1>7 DEF CachesStand, TokensOfCache, CopyHasRow, QuietCaches
    <3>. QED
      BY <2>1, <3>1 DEF CachesStand, CachesAreBehind
  <2>2. ASSUME NEW c \in Calls PROVE CachesStand'
    BY <1>1, <1>7, CachesFrame
  <2>. QED
    BY <2>1, <2>2
<1>. QED
  BY <1>3, <1>5, <1>6, <1>7

\* A call arrives, is dispatched, resumed, returns, or a backend works for it.
LEMMA CallTokens ==
    ASSUME IndInv, NEW c \in Calls,
           \/ \E kind \in Kinds : Submit(c, kind)
           \/ Dispatch(c) \/ Resume(c) \/ Return(c) \/ Work(c)
    PROVE  TokensStand'
<1>1. /\ RouterTypes /\ BackendTypes /\ InstancesStand
      /\ RowsAreOwn /\ StreamsStand /\ NothingEarly /\ CachesStand
      /\ StreamIsKept /\ TokensOfCache /\ CachesAreBehind
      /\ \A d \in Calls : WorkerServes(d) /\ GivenInUse(d)
  BY DEF IndInv, CallsStand, StreamsStand, CachesStand
<1>2. ASSUME NEW kind \in Kinds, Submit(c, kind) PROVE TokensStand'
  <2>1. /\ call[c].pc = "new" /\ SameCalls(c) /\ UNCHANGED worker
        /\ SameBackends /\ SameInstances /\ SameMigration
    BY <1>1, <1>2, SubmitView
  <2>2. Backdrop /\ QuietCaches
    BY <2>1, SameBackdrop
  <2>3. \A d \in Calls : Quiet(d)
    BY <2>1 DEF Quiet
  <2>4. \A d \in Calls : NotBegun(d)' => NotBegun(d)
    BY <2>1, <2>3, BegunFrame DEF SameCalls, NotBegun
  <2>. QED
    BY <2>2, <2>3, <2>4, QuietStep DEF TokensStand
<1>3. CASE Dispatch(c) \/ Resume(c) \/ Return(c)
  <2>1. RowsAreOwn' /\ CachesStand'
    BY <1>1, <1>3, SentRows, CachesOfSending
  <2>2. /\ SameBackends /\ SameInstances /\ SameMigration /\ SameWorkers(c) /\ SameCalls(c)
        /\ worker'[c].pc \in {"none", "sent"} /\ worker'[c].row \in {<<>>, worker[c].row}
        /\ NotBegun(c)' => NotBegun(c)
    <3>1. CASE Dispatch(c)
      <4>1. /\ call[c].pc = "assigned" /\ SameBackends /\ SameInstances /\ SameMigration
            /\ \/ Sends(c, "executing", Sent(call[c].kind, call[c].on, <<>>, MaxTokens))
               \/ Leaves(c, "error", <<>>)
        BY <1>1, <3>1, DispatchView
      <4>2. PICK w : w = Sent(call[c].kind, call[c].on, <<>>, MaxTokens)
        OBVIOUS
      <4>3. w.pc = "sent" /\ w.row = <<>>
        BY <4>2 DEF Sent, NoWorker
      <4>. QED
        BY <4>1, <4>2, <4>3 DEF Sends, Leaves, NotBegun
    <3>2. CASE Resume(c)
      <4>1. /\ SameBackends /\ SameInstances /\ SameMigration
            /\ \/ Sends(c, "resuming", Sent("resume", migration_record[worker[c].on], worker[c].row,
                                            LeftTokens(worker[c].row)))
               \/ \E answer \in {"error", "raised"} : Leaves(c, answer, <<>>)
        BY <1>1, <3>2, ResumeView
      <4>2. PICK w : w = Sent("resume", migration_record[worker[c].on], worker[c].row,
                              LeftTokens(worker[c].row))
        OBVIOUS
      <4>3. w.pc = "sent" /\ w.row = worker[c].row
        BY <4>2 DEF Sent, NoWorker
      <4>. QED
        BY <4>1, <4>2, <4>3 DEF Sends, Leaves, NotBegun
    <3>3. CASE Return(c)
      BY <1>1, <3>3, ReturnView DEF Leaves, NotBegun
    <3>. QED
      BY <1>3, <3>1, <3>2, <3>3
  <2>3. Backdrop /\ QuietCaches
    BY <2>2, SameBackdrop
  <2>4. \A d \in Calls \ {c} : worker'[d] = worker[d] /\ call'[d] = call[d] /\ Quiet(d)
    BY <2>2 DEF SameWorkers, SameCalls, Quiet
  <2>5. StreamsStand'
    <3>1. \A d \in Calls : Settled(d)
      BY <2>2, <2>4 DEF Settled
    <3>. QED
      BY <1>1, <2>3, <3>1, StreamsFrame
  <2>6. NothingEarly'
    <3>1. \A d \in Calls : NotBegun(d)' => NotBegun(d)
      BY <2>2, <2>4, BegunFrame
    <3>2. \A d \in Calls : worker'[d].row \in {<<>>, worker[d].row}
      BY <2>2, <2>4
    <3>3. \A b \in Backends : resumed'[b] = resumed[b]
      BY <2>2 DEF SameBackends
    <3>4. migration'.row = migration.row
      BY <2>2 DEF SameMigration
    <3>. QED
      BY <1>1, <2>3, <3>1, <3>2, <3>3, <3>4, EarlyFrame
  <2>. QED
    BY <2>1, <2>5, <2>6 DEF TokensStand
<1>4. CASE Work(c)
  BY <1>1, <1>4, RowsOfWork, StreamsOfWork, EarlyOfWork, CachesOfWork DEF TokensStand
<1>. QED
  BY <1>2, <1>3, <1>4
\* An instance is assigned, created, comes up, ends, or is to be migrated.
LEMMA InstanceTokens ==
    ASSUME IndInv, NEW b \in Backends, InstanceAction(b)
    PROVE  TokensStand'
<1>1. RouterTypes /\ BackendTypes /\ QueueIsQueued
  BY DEF IndInv, CallsStand
<1>2. Backdrop /\ QuietCaches /\ \A d \in Calls : Quiet(d)
  BY <1>1, InstanceBackdrop
<1>3. ASSUME NEW d \in Calls PROVE call'[d] = call[d] \/ call[d].pc = "queued"
  <2>1. CASE Assign(b)
    <3>1. PICK c \in Calls : c = Head(request_queue) /\ request_queue # <<>> /\ SameCalls(c)
      BY <1>1, <2>1, AssignView
    <3>2. request_queue \in Seq(Calls) /\ IsInjective(request_queue)
      BY <1>1 DEF RouterTypes, QueueIsQueued
    <3>3. c \in ToSet(request_queue)
      BY <3>1, <3>2, TailElements
    <3>. QED
      BY <1>1, <3>1, <3>3 DEF QueueIsQueued, SameCalls
  <2>2. CASE ~Assign(b)
    <3>1. call' = call
      BY <1>1, <2>2 DEF InstanceAction, CreateInstance, InstanceUp, FinishInstance, Kill, EndBackend,
                       BeginMigration, requests
    <3>. QED
      BY <3>1
  <2>. QED
    BY <2>1, <2>2
<1>4. \A d \in Calls : NotBegun(d)' => NotBegun(d)
  BY <1>2, <1>3, BegunFrame DEF NotBegun
<1>. QED
  BY <1>2, <1>4, QuietStep DEF TokensStand

\* The auto scaler stops an instance, or the migration goes on.
LEMMA MigrationTokens ==
    ASSUME IndInv, MigrationAction
    PROVE  TokensStand'
<1>1. /\ RouterTypes /\ BackendTypes /\ InstancesStand
      /\ RowsAreOwn /\ StreamsStand /\ NothingEarly /\ CachesStand
      /\ StreamIsKept /\ PreemptedIsDeleting /\ CopyHasRow
      /\ \A d \in Calls : WorkerServes(d) /\ GivenInUse(d)
  BY DEF IndInv, CallsStand, StreamsStand, CachesStand
<1>2. Backdrop /\ (\A d \in Calls : Quiet(d)) /\ (~Ask /\ ~Copy => QuietCaches)
  BY <1>1, MigrationBackdrop
<1>3. call' = call
  BY DEF MigrationAction, StopInstance, TargetUp, Ask, Copy, Swap, EndMigration, Kill, requests
<1>4. \A d \in Calls : NotBegun(d)' => NotBegun(d)
  BY <1>2, <1>3, BegunFrame
<1>5. RowsAreOwn' /\ StreamsStand'
  BY <1>2, <1>4, QuietStep
<1>6. CASE ~Ask /\ ~Copy
  BY <1>2, <1>4, <1>5, <1>6, QuietStep DEF TokensStand
<1>7. CASE Ask
  <2>1. migration.pc = "asking" /\ migration.source \in Backends
    BY <1>1, <1>7, Standing DEF Ask, TargetStands
  <2>2. /\ \/ migration'.row \in {migration.row, <<>>}
           \/ migration'.row = intermediate[migration.source].row
        /\ SameBackends /\ worker' = worker
    BY <1>1, <1>7, <2>1, AskView, NoMigrationView
  <2>3. NothingEarly'
    <3>1. \A b \in Backends : resumed'[b] = resumed[b]
      BY <2>2 DEF SameBackends
    <3>. QED
      BY <1>1, <1>2, <1>4, <2>1, <2>2, <3>1, EarlyFrame
  <2>4. CachesStand'
    BY <1>1, <1>7, CachesOfAsk
  <2>. QED
    BY <1>5, <2>3, <2>4 DEF TokensStand
<1>8. CASE Copy
  <2>1. PICK t \in Backends : t = migration.target
    BY <1>1, <1>8, Standing DEF Copy, TargetStands
  <2>2. PICK row \in Rows : row = migration.row
    BY <1>1, Fields
  <2>3. /\ migration.pc = "copying" /\ migration'.row \in {migration.row, <<>>} /\ worker' = worker
        /\ resumed' = resumed \/ resumed' = [resumed EXCEPT ![t] = Resumed(t, row)]
    BY <1>1, <1>8, <2>1, <2>2, CopyView, NoMigrationView
  <2>4. PICK r : r = Resumed(t, row)
    OBVIOUS
  <2>5. /\ ToSet(r.tokens) = ToSet(row)
        /\ \A d : d \in ToSet(r.cache) => CacheHas(t, d) \/ d \in ToSet(row)
    <3>1. row # <<>>
      BY <1>1, <2>2, <2>3 DEF CopyHasRow
    <3>. QED
      BY <1>1, <2>4, <3>1, ResumedRow
  <2>6. \A b \in Backends : resumed'[b] = resumed[b] \/ (b = t /\ resumed'[b] = r)
    BY <1>1, <2>3, <2>4 DEF BackendTypes
  <2>7. NothingEarly'
    <3>1. \A b \in Backends : \A d \in Calls :
             resumed'[b] # None /\ d \in ToSet(resumed'[b].cache) \cup ToSet(resumed'[b].tokens) =>
                resumed'[b] = resumed[b] \/ CacheHas(b, d) \/ d \in ToSet(migration.row)
      BY <2>2, <2>5, <2>6
    <3>. QED
      BY <1>1, <1>2, <1>4, <2>3, <3>1, EarlyFrame
  <2>8. CachesStand'
    BY <1>1, <1>8, CachesOfCopy
  <2>. QED
    BY <1>5, <2>7, <2>8 DEF TokensStand
<1>. QED
  BY <1>6, <1>7, <1>8
(***************************************************************************)
(* Answers                                                                 *)
(***************************************************************************)

\* A call that is answered now has no answer, or all of its tokens.
LEMMA AnswersFrame ==
    ASSUME AnswersAreWhole, shared \subseteq shared',
           \A c \in Calls :
              \/ call'[c] = call[c]
              \/ call'[c].answer # "ok"
              \/ c \notin shared /\ call'[c].kind = "generate" => call'[c].row = Own(c, MaxTokens + 1)
    PROVE  AnswersAreWhole'
BY DEF AnswersAreWhole, Own

\* What a call returns with is its prompt and max_tokens tokens.
LEMMA ReturnsWhole ==
    ASSUME RouterTypes, BackendTypes, RowsAreOwn, NEW c \in Calls, WorkerServes(c), Return(c),
           call'[c].answer = "ok", call'[c].kind = "generate", c \notin shared
    PROVE  call'[c].row = Own(c, MaxTokens + 1)
<1>1. /\ call[c].pc \in {"executing", "resuming"} /\ worker[c].pc = "answered"
      /\ call'[c].answer = worker[c].result /\ call'[c].row = worker[c].row
      /\ call'[c].kind = call[c].kind
  BY ReturnView DEF Leaves
<1>2. worker[c].result = "ok" /\ call[c].kind = "generate"
  BY <1>1
<1>3. CASE call[c].pc = "executing"
  <2>1. Completed(c, "generate")
    BY <1>1, <1>2, <1>3 DEF WorkerServes, Completed
  <2>. QED
    BY <1>1, <2>1 DEF RowsAreOwn, GeneratesOwn
<1>4. CASE call[c].pc = "resuming"
  <2>1. Completed(c, "resume")
    BY <1>1, <1>2, <1>4 DEF WorkerServes, Completed
  <2>. QED
    BY <1>1, <2>1 DEF RowsAreOwn, ResumesOwn
<1>. QED
  BY <1>1, <1>3, <1>4

\* Answers of calls.
LEMMA CallAnswers ==
    ASSUME IndInv, NEW c \in Calls,
           \/ \E kind \in Kinds : Submit(c, kind)
           \/ Dispatch(c) \/ Resume(c) \/ Return(c) \/ Work(c)
    PROVE  AnswersAreWhole'
<1>1. /\ RouterTypes /\ BackendTypes /\ RowsAreOwn /\ AnswersAreWhole
      /\ WorkerServes(c) /\ GivenInUse(c)
  BY DEF IndInv, CallsStand
<1>2. call[c].pc # "ended" => call[c].answer # "ok"
  BY <1>1, RouterAssumption DEF WorkerServes
<1>3. ASSUME NEW kind \in Kinds, Submit(c, kind) PROVE AnswersAreWhole'
  <2>1. /\ call[c].pc = "new" /\ SameCalls(c) /\ call'[c].answer = call[c].answer
        /\ UNCHANGED shared
    BY <1>1, <1>3, SubmitView DEF SameMigration
  <2>. QED
    BY <1>1, <1>2, <2>1, AnswersFrame DEF SameCalls
<1>4. CASE Dispatch(c)
  <2>1. /\ call[c].pc = "assigned" /\ UNCHANGED shared
        /\ \/ Sends(c, "executing", Sent(call[c].kind, call[c].on, <<>>, MaxTokens))
           \/ Leaves(c, "error", <<>>)
    BY <1>1, <1>4, DispatchView DEF SameMigration
  <2>2. SameCalls(c) /\ call'[c].answer # "ok"
    BY <1>2, <2>1 DEF Sends, Leaves
  <2>. QED
    BY <1>1, <2>1, <2>2, AnswersFrame DEF SameCalls
<1>5. CASE Resume(c)
  <2>1. /\ call[c].pc = "executing" /\ UNCHANGED shared
        /\ \/ Sends(c, "resuming", Sent("resume", migration_record[worker[c].on], worker[c].row,
                                        LeftTokens(worker[c].row)))
           \/ \E answer \in {"error", "raised"} : Leaves(c, answer, <<>>)
    BY <1>1, <1>5, ResumeView DEF SameMigration
  <2>2. SameCalls(c) /\ call'[c].answer # "ok"
    BY <1>2, <2>1 DEF Sends, Leaves
  <2>. QED
    BY <1>1, <2>1, <2>2, AnswersFrame DEF SameCalls
<1>6. CASE Return(c)
  <2>1. SameCalls(c) /\ UNCHANGED shared
    BY <1>1, <1>6, ReturnView DEF SameMigration, Leaves
  <2>2. call'[c].answer = "ok" /\ c \notin shared /\ call'[c].kind = "generate" =>
           call'[c].row = Own(c, MaxTokens + 1)
    BY <1>1, <1>6, ReturnsWhole
  <2>. QED
    BY <1>1, <2>1, <2>2, AnswersFrame DEF SameCalls
<1>7. CASE Work(c)
  BY <1>1, <1>7, WorkView, AnswersFrame
<1>. QED
  BY <1>3, <1>4, <1>5, <1>6, <1>7

\* Instances and migrations answer no call.
LEMMA OtherAnswers ==
    ASSUME IndInv, (\E b \in Backends : InstanceAction(b)) \/ MigrationAction
    PROVE  AnswersAreWhole'
<1>1. /\ RouterTypes /\ BackendTypes /\ InstancesStand /\ AnswersAreWhole /\ QueueIsQueued
      /\ \A c \in Calls : WorkerServes(c)
  BY DEF IndInv, CallsStand
<1>2. CASE MigrationAction
  <2>1. call' = call /\ UNCHANGED shared
    BY <1>2 DEF MigrationAction, StopInstance, TargetUp, Ask, Copy, Swap, EndMigration, Kill, requests
  <2>. QED
    BY <1>1, <2>1, AnswersFrame
<1>3. ASSUME NEW b \in Backends, InstanceAction(b) PROVE AnswersAreWhole'
  <2>1. CASE Assign(b)
    <3>1. PICK c \in Calls :
             /\ c = Head(request_queue) /\ request_queue # <<>> /\ SameCalls(c)
             /\ call'[c].answer = call[c].answer /\ UNCHANGED shared
      BY <1>1, <2>1, AssignView DEF SameMigration
    <3>2. request_queue \in Seq(Calls) /\ IsInjective(request_queue)
      BY <1>1 DEF RouterTypes, QueueIsQueued
    <3>3. call[c].pc = "queued"
      BY <1>1, <3>1, <3>2, TailElements DEF QueueIsQueued
    <3>4. call'[c].answer # "ok"
      BY <1>1, <3>1, <3>3, RouterAssumption DEF WorkerServes
    <3>. QED
      BY <1>1, <3>1, <3>4, AnswersFrame DEF SameCalls
  <2>2. CASE ~Assign(b)
    <3>1. call' = call /\ UNCHANGED shared
      BY <1>3, <2>2 DEF InstanceAction, CreateInstance, InstanceUp, FinishInstance, Kill, EndBackend,
                       BeginMigration, requests
    <3>. QED
      BY <1>1, <3>1, AnswersFrame
  <2>. QED
    BY <2>1, <2>2
<1>. QED
  BY <1>2, <1>3

(***************************************************************************)
(* The invariant                                                           *)
(***************************************************************************)

\* The router starts with no instance and no call.
LEMMA InitIsGood == Init => IndInv
<1> SUFFICES ASSUME Init PROVE IndInv
  OBVIOUS
<1>1. /\ status = [b \in Backends |-> "uninitialized"] /\ model = [b \in Backends |-> "none"]
      /\ intermediate = [b \in Backends |-> Nothing] /\ resumed = [b \in Backends |-> None]
      /\ ending = [b \in Backends |-> "none"] /\ worker = [c \in Calls |-> NoWorker]
      /\ request_queue = <<>> /\ request_count = 0
      /\ starting_instances = {} /\ ready_instances = <<>> /\ alive = {} /\ marked = {}
      /\ concurrency = [b \in Backends |-> 0] /\ max_queue_length = [b \in Backends |-> 0]
      /\ migration_record = [b \in Backends |-> None] /\ migration = NoMigration
      /\ call = [c \in Calls |-> NoCall] /\ shared = {}
  BY DEF Init, BackendInit
<1>2. NoCall \in CallRecords /\ NoCall.pc = "new" /\ NoCall.answer = None
  BY DEF NoCall, CallRecords, Rows
<1>3. Nothing \in [flat : BOOLEAN, row : Rows] /\ ~Nothing.flat /\ Nothing.row = <<>>
  BY DEF Nothing, Rows
<1>4. /\ \A c \in Calls : call[c].pc = "new" /\ call[c].answer = None
      /\ \A c \in Calls : worker[c].pc = "none" /\ worker[c].row = <<>>
      /\ migration.pc = "idle" /\ migration.row = <<>>
      /\ ToSet(request_queue) = {} /\ IsInjective(request_queue)
      /\ Ready = {} /\ IsInjective(ready_instances)
  BY <1>1, <1>2, WorkerShapes, NoMigrationView, EmptyElements DEF Ready
<1>5. RouterTypes
  BY <1>1, <1>2, NoMigrationView DEF RouterTypes
<1>6. BackendTypes
  BY <1>1, <1>3, WorkerShapes DEF BackendTypes
<1>7. InstancesStand
  BY <1>1, <1>4 DEF InstancesStand, ReadyIsRunning, TargetStands, Building, Built
<1>8. CallsStand
  <2>1. {c \in Calls : Pending(c)} = {} /\ \A b \in Backends : OnInstance(b) = {}
    BY <1>4 DEF Pending, OnInstance, Given
  <2>2. DemandCovered /\ ConcurrencyCovers
    <3>1. Cardinality({}) = 0
      BY FS_EmptySet
    <3>2. Cardinality({c \in Calls : Pending(c)}) = 0
      BY <2>1, <3>1, Zenon
    <3>3. \A b \in Backends : Cardinality(OnInstance(b)) = 0
      BY <2>1, <3>1
    <3>4. DemandCovered
      BY <1>1, <3>2 DEF DemandCovered
    <3>5. ConcurrencyCovers
      BY <1>1, <3>3 DEF ConcurrencyCovers
    <3>. QED
      BY <3>4, <3>5
  <2>. QED
    BY <1>1, <1>4, <2>2 DEF CallsStand, ConcurrencyBound, QueueIsQueued, GivenInUse, Given
<1>9. \A c \in Calls : WorkerServes(c)
  BY <1>4 DEF WorkerServes
<1>10. RowsAreOwn
  BY <1>4 DEF RowsAreOwn, GeneratesOwn, ResumesOwn, Generates, Resumes, Completed, Returned
<1>11. StreamsStand
  BY <1>1, <1>3, <1>4
  DEF StreamsStand, FlatHasRow, PreemptedIsDeleting, MeetingIsShared, StreamIsKept, Streaming, Returned
<1>12. NothingEarly
  BY <1>1, <1>3, <1>4, EmptyElements DEF NothingEarly, NowhereYet
<1>13. CachesStand
  BY <1>1, <1>4
  DEF CachesStand, TokensOfCache, CopyHasRow, CachesAreBehind, CopyIsBehind, CacheBehind,
      Generates, Resumes, Returned
<1>14. AnswersAreWhole
  BY <1>4, RouterAssumption DEF AnswersAreWhole
<1>. QED
  BY <1>5, <1>6, <1>7, <1>8, <1>9, <1>10, <1>11, <1>12, <1>13, <1>14 DEF IndInv

\* Instances stand where they should after every action.
LEMMA InstancesStep ==
    ASSUME IndInv, Next
    PROVE  InstancesStand'
<1>1. RouterTypes /\ BackendTypes /\ InstancesStand /\ \A c \in Calls : WorkerServes(c) /\ GivenInUse(c)
  BY DEF IndInv, CallsStand
<1>2. ASSUME NEW c \in Calls,
             \/ \E kind \in Kinds : Submit(c, kind)
             \/ Dispatch(c) \/ Resume(c) \/ Return(c) \/ Work(c)
      PROVE  InstancesStand'
  <2>1. SameInstances /\ UNCHANGED <<status, model, ending, migration>>
    BY <1>1, <1>2, SubmitView, DispatchView, ResumeView, ReturnView, WorkView
    DEF SameBackends, SameMigration
  <2>. QED
    BY <1>1, <2>1, InstancesFrame
<1>3. ASSUME NEW b \in Backends, InstanceAction(b) PROVE InstancesStand'
  <2>1. CASE Assign(b)
    <3>1. SameInstances /\ UNCHANGED <<status, model, ending, migration>>
      BY <1>1, <2>1, AssignView DEF SameBackends, SameMigration
    <3>. QED
      BY <1>1, <3>1, InstancesFrame
  <2>2. CASE FinishInstance(b)
    BY <1>1, <2>2, KillStands DEF FinishInstance
  <2>. QED
    BY <1>1, <1>3, <2>1, <2>2, CreateInstanceStands, InstanceUpStands, EndBackendStands,
       BeginMigrationStands DEF InstanceAction
<1>4. CASE EndMigration
  BY <1>1, <1>4, KillStands DEF EndMigration
<1>. QED
  BY <1>1, <1>2, <1>3, <1>4, StopInstanceStands, TargetUpStands, RoundStands, SwapStands
  DEF Next, InstanceAction

\* Every action keeps the invariant.
LEMMA NextIsGood == IndInv /\ Next => IndInv'
<1> SUFFICES ASSUME IndInv, Next PROVE IndInv'
  OBVIOUS
<1>1. /\ RouterTypes /\ BackendTypes /\ InstancesStand /\ CallsStand /\ CopyHasRow
      /\ \A c \in Calls : WorkerServes(c) /\ GivenInUse(c)
  BY DEF IndInv, CallsStand, CachesStand
<1>2. InstancesStand'
  BY InstancesStep
<1>3. ASSUME NEW c \in Calls,
             \/ \E kind \in Kinds : Submit(c, kind)
             \/ Dispatch(c) \/ Resume(c) \/ Return(c) \/ Work(c)
      PROVE  IndInv'
  <2>1. RouterTypes' /\ BackendTypes'
    BY <1>1, <1>3, CallTypes
  <2>2. CallsStand' /\ \A d \in Calls : WorkerServes(d)'
    BY <1>1, <1>3, CallCalls, CallServes
  <2>3. TokensStand' /\ AnswersAreWhole'
    BY <1>3, CallTokens, CallAnswers
  <2>. QED
    BY <1>2, <2>1, <2>2, <2>3 DEF IndInv, TokensStand
<1>4. ASSUME NEW b \in Backends, InstanceAction(b) PROVE IndInv'
  <2>1. RouterTypes' /\ BackendTypes'
    BY <1>1, <1>4, InstanceTypes
  <2>2. CallsStand' /\ \A d \in Calls : WorkerServes(d)'
    BY <1>1, <1>4, InstanceCalls, InstanceServes
  <2>3. TokensStand' /\ AnswersAreWhole'
    BY <1>4, InstanceTokens, OtherAnswers
  <2>. QED
    BY <1>2, <2>1, <2>2, <2>3 DEF IndInv, TokensStand
<1>5. ASSUME MigrationAction PROVE IndInv'
  <2>1. RouterTypes' /\ BackendTypes'
    BY <1>1, <1>5, MigrationTypes
  <2>2. CallsStand' /\ \A d \in Calls : WorkerServes(d)'
    BY <1>1, <1>5, MigrationCalls, MigrationServes
  <2>3. TokensStand' /\ AnswersAreWhole'
    BY <1>5, MigrationTokens, OtherAnswers
  <2>. QED
    BY <1>2, <2>1, <2>2, <2>3 DEF IndInv, TokensStand
<1>. QED
  BY <1>3, <1>4, <1>5 DEF Next, InstanceAction, MigrationAction
\* A step that changes nothing keeps the invariant.
LEMMA StutterIsGood == IndInv /\ UNCHANGED vars => IndInv'
<1> SUFFICES ASSUME IndInv, UNCHANGED vars PROVE IndInv'
  OBVIOUS
<1>1. /\ UNCHANGED <<status, model, intermediate, resumed, ending, worker>>
      /\ SameInstances /\ SameMigration /\ SameCounts /\ call' = call
  BY DEF vars, backends, requests, scaling, SameInstances, SameMigration, SameCounts
<1>2. /\ RouterTypes /\ BackendTypes /\ InstancesStand /\ CallsStand /\ AnswersAreWhole
      /\ \A c \in Calls : WorkerServes(c)
  BY DEF IndInv
<1>3. RouterTypes' /\ BackendTypes'
  BY <1>1, <1>2 DEF RouterTypes, BackendTypes, SameInstances, SameMigration, SameCounts
<1>4. InstancesStand'
  BY <1>1, <1>2, InstancesFrame DEF SameMigration
<1>5. CallsStand'
  <2>1. \A b : InUse(b) => InUse(b)'
    BY <1>1 DEF InUse, Building, SameInstances, SameMigration
  <2>. QED
    BY <1>1, <1>2, <2>1, CallsFrame DEF SameInstances
<1>6. \A c \in Calls : WorkerServes(c)'
  <2>1. ASSUME NEW c \in Calls PROVE WorkerServes(c)'
    BY <1>1, <1>2, ServesFrame DEF SameInstances
  <2>. QED
    BY <2>1
<1>7. RowsAreOwn' /\ StreamsStand' /\ NothingEarly' /\ CachesStand'
  <2>1. Backdrop /\ QuietCaches
    BY <1>1, SameBackdrop DEF SameBackends
  <2>2. \A d \in Calls : Quiet(d)
    BY <1>1 DEF Quiet
  <2>3. \A d \in Calls : NotBegun(d)' => NotBegun(d)
    BY <1>1 DEF NotBegun
  <2>. QED
    BY <2>1, <2>2, <2>3, QuietStep
<1>8. AnswersAreWhole'
  BY <1>1, <1>2, AnswersFrame DEF SameMigration
<1>. QED
  BY <1>3, <1>4, <1>5, <1>6, <1>7, <1>8 DEF IndInv

\* What the counts, the instances and the answers of calls may be.
LEMMA GoodIsRight == IndInv => InstancesAreRight
<1> SUFFICES ASSUME IndInv PROVE InstancesAreRight
  OBVIOUS
<1>1. /\ RouterTypes /\ BackendTypes /\ InstancesStand /\ CallsStand /\ FlatHasRow
      /\ \A c \in Calls : WorkerServes(c)
  BY DEF IndInv, StreamsStand
<1>2. /\ Cardinality(PendingCalls) \in Nat
      /\ request_count \in Int /\ Cardinality(PendingCalls) <= request_count
      /\ \A b \in Backends :
            /\ Cardinality(OnInstance(b)) \in Nat
            /\ concurrency[b] \in Int /\ max_queue_length[b] \in Nat
            /\ Cardinality(OnInstance(b)) <= concurrency[b]
            /\ concurrency[b] <= max_queue_length[b]
  BY <1>1, Counting
<1>3. request_count \in Nat
  BY <1>2
<1>4. \A b \in Backends : concurrency[b] \in 0 .. max_queue_length[b]
  BY <1>2
<1>5. ToSet(request_queue) \subseteq Calls
  BY <1>1, ToSetMember DEF RouterTypes
<1>6. \A b \in Backends : migration_record[b] \in Backends \cup {None}
  BY <1>1 DEF RouterTypes
<1>7. ASSUME NEW c \in Calls
      PROVE  /\ call[c].answer \in {None, "ok", "error", "raised"}
             /\ worker[c].pc = "none" <=> call[c].pc \notin {"executing", "resuming"}
  <2>1. call[c] \in CallRecords
    BY <1>1, Fields
  <2>. QED
    BY <1>1, <2>1 DEF CallRecords, WorkerServes
<1>8. TypeOK
  BY <1>1, <1>3, <1>4, <1>5, <1>6, <1>7 DEF TypeOK, FlatHasRow
<1>. QED
  BY <1>1, <1>8 DEF InstancesAreRight, InstancesStand, CallsStand

\* In every state the router can reach the instances, the counts, the workers
\* of the backends and the tokens stand as IndInv says, for any number of calls,
\* instances and migrations, whatever the auto scaler decides.
THEOREM MigrationInvariance == Spec => []IndInv
<1>1. IndInv /\ [Next]_vars => IndInv'
  BY NextIsGood, StutterIsGood
<1>. QED
  BY <1>1, InitIsGood, PTL DEF Spec

\* Migrations, the auto scaler and ending calls always leave the router with
\* ready instances that run, on GPUs that the scheduler has marked, and with
\* counts that cover the calls which have not returned.
THEOREM InstancesAlwaysRight == Spec => []InstancesAreRight
BY MigrationInvariance, GoodIsRight, PTL

\* A call is answered its prompt and max_tokens tokens of its own, each once,
\* after any migration, unless its tokens met another call's.
THEOREM AnswersAlwaysWhole == Spec => []AnswersAreWhole
<1>1. IndInv => AnswersAreWhole
  BY DEF IndInv
<1>. QED
  BY <1>1, MigrationInvariance, PTL
=============================================================================
