--------------------------- MODULE MigrationRouter ---------------------------
(***************************************************************************)
(* The router that migrates a model's calls from one instance to another   *)
(* (sllm/routers/migration_router.py) with the backends it starts, copies  *)
(* tokens between and stops.  As in RoundRobinRouter one event loop runs   *)
(* everything, and an action is what happens between two waits; but the    *)
(* migration waits for the backends with ray.get, which stops the loop.    *)
(*                                                                         *)
(* What the router inherits is kept to what migrations meet: the queue,    *)
(* the choice of an instance with room, and the auto scaler, which may     *)
(* find its keep_alive over at any time.                                   *)
(***************************************************************************)
EXTENDS TransformersBackend, FiniteSets, FiniteSetsExt

CONSTANTS
    Kinds,           \* what calls ask for: "generate", "encode"
    Target,          \* of the auto scaling config, and max_queue_length
    MaxInstances,
    TargetQueue,     \* max_queue_length of the target of a migration
    migration_delta,
    MaxMigrations    \* bound on the plans the scheduler makes

ASSUME RouterAssumption ==
    /\ Kinds \subseteq {"generate", "encode"} /\ MaxTokens \in Nat /\ migration_delta \in Nat
    /\ {Target, MaxInstances, TargetQueue} \subseteq Nat \ {0}
    /\ IsFiniteSet(Calls) /\ Foreign \notin Calls /\ None \notin Backends \cup {"ok"}

VARIABLES
    request_queue, request_count,
    starting_instances, ready_instances,    \* the second in dict order
    concurrency, max_queue_length,
    alive,              \* the instances whose actor lives
    marked,             \* the instances the scheduler has given GPUs to
    migration_record,
    plans,              \* how many there were
    migration,          \* where execute_migration_plan is
    call,               \* call[c]: [pc, kind, on, answer]
    shared              \* auxiliary: the calls whose tokens met another call's

scaling == <<starting_instances, ready_instances, concurrency, max_queue_length, alive, marked>>
requests == <<request_queue, request_count, call>>
vars == <<backends, requests, scaling, migration_record, plans, migration, shared>>

NoMigration == [pc |-> "idle", source |-> None, target |-> None, previous |-> 0, row |-> <<>>]
NoCall == [pc |-> "new", kind |-> None, on |-> None, answer |-> None, row |-> <<>>]

Init ==
    /\ BackendInit
    /\ request_queue = <<>> /\ request_count = 0
    /\ starting_instances = {} /\ ready_instances = <<>> /\ alive = {} /\ marked = {}
    /\ concurrency = [b \in Backends |-> 0] /\ max_queue_length = [b \in Backends |-> 0]
    /\ migration_record = [b \in Backends |-> None] /\ migration = NoMigration /\ plans = 0
    /\ call = [c \in Calls |-> NoCall] /\ shared = {}

Ready == ToSet(ready_instances)
Position(b) == CHOOSE i \in DOMAIN ready_instances : ready_instances[i] = b
Pending(c) == call[c].pc \in {"queued", "assigned", "executing", "resuming"}

\* ray.get in the loop over the tokens keeps the event loop.
Free == migration.pc \notin {"asking", "copying"}

\* An id that nothing refers to stands for a new uuid; which one does not matter.
Unused(b) ==
    /\ b \notin starting_instances \cup Ready \cup alive
    /\ b \notin {migration.source, migration.target}
    /\ \A c \in Calls : Pending(c) =>
          b # call[c].on /\ (call[c].on # None => migration_record[call[c].on] # b)
Fresh(b) == Unused(b) /\ b = CHOOSE u \in Backends : Unused(u)

-----------------------------------------------------------------------------
(* inference *)

Submit(c, kind) ==
    /\ Free /\ call[c].pc = "new"
    /\ call' = [call EXCEPT ![c].pc = "queued", ![c].kind = kind]
    /\ request_queue' = Append(request_queue, c) /\ request_count' = request_count + 1
    /\ UNCHANGED <<backends, scaling, migration_record, plans, migration, shared>>

\* The load balancer gives the first call an instance with room.
Assign(b) ==
    /\ Free /\ request_queue # <<>> /\ b \in Ready /\ concurrency[b] < max_queue_length[b]
    /\ request_queue' = Tail(request_queue)
    /\ call' = [call EXCEPT ![Head(request_queue)].pc = "assigned", ![Head(request_queue)].on = b]
    /\ concurrency' = [concurrency EXCEPT ![b] = @ + 1]
    /\ UNCHANGED <<backends, request_count, starting_instances, ready_instances, max_queue_length,
                   alive, marked, migration_record, plans, migration, shared>>

Ended(c, answer, row) == [call EXCEPT ![c].pc = "ended", ![c].answer = answer, ![c].row = row]
Sent(kind, b, row, left) ==
    [NoWorker EXCEPT !.pc = "sent", !.kind = kind, !.on = b, !.row = row, !.left = left]

\* The call finds its instance, or answers that it is not found without
\* giving back what was counted.
Dispatch(c) ==
    LET b == call[c].on IN
    /\ Free /\ call[c].pc = "assigned"
    /\ IF b \in Ready
       THEN /\ call' = [call EXCEPT ![c].pc = "executing"]
            /\ worker' = [worker EXCEPT ![c] = Sent(call[c].kind, b, <<>>, MaxTokens)]
       ELSE call' = Ended(c, "error", <<>>) /\ UNCHANGED worker
    /\ UNCHANGED <<status, model, intermediate, resumed, ending, request_queue, request_count,
                   scaling, migration_record, plans, migration, shared>>

\* Mutant of LeftTokens: the tokens the source made are not subtracted.
LeftTokensAll(row) == MaxTokens
\* completed_tokens, subtracted from max_tokens.
LeftTokens(row) == MaxTokens - (Len(row) - 1)

\* The target of a preempted call: none, one that is gone, or a ready one
\* that resumes it.  No count is kept of it there.
Resume(c) ==
    LET w == worker[c]
        to == migration_record[w.on]
    IN
    /\ Free /\ call[c].pc = "executing" /\ Has(c, "answered") /\ w.result = "preempted"
    /\ IF to = None THEN call' = Ended(c, "error", <<>>) /\ worker' = [worker EXCEPT ![c] = NoWorker]
       ELSE IF to \notin Ready THEN call' = Ended(c, "raised", <<>>) /\ worker' = [worker EXCEPT ![c] = NoWorker]
       ELSE /\ call' = [call EXCEPT ![c].pc = "resuming"]
            /\ worker' = [worker EXCEPT ![c] = Sent("resume", to, w.row, LeftTokens(w.row))]
    /\ UNCHANGED <<status, model, intermediate, resumed, ending, request_queue, request_count,
                   scaling, migration_record, plans, migration, shared>>

\* Mutant of Return: a call that raises is counted off more than once.
ReturnTwice(c) ==
    LET w == worker[c]
        b == call[c].on
        n == IF call[c].pc = "resuming" THEN 2 ELSE 1
    IN
    /\ Free /\ call[c].pc \in {"executing", "resuming"} /\ Has(c, "answered") /\ w.result # "preempted"
    /\ call' = Ended(c, w.result, w.row) /\ worker' = [worker EXCEPT ![c] = NoWorker]
    /\ request_count' = request_count - n /\ concurrency' = [concurrency EXCEPT ![b] = @ - 1]
    /\ UNCHANGED <<status, model, intermediate, resumed, ending, request_queue, starting_instances,
                   ready_instances, max_queue_length, alive, marked,
                    migration_record, plans, migration, shared>>
\* The backend has answered; if it raised the counts are not given back.
Return(c) ==
    LET w == worker[c]
        b == call[c].on
    IN
    /\ Free /\ call[c].pc \in {"executing", "resuming"} /\ Has(c, "answered") /\ w.result # "preempted"
    /\ call' = Ended(c, w.result, w.row) /\ worker' = [worker EXCEPT ![c] = NoWorker]
    /\ IF w.result = "raised" THEN UNCHANGED <<request_count, concurrency>>
       ELSE /\ request_count' = request_count - 1
            /\ concurrency' = [concurrency EXCEPT ![b] = @ - 1]
    /\ UNCHANGED <<status, model, intermediate, resumed, ending, request_queue, starting_instances,
                   ready_instances, max_queue_length, alive, marked,
                    migration_record, plans, migration, shared>>

\* A call whose tokens are in the intermediate, until it is answered.
Streaming(c, b) == worker[c].pc \in {"generating", "preempted"} /\ worker[c].on = b

\* A backend works on, also while the event loop is kept.  Tokens of two
\* calls meet in an intermediate, or in the cache of a resumption.
Work(c) ==
    LET b == worker[c].on
        streams == worker[c].pc \in {"checked", "generating"} /\ worker[c].kind # "encode"
        others == {d \in Calls \ {c} : Streaming(d, b)}
        left == intermediate[b].row # <<>> /\ Has(c, "checked")
        cache == worker[c].kind = "resume" /\ resumed[b] # None
                    /\ ~IsPrefix(resumed[b].cache, worker[c].row)
    IN
    /\ worker[c].pc \notin {"none", "answered"} /\ Works(c)
    /\ shared' = IF streams /\ (others # {} \/ left \/ cache) THEN shared \cup others \cup {c} ELSE shared
    /\ UNCHANGED <<requests, scaling, migration_record, plans, migration>>

-----------------------------------------------------------------------------
(* The auto scaler *)

\* Mutant of Desired: the quotient is rounded down.
DesiredFloor == Min({MaxInstances, request_count \div Target})
Desired == Min({MaxInstances, (request_count + Target - 1) \div Target})
Running == Cardinality(starting_instances) + Len(ready_instances)

CreateInstance(b) ==
    /\ Free /\ Desired > Running /\ Fresh(b)
    /\ starting_instances' = starting_instances \cup {b}
    /\ max_queue_length' = [max_queue_length EXCEPT ![b] = Target]
    /\ concurrency' = [concurrency EXCEPT ![b] = 0]
    /\ migration_record' = [migration_record EXCEPT ![b] = None]
    /\ UNCHANGED <<backends, requests, ready_instances, alive, marked, plans, migration, shared>>

\* The scheduler has given it GPUs, its actor is up and has loaded the model.
InstanceUp(b) ==
    /\ Free /\ b \in starting_instances
    /\ marked' = marked \cup {b} /\ alive' = alive \cup {b} /\ Initialized(b)
    /\ starting_instances' = starting_instances \ {b}
    /\ ready_instances' = Append(ready_instances, b)
    /\ UNCHANGED <<worker, requests, concurrency, max_queue_length,
                    migration_record, plans, migration, shared>>

\* _stop_instance pops the last one, and _finish_instance asks it to stop.
StopInstance ==
    /\ Free /\ Desired < Running /\ ready_instances # <<>>
    /\ Ends(Last(ready_instances), "stop")
    /\ ready_instances' = Front(ready_instances)
    /\ UNCHANGED <<model, intermediate, resumed, worker, requests, starting_instances, concurrency,
                   max_queue_length, alive, marked, migration_record, plans, migration, shared>>

\* stop or shutdown has returned: the actor is killed, the GPUs given back.
Kill(b) ==
    /\ ending[b] = "done" /\ b \in alive
    /\ worker' = Killed(b, worker) /\ alive' = alive \ {b} /\ marked' = marked \ {b}
    /\ UNCHANGED <<status, model, intermediate, resumed, ending, requests, starting_instances,
                   ready_instances, concurrency, max_queue_length, migration_record, plans, shared>>

FinishInstance(b) == Free /\ b # migration.source /\ Kill(b) /\ UNCHANGED migration

-----------------------------------------------------------------------------
(* execute_migration_plan *)

\* The scheduler has looked at the source a while ago; mark_resource gives
\* the target GPUs.  (If it does not, the plan ends before it began.)
BeginMigration(source, target) ==
    /\ Free /\ migration.pc = "idle" /\ plans < MaxMigrations
    /\ source \in alive \ {target} /\ Fresh(target)
    /\ plans' = plans + 1
    /\ migration' = [NoMigration EXCEPT !.pc = "starting", !.source = source, !.target = target]
    /\ marked' = marked \cup {target}
    /\ max_queue_length' = [max_queue_length EXCEPT ![target] = TargetQueue]
    /\ concurrency' = [concurrency EXCEPT ![target] = 0]
    /\ migration_record' = [migration_record EXCEPT ![target] = None]
    /\ UNCHANGED <<backends, requests, starting_instances, ready_instances, alive, shared>>

\* The target is up.  If the source is gone the target is shut down and
\* killed; its mark at the scheduler stays.
TargetUp ==
    LET target == migration.target IN
    /\ migration.pc = "starting"
    /\ IF migration.source \in Ready
       THEN /\ Initialized(target) /\ alive' = alive \cup {target}
            /\ migration' = [migration EXCEPT !.pc = "asking"]
       ELSE migration' = NoMigration /\ UNCHANGED <<status, model, intermediate, resumed, ending, alive>>
    /\ UNCHANGED <<worker, requests, starting_instances, ready_instances, concurrency,
                   max_queue_length, marked, migration_record, plans, shared>>

\* A round: the tokens of the source.  None, or few new ones, end the loop;
\* a list that is no row raises and leaves the target as it is.
Ask ==
    LET s == CurrentTokens(migration.source)
        delta == Len(s.row) - migration.previous
    IN
    /\ migration.pc = "asking"
    /\ migration' = IF s.flat THEN NoMigration
                    ELSE IF s.row = <<>> \/ delta <= migration_delta THEN [migration EXCEPT !.pc = "swap"]
                    ELSE [migration EXCEPT !.pc = "copying", !.previous = Len(s.row), !.row = s.row]
    /\ UNCHANGED <<backends, requests, scaling, migration_record, plans, shared>>

\* The target resumes the cache; a list within the row raises.
Copy ==
    LET target == migration.target IN
    /\ migration.pc = "copying"
    /\ IF Foreign \in ToSet(migration.row)
       THEN migration' = NoMigration /\ UNCHANGED resumed
       ELSE /\ migration' = [migration EXCEPT !.pc = "asking", !.row = <<>>]
            /\ resumed' = [resumed EXCEPT ![target] = Resumed(target, migration.row)]
    /\ UNCHANGED <<status, model, intermediate, ending, worker, requests, scaling,
                    migration_record, plans, shared>>

\* Mutant of Swap: the source is not taken off the ready ones.
SwapKeeps ==
    LET source == migration.source
        target == migration.target
    IN
    /\ migration.pc = "swap"
    /\ IF source \in Ready
       THEN /\ ready_instances' = Append(ready_instances, target)
            /\ migration_record' = [migration_record EXCEPT ![source] = target]
            /\ migration' = [migration EXCEPT !.pc = "draining"]
            /\ Ends(source, "shutdown") /\ UNCHANGED <<model, alive>>
       ELSE /\ migration' = NoMigration /\ alive' = alive \ {target}
            /\ model' = [model EXCEPT ![target] = "deleted"]
            /\ status' = [status EXCEPT ![target] = "deleting"]
            /\ UNCHANGED <<ready_instances, migration_record, ending>>
    /\ UNCHANGED <<intermediate, resumed, worker, requests, starting_instances, concurrency,
                   max_queue_length, marked, plans, shared>>
\* Under the lock the source is looked for again, and replaced by the target;
\* then it is shut down.
Swap ==
    LET source == migration.source
        target == migration.target
    IN
    /\ migration.pc = "swap"
    /\ IF source \in Ready
       THEN /\ ready_instances' = Append(RemoveAt(ready_instances, Position(source)), target)
            /\ migration_record' = [migration_record EXCEPT ![source] = target]
            /\ migration' = [migration EXCEPT !.pc = "draining"]
            /\ Ends(source, "shutdown") /\ UNCHANGED <<model, alive>>
       ELSE /\ migration' = NoMigration /\ alive' = alive \ {target}
            /\ model' = [model EXCEPT ![target] = "deleted"]
            /\ status' = [status EXCEPT ![target] = "deleting"]
            /\ UNCHANGED <<ready_instances, migration_record, ending>>
    /\ UNCHANGED <<intermediate, resumed, worker, requests, starting_instances, concurrency,
                   max_queue_length, marked, plans, shared>>

EndMigration == migration.pc = "draining" /\ Kill(migration.source) /\ migration' = NoMigration

Migrate == TargetUp \/ Ask \/ Copy \/ Swap \/ EndMigration
EndBackend(b) ==
    /\ Stopped(b) \/ ShutDown(b)
    /\ UNCHANGED <<requests, scaling, migration_record, plans, migration, shared>>

Next ==
    \/ \E c \in Calls : \/ \E kind \in Kinds : Submit(c, kind)
                        \/ Dispatch(c) \/ Resume(c) \/ Return(c) \/ Work(c)
    \/ \E b \in Backends : \/ Assign(b) \/ CreateInstance(b) \/ InstanceUp(b)
                           \/ FinishInstance(b) \/ EndBackend(b)
                           \/ \E target \in Backends : BeginMigration(b, target)
    \/ StopInstance \/ TargetUp \/ Ask \/ Copy \/ Swap \/ EndMigration

\* The event loop runs what can run, the threads of the backends work and the
\* scheduler answers; nobody need make a migration plan, or find a call idle.
Fairness ==
    /\ \A c \in Calls : WF_vars(Dispatch(c) \/ Resume(c) \/ Return(c) \/ Work(c))
    /\ \A b \in Backends : WF_vars(InstanceUp(b) \/ FinishInstance(b) \/ EndBackend(b))
    /\ WF_vars(\E b \in Backends : Assign(b)) /\ WF_vars(\E b \in Backends : CreateInstance(b))
    /\ WF_vars(Migrate)
Spec == Init /\ [][Next]_vars /\ Fairness

-----------------------------------------------------------------------------
(* Properties *)

TypeOK ==
    /\ request_count \in Nat /\ ToSet(request_queue) \subseteq Calls
    /\ \A b \in Backends : /\ concurrency[b] \in 0 .. max_queue_length[b]
                           /\ intermediate[b].flat => intermediate[b].row # <<>>
                           /\ migration_record[b] \in Backends \cup {None}
    /\ \A c \in Calls : /\ call[c].answer \in {None, "ok", "error", "raised"}
                        /\ worker[c].pc = "none" <=> call[c].pc \notin {"executing", "resuming"}

\* A call is only ever sent to an instance that runs, on GPUs that are its
\* own by the scheduler's books, and no actor lives outside them: whatever the
\* auto scaler and a migration do to the instances at the same time.
ReadyIsRunning ==
    /\ IsInjective(ready_instances) /\ Ready \subseteq alive /\ alive \subseteq marked
    /\ \A b \in Ready : status[b] = "running" /\ model[b] = "loaded" /\ ending[b] = "none"

\* The calls that have not returned are counted, so that the auto scaler keeps
\* instances for them, also while they are preempted and resumed.
DemandCovered == request_count >= Cardinality({c \in Calls : Pending(c)})

\* Migrations, the auto scaler and ending calls leave the router with instances
\* that run and counts that cover the calls.
InstancesAreRight == TypeOK /\ ReadyIsRunning /\ DemandCovered

\* What a call is answered after any migration is its prompt and max_tokens
\* tokens of its own, each once, unless its tokens met another call's in an
\* intermediate or a cache.
AnswersAreWhole ==
    \A c \in Calls :
        (call[c].answer = "ok" /\ call[c].kind = "generate" /\ c \notin shared) =>
            call[c].row = [i \in 1 .. MaxTokens + 1 |-> c]

\* Every call is answered or raises, although a migration stops the event loop
\* and takes the instances of calls away.
EveryCallReturns == \A c \in Calls : (call[c].pc # "new") ~> (call[c].pc = "ended")

\* Tokens that a call which raised has left, and no call will take away.
Leftover(b) ==
    /\ intermediate[b].row # <<>>
    /\ \A c \in Calls : worker[c].on = b => worker[c].pc \notin {"generating", "preempted", "checked"}
    /\ \E c \in Calls : call[c].answer = "raised" /\ b \in {call[c].on, migration_record[call[c].on]}

\* An instance that is stopped, or the source of a migration, gives its GPUs
\* back, unless a call that raised has left its tokens behind.
GpusComeBack ==
    \A b \in Backends :
        (b \in alive /\ ending[b] # "none") ~> (b \notin marked \/ Leftover(b))

\* What a call is answered is its own, whatever other calls are served.
AnswersAreOwn ==
    \A c \in Calls :
        (call[c].answer = "ok" /\ call[c].kind = "generate") =>
            call[c].row = [i \in 1 .. MaxTokens + 1 |-> c]
=============================================================================
