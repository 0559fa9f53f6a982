----------------------------- MODULE VllmBackend -----------------------------
(***************************************************************************)
(* A backend actor that runs a model with vLLM                             *)
(* (sllm/backends/vllm_backend.py), until its router has killed it.  All   *)
(* its methods are coroutines of one event loop, and no lock is held       *)
(* across a wait: an action is what happens between two outputs of the     *)
(* engine.  The AsyncLLMEngine is external: it knows a request by its id,  *)
(* refuses an id it is working on, and a request may fail in it.           *)
(***************************************************************************)
EXTENDS Integers, FiniteSets

CONSTANTS
    Calls,
    Ids,         \* what callers may name their requests; others get a uuid
    Inputs,      \* the inputs of an encode call
    MaxOutputs,  \* outputs of the engine for a request of generate
    Null

ASSUME VllmAssumption == MaxOutputs \in Nat \ {0} /\ Inputs \subseteq Nat
\* A name, given by the caller or a uuid, is never one of encode's numbers.
ASSUME NamesAssumption ==
    Null \notin Ids \cup Calls \cup Inputs /\ (Ids \cup Calls) \cap Inputs = {}

VARIABLES
    status,         \* "uninitialized", "running", "stopping" or "deleting"
    trace_debug,
    request_trace,  \* the ids in status_dict
    engine,         \* what the engine works on: [id, call, input]
    call,           \* call[c]: [pc, id, outputs, done, answer]
    stopping,       \* where stop() is: "none", "waiting" or "done"
    aborted,        \* the calls that shutdown() aborted, and who called it
    alive,
    clash           \* auxiliary: the calls whose id another request had too

vars == <<status, trace_debug, request_trace, engine, call, stopping, aborted, alive, clash>>

NoCall == [pc |-> "new", id |-> Null, outputs |-> 0, done |-> {}, answer |-> "none"]

Init ==
    /\ status = "uninitialized" /\ trace_debug \in BOOLEAN /\ request_trace = {} /\ engine = {}
    /\ call = [c \in Calls |-> NoCall] /\ stopping = "none" /\ alive = TRUE /\ clash = {}
    /\ aborted = [calls |-> {}, by |-> "none"]

Ended(c, answer) == [call EXCEPT ![c].pc = "ended", ![c].answer = answer]
InFlight == {c \in Calls : call[c].pc \in {"generating", "encoding"}}
Known(id) == \E r \in engine : r.id = id
Holders(id) == {c \in InFlight : call[c].id = id}

InitBackend ==
    /\ alive /\ status = "uninitialized"
    /\ status' = "running"
    /\ UNCHANGED <<trace_debug, request_trace, engine, call, stopping, aborted, alive, clash>>

\* A call that finds the backend not running, or that asks for nothing the
\* engine can do, gets an error.
Refuse(c) ==
    /\ alive /\ call[c].pc = "new"
    /\ call' = Ended(c, "error")
    /\ UNCHANGED <<status, trace_debug, request_trace, engine, stopping, aborted, alive, clash>>

-----------------------------------------------------------------------------
(* generate; resume_kv_cache calls it too, and a uuid is an id of its own *)

Generate(c, id) ==
    /\ alive /\ call[c].pc = "new" /\ status = "running"
    /\ clash' = IF Holders(id) # {} THEN clash \cup Holders(id) \cup {c} ELSE clash
    /\ IF Known(id) THEN call' = Ended(c, "raised") /\ UNCHANGED engine
       ELSE /\ call' = [call EXCEPT ![c].pc = "generating", ![c].id = id]
            /\ engine' = engine \cup {[id |-> id, call |-> c, input |-> Null]}
    /\ UNCHANGED <<status, trace_debug, request_trace, stopping, aborted, alive>>

Request(c) == {r \in engine : r.call = c}

\* An output of the engine: update_status lists the request.  The engine is
\* done with a request when its last output is out.
Output(c) ==
    /\ alive /\ call[c].pc = "generating" /\ Request(c) # {}
    /\ call' = [call EXCEPT ![c].outputs = @ + 1]
    /\ request_trace' = request_trace \cup {call[c].id}
    /\ engine' = IF call'[c].outputs = MaxOutputs THEN engine \ Request(c) ELSE engine
    /\ UNCHANGED <<status, trace_debug, stopping, aborted, alive, clash>>

\* Mutant of Finish: the finished request is still listed.
FinishListed(c) ==
    /\ alive /\ call[c].pc = "generating" /\ call[c].outputs = MaxOutputs
    /\ call' = Ended(c, "ok") /\ UNCHANGED request_trace
    /\ UNCHANGED <<status, trace_debug, engine, stopping, aborted, alive, clash>>
\* The last output was it: delete_request, which raises if another request of
\* this id has deleted it.
Finish(c) ==
    /\ alive /\ call[c].pc = "generating" /\ call[c].outputs = MaxOutputs
    /\ IF trace_debug THEN call' = Ended(c, "ok") /\ UNCHANGED request_trace
       ELSE /\ call' = Ended(c, IF call[c].id \in request_trace THEN "ok" ELSE "raised")
            /\ request_trace' = request_trace \ {call[c].id}
    /\ UNCHANGED <<status, trace_debug, engine, stopping, aborted, alive, clash>>

\* The engine raises for a request, or shutdown() has aborted it: what was
\* listed stays listed.
Fails(c) ==
    /\ alive /\ call[c].pc = "generating" /\ call[c].outputs < MaxOutputs
    /\ call' = Ended(c, "raised") /\ engine' = engine \ Request(c)
    /\ UNCHANGED <<status, trace_debug, request_trace, stopping, aborted, alive, clash>>

-----------------------------------------------------------------------------
(* encode, which is not listed: its requests are numbered from 0 *)

\* Mutant of Encode: the counter is not advanced.
EncodeOneNumber(c) ==
    LET free == {n \in Inputs : ~Known(0) /\ n = 0} IN
    /\ alive /\ call[c].pc = "new" /\ status = "running" /\ Inputs # {}
    /\ call' = [call EXCEPT ![c].pc = "encoding"]
    /\ engine' = engine \cup {[id |-> 0, call |-> c, input |-> n] : n \in free}
    /\ clash' = IF Known(0) THEN clash \cup {c} ELSE clash
    /\ UNCHANGED <<status, trace_debug, request_trace, stopping, aborted, alive>>
Encode(c) ==
    LET free == {n \in Inputs : ~Known(n)} IN
    /\ alive /\ call[c].pc = "new" /\ status = "running" /\ Inputs # {}
    /\ call' = [call EXCEPT ![c].pc = "encoding"]
    /\ engine' = engine \cup {[id |-> n, call |-> c, input |-> n] : n \in free}
    /\ clash' = IF free # Inputs THEN clash \cup {c} ELSE clash
    /\ UNCHANGED <<status, trace_debug, request_trace, stopping, aborted, alive>>

\* An input is embedded, or it fails.
Embed(c, r, failed) ==
    /\ alive /\ call[c].pc = "encoding" /\ r \in Request(c)
    /\ engine' = engine \ {r}
    /\ call' = IF failed THEN [call EXCEPT ![c].outputs = @ + 1]
               ELSE [call EXCEPT ![c].done = @ \cup {r.input}]
    /\ UNCHANGED <<status, trace_debug, request_trace, stopping, aborted, alive, clash>>

\* The inputs that failed are left out of the answer.
EndEncode(c) ==
    /\ alive /\ call[c].pc = "encoding" /\ Request(c) = {}
    /\ call' = Ended(c, IF call[c].done = {} THEN "error" ELSE "ok")
    /\ UNCHANGED <<status, trace_debug, request_trace, engine, stopping, aborted, alive, clash>>

-----------------------------------------------------------------------------
(* stop and shutdown, called by the router, which then kills the actor *)

\* shutdown() aborts what is listed.
ShutDown(by) ==
    LET requests == {r \in engine : r.id \in request_trace} IN
    /\ status' = "deleting"
    /\ engine' = engine \ requests
    /\ aborted' = [calls |-> {r.call : r \in requests}, by |-> by]

Stop ==
    /\ alive /\ status \in {"uninitialized", "running"}
    /\ status' = "stopping" /\ stopping' = "waiting"
    /\ UNCHANGED <<trace_debug, request_trace, engine, call, aborted, alive, clash>>

\* Mutant of StopEnds: it does not wait for what is listed.
StopEndsAtOnce ==
    /\ alive /\ stopping = "waiting"
    /\ stopping' = "done"
    /\ IF status = "deleting" THEN UNCHANGED <<status, engine, aborted>> ELSE ShutDown("stop")
    /\ UNCHANGED <<trace_debug, request_trace, call, alive, clash>>
\* Nothing is listed any more.
StopEnds ==
    /\ alive /\ stopping = "waiting" /\ request_trace = {}
    /\ stopping' = "done"
    /\ IF status = "deleting" THEN UNCHANGED <<status, engine, aborted>> ELSE ShutDown("stop")
    /\ UNCHANGED <<trace_debug, request_trace, call, alive, clash>>

Shutdown ==
    /\ alive /\ status # "deleting"
    /\ ShutDown("shutdown")
    /\ UNCHANGED <<trace_debug, request_trace, call, stopping, alive, clash>>

\* stop or shutdown has returned.
Kill ==
    /\ alive /\ status = "deleting" /\ (stopping = "done" \/ aborted.by = "shutdown")
    /\ alive' = FALSE /\ stopping' = "done" /\ engine' = {}
    /\ call' = [c \in Calls |-> IF c \in InFlight THEN Ended(c, "killed")[c] ELSE call[c]]
    /\ UNCHANGED <<status, trace_debug, request_trace, aborted, clash>>

Works(c) == Output(c) \/ Finish(c) \/ EndEncode(c) \/ \E r \in engine : Embed(c, r, FALSE)

Next ==
    \/ InitBackend \/ Stop \/ StopEnds \/ Shutdown \/ Kill
    \/ \E c \in Calls : \/ Refuse(c) \/ Fails(c) \/ Encode(c)
                        \/ \E id \in Ids \cup {c} : Generate(c, id)
                        \/ Output(c) \/ Finish(c) \/ EndEncode(c)
                        \/ \E r \in engine, failed \in BOOLEAN : Embed(c, r, failed)

\* The engine works on its requests, and stop() looks again every second.
Fairness ==
    /\ \A c \in Calls : WF_vars(Works(c)) /\ WF_vars(Fails(c) /\ Request(c) = {})
    /\ WF_vars(StopEnds)
Spec == Init /\ [][Next]_vars /\ Fairness

-----------------------------------------------------------------------------
(* Properties *)

Outcomes == {"none", "ok", "error", "raised", "killed"}

CallRecord == [pc : {"new", "generating", "encoding", "ended"}, id : Ids \cup Calls \cup {Null},
               outputs : Nat, done : SUBSET Inputs, answer : Outcomes]

TypeOK ==
    /\ status \in {"uninitialized", "running", "stopping", "deleting"}
    /\ stopping \in {"none", "waiting", "done"}
    /\ trace_debug \in BOOLEAN /\ alive \in BOOLEAN
    /\ request_trace \subseteq Ids \cup Calls
    /\ engine \subseteq [id : Ids \cup Calls \cup Inputs, call : Calls, input : Inputs \cup {Null}]
    /\ call \in [Calls -> CallRecord]
    /\ clash \subseteq Calls

\* When stop() returns no request that had an output is going on, and it has
\* aborted none, unless the id of one was another request's too.
StopWaits ==
    [][(stopping = "waiting" /\ stopping' = "done" /\ alive') =>
        /\ aborted'.by = "stop" => aborted'.calls = {}
        /\ \A c \in InFlight \ clash : call[c].pc = "encoding" \/ call[c].outputs = 0]_vars

\* What get_current_tokens lists is going on, or its call has raised.
ListedIsOngoing ==
    trace_debug \/ \A id \in request_trace :
        \E c \in Calls : call[c].id = id /\ call[c].answer \in {"none", "raised", "killed"}

\* An encode call is answered with every input, unless one failed or another
\* encode had its number.
EmbeddingsAreWhole ==
    \A c \in Calls \ clash :
        (call[c].answer = "ok" /\ call[c].id = Null /\ call[c].outputs = 0) => call[c].done = Inputs

\* A request that was listed and will not be taken off the list.
Stale ==
    \E id \in request_trace : trace_debug \/
        \E c \in Calls : call[c].id = id /\ call[c].answer = "raised"
\* stop() returns, so that the GPUs of the instance come back, although calls
\* go on when it begins, unless a request stays listed for ever.
StopReturns == (stopping = "waiting") ~> (stopping = "done" \/ Stale)

\* stop(): "Wait for all requests to finish and shutdown the backend."
StopWaitsForAll == [][StopEnds => InFlight = {}]_vars
=============================================================================
