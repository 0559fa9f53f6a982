------------------------ MODULE TransformersBackend ------------------------
(***************************************************************************)
(* The backend actors that run a model with the transformers library       *)
(* (sllm/backends/transformers_backend.py).  The methods of a backend run  *)
(* in threads: one call does not wait for another, status_lock is held     *)
(* while the status is read or set only, and all calls share the one       *)
(* InferenceStatus that generate() streams its tokens to.                  *)
(*                                                                         *)
(* A token is the call it was generated for and a prompt is one token.     *)
(* intermediate is [] or one row of tokens, as no call has a batch; what   *)
(* put() makes of it when two calls stream is kept:                        *)
(*   flat        the first token after a delete() is put in place of a row *)
(*   Foreign     in a row, a prompt that was appended to it as a list.     *)
(***************************************************************************)
EXTENDS Integers, Sequences, SequencesExt

CONSTANTS
    Calls,
    Backends,   \* the actors
    MaxTokens,  \* max_tokens of every call; generation does not stop earlier
    Foreign, None

VARIABLES
    status,         \* "uninitialized", "running", "stopping" or "deleting"
    model,          \* "none", "loaded" or "deleted"
    intermediate,   \* of inf_status
    resumed,        \* current_tokens and past_key_values, or None
    ending,         \* where stop() and shutdown() are: "none", "stop", "shutdown", "done"
    worker          \* the thread that works for a call

backends == <<status, model, intermediate, resumed, ending, worker>>

Nothing == [flat |-> FALSE, row |-> <<>>]
NoWorker == [pc |-> "none", kind |-> None, on |-> None, row |-> <<>>, left |-> 0, result |-> None]

BackendInit ==
    /\ status = [b \in Backends |-> "uninitialized"] /\ model = [b \in Backends |-> "none"]
    /\ intermediate = [b \in Backends |-> Nothing] /\ resumed = [b \in Backends |-> None]
    /\ ending = [b \in Backends |-> "none"] /\ worker = [c \in Calls |-> NoWorker]

\* init_backend of a new actor; the store's loading is ModelLoader's.
Initialized(b) ==
    /\ status' = [status EXCEPT ![b] = "running"] /\ model' = [model EXCEPT ![b] = "loaded"]
    /\ intermediate' = [intermediate EXCEPT ![b] = Nothing]
    /\ resumed' = [resumed EXCEPT ![b] = None] /\ ending' = [ending EXCEPT ![b] = "none"]

-----------------------------------------------------------------------------
(* generate, resume_generate and encode *)

Has(c, pc) == worker[c].pc = pc
Goes(c, pc) == worker' = [worker EXCEPT ![c].pc = pc]
Answer(w, result, row) == [w EXCEPT !.pc = "answered", !.result = result, !.row = row]
Answers(c, result, row) == worker' = [worker EXCEPT ![c] = Answer(@, result, row)]

Check(c) ==
    /\ Has(c, "sent")
    /\ IF status[worker[c].on] = "running" THEN Goes(c, "checked") ELSE Answers(c, "error", <<>>)
    /\ UNCHANGED <<status, model, intermediate, resumed, ending>>

\* InferenceStatus.put of a row (prompt) or of one token; None if the
\* intermediate has no row to append it to.
Put(s, value, prompt) ==
    CASE s.row = <<>> -> [flat |-> ~prompt, row |-> value]
      [] s.row # <<>> /\ s.flat -> None
      [] OTHER -> [s EXCEPT !.row = @ \o IF prompt THEN <<Foreign>> ELSE value]

\* c puts a value and has row then: put() raises when it cannot append, and
\* when the backend is being deleted.
Streams(c, value, prompt, row, left) ==
    LET b == worker[c].on
        s == Put(intermediate[b], value, prompt)
    IN
    IF s = None
    THEN Answers(c, "raised", <<>>) /\ UNCHANGED intermediate
    ELSE /\ intermediate' = [intermediate EXCEPT ![b] = s]
         /\ worker' = [worker EXCEPT ![c].row = row, ![c].left = left,
                            ![c].pc = IF status[b] = "deleting" THEN "preempted" ELSE "generating"]

\* The model's generate streams the prompt first.  A model that was deleted
\* after Check raises, and so does a resumption where no cache was resumed or
\* with no token left to generate.
Begin(c) ==
    LET w == worker[c]
        r == resumed[w.on]
        row == CASE w.kind # "resume" -> <<c>>
                 [] w.kind = "resume" /\ r # None /\ Len(w.row) < Len(r.tokens) -> r.tokens
                 [] OTHER -> w.row
    IN
    /\ Has(c, "checked")
    /\ IF model[w.on] = "deleted" \/ (w.kind = "resume" /\ (r = None \/ w.left <= 0))
       THEN Answers(c, "raised", <<>>) /\ UNCHANGED intermediate
       ELSE IF w.kind = "encode"
       THEN Answers(c, "ok", <<c>>) /\ UNCHANGED intermediate
       ELSE Streams(c, row, TRUE, row, w.left)
    /\ UNCHANGED <<status, model, resumed, ending>>

\* One more token; one that follows from another call's cache is Foreign.
Token(c) ==
    LET w == worker[c]
        fits == w.kind = "generate" \/ IsPrefix(resumed[w.on].cache, w.row)
        token == IF fits THEN <<c>> ELSE <<Foreign>>
    IN
    /\ Has(c, "generating") /\ w.left > 0
    /\ Streams(c, token, FALSE, w.row \o token, w.left - 1)
    /\ UNCHANGED <<status, model, resumed, ending>>

\* The answer is decoded and the intermediate deleted, whoever's it is.
Complete(c) ==
    /\ Has(c, "generating") /\ worker[c].left = 0
    /\ Answers(c, "ok", worker[c].row)
    /\ intermediate' = [intermediate EXCEPT ![worker[c].on] = Nothing]
    /\ UNCHANGED <<status, model, resumed, ending>>

\* Mutant of Preempt: the intermediate is left where it is.
PreemptKeeps(c) ==
    LET s == intermediate[worker[c].on] IN
    /\ Has(c, "preempted")
    /\ IF worker[c].kind = "resume" \/ s.flat \/ s.row = <<>> THEN Answers(c, "raised", <<>>)
       ELSE Answers(c, "preempted", s.row)
    /\ UNCHANGED <<status, model, intermediate, resumed, ending>>
\* DeletingException: generate returns the intermediate, which raises if it
\* is gone or no row; resume_generate raises again and leaves it.
Preempt(c) ==
    LET b == worker[c].on
        s == intermediate[b]
    IN
    /\ Has(c, "preempted")
    /\ IF worker[c].kind = "resume"
       THEN Answers(c, "raised", <<>>) /\ UNCHANGED intermediate
       ELSE /\ intermediate' = [intermediate EXCEPT ![b] = Nothing]
            /\ IF s.flat \/ s.row = <<>> THEN Answers(c, "raised", <<>>)
               ELSE Answers(c, "preempted", s.row)
    /\ UNCHANGED <<status, model, resumed, ending>>

-----------------------------------------------------------------------------
(* get_current_tokens, resume_kv_cache, stop and shutdown *)

CurrentTokens(b) == IF status[b] = "running" THEN intermediate[b] ELSE Nothing

\* resume_kv_cache generates one token from a row and keeps the cache, which
\* takes in what is beyond its own length.
Resumed(b, row) ==
    LET old == IF resumed[b] = None THEN <<>> ELSE resumed[b].cache
    IN  [tokens |-> Append(row, Last(row)), cache |-> old \o SubSeq(row, Len(old) + 1, Len(row))]

\* The status that stop() and shutdown() set when they begin.
Ends(b, how) ==
    /\ status' = [status EXCEPT ![b] = IF how = "stop" THEN "stopping" ELSE "deleting"]
    /\ ending' = [ending EXCEPT ![b] = how]

\* No tokens are listed: stop() calls shutdown(), which sets DELETING ...
Stopped(b) ==
    /\ ending[b] = "stop" /\ intermediate[b].row = <<>>
    /\ Ends(b, "shutdown")
    /\ UNCHANGED <<model, intermediate, resumed, worker>>

\* ... waits for them again, and deletes the model.
ShutDown(b) ==
    /\ ending[b] = "shutdown" /\ intermediate[b].row = <<>>
    /\ ending' = [ending EXCEPT ![b] = "done"] /\ model' = [model EXCEPT ![b] = "deleted"]
    /\ UNCHANGED <<status, intermediate, resumed, worker>>

\* ray.kill: the calls on b raise at those who made them.
Killed(b, w) ==
    [c \in Calls |-> IF w[c].on = b /\ w[c].pc \notin {"none", "answered"}
                     THEN Answer(w[c], "raised", <<>>) ELSE w[c]]

Works(c) == Check(c) \/ Begin(c) \/ Token(c) \/ Complete(c) \/ Preempt(c)
=============================================================================
