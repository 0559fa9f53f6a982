------------------------- MODULE VllmBackendProofs -------------------------
(***************************************************************************)
(* Proofs about VllmBackend, for every set of calls, names and inputs.     *)
(* IndInv is the inductive invariant; the parts of it are proved one by    *)
(* one, each from those before it.                                         *)
(***************************************************************************)
EXTENDS VllmBackend, TLAPS

\* A call that goes on has no answer, and generate alone gives it a name.
CallsInv ==
    \A c \in Calls :
        /\ call[c].pc # "ended" => call[c].answer = "none"
        /\ call[c].pc \in {"new", "encoding"} => call[c].id = Null
        /\ call[c].pc = "generating" => call[c].id # Null
        /\ call[c].pc = "new" => call[c].outputs = 0 /\ call[c].done = {}

\* The engine works for calls that have begun, and under numbers for encode.
EngineInv ==
    \A r \in engine :
        /\ call[r.call].pc # "new"
        /\ call[r.call].pc = "encoding" => r.id \in Inputs /\ r.input \in Inputs

\* A generate call that has had an output is listed, unless its name is
\* another one's too.
ListedInv ==
    /\ \A c, d \in Calls :
          (/\ c # d /\ call[c].pc = "generating" /\ call[d].pc = "generating"
           /\ call[c].id = call[d].id) => c \in clash
    /\ \A c \in Calls \ clash :
          (call[c].pc = "generating" /\ call[c].outputs > 0) => call[c].id \in request_trace

\* What an encode call has not embedded is with the engine.
EncodeInv ==
    \A c \in Calls \ clash :
        (call[c].pc = "encoding" /\ call[c].outputs = 0) =>
            \A i \in Inputs : i \in call[c].done \/ \E r \in engine : r.call = c /\ r.input = i

AbortInv == aborted.by = "stop" => aborted.calls = {}

IndInv ==
    /\ TypeOK /\ CallsInv /\ EngineInv /\ ListedInv /\ EncodeInv /\ AbortInv
    /\ ListedIsOngoing /\ EmbeddingsAreWhole

-----------------------------------------------------------------------------

\* The backend starts in the invariant.
LEMMA InitIndInv == Init => IndInv
<1> SUFFICES ASSUME Init PROVE IndInv
  OBVIOUS
<1> USE DEF Init, NoCall
<1>1. TypeOK
  BY DEF TypeOK, CallRecord, Outcomes
<1>2. CallsInv /\ EngineInv /\ ListedInv /\ EncodeInv
  BY DEF CallsInv, EngineInv, ListedInv, EncodeInv
<1>3. AbortInv
  BY DEF AbortInv
<1>4. ListedIsOngoing /\ EmbeddingsAreWhole
  BY DEF ListedIsOngoing, EmbeddingsAreWhole
<1>5. QED
  BY <1>1, <1>2, <1>3, <1>4 DEF IndInv










\* What starts, stops or shuts down the backend leaves the calls alone, and
\* the engine drops nothing but what is listed.
LEMMA ControlStep ==
    ASSUME InitBackend \/ Stop \/ StopEnds \/ Shutdown
    PROVE  /\ UNCHANGED <<call, request_trace, trace_debug, alive, clash>>
           /\ engine' \subseteq engine
           /\ \A r \in engine : r.id \notin request_trace => r \in engine'
  BY DEF InitBackend, Stop, StopEnds, Shutdown, ShutDown

\* Kill ends the calls in flight and changes nothing of them but pc and answer.
LEMMA KillStep ==
    ASSUME TypeOK, Kill
    PROVE  /\ UNCHANGED <<request_trace, trace_debug, clash>> /\ engine' = {}
           /\ \A c \in Calls :
                 /\ call[c].pc = "new" => call'[c].pc = "new"
                 /\ call[c].pc # "new" => call'[c].pc = "ended"
                 /\ call'[c].id = call[c].id /\ call'[c].outputs = call[c].outputs
                 /\ call'[c].done = call[c].done
                 /\ \/ call'[c].answer = call[c].answer
                    \/ call[c].pc \in {"generating", "encoding"} /\ call'[c].answer = "killed"
           /\ call' \in [Calls -> CallRecord]
<1>1. UNCHANGED <<request_trace, trace_debug, clash>> /\ engine' = {}
  BY DEF Kill
<1>2. call' \in [Calls -> CallRecord]
  BY ZenonT(40) DEF Kill, Ended, TypeOK, CallRecord, Outcomes
<1>3. ASSUME NEW c \in Calls
      PROVE  /\ call[c].pc = "new" => call'[c].pc = "new"
             /\ call[c].pc # "new" => call'[c].pc = "ended"
             /\ call'[c].id = call[c].id /\ call'[c].outputs = call[c].outputs
             /\ call'[c].done = call[c].done
             /\ \/ call'[c].answer = call[c].answer
                \/ call[c].pc \in {"generating", "encoding"} /\ call'[c].answer = "killed"
  <2>1. CASE c \in InFlight
    BY <2>1 DEF Kill, Ended, TypeOK, CallRecord, InFlight
  <2>2. CASE c \notin InFlight
    <3>1. call'[c] = call[c]
      BY <2>2 DEF Kill
    <3>2. call[c].pc \in {"new", "ended"}
      BY <2>2 DEF TypeOK, CallRecord, InFlight
    <3>3. QED
      BY <3>1, <3>2
  <2>3. QED
    BY <2>1, <2>2
<1>4. QED
  BY <1>1, <1>2, <1>3

\* A call that has ended is a call.
LEMMA EndedTyped ==
    ASSUME TypeOK, NEW c \in Calls, NEW answer \in Outcomes
    PROVE  Ended(c, answer) \in [Calls -> CallRecord]
  BY ZenonT(40) DEF TypeOK, Ended, CallRecord

\* Every step keeps the types.
LEMMA TypeStep == TypeOK /\ CallsInv /\ EngineInv /\ [Next]_vars => TypeOK'
<1> SUFFICES ASSUME TypeOK, CallsInv, EngineInv, [Next]_vars PROVE TypeOK'
  OBVIOUS
<1> USE DEF Ended, Outcomes, CallRecord
<1>1. CASE UNCHANGED vars
  BY <1>1 DEF TypeOK, vars
<1>2. CASE InitBackend \/ Stop \/ StopEnds \/ Shutdown
  BY <1>2 DEF TypeOK, InitBackend, Stop, StopEnds, Shutdown, ShutDown
<1>3. CASE Kill
  BY <1>3, KillStep DEF TypeOK, Kill
<1>4. ASSUME NEW c \in Calls, Refuse(c) \/ EndEncode(c) \/ Fails(c)
      PROVE  TypeOK'
  <2>1. PICK answer \in Outcomes : call' = Ended(c, answer)
    BY <1>4 DEF Refuse, EndEncode, Fails
  <2>2. call' \in [Calls -> CallRecord]
    BY <2>1, EndedTyped
  <2>3. QED
    BY <1>4, <2>2 DEF TypeOK, Refuse, EndEncode, Fails
<1>5. ASSUME NEW c \in Calls, Encode(c)
      PROVE  TypeOK'
  <2>1. call' \in [Calls -> CallRecord]
    BY <1>5 DEF TypeOK, Encode
  <2>2. /\ UNCHANGED <<status, trace_debug, stopping, alive>> /\ clash' \subseteq Calls
        /\ request_trace' \subseteq Ids \cup Calls
        /\ engine' \subseteq [id : Ids \cup Calls \cup Inputs, call : Calls,
                             input : Inputs \cup {Null}]
    BY <1>5 DEF TypeOK, Encode
  <2>3. QED
    BY <2>1, <2>2 DEF TypeOK
<1>6. ASSUME NEW c \in Calls, NEW id \in Ids \cup {c}, Generate(c, id)
      PROVE  TypeOK'
  <2>1. call' \in [Calls -> CallRecord]
    BY <1>6 DEF TypeOK, Generate
  <2>2. /\ UNCHANGED <<status, trace_debug, stopping, alive>> /\ clash' \subseteq Calls
        /\ request_trace' \subseteq Ids \cup Calls
        /\ engine' \subseteq [id : Ids \cup Calls \cup Inputs, call : Calls,
                             input : Inputs \cup {Null}]
    BY <1>6 DEF TypeOK, Generate, Holders, InFlight
  <2>3. QED
    BY <2>1, <2>2 DEF TypeOK
<1>7. ASSUME NEW c \in Calls, Output(c)
      PROVE  TypeOK'
  <2>1. call' \in [Calls -> CallRecord]
    BY <1>7 DEF TypeOK, Output
  <2>2. /\ UNCHANGED <<status, trace_debug, stopping, alive>> /\ clash' \subseteq Calls
        /\ request_trace' \subseteq Ids \cup Calls
        /\ engine' \subseteq [id : Ids \cup Calls \cup Inputs, call : Calls,
                             input : Inputs \cup {Null}]
    BY <1>7 DEF TypeOK, Output, Request, CallsInv
  <2>3. QED
    BY <2>1, <2>2 DEF TypeOK
<1>8. ASSUME NEW c \in Calls, Finish(c)
      PROVE  TypeOK'
  <2>1. call' \in [Calls -> CallRecord]
    BY <1>8 DEF TypeOK, Finish
  <2>2. /\ UNCHANGED <<status, trace_debug, stopping, alive>> /\ clash' \subseteq Calls
        /\ request_trace' \subseteq Ids \cup Calls
        /\ engine' \subseteq [id : Ids \cup Calls \cup Inputs, call : Calls,
                             input : Inputs \cup {Null}]
    BY <1>8 DEF TypeOK, Finish
  <2>3. QED
    BY <2>1, <2>2 DEF TypeOK
<1>9. ASSUME NEW c \in Calls, NEW r \in engine, NEW failed \in BOOLEAN, Embed(c, r, failed)
       PROVE  TypeOK'
  <2>1. call' \in [Calls -> CallRecord]
    <3>1. r.input \in Inputs
      BY <1>9 DEF TypeOK, EngineInv, Embed, Request
    <3>2. CASE failed
      BY <1>9, <3>2 DEF TypeOK, Embed
    <3>3. CASE ~failed
      BY <1>9, <3>1, <3>3 DEF TypeOK, Embed
    <3>4. QED
      BY <3>2, <3>3
  <2>2. /\ UNCHANGED <<status, trace_debug, stopping, alive>> /\ clash' \subseteq Calls
        /\ request_trace' \subseteq Ids \cup Calls
        /\ engine' \subseteq [id : Ids \cup Calls \cup Inputs, call : Calls,
                             input : Inputs \cup {Null}]
    BY <1>9 DEF TypeOK, Embed
  <2>3. QED
    BY <2>1, <2>2 DEF TypeOK
<1>10. QED
  BY <1>1, <1>2, <1>3, <1>4, <1>5, <1>6, <1>7, <1>8, <1>9 DEF Next

\* Every step keeps the fields of the calls as their place requires.
LEMMA CallsStep == TypeOK /\ CallsInv /\ [Next]_vars => CallsInv'
<1> SUFFICES ASSUME TypeOK, CallsInv, [Next]_vars PROVE CallsInv'
  OBVIOUS
<1>1. CASE UNCHANGED vars
  BY <1>1 DEF vars, Request, CallsInv
<1>2. CASE InitBackend \/ Stop \/ StopEnds \/ Shutdown
  BY <1>2, ControlStep DEF TypeOK, CallRecord, CallsInv
<1>3. CASE Kill
  BY <1>3, KillStep DEF CallsInv
<1>4. ASSUME NEW c \in Calls, Refuse(c)
      PROVE  CallsInv'
  BY <1>4 DEF TypeOK, CallRecord, Refuse, Ended, Request, CallsInv
<1>5. ASSUME NEW c \in Calls, EndEncode(c)
      PROVE  CallsInv'
  BY <1>5 DEF TypeOK, CallRecord, EndEncode, Ended, Request, CallsInv
<1>6. ASSUME NEW c \in Calls, Fails(c)
      PROVE  CallsInv'
  BY <1>6 DEF TypeOK, CallRecord, Fails, Ended, Request, CallsInv
<1>7. ASSUME NEW c \in Calls, Encode(c)
      PROVE  CallsInv'
  BY <1>7 DEF TypeOK, CallRecord, Encode, Ended, Request, CallsInv
<1>8. ASSUME NEW c \in Calls, Output(c)
      PROVE  CallsInv'
  BY <1>8 DEF TypeOK, CallRecord, Output, Ended, Request, CallsInv
<1>9. ASSUME NEW c \in Calls, Finish(c)
      PROVE  CallsInv'
  BY <1>9 DEF TypeOK, CallRecord, Finish, Ended, Request, CallsInv
<1>10. ASSUME NEW c \in Calls, NEW id \in Ids \cup {c}, Generate(c, id)
       PROVE  CallsInv'
  BY <1>10, NamesAssumption DEF TypeOK, CallRecord, Generate, Ended, CallsInv
<1>11. ASSUME NEW c \in Calls, NEW r \in engine, NEW failed \in BOOLEAN, Embed(c, r, failed)
       PROVE  CallsInv'
  BY <1>11 DEF TypeOK, CallRecord, Embed, Request, CallsInv
<1>12. QED
  BY <1>1, <1>2, <1>3, <1>4, <1>5, <1>6, <1>7, <1>8, <1>9, <1>10, <1>11 DEF Next

\* Every step keeps the engine at work for calls that have begun only.
LEMMA EngineStep == TypeOK /\ CallsInv /\ EngineInv /\ [Next]_vars => EngineInv'
<1> SUFFICES ASSUME TypeOK, CallsInv, EngineInv, [Next]_vars PROVE EngineInv'
  OBVIOUS
<1>1. CASE UNCHANGED vars
  BY <1>1 DEF vars, Request, CallsInv, EngineInv
<1>2. CASE InitBackend \/ Stop \/ StopEnds \/ Shutdown
  BY <1>2, ControlStep DEF TypeOK, CallRecord, CallsInv, EngineInv
<1>3. CASE Kill
  BY <1>3, KillStep DEF CallsInv, EngineInv
<1>4. ASSUME NEW c \in Calls, Refuse(c)
      PROVE  EngineInv'
  BY <1>4 DEF TypeOK, CallRecord, Refuse, Ended, Request, CallsInv, EngineInv
<1>5. ASSUME NEW c \in Calls, EndEncode(c)
      PROVE  EngineInv'
  BY <1>5 DEF TypeOK, CallRecord, EndEncode, Ended, Request, CallsInv, EngineInv
<1>6. ASSUME NEW c \in Calls, Fails(c)
      PROVE  EngineInv'
  BY <1>6 DEF TypeOK, CallRecord, Fails, Ended, Request, CallsInv, EngineInv
<1>7. ASSUME NEW c \in Calls, Encode(c)
      PROVE  EngineInv'
  BY <1>7 DEF TypeOK, CallRecord, Encode, Ended, Request, CallsInv, EngineInv
<1>8. ASSUME NEW c \in Calls, Output(c)
      PROVE  EngineInv'
  BY <1>8 DEF TypeOK, CallRecord, Output, Ended, Request, CallsInv, EngineInv
<1>9. ASSUME NEW c \in Calls, Finish(c)
      PROVE  EngineInv'
  BY <1>9 DEF TypeOK, CallRecord, Finish, Ended, Request, CallsInv, EngineInv
<1>10. ASSUME NEW c \in Calls, NEW id \in Ids \cup {c}, Generate(c, id)
       PROVE  EngineInv'
  BY <1>10, NamesAssumption DEF TypeOK, CallRecord, Generate, Ended, CallsInv, EngineInv
<1>11. ASSUME NEW c \in Calls, NEW r \in engine, NEW failed \in BOOLEAN, Embed(c, r, failed)
       PROVE  EngineInv'
  BY <1>11 DEF TypeOK, CallRecord, Embed, Request, CallsInv, EngineInv
<1>12. QED
  BY <1>1, <1>2, <1>3, <1>4, <1>5, <1>6, <1>7, <1>8, <1>9, <1>10, <1>11 DEF Next

\* Every step keeps requests with an output listed.
LEMMA ListedStep == TypeOK /\ CallsInv /\ ListedInv /\ [Next]_vars => ListedInv'
<1> SUFFICES ASSUME TypeOK, CallsInv, ListedInv, [Next]_vars PROVE ListedInv'
  OBVIOUS
<1>1. CASE UNCHANGED vars
  BY <1>1 DEF vars, Request, CallsInv, ListedInv
<1>2. CASE InitBackend \/ Stop \/ StopEnds \/ Shutdown
  BY <1>2, ControlStep DEF TypeOK, CallRecord, CallsInv, ListedInv
<1>3. CASE Kill
  BY <1>3, KillStep DEF CallsInv, ListedInv
<1>4. ASSUME NEW c \in Calls, Refuse(c)
      PROVE  ListedInv'
  BY <1>4 DEF TypeOK, CallRecord, Refuse, Ended, Request, CallsInv, ListedInv
<1>5. ASSUME NEW c \in Calls, EndEncode(c)
      PROVE  ListedInv'
  BY <1>5 DEF TypeOK, CallRecord, EndEncode, Ended, Request, CallsInv, ListedInv
<1>6. ASSUME NEW c \in Calls, Fails(c)
      PROVE  ListedInv'
  BY <1>6 DEF TypeOK, CallRecord, Fails, Ended, Request, CallsInv, ListedInv
<1>7. ASSUME NEW c \in Calls, Encode(c)
      PROVE  ListedInv'
  BY <1>7 DEF TypeOK, CallRecord, Encode, Ended, Request, CallsInv, ListedInv
<1>8. ASSUME NEW c \in Calls, Output(c)
      PROVE  ListedInv'
  BY <1>8 DEF TypeOK, CallRecord, Output, Ended, Request, CallsInv, ListedInv
<1>9. ASSUME NEW c \in Calls, Finish(c)
      PROVE  ListedInv'
  BY <1>9 DEF TypeOK, CallRecord, Finish, Ended, Request, CallsInv, ListedInv
<1>10. ASSUME NEW c \in Calls, NEW id \in Ids \cup {c}, Generate(c, id)
       PROVE  ListedInv'
  BY <1>10, NamesAssumption DEF TypeOK, CallRecord, Generate, Ended, CallsInv, ListedInv
<1>11. ASSUME NEW c \in Calls, NEW r \in engine, NEW failed \in BOOLEAN, Embed(c, r, failed)
       PROVE  ListedInv'
  BY <1>11 DEF TypeOK, CallRecord, Embed, Request, CallsInv, ListedInv
<1>12. QED
  BY <1>1, <1>2, <1>3, <1>4, <1>5, <1>6, <1>7, <1>8, <1>9, <1>10, <1>11 DEF Next

\* Every step keeps an input that is not embedded with the engine.
LEMMA EncodeStep == TypeOK /\ CallsInv /\ EngineInv /\ EncodeInv /\ [Next]_vars => EncodeInv'
<1> SUFFICES ASSUME TypeOK, CallsInv, EngineInv, EncodeInv, [Next]_vars PROVE EncodeInv'
  OBVIOUS
<1>1. CASE UNCHANGED vars
  BY <1>1 DEF vars, Request, CallsInv, EngineInv, EncodeInv
<1>2. CASE InitBackend \/ Stop \/ StopEnds \/ Shutdown
  <2>1. ASSUME NEW r \in engine, NEW c \in Calls, call[c].pc = "encoding", r.call = c
        PROVE  r \in engine'
    BY <1>2, <2>1, ControlStep, NamesAssumption DEF TypeOK, CallRecord, EngineInv
  <2>2. QED
    BY <1>2, <2>1, ControlStep DEF EncodeInv
<1>3. CASE Kill
  BY <1>3, KillStep DEF CallsInv, EngineInv, EncodeInv
<1>4. ASSUME NEW c \in Calls, Refuse(c)
      PROVE  EncodeInv'
  BY <1>4 DEF TypeOK, CallRecord, Refuse, Ended, Request, CallsInv, EngineInv, EncodeInv
<1>5. ASSUME NEW c \in Calls, EndEncode(c)
      PROVE  EncodeInv'
  BY <1>5 DEF TypeOK, CallRecord, EndEncode, Ended, Request, CallsInv, EngineInv, EncodeInv
<1>6. ASSUME NEW c \in Calls, Fails(c)
      PROVE  EncodeInv'
  BY <1>6 DEF TypeOK, CallRecord, Fails, Ended, Request, CallsInv, EngineInv, EncodeInv
<1>7. ASSUME NEW c \in Calls, Encode(c)
      PROVE  EncodeInv'
  <2>1. ASSUME NEW d \in Calls \ clash', call'[d].pc = "encoding", call'[d].outputs = 0, NEW i \in Inputs
        PROVE  i \in call'[d].done \/ \E r \in engine' : r.call = d /\ r.input = i
    <3>1. CASE d = c
      <4>1. c \notin clash'
        BY <2>1, <3>1
      <4>2. ~Known(i)
        BY <1>7, <4>1 DEF Encode
      <4>3. [id |-> i, call |-> c, input |-> i] \in engine'
        BY <1>7, <4>2 DEF Encode
      <4>4. QED
        BY <3>1, <4>3
    <3>2. CASE d # c
      BY <1>7, <2>1, <3>2 DEF TypeOK, CallRecord, Encode, EncodeInv
    <3>3. QED
      BY <3>1, <3>2
  <2>2. QED
    BY <2>1 DEF EncodeInv
<1>8. ASSUME NEW c \in Calls, Output(c)
      PROVE  EncodeInv'
  BY <1>8 DEF TypeOK, CallRecord, Output, Ended, Request, CallsInv, EngineInv, EncodeInv
<1>9. ASSUME NEW c \in Calls, Finish(c)
      PROVE  EncodeInv'
  BY <1>9 DEF TypeOK, CallRecord, Finish, Ended, Request, CallsInv, EngineInv, EncodeInv
<1>10. ASSUME NEW c \in Calls, NEW id \in Ids \cup {c}, Generate(c, id)
       PROVE  EncodeInv'
  BY <1>10, NamesAssumption DEF TypeOK, CallRecord, Generate, Ended, CallsInv, EngineInv, EncodeInv
<1>11. ASSUME NEW c \in Calls, NEW r \in engine, NEW failed \in BOOLEAN, Embed(c, r, failed)
       PROVE  EncodeInv'
  BY <1>11 DEF TypeOK, CallRecord, Embed, Request, CallsInv, EngineInv, EncodeInv
<1>12. QED
  BY <1>1, <1>2, <1>3, <1>4, <1>5, <1>6, <1>7, <1>8, <1>9, <1>10, <1>11 DEF Next

\* Every step keeps a stop from aborting anything.
LEMMA AbortStep == TypeOK /\ AbortInv /\ [Next]_vars => AbortInv'
<1> SUFFICES ASSUME TypeOK, AbortInv, [Next]_vars PROVE AbortInv'
  OBVIOUS
<1>1. CASE UNCHANGED vars
  BY <1>1 DEF vars, Request, AbortInv
<1>2. CASE InitBackend \/ Stop \/ StopEnds \/ Shutdown
  BY <1>2 DEF AbortInv, InitBackend, Stop, StopEnds, Shutdown, ShutDown
<1>3. CASE Kill
  BY <1>3 DEF AbortInv, Kill
<1>4. ASSUME NEW c \in Calls, Refuse(c)
      PROVE  AbortInv'
  BY <1>4 DEF TypeOK, CallRecord, Refuse, Ended, Request, AbortInv
<1>5. ASSUME NEW c \in Calls, EndEncode(c)
      PROVE  AbortInv'
  BY <1>5 DEF TypeOK, CallRecord, EndEncode, Ended, Request, AbortInv
<1>6. ASSUME NEW c \in Calls, Fails(c)
      PROVE  AbortInv'
  BY <1>6 DEF TypeOK, CallRecord, Fails, Ended, Request, AbortInv
<1>7. ASSUME NEW c \in Calls, Encode(c)
      PROVE  AbortInv'
  BY <1>7 DEF TypeOK, CallRecord, Encode, Ended, Request, AbortInv
<1>8. ASSUME NEW c \in Calls, Output(c)
      PROVE  AbortInv'
  BY <1>8 DEF TypeOK, CallRecord, Output, Ended, Request, AbortInv
<1>9. ASSUME NEW c \in Calls, Finish(c)
      PROVE  AbortInv'
  BY <1>9 DEF TypeOK, CallRecord, Finish, Ended, Request, AbortInv
<1>10. ASSUME NEW c \in Calls, NEW id \in Ids \cup {c}, Generate(c, id)
       PROVE  AbortInv'
  BY <1>10, NamesAssumption DEF TypeOK, CallRecord, Generate, Ended, AbortInv
<1>11. ASSUME NEW c \in Calls, NEW r \in engine, NEW failed \in BOOLEAN, Embed(c, r, failed)
       PROVE  AbortInv'
  BY <1>11 DEF TypeOK, CallRecord, Embed, Request, AbortInv
<1>12. QED
  BY <1>1, <1>2, <1>3, <1>4, <1>5, <1>6, <1>7, <1>8, <1>9, <1>10, <1>11 DEF Next

\* Every step keeps what is listed going on.
LEMMA OngoingStep == TypeOK /\ CallsInv /\ ListedIsOngoing /\ [Next]_vars => ListedIsOngoing'
<1> SUFFICES ASSUME TypeOK, CallsInv, ListedIsOngoing, [Next]_vars PROVE ListedIsOngoing'
  OBVIOUS
<1>1. CASE UNCHANGED vars
  BY <1>1 DEF vars, Request, CallsInv, ListedIsOngoing
<1>2. CASE InitBackend \/ Stop \/ StopEnds \/ Shutdown
  BY <1>2, ControlStep DEF TypeOK, CallRecord, CallsInv, ListedIsOngoing
<1>3. CASE Kill
  BY <1>3, KillStep DEF CallsInv, ListedIsOngoing
<1>4. ASSUME NEW c \in Calls, Refuse(c)
      PROVE  ListedIsOngoing'
  BY <1>4 DEF TypeOK, CallRecord, Refuse, Ended, Request, CallsInv, ListedIsOngoing
<1>5. ASSUME NEW c \in Calls, EndEncode(c)
      PROVE  ListedIsOngoing'
  BY <1>5 DEF TypeOK, CallRecord, EndEncode, Ended, Request, CallsInv, ListedIsOngoing
<1>6. ASSUME NEW c \in Calls, Fails(c)
      PROVE  ListedIsOngoing'
  BY <1>6 DEF TypeOK, CallRecord, Fails, Ended, Request, CallsInv, ListedIsOngoing
<1>7. ASSUME NEW c \in Calls, Encode(c)
      PROVE  ListedIsOngoing'
  BY <1>7 DEF TypeOK, CallRecord, Encode, Ended, Request, CallsInv, ListedIsOngoing
<1>8. ASSUME NEW c \in Calls, Output(c)
      PROVE  ListedIsOngoing'
  BY <1>8 DEF TypeOK, CallRecord, Output, Ended, Request, CallsInv, ListedIsOngoing
<1>9. ASSUME NEW c \in Calls, Finish(c)
      PROVE  ListedIsOngoing'
  BY <1>9 DEF TypeOK, CallRecord, Finish, Ended, Request, CallsInv, ListedIsOngoing
<1>10. ASSUME NEW c \in Calls, NEW id \in Ids \cup {c}, Generate(c, id)
       PROVE  ListedIsOngoing'
  BY <1>10, NamesAssumption DEF TypeOK, CallRecord, Generate, Ended, CallsInv, ListedIsOngoing
<1>11. ASSUME NEW c \in Calls, NEW r \in engine, NEW failed \in BOOLEAN, Embed(c, r, failed)
       PROVE  ListedIsOngoing'
  BY <1>11 DEF TypeOK, CallRecord, Embed, Request, CallsInv, ListedIsOngoing
<1>12. QED
  BY <1>1, <1>2, <1>3, <1>4, <1>5, <1>6, <1>7, <1>8, <1>9, <1>10, <1>11 DEF Next

\* Every step keeps the answers of encode whole.
LEMMA WholeStep == TypeOK /\ CallsInv /\ EngineInv /\ EncodeInv /\ EmbeddingsAreWhole /\ [Next]_vars => EmbeddingsAreWhole'
<1> SUFFICES ASSUME TypeOK, CallsInv, EngineInv, EncodeInv, EmbeddingsAreWhole, [Next]_vars PROVE EmbeddingsAreWhole'
  OBVIOUS
<1>1. CASE UNCHANGED vars
  BY <1>1 DEF vars, Request, CallsInv, EncodeInv, EmbeddingsAreWhole
<1>2. CASE InitBackend \/ Stop \/ StopEnds \/ Shutdown
  BY <1>2, ControlStep DEF TypeOK, CallRecord, CallsInv, EncodeInv, EmbeddingsAreWhole
<1>3. CASE Kill
  BY <1>3, KillStep DEF CallsInv, EncodeInv, EmbeddingsAreWhole
<1>4. ASSUME NEW c \in Calls, Refuse(c)
      PROVE  EmbeddingsAreWhole'
  BY <1>4 DEF TypeOK, CallRecord, Refuse, Ended, Request, CallsInv, EncodeInv, EmbeddingsAreWhole
<1>5. ASSUME NEW c \in Calls, EndEncode(c)
      PROVE  EmbeddingsAreWhole'
  BY <1>5 DEF TypeOK, CallRecord, EndEncode, Ended, Request, CallsInv, EncodeInv, EmbeddingsAreWhole
<1>6. ASSUME NEW c \in Calls, Fails(c)
      PROVE  EmbeddingsAreWhole'
  BY <1>6 DEF TypeOK, CallRecord, Fails, Ended, Request, CallsInv, EncodeInv, EmbeddingsAreWhole
<1>7. ASSUME NEW c \in Calls, Encode(c)
      PROVE  EmbeddingsAreWhole'
  BY <1>7 DEF TypeOK, CallRecord, Encode, Ended, Request, CallsInv, EncodeInv, EmbeddingsAreWhole
<1>8. ASSUME NEW c \in Calls, Output(c)
      PROVE  EmbeddingsAreWhole'
  BY <1>8 DEF TypeOK, CallRecord, Output, Ended, Request, CallsInv, EncodeInv, EmbeddingsAreWhole
<1>9. ASSUME NEW c \in Calls, Finish(c)
      PROVE  EmbeddingsAreWhole'
  BY <1>9 DEF TypeOK, CallRecord, Finish, Ended, Request, CallsInv, EncodeInv, EmbeddingsAreWhole
<1>10. ASSUME NEW c \in Calls, NEW id \in Ids \cup {c}, Generate(c, id)
       PROVE  EmbeddingsAreWhole'
  BY <1>10, NamesAssumption DEF TypeOK, CallRecord, Generate, Ended, CallsInv, EncodeInv, EmbeddingsAreWhole
<1>11. ASSUME NEW c \in Calls, NEW r \in engine, NEW failed \in BOOLEAN, Embed(c, r, failed)
       PROVE  EmbeddingsAreWhole'
  BY <1>11 DEF TypeOK, CallRecord, Embed, Request, CallsInv, EncodeInv, EmbeddingsAreWhole
<1>12. QED
  BY <1>1, <1>2, <1>3, <1>4, <1>5, <1>6, <1>7, <1>8, <1>9, <1>10, <1>11 DEF Next

-----------------------------------------------------------------------------

\* Every step keeps the invariant.
LEMMA NextIndInv == IndInv /\ [Next]_vars => IndInv'
<1> SUFFICES ASSUME IndInv, [Next]_vars PROVE IndInv'
  OBVIOUS
<1> USE DEF IndInv
<1>1. TypeOK' /\ CallsInv' /\ EngineInv'
  BY TypeStep, CallsStep, EngineStep
<1>2. ListedInv' /\ EncodeInv' /\ AbortInv'
  BY ListedStep, EncodeStep, AbortStep
<1>3. ListedIsOngoing' /\ EmbeddingsAreWhole'
  BY OngoingStep, WholeStep
<1>4. QED
  BY <1>1, <1>2, <1>3

\* IndInv holds in every reachable state.
THEOREM Invariance == Spec => []IndInv
<1>1. Init => IndInv
  BY InitIndInv
<1>2. IndInv /\ [Next]_vars => IndInv'
  BY NextIndInv
<1>3. QED
  BY <1>1, <1>2, PTL DEF Spec

\* Every value has its type in every reachable state.
THEOREM TypeCorrect == Spec => []TypeOK
<1>1. IndInv => TypeOK
  BY DEF IndInv
<1>2. QED
  BY <1>1, Invariance, PTL

\* get_current_tokens, which a migration copies from, lists no request that has
\* been answered (vllm_backend.py:293).
THEOREM NothingAnsweredIsListed == Spec => []ListedIsOngoing
<1>1. IndInv => ListedIsOngoing
  BY DEF IndInv
<1>2. QED
  BY <1>1, Invariance, PTL

\* encode answers with every input, if none failed and no other encode had its
\* number (vllm_backend.py:322).
THEOREM EmbeddingsComplete == Spec => []EmbeddingsAreWhole
<1>1. IndInv => EmbeddingsAreWhole
  BY DEF IndInv
<1>2. QED
  BY <1>1, Invariance, PTL

\* stop() aborts no request and leaves none that had an output, other than those
\* whose name another request had (vllm_backend.py:281).
THEOREM StopWaitsForListed == Spec => StopWaits
<1> DEFINE Quiet == (stopping = "waiting" /\ stopping' = "done" /\ alive') =>
        /\ aborted'.by = "stop" => aborted'.calls = {}
        /\ \A c \in InFlight \ clash : call[c].pc = "encoding" \/ call[c].outputs = 0
<1>1. IndInv /\ [Next]_vars => [Quiet]_vars
  <2> SUFFICES ASSUME IndInv, [Next]_vars, stopping = "waiting", stopping' = "done", alive'
               PROVE  /\ aborted'.by = "stop" => aborted'.calls = {}
                      /\ \A c \in InFlight \ clash :
                            call[c].pc = "encoding" \/ call[c].outputs = 0
    OBVIOUS
  <2>1. StopEnds
    BY DEF Next, vars, InitBackend, Stop, Shutdown, ShutDown, Kill, Refuse, Generate, Output,
           Finish, Fails, Encode, Embed, EndEncode
  <2>2. request_trace = {}
    BY <2>1 DEF StopEnds
  <2>3. aborted'.by = "stop" => aborted'.calls = {}
    BY <2>1, <2>2 DEF IndInv, AbortInv, StopEnds, ShutDown
  <2>4. ASSUME NEW c \in InFlight \ clash, call[c].pc # "encoding"
        PROVE  call[c].outputs = 0
    <3>1. c \in Calls /\ call[c].pc = "generating" /\ call[c].outputs \in Nat
      BY <2>4 DEF InFlight, IndInv, TypeOK, CallRecord
    <3>2. ~(call[c].outputs > 0)
      BY <2>2, <2>4, <3>1 DEF IndInv, ListedInv
    <3>3. QED
      BY <3>1, <3>2
  <2>5. QED
    BY <2>3, <2>4
<1>2. Spec => [][Quiet]_vars
  BY <1>1, Invariance, PTL DEF Spec
<1>3. QED
  BY <1>2 DEF StopWaits
=============================================================================
