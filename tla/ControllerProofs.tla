-------------------------- MODULE ControllerProofs --------------------------
(***************************************************************************)
(* Proofs about Controller, for every set of models, adapters, configs and *)
(* calls.  First what sending a message to a router and handling one do to *)
(* what it has been told, then the parts of the inductive invariant.       *)
(***************************************************************************)
EXTENDS Controller, TLAPS

Configures(msg) == msg.what \in {"start", "config"}

\* What the controller sends joins what the router has been told.
LEMMA SendLemma ==
    ASSUME NEW r \in RouterActor, NEW msg \in Mail
    PROVE  LET s == [r EXCEPT !.inbox = Append(@, msg)] IN
           /\ s \in RouterActor /\ s.alive = r.alive
           /\ HasStart(r) \/ msg.what = "start" => HasStart(s)
           /\ \A v : ~Configures(msg) /\ Told(r, v) => Told(s, v)
           /\ Configures(msg) => Told(s, msg.value)
           /\ \A a : Offers(r, a) /\ (msg.what = "adapters" => msg.value \subseteq a) =>
                     Offers(s, a)
<1> DEFINE s == [r EXCEPT !.inbox = Append(@, msg)]
           n == Len(r.inbox)
<1>1. /\ s \in RouterActor /\ s.alive = r.alive /\ s.started = r.started
      /\ s.config = r.config /\ s.adapters = r.adapters /\ s.inbox = Append(r.inbox, msg)
  BY SMTT(30) DEF RouterActor
<1>2. /\ n \in Nat /\ DOMAIN r.inbox = 1 .. n /\ DOMAIN s.inbox = 1 .. n + 1
      /\ s.inbox[n + 1] = msg /\ \A i \in 1 .. n : s.inbox[i] = r.inbox[i]
  BY <1>1 DEF RouterActor
<1> HIDE DEF s, n
<1>3. HasStart(r) \/ msg.what = "start" => HasStart(s)
  <2>1. CASE msg.what = "start"
    BY <1>2, <2>1 DEF HasStart
  <2>2. CASE HasStart(r)
    BY <1>1, <1>2, <2>2 DEF HasStart
  <2>3. QED
    BY <2>1, <2>2
<1>4. ASSUME NEW v, ~Configures(msg), Told(r, v)
      PROVE  Told(s, v)
  <2>1. \A i \in DOMAIN s.inbox : s.inbox[i].what \in {"start", "config"} =>
            i \in DOMAIN r.inbox /\ s.inbox[i] = r.inbox[i]
    BY <1>2, <1>4 DEF Configures
  <2>2. QED
    BY <1>1, <1>2, <1>4, <2>1 DEF Told
<1>5. Configures(msg) => Told(s, msg.value)
  <2> SUFFICES ASSUME Configures(msg) PROVE Told(s, msg.value)
    OBVIOUS
  <2> DEFINE told == {i \in DOMAIN s.inbox : s.inbox[i].what \in {"start", "config"}}
  <2>1. n + 1 \in told
    BY <1>2 DEF Configures
  <2>2. ASSUME NEW i \in told, \A j \in told : j <= i
        PROVE  s.inbox[i].value = msg.value
    <3>1. i = n + 1
      BY <1>2, <2>1, <2>2
    <3>2. QED
      BY <1>2, <3>1
  <2>3. QED
    BY <2>1, <2>2 DEF Told
<1>6. ASSUME NEW a, Offers(r, a), msg.what = "adapters" => msg.value \subseteq a
      PROVE  Offers(s, a)
  BY <1>1, <1>2, <1>6 DEF Offers
<1>7. QED
  BY <1>1, <1>3, <1>4, <1>5, <1>6 DEF s

\* Handling a message changes nothing of what a router has been told.
LEMMA HandleLemma ==
    ASSUME NEW r \in RouterActor, r.inbox # <<>>
    PROVE  /\ Handled(r) \in RouterActor /\ Handled(r).alive = r.alive
           /\ HasStart(r) => HasStart(Handled(r))
           /\ \A v : Told(r, v) => Told(Handled(r), v)
           /\ \A a : Offers(r, a) => Offers(Handled(r), a)
<1> DEFINE s == Handled(r)
           msg == Head(r.inbox)
           n == Len(r.inbox)
<1>1. /\ msg \in Mail /\ msg = r.inbox[1] /\ n \in Nat \ {0} /\ DOMAIN r.inbox = 1 .. n
      /\ Tail(r.inbox) \in Seq(Mail) /\ DOMAIN Tail(r.inbox) = 1 .. n - 1
      /\ \A i \in 1 .. n - 1 : Tail(r.inbox)[i] = r.inbox[i + 1]
  BY DEF RouterActor
<1>2. msg.what \in {"start", "config", "adapters", "delete"}
  BY <1>1 DEF Mail
<1>3. /\ s \in RouterActor /\ s.alive = r.alive /\ s.inbox = Tail(r.inbox)
      /\ s.started = (r.started \/ msg.what = "start")
      /\ s.config = IF Configures(msg) THEN msg.value ELSE r.config
      /\ s.adapters \subseteq r.adapters \/ (msg.what = "adapters" /\ s.adapters = msg.value)
  <2>1. CASE msg.what = "start"
    BY <1>1, <2>1 DEF Handled, RouterActor, Mail, Configures
  <2>2. CASE msg.what = "config"
    BY <1>1, <2>2 DEF Handled, RouterActor, Mail, Configures
  <2>3. CASE msg.what = "adapters"
    BY <1>1, <2>3 DEF Handled, RouterActor, Mail, Configures
  <2>4. CASE msg.what = "delete"
    BY <1>1, <2>4 DEF Handled, RouterActor, Mail, Configures
  <2>5. QED
    BY <1>2, <2>1, <2>2, <2>3, <2>4
<1>4. /\ DOMAIN s.inbox = 1 .. n - 1
      /\ \A i \in 1 .. n - 1 : s.inbox[i] = r.inbox[i + 1]
  BY <1>1, <1>3
<1> HIDE DEF s, msg, n
<1>5. HasStart(r) => HasStart(s)
  <2>1. CASE r.started \/ msg.what = "start"
    BY <1>3, <2>1 DEF HasStart
  <2>2. ASSUME NEW i \in DOMAIN r.inbox, r.inbox[i].what = "start", msg.what # "start"
        PROVE  HasStart(s)
    <3>1. i # 1 /\ i - 1 \in 1 .. n - 1
      BY <1>1, <2>2
    <3>2. s.inbox[i - 1] = r.inbox[i]
      BY <1>1, <1>4, <3>1
    <3>3. QED
      BY <1>4, <2>2, <3>1, <3>2 DEF HasStart
  <2>3. QED
    BY <2>1, <2>2 DEF HasStart
<1>6. ASSUME NEW v, Told(r, v)
      PROVE  Told(s, v)
  <2> DEFINE rs == {i \in DOMAIN r.inbox : r.inbox[i].what \in {"start", "config"}}
             ss == {i \in DOMAIN s.inbox : s.inbox[i].what \in {"start", "config"}}
  <2>1. ASSUME ss = {}
        PROVE  s.config = v
    <3>1. ASSUME NEW i \in rs
          PROVE  i = 1
      <4>1. CASE i # 1
        <5>1. i \in 1 .. n /\ n \in Nat
          BY <1>1
        <5>2. i - 1 \in 1 .. n - 1
          BY <4>1, <5>1
        <5>3. s.inbox[i - 1] = r.inbox[i - 1 + 1]
          BY <1>4, <5>2
        <5>4. i - 1 \in ss
          BY <1>4, <5>1, <5>2, <5>3
        <5>5. QED
          BY <2>1, <5>4
      <4>2. QED
        BY <4>1
    <3>2. CASE Configures(msg)
      <4>1. 1 \in rs /\ \A j \in rs : j <= 1
        BY <1>1, <3>1, <3>2 DEF Configures
      <4>2. r.inbox[1].value = v
        BY <1>6, <4>1 DEF Told
      <4>3. QED
        BY <1>1, <1>3, <3>2, <4>2
    <3>3. CASE ~Configures(msg)
      <4>1. rs = {}
        BY <1>1, <3>1, <3>3 DEF Configures
      <4>2. QED
        BY <1>3, <1>6, <3>3, <4>1 DEF Told
    <3>4. QED
      BY <3>2, <3>3
  <2>2. ASSUME NEW i \in ss, \A j \in ss : j <= i
        PROVE  s.inbox[i].value = v
    <3>1. i \in 1 .. n - 1 /\ i + 1 \in rs /\ s.inbox[i] = r.inbox[i + 1]
      BY <1>1, <1>4
    <3>2. ASSUME NEW j \in rs
          PROVE  j <= i + 1
      <4>1. CASE j = 1
        BY <1>1, <3>1, <4>1
      <4>2. CASE j # 1
        <5>1. j \in 1 .. n /\ j - 1 \in 1 .. n - 1
          BY <1>1, <4>2
        <5>2. j - 1 \in ss
          <6>1. s.inbox[j - 1] = r.inbox[j - 1 + 1]
            BY <1>4, <5>1
          <6>2. QED
            BY <1>4, <5>1, <6>1
        <5>3. j - 1 <= i
          BY <2>2, <5>2
        <5>4. QED
          BY <1>1, <3>1, <5>1, <5>3
      <4>3. QED
        BY <4>1, <4>2
    <3>3. QED
      BY <1>6, <3>1, <3>2 DEF Told
  <2>3. QED
    BY <2>1, <2>2 DEF Told
<1>7. ASSUME NEW a, Offers(r, a)
      PROVE  Offers(s, a)
  <2>1. s.adapters \subseteq a
    BY <1>1, <1>3, <1>7 DEF Offers
  <2>2. ASSUME NEW i \in DOMAIN s.inbox, s.inbox[i].what = "adapters"
        PROVE  s.inbox[i].value \subseteq a
    <3>1. i + 1 \in DOMAIN r.inbox /\ s.inbox[i] = r.inbox[i + 1]
      BY <1>1, <1>4
    <3>2. QED
      BY <1>7, <2>2, <3>1 DEF Offers
  <2>3. QED
    BY <2>1, <2>2 DEF Offers
<1>8. QED
  BY <1>3, <1>5, <1>6, <1>7 DEF s

-----------------------------------------------------------------------------
(* The parts of the inductive invariant *)

\* Every call that is under way is for a model, and with a config where it
\* needs one.
CallsInv ==
    \A c \in Calls :
        /\ call[c].pc # "idle" => call[c].model \in Models
        /\ (\/ call[c].pc # "idle" /\ call[c].kind = "register"
            \/ call[c].pc \in {"store", "adapters", "created", "started", "checked"}) =>
              call[c].config \in Configs

\* metadata_lock is kept for a model that stays in the tables.
HeldInv ==
    \A c \in Calls : holder = c =>
        /\ call[c].pc \in {"adapters", "reply"}
        /\ call[c].pc = "adapters" => call[c].model \in request_routers

\* A registration is past the store when its model is there, and an adapter is
\* off its list when that is.
StoredInv ==
    \A c \in Calls :
        /\ call[c].pc \in {"adapters", "created", "started"} => call[c].model \in stored
        /\ call[c].pc \in {"begin", "store", "adapters"} =>
              \A a \in call[c].adapters \ call[c].todo : a \in stored_adapters[call[c].model]

Registering(c) == call[c].pc \in {"created", "started"}

\* A name makes its registration the only one.
OwnInv ==
    /\ \A c \in Calls : Registering(c) =>
          router[call[c].model].alive /\ call[c].model \notin request_routers
    /\ \A c, d \in Calls :
          (Registering(c) /\ Registering(d) /\ call[c].model = call[d].model) => c = d
    /\ \A m \in request_routers : router[m].alive

\* A router that is started but not entered yet has been told its config.
StartedInv ==
    \A c \in Calls : call[c].pc = "started" =>
        LET r == router[call[c].model] IN HasStart(r) /\ Told(r, call[c].config)

IndInv ==
    /\ TypeOK /\ CallsInv /\ HeldInv /\ StoredInv /\ OwnInv /\ StartedInv
    /\ GoneIsGone /\ RegisteredIsServed /\ ConfigsAgree /\ AdaptersAreStored

-----------------------------------------------------------------------------
(* How a step changes a call *)

Same(c) ==
    /\ call'[c].kind = call[c].kind /\ call'[c].model = call[c].model
    /\ call'[c].config = call[c].config /\ call'[c].adapters = call[c].adapters
Goes(c, from, to) ==
    call[c].pc = from /\ call'[c].pc = to /\ Same(c) /\ call'[c].todo = call[c].todo
OthersStay(c) == \A d \in Calls \ {c} : call'[d] = call[d]

Asks(c) ==
    /\ call[c].pc = "idle" /\ call'[c].pc = "begin" /\ call'[c].model \in Models
    /\ call'[c].todo = call'[c].adapters
    /\ call'[c].kind = "register" => call'[c].config \in Configs
Registers(c) ==
    \/ Goes(c, "begin", "store") /\ call[c].kind = "register"
    \/ /\ Goes(c, "begin", "adapters") /\ call[c].kind = "register"
       /\ registered_models[call[c].model] # None /\ holder = None
    \/ Goes(c, "store", "adapters") /\ stored' = stored \cup {call[c].model}
    \/ /\ call[c].pc = "adapters" /\ call'[c].pc = "adapters" /\ Same(c)
       /\ \E a \in Adapters :
             /\ call'[c].todo = call[c].todo \ {a}
             /\ stored_adapters' = [stored_adapters EXCEPT ![call[c].model] = @ \cup {a}]
    \/ Goes(c, "adapters", "reply") /\ UpdateAdapters(c)
    \/ Goes(c, "adapters", "created") /\ CreateRouter(c) /\ ~router[call[c].model].alive
    \/ Goes(c, "created", "started") /\ StartRouter(c)
Updates(c) ==
    \/ Goes(c, "begin", "checked") /\ call[c].config # None
    \/ Goes(c, "checked", "reply")
    \/ Goes(c, "begin", "reply")
CallStep(c) ==
    \/ call'[c] = call[c]
    \/ /\ OthersStay(c)
       /\ call'[c] = Idle \/ Asks(c) \/ Registers(c) \/ Updates(c)

\* A call that goes on to pc changes nothing else of its own or of others.
LEMMA AtLemma ==
    ASSUME TypeOK, NEW c \in Calls, NEW pc, call' = At(c, pc)
    PROVE  /\ OthersStay(c) /\ Same(c) /\ call'[c].pc = pc /\ call'[c].todo = call[c].todo
           /\ Goes(c, call[c].pc, pc)
  BY DEF TypeOK, CallRecord, At, OthersStay, Same, Goes

\* A call that returns is idle again.
LEMMA ReturnLemma ==
    ASSUME TypeOK, NEW c \in Calls, Return(c)
    PROVE  OthersStay(c) /\ call'[c] = Idle
  BY DEF TypeOK, Return, OthersStay

\* A step moves one call at most, in one of the ways of CallStep.
LEMMA CallSteps ==
    ASSUME TypeOK, [Next]_vars
    PROVE  \A d \in Calls : CallStep(d)
<1>1. CASE UNCHANGED vars
  BY <1>1 DEF vars, CallStep
<1>2. ASSUME NEW c \in Calls, NEW m \in Models, NEW q \in Requests[c], Request(c, m, q)
      PROVE  \A d \in Calls : CallStep(d)
  <2>1. q \in Asked /\ (q.kind = "register" => q.config \in Configs)
    BY <1>2, ControllerAssumption
  <2>2. OthersStay(c) /\ Asks(c)
    BY <1>2, <2>1 DEF Request, TypeOK, Asked, OthersStay, Asks
  <2>3. QED
    BY <2>2 DEF CallStep, OthersStay
<1>3. ASSUME NEW c \in Calls, LookUp(c)
      PROVE  \A d \in Calls : CallStep(d)
  <2>1. CASE call' = At(c, "store")
    BY <1>3, <2>1, AtLemma DEF CallStep, OthersStay, Registers, LookUp, Turn
  <2>2. CASE call' = At(c, "adapters") /\ registered_models[call[c].model] # None
    BY <1>3, <2>2, AtLemma DEF CallStep, OthersStay, Registers, LookUp, Turn
  <2>3. QED
    BY <1>3, <2>1, <2>2 DEF LookUp
<1>4. ASSUME NEW c \in Calls, UpdateAdapters(c)
      PROVE  \A d \in Calls : CallStep(d)
  BY <1>4, AtLemma DEF CallStep, OthersStay, Registers, UpdateAdapters
<1>5. ASSUME NEW c \in Calls, CreateRouter(c)
      PROVE  \A d \in Calls : CallStep(d)
  <2>1. CASE Return(c)
    BY <2>1, ReturnLemma DEF CallStep, OthersStay
  <2>2. CASE call' = At(c, "created") /\ ~router[call[c].model].alive
    <3>1. Goes(c, "adapters", "created") /\ OthersStay(c)
      BY <1>5, <2>2, AtLemma DEF CreateRouter
    <3>2. QED
      BY <1>5, <2>2, <3>1 DEF CallStep, OthersStay, Registers
  <2>3. QED
    BY <1>5, <2>1, <2>2 DEF CreateRouter
<1>6. ASSUME NEW c \in Calls, StartRouter(c)
      PROVE  \A d \in Calls : CallStep(d)
  <2>1. CASE Return(c)
    BY <2>1, ReturnLemma DEF CallStep, OthersStay
  <2>2. CASE call' = At(c, "started")
    BY <1>6, <2>2, AtLemma DEF CallStep, OthersStay, Registers, StartRouter, Turn
  <2>3. QED
    BY <1>6, <2>1, <2>2 DEF StartRouter
<1>7. ASSUME NEW c \in Calls, Insert(c)
      PROVE  \A d \in Calls : CallStep(d)
  BY <1>7, ReturnLemma DEF CallStep, OthersStay, Insert
<1>8. ASSUME NEW c \in Calls, CheckUpdate(c)
      PROVE  \A d \in Calls : CallStep(d)
  <2>1. CASE Return(c)
    BY <2>1, ReturnLemma DEF CallStep, OthersStay
  <2>2. CASE call' = At(c, "checked") /\ call[c].config # None
    BY <1>8, <2>2, AtLemma DEF CallStep, OthersStay, Updates, CheckUpdate, Turn
  <2>3. QED
    BY <1>8, <2>1, <2>2 DEF CheckUpdate
<1>9. ASSUME NEW c \in Calls, UpdateConfig(c)
      PROVE  \A d \in Calls : CallStep(d)
  <2>1. CASE Return(c)
    BY <2>1, ReturnLemma DEF CallStep, OthersStay
  <2>2. CASE call' = At(c, "reply")
    BY <1>9, <2>2, AtLemma DEF CallStep, OthersStay, Updates, UpdateConfig, Turn
  <2>3. QED
    BY <1>9, <2>1, <2>2 DEF UpdateConfig
<1>10. ASSUME NEW c \in Calls, Delete(c)
       PROVE  \A d \in Calls : CallStep(d)
  BY <1>10, ReturnLemma DEF CallStep, OthersStay, Delete
<1>11. ASSUME NEW c \in Calls, DeleteAdapters(c)
       PROVE  \A d \in Calls : CallStep(d)
  <2>1. CASE Return(c)
    BY <2>1, ReturnLemma DEF CallStep, OthersStay
  <2>2. CASE call' = At(c, "reply")
    BY <1>11, <2>2, AtLemma DEF CallStep, OthersStay, Updates, DeleteAdapters, Turn
  <2>3. QED
    BY <1>11, <2>1, <2>2 DEF DeleteAdapters
<1>12. ASSUME NEW c \in Calls, Status(c)
       PROVE  \A d \in Calls : CallStep(d)
  BY <1>12, ReturnLemma DEF CallStep, OthersStay, Status
<1>13. ASSUME NEW c \in Calls, NEW ok \in BOOLEAN, StoreModel(c, ok)
       PROVE  \A d \in Calls : CallStep(d)
  <2>1. CASE Return(c)
    BY <2>1, ReturnLemma DEF CallStep, OthersStay
  <2>2. CASE ok
    BY <1>13, <2>2, AtLemma DEF CallStep, OthersStay, Registers, StoreModel, Turn
  <2>3. QED
    BY <1>13, <2>1, <2>2 DEF StoreModel
<1>14. ASSUME NEW c \in Calls, NEW a \in Adapters, NEW ok \in BOOLEAN, StoreAdapter(c, a, ok)
       PROVE  \A d \in Calls : CallStep(d)
  <2>1. CASE Return(c)
    BY <2>1, ReturnLemma DEF CallStep, OthersStay
  <2>2. CASE ok
    <3>1. OthersStay(c) /\ Same(c) /\ call'[c].pc = "adapters" /\ call'[c].todo = call[c].todo \ {a}
      BY <1>14, <2>2 DEF StoreAdapter, TypeOK, CallRecord, OthersStay, Same
    <3>2. QED
      BY <1>14, <2>2, <3>1 DEF StoreAdapter, CallStep, OthersStay, Registers
  <2>3. QED
    BY <1>14, <2>1, <2>2 DEF StoreAdapter
<1>15. ASSUME NEW m \in Models, Handle(m)
       PROVE  \A d \in Calls : CallStep(d)
  <2>1. CASE UNCHANGED call
    BY <2>1 DEF CallStep
  <2>2. ASSUME NEW c \in Calls, Return(c)
        PROVE  \A d \in Calls : CallStep(d)
    BY <2>2, ReturnLemma DEF CallStep, OthersStay
  <2>3. \/ UNCHANGED call
        \/ \E c \in Calls : Return(c)
    BY <1>15 DEF Handle, Answer, Return, TypeOK
  <2>4. QED
    BY <2>1, <2>2, <2>3
<1>16. ASSUME NEW m \in Models, RouterEnds(m)
       PROVE  \A d \in Calls : CallStep(d)
  BY <1>16 DEF RouterEnds, CallStep
<1>17. CASE Shutdown
  BY <1>17 DEF Shutdown, CallStep
<1>18. QED
  BY <1>1, <1>2, <1>3, <1>4, <1>5, <1>6, <1>7, <1>8, <1>9, <1>10, <1>11, <1>12, <1>13, <1>14,
     <1>15, <1>16, <1>17 DEF Next, Register, Others

-----------------------------------------------------------------------------
(* How a step changes the routers and the tables *)

Written(m, msg) ==
    \E c \in Calls :
        /\ call[c].model = m
        /\ \/ UpdateAdapters(c) /\ msg.what = "adapters" /\ msg.value = call[c].adapters
           \/ /\ StartRouter(c) /\ call[c].pc = "created" /\ m \notin request_routers
              /\ msg.what = "start" /\ msg.value = call[c].config
              /\ call'[c].pc = "started" /\ Same(c) /\ OthersStay(c)
           \/ /\ UpdateConfig(c) /\ registered_models[m] # None
              /\ msg.what = "config" /\ msg.value = call[c].config
           \/ DeleteAdapters(c) /\ m \in request_routers /\ msg.what = "delete"
RouterStep(m) ==
    \/ router'[m] = router[m]
    \/ \E msg \in Mail : /\ Written(m, msg)
                         /\ router'[m] = [router[m] EXCEPT !.inbox = Append(@, msg)]
    \/ \E c \in Calls : /\ CreateRouter(c) /\ call[c].model = m /\ call[c].pc = "adapters"
                        /\ call[c].todo = {} /\ ~router[m].alive
                        /\ router'[m] = NewActor(call[c].adapters)
    \/ router[m].inbox # <<>> /\ router'[m] = Handled(router[m]) /\ Handle(m)
    \/ RouterEnds(m) /\ router'[m] = NoActor

\* A message is appended to one mailbox.
LEMMA SentLemma ==
    ASSUME TypeOK, NEW n \in Models, NEW msg \in Mail, Send(n, msg), NEW m \in Models
    PROVE  IF m = n THEN router'[m] = [router[m] EXCEPT !.inbox = Append(@, msg)]
           ELSE router'[m] = router[m]
  BY DEF TypeOK, Send, RouterActor

\* A message that a call writes is one of the steps of a router.
LEMMA SendSteps ==
    ASSUME TypeOK, NEW n \in Models, NEW msg \in Mail, Send(n, msg), Written(n, msg)
    PROVE  \A m \in Models : RouterStep(m)
<1> SUFFICES ASSUME NEW m \in Models PROVE RouterStep(m)
  OBVIOUS
<1>1. CASE m = n
  <2>1. router'[m] = [router[m] EXCEPT !.inbox = Append(@, msg)]
    BY <1>1, SentLemma
  <2>2. QED
    BY <1>1, <2>1 DEF RouterStep
<1>2. CASE m # n
  <2>1. router'[m] = router[m]
    BY <1>2, SentLemma
  <2>2. QED
    BY <2>1 DEF RouterStep
<1>3. QED
  BY <1>1, <1>2

\* A step does to a router what RouterStep says.
LEMMA RouterSteps ==
    ASSUME TypeOK, CallsInv, [Next]_vars
    PROVE  \A m \in Models : RouterStep(m)
<1>1. CASE UNCHANGED vars
  BY <1>1 DEF vars, RouterStep
<1>2. ASSUME NEW c \in Calls, LookUp(c) \/ Insert(c) \/ CheckUpdate(c) \/ Delete(c) \/ Status(c)
      PROVE  \A m \in Models : RouterStep(m)
  BY <1>2 DEF LookUp, Insert, CheckUpdate, Delete, Status, RouterStep
<1>3. ASSUME NEW c \in Calls, NEW m \in Models, NEW q \in Requests[c], Request(c, m, q)
      PROVE  \A n \in Models : RouterStep(n)
  BY <1>3 DEF Request, RouterStep
<1>4. ASSUME NEW c \in Calls, UpdateAdapters(c)
      PROVE  \A m \in Models : RouterStep(m)
  <2> DEFINE msg == Message(c, "adapters", call[c].adapters)
  <2>1. CASE UNCHANGED router
    BY <2>1 DEF RouterStep
  <2>2. CASE Send(call[c].model, msg)
    <3>1. call[c].model \in Models /\ msg \in Mail
      BY <1>4, ControllerAssumption DEF TypeOK, CallRecord, CallsInv, Message, Mail,
         UpdateAdapters, Turn
    <3>2. msg.what = "adapters" /\ msg.value = call[c].adapters
      BY DEF Message
    <3>4. Written(call[c].model, msg)
      BY <1>4, <2>2, <3>1, <3>2 DEF Written
    <3>5. QED
      BY <2>2, <3>1, <3>4, SendSteps
  <2>3. QED
    BY <1>4, <2>1, <2>2 DEF UpdateAdapters, Message
<1>5. ASSUME NEW c \in Calls, CreateRouter(c)
      PROVE  \A m \in Models : RouterStep(m)
  <2>1. CASE UNCHANGED router
    BY <2>1 DEF RouterStep
  <2>2. CASE router' = [router EXCEPT ![call[c].model] =
                 NewActor(call[c].adapters)]
             /\ ~router[call[c].model].alive
    <3>1. call[c].pc = "adapters" /\ call[c].todo = {}
      BY <1>5 DEF CreateRouter, AdaptersStored
    <3>2. QED
      BY <1>5, <2>2, <3>1 DEF RouterStep, TypeOK
  <2>3. QED
    BY <1>5, <2>1, <2>2 DEF CreateRouter
<1>6. ASSUME NEW c \in Calls, StartRouter(c)
      PROVE  \A m \in Models : RouterStep(m)
  <2> DEFINE msg == Message(None, "start", call[c].config)
  <2>1. CASE UNCHANGED router
    BY <2>1 DEF RouterStep
  <2>2. CASE /\ Send(call[c].model, msg) /\ call' = At(c, "started")
             /\ call[c].model \notin request_routers
    <3>1. call[c].model \in Models /\ msg \in Mail
      BY <1>6, ControllerAssumption DEF TypeOK, CallRecord, CallsInv, Message, Mail, StartRouter,
         Turn
    <3>2. msg.what = "start" /\ msg.value = call[c].config
      BY DEF Message
    <3>3. call[c].pc = "created" /\ call'[c].pc = "started" /\ Same(c) /\ OthersStay(c)
      BY <1>6, <2>2, AtLemma DEF StartRouter, Turn
    <3>4. Written(call[c].model, msg)
      BY <1>6, <2>2, <3>1, <3>2, <3>3 DEF Written
    <3>5. QED
      BY <2>2, <3>1, <3>4, SendSteps
  <2>3. QED
    BY <1>6, <2>1, <2>2 DEF StartRouter, Message
<1>7. ASSUME NEW c \in Calls, UpdateConfig(c)
      PROVE  \A m \in Models : RouterStep(m)
  <2> DEFINE msg == Message(c, "config", call[c].config)
  <2>1. CASE UNCHANGED router
    BY <2>1 DEF RouterStep
  <2>2. CASE Send(call[c].model, msg) /\ registered_models[call[c].model] # None
    <3>1. call[c].model \in Models /\ msg \in Mail
      BY <1>7, ControllerAssumption DEF TypeOK, CallRecord, CallsInv, Message, Mail, UpdateConfig,
         Turn
    <3>2. msg.what = "config" /\ msg.value = call[c].config
      BY DEF Message
    <3>4. Written(call[c].model, msg)
      BY <1>7, <2>2, <3>1, <3>2 DEF Written
    <3>5. QED
      BY <2>2, <3>1, <3>4, SendSteps
  <2>3. QED
    BY <1>7, <2>1, <2>2 DEF UpdateConfig, Message
<1>8. ASSUME NEW c \in Calls, DeleteAdapters(c)
      PROVE  \A m \in Models : RouterStep(m)
  <2> DEFINE msg == Message(c, "delete", call[c].adapters)
  <2>1. CASE UNCHANGED router
    BY <2>1 DEF RouterStep
  <2>2. CASE Send(call[c].model, msg) /\ call[c].model \in request_routers
    <3>1. call[c].model \in Models /\ msg \in Mail
      BY <1>8, ControllerAssumption DEF TypeOK, CallRecord, CallsInv, Message, Mail,
         DeleteAdapters, Turn
    <3>2. msg.what = "delete" /\ msg.value = call[c].adapters
      BY DEF Message
    <3>4. Written(call[c].model, msg)
      BY <1>8, <2>2, <3>1, <3>2 DEF Written
    <3>5. QED
      BY <2>2, <3>1, <3>4, SendSteps
  <2>3. QED
    BY <1>8, <2>1, <2>2 DEF DeleteAdapters, Message
<1>9. ASSUME NEW c \in Calls, NEW ok \in BOOLEAN, StoreModel(c, ok)
      PROVE  \A m \in Models : RouterStep(m)
  BY <1>9 DEF StoreModel, RouterStep
<1>10. ASSUME NEW c \in Calls, NEW a \in Adapters, NEW ok \in BOOLEAN, StoreAdapter(c, a, ok)
       PROVE  \A m \in Models : RouterStep(m)
  BY <1>10 DEF StoreAdapter, RouterStep
<1>11. ASSUME NEW m \in Models, Handle(m)
       PROVE  \A n \in Models : RouterStep(n)
  <2>1. router[m].inbox # <<>> /\ router' = [router EXCEPT ![m] = Handled(router[m])]
    BY <1>11 DEF Handle
  <2>2. QED
    BY <1>11, <2>1 DEF RouterStep, TypeOK
<1>12. ASSUME NEW m \in Models, RouterEnds(m)
       PROVE  \A n \in Models : RouterStep(n)
  <2>1. router' = [router EXCEPT ![m] = NoActor]
    BY <1>12 DEF RouterEnds
  <2>2. QED
    BY <1>12, <2>1 DEF RouterStep, TypeOK
<1>13. CASE Shutdown
  BY <1>13 DEF Shutdown, RouterStep
<1>14. QED
  BY <1>1, <1>2, <1>3, <1>4, <1>5, <1>6, <1>7, <1>8, <1>9, <1>10, <1>11, <1>12, <1>13 DEF Next,
     Register, Others

BookStep(m) ==
    \/ /\ registered_models'[m] = registered_models[m]
       /\ m \in request_routers' <=> m \in request_routers
    \/ \E c \in Calls : /\ call[c].pc = "started" /\ call[c].model = m /\ call'[c] = Idle
                        /\ registered_models'[m] = call[c].config
                        /\ m \in request_routers' /\ UNCHANGED <<router, store>>
    \/ \E c \in Calls : /\ call[c].pc = "checked" /\ registered_models[m] # None
                        /\ registered_models'[m] = call[c].config
                        /\ request_routers' = request_routers
                        /\ \E msg \in Mail :
                              /\ msg.what = "config" /\ msg.value = call[c].config
                              /\ router'[m] = [router[m] EXCEPT !.inbox = Append(@, msg)]
    \/ registered_models'[m] = None /\ m \notin request_routers'

\* A step does to the tables what BookStep says.
LEMMA BookSteps ==
    ASSUME TypeOK, CallsInv, [Next]_vars
    PROVE  \A m \in Models : BookStep(m)
<1>1. CASE UNCHANGED vars
  BY <1>1 DEF vars, books, BookStep
<1>2. ASSUME NEW c \in Calls,
         LookUp(c) \/ UpdateAdapters(c) \/ CreateRouter(c) \/ StartRouter(c) \/ CheckUpdate(c) \/
         DeleteAdapters(c) \/ Status(c)
      PROVE  \A m \in Models : BookStep(m)
  BY <1>2 DEF LookUp, UpdateAdapters, CreateRouter, StartRouter, CheckUpdate, DeleteAdapters,
     Status, BookStep, books
<1>3. ASSUME NEW c \in Calls, NEW m \in Models, NEW q \in Requests[c], Request(c, m, q)
      PROVE  \A n \in Models : BookStep(n)
  BY <1>3 DEF Request, BookStep, books
<1>4. ASSUME NEW c \in Calls, Insert(c)
      PROVE  \A m \in Models : BookStep(m)
  <2>1. call[c].model \in Models /\ call'[c] = Idle
    BY <1>4, ReturnLemma DEF Insert, Turn, CallsInv
  <2>2. QED
    BY <1>4, <2>1 DEF BookStep, Insert, Turn, TypeOK
<1>5. ASSUME NEW c \in Calls, UpdateConfig(c)
      PROVE  \A m \in Models : BookStep(m)
  <2> DEFINE msg == Message(c, "config", call[c].config)
  <2>1. CASE UNCHANGED <<registered_models, request_routers>>
    BY <2>1 DEF BookStep
  <2>2. CASE /\ Send(call[c].model, msg) /\ registered_models[call[c].model] # None
             /\ registered_models' = [registered_models EXCEPT ![call[c].model] = call[c].config]
    <3>1. call[c].model \in Models /\ msg \in Mail
      BY <1>5 DEF TypeOK, CallRecord, CallsInv, Message, Mail, UpdateConfig, Turn
    <3>2. msg.what = "config" /\ msg.value = call[c].config
      BY DEF Message
    <3> HIDE DEF msg
    <3>3. router'[call[c].model] = [router[call[c].model] EXCEPT !.inbox = Append(@, msg)]
      BY <2>2, <3>1, SentLemma
    <3>4. BookStep(call[c].model)
      BY <1>5, <2>2, <3>1, <3>2, <3>3 DEF BookStep, UpdateConfig, Turn, TypeOK
    <3>5. ASSUME NEW n \in Models, n # call[c].model PROVE BookStep(n)
      BY <1>5, <2>2, <3>5 DEF BookStep, UpdateConfig, TypeOK
    <3>6. QED
      BY <3>4, <3>5
  <2>3. QED
    BY <1>5, <2>1, <2>2 DEF UpdateConfig
<1>6. ASSUME NEW c \in Calls, Delete(c)
      PROVE  \A m \in Models : BookStep(m)
  BY <1>6 DEF BookStep, Delete, TypeOK
<1>7. ASSUME NEW c \in Calls, NEW ok \in BOOLEAN, StoreModel(c, ok)
      PROVE  \A m \in Models : BookStep(m)
  BY <1>7 DEF StoreModel, BookStep, books
<1>8. ASSUME NEW c \in Calls, NEW a \in Adapters, NEW ok \in BOOLEAN, StoreAdapter(c, a, ok)
      PROVE  \A m \in Models : BookStep(m)
  BY <1>8 DEF StoreAdapter, BookStep, books
<1>9. ASSUME NEW m \in Models, Handle(m)
      PROVE  \A n \in Models : BookStep(n)
  BY <1>9 DEF Handle, BookStep, books
<1>10. ASSUME NEW m \in Models, RouterEnds(m)
       PROVE  \A n \in Models : BookStep(n)
  BY <1>10 DEF RouterEnds, BookStep, books
<1>11. CASE Shutdown
  BY <1>11 DEF Shutdown, BookStep, books
<1>12. QED
  BY <1>1, <1>2, <1>3, <1>4, <1>5, <1>6, <1>7, <1>8, <1>9, <1>10, <1>11 DEF Next, Register, Others

\* Nothing is taken off the store.
StoreKept ==
    stored \subseteq stored' /\ \A m \in Models : stored_adapters[m] \subseteq stored_adapters'[m]

\* Nothing is ever taken off the store.
LEMMA StoreGrows ==
    ASSUME TypeOK, [Next]_vars
    PROVE  StoreKept
<1>1. CASE UNCHANGED vars
  BY <1>1 DEF StoreKept, vars, store
<1>2. ASSUME NEW c \in Calls,
         LookUp(c) \/ UpdateAdapters(c) \/ CreateRouter(c) \/ StartRouter(c) \/ Insert(c) \/
         CheckUpdate(c) \/ UpdateConfig(c) \/ Delete(c) \/ DeleteAdapters(c) \/ Status(c)
      PROVE  StoreKept
  BY <1>2 DEF StoreKept, LookUp, UpdateAdapters, CreateRouter, StartRouter, Insert, CheckUpdate,
     UpdateConfig, Delete, DeleteAdapters, Status, store, books
<1>3. ASSUME NEW c \in Calls, NEW m \in Models, NEW q \in Requests[c], Request(c, m, q)
      PROVE  StoreKept
  BY <1>3 DEF StoreKept, Request, store, books
<1>4. ASSUME NEW c \in Calls, NEW ok \in BOOLEAN, StoreModel(c, ok)
      PROVE  StoreKept
  BY <1>4 DEF StoreKept, StoreModel
<1>5. ASSUME NEW c \in Calls, NEW a \in Adapters, NEW ok \in BOOLEAN, StoreAdapter(c, a, ok)
      PROVE  StoreKept
  BY <1>5 DEF StoreKept, StoreAdapter, TypeOK
<1>6. ASSUME NEW m \in Models, Handle(m)
      PROVE  StoreKept
  BY <1>6 DEF StoreKept, Handle, store, books
<1>7. ASSUME NEW m \in Models, RouterEnds(m)
      PROVE  StoreKept
  BY <1>7 DEF StoreKept, RouterEnds, store, books
<1>8. CASE Shutdown
  BY <1>8 DEF StoreKept, Shutdown, store, books
<1>9. QED
  BY <1>1, <1>2, <1>3, <1>4, <1>5, <1>6, <1>7, <1>8 DEF Next, Register, Others

\* Only models have routers.
LEMMA RoutersTyped ==
    ASSUME TypeOK, CallsInv, [Next]_vars
    PROVE  request_routers' \subseteq Models
<1>1. CASE UNCHANGED vars
  BY <1>1 DEF vars, books, TypeOK
<1>2. ASSUME NEW c \in Calls,
         LookUp(c) \/ UpdateAdapters(c) \/ CreateRouter(c) \/ StartRouter(c) \/ CheckUpdate(c) \/
         UpdateConfig(c) \/ Delete(c) \/ DeleteAdapters(c) \/ Status(c)
      PROVE  request_routers' \subseteq Models
  BY <1>2 DEF LookUp, UpdateAdapters, CreateRouter, StartRouter, CheckUpdate, UpdateConfig,
     Delete, DeleteAdapters, Status, books, TypeOK
<1>3. ASSUME NEW c \in Calls, NEW m \in Models, NEW q \in Requests[c], Request(c, m, q)
      PROVE  request_routers' \subseteq Models
  BY <1>3 DEF Request, books, TypeOK
<1>4. ASSUME NEW c \in Calls, Insert(c)
      PROVE  request_routers' \subseteq Models
  BY <1>4 DEF Insert, Turn, CallsInv, TypeOK
<1>5. ASSUME NEW c \in Calls, NEW ok \in BOOLEAN, StoreModel(c, ok)
      PROVE  request_routers' \subseteq Models
  BY <1>5 DEF StoreModel, books, TypeOK
<1>6. ASSUME NEW c \in Calls, NEW a \in Adapters, NEW ok \in BOOLEAN, StoreAdapter(c, a, ok)
      PROVE  request_routers' \subseteq Models
  BY <1>6 DEF StoreAdapter, books, TypeOK
<1>7. ASSUME NEW m \in Models, Handle(m)
      PROVE  request_routers' \subseteq Models
  BY <1>7 DEF Handle, books, TypeOK
<1>8. ASSUME NEW m \in Models, RouterEnds(m)
      PROVE  request_routers' \subseteq Models
  BY <1>8 DEF RouterEnds, books, TypeOK
<1>9. CASE Shutdown
  BY <1>9 DEF Shutdown, books, TypeOK
<1>10. QED
  BY <1>1, <1>2, <1>3, <1>4, <1>5, <1>6, <1>7, <1>8, <1>9 DEF Next, Register, Others

-----------------------------------------------------------------------------
(* The parts of the invariant are kept *)

\* Every step keeps the fields of the calls as their place requires.
LEMMA CallsStep ==
    ASSUME TypeOK, CallsInv, [Next]_vars
    PROVE  CallsInv'
<1> SUFFICES ASSUME NEW c \in Calls
             PROVE  /\ call'[c].pc # "idle" => call'[c].model \in Models
                    /\ (\/ call'[c].pc # "idle" /\ call'[c].kind = "register"
                        \/ call'[c].pc \in {"store", "adapters", "created", "started", "checked"}) =>
                          call'[c].config \in Configs
  BY DEF CallsInv
<1>1. CASE call'[c] = call[c]
  BY <1>1 DEF CallsInv
<1>2. CASE call'[c] = Idle
  BY <1>2 DEF Idle
<1>3. CASE Asks(c)
  BY <1>3 DEF Asks
<1>4. CASE Registers(c)
  BY <1>4 DEF Registers, Goes, Same, CallsInv
<1>5. CASE Updates(c)
  BY <1>5 DEF Updates, Goes, Same, CallsInv, TypeOK, CallRecord
<1>6. QED
  BY <1>1, <1>2, <1>3, <1>4, <1>5, CallSteps DEF CallStep

\* Every step keeps what a registration relies on in the store.
LEMMA StoredStep ==
    ASSUME TypeOK, CallsInv, StoredInv, RegisteredIsServed, [Next]_vars
    PROVE  StoredInv'
<1> SUFFICES ASSUME NEW c \in Calls
             PROVE  /\ call'[c].pc \in {"adapters", "created", "started"} => call'[c].model \in stored'
                    /\ call'[c].pc \in {"begin", "store", "adapters"} =>
                          \A a \in call'[c].adapters \ call'[c].todo :
                              a \in stored_adapters'[call'[c].model]
  BY DEF StoredInv
<1>1. stored \subseteq stored' /\ \A m \in Models : stored_adapters[m] \subseteq stored_adapters'[m]
  BY StoreGrows DEF StoreKept
<1>2. CASE call'[c] = call[c]
  BY <1>1, <1>2 DEF StoredInv, CallsInv
<1>3. CASE call'[c] = Idle
  BY <1>3 DEF Idle
<1>4. CASE Asks(c)
  BY <1>4 DEF Asks
<1>5. CASE Registers(c)
  <2>1. call[c].model \in Models /\ call'[c].model = call[c].model /\ call'[c].adapters = call[c].adapters
    BY <1>5 DEF Registers, Goes, Same, CallsInv
  <2>2. call'[c].pc \in {"adapters", "created", "started"} => call'[c].model \in stored'
    BY <1>1, <1>5, <2>1 DEF Registers, Goes, StoredInv, RegisteredIsServed
  <2>3. ASSUME call'[c].pc \in {"begin", "store", "adapters"},
               NEW a \in call'[c].adapters \ call'[c].todo
        PROVE  a \in stored_adapters'[call'[c].model]
    <3>1. CASE call'[c].todo = call[c].todo
      BY <1>1, <1>5, <2>1, <2>3, <3>1 DEF Registers, Goes, StoredInv
    <3>2. ASSUME NEW b \in Adapters, call'[c].todo = call[c].todo \ {b}, call[c].pc = "adapters",
                 stored_adapters' = [stored_adapters EXCEPT ![call[c].model] = @ \cup {b}]
          PROVE  a \in stored_adapters'[call'[c].model]
      BY <2>1, <2>3, <3>2 DEF StoredInv, TypeOK
    <3>3. QED
      BY <1>5, <3>1, <3>2 DEF Registers, Goes
  <2>4. QED
    BY <2>2, <2>3
<1>6. CASE Updates(c)
  BY <1>6 DEF Updates, Goes
<1>7. QED
  BY <1>2, <1>3, <1>4, <1>5, <1>6, CallSteps DEF CallStep

\* A router that the tables or a registration know does not end, nor is it
\* replaced.
LEMMA AliveStep ==
    ASSUME TypeOK, CallsInv, OwnInv, [Next]_vars, NEW m \in Models,
           m \in request_routers \/ \E c \in Calls : Registering(c) /\ call[c].model = m
    PROVE  /\ router[m].alive /\ router'[m].alive
           /\ HasStart(router[m]) => HasStart(router'[m])
           /\ \/ \A v : Told(router[m], v) => Told(router'[m], v)
              \/ /\ \E c \in Calls : /\ call[c].pc = "created" /\ call[c].model = m /\ StartRouter(c)
                                     /\ call'[c].pc = "started" /\ Same(c)
                 /\ m \notin request_routers
              \/ /\ registered_models[m] # None
                 /\ \E c \in Calls : /\ UpdateConfig(c) /\ call[c].model = m
                                     /\ Told(router'[m], call[c].config)
<1>1. router[m].alive /\ router[m] \in RouterActor
  BY DEF OwnInv, TypeOK
<1>2. CASE router'[m] = router[m]
  BY <1>1, <1>2
<1>3. ASSUME NEW msg \in Mail, Written(m, msg),
             router'[m] = [router[m] EXCEPT !.inbox = Append(@, msg)]
      PROVE  /\ router'[m].alive
             /\ HasStart(router[m]) => HasStart(router'[m])
             /\ ~Configures(msg) => \A v : Told(router[m], v) => Told(router'[m], v)
             /\ Configures(msg) => Told(router'[m], msg.value)
  <2> DEFINE s == [router[m] EXCEPT !.inbox = Append(@, msg)]
  <2>1. /\ s.alive = router[m].alive
        /\ HasStart(router[m]) \/ msg.what = "start" => HasStart(s)
        /\ \A v : ~Configures(msg) /\ Told(router[m], v) => Told(s, v)
        /\ Configures(msg) => Told(s, msg.value)
    BY <1>1, SendLemma
  <2>2. router'[m] = s
    BY <1>3
  <2> HIDE DEF s
  <2>3. QED
    BY <1>1, <2>1, <2>2
<1>4. ASSUME NEW c \in Calls, CreateRouter(c), ~router[m].alive
      PROVE  FALSE
  BY <1>1, <1>4
<1>5. CASE router[m].inbox # <<>> /\ router'[m] = Handled(router[m])
  BY <1>1, <1>5, HandleLemma
<1>6. ~RouterEnds(m)
  BY DEF RouterEnds, Referred, Registering
<1>7. CASE \E msg \in Mail : /\ Written(m, msg)
                             /\ router'[m] = [router[m] EXCEPT !.inbox = Append(@, msg)]
  <2>1. PICK msg \in Mail : /\ Written(m, msg)
                            /\ router'[m] = [router[m] EXCEPT !.inbox = Append(@, msg)]
    BY <1>7
  <2>2. /\ router'[m].alive
        /\ HasStart(router[m]) => HasStart(router'[m])
        /\ ~Configures(msg) => \A v : Told(router[m], v) => Told(router'[m], v)
        /\ Configures(msg) => Told(router'[m], msg.value)
    BY <1>3, <2>1
  <2>3. CASE ~Configures(msg)
    BY <1>1, <2>2, <2>3
  <2>4. CASE Configures(msg)
    BY <1>1, <2>1, <2>2, <2>4 DEF Configures, Written
  <2>5. QED
    BY <2>3, <2>4
<1>8. QED
  BY <1>1, <1>2, <1>4, <1>5, <1>6, <1>7, RouterSteps DEF RouterStep

\* Every step keeps a registration's own router its own.
LEMMA OwnStep ==
    ASSUME TypeOK, CallsInv, OwnInv, [Next]_vars
    PROVE  OwnInv'
<1>1. ASSUME NEW c \in Calls, Registering(c)'
      PROVE  /\ call'[c].model = call[c].model /\ call[c].model \in Models
             /\ \/ Registering(c)
                \/ /\ CreateRouter(c) /\ call[c].pc = "adapters" /\ ~router[call[c].model].alive
                   /\ OthersStay(c)
  <2>1. CASE call'[c] = call[c]
    BY <1>1, <2>1 DEF Registering, CallsInv
  <2>2. CASE OthersStay(c) /\ Registers(c)
    BY <1>1, <2>2 DEF Registering, Registers, Goes, Same, CallsInv
  <2>3. QED
    BY <1>1, <2>1, <2>2, CallSteps DEF CallStep, Registering, Idle, Asks, Updates, Goes
<1>2. ASSUME NEW c \in Calls, CreateRouter(c), call'[c].pc = "created"
      PROVE  router'[call[c].model].alive /\ request_routers' = request_routers
  <2>1. call[c].model \in Models
    BY <1>2 DEF CreateRouter, CallsInv
  <2>2. ~Return(c)
    BY <1>2, ReturnLemma DEF Idle
  <2>3. /\ router' = [router EXCEPT ![call[c].model] =
                NewActor(call[c].adapters)]
        /\ request_routers' = request_routers
    BY <1>2, <2>2 DEF CreateRouter, books
  <2>4. router'[call[c].model] = NewActor(call[c].adapters)
    BY <2>1, <2>3 DEF TypeOK
  <2>5. QED
    BY <2>3, <2>4 DEF NewActor
<1>3. ASSUME NEW c \in Calls, Registering(c)'
      PROVE  router'[call'[c].model].alive /\ call'[c].model \notin request_routers'
  <2>1. CASE Registering(c)
    <3>1. router'[call[c].model].alive
      BY <1>1, <1>3, <2>1, AliveStep
    <3>2. call[c].model \notin request_routers
      BY <2>1 DEF OwnInv
    <3>3. ASSUME NEW d \in Calls, call[d].pc = "started", call[d].model = call[c].model, call'[d] = Idle
          PROVE  FALSE
      <4>1. d = c
        BY <2>1, <3>3 DEF OwnInv, Registering
      <4>2. QED
        BY <1>3, <3>3, <4>1 DEF Registering, Idle
    <3>4. call[c].model \notin request_routers'
      BY <1>1, <1>3, <3>2, <3>3, BookSteps DEF BookStep
    <3>5. QED
      BY <1>1, <1>3, <3>1, <3>4
  <2>2. CASE CreateRouter(c) /\ call[c].pc = "adapters" /\ ~router[call[c].model].alive
    <3>1. call'[c].pc = "created"
      BY <1>3, <2>2, CallSteps DEF CallStep, Registering, Registers, Updates, Goes, Asks, Idle
    <3>2. QED
      BY <1>1, <1>2, <1>3, <2>2, <3>1 DEF OwnInv
  <2>3. QED
    BY <1>1, <1>3, <2>1, <2>2
<1>4. ASSUME NEW c \in Calls, NEW d \in Calls, Registering(c)', Registering(d)',
             call'[c].model = call'[d].model
      PROVE  c = d
  <2>1. call[c].model = call[d].model
    BY <1>1, <1>4
  <2>2. CASE Registering(c) /\ Registering(d)
    BY <2>1, <2>2 DEF OwnInv
  <2>3. ASSUME NEW e \in Calls, NEW f \in Calls, e # f, call[e].model = call[f].model,
               Registering(f)', ~Registering(e), ~router[call[e].model].alive, OthersStay(e)
        PROVE  FALSE
    <3>1. Registering(f)
      BY <2>3 DEF OthersStay, Registering
    <3>2. QED
      BY <2>3, <3>1 DEF OwnInv
  <2>4. QED
    BY <1>1, <1>4, <2>1, <2>2, <2>3
<1>5. ASSUME NEW m \in request_routers'
      PROVE  router'[m].alive
  <2>1. m \in Models
    BY <1>5, RoutersTyped
  <2>2. CASE m \in request_routers
    BY <2>1, <2>2, AliveStep
  <2>3. CASE m \notin request_routers
    <3>1. PICK c \in Calls : call[c].pc = "started" /\ call[c].model = m
      BY <1>5, <2>1, <2>3, BookSteps DEF BookStep
    <3>2. QED
      BY <2>1, <3>1, AliveStep DEF Registering
  <2>4. QED
    BY <2>2, <2>3
<1>6. QED
  BY <1>3, <1>4, <1>5 DEF OwnInv

\* Every step keeps registered models served.
LEMMA ServedStep ==
    ASSUME TypeOK, CallsInv, StoredInv, OwnInv, StartedInv, RegisteredIsServed, OwnInv', [Next]_vars
    PROVE  RegisteredIsServed'
<1> SUFFICES ASSUME NEW m \in Models
             PROVE  /\ registered_models'[m] # None <=> m \in request_routers'
                    /\ m \in request_routers' =>
                          m \in stored' /\ router'[m].alive /\ HasStart(router'[m])
  BY DEF RegisteredIsServed, HasStart
<1>1. registered_models'[m] # None <=> m \in request_routers'
  <2>1. registered_models[m] # None <=> m \in request_routers
    BY DEF RegisteredIsServed
  <2>2. ASSUME NEW c \in Calls, call[c].pc \in {"started", "checked"}
        PROVE  call[c].config # None
    BY <2>2, ControllerAssumption DEF CallsInv
  <2>3. QED
    BY <2>1, <2>2, BookSteps DEF BookStep
<1>2. ASSUME m \in request_routers'
      PROVE  m \in stored' /\ router'[m].alive /\ HasStart(router'[m])
  <2>1. CASE m \in request_routers
    <3>1. m \in stored'
      BY <2>1, StoreGrows DEF StoreKept, RegisteredIsServed
    <3>2. QED
      BY <2>1, <3>1, AliveStep DEF RegisteredIsServed
  <2>2. CASE m \notin request_routers
    <3>1. PICK c \in Calls : call[c].pc = "started" /\ call[c].model = m
      BY <1>2, <2>2, BookSteps DEF BookStep
    <3>2. m \in stored'
      BY <3>1, StoreGrows DEF StoreKept, StoredInv
    <3>3. HasStart(router[m])
      BY <3>1 DEF StartedInv
    <3>4. QED
      BY <3>1, <3>2, <3>3, AliveStep DEF Registering
  <2>3. QED
    BY <2>1, <2>2
<1>3. QED
  BY <1>1, <1>2

\* Every step keeps the tables and the routers agreed on the configs.
LEMMA ConfigsStep ==
    ASSUME TypeOK, CallsInv, OwnInv, StartedInv, RegisteredIsServed, ConfigsAgree, [Next]_vars
    PROVE  ConfigsAgree'
<1> SUFFICES ASSUME NEW m \in request_routers'
             PROVE  Told(router'[m], registered_models'[m])
  BY DEF ConfigsAgree, Told
<1>1. m \in Models
  BY RoutersTyped
<1>2. ASSUME registered_models'[m] = registered_models[m], m \in request_routers
      PROVE  Told(router'[m], registered_models'[m])
  <2>1. Told(router[m], registered_models[m])
    BY <1>2 DEF ConfigsAgree
  <2>2. ASSUME NEW c \in Calls, UpdateConfig(c), call[c].model = m
        PROVE  registered_models'[m] = call[c].config
    BY <1>1, <1>2, <2>2 DEF UpdateConfig, RegisteredIsServed, TypeOK
  <2>3. QED
    BY <1>1, <1>2, <2>1, <2>2, AliveStep
<1>3. ASSUME NEW c \in Calls, call[c].pc = "started", call[c].model = m,
             registered_models'[m] = call[c].config, router' = router
      PROVE  Told(router'[m], registered_models'[m])
  BY <1>3 DEF StartedInv
<1>4. ASSUME NEW c \in Calls, registered_models'[m] = call[c].config,
             NEW msg \in Mail, msg.what = "config", msg.value = call[c].config,
             router'[m] = [router[m] EXCEPT !.inbox = Append(@, msg)]
      PROVE  Told(router'[m], registered_models'[m])
  <2> DEFINE s == [router[m] EXCEPT !.inbox = Append(@, msg)]
  <2>1. Told(s, msg.value)
    <3>1. router[m] \in RouterActor
      BY <1>1 DEF TypeOK
    <3>2. Configures(msg)
      BY <1>4 DEF Configures
    <3>3. QED
      BY <3>1, <3>2, SendLemma
  <2>2. router'[m] = s
    BY <1>4
  <2> HIDE DEF s
  <2>3. QED
    BY <1>4, <2>1, <2>2
<1>5. QED
  BY <1>1, <1>2, <1>3, <1>4, BookSteps DEF BookStep

\* Every step keeps a started router told of its config.
LEMMA StartedStep ==
    ASSUME TypeOK, CallsInv, OwnInv, StartedInv, RegisteredIsServed, [Next]_vars
    PROVE  StartedInv'
<1> SUFFICES ASSUME NEW c \in Calls, call'[c].pc = "started"
             PROVE  /\ HasStart(router'[call'[c].model])
                    /\ Told(router'[call'[c].model], call'[c].config)
  BY DEF StartedInv, HasStart, Told
<1>1. CASE call'[c] = call[c]
  <2> DEFINE m == call[c].model
  <2>1. /\ m \in Models /\ m \notin request_routers /\ Registering(c)
        /\ HasStart(router[m]) /\ Told(router[m], call[c].config)
    BY <1>1 DEF CallsInv, OwnInv, Registering, StartedInv
  <2>2. registered_models[m] = None
    BY <2>1 DEF RegisteredIsServed
  <2>3. ASSUME NEW d \in Calls, call[d].pc = "created", call[d].model = m
        PROVE  FALSE
    <3>1. d = c
      BY <2>1, <2>3 DEF OwnInv, Registering
    <3>2. QED
      BY <1>1, <2>3, <3>1
  <2>4. HasStart(router'[m]) /\ Told(router'[m], call[c].config)
    BY <2>1, <2>2, <2>3, AliveStep
  <2>5. QED
    BY <1>1, <2>4
<1>2. CASE Registers(c)
  <2>1. StartRouter(c) /\ call[c].pc = "created" /\ Same(c)
    BY <1>2 DEF Registers, Goes
  <2> DEFINE m == call[c].model
             msg == Message(None, "start", call[c].config)
             s == [router[m] EXCEPT !.inbox = Append(@, msg)]
  <2>2. m \in Models /\ router[m] \in RouterActor /\ msg \in Mail
    BY <2>1, ControllerAssumption DEF CallsInv, TypeOK, Message, Mail
  <2>3. ~Return(c)
    BY ReturnLemma DEF Idle
  <2>4. Send(m, msg)
    BY <2>1, <2>3 DEF StartRouter
  <2>5. router'[m] = s
    BY <2>2, <2>4, SentLemma
  <2>6. HasStart(s) /\ Told(s, msg.value)
    <3>1. msg.what = "start" /\ Configures(msg)
      BY DEF Message, Configures
    <3> HIDE DEF msg
    <3>2. QED
      BY <2>2, <3>1, SendLemma
  <2>7. msg.value = call'[c].config /\ call'[c].model = m
    BY <2>1 DEF Message, Same
  <2> HIDE DEF s, msg
  <2>8. QED
    BY <2>5, <2>6, <2>7
<1>3. QED
  BY <1>1, <1>2, CallSteps DEF CallStep, Idle, Asks, Updates, Goes

\* The controller sends only to routers that live.
LEMMA WrittenLives ==
    ASSUME TypeOK, CallsInv, HeldInv, OwnInv, RegisteredIsServed, NEW m \in Models, NEW msg, Written(m, msg)
    PROVE  router[m].alive
<1>1. PICK c \in Calls :
        /\ call[c].model = m
        /\ \/ UpdateAdapters(c)
           \/ call[c].pc = "created"
           \/ registered_models[m] # None
           \/ m \in request_routers
  BY DEF Written
<1>2. CASE UpdateAdapters(c)
  BY <1>1, <1>2 DEF UpdateAdapters, HeldInv, OwnInv
<1>3. QED
  BY <1>1, <1>2 DEF RegisteredIsServed, OwnInv, Registering

\* Every step keeps the routers that are gone empty.
LEMMA GoneStep ==
    ASSUME TypeOK, CallsInv, HeldInv, OwnInv, RegisteredIsServed, GoneIsGone, [Next]_vars
    PROVE  GoneIsGone'
<1> SUFFICES ASSUME NEW m \in Models, ~router'[m].alive PROVE router'[m] = NoActor
  BY DEF GoneIsGone, NoActor
<1>1. router[m] \in RouterActor
  BY DEF TypeOK
<1>2. ASSUME NEW msg \in Mail, Written(m, msg),
             router'[m] = [router[m] EXCEPT !.inbox = Append(@, msg)]
      PROVE  FALSE
  <2>1. router'[m].alive = router[m].alive
    BY <1>1, <1>2 DEF RouterActor
  <2>2. QED
    BY <1>2, <2>1, WrittenLives
<1>3. ASSUME NEW c \in Calls, router'[m] = NewActor(call[c].adapters)
      PROVE  FALSE
  BY <1>3 DEF NewActor
<1>4. ASSUME router[m].inbox # <<>>, router'[m] = Handled(router[m])
      PROVE  FALSE
  <2>1. router'[m].alive = router[m].alive
    BY <1>1, <1>4, HandleLemma
  <2>2. QED
    BY <1>4, <2>1 DEF GoneIsGone, NoActor
<1>5. QED
  BY <1>2, <1>3, <1>4, RouterSteps DEF RouterStep, GoneIsGone

\* Every step keeps the adapters of the routers in the store.
LEMMA OffersStep ==
    ASSUME TypeOK, CallsInv, StoredInv, AdaptersAreStored, [Next]_vars
    PROVE  AdaptersAreStored'
<1> SUFFICES ASSUME NEW m \in Models PROVE Offers(router'[m], stored_adapters'[m])
  BY DEF AdaptersAreStored, Offers
<1>1. router[m] \in RouterActor /\ Offers(router[m], stored_adapters[m])
  BY DEF TypeOK, AdaptersAreStored
<1>2. stored_adapters[m] \subseteq stored_adapters'[m]
  BY StoreGrows DEF StoreKept
<1>3. Offers(router[m], stored_adapters'[m])
  BY <1>1, <1>2 DEF Offers
<1>4. ASSUME NEW c \in Calls, call[c].pc = "adapters", call[c].todo = {}, call[c].model = m
      PROVE  call[c].adapters \subseteq stored_adapters'[m]
  BY <1>2, <1>4 DEF StoredInv
<1>5. ASSUME NEW msg \in Mail, Written(m, msg),
             router'[m] = [router[m] EXCEPT !.inbox = Append(@, msg)]
      PROVE  Offers(router'[m], stored_adapters'[m])
  <2>1. msg.what = "adapters" => msg.value \subseteq stored_adapters'[m]
    <3>1. ASSUME msg.what = "adapters"
          PROVE  \E c \in Calls : /\ call[c].model = m /\ UpdateAdapters(c)
                                  /\ msg.value = call[c].adapters
      BY <1>5, <3>1 DEF Written
    <3>2. QED
      BY <1>4, <3>1 DEF UpdateAdapters, AdaptersStored
  <2> DEFINE s == [router[m] EXCEPT !.inbox = Append(@, msg)]
  <2>2. Offers(s, stored_adapters'[m])
    BY <1>1, <1>3, <2>1, SendLemma
  <2>3. router'[m] = s
    BY <1>5
  <2> HIDE DEF s
  <2>4. QED
    BY <2>2, <2>3
<1>6. ASSUME NEW c \in Calls, call[c].pc = "adapters", call[c].todo = {}, call[c].model = m,
             router'[m] = NewActor(call[c].adapters)
      PROVE  Offers(router'[m], stored_adapters'[m])
  BY <1>4, <1>6 DEF Offers, NewActor
<1>7. CASE router[m].inbox # <<>> /\ router'[m] = Handled(router[m])
  BY <1>1, <1>3, <1>7, HandleLemma
<1>8. CASE router'[m] = NoActor
  BY <1>8 DEF Offers, NoActor
<1>9. QED
  BY <1>3, <1>5, <1>6, <1>7, <1>8, RouterSteps DEF RouterStep

\* Every step keeps the lock with the call that it is held for.
LEMMA HeldStep ==
    ASSUME TypeOK, CallsInv, HeldInv, RegisteredIsServed, [Next]_vars
    PROVE  HeldInv'
<1>1. CASE UNCHANGED vars
  BY <1>1 DEF vars, books, lock, store, HeldInv
<1>2. ASSUME NEW c \in Calls, NEW m \in Models, NEW q \in Requests[c], Request(c, m, q)
      PROVE  HeldInv'
  <2>1. holder' = holder /\ holder # c
    BY <1>2 DEF Request, HeldInv
  <2>2. ASSUME NEW d \in Calls, d # c PROVE call'[d] = call[d]
    BY <1>2, <2>2 DEF Request, TypeOK
  <2>3. QED
    BY <1>2, <2>1, <2>2 DEF Request, HeldInv, books
<1>3. ASSUME NEW c \in Calls, LookUp(c)
      PROVE  HeldInv'
  <2>1. holder = None /\ c # None
    BY <1>3, ControllerAssumption DEF LookUp, Turn
  <2>2. CASE call' = At(c, "store") /\ Pass
    <3>1. holder' = None
      BY <2>1, <2>2 DEF Pass
    <3>2. QED
      BY <3>1, ControllerAssumption DEF HeldInv
  <2>3. CASE registered_models[call[c].model] # None /\ call' = At(c, "adapters") /\ Keep(c)
    <3>1. call[c].model \in request_routers
      BY <1>3, <2>3 DEF LookUp, Turn, CallsInv, RegisteredIsServed
    <3>2. call'[c].pc = "adapters" /\ call'[c].model = call[c].model
      BY <2>3, AtLemma DEF Same
    <3>3. QED
      BY <1>3, <2>3, <3>1, <3>2 DEF LookUp, Keep, HeldInv, books
  <2>4. QED
    BY <1>3, <2>2, <2>3 DEF LookUp
<1>4. ASSUME NEW c \in Calls, UpdateAdapters(c)
      PROVE  HeldInv'
  BY <1>4, ControllerAssumption DEF UpdateAdapters, Send, Message, At, books, lock, store, TypeOK,
     CallRecord, Idle, HeldInv
<1>5. ASSUME NEW c \in Calls, CreateRouter(c)
      PROVE  HeldInv'
  BY <1>5, ControllerAssumption DEF CreateRouter, Return, At, books, lock, store, TypeOK,
     CallRecord, Idle, HeldInv
<1>6. ASSUME NEW c \in Calls, StartRouter(c)
      PROVE  HeldInv'
  BY <1>6, ControllerAssumption DEF StartRouter, Turn, Pass, Return, Again, At, Send, Message,
     books, lock, store, TypeOK, CallRecord, Idle, HeldInv
<1>7. ASSUME NEW c \in Calls, Insert(c)
      PROVE  HeldInv'
  BY <1>7, ControllerAssumption DEF Insert, Turn, Pass, Return, books, lock, store, TypeOK,
     CallRecord, Idle, HeldInv
<1>8. ASSUME NEW c \in Calls, CheckUpdate(c)
      PROVE  HeldInv'
  BY <1>8, ControllerAssumption DEF CheckUpdate, Turn, Pass, Return, Again, At, books, lock,
     store, TypeOK, CallRecord, Idle, HeldInv
<1>9. ASSUME NEW c \in Calls, UpdateConfig(c)
      PROVE  HeldInv'
  BY <1>9, ControllerAssumption DEF UpdateConfig, Turn, Pass, Return, At, Send, Message, books,
     lock, store, TypeOK, CallRecord, Idle, HeldInv
<1>10. ASSUME NEW c \in Calls, Delete(c)
       PROVE  HeldInv'
  BY <1>10, ControllerAssumption DEF Delete, Turn, Pass, Return, books, lock, store, TypeOK,
     CallRecord, Idle, HeldInv
<1>11. ASSUME NEW c \in Calls, DeleteAdapters(c)
       PROVE  HeldInv'
  BY <1>11, ControllerAssumption DEF DeleteAdapters, Turn, Keep, At, Send, Message, Pass, Return,
     books, lock, store, TypeOK, CallRecord, Idle, HeldInv
<1>12. ASSUME NEW c \in Calls, Status(c)
       PROVE  HeldInv'
  BY <1>12, ControllerAssumption DEF Status, Turn, Pass, Return, books, lock, store, TypeOK,
     CallRecord, Idle, HeldInv
<1>13. ASSUME NEW c \in Calls, NEW ok \in BOOLEAN, StoreModel(c, ok)
       PROVE  HeldInv'
  <2>1. holder' = holder /\ holder # c
    BY <1>13 DEF StoreModel, HeldInv, lock
  <2>2. ASSUME NEW d \in Calls, d # c PROVE call'[d] = call[d]
    BY <1>13, <2>2, ReturnLemma, AtLemma DEF StoreModel, OthersStay
  <2>3. QED
    BY <1>13, <2>1, <2>2 DEF StoreModel, HeldInv, books
<1>14. ASSUME NEW c \in Calls, NEW a \in Adapters, NEW ok \in BOOLEAN, StoreAdapter(c, a, ok)
       PROVE  HeldInv'
  <2>1. CASE Release(c) /\ Return(c)
    <3>1. holder' # c /\ (holder' = holder \/ holder' = None)
      BY <2>1, ControllerAssumption DEF Release
    <3>2. ASSUME NEW d \in Calls, d # c PROVE call'[d] = call[d]
      BY <2>1, <3>2, ReturnLemma DEF OthersStay
    <3>3. QED
      BY <1>14, <3>1, <3>2, ControllerAssumption DEF StoreAdapter, HeldInv, books
  <2>2. CASE ok
    <3>1. holder' = holder /\ request_routers' = request_routers
      BY <1>14, <2>2 DEF StoreAdapter, lock, books
    <3>2. ASSUME NEW d \in Calls PROVE call'[d].pc = call[d].pc /\ call'[d].model = call[d].model
      BY <1>14, <2>2 DEF StoreAdapter, TypeOK, CallRecord
    <3>3. QED
      BY <3>1, <3>2 DEF HeldInv
  <2>3. QED
    BY <1>14, <2>1, <2>2 DEF StoreAdapter
<1>15. ASSUME NEW m \in Models, Handle(m)
       PROVE  HeldInv'
  BY <1>15, ControllerAssumption DEF Handle, Answer, Release, Return, books, lock, store, TypeOK,
     CallRecord, Idle, HeldInv
<1>16. ASSUME NEW m \in Models, RouterEnds(m)
       PROVE  HeldInv'
  BY <1>16, ControllerAssumption DEF RouterEnds, books, lock, store, TypeOK, CallRecord, Idle,
     HeldInv
<1>17. CASE Shutdown
  BY <1>17, ControllerAssumption DEF Shutdown, books, lock, store, TypeOK, CallRecord, Idle, HeldInv
<1>18. QED
  BY <1>1, <1>2, <1>3, <1>4, <1>5, <1>6, <1>7, <1>8, <1>9, <1>10, <1>11, <1>12, <1>13, <1>14,
     <1>15, <1>16, <1>17 DEF Next, Register, Others

\* What a call becomes is a call.
LEMMA CallTyped ==
    ASSUME TypeOK, NEW c \in Calls
    PROVE  /\ Return(c) => call' \in [Calls -> CallRecord]
           /\ \A pc \in {"idle", "begin", "store", "adapters", "reply", "created", "started", "checked"} :
                 At(c, pc) \in [Calls -> CallRecord]
<1>1. Idle \in CallRecord
  BY DEF Idle, CallRecord
<1>2. QED
  BY <1>1 DEF TypeOK, CallRecord, Return, At

\* A router that is sent a message is a router.
LEMMA RouterTyped ==
    ASSUME TypeOK, NEW n \in Models, NEW msg \in Mail, Send(n, msg)
    PROVE  router' \in [Models -> RouterActor]
<1>1. [router[n] EXCEPT !.inbox = Append(@, msg)] \in RouterActor
  BY SendLemma DEF TypeOK
<1>2. router' = [router EXCEPT ![n] = [router[n] EXCEPT !.inbox = Append(@, msg)]]
  BY DEF TypeOK, Send
<1>3. QED
  BY <1>1, <1>2 DEF TypeOK

\* The lock and the line before it keep their types.
LEMMA LockTyped ==
    ASSUME TypeOK, NEW c \in Calls,
           (waiters # <<>> /\ (Pass \/ Again(c) \/ Keep(c))) \/ Release(c)
    PROVE  holder' \in Calls \cup {None} /\ waiters' \in Seq(Calls)
<1>1. CASE waiters # <<>> /\ Pass
  BY <1>1 DEF TypeOK, Pass
<1>2. CASE waiters # <<>> /\ Again(c)
  BY <1>2 DEF TypeOK, Again
<1>3. CASE waiters # <<>> /\ Keep(c)
  BY <1>3 DEF TypeOK, Keep
<1>4. CASE Release(c)
  BY <1>4 DEF TypeOK, Release
<1>5. QED
  BY <1>1, <1>2, <1>3, <1>4

\* Every step keeps the types.
LEMMA TypeStep ==
    ASSUME TypeOK, CallsInv, [Next]_vars
    PROVE  TypeOK'
<1>1. CASE UNCHANGED vars
  BY <1>1 DEF vars, books, lock, store, TypeOK
<1>2. ASSUME NEW c \in Calls, NEW m \in Models, NEW q \in Requests[c], Request(c, m, q)
      PROVE  TypeOK'
  <2>1. call' \in [Calls -> CallRecord]
    BY <1>2, ControllerAssumption DEF Request, TypeOK, CallRecord, Asked
  <2>2. router' \in [Models -> RouterActor]
    BY <1>2 DEF TypeOK, Request
  <2>3. holder' \in Calls \cup {None} /\ waiters' \in Seq(Calls)
    BY <1>2 DEF TypeOK, Request
  <2>4. /\ running' \in BOOLEAN /\ stored' \subseteq Models
        /\ registered_models' \in [Models -> Configs \cup {None}]
        /\ stored_adapters' \in [Models -> SUBSET Adapters]
    BY <1>2 DEF TypeOK, Request, books, store
  <2>5. QED
    BY <2>1, <2>2, <2>3, <2>4, RoutersTyped DEF TypeOK
<1>3. ASSUME NEW c \in Calls, LookUp(c)
      PROVE  TypeOK'
  <2>1. call' \in [Calls -> CallRecord]
    BY <1>3, CallTyped DEF LookUp
  <2>2. router' \in [Models -> RouterActor]
    BY <1>3 DEF TypeOK, LookUp
  <2>3. holder' \in Calls \cup {None} /\ waiters' \in Seq(Calls)
    BY <1>3, LockTyped DEF LookUp, Turn, TypeOK
  <2>4. /\ running' \in BOOLEAN /\ stored' \subseteq Models
        /\ registered_models' \in [Models -> Configs \cup {None}]
        /\ stored_adapters' \in [Models -> SUBSET Adapters]
    BY <1>3 DEF TypeOK, LookUp, books, store
  <2>5. QED
    BY <2>1, <2>2, <2>3, <2>4, RoutersTyped DEF TypeOK
<1>4. ASSUME NEW c \in Calls, UpdateAdapters(c)
      PROVE  TypeOK'
  <2>1. call' \in [Calls -> CallRecord]
    BY <1>4, CallTyped DEF UpdateAdapters
  <2>2. router' \in [Models -> RouterActor]
    <3> DEFINE msg == Message(c, "adapters", call[c].adapters)
    <3>1. CASE Send(call[c].model, msg)
      <4>1. call[c].model \in Models /\ msg \in Mail
        BY <1>4, ControllerAssumption DEF TypeOK, CallRecord, CallsInv, Message, Mail,
           UpdateAdapters, Turn
      <4>2. QED
        BY <3>1, <4>1, RouterTyped
    <3>2. CASE UNCHANGED router
      BY <3>2 DEF TypeOK
    <3>3. QED
      BY <1>4, <3>1, <3>2 DEF UpdateAdapters
  <2>3. holder' \in Calls \cup {None} /\ waiters' \in Seq(Calls)
    BY <1>4 DEF TypeOK, UpdateAdapters, lock
  <2>4. /\ running' \in BOOLEAN /\ stored' \subseteq Models
        /\ registered_models' \in [Models -> Configs \cup {None}]
        /\ stored_adapters' \in [Models -> SUBSET Adapters]
    BY <1>4 DEF TypeOK, UpdateAdapters, books, store
  <2>5. QED
    BY <2>1, <2>2, <2>3, <2>4, RoutersTyped DEF TypeOK
<1>5. ASSUME NEW c \in Calls, CreateRouter(c)
      PROVE  TypeOK'
  <2>1. call' \in [Calls -> CallRecord]
    <3>1. CASE Return(c)
      BY <3>1, CallTyped
    <3>2. CASE call' = At(c, "created")
      BY <3>2, CallTyped
    <3>3. QED
      BY <1>5, <3>1, <3>2 DEF CreateRouter
  <2>2. router' \in [Models -> RouterActor]
    <3>1. NewActor(call[c].adapters) \in RouterActor
      <4>1. call[c].adapters \in SUBSET Adapters /\ <<>> \in Seq(Mail)
        BY DEF TypeOK, CallRecord
      <4>2. QED
        BY <4>1 DEF NewActor, RouterActor
    <3>2. router' = router \/ router' = [router EXCEPT ![call[c].model] = NewActor(call[c].adapters)]
      BY <1>5 DEF CreateRouter
    <3>3. QED
      BY <3>1, <3>2 DEF TypeOK
  <2>3. holder' \in Calls \cup {None} /\ waiters' \in Seq(Calls)
    BY <1>5 DEF TypeOK, CreateRouter
  <2>4. /\ running' \in BOOLEAN /\ stored' \subseteq Models
        /\ registered_models' \in [Models -> Configs \cup {None}]
        /\ stored_adapters' \in [Models -> SUBSET Adapters]
    BY <1>5 DEF TypeOK, CreateRouter, books, store
  <2>5. QED
    BY <2>1, <2>2, <2>3, <2>4, RoutersTyped DEF TypeOK
<1>6. ASSUME NEW c \in Calls, StartRouter(c)
      PROVE  TypeOK'
  <2>1. call' \in [Calls -> CallRecord]
    BY <1>6, CallTyped DEF StartRouter
  <2>2. router' \in [Models -> RouterActor]
    <3> DEFINE msg == Message(None, "start", call[c].config)
    <3>1. CASE Send(call[c].model, msg)
      <4>1. call[c].model \in Models /\ msg \in Mail
        BY <1>6, ControllerAssumption DEF TypeOK, CallRecord, CallsInv, Message, Mail,
           StartRouter, Turn
      <4>2. QED
        BY <3>1, <4>1, RouterTyped
    <3>2. CASE UNCHANGED router
      BY <3>2 DEF TypeOK
    <3>3. QED
      BY <1>6, <3>1, <3>2 DEF StartRouter
  <2>3. holder' \in Calls \cup {None} /\ waiters' \in Seq(Calls)
    BY <1>6, LockTyped DEF StartRouter, Turn, TypeOK
  <2>4. /\ running' \in BOOLEAN /\ stored' \subseteq Models
        /\ registered_models' \in [Models -> Configs \cup {None}]
        /\ stored_adapters' \in [Models -> SUBSET Adapters]
    BY <1>6 DEF TypeOK, StartRouter, books, store
  <2>5. QED
    BY <2>1, <2>2, <2>3, <2>4, RoutersTyped DEF TypeOK
<1>7. ASSUME NEW c \in Calls, Insert(c)
      PROVE  TypeOK'
  <2>1. call' \in [Calls -> CallRecord]
    BY <1>7, CallTyped DEF Insert
  <2>2. router' \in [Models -> RouterActor]
    BY <1>7 DEF TypeOK, Insert
  <2>3. holder' \in Calls \cup {None} /\ waiters' \in Seq(Calls)
    BY <1>7, LockTyped DEF Insert, Turn, TypeOK
  <2>4. /\ running' \in BOOLEAN /\ stored' \subseteq Models
        /\ registered_models' \in [Models -> Configs \cup {None}]
        /\ stored_adapters' \in [Models -> SUBSET Adapters]
    BY <1>7 DEF TypeOK, Insert, books, store, Turn, CallsInv
  <2>5. QED
    BY <2>1, <2>2, <2>3, <2>4, RoutersTyped DEF TypeOK
<1>8. ASSUME NEW c \in Calls, CheckUpdate(c)
      PROVE  TypeOK'
  <2>1. call' \in [Calls -> CallRecord]
    BY <1>8, CallTyped DEF CheckUpdate
  <2>2. router' \in [Models -> RouterActor]
    BY <1>8 DEF TypeOK, CheckUpdate
  <2>3. holder' \in Calls \cup {None} /\ waiters' \in Seq(Calls)
    BY <1>8, LockTyped DEF CheckUpdate, Turn, TypeOK
  <2>4. /\ running' \in BOOLEAN /\ stored' \subseteq Models
        /\ registered_models' \in [Models -> Configs \cup {None}]
        /\ stored_adapters' \in [Models -> SUBSET Adapters]
    BY <1>8 DEF TypeOK, CheckUpdate, books, store
  <2>5. QED
    BY <2>1, <2>2, <2>3, <2>4, RoutersTyped DEF TypeOK
<1>9. ASSUME NEW c \in Calls, UpdateConfig(c)
      PROVE  TypeOK'
  <2>1. call' \in [Calls -> CallRecord]
    BY <1>9, CallTyped DEF UpdateConfig
  <2>2. router' \in [Models -> RouterActor]
    <3> DEFINE msg == Message(c, "config", call[c].config)
    <3>1. CASE Send(call[c].model, msg)
      <4>1. call[c].model \in Models /\ msg \in Mail
        BY <1>9, ControllerAssumption DEF TypeOK, CallRecord, CallsInv, Message, Mail,
           UpdateConfig, Turn
      <4>2. QED
        BY <3>1, <4>1, RouterTyped
    <3>2. CASE UNCHANGED router
      BY <3>2 DEF TypeOK
    <3>3. QED
      BY <1>9, <3>1, <3>2 DEF UpdateConfig
  <2>3. holder' \in Calls \cup {None} /\ waiters' \in Seq(Calls)
    BY <1>9, LockTyped DEF UpdateConfig, Turn, TypeOK
  <2>4. /\ running' \in BOOLEAN /\ stored' \subseteq Models
        /\ registered_models' \in [Models -> Configs \cup {None}]
        /\ stored_adapters' \in [Models -> SUBSET Adapters]
    BY <1>9 DEF TypeOK, UpdateConfig, books, store, Turn, CallsInv
  <2>5. QED
    BY <2>1, <2>2, <2>3, <2>4, RoutersTyped DEF TypeOK
<1>10. ASSUME NEW c \in Calls, Delete(c)
       PROVE  TypeOK'
  <2>1. call' \in [Calls -> CallRecord]
    BY <1>10, CallTyped DEF Delete
  <2>2. router' \in [Models -> RouterActor]
    BY <1>10 DEF TypeOK, Delete
  <2>3. holder' \in Calls \cup {None} /\ waiters' \in Seq(Calls)
    BY <1>10, LockTyped DEF Delete, Turn, TypeOK
  <2>4. /\ running' \in BOOLEAN /\ stored' \subseteq Models
        /\ registered_models' \in [Models -> Configs \cup {None}]
        /\ stored_adapters' \in [Models -> SUBSET Adapters]
    BY <1>10 DEF TypeOK, Delete, books, store
  <2>5. QED
    BY <2>1, <2>2, <2>3, <2>4, RoutersTyped DEF TypeOK
<1>11. ASSUME NEW c \in Calls, DeleteAdapters(c)
       PROVE  TypeOK'
  <2>1. call' \in [Calls -> CallRecord]
    BY <1>11, CallTyped DEF DeleteAdapters
  <2>2. router' \in [Models -> RouterActor]
    <3> DEFINE msg == Message(c, "delete", call[c].adapters)
    <3>1. CASE Send(call[c].model, msg)
      <4>1. call[c].model \in Models /\ msg \in Mail
        BY <1>11, ControllerAssumption DEF TypeOK, CallRecord, CallsInv, Message, Mail,
           DeleteAdapters, Turn
      <4>2. QED
        BY <3>1, <4>1, RouterTyped
    <3>2. CASE UNCHANGED router
      BY <3>2 DEF TypeOK
    <3>3. QED
      BY <1>11, <3>1, <3>2 DEF DeleteAdapters
  <2>3. holder' \in Calls \cup {None} /\ waiters' \in Seq(Calls)
    BY <1>11, LockTyped DEF DeleteAdapters, Turn, TypeOK
  <2>4. /\ running' \in BOOLEAN /\ stored' \subseteq Models
        /\ registered_models' \in [Models -> Configs \cup {None}]
        /\ stored_adapters' \in [Models -> SUBSET Adapters]
    BY <1>11 DEF TypeOK, DeleteAdapters, books, store
  <2>5. QED
    BY <2>1, <2>2, <2>3, <2>4, RoutersTyped DEF TypeOK
<1>12. ASSUME NEW c \in Calls, Status(c)
       PROVE  TypeOK'
  <2>1. call' \in [Calls -> CallRecord]
    BY <1>12, CallTyped DEF Status
  <2>2. router' \in [Models -> RouterActor]
    BY <1>12 DEF TypeOK, Status
  <2>3. holder' \in Calls \cup {None} /\ waiters' \in Seq(Calls)
    BY <1>12, LockTyped DEF Status, Turn, TypeOK
  <2>4. /\ running' \in BOOLEAN /\ stored' \subseteq Models
        /\ registered_models' \in [Models -> Configs \cup {None}]
        /\ stored_adapters' \in [Models -> SUBSET Adapters]
    BY <1>12 DEF TypeOK, Status, books, store
  <2>5. QED
    BY <2>1, <2>2, <2>3, <2>4, RoutersTyped DEF TypeOK
<1>13. ASSUME NEW c \in Calls, NEW ok \in BOOLEAN, StoreModel(c, ok)
       PROVE  TypeOK'
  <2>1. call' \in [Calls -> CallRecord]
    BY <1>13, CallTyped DEF StoreModel
  <2>2. router' \in [Models -> RouterActor]
    BY <1>13 DEF TypeOK, StoreModel
  <2>3. holder' \in Calls \cup {None} /\ waiters' \in Seq(Calls)
    BY <1>13 DEF TypeOK, StoreModel, lock
  <2>4. /\ running' \in BOOLEAN /\ stored' \subseteq Models
        /\ registered_models' \in [Models -> Configs \cup {None}]
        /\ stored_adapters' \in [Models -> SUBSET Adapters]
    BY <1>13 DEF TypeOK, StoreModel, books, store, CallsInv
  <2>5. QED
    BY <2>1, <2>2, <2>3, <2>4, RoutersTyped DEF TypeOK
<1>14. ASSUME NEW c \in Calls, NEW a \in Adapters, NEW ok \in BOOLEAN, StoreAdapter(c, a, ok)
       PROVE  TypeOK'
  <2>1. call' \in [Calls -> CallRecord]
    <3>1. CASE Return(c)
      BY <3>1, CallTyped
    <3>2. CASE ok
      <4>1. call' = [call EXCEPT ![c] = [call[c] EXCEPT !.todo = @ \ {a}]]
        BY <1>14, <3>2 DEF StoreAdapter, TypeOK
      <4>2. [call[c] EXCEPT !.todo = @ \ {a}] \in CallRecord
        BY DEF TypeOK, CallRecord
      <4>3. QED
        BY <4>1, <4>2 DEF TypeOK
    <3>3. QED
      BY <1>14, <3>1, <3>2 DEF StoreAdapter
  <2>2. router' \in [Models -> RouterActor]
    BY <1>14 DEF TypeOK, StoreAdapter
  <2>3. holder' \in Calls \cup {None} /\ waiters' \in Seq(Calls)
    BY <1>14, LockTyped DEF StoreAdapter, TypeOK, lock
  <2>4. /\ running' \in BOOLEAN /\ stored' \subseteq Models
        /\ registered_models' \in [Models -> Configs \cup {None}]
        /\ stored_adapters' \in [Models -> SUBSET Adapters]
    <3>1. running' = running /\ stored' = stored /\ registered_models' = registered_models
      BY <1>14 DEF StoreAdapter, books
    <3>2. \/ stored_adapters' = stored_adapters
          \/ stored_adapters' = [stored_adapters EXCEPT ![call[c].model] = @ \cup {a}]
      BY <1>14 DEF StoreAdapter
    <3>3. stored_adapters' \in [Models -> SUBSET Adapters]
      BY <3>2 DEF TypeOK
    <3>4. QED
      BY <3>1, <3>3 DEF TypeOK
  <2>5. QED
    BY <2>1, <2>2, <2>3, <2>4, RoutersTyped DEF TypeOK
<1>15. ASSUME NEW m \in Models, Handle(m)
       PROVE  TypeOK'
  <2>1. call' \in [Calls -> CallRecord]
    BY <1>15, CallTyped DEF Handle, Answer, TypeOK, Return
  <2>2. router' \in [Models -> RouterActor]
    <3>1. router[m] \in RouterActor /\ router[m].inbox # <<>>
      BY <1>15 DEF TypeOK, Handle
    <3>2. Handled(router[m]) \in RouterActor
      BY <3>1, HandleLemma
    <3>3. router' = [router EXCEPT ![m] = Handled(router[m])]
      BY <1>15 DEF Handle
    <3>4. QED
      BY <3>2, <3>3 DEF TypeOK
  <2>3. holder' \in Calls \cup {None} /\ waiters' \in Seq(Calls)
    BY <1>15 DEF Handle, Answer, Release, TypeOK, lock
  <2>4. /\ running' \in BOOLEAN /\ stored' \subseteq Models
        /\ registered_models' \in [Models -> Configs \cup {None}]
        /\ stored_adapters' \in [Models -> SUBSET Adapters]
    BY <1>15 DEF TypeOK, Handle, books, store
  <2>5. QED
    BY <2>1, <2>2, <2>3, <2>4, RoutersTyped DEF TypeOK
<1>16. ASSUME NEW m \in Models, RouterEnds(m)
       PROVE  TypeOK'
  <2>1. NoActor \in RouterActor
    BY DEF NoActor, RouterActor
  <2>2. QED
    BY <1>16, <2>1 DEF TypeOK, RouterEnds, books, lock, store
<1>17. CASE Shutdown
  BY <1>17 DEF TypeOK, Shutdown, lock, store
<1>18. QED
  BY <1>1, <1>2, <1>3, <1>4, <1>5, <1>6, <1>7, <1>8, <1>9, <1>10, <1>11, <1>12, <1>13, <1>14,
     <1>15, <1>16, <1>17 DEF Next, Register, Others

-----------------------------------------------------------------------------

\* The controller starts in the invariant.
LEMMA InitIndInv == Init => IndInv
<1> SUFFICES ASSUME Init PROVE IndInv
  OBVIOUS
<1> USE DEF Init
<1>1. Idle \in CallRecord /\ NoActor \in RouterActor
  BY DEF Idle, CallRecord, NoActor, RouterActor
<1>2. TypeOK
  BY <1>1 DEF TypeOK
<1>3. CallsInv /\ StoredInv /\ OwnInv /\ StartedInv
  BY DEF CallsInv, StoredInv, OwnInv, StartedInv, Idle, Registering
<1>4. HeldInv
  BY ControllerAssumption DEF HeldInv
<1>5. GoneIsGone /\ RegisteredIsServed /\ ConfigsAgree
  BY DEF GoneIsGone, RegisteredIsServed, ConfigsAgree
<1>6. AdaptersAreStored
  <2>1. NoActor.adapters = {} /\ NoActor.inbox = <<>>
    BY DEF NoActor
  <2>2. ASSUME NEW m \in Models PROVE Offers(router[m], stored_adapters[m])
    BY <2>1 DEF Offers
  <2>3. QED
    BY <2>2 DEF AdaptersAreStored
<1>7. QED
  BY <1>2, <1>3, <1>4, <1>5, <1>6 DEF IndInv

\* Every step keeps the invariant.
LEMMA NextIndInv == IndInv /\ [Next]_vars => IndInv'
<1> SUFFICES ASSUME IndInv, [Next]_vars PROVE IndInv'
  OBVIOUS
<1> USE DEF IndInv
<1>1. TypeOK' /\ CallsInv' /\ HeldInv' /\ StoredInv'
  BY TypeStep, CallsStep, HeldStep, StoredStep
<1>2. OwnInv' /\ StartedInv'
  BY OwnStep, StartedStep
<1>3. GoneIsGone' /\ RegisteredIsServed'
  BY <1>2, GoneStep, ServedStep
<1>4. ConfigsAgree' /\ AdaptersAreStored'
  BY ConfigsStep, OffersStep
<1>5. QED
  BY <1>1, <1>2, <1>3, <1>4

\* IndInv holds in every reachable state.
THEOREM Invariance == Spec => []IndInv
<1>1. Init => IndInv
  BY InitIndInv
<1>2. IndInv /\ [Next]_vars => IndInv'
  BY NextIndInv
<1>3. QED
  BY <1>1, <1>2, PTL DEF Spec

\* The tables of the controller agree with the routers and the store, however
\* its calls overlap and wherever one of them fails (controller.py:68-251).
THEOREM TablesAlwaysAgree == Spec => []TablesAgree
<1>1. IndInv => TablesAgree
  BY DEF IndInv, TablesAgree
<1>2. QED
  BY <1>1, Invariance, PTL

\* Between the second look of register and its insertion, for which the lock is
\* taken twice, no other call enters the model (controller.py:134-171).
THEOREM ModelsEnteredOnce == Spec => RegisteredOnce
<1>1. IndInv /\ [Next]_vars =>
          [\A c \in Calls : Insert(c) => call[c].model \notin request_routers]_vars
  BY DEF IndInv, OwnInv, Registering, Insert, Turn
<1>2. QED
  BY <1>1, Invariance, PTL DEF Spec, RegisteredOnce
=============================================================================
