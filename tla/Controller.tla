----------------------------- MODULE Controller -----------------------------
(***************************************************************************)
(* The controller (sllm/controller.py), a Ray actor whose calls are the    *)
(* coroutines of one event loop, as the gateway (sllm/app_lib.py) drives   *)
(* it, and the router actors it creates, names and drops.                  *)
(*                                                                         *)
(* A call runs until it waits for metadata_lock or for another actor.  The *)
(* lock is first come, first served.  Ray gives a name to one living actor *)
(* and ends an actor when nobody refers to it any more, so the routers are *)
(* told apart by their models; an actor handles the messages of the        *)
(* controller in the order they were sent.                                 *)
(***************************************************************************)
EXTENDS Integers, Sequences

CONSTANTS
    Models, Adapters,
    Configs,            \* auto_scaling_config
    Calls,              \* the calls that run at the same time
    Requests,           \* Requests[c]: what call c may ask for, as [kind, config, adapters]
    None

Asked == [kind : {"register", "update", "delete", "delete_adapters", "status"},
          config : Configs \cup {None}, adapters : SUBSET Adapters]

ASSUME ControllerAssumption ==
    /\ None \notin Models \cup Calls \cup Configs
    /\ \A c \in Calls : \A q \in Requests[c] :
          q \in Asked /\ (q.kind = "register" => q.config \in Configs)

VARIABLES
    running,
    enable_migration,   \* the routers are of class MigrationRouter
    registered_models,  \* the auto_scaling_config of a model, or None
    request_routers,    \* the models with a router
    waiters, holder,    \* metadata_lock: who waits, in order, and who has it
    stored, stored_adapters,    \* what the store manager has registered
    router,             \* router[m]: the router actor of m
    call

store == <<stored, stored_adapters>>
lock == <<waiters, holder>>
books == <<running, enable_migration, registered_models, request_routers>>
vars == <<books, lock, store, router, call>>

Idle == [kind |-> None, pc |-> "idle", model |-> None,
         config |-> None, adapters |-> {}, todo |-> {}]
NoActor == [alive |-> FALSE, started |-> FALSE, config |-> None, adapters |-> {}, inbox |-> <<>>]
NewActor(adapters) ==
    [alive |-> TRUE, started |-> FALSE, config |-> None, adapters |-> adapters, inbox |-> <<>>]

\* start() has returned before the gateway takes requests.
Init ==
    /\ running = TRUE /\ enable_migration \in BOOLEAN
    /\ registered_models = [m \in Models |-> None] /\ request_routers = {}
    /\ waiters = <<>> /\ holder = None
    /\ stored = {} /\ stored_adapters = [m \in Models |-> {}]
    /\ router = [m \in Models |-> NoActor]
    /\ call = [c \in Calls |-> Idle]

-----------------------------------------------------------------------------
(* metadata_lock and the routers' mailboxes *)

Turn(c, pc) == call[c].pc = pc /\ holder = None /\ waiters # <<>> /\ Head(waiters) = c
At(c, pc) == [call EXCEPT ![c].pc = pc]
Return(c) == call' = [call EXCEPT ![c] = Idle]
\* c gives the lock back at once, goes for it again, or keeps it.
Pass == waiters' = Tail(waiters) /\ UNCHANGED holder
Again(c) == waiters' = Append(Tail(waiters), c) /\ UNCHANGED holder
Keep(c) == waiters' = Tail(waiters) /\ holder' = c
Release(c) == holder' = (IF holder = c THEN None ELSE holder) /\ UNCHANGED waiters

Message(c, what, value) == [of |-> c, what |-> what, value |-> value]
Send(m, msg) == router' = [router EXCEPT ![m].inbox = Append(@, msg)]

\* A request of the gateway: register, update, delete (of the model or of
\* some adapters) or status (get_models, exists).
Request(c, m, q) ==
    /\ call[c].pc = "idle" /\ (q.kind = "register" => running)
    /\ call' = [call EXCEPT ![c] = [kind |-> q.kind, pc |-> "begin", model |-> m,
                        config |-> q.config, adapters |-> q.adapters, todo |-> q.adapters]]
    /\ waiters' = Append(waiters, c)
    /\ UNCHANGED <<books, holder, store, router>>

-----------------------------------------------------------------------------
(* register *)

\* A model that is there: its adapters are registered with the lock in hand.
LookUp(c) ==
    /\ call[c].kind = "register" /\ Turn(c, "begin")
    /\ IF registered_models[call[c].model] = None
       THEN Pass /\ call' = At(c, "store")
       ELSE Keep(c) /\ call' = At(c, "adapters")
    /\ UNCHANGED <<books, store, router>>

\* The store manager answers; a failure ends the registration.
StoreModel(c, ok) ==
    /\ call[c].pc = "store"
    /\ stored' = IF ok THEN stored \cup {call[c].model} ELSE stored
    /\ IF ok THEN call' = At(c, "adapters") ELSE Return(c)
    /\ UNCHANGED <<books, lock, stored_adapters, router>>

\* One more adapter is registered at the store.
StoreAdapter(c, a, ok) ==
    LET m == call[c].model IN
    /\ call[c].pc = "adapters" /\ a \in call[c].todo
    /\ IF ok THEN /\ stored_adapters' = [stored_adapters EXCEPT ![m] = @ \cup {a}]
                  /\ call' = [call EXCEPT ![c].todo = @ \ {a}]
                  /\ UNCHANGED lock
             ELSE Release(c) /\ Return(c) /\ UNCHANGED stored_adapters
    /\ UNCHANGED <<books, stored, router>>

\* Mutant of AdaptersStored: the router is told before the store has answered.
AdaptersNotAwaited(c) == TRUE
AdaptersStored(c) == call[c].todo = {}

\* The known model's router gets the adapters in the place of its own.
UpdateAdapters(c) ==
    /\ call[c].pc = "adapters" /\ holder = c /\ AdaptersStored(c)
    /\ Send(call[c].model, Message(c, "adapters", call[c].adapters))
    /\ call' = At(c, "reply")
    /\ UNCHANGED <<books, lock, store>>

\* Mutant of CreateRouter: the routers have names of their own.
CreateRouterUnnamed(c) ==
    LET m == call[c].model IN
    /\ call[c].pc = "adapters" /\ holder # c /\ AdaptersStored(c)
    /\ IF enable_migration
       THEN Return(c) /\ UNCHANGED <<router, waiters>>
       ELSE /\ router' = [router EXCEPT ![m] = NewActor(call[c].adapters)]
            /\ call' = At(c, "created") /\ waiters' = Append(waiters, c)
    /\ UNCHANGED <<books, holder, store>>
\* A taken name, or MigrationRouter, whose __init__ has two parameters less,
\* raises.
CreateRouter(c) ==
    LET m == call[c].model IN
    /\ call[c].pc = "adapters" /\ holder # c /\ AdaptersStored(c)
    /\ IF enable_migration \/ router[m].alive
       THEN Return(c) /\ UNCHANGED <<router, waiters>>
       ELSE /\ router' = [router EXCEPT ![m] = NewActor(call[c].adapters)]
            /\ call' = At(c, "created") /\ waiters' = Append(waiters, c)
    /\ UNCHANGED <<books, holder, store>>

\* Mutant of StartRouter: start is left to whoever inserts the model first.
StartRouterLater(c) ==
    /\ Turn(c, "created")
    /\ Again(c) /\ call' = At(c, "started") /\ UNCHANGED router
    /\ UNCHANGED <<books, store>>
\* The second look, and start.remote.
StartRouter(c) ==
    LET m == call[c].model IN
    /\ Turn(c, "created")
    /\ IF m \in request_routers
       THEN Pass /\ Return(c) /\ UNCHANGED router
       ELSE /\ Again(c) /\ call' = At(c, "started")
            /\ Send(m, Message(None, "start", call[c].config))
    /\ UNCHANGED <<books, store>>

Insert(c) ==
    LET m == call[c].model IN
    /\ Turn(c, "started") /\ Pass /\ Return(c)
    /\ registered_models' = [registered_models EXCEPT ![m] = call[c].config]
    /\ request_routers' = request_routers \cup {m}
    /\ UNCHANGED <<running, enable_migration, store, router>>

-----------------------------------------------------------------------------
(* update, delete, status and shutdown *)

\* A model that is not there raises.
CheckUpdate(c) ==
    /\ call[c].kind = "update" /\ Turn(c, "begin")
    /\ IF registered_models[call[c].model] = None \/ call[c].config = None
       THEN Pass /\ Return(c)
       ELSE Again(c) /\ call' = At(c, "checked")
    /\ UNCHANGED <<books, store, router>>

\* Mutant of UpdateConfig: the router's lock is asked for again before the
\* new config is sent.
UpdateConfigLate(c) ==
    LET m == call[c].model IN
    /\ Turn(c, "checked")
    /\ IF registered_models[m] = None \/ registered_models[m] = call[c].config
       THEN /\ Pass /\ UNCHANGED registered_models
            /\ IF registered_models[m] = None THEN Return(c) /\ UNCHANGED router
               ELSE Send(m, Message(c, "config", call[c].config)) /\ call' = At(c, "reply")
       ELSE /\ Again(c) /\ UNCHANGED <<router, call>>
            /\ registered_models' = [registered_models EXCEPT ![m] = call[c].config]
    /\ UNCHANGED <<running, enable_migration, request_routers, store>>
\* Mutant of UpdateConfig: a model deleted in between is waited for.
UpdateConfigRetries(c) ==
    LET m == call[c].model IN
    /\ Turn(c, "checked")
    /\ IF registered_models[m] = None
       THEN Again(c) /\ UNCHANGED <<registered_models, router, call>>
       ELSE /\ Pass
            /\ registered_models' = [registered_models EXCEPT ![m] = call[c].config]
            /\ Send(m, Message(c, "config", call[c].config))
            /\ call' = At(c, "reply")
    /\ UNCHANGED <<running, enable_migration, request_routers, store>>
\* The lock again: a model deleted in between is a KeyError.  Otherwise the
\* config is kept, the lock given back, and the router told.
UpdateConfig(c) ==
    LET m == call[c].model IN
    /\ Turn(c, "checked") /\ Pass
    /\ IF registered_models[m] = None
       THEN Return(c) /\ UNCHANGED <<registered_models, router>>
       ELSE /\ registered_models' = [registered_models EXCEPT ![m] = call[c].config]
            /\ Send(m, Message(c, "config", call[c].config))
            /\ call' = At(c, "reply")
    /\ UNCHANGED <<running, enable_migration, request_routers, store>>

\* Mutant of Delete: the router stays in the books.
DeleteModelOnly(c) ==
    LET m == call[c].model IN
    /\ call[c].kind = "delete" /\ Turn(c, "begin") /\ Pass /\ Return(c)
    /\ registered_models' = [registered_models EXCEPT ![m] = None]
    /\ UNCHANGED <<running, enable_migration, request_routers, store, router>>
\* delete of a model drops the router; its shutdown is not called.
Delete(c) ==
    LET m == call[c].model IN
    /\ call[c].kind = "delete" /\ Turn(c, "begin") /\ Pass /\ Return(c)
    /\ registered_models' = [registered_models EXCEPT ![m] = None]
    /\ request_routers' = request_routers \ {m}
    /\ UNCHANGED <<running, enable_migration, store, router>>

\* delete of adapters waits for the router with the lock in hand.
DeleteAdapters(c) ==
    LET m == call[c].model IN
    /\ call[c].kind = "delete_adapters" /\ Turn(c, "begin")
    /\ IF m \in request_routers
       THEN Keep(c) /\ call' = At(c, "reply") /\ Send(m, Message(c, "delete", call[c].adapters))
       ELSE Pass /\ Return(c) /\ UNCHANGED router
    /\ UNCHANGED <<books, store>>

\* status, exists and get_models.
Status(c) ==
    /\ call[c].kind = "status" /\ Turn(c, "begin") /\ Pass /\ Return(c)
    /\ UNCHANGED <<books, store, router>>

\* shutdown calls _delete, which does not exist: it raises if there is a
\* model and returns if there is none.  Registrations that come after it are
\* refused, the models stay.
Shutdown ==
    /\ running /\ holder = None /\ waiters = <<>>
    /\ running' = FALSE
    /\ UNCHANGED <<enable_migration, registered_models, request_routers, lock, store, router, call>>

-----------------------------------------------------------------------------
(* The router actors *)

\* The call that waited for the router returns.
Answer(c) == Release(c) /\ Return(c)

\* A router after its next message: start, update or delete_adapters.
Handled(r) ==
    LET msg == Head(r.inbox)
        rest == [r EXCEPT !.inbox = Tail(@)]
    IN  CASE msg.what = "start"    -> [rest EXCEPT !.started = TRUE, !.config = msg.value]
          [] msg.what = "config"   -> [rest EXCEPT !.config = msg.value]
          [] msg.what = "adapters" -> [rest EXCEPT !.adapters = msg.value]
          [] msg.what = "delete"   -> [rest EXCEPT !.adapters = @ \ msg.value]

Handle(m) ==
    LET msg == Head(router[m].inbox) IN
    /\ router[m].inbox # <<>>
    /\ router' = [router EXCEPT ![m] = Handled(@)]
    /\ IF msg.of = None THEN UNCHANGED <<lock, call>> ELSE Answer(msg.of)
    /\ UNCHANGED <<books, store>>

\* The controller's variables and calls that refer to the router of m.
Referred(m) ==
    \/ m \in request_routers
    \/ \E c \in Calls : call[c].model = m /\ call[c].pc \in {"created", "started", "reply"}

\* Mutant of RouterEnds: what the actor had is still there.
RouterEndsHalf(m) ==
    /\ router[m].alive /\ ~Referred(m) /\ router[m].inbox = <<>>
    /\ router' = [router EXCEPT ![m].alive = FALSE]
    /\ UNCHANGED <<books, lock, store, call>>
\* Ray ends an actor that nobody refers to, and its name is free.
RouterEnds(m) ==
    /\ router[m].alive /\ ~Referred(m) /\ router[m].inbox = <<>>
    /\ router' = [router EXCEPT ![m] = NoActor]
    /\ UNCHANGED <<books, lock, store, call>>

Register(c) ==
    \/ LookUp(c) \/ UpdateAdapters(c) \/ CreateRouter(c) \/ StartRouter(c) \/ Insert(c)
    \/ \E ok \in BOOLEAN : StoreModel(c, ok) \/ \E a \in Adapters : StoreAdapter(c, a, ok)
Others(c) == CheckUpdate(c) \/ UpdateConfig(c) \/ Delete(c) \/ DeleteAdapters(c) \/ Status(c)

Next ==
    \/ \E c \in Calls, m \in Models : \E q \in Requests[c] : Request(c, m, q)
    \/ \E c \in Calls : Register(c) \/ Others(c)
    \/ \E m \in Models : Handle(m) \/ RouterEnds(m)
    \/ Shutdown

\* Every task that can run does, and the other actors answer.
Fairness == /\ \A c \in Calls : WF_vars(Register(c) \/ Others(c))
            /\ \A m \in Models : WF_vars(Handle(m)) /\ WF_vars(RouterEnds(m))
Spec == Init /\ [][Next]_vars /\ Fairness

-----------------------------------------------------------------------------
(* Properties *)

Mail ==
    [of : Calls \cup {None}, what : {"start", "config"}, value : Configs]
    \cup [of : Calls \cup {None}, what : {"adapters", "delete"}, value : SUBSET Adapters]
RouterActor == [alive : BOOLEAN, started : BOOLEAN, config : Configs \cup {None},
                adapters : SUBSET Adapters, inbox : Seq(Mail)]
CallRecord ==
    [kind : {"register", "update", "delete", "delete_adapters", "status", None},
     pc : {"idle", "begin", "store", "adapters", "reply", "created", "started", "checked"},
     model : Models \cup {None}, config : Configs \cup {None},
     adapters : SUBSET Adapters, todo : SUBSET Adapters]

TypeOK ==
    /\ running \in BOOLEAN /\ request_routers \subseteq Models /\ stored \subseteq Models
    /\ registered_models \in [Models -> Configs \cup {None}]
    /\ stored_adapters \in [Models -> SUBSET Adapters]
    /\ router \in [Models -> RouterActor] /\ call \in [Calls -> CallRecord]
    /\ holder \in Calls \cup {None} /\ waiters \in Seq(Calls)

\* The router was told to start.
HasStart(r) == r.started \/ \E i \in DOMAIN r.inbox : r.inbox[i].what = "start"

\* The last config that the router was told is v.
Told(r, v) ==
    LET told == {i \in DOMAIN r.inbox : r.inbox[i].what \in {"start", "config"}}
    IN  /\ told = {} => r.config = v
        /\ \A i \in told : (\A j \in told : j <= i) => r.inbox[i].value = v

\* The router offers, or is told to offer, only what is in s.
Offers(r, s) ==
    /\ r.adapters \subseteq s
    /\ \A i \in DOMAIN r.inbox : r.inbox[i].what = "adapters" => r.inbox[i].value \subseteq s

\* The two tables of the controller agree, and every model in them is at the
\* store and has a living router that was told to start: whatever calls
\* register and delete the model meanwhile, and wherever one of them fails.
RegisteredIsServed ==
    \A m \in Models :
        /\ registered_models[m] # None <=> m \in request_routers
        /\ m \in request_routers =>
              m \in stored /\ router[m].alive /\ HasStart(router[m])

\* Of two registrations of a model at the same time one at most is entered:
\* between the second look and the insertion, which take the lock apart, no
\* other call registers the model.
RegisteredOnce == [][\A c \in Calls : Insert(c) => call[c].model \notin request_routers]_vars

\* What the controller says of a model's auto scaling is what its router has
\* been told last, however updates, deletions and registrations overlap.
ConfigsAgree == \A m \in request_routers : Told(router[m], registered_models[m])

\* A router offers only adapters that the store has registered for its model.
AdaptersAreStored == \A m \in Models : Offers(router[m], stored_adapters[m])

\* A name that is free has nothing left of the actor that had it.
GoneIsGone == \A m \in Models : ~router[m].alive => router[m] = NoActor

\* The controller's tables agree with the routers and the store, although each
\* is told at another time.
TablesAgree == TypeOK /\ GoneIsGone /\ RegisteredIsServed /\ ConfigsAgree /\ AdaptersAreStored

\* Every call returns or raises, although some keep metadata_lock while they
\* wait for the store manager or for a router.
EveryCallReturns == \A c \in Calls : (call[c].pc # "idle") ~> (call[c].pc = "idle")

\* A model that is deleted can be registered again: its router goes, and with
\* it the name, although calls that are under way still refer to it.
NameIsFreed ==
    \A m \in Models :
        (registered_models[m] = None) ~> (~router[m].alive \/ registered_models[m] # None)
=============================================================================
