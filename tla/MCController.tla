---------------------------- MODULE MCController ----------------------------
(* Calls for one model, whose lock and name they compete for: it is        *)
(* deployed with either of two configs, one of them with an adapter.  A    *)
(* third call updates or deletes it.                                       *)
EXTENDS Controller

CONSTANTS k1, k2, a1, c1, c2, c3
Ask(kind, config, adapters) == [kind |-> kind, config |-> config, adapters |-> adapters]
MCAsked ==
    {Ask("register", k1, {}), Ask("register", k2, {a1}), Ask("update", k1, {}),
     Ask("delete", None, {}), Ask("delete_adapters", None, {a1}), Ask("status", None, {})}
MCRequests ==
    [c \in Calls |-> IF c = c3 THEN {Ask("update", k2, {}), Ask("delete", None, {})}
                     ELSE MCAsked]
=============================================================================
