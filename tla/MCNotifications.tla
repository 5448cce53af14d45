--------------------------- MODULE MCNotifications ---------------------------
(* Notifications on small instances. *)
EXTENDS Notifications, TLC

CONSTANTS e1, e2, k1, a1, a2

An(ruleSet, severity, destinations) ==
  [key |-> k1, notify |-> TRUE, severity |-> severity, ruleSet |-> ruleSet,
   matched |-> {}, destinations |-> destinations]

\* One alert for two chats, and one the rules of its task do not route.
TwoChats ==
  (e1 :> An("default", "error", {<<"telegram", "default">>, <<"telegram", "other">>}))
  @@ (e2 :> An("errors_only", "info", {}))

\* Two alerts with one key, both for the default chat.
SameKey == (e1 :> An("default", "error", {})) @@ (e2 :> An("all", "info", {}))
=============================================================================
