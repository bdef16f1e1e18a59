---------------------------- MODULE SuiteRouting ----------------------------
(* How the suite keeps Pub/Sub, the scheduler and Cloud Tasks in step with   *)
(* the functions that are loaded (suite-runtime/lib.rs, run and              *)
(* follow_functions_inventory), and how the hub's switches for background    *)
(* triggers reach the Functions runtime (suite-front/lib.rs).                *)
(*                                                                           *)
(* An inventory is its generation: a reload of a codebase registers the next *)
(* one and then announces it on a watch channel, whose receiver only learns  *)
(* that something changed since it last looked.                              *)
EXTENDS Integers, Sequences

CONSTANTS
  Handlers,    \* requests to the hub, by slot
  MaxReloads   \* bound: reloads, and switches that were applied

VARIABLES
  functions,  \* the Functions runtime: its inventory, announcements, switch
  follower,   \* the locals of run and of follow_functions_inventory
  routes,     \* the generation Pub/Sub, the scheduler and Tasks route by
  triggers,   \* TriggerRegistry: are background triggers enabled
  switches,   \* the channel from the hub to the follower
  handlers,   \* the hub's requests
  missed,     \* a reload was announced before anyone listened
  overlapped  \* two switches were under way at once

vars == <<functions, follower, routes, triggers, switches, handlers, missed, overlapped>>

Routers == {"pubsub", "scheduler", "tasks"}

Init ==
  /\ functions = [generation |-> 1, loading |-> FALSE, updates |-> 0, enabled |-> TRUE]
  /\ follower = [pc |-> "verify", seen |-> 0, inventory |-> 0]
  /\ routes = [r \in Routers |-> 0]
  /\ triggers = TRUE /\ switches = <<>>
  /\ handlers = [h \in Handlers |-> [pc |-> "free", enabled |-> TRUE]]
  /\ missed = FALSE /\ overlapped = FALSE

-----------------------------------------------------------------------------
(* The Functions runtime.                                                    *)

\* reload_backend: load_backend registers what it discovered ...
load_backend ==
  /\ functions.generation <= MaxReloads /\ ~functions.loading
  /\ functions' = [functions EXCEPT !.generation = @ + 1, !.loading = TRUE]
  /\ UNCHANGED <<follower, routes, triggers, switches, handlers, missed, overlapped>>

\* ... and then it is announced.
reload_backend ==
  /\ functions.loading
  /\ functions' = [functions EXCEPT !.loading = FALSE, !.updates = @ + 1]
  /\ missed' = (missed \/ follower.pc = "spawn")
  /\ UNCHANGED <<follower, routes, triggers, switches, handlers, overlapped>>

-----------------------------------------------------------------------------
(* run, and the loop that follows the inventory.                             *)

\* verify_functions_readiness reads the inventory at start, and Tasks,
\* Pub/Sub and the scheduler are made from it.
verify_functions_readiness ==
  /\ follower.pc = "verify"
  /\ follower' = [follower EXCEPT !.pc = "spawn", !.inventory = functions.generation]
  /\ missed' = functions.loading
  /\ UNCHANGED <<functions, routes, triggers, switches, handlers, overlapped>>

spawn ==
  /\ follower.pc = "spawn"
  /\ routes' = [r \in Routers |-> follower.inventory]
  /\ follower' = [follower EXCEPT !.pc = "wait", !.seen = functions.updates]
  /\ missed' = (missed \/ functions.generation /= follower.inventory)
  /\ UNCHANGED <<functions, triggers, switches, handlers, overlapped>>

\* An announcement, however many it stands for.
changed ==
  /\ follower.pc = "wait" /\ follower.seen /= functions.updates
  /\ follower' = [follower EXCEPT !.pc = "read", !.seen = functions.updates]
  /\ UNCHANGED <<functions, routes, triggers, switches, handlers, missed, overlapped>>

\* The inventory as it is now; one that cannot be read ends the suite.
inventory ==
  /\ follower.pc = "read"
  /\ \/ follower' = [follower EXCEPT !.pc = "stop", !.inventory = functions.generation]
     \/ follower' = [follower EXCEPT !.pc = "failed"]
  /\ UNCHANGED <<functions, routes, triggers, switches, handlers, missed, overlapped>>

\* refresh_inventory of Pub/Sub stops the scheduler and waits for its tasks,
\* then routes by the new inventory and starts a scheduler from it; then
\* Tasks is refreshed.
stop_scheduler ==
  /\ follower.pc = "stop"
  /\ routes' = [routes EXCEPT !["scheduler"] = 0]
  /\ follower' = [follower EXCEPT !.pc = "refresh"]
  /\ UNCHANGED <<functions, triggers, switches, handlers, missed, overlapped>>

(* Mutant: a refresh leaves the scheduler stopped. *)
MutRefresh ==
  /\ follower.pc = "refresh"
  /\ routes' = [routes EXCEPT !["pubsub"] = follower.inventory, !["tasks"] = follower.inventory]
  /\ follower' = [follower EXCEPT !.pc = "wait"]
  /\ UNCHANGED <<functions, triggers, switches, handlers, missed, overlapped>>

refresh_inventory ==
  /\ follower.pc = "refresh"
  /\ routes' = [r \in Routers |-> follower.inventory]
  /\ follower' = [follower EXCEPT !.pc = "wait"]
  /\ UNCHANGED <<functions, triggers, switches, handlers, missed, overlapped>>

\* A switch is taken from the channel and applied: the runtime changes its
\* registrations, then the flag, and announces it.
set_background_enabled ==
  LET enabled == Head(switches).enabled
      h == Head(switches).handler
  IN /\ follower.pc = "wait" /\ switches /= <<>>
     /\ functions.updates < 2 * MaxReloads
     /\ functions' = [functions EXCEPT !.enabled = enabled, !.updates = @ + 1]
     /\ triggers' = enabled
     /\ switches' = Tail(switches)
     /\ handlers' = IF handlers[h].pc = "wait" THEN [handlers EXCEPT ![h].pc = "free"]
                    ELSE handlers
     /\ UNCHANGED <<follower, routes, missed, overlapped>>

-----------------------------------------------------------------------------
(* The hub.                                                                  *)

\* disable_background and enable_background: the flag first ...
switch(h, enabled) ==
  /\ handlers[h].pc = "free" /\ \A i \in DOMAIN switches : switches[i].handler /= h
  /\ functions.updates < 2 * MaxReloads
  /\ handlers' = [handlers EXCEPT ![h] = [pc |-> "send", enabled |-> enabled]]
  /\ triggers' = enabled
  /\ overlapped' = (overlapped \/ switches /= <<>> \/ \E g \in Handlers : handlers[g].pc /= "free")
  /\ UNCHANGED <<functions, follower, routes, switches, missed>>

\* ... then the request to the follower.
forward_background(h) ==
  /\ handlers[h].pc = "send"
  /\ handlers' = [handlers EXCEPT ![h].pc = "wait"]
  /\ switches' = Append(switches, [enabled |-> handlers[h].enabled, handler |-> h])
  /\ UNCHANGED <<functions, follower, routes, triggers, missed, overlapped>>

\* Thirty seconds: the caller is answered all the same.
TimeOut(h) ==
  /\ handlers[h].pc = "wait"
  /\ handlers' = [handlers EXCEPT ![h].pc = "free"]
  /\ UNCHANGED <<functions, follower, routes, triggers, switches, missed, overlapped>>

Next ==
  \/ load_backend \/ reload_backend
  \/ verify_functions_readiness \/ spawn \/ changed \/ inventory \/ stop_scheduler
  \/ refresh_inventory \/ set_background_enabled
  \/ \E h \in Handlers :
       \/ \E enabled \in BOOLEAN : switch(h, enabled)
       \/ forward_background(h) \/ TimeOut(h)

Spec == Init /\ [][Next]_vars

-----------------------------------------------------------------------------

(* When the follower has nothing left to act on, Pub/Sub, the scheduler and  *)
(* Tasks all route by the functions that are loaded, however reloads and     *)
(* refreshes overlapped; and the hub's flag and the runtime's switch agree.  *)
(* Excepted are a reload between the read at start and the subscription,     *)
(* which nobody announces again, and switches that overlap.                  *)
RoutingFollowed ==
  follower.pc = "wait" /\ follower.seen = functions.updates /\ ~functions.loading =>
    /\ missed \/ \A r \in Routers : routes[r] = functions.generation
    /\ \/ overlapped \/ switches /= <<>> \/ \E h \in Handlers : handlers[h].pc /= "free"
       \/ triggers = functions.enabled
=============================================================================
