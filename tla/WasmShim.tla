------------------------------ MODULE WasmShim ------------------------------
(***************************************************************************)
(* The lifecycle of the wasm backend (src/ph_wasm.c): ph_init binds the    *)
(* host's descriptor, every call of the API goes to the posthog-js client  *)
(* it names, and ph_shutdown unbinds it.  There is one thread, but the     *)
(* application's before_send and on_log callbacks run inside a call and    *)
(* may call the API again, ph_shutdown and ph_init included; `stack` holds *)
(* the calls in progress, the innermost first.                             *)
(*                                                                         *)
(* A session is a ph_init that succeeded.  Of the properties the model     *)
(* keeps the sessions whose ph_register gave them; EventShape has the      *)
(* rest.                                                                   *)
(***************************************************************************)
EXTENDS Integers, Sequences

CONSTANTS MaxSessions,  \* bound: successful ph_init calls
          MaxDepth      \* bound: calls in progress at once

ASSUME ShimAssumption == MaxSessions \in Nat /\ MaxDepth \in Nat

VARIABLES sessions,     \* sessions so far
          session,      \* the one in force, 0 between ph_shutdown and ph_init
          enabled,      \* g_enabled, and g_identity_ok
          hook, logger, \* whether g_before_send and g_on_log are set
          superOf,      \* the sessions of the properties in g_super
          bound,        \* the session that bound __posthog_c_bound_v1, or 0
          stack,        \* calls in progress
          handed        \* the bridge calls made: for which session, to which host

shimVars == <<sessions, session, enabled, hook, logger, superOf, bound, stack, handed>>
Settings == <<session, enabled, hook, logger, superOf, bound>>

(* Calls that scrub properties, those that go straight to the client, and  *)
(* of the former those that carry the super properties.                    *)
Scrubbing == {"capture", "identify", "alias", "group", "exception"}
Direct == {"get_distinct_id", "reset", "is_feature_enabled", "get_feature_flag",
           "get_feature_flag_payload", "reload_feature_flags"}

ShimInit ==
  /\ sessions = 0 /\ session = 0
  /\ enabled = FALSE /\ hook = FALSE /\ logger = FALSE
  /\ superOf = {} /\ bound = 0
  /\ stack = <<>> /\ handed = {}

Running == stack # <<>> => Head(stack).at \in {"hook", "log"}  \* the application runs
InCallback == stack # <<>>                                    \* g_in_callback > 0
Replace(frame) == [stack EXCEPT ![1] = frame]

(* ph__wasm_js_validate_host, where it accepts the host's descriptor: none *)
(* may be bound already.                                                   *)
BindHost(s) == bound = 0 /\ bound' = s

(* ph_init: a refused configuration or host leaves everything as it was.   *)
ShimStart ==
  /\ Running /\ session = 0 /\ sessions < MaxSessions
  /\ sessions' = sessions + 1 /\ session' = sessions'
  /\ enabled' \in BOOLEAN /\ hook' \in BOOLEAN /\ logger' \in BOOLEAN
  /\ IF enabled' THEN BindHost(session') ELSE UNCHANGED bound
  /\ superOf' = {}
  /\ UNCHANGED <<stack, handed>>

\* Mutant: ph_shutdown does not ask whether a callback is running.
StopAnyTime ==
  /\ Running
  /\ session' = 0 /\ enabled' = FALSE /\ hook' = FALSE /\ logger' = FALSE
  /\ superOf' = {} /\ bound' = 0
  /\ UNCHANGED <<sessions, stack, handed>>

(* ph_shutdown                                                             *)
ShimStop ==
  /\ Running /\ ~InCallback
  /\ session' = 0 /\ enabled' = FALSE /\ hook' = FALSE /\ logger' = FALSE
  /\ superOf' = {} /\ bound' = 0
  /\ UNCHANGED <<sessions, stack, handed>>

(* ph_register, ph_unregister                                              *)
ShimRegister ==
  /\ Running /\ enabled
  /\ superOf' \in {superOf \cup {session}, superOf \ {session}}
  /\ UNCHANGED <<sessions, session, enabled, hook, logger, bound, stack, handed>>

(* Every other call: the properties are merged at once (scrub_props,       *)
(* prepare_exception_props), then before_send runs if there is one.        *)
ShimCall ==
  /\ Running /\ enabled /\ Len(stack) < MaxDepth
  /\ \E op \in Scrubbing \cup Direct :
       LET carries == IF op \in {"capture", "exception"} THEN superOf ELSE {}
       IN stack' = <<[op |-> op, session |-> session, props |-> carries,
                      at |-> IF op \in Scrubbing /\ hook THEN "hook" ELSE "bridge"]>>
                   \o stack
  /\ UNCHANGED <<sessions, Settings, handed>>

(* before_send returns: the call ends if it vetoes (or leaves ph_alias no  *)
(* alias), and else the properties are serialized.                         *)
HookReturns ==
  /\ stack # <<>> /\ Head(stack).at = "hook"
  /\ \/ stack' = Tail(stack)
     \/ stack' = Replace([Head(stack) EXCEPT !.at = "bridge"])
  /\ UNCHANGED <<sessions, Settings, handed>>

Complain == IF logger THEN Replace([Head(stack) EXCEPT !.at = "log"]) ELSE Tail(stack)

(* props_to_json fails: the host is not called (wasm_log).                 *)
SerializeFails ==
  /\ stack # <<>> /\ Head(stack).at = "bridge" /\ Head(stack).op \in Scrubbing \ {"alias"}
  /\ stack' = Complain
  /\ UNCHANGED <<sessions, Settings, handed>>

(* The bridge function runs against the descriptor that is bound; the host *)
(* may throw.  ph_reset clears g_super first.                              *)
Bridge ==
  /\ stack # <<>> /\ Head(stack).at = "bridge"
  /\ handed' = handed \cup {[session |-> Head(stack).session, props |-> Head(stack).props,
                             host |-> bound]}
  /\ superOf' = IF Head(stack).op = "reset" THEN {} ELSE superOf
  /\ \/ stack' = Tail(stack)
     \/ stack' = Complain
  /\ UNCHANGED <<sessions, session, enabled, hook, logger, bound>>

(* on_log returns, and the call with it.                                   *)
LogReturns ==
  /\ stack # <<>> /\ Head(stack).at = "log"
  /\ stack' = Tail(stack)
  /\ UNCHANGED <<sessions, Settings, handed>>

ShimNext ==
  \/ ShimStart \/ ShimStop \/ ShimRegister \/ ShimCall
  \/ HookReturns \/ SerializeFails \/ Bridge \/ LogReturns

ShimSpec == ShimInit /\ [][ShimNext]_shimVars
-----------------------------------------------------------------------------
(* The types; and a descriptor is bound exactly while an enabled session   *)
(* is in force, so that ph_init never finds one left behind and refuses    *)
(* (ph__wasm_js_validate_host, ph_shutdown).                               *)
ShimTypeOK ==
  /\ sessions \in 0 .. MaxSessions /\ session \in 0 .. sessions
  /\ enabled \in BOOLEAN /\ hook \in BOOLEAN /\ logger \in BOOLEAN
  /\ superOf \subseteq {session} /\ Len(stack) <= MaxDepth
  /\ bound = IF enabled THEN session ELSE 0

(* What is handed to a host belongs to its session: the call began, was    *)
(* merged and scrubbed under the configuration that bound this very        *)
(* client, even though before_send and on_log may call the API in between. *)
HandedInSession ==
  \A c \in handed : c.host = c.session /\ c.host # 0 /\ c.props \subseteq {c.host}
=============================================================================
