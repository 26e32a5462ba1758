----------------------------- MODULE CommitHooks -----------------------------
(***************************************************************************)
(* The two chains of src/src/lua_lib/commits.lua: functions with a         *)
(* priority, run from the highest to the lowest after every RPC that       *)
(* libnetconf handled.  A chain is a set: table.sort is not stable, so     *)
(* hooks of equal priority run in any order.                               *)
(***************************************************************************)
EXTENDS Integers

Hook(act, prio) == [act |-> act, prio |-> prio]

(* Faulty: reload first, store afterwards.                                 *)
Mutant_SuccessHooks ==
  {Hook("store_uci", -2), Hook("restart_daemons", -1), Hook("cleanup", -9999)}

(* What cleanup() puts into hooks_success ...                              *)
SuccessHooks ==
  {Hook("store_uci", -1), Hook("restart_daemons", -2), Hook("cleanup", -9999)}

(* Faulty: the rollback is not on the chain.                               *)
Mutant_FailureHooks == {Hook("cleanup", 9999)}

(* ... and into hooks_failure.                                             *)
FailureHooks ==
  {Hook("cleanup", 9999), Hook("rollback_uci", 9998)}

DefaultHooks == [success |-> SuccessHooks, failure |-> FailureHooks]

(* Faulty: the wipe is not hung on the failure chain.                      *)
Mutant_WithInvalidation(hooks) ==
  [hooks EXCEPT !.success = @ \union {Hook("invalidate_cache", 0)}]

(* check_tree_built of views_supervisor.lua hangs the wipe of its cached   *)
(* tree on both chains.                                                    *)
WithInvalidation(hooks) ==
  [success |-> hooks.success \union {Hook("invalidate_cache", 0)},
   failure |-> hooks.failure \union {Hook("invalidate_cache", 0)}]

(* The hooks of a chain that may run next.                                 *)
First(chain) == {h \in chain : \A g \in chain : g.prio <= h.prio}

Acts == {"store_uci", "restart_daemons", "cleanup", "rollback_uci", "invalidate_cache"}

Hooks == [act : Acts, prio : {-9999, -2, -1, 0, 9998, 9999}]
=============================================================================
