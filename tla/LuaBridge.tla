------------------------------- MODULE LuaBridge -------------------------------
(***************************************************************************)
(* Between libnetconf and the plugins: the session loop of communication.c,*)
(* the callbacks of nuci_datastore.c that call a plugin, and the calls and *)
(* the error bridge of interpreter.c.                                      *)
(*                                                                         *)
(* A failed call leaves its error on top of the Lua stack, twice, and sets *)
(* last_error; who asks for the error later takes whatever is on top then. *)
(* Nothing is ever popped; of the stack, we have what this RPC has put     *)
(* there, and a value is known by its type and the call that left it.      *)
(* What a plugin answers is any answer its contract in datastore.lua       *)
(* allows, or a Lua error.                                                 *)
(* libnetconf (external) decides which plugins a server RPC asks, and      *)
(* whether it goes on after an error.                                      *)
(***************************************************************************)
EXTENDS Naturals, Sequences

CONSTANT ServerRpcs    \* the plugin methods that the server RPCs call, in order

Methods == {"get", "get_config", "set_config", "user_rpc"}
Types == {"nil", "string", "table", "other"}

ASSUME CallsAssumption == ServerRpcs \subseteq Seq({"get", "get_config", "set_config"})

VARIABLES
  pc,         \* where comm_start_loop is
  class,      \* the class of the RPC
  todo,       \* methods still to call for it
  stack,      \* the Lua stack
  lastError,  \* last_error
  reply,      \* communication.reply
  calls,      \* history: calls into Lua for this RPC
  failures    \* history: the ones of them that failed

luaVars == <<pc, class, todo, stack, lastError, reply, calls, failures>>

Value(type, call) == [type |-> type, call |-> call]
NoReply == [kind |-> "none", by |-> "server", call |-> 0]
Answered(kind) == [kind |-> kind, by |-> "server", call |-> 0]
IsError(r) == r.kind = "error"

(* What a call may come back with: a Lua error, or result and error.       *)
Outcomes == [raised : {TRUE}, result : {"nil"}, error : {"string"}] \union
            [raised : {FALSE}, result : {"nil", "string", "table"}, error : {"nil", "string", "table"}]
Failed(o) == o.raised \/ o.error # "nil"

(* What the methods promise: get and get_config a string or an error.      *)
Contract(m, o) == Failed(o) \/ m \in {"set_config", "user_rpc"} \/ o.result = "string"

StackTop(s) == s[Len(s)]

-----------------------------------------------------------------------------
(* The error bridge.                                                       *)

(* lua_pcall: the error function and the object stay below the results,    *)
(* or below the message of a Lua error.                                    *)
Results(o, n, wanted) ==
  LET below == <<Value("other", n), Value("table", n)>> IN
  IF o.raised THEN below \o <<Value("string", n)>>
  ELSE IF wanted = 1 THEN below \o <<Value(o.error, n)>>
  ELSE below \o <<Value(o.result, n), Value(o.error, n)>>

(* set_config is called for one result, the others for two.                *)
ResultCount(m) == IF m = "set_config" THEN 1 ELSE 2

(* flag_error: the error, which is on top, is put there once more.         *)
Flagged(s, failed) == IF failed THEN Append(s, StackTop(s)) ELSE s

(* nc_err_create_from_lua: what is on top, if an error is flagged.         *)
ErrorFromLua(s, flag) ==
  IF flag THEN [kind |-> "error", by |-> "lua", call |-> StackTop(s).call] ELSE NoReply

(* Faulty: only a failure changes the flag.                                *)
Mutant_FlagAfter(m, failed) == lastError \/ failed

(* last_error after a call: a user RPC that succeeds leaves it as it was.  *)
FlagAfter(m, failed) == IF m = "user_rpc" /\ ~failed THEN lastError ELSE failed

-----------------------------------------------------------------------------
LuaInit ==
  /\ pc = "receive" /\ class = "none" /\ todo = <<>>
  /\ stack = <<>> /\ lastError = FALSE
  /\ reply = NoReply /\ calls = 0 /\ failures = {}

NewRpc(c, methods) ==
  /\ pc = "receive"
  /\ class' = c
  /\ todo' = methods
  /\ stack' = <<>>
  /\ calls' = 0
  /\ failures' = {}
  /\ UNCHANGED lastError

(* RPCs the loop answers itself: close-session (ok), other session RPCs, a *)
(* message it can not read and a user RPC nobody registered (errors).      *)
ReceiveOwn ==
  \E c \in {"close", "session", "malformed", "unknown-ns"} :
    /\ NewRpc(c, <<>>)
    /\ reply' = Answered(IF c = "close" THEN "ok" ELSE "error")
    /\ pc' = "send"

ReceiveUser ==
  /\ NewRpc("user", <<"user_rpc">>)
  /\ reply' = NoReply
  /\ pc' = "dispatch"

(* A server RPC goes to libnetconf.                                        *)
ReceiveServer(methods) ==
  /\ NewRpc("server", methods)
  /\ reply' = NoReply
  /\ pc' = "dispatch"

(* The session is closed by the other side.                                *)
Hangup ==
  /\ pc = "receive"
  /\ pc' = "ended"
  /\ UNCHANGED <<class, todo, stack, lastError, reply, calls, failures>>

-----------------------------------------------------------------------------
(* The next plugin is called.                                              *)
CallLua(m) ==
  /\ pc = "dispatch"
  /\ todo # <<>> /\ Head(todo) = m
  /\ pc' = "lua"
  /\ calls' = calls + 1
  /\ UNCHANGED <<class, todo, stack, lastError, reply, failures>>

(* A callback refuses without a call: not the running datastore, or locked *)
(* by another session; libnetconf refuses what no datastore knows, and     *)
(* copy-config and delete-config are not supported.                        *)
RefuseInC ==
  /\ pc = "dispatch" /\ class = "server" /\ ~IsError(reply)
  /\ reply' = Answered("error")
  /\ todo' = <<>>
  /\ UNCHANGED <<pc, class, stack, lastError, calls, failures>>

(* The call comes back and C takes its result.  Of several errors          *)
(* libnetconf keeps one.                                                   *)
LuaReturns(o) ==
  LET m == Head(todo)
      failed == Failed(o)
      back == stack \o Results(o, calls, ResultCount(m))
      flag == FlagAfter(m, failed)
      error == IF m = "user_rpc" /\ ~failed THEN NoReply ELSE ErrorFromLua(Flagged(back, failed), flag)
  IN
  /\ pc = "lua" /\ Contract(m, o)
  /\ pc' = "dispatch"
  /\ stack' = Flagged(back, failed)
  /\ lastError' = flag
  /\ failures' = IF failed THEN failures \union {calls} ELSE failures
  /\ IF IsError(error)
     THEN /\ reply' \in {error} \union {r \in {reply} : IsError(r)}
          /\ todo' \in {<<>>, Tail(todo)}
     ELSE /\ reply' = IF IsError(reply) THEN reply ELSE Answered("data")
          /\ todo' = Tail(todo)
  /\ UNCHANGED <<class, calls>>

(* Faulty: the chain runs as if libnetconf had been content.               *)
Mutant_AllAsked(r) == IF class = "server" THEN Answered("ok") ELSE r

(* The reply once every plugin was asked: ok if none had data.             *)
AllAsked(r) == IF r.kind = "none" THEN Answered("ok") ELSE r

(* A user RPC is answered at once.  After a server RPC the chain runs, for *)
(* success or, after an error, for failure.                                *)
Dispatched ==
  /\ pc = "dispatch" /\ todo = <<>>
  /\ reply' = AllAsked(reply)
  /\ IF class = "user" THEN pc' = "send" /\ UNCHANGED calls
     ELSE pc' = "chain" /\ calls' = calls + 1
  /\ UNCHANGED <<class, todo, stack, lastError, failures>>

(* interpreter_commit: a commit that fails makes an error of the reply and *)
(* a rollback follows.  The failure hooks that the repository installs can *)
(* not fail (die is not reached).                                          *)
ChainReturns(o) ==
  LET failed == Failed(o)
      back == stack \o <<Value("other", calls), Value(IF o.raised THEN "string" ELSE o.error, calls)>>
  IN
  /\ pc = "chain"
  /\ failed => ~IsError(reply)
  /\ stack' = Flagged(back, failed)
  /\ lastError' = failed
  /\ IF failed
     THEN /\ reply' = ErrorFromLua(stack', TRUE)
          /\ failures' = failures \union {calls}
          /\ calls' = calls + 1
          /\ UNCHANGED pc
     ELSE pc' = "send" /\ UNCHANGED <<reply, failures, calls>>
  /\ UNCHANGED <<class, todo>>

(* comm_send_reply; the loop ends if it fails, or after close-session.     *)
Send ==
  /\ pc = "send"
  /\ pc' \in (IF class = "close" THEN {"ended"} ELSE {"receive", "ended"})
  /\ reply' = NoReply
  /\ class' = "none" /\ calls' = 0 /\ failures' = {}
  /\ UNCHANGED <<todo, stack, lastError>>

LuaNext ==
  \/ ReceiveOwn \/ ReceiveUser \/ Hangup \/ RefuseInC \/ Dispatched \/ Send
  \/ \E methods \in ServerRpcs : ReceiveServer(methods)
  \/ \E m \in Methods : CallLua(m)
  \/ \E o \in Outcomes : LuaReturns(o) \/ ChainReturns(o)

(* The calls into Lua return, and the process does not stop.               *)
LuaFairness ==
  /\ WF_luaVars(RefuseInC \/ Dispatched \/ Send \/ \E m \in Methods : CallLua(m))
  /\ WF_luaVars(\E o \in Outcomes : LuaReturns(o) \/ ChainReturns(o))

LuaSpec == LuaInit /\ [][LuaNext]_luaVars /\ LuaFairness

-----------------------------------------------------------------------------
(* The properties.                                                         *)

(* An error from Lua in a reply is the error of a call of this RPC that    *)
(* failed, never a result or something left by another call: last_error is *)
(* set only with that error on top of the stack, and cleared before the    *)
(* stack is read again.                                                    *)
ErrorIsCurrent == (IsError(reply) /\ reply.by = "lua") => reply.call \in failures

(* The client is told of an error if a plugin or a chain failed, and only  *)
(* if one did or the server itself refused.                                *)
ReplyTellsOutcome ==
  pc = "send" => /\ reply.kind # "none"
                 /\ failures # {} => IsError(reply)
                 /\ (IsError(reply) /\ reply.by = "lua") => failures # {}
=============================================================================
