---------------------------- MODULE LuaBridgeProofs ----------------------------
(***************************************************************************)
(* Proofs about LuaBridge, for all plugins that keep the contract and all  *)
(* server RPCs: an error that the client gets is the error of a call of    *)
(* its own RPC, and no failure is kept from it.                            *)
(*                                                                         *)
(* BridgeInv is inductive.  ErrorIsCurrent is so with the types alone:     *)
(* last_error is only ever read right after the call that set it, when its *)
(* error has just been pushed.  ReplyTellsOutcome needs FailureIsTold,     *)
(* that between the failure and the reply no step makes the error go.      *)
(***************************************************************************)
EXTENDS LuaBridge, TLAPS

Values == [type : Types, call : Nat]
Replies == [kind : {"none", "ok", "data", "error"}, by : {"server", "lua"}, call : Nat]

BridgeTypes ==
  /\ pc \in {"receive", "dispatch", "lua", "chain", "send", "ended"}
  /\ class \in {"none", "close", "session", "malformed", "unknown-ns", "user", "server"}
  /\ todo \in Seq(Methods)
  /\ stack \in Seq(Values)
  /\ lastError \in BOOLEAN
  /\ reply \in Replies
  /\ calls \in Nat
  /\ failures \subseteq Nat
  /\ pc = "lua" => todo # <<>>

(* A failure of this RPC is in the reply from the moment it happens, and   *)
(* there is a reply once the chain runs.                                   *)
FailureIsTold ==
  /\ failures # {} => IsError(reply)
  /\ pc \in {"chain", "send"} => reply.kind # "none"

BridgeInv == BridgeTypes /\ ErrorIsCurrent /\ FailureIsTold

-----------------------------------------------------------------------------
(* The top of two stacks put together is the top of the upper one.         *)
LEMMA ConcatTop ==
  ASSUME NEW s \in Seq(Values), NEW t \in Seq(Values), t # <<>>
  PROVE  /\ s \o t \in Seq(Values) \ {<<>>}
         /\ StackTop(s \o t) = StackTop(t)
<1>1. Len(t) \in Nat /\ Len(t) > 0 /\ Len(s) \in Nat
  OBVIOUS
<1>2. s \o t \in Seq(Values) /\ Len(s \o t) = Len(s) + Len(t)
  OBVIOUS
<1>3. (s \o t)[Len(s) + Len(t)] = t[Len(t)]
  BY <1>1
<1>4. QED
  BY <1>1, <1>2, <1>3 DEF StackTop

(* What a call leaves on the stack is a sequence of values, and the last   *)
(* of them is of that call.                                                *)
LEMMA ResultsOnTop ==
  ASSUME NEW s \in Seq(Values), NEW o \in Outcomes, NEW n \in Nat, NEW w \in {1, 2}
  PROVE  /\ s \o Results(o, n, w) \in Seq(Values) \ {<<>>}
         /\ StackTop(s \o Results(o, n, w)).call = n
<1> DEFINE below == <<Value("other", n), Value("table", n)>>
           v(type) == Value(type, n)
<1>1. /\ v("string") \in Values /\ v(o.error) \in Values /\ v(o.result) \in Values
      /\ v("other") \in Values /\ v("table") \in Values
      /\ \A type : v(type).call = n
  BY DEF Value, Values, Types, Outcomes
<1>2. below \in Seq(Values)
  BY <1>1
<1> DEFINE rest == IF o.raised THEN <<v("string")>>
                   ELSE IF w = 1 THEN <<v(o.error)>>
                   ELSE <<v(o.result), v(o.error)>>
<1>3. rest \in Seq(Values) /\ rest # <<>> /\ StackTop(rest).call = n
  <2>1. \A x \in Values : x.call = n => /\ <<x>> \in Seq(Values) /\ <<x>> # <<>>
                                      /\ StackTop(<<x>>).call = n
    BY DEF StackTop
  <2>2. \A x, y \in Values : y.call = n => /\ <<x, y>> \in Seq(Values) /\ <<x, y>> # <<>>
                                         /\ StackTop(<<x, y>>).call = n
    BY DEF StackTop
  <2> HIDE DEF v
  <2>3. QED
    BY <1>1, <2>1, <2>2
<1>4. Results(o, n, w) = below \o rest
  BY DEF Results
<1> HIDE DEF below, rest
<1>5. below \o rest \in Seq(Values) \ {<<>>} /\ StackTop(below \o rest).call = n
  BY <1>2, <1>3, ConcatTop
<1>6. QED
  BY <1>4, <1>5, ConcatTop

(* The same for the chain, which has no object and one result.             *)
LEMMA ChainOnTop ==
  ASSUME NEW s \in Seq(Values), NEW v \in Values, NEW w \in Values
  PROVE  /\ s \o <<v, w>> \in Seq(Values)
         /\ StackTop(s \o <<v, w>>) = w
BY DEF StackTop

(* flag_error does not change what is on top.                              *)
LEMMA FlaggedTop ==
  ASSUME NEW s \in Seq(Values), s # <<>>, NEW f \in BOOLEAN
  PROVE  /\ Flagged(s, f) \in Seq(Values)
         /\ StackTop(Flagged(s, f)) = StackTop(s)
<1>1. StackTop(s) \in Values
  BY DEF StackTop
<1>2. QED
  BY <1>1 DEF Flagged, StackTop

-----------------------------------------------------------------------------
(* A call that comes back: its error, if any, gets into the reply.         *)
LEMMA LuaReturnsStep ==
  ASSUME BridgeInv, NEW o \in Outcomes, LuaReturns(o)
  PROVE  BridgeInv'
<1> DEFINE m == Head(todo)
           failed == Failed(o)
           back == stack \o Results(o, calls, ResultCount(m))
           flag == FlagAfter(m, failed)
           error == IF m = "user_rpc" /\ ~failed THEN NoReply
                    ELSE ErrorFromLua(Flagged(back, failed), flag)
<1> USE DEF BridgeInv, BridgeTypes
<1>0. todo # <<>> /\ Tail(todo) \in Seq(Methods)
  BY DEF LuaReturns
<1>1. back \in Seq(Values) /\ StackTop(back).call = calls
  BY ResultsOnTop, ZenonT(60) DEF ResultCount
<1>2. back # <<>>
  BY ResultsOnTop DEF ResultCount
<1>3. failed \in BOOLEAN /\ flag \in BOOLEAN
  BY DEF Failed, FlagAfter, Outcomes
<1>4. Flagged(back, failed) \in Seq(Values) /\ StackTop(Flagged(back, failed)).call = calls
  BY <1>1, <1>2, <1>3, FlaggedTop
<1>5. IsError(error) <=> failed
  BY <1>3 DEF ErrorFromLua, FlagAfter, NoReply, IsError
<1>6. failed => error = [kind |-> "error", by |-> "lua", call |-> calls]
  BY <1>4, <1>5 DEF ErrorFromLua, FlagAfter, NoReply, IsError
<1>7. /\ pc' = "dispatch" /\ stack' = Flagged(back, failed) /\ lastError' = flag
      /\ failures' = IF failed THEN failures \union {calls} ELSE failures
      /\ class' = class /\ calls' = calls
  BY DEF LuaReturns
<1>8. failed => /\ reply' = error \/ (reply' = reply /\ IsError(reply))
                /\ todo' \in {<<>>, Tail(todo)}
  BY <1>5 DEF LuaReturns
<1>9. ~failed => /\ reply' = IF IsError(reply) THEN reply ELSE Answered("data")
                 /\ todo' = Tail(todo)
  BY <1>5 DEF LuaReturns
<1> HIDE DEF m, failed, back, flag, error
<1>10. todo' \in Seq(Methods)
  <2>1. todo' \in {<<>>, Tail(todo)}
    BY <1>3, <1>8, <1>9
  <2>2. <<>> \in Seq(Methods)
    OBVIOUS
  <2>3. QED
    BY ONLY <1>0, <2>1, <2>2
<1>11. reply' \in Replies
  BY <1>3, <1>6, <1>8, <1>9 DEF Replies, Answered
<1>12. BridgeTypes'
  BY <1>3, <1>4, <1>7, <1>10, <1>11
<1>13. ErrorIsCurrent' /\ FailureIsTold'
  BY <1>3, <1>6, <1>7, <1>8, <1>9 DEF ErrorIsCurrent, FailureIsTold, IsError, Answered
<1>14. QED
  BY <1>12, <1>13

(* The same for a chain.                                                   *)
LEMMA ChainReturnsStep ==
  ASSUME BridgeInv, NEW o \in Outcomes, ChainReturns(o)
  PROVE  BridgeInv'
<1> DEFINE failed == Failed(o)
           top == Value(IF o.raised THEN "string" ELSE o.error, calls)
           back == stack \o <<Value("other", calls), top>>
<1> USE DEF BridgeInv, BridgeTypes
<1>1. Value("other", calls) \in Values /\ top \in Values /\ top.call = calls
  BY DEF Value, Values, Types, Outcomes
<1>2. failed \in BOOLEAN
  BY DEF Failed, Outcomes
<1>3. /\ failed => ~IsError(reply)
      /\ stack' = Flagged(back, failed) /\ lastError' = failed
      /\ class' = class /\ todo' = todo
      /\ failed => /\ reply' = ErrorFromLua(stack', TRUE)
                   /\ failures' = failures \union {calls}
                   /\ calls' = calls + 1 /\ pc' = pc
      /\ ~failed => /\ pc' = "send" /\ reply' = reply
                    /\ failures' = failures /\ calls' = calls
  BY DEF ChainReturns
<1>p. pc = "chain"
  BY DEF ChainReturns
<1>v. calls \in Nat /\ stack \in Seq(Values)
  OBVIOUS
<1> HIDE DEF failed, top, BridgeInv, BridgeTypes
<1>4. back \in Seq(Values) /\ back # <<>> /\ StackTop(back) = top
  BY <1>1, <1>v, ChainOnTop
<1> HIDE DEF back
<1>5. stack' \in Seq(Values) /\ StackTop(stack').call = calls
  BY <1>1, <1>2, <1>3, <1>4, FlaggedTop
<1>6. failed => reply' = [kind |-> "error", by |-> "lua", call |-> calls]
  BY <1>3, <1>5 DEF ErrorFromLua
<1>7. lastError' \in BOOLEAN
  BY <1>2, <1>3
<1>8. CASE failed
  <2>1. /\ reply' = [kind |-> "error", by |-> "lua", call |-> calls]
        /\ failures' = failures \union {calls} /\ calls' = calls + 1 /\ pc' = "chain"
        /\ class' = class /\ todo' = todo
    BY <1>3, <1>p, <1>6, <1>8
  <2>2. BridgeTypes'
    BY <1>5, <1>7, <2>1 DEF BridgeInv, BridgeTypes, Replies
  <2>3. QED
    BY <2>1, <2>2 DEF BridgeInv, ErrorIsCurrent, FailureIsTold, IsError
<1>9. CASE ~failed
  <2>1. /\ reply' = reply /\ failures' = failures /\ calls' = calls /\ pc' = "send"
        /\ class' = class /\ todo' = todo
    BY <1>3, <1>9
  <2>2. BridgeTypes'
    BY <1>5, <1>7, <2>1 DEF BridgeInv, BridgeTypes, Replies
  <2>3. QED
    BY <1>p, <2>1, <2>2 DEF BridgeInv, ErrorIsCurrent, FailureIsTold, IsError
<1>10. QED
  BY <1>8, <1>9

-----------------------------------------------------------------------------
(* Every step of a session keeps it.                                       *)
LEMMA BridgeInvStep == BridgeInv /\ [LuaNext]_luaVars => BridgeInv'
<1> SUFFICES ASSUME BridgeInv, [LuaNext]_luaVars
             PROVE  BridgeInv'
  OBVIOUS
<1>1. CASE ReceiveOwn
  BY <1>1 DEF ReceiveOwn, NewRpc, Answered, BridgeInv, BridgeTypes, Replies, ErrorIsCurrent,
              FailureIsTold, IsError
<1>2. CASE ReceiveUser
  <2>1. <<"user_rpc">> \in Seq(Methods)
    BY DEF Methods
  <2>2. QED
    BY <1>2, <2>1 DEF ReceiveUser, NewRpc, NoReply, BridgeInv, BridgeTypes, Replies,
                      ErrorIsCurrent, FailureIsTold, IsError
<1>3. ASSUME NEW methods \in ServerRpcs, ReceiveServer(methods)
      PROVE  BridgeInv'
  <2>1. methods \in Seq(Methods)
    BY CallsAssumption DEF Methods
  <2>2. QED
    BY <1>3, <2>1 DEF ReceiveServer, NewRpc, NoReply, BridgeInv, BridgeTypes, Replies,
                      ErrorIsCurrent, FailureIsTold, IsError
<1>4. CASE Hangup
  BY <1>4 DEF Hangup, BridgeInv, BridgeTypes, ErrorIsCurrent, FailureIsTold, IsError
<1>5. ASSUME NEW m \in Methods, CallLua(m)
      PROVE  BridgeInv'
  BY <1>5 DEF CallLua, BridgeInv, BridgeTypes, ErrorIsCurrent, FailureIsTold, IsError
<1>6. CASE RefuseInC
  BY <1>6 DEF RefuseInC, Answered, BridgeInv, BridgeTypes, Replies, ErrorIsCurrent, FailureIsTold,
              IsError
<1>7. ASSUME NEW o \in Outcomes, LuaReturns(o)
      PROVE  BridgeInv'
  BY <1>7, LuaReturnsStep
<1>8. CASE Dispatched
  BY <1>8 DEF Dispatched, AllAsked, Answered, BridgeInv, BridgeTypes, Replies, ErrorIsCurrent,
              FailureIsTold, IsError
<1>9. ASSUME NEW o \in Outcomes, ChainReturns(o)
      PROVE  BridgeInv'
  BY <1>9, ChainReturnsStep
<1>10. CASE Send
  BY <1>10 DEF Send, NoReply, BridgeInv, BridgeTypes, Replies, ErrorIsCurrent, FailureIsTold,
               IsError
<1>11. CASE UNCHANGED luaVars
  BY <1>11 DEF luaVars, BridgeInv, BridgeTypes, ErrorIsCurrent, FailureIsTold, IsError
<1>12. QED
  BY <1>1, <1>2, <1>3, <1>4, <1>5, <1>6, <1>7, <1>8, <1>9, <1>10, <1>11 DEF LuaNext

(* It holds when the session begins.                                       *)
LEMMA BridgeInvInit == LuaInit => BridgeInv
<1> SUFFICES ASSUME LuaInit
             PROVE  BridgeInv
  OBVIOUS
<1>1. reply \in Replies /\ ~IsError(reply)
  BY DEF LuaInit, NoReply, Replies, IsError
<1>2. todo \in Seq(Methods) /\ stack \in Seq(Values)
  BY DEF LuaInit
<1>3. BridgeTypes
  BY <1>1, <1>2 DEF LuaInit, BridgeTypes
<1>4. QED
  BY <1>1, <1>3 DEF LuaInit, BridgeInv, ErrorIsCurrent, FailureIsTold

(* So it holds in every session.                                           *)
LEMMA BridgeInvAlways == LuaInit /\ [][LuaNext]_luaVars => []BridgeInv
BY BridgeInvInit, BridgeInvStep, PTL

(* An error from Lua that a client gets was raised or returned by a call   *)
(* of the RPC it sent, whatever the plugins answer and however often.      *)
THEOREM ErrorIsCurrentAlways == LuaSpec => []ErrorIsCurrent
<1>1. BridgeInv => ErrorIsCurrent
  BY DEF BridgeInv
<1>2. QED
  BY <1>1, BridgeInvAlways, PTL DEF LuaSpec

(* Once the reply goes out it is there, it is an error if any call of the  *)
(* RPC failed, and an error of a plugin only if one did.                   *)
THEOREM ReplyTellsOutcomeAlways == LuaSpec => []ReplyTellsOutcome
<1>1. BridgeInv => ReplyTellsOutcome
  BY DEF BridgeInv, ErrorIsCurrent, FailureIsTold, ReplyTellsOutcome
<1>2. QED
  BY <1>1, BridgeInvAlways, PTL DEF LuaSpec
=============================================================================
