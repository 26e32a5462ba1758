--------------------------- MODULE PluginSessionProofs ---------------------------
(***************************************************************************)
(* Proofs about PluginSession, for any commands, any configuration, any    *)
(* server RPCs and a collector that runs when it likes.                    *)
(*                                                                         *)
(* The session implements the bridge, so what LuaBridgeProofs proves of    *)
(* the bridge holds of it.                                                 *)
(* The enters and leaves of an edit pair up, and what it changes is        *)
(* scheduled for commit; both rest on an invariant that relates the        *)
(* operations to the calls of editconfig() in work, and the second on      *)
(* where in the two documents these calls are.                             *)
(* What get prints of the tables is their tree, in document order, because *)
(* the nodes built so far are always that of a part of the tables closed   *)
(* under predecessors; so the node that the next one hangs from is there.  *)
(* Every document of the heap is a tree at every step, whatever editconfig *)
(* deletes of its command and whatever facts its template produces.        *)
(***************************************************************************)
EXTENDS PluginSession, LuaBridgeProofs, SequenceTheorems, FiniteSetTheorems,
  WellFoundedInduction

(* What set_config answers is an answer of the contract.                   *)
LEMMA EditAnswers ==
  ASSUME NEW tag
  PROVE  EditAnswer(tag) \in Outcomes
BY DEF EditAnswer, Outcomes

(* A step of the session is a step of the bridge or none of its steps.     *)
LEMMA SessionStep == Next => [LuaNext]_luaVars
<1> SUFFICES ASSUME Next
             PROVE  LuaNext \/ UNCHANGED luaVars
  BY DEF luaVars
<1>1. CASE Loop
  BY <1>1 DEF Loop, LuaNext
<1>2. CASE Chain
  BY <1>2 DEF Chain, LuaNext
<1>3. CASE Finish
  BY <1>3 DEF Finish, LuaNext
<1>4. CASE Gc
  BY <1>4 DEF Gc
<1>5. CASE BeginGet \/ BeginSetConfig \/ CallOther
  BY <1>5 DEF BeginGet, BeginSetConfig, CallOther, LuaNext, Methods
<1>6. CASE GetReturns \/ SetConfigReturns \/ OtherReturns
  BY <1>6, EditAnswers DEF GetReturns, SetConfigReturns, OtherReturns, LuaNext
<1>7. CASE BuildNode \/ ScanStep \/ EditConfigOpsReturns \/ ApplyStep
  BY <1>7 DEF BuildNode, ScanStep, EditConfigOpsReturns, ApplyStep
<1>8. QED
  BY <1>1, <1>2, <1>3, <1>4, <1>5, <1>6, <1>7 DEF Next, InsidePlugin

(* A session with its plugins is a session of the bridge alone: inside a   *)
(* plugin the stack and the flag stay as they are, and it comes back with  *)
(* an answer that the bridge knows.                                        *)
THEOREM SessionRefinesBridge == Spec => RefinesLuaBridge
<1>1. Init => LuaInit
  BY DEF Init
<1>2. [Next]_allVars => [LuaNext]_luaVars
  BY SessionStep DEF allVars
<1>3. QED
  BY <1>1, <1>2, PTL DEF Spec, RefinesLuaBridge

(* So its bridge is always in order.                                       *)
LEMMA SessionBridge == Spec => []BridgeInv
BY SessionRefinesBridge, BridgeInvAlways, PTL DEF RefinesLuaBridge

(* An error of a plugin in a reply is that of a call for this RPC, and the *)
(* client is told if one failed, when the plugins do what uci-raw and the  *)
(* views supervisor do.                                                    *)
THEOREM SessionErrors == Spec => [](ErrorIsCurrent /\ ReplyTellsOutcome)
<1>1. BridgeInv => ErrorIsCurrent /\ ReplyTellsOutcome
  BY DEF BridgeInv, ErrorIsCurrent, FailureIsTold, ReplyTellsOutcome
<1>2. QED
  BY <1>1, SessionBridge, PTL
-----------------------------------------------------------------------------
(* Sequences of whatever they are of: what the steps do to the calls in    *)
(* work, the operations and the handles.                                   *)
IsSeq(s) == s \in Seq({s[i] : i \in 1..Len(s)})

(* The empty sequence.                                                     *)
LEMMA EmptyFacts == IsSeq(<<>>) /\ Len(<<>>) = 0
BY DEF IsSeq

(* Its length is a number, 0 only for the empty one.                       *)
LEMMA SeqFacts ==
  ASSUME NEW s, IsSeq(s)
  PROVE  Len(s) \in Nat /\ (s = <<>> <=> Len(s) = 0)
BY DEF IsSeq

(* What Append keeps, and what it adds.                                    *)
LEMMA AppendFacts ==
  ASSUME NEW s, IsSeq(s), NEW x
  PROVE  /\ IsSeq(Append(s, x)) /\ Len(Append(s, x)) = Len(s) + 1
         /\ Append(s, x)[Len(s) + 1] = x
         /\ \A i \in 1..Len(s) : Append(s, x)[i] = s[i]
<1> DEFINE T == {s[i] : i \in 1..Len(s)} \union {x}
           t == Append(s, x)
<1>1. s \in Seq(T) /\ x \in T
  BY DEF IsSeq
<1> HIDE DEF T
<1>2. /\ t \in Seq(T) /\ Len(t) = Len(s) + 1 /\ Len(s) \in Nat
      /\ t[Len(s) + 1] = x /\ \A i \in 1..Len(s) : t[i] = s[i]
  BY <1>1
<1> HIDE DEF t
<1>3. t \in [1..Len(t) -> {t[i] : i \in 1..Len(t)}] /\ Len(t) \in Nat
  BY <1>2
<1>4. IsSeq(t)
  BY <1>3, SMTT(30) DEF IsSeq
<1>5. QED
  BY <1>2, <1>4 DEF t

(* What Front and Last give of a sequence that is not empty.               *)
LEMMA FrontFacts ==
  ASSUME NEW s, IsSeq(s), s # <<>>
  PROVE  /\ IsSeq(Front(s)) /\ Len(Front(s)) = Len(s) - 1
         /\ \A i \in 1..(Len(s) - 1) : Front(s)[i] = s[i]
         /\ Last(s) = s[Len(s)] /\ Len(s) \in Nat \ {0}
<1> DEFINE T == {s[i] : i \in 1..Len(s)}
           t == SubSeq(s, 1, Len(s) - 1)
<1>1. s \in Seq(T) /\ Len(s) \in Nat \ {0}
  BY DEF IsSeq
<1> HIDE DEF T
<1>2. /\ t \in Seq(T) /\ Len(t) = Len(s) - 1
      /\ \A i \in 1..(Len(s) - 1) : t[i] = s[i]
  <2>1. \A i \in 1..(Len(s) - 1) : s[i] \in T
    BY <1>1
  <2>2. 1 \in Int /\ Len(s) - 1 \in Int
    BY <1>1
  <2>3. /\ t \in Seq(T) /\ Len(t) = IF 1 <= Len(s) - 1 THEN (Len(s) - 1) - 1 + 1 ELSE 0
        /\ \A i \in 1..((Len(s) - 1) - 1 + 1) : t[i] = s[1 + i - 1]
    BY <2>1, <2>2, SubSeqProperties
  <2> HIDE DEF t
  <2>4. /\ \A i \in 1..(Len(s) - 1) : i \in 1..((Len(s) - 1) - 1 + 1) /\ 1 + i - 1 = i
        /\ (IF 1 <= Len(s) - 1 THEN (Len(s) - 1) - 1 + 1 ELSE 0) = Len(s) - 1
    <3>1. \A n \in Nat \ {0} :
            /\ \A i \in 1..(n - 1) : i \in 1..((n - 1) - 1 + 1) /\ 1 + i - 1 = i
            /\ (IF 1 <= n - 1 THEN (n - 1) - 1 + 1 ELSE 0) = n - 1
      OBVIOUS
    <3>2. QED
      BY ONLY <1>1, <3>1
  <2>5. \A i \in 1..(Len(s) - 1) : t[i] = s[i]
    <3>1. TAKE i \in 1..(Len(s) - 1)
    <3>2. t[i] = s[1 + i - 1] /\ 1 + i - 1 = i
      BY <2>3, <2>4
    <3>3. QED
      BY <3>2
  <2>6. QED
    BY <2>3, <2>4, <2>5
<1> HIDE DEF t
<1>3. t \in [1..Len(t) -> {t[i] : i \in 1..Len(t)}] /\ Len(t) \in Nat
  BY <1>1, <1>2
<1>4. IsSeq(t)
  BY <1>3, SMTT(30) DEF IsSeq
<1>5. Front(s) = t /\ Last(s) = s[Len(s)]
  BY DEF t, Front, Last
<1>6. QED
  BY <1>1, <1>2, <1>4, <1>5
-----------------------------------------------------------------------------
(* The calls in work: children_perform in itself j deep, then create_scan  *)
(* in itself.  Each inner children_perform has its enter among the         *)
(* operations, at its opLast, and the enters come in that order.           *)
IsFrame(f) ==
  f = [fn |-> f.fn, cfg |-> f.cfg, cmd |-> f.cmd, at |-> f.at, defop |-> f.defop, opLast |-> f.opLast,
       note |-> f.note]
Calls(fs, j) ==
  /\ IsSeq(fs) /\ j \in 1..Len(fs)
  /\ \A i \in 1..Len(fs) : IsFrame(fs[i]) /\ fs[i].fn = (IF i <= j THEN "perform" ELSE "scan")
Enters(fs, os, j) ==
  /\ \A i \in 2..j : /\ fs[i].opLast \in 1..Len(os)
                    /\ os[fs[i].opLast].op = "enter" /\ os[fs[i].opLast].cmd = fs[i].cmd
  /\ \A i, k \in 2..j : i < k => fs[i].opLast < fs[k].opLast
Shape(fs, os, j) == Calls(fs, j) /\ IsSeq(os) /\ Enters(fs, os, j)

(* The iterator of a call goes on.                                         *)
LEMMA AdvancedFacts ==
  ASSUME NEW f, IsFrame(f)
  PROVE  LET g == Advanced(f)
         IN  IsFrame(g) /\ g.fn = f.fn /\ g.cfg = f.cfg /\ g.cmd = f.cmd /\ g.opLast = f.opLast
             /\ g.at = NextSibling(heap, f.at) /\ g.note = f.note
BY DEF IsFrame, Advanced

(* A call that begins: where it is and what it is asked for.               *)
LEMMA NewFrames ==
  ASSUME NEW g, NEW c, NEW d, NEW n, NEW h
  PROVE  /\ IsFrame(Perform(g, c, d, n)) /\ Perform(g, c, d, n).fn = "perform"
         /\ Perform(g, c, d, n).cfg = g /\ Perform(g, c, d, n).cmd = c
         /\ Perform(g, c, d, n).opLast = n /\ Perform(g, c, d, n).at = FirstChild(heap, c)
         /\ IsFrame(Scan(h, c, n)) /\ Scan(h, c, n).fn = "scan" /\ Scan(h, c, n).cmd = c
         /\ Scan(h, c, n).cfg = Nil /\ Scan(h, c, n).at = FirstChild(h, c)
BY DEF IsFrame, Perform, Scan

(* The innermost call, and the one around it.                              *)
LEMMA TopFacts ==
  ASSUME NEW fs, NEW j, Calls(fs, j)
  PROVE  /\ fs # <<>> /\ Len(fs) \in Nat \ {0} /\ Last(fs) = fs[Len(fs)] /\ IsFrame(Last(fs))
         /\ Len(fs) > 1 => /\ Last(Front(fs)) = fs[Len(fs) - 1] /\ Front(fs) # <<>>
                          /\ IsFrame(Last(Front(fs)))
         /\ Last(fs).fn = "scan" => j < Len(fs) /\ Len(fs) > 1
         /\ Last(fs).fn = "perform" => j = Len(fs)
         /\ Len(fs) > 1 /\ Last(Front(fs)).fn = "scan" => j < Len(fs) - 1
         /\ Len(fs) > 1 /\ Last(Front(fs)).fn # "scan" => j >= Len(fs) - 1
<1>1. /\ fs # <<>> /\ Len(fs) \in Nat \ {0} /\ Last(fs) = fs[Len(fs)]
      /\ IsSeq(Front(fs)) /\ Len(Front(fs)) = Len(fs) - 1
      /\ \A i \in 1..(Len(fs) - 1) : Front(fs)[i] = fs[i]
  BY SeqFacts, FrontFacts DEF Calls
<1>2. Len(fs) > 1 => Last(Front(fs)) = fs[Len(fs) - 1] /\ Front(fs) # <<>>
  <2>1. Len(fs) > 1 => Len(Front(fs)) > 0 /\ Front(fs)[Len(fs) - 1] = fs[Len(fs) - 1]
    BY <1>1
  <2>2. QED
    BY <1>1, <2>1, SeqFacts, FrontFacts
<1>3. /\ \A i \in 1..Len(fs) : IsFrame(fs[i]) /\ fs[i].fn = (IF i <= j THEN "perform" ELSE "scan")
      /\ j \in 1..Len(fs)
  BY DEF Calls
<1>4. QED
  BY <1>1, <1>2, <1>3

(* The innermost call goes on; or it calls; or it returns.                 *)
LEMMA ReplaceTop ==
  ASSUME NEW fs, NEW os, NEW j, Shape(fs, os, j), NEW f, IsFrame(f),
         f.fn = Last(fs).fn, f.cmd = Last(fs).cmd, f.opLast = Last(fs).opLast
  PROVE  LET gs == Append(Front(fs), f)
         IN  /\ Shape(gs, os, j) /\ Len(gs) = Len(fs) /\ gs[Len(fs)] = f
             /\ \A i \in 1..(Len(fs) - 1) : gs[i] = fs[i]
<1> DEFINE gs == Append(Front(fs), f)
<1>1. /\ IsSeq(gs) /\ Len(gs) = Len(fs) /\ gs[Len(fs)] = f /\ Len(fs) \in Nat \ {0}
      /\ \A i \in 1..(Len(fs) - 1) : gs[i] = fs[i]
      /\ Last(fs) = fs[Len(fs)]
  BY TopFacts, FrontFacts, AppendFacts DEF Shape, Calls
<1> HIDE DEF gs
<1>2. \A i \in 1..Len(fs) : gs[i].fn = fs[i].fn /\ gs[i].cmd = fs[i].cmd /\ gs[i].opLast = fs[i].opLast
                            /\ (IsFrame(fs[i]) => IsFrame(gs[i]))
  BY <1>1
<1>3. Calls(gs, j)
  BY <1>1, <1>2 DEF Shape, Calls
<1>4. Enters(gs, os, j)
  <2>1. \A i \in 2..j : i \in 1..Len(fs)
    BY <1>1 DEF Shape, Calls
  <2>2. QED
    BY <1>2, <2>1 DEF Shape, Enters
<1>5. QED
  BY <1>1, <1>3, <1>4 DEF gs, Shape

(* create_scan is called: the enters of the outer calls stay.              *)
LEMMA PushScan ==
  ASSUME NEW fs, NEW os, NEW j, Shape(fs, os, j), NEW f, IsFrame(f), f.fn = "scan"
  PROVE  LET gs == Append(fs, f)
         IN  /\ Shape(gs, os, j) /\ Len(gs) = Len(fs) + 1 /\ gs[Len(fs) + 1] = f
             /\ \A i \in 1..Len(fs) : gs[i] = fs[i]
<1> DEFINE gs == Append(fs, f)
<1>1. /\ IsSeq(gs) /\ Len(gs) = Len(fs) + 1 /\ gs[Len(fs) + 1] = f /\ Len(fs) \in Nat \ {0}
      /\ \A i \in 1..Len(fs) : gs[i] = fs[i]
  BY TopFacts, AppendFacts DEF Shape, Calls
<1> HIDE DEF gs
<1>2. Calls(gs, j)
  BY <1>1 DEF Shape, Calls
<1>3. Enters(gs, os, j)
  <2>1. \A i \in 2..j : gs[i] = fs[i]
    BY <1>1 DEF Shape, Calls
  <2>2. QED
    BY <2>1 DEF Shape, Enters
<1>4. QED
  BY <1>1, <1>2, <1>3 DEF gs, Shape

(* Operations are added at the end.                                        *)
LEMMA AddOp ==
  ASSUME NEW fs, NEW os, NEW j, Shape(fs, os, j), NEW o
  PROVE  Shape(fs, Append(os, o), j)
<1> DEFINE more == Append(os, o)
<1>1. IsSeq(more) /\ Len(more) = Len(os) + 1 /\ Len(os) \in Nat /\ \A k \in 1..Len(os) : more[k] = os[k]
  BY AppendFacts, SeqFacts DEF Shape
<1> HIDE DEF more
<1>2. Enters(fs, more, j)
  BY <1>1 DEF Shape, Enters
<1>3. QED
  BY <1>1, <1>2 DEF Shape, more

(* children_perform calls itself.                                          *)
LEMMA PushPerform ==
  ASSUME NEW fs, NEW os, NEW j, Shape(fs, os, j), j = Len(fs),
         NEW f, IsFrame(f), f.fn = "perform", f.opLast = Len(os) + 1,
         NEW o, o.op = "enter", o.cmd = f.cmd
  PROVE  LET gs == Append(fs, f)
         IN  /\ Shape(gs, Append(os, o), j + 1) /\ Len(gs) = Len(fs) + 1 /\ gs[Len(fs) + 1] = f
             /\ \A i \in 1..Len(fs) : gs[i] = fs[i]
<1> DEFINE gs == Append(fs, f)
           more == Append(os, o)
<1>1. /\ IsSeq(gs) /\ Len(gs) = j + 1 /\ gs[j + 1] = f /\ j \in Nat \ {0}
      /\ \A i \in 1..j : gs[i] = fs[i]
  BY TopFacts, AppendFacts DEF Shape, Calls
<1>2. /\ IsSeq(more) /\ Len(more) = Len(os) + 1 /\ Len(os) \in Nat
      /\ more[Len(os) + 1] = o /\ \A k \in 1..Len(os) : more[k] = os[k]
  BY AppendFacts, SeqFacts DEF Shape
<1> HIDE DEF gs, more
<1>3. Calls(gs, j + 1)
  BY <1>1 DEF Shape, Calls
<1>4. Enters(gs, more, j + 1)
  <2>1. \A i \in 2..(j + 1) : i \in 2..j \/ i = j + 1
    BY <1>1
  <2>2. \A i \in 2..j : /\ gs[i].opLast \in 1..Len(os) /\ gs[i] = fs[i]
                       /\ more[gs[i].opLast] = os[fs[i].opLast]
    BY <1>1, <1>2 DEF Shape, Enters
  <2>3. \A i \in 2..(j + 1) :
          /\ gs[i].opLast \in 1..Len(more)
          /\ more[gs[i].opLast].op = "enter" /\ more[gs[i].opLast].cmd = gs[i].cmd
    BY <1>1, <1>2, <2>1, <2>2 DEF Shape, Enters
  <2>4. \A i, k \in 2..(j + 1) : i < k => gs[i].opLast < gs[k].opLast
    BY <1>1, <1>2, <2>1, <2>2 DEF Shape, Enters
  <2>5. QED
    BY <2>3, <2>4 DEF Enters
<1>5. QED
  BY <1>1, <1>2, <1>3, <1>4 DEF gs, more, Shape

(* create_scan returns.                                                    *)
LEMMA PopScan ==
  ASSUME NEW fs, NEW os, NEW j, Shape(fs, os, j), j < Len(fs)
  PROVE  Shape(Front(fs), os, j)
<1>1. /\ IsSeq(Front(fs)) /\ Len(Front(fs)) = Len(fs) - 1 /\ Len(fs) \in Nat \ {0}
      /\ \A i \in 1..(Len(fs) - 1) : Front(fs)[i] = fs[i]
  BY TopFacts, FrontFacts DEF Shape, Calls
<1> DEFINE gs == Front(fs)
<1> HIDE DEF gs
<1>2. j \in 1..(Len(fs) - 1) /\ \A i \in 2..j : i \in 1..(Len(fs) - 1)
  BY <1>1 DEF Shape, Calls
<1>3. IsSeq(gs) /\ Len(gs) = Len(fs) - 1 /\ \A i \in 1..(Len(fs) - 1) : gs[i] = fs[i]
  BY <1>1 DEF gs
<1>4. Calls(gs, j)
  BY <1>1, <1>2, <1>3 DEF Shape, Calls
<1>5. Enters(gs, os, j)
  <2>1. \A i \in 2..j : gs[i] = fs[i]
    BY <1>2, <1>3
  <2>2. QED
    BY <2>1 DEF Shape, Enters
<1>6. QED
  BY <1>4, <1>5 DEF gs, Shape

(* children_perform returns to itself; its enter is dropped if it is the   *)
(* last operation, which is then no longer anybody's.                      *)
LEMMA PopPerform ==
  ASSUME NEW fs, NEW os, NEW j, Shape(fs, os, j), j = Len(fs), Len(fs) > 1
  PROVE  /\ Shape(Front(fs), os, j - 1)
         /\ Len(os) = Last(fs).opLast =>
              /\ Shape(Front(fs), Front(os), j - 1)
              /\ os # <<>> /\ os[Len(os)].op = "enter"
<1>1. /\ IsSeq(Front(fs)) /\ Len(Front(fs)) = j - 1 /\ Len(fs) \in Nat \ {0} /\ j > 1
      /\ \A i \in 1..(j - 1) : Front(fs)[i] = fs[i]
      /\ Last(fs) = fs[j]
  BY TopFacts, FrontFacts DEF Shape, Calls
<1> DEFINE gs == Front(fs)
<1> HIDE DEF gs
<1>2. Calls(gs, j - 1)
  BY <1>1 DEF Shape, Calls, gs
<1>3. \A i \in 2..(j - 1) : i \in 2..j /\ i \in 1..(j - 1) /\ gs[i] = fs[i]
  BY <1>1 DEF gs
<1>4. Enters(gs, os, j - 1)
  BY <1>3 DEF Shape, Enters
<1>5. ASSUME Len(os) = Last(fs).opLast
      PROVE  Shape(gs, Front(os), j - 1) /\ os # <<>> /\ os[Len(os)].op = "enter"
  <2>1. j \in 2..j /\ fs[j].opLast \in 1..Len(os) /\ os[fs[j].opLast].op = "enter"
    BY <1>1 DEF Shape, Enters
  <2>2. os # <<>> /\ os[Len(os)].op = "enter" /\ Len(os) \in Nat
    BY <1>1, <1>5, <2>1, SeqFacts DEF Shape
  <2>3. /\ IsSeq(Front(os)) /\ Len(Front(os)) = Len(os) - 1
        /\ \A k \in 1..(Len(os) - 1) : Front(os)[k] = os[k]
    BY <2>2, FrontFacts DEF Shape
  <2> DEFINE less == Front(os)
  <2> HIDE DEF less
  <2>4. \A i \in 2..(j - 1) : /\ fs[i].opLast \in 1..Len(os) /\ fs[i].opLast < fs[j].opLast
                             /\ os[fs[i].opLast].op = "enter" /\ os[fs[i].opLast].cmd = fs[i].cmd
    BY <1>1, <1>3, <2>1 DEF Shape, Enters
  <2>5. \A i \in 2..(j - 1) : fs[i].opLast \in 1..(Len(os) - 1)
    BY <1>1, <1>5, <2>2, <2>4
  <2>6. IsSeq(less) /\ Len(less) = Len(os) - 1 /\ \A k \in 1..(Len(os) - 1) : less[k] = os[k]
    BY <2>3 DEF less
  <2>7. \A i \in 2..(j - 1) : /\ gs[i] = fs[i] /\ fs[i].opLast \in 1..Len(less)
                             /\ less[fs[i].opLast] = os[fs[i].opLast]
    BY <1>3, <2>5, <2>6
  <2>8. \A i, k \in 2..(j - 1) : i < k => fs[i].opLast < fs[k].opLast
    BY <1>3 DEF Shape, Enters
  <2>9. Enters(gs, less, j - 1)
    <3>1. \A i \in 2..(j - 1) :
            /\ gs[i].opLast \in 1..Len(less)
            /\ less[gs[i].opLast].op = "enter" /\ less[gs[i].opLast].cmd = gs[i].cmd
      BY <2>4, <2>7
    <3>2. \A i, k \in 2..(j - 1) : i < k => gs[i].opLast < gs[k].opLast
      BY <2>7, <2>8
    <3>3. QED
      BY <3>1, <3>2 DEF Enters
  <2>10. QED
    BY <1>2, <2>2, <2>6, <2>9 DEF less, Shape
<1>6. QED
  BY <1>2, <1>4, <1>5 DEF gs, Shape

-----------------------------------------------------------------------------
(* d tells how deep applyops is behind each operation.                     *)
Balanced(os, d) ==
  /\ IsSeq(os) /\ d \in [0..Len(os) -> Nat] /\ d[0] = 0
  /\ \A k \in 1..Len(os) :
       /\ os[k].op = "enter" => d[k] = d[k - 1] + 1
       /\ os[k].op = "leave" => d[k - 1] = d[k] + 1
       /\ os[k].op \notin {"enter", "leave"} => d[k] = d[k - 1]

(* One operation more, one operation less.                                 *)
LEMMA MoreBalanced ==
  ASSUME NEW os, NEW d, Balanced(os, d), NEW o, NEW e \in Nat,
         \/ o.op = "enter" /\ e = d[Len(os)] + 1
         \/ o.op = "leave" /\ d[Len(os)] = e + 1
         \/ o.op \notin {"enter", "leave"} /\ e = d[Len(os)]
  PROVE  \E f : Balanced(Append(os, o), f) /\ f[Len(Append(os, o))] = e
<1> DEFINE more == Append(os, o)
           f == [k \in 0..(Len(os) + 1) |-> IF k <= Len(os) THEN d[k] ELSE e]
<1>1. /\ IsSeq(more) /\ Len(more) = Len(os) + 1 /\ Len(os) \in Nat /\ more[Len(os) + 1] = o
      /\ \A k \in 1..Len(os) : more[k] = os[k]
  BY AppendFacts, SeqFacts DEF Balanced
<1>2. /\ f \in [0..(Len(os) + 1) -> Nat] /\ f[Len(os) + 1] = e
      /\ \A k \in 0..Len(os) : f[k] = d[k]
  BY <1>1 DEF Balanced
<1> HIDE DEF more, f
<1>3. \A k \in 1..(Len(os) + 1) : \/ k = Len(os) + 1 /\ k - 1 = Len(os)
                                  \/ k \in 1..Len(os) /\ k - 1 \in 0..Len(os)
  BY <1>1
<1>4. ASSUME NEW k \in 1..(Len(os) + 1)
      PROVE  /\ more[k].op = "enter" => f[k] = f[k - 1] + 1
             /\ more[k].op = "leave" => f[k - 1] = f[k] + 1
             /\ more[k].op \notin {"enter", "leave"} => f[k] = f[k - 1]
  <2>1. CASE k = Len(os) + 1
    <3>1. f[k] = e /\ f[k - 1] = d[Len(os)] /\ more[k] = o
      BY <1>1, <1>2, <2>1
    <3>2. QED
      BY <3>1
  <2>2. CASE k \in 1..Len(os)
    <3>1. f[k] = d[k] /\ f[k - 1] = d[k - 1] /\ more[k] = os[k]
      BY <1>1, <1>2, <1>3, <2>2
    <3>2. QED
      BY <2>2, <3>1 DEF Balanced
  <2>3. QED
    BY <1>3, <2>1, <2>2
<1>5. f[0] = 0
  BY <1>1, <1>2 DEF Balanced
<1>6. Balanced(more, f) /\ f[Len(more)] = e
  BY <1>1, <1>2, <1>4, <1>5 DEF Balanced
<1>7. QED
  BY <1>6 DEF more

(* Without its last enter a list balances one level up.                    *)
LEMMA LessBalanced ==
  ASSUME NEW os, NEW d, Balanced(os, d), os # <<>>, os[Len(os)].op = "enter"
  PROVE  \E f : Balanced(Front(os), f) /\ f[Len(Front(os))] + 1 = d[Len(os)]
<1> DEFINE less == Front(os)
           f == [k \in 0..(Len(os) - 1) |-> d[k]]
<1>1. /\ IsSeq(less) /\ Len(less) = Len(os) - 1 /\ Len(os) \in Nat \ {0}
      /\ \A k \in 1..(Len(os) - 1) : less[k] = os[k]
  BY FrontFacts DEF Balanced
<1>2. f \in [0..(Len(os) - 1) -> Nat] /\ \A k \in 0..(Len(os) - 1) : f[k] = d[k]
  BY <1>1 DEF Balanced
<1> HIDE DEF less, f
<1>3. \A k \in 1..(Len(os) - 1) : /\ k \in 1..Len(os) /\ k \in 0..(Len(os) - 1) /\ k - 1 \in 0..(Len(os) - 1)
  BY <1>1
<1>4. f[0] = 0 /\ Len(os) \in 1..Len(os) /\ Len(os) - 1 \in 0..(Len(os) - 1)
  BY <1>1, <1>2 DEF Balanced
<1>5. Balanced(less, f)
  BY <1>1, <1>2, <1>3, <1>4 DEF Balanced
<1>6. d[Len(os)] = d[Len(os) - 1] + 1
  BY <1>4 DEF Balanced
<1>7. QED
  BY <1>1, <1>2, <1>4, <1>5, <1>6 DEF less

-----------------------------------------------------------------------------
(* What one turn of children_perform may do with a node of the model.      *)
Found(g) == g = Identify(heap, Top.at, Top.cfg)
NoteRemoval(g) == g # Nil /\ \E note : ops' = Append(ops, Op("remove-tree", Top.at, g, note))

(* A turn of children_perform refuses; goes on, perhaps with a removal,    *)
(* or into create_scan; or enters.                                         *)
LEMMA PerformNodeCases ==
  ASSUME PerformNode
  PROVE  /\ frames # <<>> /\ Top.fn = "perform" /\ Top.at # Nil /\ UNCHANGED xmlVars
         /\ heap[Top.at].name \in ModelChildren[heap[Top.cmd].name]
         /\ \/ frames' = <<>> /\ ops' = ops /\ editError' \in {"data-exists", "data-missing"}
            \/ /\ editError' = editError
               /\ ops' = ops \/ (\E g : Found(g) /\ NoteRemoval(g))
               /\ \/ frames' = OnTop(Advanced(Top))
                  \/ \E note : frames' = Append(frames, Scan(heap, Top.at, note))
            \/ /\ editError' = editError
               /\ \E g, asked : /\ Found(g) /\ g # Nil
                                /\ ops' = Append(ops, Op("enter", Top.at, g, ""))
                                /\ frames' = Append(frames, Perform(g, Top.at, asked, Len(ops) + 1))
<1> DEFINE c == Top.at
           g == Identify(heap, c, Top.cfg)
           asked == Asked(heap, c, Top.defop)
           done == Performed(heap, c, g, asked)
           note == IF done = "replace" THEN "replace" ELSE ""
<1>1. /\ frames # <<>> /\ Top.fn = "perform" /\ c # Nil
      /\ heap[c].name \in ModelChildren[heap[Top.cmd].name]
      /\ UNCHANGED xmlVars
  BY DEF PerformNode, Abort
<1>2. \/ Refusal(g, asked) # "" /\ Abort(Refusal(g, asked))
      \/ /\ Refusal(g, asked) = ""
         /\ UNCHANGED <<editError, xmlVars>>
         /\ ops' = (CASE done \in {"remove", "replace"} /\ g # Nil ->
                          Append(ops, Op("remove-tree", c, g, note))
                     [] done = "none" -> Append(ops, Op("enter", c, g, ""))
                     [] OTHER -> ops)
         /\ frames' = (CASE done \in {"create", "replace"} -> Append(frames, Scan(heap, c, note))
                        [] done = "none" -> Append(frames, Perform(g, c, asked, Len(ops) + 1))
                        [] OTHER -> OnTop(Advanced(Top)))
  BY DEF PerformNode
<1>3. Refusal(g, asked) \in {"", "data-exists", "data-missing"}
  BY DEF Refusal
<1>4. Refusal(g, asked) = "" /\ g = Nil => done # "none"
  <2>1. ASSUME Refusal(g, asked) = "", g = Nil
        PROVE  done # "none"
    <3>1. asked \notin {"none", "delete"}
      BY <2>1, Zenon DEF Refusal
    <3> HIDE DEF g, asked
    <3>2. QED
      BY <2>1, <3>1 DEF Performed
  <2>2. QED
    BY <2>1
<1>5. Found(g)
  BY DEF Found
<1> HIDE DEF c, g, asked, done, note
<1>6. CASE Refusal(g, asked) # ""
  <2>1. frames' = <<>> /\ ops' = ops /\ editError' \in {"data-exists", "data-missing"}
    BY <1>2, <1>3, <1>6 DEF Abort
  <2>2. QED
    BY <1>1, <2>1 DEF c
<1>7. CASE Refusal(g, asked) = "" /\ done = "none"
  <2>1. /\ editError' = editError /\ g # Nil
        /\ ops' = Append(ops, Op("enter", c, g, ""))
        /\ frames' = Append(frames, Perform(g, c, asked, Len(ops) + 1))
    BY <1>2, <1>4, <1>7
  <2>2. QED
    BY <1>1, <1>5, <2>1 DEF c
<1>8. CASE Refusal(g, asked) = "" /\ done # "none"
  <2>1. editError' = editError
    BY <1>2, <1>8
  <2>2. ops' = ops \/ (g # Nil /\ ops' = Append(ops, Op("remove-tree", c, g, note)))
    BY <1>2, <1>8
  <2>3. frames' = OnTop(Advanced(Top)) \/ frames' = Append(frames, Scan(heap, c, note))
    BY <1>2, <1>8
  <2>4. ops' = ops \/ (\E h : Found(h) /\ NoteRemoval(h))
    BY <1>5, <2>2 DEF NoteRemoval, c
  <2>5. QED
    BY <1>1, <2>1, <2>3, <2>4 DEF c
<1>9. QED
  BY <1>6, <1>7, <1>8

(* The operations balance, applyops is as deep as they say, and what is    *)
(* still to be left is what the calls in work will leave.                  *)
BalanceInv ==
  \E d : /\ Balanced(ops, d)
         /\ applied \in 0..Len(ops) /\ depth = d[applied]
         /\ editError # "runtime"
         /\ (frames = <<>> /\ editError = "") => d[Len(ops)] = 0
         /\ frames # <<>> => applied = 0 /\ \E j : Shape(frames, ops, j) /\ d[Len(ops)] = j - 1

(* applyops begins outside of everything.                                  *)
LEMMA BalanceBegins ==
  ASSUME NEW os, NEW d, Balanced(os, d)
  PROVE  d[0] = 0 /\ 0 \in 0..Len(os)
<1>1. Len(os) \in Nat
  BY SeqFacts DEF Balanced
<1>2. QED
  BY <1>1 DEF Balanced

(* The calls in work after a turn, if it does not end editconfig().        *)
InWork(fs, os) == \E d, j : Balanced(os, d) /\ Shape(fs, os, j) /\ d[Len(os)] = j - 1

(* What is to be shown of a turn: the calls go on balanced, or end with an *)
(* error, or end with all left.                                            *)
LEMMA BalanceGoesOn ==
  ASSUME BalanceInv, frames # <<>>, UNCHANGED <<applied, depth>>, editError' # "runtime",
         \/ InWork(frames', ops')
         \/ frames' = <<>> /\ ops' = ops /\ editError' # ""
         \/ frames' = <<>> /\ \E d : Balanced(ops', d) /\ d[Len(ops')] = 0
  PROVE  BalanceInv'
<1>1. PICK d : Balanced(ops, d) /\ applied = 0 /\ depth = d[0]
  BY DEF BalanceInv
<1>2. ASSUME NEW os, NEW e, Balanced(os, e)
      PROVE  e[0] = 0 /\ 0 \in 0..Len(os)
  BY <1>2, BalanceBegins
<1>3. applied' = 0 /\ depth' = 0
  BY <1>1, <1>2
<1>4. CASE InWork(frames', ops')
  <2>1. PICK e, j : Balanced(ops', e) /\ Shape(frames', ops', j) /\ e[Len(ops')] = j - 1
    BY <1>4 DEF InWork
  <2>2. frames' # <<>>
    BY <2>1, TopFacts DEF Shape
  <2>3. QED
    BY <1>2, <1>3, <2>1, <2>2 DEF BalanceInv
<1>5. CASE frames' = <<>> /\ ops' = ops /\ editError' # ""
  BY <1>1, <1>2, <1>3, <1>5 DEF BalanceInv
<1>6. CASE frames' = <<>> /\ \E e : Balanced(ops', e) /\ e[Len(ops')] = 0
  <2>1. PICK e : Balanced(ops', e) /\ e[Len(ops')] = 0
    BY <1>6
  <2>2. QED
    BY <1>2, <1>3, <1>6, <2>1 DEF BalanceInv
<1>7. QED
  BY <1>4, <1>5, <1>6

(* An operation that neither enters nor leaves, or none.                   *)
LEMMA PlainOps ==
  ASSUME NEW fs, NEW os, InWork(fs, os), NEW o, o.op \notin {"enter", "leave"}
  PROVE  InWork(fs, Append(os, o))
<1>1. PICK d, j : Balanced(os, d) /\ Shape(fs, os, j) /\ d[Len(os)] = j - 1
  BY DEF InWork
<1>2. d[Len(os)] \in Nat
  BY <1>1, SeqFacts DEF Balanced
<1>3. PICK e : Balanced(Append(os, o), e) /\ e[Len(Append(os, o))] = d[Len(os)]
  BY <1>1, <1>2, MoreBalanced
<1>4. QED
  BY <1>1, <1>3, AddOp DEF InWork

(* The innermost call takes its next node.                                 *)
LEMMA TopReplaced ==
  ASSUME NEW fs, NEW os, InWork(fs, os), NEW f, IsFrame(f),
         f.fn = Last(fs).fn, f.cmd = Last(fs).cmd, f.opLast = Last(fs).opLast
  PROVE  InWork(Append(Front(fs), f), os)
BY ReplaceTop DEF InWork

(* create_scan is called and adds nothing.                                 *)
LEMMA ScanPushed ==
  ASSUME NEW fs, NEW os, InWork(fs, os), NEW f, IsFrame(f), f.fn = "scan"
  PROVE  InWork(Append(fs, f), os)
BY PushScan DEF InWork

(* children_perform calls itself and adds its enter.                       *)
LEMMA PerformPushed ==
  ASSUME NEW fs, NEW os, InWork(fs, os), Last(fs).fn = "perform",
         NEW f, IsFrame(f), f.fn = "perform", f.opLast = Len(os) + 1,
         NEW o, o.op = "enter", o.cmd = f.cmd
  PROVE  InWork(Append(fs, f), Append(os, o))
<1>1. PICK d, j : Balanced(os, d) /\ Shape(fs, os, j) /\ d[Len(os)] = j - 1
  BY DEF InWork
<1>2. d[Len(os)] \in Nat /\ j = Len(fs) /\ j \in Nat
  BY <1>1, SeqFacts, TopFacts DEF Balanced, Shape
<1>3. PICK e : Balanced(Append(os, o), e) /\ e[Len(Append(os, o))] = d[Len(os)] + 1
  BY <1>1, <1>2, MoreBalanced
<1>4. Shape(Append(fs, f), Append(os, o), j + 1)
  BY <1>1, <1>2, PushPerform
<1>5. e[Len(Append(os, o))] = (j + 1) - 1
  BY <1>1, <1>2, <1>3
<1>6. QED
  BY <1>3, <1>4, <1>5 DEF InWork

(* A leave is for one of the enters before it.                             *)
LEMMA LeaveBalanced ==
  ASSUME NEW os, NEW d, Balanced(os, d), NEW o, o.op = "leave", NEW n \in Nat, d[Len(os)] = n + 1
  PROVE  \E f : Balanced(Append(os, o), f) /\ f[Len(Append(os, o))] = n
BY MoreBalanced

(* children_perform returns to itself: its enter goes, or has its leave.   *)
LEMMA PerformPopped ==
  ASSUME NEW fs, NEW os, InWork(fs, os), Last(fs).fn = "perform", Len(fs) > 1, NEW o, o.op = "leave"
  PROVE  InWork(Front(fs), IF Len(os) = Last(fs).opLast THEN Front(os) ELSE Append(os, o))
<1>1. PICK d, j : Balanced(os, d) /\ Shape(fs, os, j) /\ d[Len(os)] = j - 1
  BY DEF InWork
<1>2. d[Len(os)] \in Nat /\ j = Len(fs) /\ j \in Nat /\ j > 1
  BY <1>1, SeqFacts, TopFacts DEF Balanced, Shape
<1>3. Shape(Front(fs), os, j - 1)
  BY <1>1, <1>2, PopPerform
<1>4. CASE Len(os) = Last(fs).opLast
  <2>1. Shape(Front(fs), Front(os), j - 1) /\ os # <<>> /\ os[Len(os)].op = "enter"
    BY <1>1, <1>2, <1>4, PopPerform
  <2>2. PICK e : Balanced(Front(os), e) /\ e[Len(Front(os))] + 1 = d[Len(os)]
    BY <1>1, <2>1, LessBalanced
  <2>3. e[Len(Front(os))] \in Nat
    BY <2>2, SeqFacts DEF Balanced
  <2>4. e[Len(Front(os))] = (j - 1) - 1
    BY <1>1, <1>2, <2>2, <2>3
  <2>5. QED
    BY <1>4, <2>1, <2>2, <2>4 DEF InWork
<1>5. CASE Len(os) # Last(fs).opLast
  <2>1. PICK n \in Nat : d[Len(os)] = n + 1
    BY <1>1, <1>2
  <2>2. PICK e : Balanced(Append(os, o), e) /\ e[Len(Append(os, o))] = n
    BY <1>1, <2>1, LeaveBalanced
  <2>3. Shape(Front(fs), Append(os, o), j - 1) /\ e[Len(Append(os, o))] = (j - 1) - 1
    BY <1>1, <1>2, <1>3, <2>1, <2>2, AddOp
  <2>4. QED
    BY <1>5, <2>2, <2>3 DEF InWork
<1>6. QED
  BY <1>4, <1>5

(* create_scan returns; children_perform is around it.                     *)
LEMMA ScanPopped ==
  ASSUME NEW fs, NEW os, InWork(fs, os), Last(fs).fn = "scan"
  PROVE  InWork(Front(fs), os) /\ Len(fs) > 1
<1>1. PICK d, j : Balanced(os, d) /\ Shape(fs, os, j) /\ d[Len(os)] = j - 1
  BY DEF InWork
<1>2. j < Len(fs) /\ Len(fs) > 1
  BY <1>1, TopFacts DEF Shape
<1>3. QED
  BY <1>1, <1>2, PopScan DEF InWork

(* The calls in work are what BalanceInv says of them.                     *)
LEMMA NowInWork ==
  ASSUME BalanceInv, frames # <<>>
  PROVE  /\ InWork(frames, ops) /\ editError # "runtime" /\ IsFrame(Top) /\ Len(frames) \in Nat \ {0}
         /\ Len(frames) > 1 => IsFrame(Last(Front(frames)))
         /\ Len(frames) = 1 => \E d : Balanced(ops, d) /\ d[Len(ops)] = 0
<1>1. PICK d, j : /\ Balanced(ops, d) /\ Shape(frames, ops, j) /\ d[Len(ops)] = j - 1
                  /\ editError # "runtime"
  BY DEF BalanceInv
<1>2. /\ IsFrame(Top) /\ Len(frames) \in Nat \ {0}
      /\ Len(frames) > 1 => IsFrame(Last(Front(frames)))
      /\ j \in 1..Len(frames)
  BY <1>1, TopFacts DEF Top, Shape, Calls
<1>3. Len(frames) = 1 => j - 1 = 0
  BY <1>2
<1>4. QED
  BY <1>1, <1>2, <1>3 DEF InWork

(* The iterator of the innermost call goes on.                             *)
LEMMA GoOn ==
  ASSUME BalanceInv, frames # <<>>
  PROVE  InWork(OnTop(Advanced(Top)), ops)
<1>1. InWork(frames, ops) /\ IsFrame(Top)
  BY NowInWork
<1>2. IsFrame(Advanced(Top)) /\ Advanced(Top).fn = Top.fn /\ Advanced(Top).cmd = Top.cmd
      /\ Advanced(Top).opLast = Top.opLast
  BY <1>1, AdvancedFacts
<1>3. QED
  BY <1>1, <1>2, TopReplaced DEF OnTop, Top

(* A turn of children_perform or create_scan.                              *)
LEMMA EditBalanced ==
  ASSUME BalanceInv, EditStep, UNCHANGED <<applied, depth>>
  PROVE  BalanceInv'
<1>1. frames # <<>>
  BY DEF EditStep, Stranger, PerformNode, PerformReturns, ScanNode, ScanReturns
<1>2. /\ InWork(frames, ops) /\ editError # "runtime" /\ IsFrame(Top) /\ Len(frames) \in Nat \ {0}
      /\ Len(frames) > 1 => IsFrame(Last(Front(frames)))
      /\ Len(frames) = 1 => \E d : Balanced(ops, d) /\ d[Len(ops)] = 0
  BY <1>1, NowInWork
<1>3. InWork(OnTop(Advanced(Top)), ops)
  BY <1>1, GoOn
<1>10. Len(frames) = 1 \/ (Len(frames) > 1 /\ Len(frames) # 1)
  <2>1. \A n \in Nat \ {0} : n = 1 \/ (n > 1 /\ n # 1)
    OBVIOUS
  <2>2. Len(frames) \in Nat \ {0}
    BY <1>2
  <2>3. QED
    BY <2>1, <2>2
<1>4. CASE Stranger
  <2>1. \/ frames' = <<>> /\ ops' = ops /\ editError' \in {"unknown-namespace", "unknown-element"}
        \/ frames' = OnTop(Advanced(Top)) /\ ops' = ops /\ editError' = editError
    BY <1>4 DEF Stranger, Abort
  <2>2. QED
    BY <1>1, <1>2, <1>3, <2>1, BalanceGoesOn
<1>5. CASE PerformNode
  <2>1. CASE frames' = <<>> /\ ops' = ops /\ editError' \in {"data-exists", "data-missing"}
    BY <1>1, <2>1, BalanceGoesOn
  <2>2. ASSUME editError' = editError,
               ops' = ops \/ (\E g : Found(g) /\ NoteRemoval(g)),
               \/ frames' = OnTop(Advanced(Top))
               \/ \E note : frames' = Append(frames, Scan(heap, Top.at, note))
        PROVE  BalanceInv'
    <3>1. InWork(frames', ops)
      <4>1. ASSUME NEW note
            PROVE  InWork(Append(frames, Scan(heap, Top.at, note)), ops)
        BY <1>2, ScanPushed, NewFrames
      <4>2. QED
        BY <1>3, <2>2, <4>1
    <3>2. InWork(frames', ops')
      <4>1. ASSUME NEW o, ops' = Append(ops, o), o.op = "remove-tree"
            PROVE  InWork(frames', ops')
        BY <3>1, <4>1, PlainOps
      <4>2. QED
        BY <2>2, <3>1, <4>1 DEF NoteRemoval, Op
    <3>3. QED
      BY <1>1, <1>2, <2>2, <3>2, BalanceGoesOn
  <2>3. ASSUME editError' = editError, NEW g, NEW asked,
               ops' = Append(ops, Op("enter", Top.at, g, "")),
               frames' = Append(frames, Perform(g, Top.at, asked, Len(ops) + 1)),
               Top.fn = "perform"
        PROVE  BalanceInv'
    <3> DEFINE f == Perform(g, Top.at, asked, Len(ops) + 1)
               o == Op("enter", Top.at, g, "")
    <3>1. IsFrame(f) /\ f.fn = "perform" /\ f.opLast = Len(ops) + 1 /\ f.cmd = Top.at
      BY NewFrames
    <3>2. o.op = "enter" /\ o.cmd = Top.at
      BY DEF Op
    <3> HIDE DEF f, o
    <3>3. InWork(Append(frames, f), Append(ops, o))
      BY <1>2, <2>3, <3>1, <3>2, PerformPushed DEF Top
    <3>4. QED
      BY <1>1, <1>2, <2>3, <3>3, BalanceGoesOn DEF f, o
  <2>4. QED
    BY <1>5, <2>1, <2>2, <2>3, PerformNodeCases
<1>6. CASE PerformReturns
  <2>1. CASE Len(frames) = 1
    <3>1. frames' = <<>> /\ ops' = ops /\ editError' = editError
      BY <1>6, <2>1 DEF PerformReturns
    <3>2. QED
      BY <1>1, <1>2, <2>1, <3>1, BalanceGoesOn
  <2>2. CASE Len(frames) > 1 /\ Len(frames) # 1
    <3> DEFINE outer == Last(Front(frames))
               o == Op("leave", outer.at, Top.cfg, "")
               os == IF Len(ops) = Top.opLast THEN Front(ops) ELSE Append(ops, o)
    <3>1. /\ ops' = os /\ editError' = editError
          /\ frames' = Append(Front(Front(frames)), Advanced(outer))
          /\ Top.fn = "perform"
      <4>2. ops' = os /\ editError' = editError
        BY <1>6, <2>2 DEF PerformReturns, Left
      <4>3. frames' = Append(Front(Front(frames)), Advanced(outer)) /\ Top.fn = "perform"
        BY <1>6, <2>2 DEF PerformReturns
      <4>4. QED
        BY <4>2, <4>3
    <3>2. o.op = "leave"
      BY DEF Op
    <3>3. IsFrame(outer)
      BY <1>2, <2>2
    <3>4. IsFrame(Advanced(outer)) /\ Advanced(outer).fn = outer.fn /\ Advanced(outer).cmd = outer.cmd
          /\ Advanced(outer).opLast = outer.opLast
      BY <3>3, AdvancedFacts
    <3> HIDE DEF o
    <3>5. InWork(Front(frames), os)
      BY <1>2, <2>2, <3>1, <3>2, PerformPopped DEF Top
    <3> HIDE DEF os
    <3>6. InWork(frames', ops')
      BY <3>1, <3>4, <3>5, TopReplaced
    <3>7. QED
      BY <1>1, <1>2, <3>1, <3>6, BalanceGoesOn
  <2>3. QED
    BY <1>10, <2>1, <2>2
<1>7. CASE ScanNode
  <2>1. \/ /\ \E h : frames' = Append(Front(frames), [Top EXCEPT !.at = FirstChild(h, Top.cmd)])
           /\ ops' = ops /\ editError' = editError
        \/ frames' = <<>> /\ ops' = ops /\ editError' = "data-missing"
        \/ frames' = Append(frames, Scan(heap, Top.at, "")) /\ ops' = ops /\ editError' = editError
    BY <1>7 DEF ScanNode, AfterDelete, Abort
  <2>2. ASSUME NEW h
        PROVE  InWork(Append(Front(frames), [Top EXCEPT !.at = FirstChild(h, Top.cmd)]), ops)
    <3> DEFINE f == [Top EXCEPT !.at = FirstChild(h, Top.cmd)]
    <3>1. IsFrame(f) /\ f.fn = Top.fn /\ f.cmd = Top.cmd /\ f.opLast = Top.opLast
      BY <1>2 DEF IsFrame
    <3> HIDE DEF f
    <3>2. InWork(Append(Front(frames), f), ops)
      BY <1>2, <3>1, TopReplaced DEF Top
    <3>3. QED
      BY <3>2 DEF f
  <2>3. InWork(Append(frames, Scan(heap, Top.at, "")), ops)
    <3>1. IsFrame(Scan(heap, Top.at, "")) /\ Scan(heap, Top.at, "").fn = "scan"
      BY DEF IsFrame, Scan
    <3>2. QED
      BY <1>2, <3>1, ScanPushed
  <2>4. QED
    BY <1>1, <1>2, <2>1, <2>2, <2>3, BalanceGoesOn
<1>8. CASE ScanReturns
  <2> DEFINE outer == Last(Front(frames))
             o == Op("add-tree", outer.at, Identify(heap, outer.at, outer.cfg), Top.note)
  <2>1. /\ frames' = Append(Front(Front(frames)), Advanced(outer))
        /\ ops' = ops \/ ops' = Append(ops, o)
        /\ editError' = editError /\ Top.fn = "scan"
    BY <1>8 DEF ScanReturns
  <2>2. InWork(Front(frames), ops) /\ Len(frames) > 1
    BY <1>2, <2>1, ScanPopped DEF Top
  <2>3. IsFrame(outer)
    BY <1>2, <2>2
  <2>4. IsFrame(Advanced(outer)) /\ Advanced(outer).fn = outer.fn /\ Advanced(outer).cmd = outer.cmd
        /\ Advanced(outer).opLast = outer.opLast
    BY <2>3, AdvancedFacts
  <2>5. o.op \notin {"enter", "leave"}
    BY DEF Op
  <2> HIDE DEF o
  <2>6. InWork(frames', ops)
    BY <2>1, <2>2, <2>4, TopReplaced
  <2>7. InWork(frames', ops')
    BY <2>1, <2>5, <2>6, PlainOps
  <2>8. QED
    BY <1>1, <1>2, <2>1, <2>7, BalanceGoesOn
<1>9. QED
  BY <1>4, <1>5, <1>6, <1>7, <1>8 DEF EditStep

(* applyops does an operation: behind it, it is as deep as d says.         *)
LEMMA ApplyBalanced ==
  ASSUME BalanceInv, ApplyOp
  PROVE  BalanceInv'
<1>1. PICK d : /\ Balanced(ops, d) /\ applied \in 0..Len(ops) /\ depth = d[applied]
               /\ d[Len(ops)] = 0
  BY DEF BalanceInv, ApplyOp
<1> DEFINE o == ops[applied + 1]
           k == applied + 1
<1>2. /\ frames' = <<>> /\ frames = <<>> /\ ops' = ops /\ applied' = k /\ applied < Len(ops)
  BY DEF ApplyOp
<1>3. k \in 1..Len(ops) /\ k - 1 = applied
  BY <1>1, <1>2, SeqFacts DEF Balanced
<1>4. /\ o.op = "enter" => d[k] = d[applied] + 1
      /\ o.op = "leave" => d[applied] = d[k] + 1
      /\ o.op \notin {"enter", "leave"} => d[k] = d[applied]
      /\ d[applied] \in Nat /\ d[k] \in Nat
  BY <1>1, <1>3 DEF Balanced
<1>5. \/ o.op = "enter" /\ depth' = depth + 1 /\ editError' = ""
      \/ o.op = "leave" /\ depth' = depth - 1 /\ editError' = (IF depth = 0 THEN "runtime" ELSE "")
      \/ o.op \in {"add-tree", "remove-tree"} /\ depth' = depth
         /\ editError' \in {"", "data-missing", "operation-not-supported"}
  <2>1. ASSUME o.op = "add-tree", AddTree(o)
        PROVE  editError' \in {"", "data-missing", "operation-not-supported"}
    BY <2>1 DEF AddTree, Create, Outcome, Unsupported
  <2>2. ASSUME o.op = "remove-tree", RemoveTree(o)
        PROVE  editError' \in {"", "data-missing", "operation-not-supported"}
    BY <2>2 DEF RemoveTree, Outcome, Unsupported
  <2>3. QED
    BY <2>1, <2>2 DEF ApplyOp, Outcome
<1> HIDE DEF o
<1>6. depth' = d[k] /\ editError' # "runtime"
  <2> HIDE DEF k
  <2>1. CASE o.op = "enter"
    BY <1>1, <1>4, <1>5, <2>1
  <2>2. CASE o.op = "leave"
    <3>1. depth = d[k] + 1 /\ d[k] \in Nat
      BY <1>1, <1>4, <2>2
    <3>2. depth # 0 /\ depth - 1 = d[k]
      BY <3>1
    <3>3. QED
      BY <1>5, <2>2, <3>2
  <2>3. CASE o.op \notin {"enter", "leave"}
    BY <1>1, <1>4, <1>5, <2>3
  <2>4. QED
    BY <2>1, <2>2, <2>3
<1>7. applied' \in 0..Len(ops)
  BY <1>1, <1>2, SeqFacts DEF Balanced
<1>8. QED
  BY <1>1, <1>2, <1>6, <1>7 DEF BalanceInv

(* editconfig() begins, or there is nothing in work.                       *)
LEMMA NothingYet == Balanced(<<>>, [k \in {0} |-> 0]) /\ Len(<<>>) = 0 /\ [k \in {0} |-> 0][0] = 0
<1>1. IsSeq(<<>>) /\ Len(<<>>) = 0
  BY EmptyFacts
<1>2. 0..0 = {0} /\ 1..0 = {}
  OBVIOUS
<1>3. QED
  BY <1>1, <1>2 DEF Balanced

(* The outermost children_perform has no enter.                            *)
LEMMA OneCall ==
  ASSUME NEW f, IsFrame(f), f.fn = "perform"
  PROVE  Shape(<<f>>, <<>>, 1)
<1>1. IsSeq(<<f>>) /\ Len(<<f>>) = 1 /\ <<f>>[1] = f
  BY DEF IsSeq
<1>2. 1..1 = {1} /\ 2..1 = {}
  OBVIOUS
<1>3. QED
  BY <1>1, <1>2, EmptyFacts DEF Shape, Calls, Enters

(* Without calls in work the balance is that of the whole list.            *)
LEMMA NothingInWork ==
  ASSUME NEW d, Balanced(ops, d), applied \in 0..Len(ops), depth = d[applied], d[Len(ops)] = 0,
         frames = <<>>, editError # "runtime"
  PROVE  BalanceInv
BY DEF BalanceInv

(* editconfig() and applyops together; what is handed over is complete.    *)
OperationsInv == BalanceInv /\ (handed => frames = <<>>)

(* A session begins without operations.                                    *)
LEMMA OperationsBegin == Init => OperationsInv
<1> SUFFICES ASSUME Init
             PROVE  OperationsInv
  OBVIOUS
<1> DEFINE d == [k \in {0} |-> 0]
<1>1. Balanced(<<>>, d) /\ Len(<<>>) = 0 /\ d[0] = 0 /\ 0 \in 0..0
  BY NothingYet
<1>2. frames = <<>> /\ ops = <<>> /\ editError = "" /\ applied = 0 /\ depth = 0 /\ handed = FALSE
  BY DEF Init
<1> HIDE DEF d
<1>3. Len(ops) = 0
  BY <1>1, <1>2, Zenon
<1>4. Balanced(ops, d) /\ depth = d[applied] /\ d[Len(ops)] = 0
  BY <1>1, <1>2, <1>3, Zenon
<1>5. applied \in 0..Len(ops)
  BY <1>1, <1>2, <1>3, Zenon
<1>6. editError # "runtime" /\ frames = <<>>
  BY <1>2
<1>7. BalanceInv
  BY <1>4, <1>5, <1>6, NothingInWork
<1>8. QED
  BY <1>2, <1>7 DEF OperationsInv

(* Every step of a session keeps the operations balanced.                  *)
LEMMA OperationsStep == OperationsInv /\ [Next]_allVars => OperationsInv'
<1> SUFFICES ASSUME OperationsInv, [Next]_allVars
             PROVE  OperationsInv'
  OBVIOUS
<1> DEFINE d == [k \in {0} |-> 0]
<1>1. Balanced(<<>>, d) /\ Len(<<>>) = 0 /\ d[0] = 0 /\ 0 \in 0..0
  BY NothingYet
<1> HIDE DEF d
<1>2. CASE BeginSetConfig
  <2>1. PICK f : /\ frames' = <<f>> /\ IsFrame(f) /\ f.fn = "perform" /\ ops' = <<>> /\ editError' = ""
                 /\ applied' = 0 /\ depth' = 0 /\ handed' = FALSE
    BY <1>2 DEF BeginSetConfig, BeginEdit, IsFrame
  <2>2. Shape(frames', ops', 1)
    BY <2>1, OneCall
  <2>3. Balanced(ops', d) /\ d[Len(ops')] = 0 /\ depth' = d[applied']
    BY <1>1, <2>1
  <2>4. applied' \in 0..Len(ops') /\ frames' # <<>>
    BY <1>1, <2>1
  <2>5. \E j : Shape(frames', ops', j) /\ d[Len(ops')] = j - 1
    <3>1. d[Len(ops')] = 1 - 1
      BY <2>3
    <3>2. QED
      BY <2>2, <3>1
  <2>6. editError' # "runtime" /\ applied' = 0 /\ handed' = FALSE
    BY <2>1
  <2>7. BalanceInv'
    BY <2>3, <2>4, <2>5, <2>6 DEF BalanceInv
  <2>8. QED
    BY <2>6, <2>7 DEF OperationsInv
<1>3. CASE ScanStep
  <2>1. BalanceInv'
    BY <1>3, EditBalanced DEF OperationsInv, ScanStep, uciVars
  <2>2. handed' = FALSE
    BY <1>3 DEF ScanStep, OperationsInv
  <2>3. QED
    BY <2>1, <2>2 DEF OperationsInv
<1>4. CASE ApplyStep
  <2>1. BalanceInv'
    BY <1>4, ApplyBalanced DEF OperationsInv, ApplyStep
  <2>2. frames' = <<>>
    BY <1>4 DEF ApplyStep, ApplyOp
  <2>3. QED
    BY <2>1, <2>2 DEF OperationsInv
<1>5. CASE SetConfigReturns
  <2>1. /\ frames' = <<>> /\ ops' = <<>> /\ editError' = "" /\ applied' = 0 /\ depth' = 0
        /\ handed' = FALSE
    BY <1>5 DEF SetConfigReturns, OperationsInv
  <2>2. QED
    BY <1>1, <2>1 DEF OperationsInv, BalanceInv
<1>6. ASSUME UNCHANGED <<frames, ops, editError, applied, depth>>, handed' => frames' = <<>>
      PROVE  OperationsInv'
  BY <1>6 DEF OperationsInv, BalanceInv, Shape, Calls
<1>7. CASE EditConfigOpsReturns
  BY <1>6, <1>7 DEF EditConfigOpsReturns, editVars, uciVars
<1>8. CASE Loop \/ Chain \/ Finish \/ Gc
  <2>1. UNCHANGED <<frames, ops, editError, applied, depth, handed>>
    BY <1>8 DEF Loop, Chain, Finish, Gc, insideVars, pluginVars, editVars, uciVars
  <2>2. QED
    BY <1>6, <2>1 DEF OperationsInv
<1>9. CASE BeginGet \/ CallOther \/ BuildNode \/ GetReturns \/ OtherReturns
  <2>1. UNCHANGED <<frames, ops, editError, applied, depth, handed>>
    BY <1>9 DEF BeginGet, CallOther, BuildNode, GetReturns, OtherReturns, insideVars, editVars, uciVars
  <2>2. QED
    BY <1>6, <2>1 DEF OperationsInv
<1>10. CASE UNCHANGED allVars
  BY <1>6, <1>10 DEF allVars, editVars, uciVars, OperationsInv
<1>11. QED
  BY <1>2, <1>3, <1>4, <1>5, <1>7, <1>8, <1>9, <1>10 DEF Next, InsidePlugin

(* applyops never finds a leave without its enter, and has left all it     *)
(* entered when it comes to the end: for any command and any               *)
(* configuration, editconfig() drops and adds its enters and leaves in     *)
(* pairs.                                                                  *)
THEOREM EditsBalance == Spec => []OpsBalanced
<1>1. OperationsInv => OpsBalanced
  <2> SUFFICES ASSUME OperationsInv
               PROVE  OpsBalanced
    OBVIOUS
  <2>1. PICK d : /\ Balanced(ops, d) /\ depth = d[applied] /\ editError # "runtime"
                 /\ (frames = <<>> /\ editError = "") => d[Len(ops)] = 0
    BY DEF OperationsInv, BalanceInv
  <2>2. QED
    BY <2>1 DEF OpsBalanced
<1>2. QED
  BY <1>1, OperationsBegin, OperationsStep, PTL DEF Spec

-----------------------------------------------------------------------------
(* The documents.  A node of the command is reached by positions, of which *)
(* the iterators go up.                                                    *)
Path(m) ==
  /\ IsSeq(m) /\ Len(m) \in Nat \ {0} /\ m[1] = "edit"
  /\ \A i \in 2..Len(m) : m[i] \in Nat
Edits(h) == {m \in DOMAIN h : m[1] = "edit"}
EditPaths(h) == \A m \in Edits(h) : Path(m)
InConfig(h, n) == n \in DOMAIN h /\ n[1] = "config" /\ Len(n) \in Nat \ {0}

(* A sequence of anything is a sequence of what it has.                    *)
LEMMA AnySeq ==
  ASSUME NEW T, NEW t \in Seq(T)
  PROVE  IsSeq(t)
<1>1. t \in [1..Len(t) -> {t[i] : i \in 1..Len(t)}] /\ Len(t) \in Nat
  OBVIOUS
<1>2. QED
  BY <1>1, SMTT(30) DEF IsSeq

(* Of the numbers of a set one is the least.                               *)
LEMMA LeastNumber ==
  ASSUME NEW N, N \subseteq Nat, N # {}
  PROVE  \E n \in N : \A m \in N : n <= m
<1>1. PICK n \in N : \A m \in N : ~(<<m, n>> \in OpToRel(<, Nat))
  BY NatLessThanWellFounded, WFMin
<1>2. \A m \in N : ~(m < n)
  BY <1>1 DEF OpToRel
<1>3. QED
  BY <1>2

(* What an iterator gives: nothing, or an element among the children,      *)
(* behind where it was.                                                    *)
LEMMA NextFacts ==
  ASSUME NEW h, EditPaths(h), NEW n, n[1] = "edit", Len(n) \in Nat \ {0}, NEW i
  PROVE  LET m == NextElement(h, n, i)
         IN  \/ m = Nil
             \/ /\ m \in Edits(h) /\ Len(m) = Len(n) + 1 /\ Below(n, m)
                /\ m[Len(n) + 1] > i /\ IsElement(h, m)
<1> DEFINE later == {m \in ChildNodes(h, n) : IsElement(h, m) /\ Last(m) > i}
<1>1. \A m \in ChildNodes(h, n) : /\ m \in Edits(h) /\ Len(m) = Len(n) + 1 /\ Below(n, m)
                                 /\ Path(m) /\ Last(m) = m[Len(n) + 1] /\ Last(m) \in Nat
  <2>1. TAKE m \in ChildNodes(h, n)
  <2>2. m \in DOMAIN h /\ Len(m) = Len(n) + 1 /\ Below(n, m)
    BY DEF ChildNodes
  <2>3. m[1] = "edit"
    BY <2>2 DEF Below
  <2>4. m \in Edits(h) /\ Path(m)
    BY <2>2, <2>3 DEF Edits, EditPaths
  <2>5. Last(m) = m[Len(n) + 1] /\ Len(n) + 1 \in 2..Len(m)
    BY <2>2 DEF Last
  <2>6. QED
    BY <2>2, <2>4, <2>5 DEF Path
<1>2. CASE later = {}
  BY <1>2 DEF NextElement
<1>3. CASE later # {}
  <2> DEFINE N == {Last(m) : m \in later}
  <2>1. N \subseteq Nat /\ N # {}
    BY <1>1, <1>3
  <2>2. PICK l \in N : \A k \in N : l <= k
    BY <2>1, LeastNumber
  <2>3. \E m \in later : \A k \in later : Last(m) <= Last(k)
    BY <2>2
  <2>4. NextElement(h, n, i) \in later
    BY <1>3, <2>3 DEF NextElement
  <2>5. QED
    BY <1>1, <2>4
<1>4. QED
  BY <1>2, <1>3

(* What config_identify gives: nothing, or a node of the configuration     *)
(* that has the name of the command's.                                     *)
LEMMA IdentifyFacts ==
  ASSUME NEW h, NEW c, NEW p, InConfig(h, p)
  PROVE  LET g == Identify(h, c, p) IN g = Nil \/ (InConfig(h, g) /\ h[g].name = h[c].name)
<1> DEFINE same == {m \in Elements(h, p) : h[m].name = h[c].name /\ h[m].key = h[c].key}
<1>1. CASE same = {}
  BY <1>1 DEF Identify
<1>2. CASE same # {}
  <2>1. Identify(h, c, p) \in same
    BY <1>2 DEF Identify
  <2>2. ASSUME NEW m \in same
        PROVE  InConfig(h, m) /\ h[m].name = h[c].name
    <3>1. m \in DOMAIN h /\ Len(m) = Len(p) + 1 /\ Below(p, m) /\ h[m].name = h[c].name
      BY DEF Elements, ChildNodes
    <3>2. QED
      BY <3>1 DEF InConfig, Below
  <2>3. QED
    BY <2>1, <2>2
<1>3. QED
  BY <1>1, <1>2

(* Where a call is in the two documents; the calls in it are at or below   *)
(* its node.                                                               *)
Child(n, m) == Len(m) = Len(n) + 1 /\ Below(n, m)
Stop(h, f) ==
  /\ f.cmd \in Edits(h)
  /\ f.at = Nil \/ (f.at \in Edits(h) /\ Child(f.cmd, f.at))
  /\ IF f.fn = "perform" THEN InConfig(h, f.cfg) ELSE f.cfg = Nil
Stops(h, fs) ==
  \A i \in 1..Len(fs) : /\ Stop(h, fs[i])
                        /\ \A k \in 1..(i - 1) : fs[k].at # Nil /\ Below(fs[k].at, fs[i].cmd)

(* children_perform goes down along the model.  An inner one is at a child *)
(* that the model has; one at a config or below has a config around it.    *)
Deep == {"config", "section", "option", "list", "item", "value", "content"}
Names(h, fs, j) ==
  \A i \in 1..j :
    /\ h[fs[i].cmd].name \in DOMAIN ModelChildren
    /\ h[fs[i].cmd].name \in Deep => \E k \in 2..i : h[fs[k].cmd].name = "config"
    /\ i < Len(fs) => h[fs[i].at].name \in ModelChildren[h[fs[i].cmd].name]

(* The nodes of an operation.  What is to be done below a config has an    *)
(* enter of it before.                                                     *)
OpNodes(h, o) ==
  /\ o.cmd \in Edits(h)
  /\ o.cfg = Nil \/ InConfig(h, o.cfg)
  /\ o.op = "remove-tree" => InConfig(h, o.cfg) /\ h[o.cfg].name = h[o.cmd].name
Covered(h, os, l) ==
  os[l].op \in {"add-tree", "remove-tree"} /\ h[os[l].cmd].name \in Deep \ {"config"} =>
    \E k \in 1..(l - 1) : os[k].op = "enter" /\ h[os[k].cmd].name = "config"
OpsInOrder(h, os) == IsSeq(os) /\ \A l \in 1..Len(os) : OpNodes(h, os[l]) /\ Covered(h, os, l)

(* No operation is about a node behind those that children_perform is at,  *)
(* nor, once the innermost has gone on, about one below its own.  So what  *)
(* create_scan deletes is not in any operation.                            *)
Behind(f, c) ==
  Len(f.cmd) < Len(c) /\ Below(f.cmd, c) => c[Len(f.cmd) + 1] <= f.at[Len(f.cmd) + 1]
Clear(f, c) ==
  Len(f.cmd) + 1 < Len(c) /\ Below(f.cmd, c) => c[Len(f.cmd) + 1] < f.at[Len(f.cmd) + 1]
Ahead(fs, os, j, clear) ==
  \A l \in 1..Len(os) : /\ \A i \in 1..j : fs[i].at # Nil => Behind(fs[i], os[l].cmd)
                        /\ clear /\ fs[j].at # Nil => Clear(fs[j], os[l].cmd)

Walk(h, fs, os, j, clear) ==
  /\ Shape(fs, os, j) /\ Stops(h, fs) /\ Names(h, fs, j)
  /\ OpsInOrder(h, os) /\ Ahead(fs, os, j, clear)

(* The model goes from edit over uci to config.                            *)
LEMMA ModelFacts ==
  ASSUME NEW n \in DOMAIN ModelChildren, NEW c \in ModelChildren[n]
  PROVE  c \in DOMAIN ModelChildren /\ (c \in Deep \ {"config"} => n \in Deep)
<1>1. DOMAIN ModelChildren = {"edit", "uci", "config", "section", "option", "list", "item", "value", "content"}
  BY DEF ModelChildren
<1>2. /\ ModelChildren["edit"] = {"uci"} /\ ModelChildren["uci"] = {"config"}
      /\ ModelChildren["config"] = {"section"} /\ ModelChildren["section"] = {"option", "list"}
      /\ ModelChildren["option"] = {"value"} /\ ModelChildren["list"] = {"item"}
      /\ ModelChildren["item"] = {"content"} /\ ModelChildren["value"] = {}
      /\ ModelChildren["content"] = {}
  BY DEF ModelChildren
<1>3. QED
  BY <1>1, <1>2 DEF Deep

(* A node is below its parent, and what is below a child is below it.      *)
LEMMA BelowFacts ==
  \A n, m, c : Len(n) \in Nat /\ Len(m) \in Nat /\ Len(c) \in Nat /\ Below(n, m) /\ Below(m, c) =>
    Below(n, c) /\ \A i \in 1..Len(m) : c[i] = m[i]
BY DEF Below

(* Where the call is that goes on.                                         *)
LEMMA AdvanceFacts ==
  ASSUME NEW h, EditPaths(h), NEW f, Stop(h, f), f.at # Nil
  PROVE  LET m == NextSibling(h, f.at)
         IN  m = Nil \/ (m \in Edits(h) /\ Child(f.cmd, m) /\ m[Len(f.cmd) + 1] > f.at[Len(f.cmd) + 1])
<1>1. /\ Path(f.cmd) /\ Path(f.at) /\ Child(f.cmd, f.at)
  BY DEF Stop, EditPaths, Edits
<1>2. f.at # <<>> /\ IsSeq(f.at) /\ Len(f.cmd) \in Nat \ {0} /\ Len(f.at) = Len(f.cmd) + 1
  BY <1>1 DEF Path, Child, Nil
<1> DEFINE p == Front(f.at)
<1>3. /\ Len(p) = Len(f.cmd) /\ \A i \in 1..Len(f.cmd) : p[i] = f.at[i]
      /\ Last(f.at) = f.at[Len(f.cmd) + 1]
  BY <1>2, FrontFacts
<1>4. \A i \in 1..Len(f.cmd) : p[i] = f.cmd[i]
  BY <1>1, <1>3 DEF Child, Below
<1>5. p[1] = "edit"
  BY <1>1, <1>2, <1>4 DEF Path
<1> DEFINE m == NextElement(h, p, Last(f.at))
<1>6. NextSibling(h, f.at) = m
  BY DEF NextSibling, Parent
<1> HIDE DEF p
<1>7. \/ m = Nil
      \/ m \in Edits(h) /\ Len(m) = Len(p) + 1 /\ Below(p, m) /\ m[Len(p) + 1] > Last(f.at)
  BY <1>2, <1>3, <1>5, NextFacts
<1> HIDE DEF m
<1>8. ASSUME m # Nil
      PROVE  m \in Edits(h) /\ Child(f.cmd, m) /\ m[Len(f.cmd) + 1] > f.at[Len(f.cmd) + 1]
  <2>1. m \in Edits(h) /\ Len(m) = Len(f.cmd) + 1 /\ m[Len(f.cmd) + 1] > f.at[Len(f.cmd) + 1]
    BY <1>3, <1>7, <1>8
  <2>2. Below(f.cmd, m)
    BY <1>2, <1>3, <1>4, <1>7, <1>8 DEF Below
  <2>3. QED
    BY <2>1, <2>2 DEF Child
<1>9. QED
  BY <1>6, <1>8

(* Where a call begins.                                                    *)
LEMMA FirstFacts ==
  ASSUME NEW h, EditPaths(h), NEW n \in Edits(h)
  PROVE  FirstChild(h, n) = Nil \/ (FirstChild(h, n) \in Edits(h) /\ Child(n, FirstChild(h, n)))
<1>1. n[1] = "edit" /\ Len(n) \in Nat \ {0}
  BY DEF EditPaths, Edits, Path
<1>2. QED
  BY <1>1, NextFacts DEF FirstChild, Child

(* The innermost call moves to another child of its node.                  *)
LEMMA TopMoves ==
  ASSUME NEW h, NEW fs, NEW os, NEW j, Shape(fs, os, j), Stops(h, fs), Names(h, fs, j),
         NEW f, IsFrame(f), f.fn = Last(fs).fn, f.cmd = Last(fs).cmd, f.opLast = Last(fs).opLast,
         f.cfg = Last(fs).cfg, f.at = Nil \/ (f.at \in Edits(h) /\ Child(f.cmd, f.at))
  PROVE  LET gs == Append(Front(fs), f)
         IN  /\ Shape(gs, os, j) /\ Stops(h, gs) /\ Names(h, gs, j)
             /\ Len(gs) = Len(fs) /\ gs[Len(fs)] = f /\ \A i \in 1..(Len(fs) - 1) : gs[i] = fs[i]
<1> DEFINE gs == Append(Front(fs), f)
<1>1. /\ Shape(gs, os, j) /\ Len(gs) = Len(fs) /\ gs[Len(fs)] = f
      /\ \A i \in 1..(Len(fs) - 1) : gs[i] = fs[i]
  BY ReplaceTop
<1>2. Len(fs) \in Nat \ {0} /\ Last(fs) = fs[Len(fs)] /\ j \in 1..Len(fs)
  BY TopFacts DEF Shape, Calls
<1> HIDE DEF gs
<1>3. \A i \in 1..Len(fs) : gs[i].cmd = fs[i].cmd /\ (i = Len(fs) \/ gs[i] = fs[i])
  BY <1>1, <1>2
<1>4. Stops(h, gs)
  <2>1. ASSUME NEW i \in 1..Len(gs)
        PROVE  Stop(h, gs[i])
    <3>1. CASE i = Len(fs)
      <4>1. Stop(h, fs[i]) /\ gs[i] = f /\ fs[i] = Last(fs)
        BY <1>1, <1>2, <3>1 DEF Stops
      <4>2. QED
        BY <4>1 DEF Stop
    <3>2. CASE i # Len(fs)
      BY <1>1, <1>3, <3>2 DEF Stops
    <3>3. QED
      BY <3>1, <3>2
  <2>2. ASSUME NEW i \in 1..Len(gs), NEW k \in 1..(i - 1)
        PROVE  gs[k].at # Nil /\ Below(gs[k].at, gs[i].cmd)
    <3>1. k \in 1..(Len(fs) - 1) /\ i \in 1..Len(fs)
      BY <1>1, <1>2
    <3>2. gs[k] = fs[k] /\ gs[i].cmd = fs[i].cmd
      BY <1>1, <1>3, <3>1
    <3>3. QED
      BY <3>1, <3>2 DEF Stops
  <2>3. QED
    BY <2>1, <2>2 DEF Stops
<1>5. Names(h, gs, j)
  <2>1. ASSUME NEW i \in 1..j
        PROVE  /\ h[gs[i].cmd].name \in DOMAIN ModelChildren
               /\ h[gs[i].cmd].name \in Deep => \E k \in 2..i : h[gs[k].cmd].name = "config"
               /\ i < Len(gs) => h[gs[i].at].name \in ModelChildren[h[gs[i].cmd].name]
    <3>1. i \in 1..Len(fs) /\ \A k \in 2..i : k \in 1..Len(fs)
      BY <1>2
    <3>2. gs[i].cmd = fs[i].cmd /\ \A k \in 2..i : gs[k].cmd = fs[k].cmd
      BY <1>3, <3>1
    <3>3. i < Len(gs) => gs[i].at = fs[i].at /\ i < Len(fs)
      BY <1>1, <1>2, <1>3, <3>1
    <3>4. QED
      BY <3>2, <3>3 DEF Names
  <2>2. QED
    BY <2>1 DEF Names
<1>6. QED
  BY <1>1, <1>4, <1>5 DEF gs

(* children_perform goes on: what was done at its node and below lies      *)
(* behind.                                                                 *)
LEMMA WalkAdvances ==
  ASSUME NEW h, EditPaths(h), NEW fs, NEW os, NEW j, NEW clear, Walk(h, fs, os, j, clear),
         j = Len(fs), Last(fs).at # Nil,
         NEW f, IsFrame(f), f.fn = Last(fs).fn, f.cmd = Last(fs).cmd, f.opLast = Last(fs).opLast,
         f.cfg = Last(fs).cfg, f.at = NextSibling(h, Last(fs).at)
  PROVE  Walk(h, Append(Front(fs), f), os, j, TRUE)
<1> DEFINE gs == Append(Front(fs), f)
           old == Last(fs)
<1>1. old = fs[j] /\ j \in Nat \ {0} /\ Stop(h, old)
  BY TopFacts DEF Walk, Shape, Calls, Stops
<1>2. f.at = Nil \/ (f.at \in Edits(h) /\ Child(f.cmd, f.at)
                     /\ f.at[Len(f.cmd) + 1] > old.at[Len(f.cmd) + 1])
  BY <1>1, AdvanceFacts
<1>3. /\ Shape(gs, os, j) /\ Stops(h, gs) /\ Names(h, gs, j)
      /\ Len(gs) = j /\ gs[j] = f /\ \A i \in 1..(j - 1) : gs[i] = fs[i]
  BY <1>2, TopMoves DEF Walk
<1> HIDE DEF gs, old
<1>4. Ahead(gs, os, j, TRUE)
  <2>1. ASSUME NEW l \in 1..Len(os), f.at # Nil
        PROVE  Behind(f, os[l].cmd) /\ Clear(f, os[l].cmd)
    <3> DEFINE c == os[l].cmd
               n == Len(f.cmd) + 1
    <3>1. Behind(old, c) /\ old.cmd = f.cmd /\ old.at # Nil
      BY <1>1 DEF Walk, Ahead, old
    <3>2. c \in Edits(h) /\ old.cmd \in Edits(h) /\ old.at \in Edits(h) /\ Child(old.cmd, old.at)
      BY <1>1, <3>1 DEF Walk, OpsInOrder, OpNodes, Stop
    <3>3. Path(c) /\ Path(f.cmd) /\ Path(old.at) /\ Path(f.at) /\ Len(old.at) = n /\ Len(f.at) = n
      BY <1>2, <2>1, <3>1, <3>2 DEF EditPaths, Child, Edits
    <3>4. /\ Len(f.cmd) \in Nat \ {0} /\ Len(c) \in Nat /\ old.at[n] \in Nat /\ f.at[n] \in Nat
          /\ (n <= Len(c) => c[n] \in Nat)
      BY <3>3 DEF Path
    <3>5. Len(f.cmd) < Len(c) /\ Below(f.cmd, c) => c[n] <= old.at[n]
      BY <3>1 DEF Behind
    <3>6. f.at[n] > old.at[n]
      BY <1>2, <2>1
    <3> HIDE DEF c, n
    <3>7. Len(f.cmd) < Len(c) /\ Below(f.cmd, c) => c[n] < f.at[n]
      <4>1. n = Len(f.cmd) + 1
        BY DEF n
      <4>2. QED
        BY <3>4, <3>5, <3>6, <4>1
    <3>8. QED
      BY <3>4, <3>7 DEF Behind, Clear, n, c
  <2>2. ASSUME NEW l \in 1..Len(os), NEW i \in 1..j, gs[i].at # Nil
        PROVE  Behind(gs[i], os[l].cmd)
    <3>1. CASE i = j
      BY <1>3, <2>1, <2>2, <3>1
    <3>2. CASE i # j
      <4>1. gs[i] = fs[i]
        BY <1>1, <1>3, <3>2
      <4>2. QED
        BY <2>2, <4>1 DEF Walk, Ahead
    <3>3. QED
      BY <3>1, <3>2
  <2>3. QED
    BY <1>3, <2>1, <2>2 DEF Ahead
<1>5. QED
  BY <1>3, <1>4 DEF Walk, gs

(* Calls that leave the outer ones as they are leave behind what was       *)
(* behind.                                                                 *)
LEMMA SameAhead ==
  ASSUME NEW fs, NEW gs, NEW os, NEW j, NEW clear, Ahead(fs, os, j, clear), j \in Nat \ {0},
         \A i \in 1..j : gs[i] = fs[i]
  PROVE  Ahead(gs, os, j, clear)
BY DEF Ahead

(* create_scan goes on, or starts again.                                   *)
LEMMA WalkScans ==
  ASSUME NEW h, NEW fs, NEW os, NEW j, NEW clear, Walk(h, fs, os, j, clear), j < Len(fs),
         NEW f, IsFrame(f), f.fn = Last(fs).fn, f.cmd = Last(fs).cmd, f.opLast = Last(fs).opLast,
         f.cfg = Last(fs).cfg, f.at = Nil \/ (f.at \in Edits(h) /\ Child(f.cmd, f.at))
  PROVE  Walk(h, Append(Front(fs), f), os, j, clear)
<1> DEFINE gs == Append(Front(fs), f)
<1>1. /\ Shape(gs, os, j) /\ Stops(h, gs) /\ Names(h, gs, j)
      /\ \A i \in 1..(Len(fs) - 1) : gs[i] = fs[i]
  BY TopMoves DEF Walk
<1>2. j \in Nat \ {0} /\ Len(fs) \in Nat
  BY TopFacts DEF Walk, Shape, Calls
<1> HIDE DEF gs
<1>3. Ahead(gs, os, j, clear)
  BY <1>1, <1>2, SameAhead DEF Walk
<1>4. QED
  BY <1>1, <1>3 DEF Walk, gs

(* A call that begins inside the innermost one.                            *)
LEMMA StopsPushed ==
  ASSUME NEW h, EditPaths(h), NEW fs, IsSeq(fs), Len(fs) \in Nat \ {0}, Stops(h, fs),
         NEW f, Stop(h, f), fs[Len(fs)].at # Nil, f.cmd = fs[Len(fs)].at
  PROVE  Stops(h, Append(fs, f))
<1> DEFINE gs == Append(fs, f)
           top == fs[Len(fs)]
<1>1. Len(gs) = Len(fs) + 1 /\ gs[Len(fs) + 1] = f /\ \A i \in 1..Len(fs) : gs[i] = fs[i]
  BY AppendFacts
<1> HIDE DEF gs
<1>2. ASSUME NEW i \in 1..Len(gs)
      PROVE  Stop(h, gs[i])
  <2>1. i = Len(fs) + 1 \/ i \in 1..Len(fs)
    BY <1>1
  <2>2. QED
    BY <1>1, <2>1 DEF Stops
<1>3. ASSUME NEW i \in 1..Len(gs), NEW k \in 1..(i - 1)
      PROVE  gs[k].at # Nil /\ Below(gs[k].at, gs[i].cmd)
  <2>1. CASE i \in 1..Len(fs)
    <3>1. k \in 1..Len(fs)
      BY <2>1
    <3>2. QED
      BY <1>1, <2>1, <3>1 DEF Stops
  <2>2. CASE i = Len(fs) + 1
    <3>1. k \in 1..Len(fs) /\ gs[k] = fs[k] /\ gs[i].cmd = top.at
      BY <1>1, <2>2
    <3>2. CASE k = Len(fs)
      <4>1. top.at \in Edits(h)
        BY DEF Stops, Stop
      <4>2. Below(top.at, top.at)
        BY <4>1 DEF Below, Edits, EditPaths, Path
      <4>3. QED
        BY <3>1, <3>2, <4>2
    <3>3. CASE k # Len(fs)
      <4>1. k \in 1..(Len(fs) - 1) /\ Len(fs) \in 1..Len(fs)
        BY <3>1, <3>3
      <4>2. fs[k].at # Nil /\ Below(fs[k].at, top.cmd) /\ Stop(h, fs[k]) /\ Stop(h, top)
        BY <3>1, <4>1 DEF Stops
      <4>3. /\ Below(top.cmd, top.at) /\ Len(fs[k].at) \in Nat /\ Len(top.cmd) \in Nat
            /\ Len(top.at) \in Nat
        BY <4>2 DEF Stop, Child, EditPaths, Edits, Path
      <4>4. Below(fs[k].at, top.at)
        BY <4>2, <4>3, BelowFacts
      <4>5. QED
        BY <3>1, <4>2, <4>4
    <3>4. QED
      BY <3>2, <3>3
  <2>3. QED
    BY <1>1, <2>1, <2>2
<1>4. QED
  BY <1>2, <1>3 DEF Stops, gs

(* create_scan is called, by children_perform for a node of the model.     *)
LEMMA WalkIntoScan ==
  ASSUME NEW h, EditPaths(h), NEW fs, NEW os, NEW j, NEW clear, Walk(h, fs, os, j, clear),
         Last(fs).at # Nil,
         j = Len(fs) => h[Last(fs).at].name \in ModelChildren[h[Last(fs).cmd].name],
         NEW f, IsFrame(f), f.fn = "scan", f.cfg = Nil, f.cmd = Last(fs).at, f.at = FirstChild(h, f.cmd)
  PROVE  Walk(h, Append(fs, f), os, j, clear)
<1> DEFINE gs == Append(fs, f)
           top == fs[Len(fs)]
<1>1. /\ Shape(gs, os, j) /\ Len(gs) = Len(fs) + 1 /\ gs[Len(fs) + 1] = f
      /\ \A i \in 1..Len(fs) : gs[i] = fs[i]
  BY PushScan DEF Walk
<1>2. Last(fs) = top /\ IsSeq(fs) /\ Len(fs) \in Nat \ {0} /\ j \in 1..Len(fs)
  BY TopFacts DEF Walk, Shape, Calls
<1>3. f.cmd \in Edits(h)
  BY <1>2 DEF Walk, Stops, Stop
<1>4. Stop(h, f)
  BY <1>3, FirstFacts DEF Stop
<1>5. Stops(h, gs)
  BY <1>2, <1>4, StopsPushed DEF Walk
<1> HIDE DEF gs
<1>6. ASSUME NEW i \in 1..j
      PROVE  gs[i] = fs[i] /\ i \in 1..Len(fs) /\ (i < Len(fs) \/ (i = Len(fs) /\ j = Len(fs)))
  <2>1. \A m, n \in Nat \ {0} : \A k \in 1..n : n <= m => k \in 1..m /\ (k < m \/ (k = m /\ n = m))
    OBVIOUS
  <2>2. i \in 1..Len(fs) /\ (i < Len(fs) \/ (i = Len(fs) /\ j = Len(fs)))
    <3>1. j \in Nat \ {0} /\ j <= Len(fs)
      BY <1>2
    <3>2. QED
      BY <1>2, <2>1, <3>1
  <2>3. QED
    BY <1>1, <2>2
<1>7. Names(h, gs, j)
  <2>1. ASSUME NEW i \in 1..j
        PROVE  /\ h[gs[i].cmd].name \in DOMAIN ModelChildren
               /\ h[gs[i].cmd].name \in Deep => \E k \in 2..i : h[gs[k].cmd].name = "config"
               /\ h[gs[i].at].name \in ModelChildren[h[gs[i].cmd].name]
    <3>1. \A k \in 2..i : k \in 1..j
      BY <1>2
    <3>2. CASE i < Len(fs)
      BY <1>6, <3>1, <3>2 DEF Walk, Names
    <3>3. CASE i = Len(fs) /\ j = Len(fs)
      BY <1>2, <1>6, <3>1, <3>3 DEF Walk, Names
    <3>4. QED
      BY <1>6, <3>2, <3>3
  <2>2. QED
    BY <2>1 DEF Names
<1>8. Ahead(gs, os, j, clear)
  BY <1>2, <1>6, SameAhead DEF Walk
<1>9. QED
  BY <1>1, <1>5, <1>7, <1>8 DEF Walk, gs

(* children_perform adds an operation for its node.                        *)
LEMMA WalkMoreOps ==
  ASSUME NEW h, EditPaths(h), NEW fs, NEW os, NEW j, NEW clear, Walk(h, fs, os, j, clear),
         j = Len(fs), Last(fs).at # Nil,
         NEW o, OpNodes(h, o), o.cmd = Last(fs).at,
         o.op \in {"add-tree", "remove-tree"} =>
           h[Last(fs).at].name \in ModelChildren[h[Last(fs).cmd].name]
  PROVE  Walk(h, fs, Append(os, o), j, clear)
<1> DEFINE more == Append(os, o)
           top == fs[j]
<1>1. /\ IsSeq(more) /\ Len(more) = Len(os) + 1 /\ Len(os) \in Nat
      /\ more[Len(os) + 1] = o /\ \A l \in 1..Len(os) : more[l] = os[l]
  BY AppendFacts, SeqFacts DEF Walk, Shape
<1>2. Shape(fs, more, j)
  BY AddOp DEF Walk
<1>3. Last(fs) = top /\ j \in Nat \ {0} /\ \A i \in 1..j : Stop(h, fs[i])
  BY TopFacts DEF Walk, Shape, Calls, Stops
<1>4. \A i \in 2..j : /\ fs[i].opLast \in 1..Len(os)
                     /\ os[fs[i].opLast].op = "enter" /\ os[fs[i].opLast].cmd = fs[i].cmd
  BY DEF Walk, Shape, Enters
<1> HIDE DEF more
<1>5. Covered(h, more, Len(os) + 1)
  <2>1. ASSUME o.op \in {"add-tree", "remove-tree"}, h[o.cmd].name \in Deep \ {"config"}
        PROVE  \E k \in 1..Len(os) : more[k].op = "enter" /\ h[more[k].cmd].name = "config"
    <3>1. h[top.cmd].name \in DOMAIN ModelChildren /\ h[o.cmd].name \in ModelChildren[h[top.cmd].name]
      BY <1>3, <2>1 DEF Walk, Names
    <3>2. h[top.cmd].name \in Deep
      BY <2>1, <3>1, ModelFacts
    <3>3. PICK i \in 2..j : h[fs[i].cmd].name = "config"
      BY <1>3, <3>2 DEF Walk, Names
    <3>4. QED
      BY <1>1, <1>4, <3>3
  <2>2. (Len(os) + 1) - 1 = Len(os)
    BY <1>1
  <2>3. QED
    BY <1>1, <2>1, <2>2 DEF Covered
<1>6. OpsInOrder(h, more)
  <2>1. ASSUME NEW l \in 1..Len(os)
        PROVE  OpNodes(h, more[l]) /\ Covered(h, more, l)
    <3>1. OpNodes(h, os[l]) /\ Covered(h, os, l) /\ more[l] = os[l]
      BY <1>1 DEF Walk, OpsInOrder
    <3>2. \A k \in 1..(l - 1) : more[k] = os[k]
      BY <1>1
    <3>3. QED
      BY <3>1, <3>2 DEF Covered
  <2>2. \A l \in 1..Len(more) : l \in 1..Len(os) \/ l = Len(os) + 1
    BY <1>1
  <2>3. QED
    BY <1>1, <1>5, <2>1, <2>2 DEF OpsInOrder
<1>7. ASSUME NEW i \in 1..j, fs[i].at # Nil
      PROVE  Behind(fs[i], o.cmd)
  <2> DEFINE n == Len(fs[i].cmd) + 1
  <2>1. /\ Stop(h, fs[i]) /\ fs[i].cmd \in Edits(h) /\ fs[i].at \in Edits(h)
        /\ Len(fs[i].at) = n /\ Len(fs[i].cmd) \in Nat \ {0} /\ Path(fs[i].at)
    BY <1>3, <1>7 DEF Stop, Child, EditPaths, Edits, Path
  <2>2. fs[i].at[n] \in Nat /\ n \in 1..Len(fs[i].at)
    BY <2>1 DEF Path
  <2>3. top.at[n] = fs[i].at[n]
    <3>1. CASE i # j
      <4>1. i \in 1..(j - 1) /\ j \in 1..Len(fs)
        BY <1>3, <3>1
      <4>2. Below(fs[i].at, top.cmd) /\ Stop(h, top) /\ top.at # Nil
        BY <1>3, <4>1 DEF Walk, Stops
      <4>3. Below(top.cmd, top.at) /\ Len(top.cmd) \in Nat /\ Len(top.at) \in Nat /\ Len(fs[i].at) \in Nat
        BY <2>1, <4>2 DEF Stop, Child, EditPaths, Edits, Path
      <4>4. Below(fs[i].at, top.at)
        BY <4>2, <4>3, BelowFacts
      <4>5. QED
        BY <2>2, <4>4 DEF Below
    <3>2. QED
      BY <3>1
  <2>4. QED
    BY <1>3, <2>2, <2>3 DEF Behind
<1>8. Clear(fs[j], o.cmd)
  <2>1. Len(top.at) = Len(top.cmd) + 1 /\ o.cmd = top.at /\ Len(top.cmd) \in Nat
    BY <1>3 DEF Stop, Child, EditPaths, Edits, Path
  <2>2. QED
    BY <2>1 DEF Clear
<1>9. Ahead(fs, more, j, clear)
  <2>1. \A l \in 1..Len(more) : (l \in 1..Len(os) /\ more[l] = os[l]) \/ more[l] = o
    BY <1>1
  <2>2. QED
    BY <1>7, <1>8, <2>1 DEF Walk, Ahead
<1>10. QED
  BY <1>2, <1>6, <1>9 DEF Walk, more

(* children_perform calls itself for a node of the model: there is no      *)
(* operation below that node yet.                                          *)
LEMMA WalkIntoPerform ==
  ASSUME NEW h, EditPaths(h), NEW fs, NEW os, NEW j, Walk(h, fs, os, j, TRUE),
         j = Len(fs), Last(fs).at # Nil,
         h[Last(fs).at].name \in ModelChildren[h[Last(fs).cmd].name],
         NEW o, OpNodes(h, o), o.op = "enter", o.cmd = Last(fs).at,
         NEW f, IsFrame(f), f.fn = "perform", f.opLast = Len(os) + 1, f.cmd = Last(fs).at,
         InConfig(h, f.cfg), f.at = FirstChild(h, f.cmd)
  PROVE  Walk(h, Append(fs, f), Append(os, o), j + 1, TRUE)
<1> DEFINE gs == Append(fs, f)
           more == Append(os, o)
           top == fs[j]
<1>1. /\ Shape(gs, more, j + 1) /\ Len(gs) = j + 1 /\ gs[j + 1] = f
      /\ \A i \in 1..j : gs[i] = fs[i]
  BY PushPerform DEF Walk
<1>2. Last(fs) = top /\ IsSeq(fs) /\ j \in Nat \ {0}
  BY TopFacts DEF Walk, Shape, Calls
<1>3. Walk(h, fs, more, j, TRUE)
  BY WalkMoreOps
<1>4. top.cmd \in Edits(h) /\ top.at \in Edits(h) /\ Child(top.cmd, top.at) /\ f.cmd = top.at
  BY <1>2 DEF Walk, Stops, Stop
<1>5. Stop(h, f)
  BY <1>4, FirstFacts DEF Stop
<1>6. Stops(h, gs)
  BY <1>2, <1>5, StopsPushed DEF Walk
<1> HIDE DEF gs, more
<1>7. \A i \in 1..(j + 1) : i \in 1..j \/ i = j + 1
  BY <1>2
<1>8. Names(h, gs, j + 1)
  <2>1. ASSUME NEW i \in 1..j
        PROVE  /\ h[gs[i].cmd].name \in DOMAIN ModelChildren
               /\ h[gs[i].cmd].name \in Deep => \E k \in 2..i : h[gs[k].cmd].name = "config"
               /\ i < Len(gs) => h[gs[i].at].name \in ModelChildren[h[gs[i].cmd].name]
    <3>1. \A k \in 2..i : k \in 1..j
      BY <1>2
    <3>2. i < Len(fs) \/ i = j
      BY <1>2
    <3>3. QED
      BY <1>1, <1>2, <3>1, <3>2 DEF Walk, Names
  <2>2. h[f.cmd].name \in DOMAIN ModelChildren
        /\ (h[f.cmd].name \in Deep \ {"config"} => h[top.cmd].name \in Deep)
    <3>1. j \in 1..j
      BY <1>2
    <3>2. h[top.cmd].name \in DOMAIN ModelChildren
      BY <3>1 DEF Walk, Names
    <3>3. QED
      BY <1>2, <1>4, <3>2, ModelFacts
  <2>3. h[f.cmd].name \in Deep => \E k \in 2..(j + 1) : h[gs[k].cmd].name = "config"
    <3>1. CASE h[f.cmd].name = "config"
      <4>1. j + 1 \in 2..(j + 1) /\ gs[j + 1].cmd = f.cmd
        BY <1>1, <1>2
      <4>2. QED
        BY <3>1, <4>1
    <3>2. CASE h[f.cmd].name \in Deep \ {"config"}
      <4>1. j \in 1..j /\ \A k \in 2..j : k \in 2..(j + 1) /\ k \in 1..j
        BY <1>2
      <4>2. \E k \in 2..j : h[fs[k].cmd].name = "config"
        BY <2>2, <3>2, <4>1 DEF Walk, Names
      <4>3. QED
        BY <1>1, <4>1, <4>2
    <3>3. QED
      BY <3>1, <3>2
  <2>4. ~(j + 1 < Len(gs))
    BY <1>1, <1>2
  <2>5. QED
    BY <1>1, <1>7, <2>1, <2>2, <2>3, <2>4 DEF Names
<1>9. ASSUME NEW l \in 1..Len(more)
      PROVE  ~(Len(f.cmd) < Len(more[l].cmd) /\ Below(f.cmd, more[l].cmd))
  <2> DEFINE c == more[l].cmd
             n == Len(top.cmd) + 1
  <2>1. Clear(top, c)
    BY <1>2, <1>3 DEF Walk, Ahead
  <2>2. Len(f.cmd) = n /\ Len(top.cmd) \in Nat \ {0} /\ Below(top.cmd, f.cmd) /\ Path(f.cmd)
    BY <1>4 DEF Child, EditPaths, Edits, Path
  <2>3. c \in Edits(h)
    BY <1>3 DEF Walk, OpsInOrder, OpNodes
  <2>4. Len(c) \in Nat
    BY <2>3 DEF Edits, EditPaths, Path
  <2> HIDE DEF c
  <2>5. ASSUME Len(f.cmd) < Len(c), Below(f.cmd, c)
        PROVE  FALSE
    <3>1. Below(top.cmd, c) /\ Len(top.cmd) + 1 < Len(c)
      BY <2>2, <2>4, <2>5, BelowFacts
    <3>2. c[n] < top.at[n]
      BY <2>1, <3>1 DEF Clear
    <3>3. n \in 1..Len(f.cmd) /\ n \in 2..Len(f.cmd)
      BY <2>2
    <3>4. c[n] = f.cmd[n] /\ f.cmd[n] \in Nat /\ f.cmd = top.at
      BY <1>4, <2>2, <2>5, <3>3 DEF Below, Path
    <3>5. QED
      BY <3>2, <3>4
  <2>6. QED
    BY <2>5 DEF c
<1>10. Ahead(gs, more, j + 1, TRUE)
  <2>1. ASSUME NEW l \in 1..Len(more)
        PROVE  Behind(f, more[l].cmd) /\ Clear(f, more[l].cmd)
    <3>1. Len(f.cmd) \in Nat /\ Len(more[l].cmd) \in Nat
      BY <1>3, <1>4 DEF Walk, OpsInOrder, OpNodes, EditPaths, Edits, Path
    <3>2. QED
      BY <1>9, <3>1 DEF Behind, Clear
  <2>2. ASSUME NEW l \in 1..Len(more), NEW i \in 1..j, gs[i].at # Nil
        PROVE  Behind(gs[i], more[l].cmd)
    BY <1>1, <1>3, <2>2 DEF Walk, Ahead
  <2>3. QED
    BY <1>1, <1>7, <2>1, <2>2 DEF Ahead
<1>11. QED
  BY <1>1, <1>3, <1>6, <1>8, <1>10 DEF Walk, gs, more

(* The innermost call is left.                                             *)
LEMMA StopsPopped ==
  ASSUME NEW h, NEW fs, NEW j, Calls(fs, j), Stops(h, fs), Names(h, fs, j), Len(fs) > 1
  PROVE  /\ Stops(h, Front(fs))
         /\ \A m \in 1..j : m < Len(fs) => Names(h, Front(fs), m)
<1> DEFINE gs == Front(fs)
<1>1. /\ Len(gs) = Len(fs) - 1 /\ Len(fs) \in Nat \ {0} /\ j \in 1..Len(fs)
      /\ \A i \in 1..(Len(fs) - 1) : gs[i] = fs[i]
  BY TopFacts, FrontFacts DEF Calls
<1> HIDE DEF gs
<1>2. Stops(h, gs)
  <2>1. \A i \in 1..Len(gs) : i \in 1..Len(fs) /\ gs[i] = fs[i] /\ \A k \in 1..(i - 1) : k \in 1..(Len(fs) - 1)
    BY <1>1
  <2>2. \A i \in 1..Len(gs) : \A k \in 1..(i - 1) : gs[k] = fs[k]
    BY <1>1, <2>1
  <2>3. QED
    BY <2>1, <2>2 DEF Stops
<1>3. ASSUME NEW m \in 1..j, m < Len(fs)
      PROVE  Names(h, gs, m)
  <2>1. ASSUME NEW i \in 1..m
        PROVE  /\ h[gs[i].cmd].name \in DOMAIN ModelChildren
               /\ h[gs[i].cmd].name \in Deep => \E k \in 2..i : h[gs[k].cmd].name = "config"
               /\ i < Len(gs) => h[gs[i].at].name \in ModelChildren[h[gs[i].cmd].name]
    <3>1. i \in 1..j /\ i \in 1..(Len(fs) - 1) /\ i < Len(fs) /\ \A k \in 2..i : k \in 1..(Len(fs) - 1)
      BY <1>1, <1>3
    <3>2. gs[i] = fs[i] /\ \A k \in 2..i : gs[k] = fs[k]
      BY <1>1, <3>1
    <3>3. QED
      BY <3>1, <3>2 DEF Names
  <2>2. QED
    BY <2>1 DEF Names
<1>4. QED
  BY <1>2, <1>3 DEF gs

(* create_scan returns.                                                    *)
LEMMA WalkOutOfScan ==
  ASSUME NEW h, NEW fs, NEW os, NEW j, NEW clear, Walk(h, fs, os, j, clear), j < Len(fs)
  PROVE  Walk(h, Front(fs), os, j, clear) /\ Last(Front(fs)).at # Nil
<1>1. /\ Len(fs) \in Nat \ {0} /\ j \in 1..Len(fs) /\ Len(fs) > 1 /\ IsSeq(fs) /\ fs # <<>>
      /\ Last(Front(fs)) = fs[Len(fs) - 1]
  <2>1. Len(fs) \in Nat \ {0} /\ j \in 1..Len(fs) /\ IsSeq(fs) /\ fs # <<>>
    BY TopFacts DEF Walk, Shape, Calls
  <2>2. Len(fs) > 1
    BY <2>1
  <2>3. QED
    BY <2>1, <2>2, TopFacts DEF Walk, Shape
<1>2. \A i \in 1..j : Front(fs)[i] = fs[i]
  <2>1. \A i \in 1..j : i \in 1..(Len(fs) - 1)
    BY <1>1
  <2>2. QED
    BY <1>1, <2>1, FrontFacts
<1>3. Shape(Front(fs), os, j)
  BY PopScan DEF Walk
<1>4. Stops(h, Front(fs)) /\ Names(h, Front(fs), j)
  <2>1. j \in 1..j
    BY <1>1
  <2>2. QED
    BY <1>1, <2>1, StopsPopped DEF Walk, Shape
<1>5. Ahead(Front(fs), os, j, clear)
  <2>1. j \in Nat \ {0}
    BY <1>1
  <2>2. QED
    BY <1>2, <2>1, SameAhead DEF Walk
<1>6. fs[Len(fs) - 1].at # Nil
  <2>1. Len(fs) \in 1..Len(fs) /\ Len(fs) - 1 \in 1..(Len(fs) - 1)
    BY <1>1
  <2>2. QED
    BY <2>1 DEF Walk, Stops
<1>7. QED
  BY <1>1, <1>3, <1>4, <1>5, <1>6 DEF Walk

(* children_perform returns to itself; an enter that is the last operation *)
(* is dropped.                                                             *)
LEMMA WalkOutOfPerform ==
  ASSUME NEW h, NEW fs, NEW os, NEW j, NEW clear, Walk(h, fs, os, j, clear), j = Len(fs), Len(fs) > 1,
         NEW left, left = os \/ (left = Front(os) /\ Len(os) = Last(fs).opLast)
  PROVE  Walk(h, Front(fs), left, j - 1, FALSE) /\ Last(Front(fs)).at # Nil
<1>1. /\ j \in Nat \ {0} /\ IsSeq(fs) /\ fs # <<>> /\ Last(Front(fs)) = fs[j - 1] /\ j > 1
  BY TopFacts DEF Walk, Shape, Calls
<1>2. \A i \in 1..(j - 1) : i \in 1..j /\ Front(fs)[i] = fs[i]
  BY <1>1, FrontFacts
<1>3. Shape(Front(fs), left, j - 1)
  BY PopPerform DEF Walk
<1>4. Stops(h, Front(fs)) /\ Names(h, Front(fs), j - 1)
  <2>1. j - 1 \in 1..j /\ j - 1 < Len(fs)
    BY <1>1
  <2>2. QED
    BY <2>1, StopsPopped DEF Walk, Shape
<1>5. /\ IsSeq(left) /\ Len(left) \in 0..Len(os) /\ Len(os) \in Nat
      /\ \A l \in 1..Len(left) : l \in 1..Len(os) /\ left[l] = os[l]
  <2>1. IsSeq(os) /\ Len(os) \in Nat
    BY SeqFacts DEF Walk, Shape
  <2>2. CASE left = os
    BY <2>1, <2>2
  <2>3. CASE left = Front(os) /\ Len(os) = Last(fs).opLast
    <3>1. os # <<>>
      BY <2>3, PopPerform DEF Walk
    <3>2. /\ IsSeq(left) /\ Len(left) = Len(os) - 1 /\ Len(os) \in Nat \ {0}
          /\ \A l \in 1..(Len(os) - 1) : left[l] = os[l]
      BY <2>1, <2>3, <3>1, FrontFacts
    <3>3. QED
      BY <3>2
  <2>4. QED
    BY <2>2, <2>3
<1>6. OpsInOrder(h, left)
  <2>1. ASSUME NEW l \in 1..Len(left)
        PROVE  OpNodes(h, left[l]) /\ Covered(h, left, l)
    <3>1. l \in 1..Len(os) /\ left[l] = os[l] /\ OpNodes(h, os[l]) /\ Covered(h, os, l)
      BY <1>5 DEF Walk, OpsInOrder
    <3>2. \A k \in 1..(l - 1) : k \in 1..Len(left)
      BY <1>5
    <3>3. \A k \in 1..(l - 1) : left[k] = os[k]
      BY <1>5, <3>2
    <3>4. QED
      BY <3>1, <3>3 DEF Covered
  <2>2. QED
    BY <1>5, <2>1 DEF OpsInOrder
<1>7. Ahead(Front(fs), left, j - 1, FALSE)
  BY <1>2, <1>5 DEF Walk, Ahead
<1>8. fs[j - 1].at # Nil
  <2>1. j \in 1..Len(fs) /\ j - 1 \in 1..(j - 1)
    BY <1>1
  <2>2. QED
    BY <2>1 DEF Walk, Stops
<1>9. QED
  BY <1>1, <1>3, <1>4, <1>6, <1>7, <1>8 DEF Walk

(* node:delete() in create_scan: the nodes that go.  The calls around are  *)
(* above them, and so far no operation is about any of them.               *)
LEMMA NotDeleted ==
  ASSUME NEW h, EditPaths(h), NEW fs, NEW os, NEW j, Walk(h, fs, os, j, TRUE), j < Len(fs),
         Last(fs).at # Nil
  PROVE  LET a == Last(fs).at
         IN  /\ \A n : n[1] = "config" => ~Below(a, n)
             /\ \A i \in 1..Len(fs) : ~Below(a, fs[i].cmd) /\ (i < Len(fs) => ~Below(a, fs[i].at))
             /\ \A l \in 1..Len(os) : ~Below(a, os[l].cmd)
<1> DEFINE top == fs[Len(fs)]
           a == top.at
           out == fs[j]
<1>1. Last(fs) = top /\ Len(fs) \in Nat \ {0} /\ j \in 1..Len(fs) /\ j \in 1..(Len(fs) - 1)
  BY TopFacts DEF Walk, Shape, Calls
<1>2. Stop(h, top)
  BY <1>1 DEF Walk, Stops
<1>3. /\ Path(top.cmd) /\ Path(a) /\ Child(top.cmd, a) /\ Len(top.cmd) \in Nat \ {0}
      /\ Len(a) = Len(top.cmd) + 1
  BY <1>1, <1>2 DEF Stop, EditPaths, Edits, Child, Path
<1>4. ASSUME NEW n, n[1] = "config"
      PROVE  ~Below(a, n)
  <2>1. 1 \in 1..Len(a) /\ a[1] = "edit"
    BY <1>3 DEF Path
  <2>2. QED
    BY <1>4, <2>1 DEF Below
<1>5. ASSUME NEW i \in 1..(Len(fs) - 1)
      PROVE  /\ fs[i].at # Nil /\ Stop(h, fs[i]) /\ Below(fs[i].at, top.cmd)
             /\ Path(fs[i].cmd) /\ Path(fs[i].at) /\ Child(fs[i].cmd, fs[i].at)
             /\ Len(fs[i].at) <= Len(top.cmd) /\ Len(fs[i].cmd) < Len(a) /\ Len(fs[i].at) < Len(a)
  <2>1. Len(fs) \in 1..Len(fs) /\ i \in 1..Len(fs)
    BY <1>1
  <2>2. fs[i].at # Nil /\ Stop(h, fs[i]) /\ Below(fs[i].at, top.cmd)
    BY <2>1 DEF Walk, Stops
  <2>3. /\ Path(fs[i].cmd) /\ Path(fs[i].at) /\ Child(fs[i].cmd, fs[i].at)
        /\ Len(fs[i].cmd) \in Nat /\ Len(fs[i].at) = Len(fs[i].cmd) + 1
        /\ Len(fs[i].at) <= Len(top.cmd)
    BY <2>2 DEF Stop, EditPaths, Edits, Child, Path, Below
  <2>4. Len(fs[i].cmd) < Len(a) /\ Len(fs[i].at) < Len(a)
    BY <1>3, <2>3
  <2>5. QED
    BY <2>2, <2>3, <2>4
<1>6. ASSUME NEW i \in 1..Len(fs)
      PROVE  ~Below(a, fs[i].cmd) /\ (i < Len(fs) => ~Below(a, fs[i].at))
  <2>1. i = Len(fs) \/ i \in 1..(Len(fs) - 1)
    BY <1>1
  <2>2. CASE i = Len(fs)
    <3>1. ~(Len(a) <= Len(top.cmd))
      BY <1>3
    <3>2. QED
      BY <1>1, <2>2, <3>1 DEF Below
  <2>3. CASE i \in 1..(Len(fs) - 1)
    <3>1. /\ Len(fs[i].cmd) < Len(a) /\ Len(fs[i].at) < Len(a) /\ Path(fs[i].cmd) /\ Path(fs[i].at)
      BY <1>5, <2>3
    <3>2. ~(Len(a) <= Len(fs[i].cmd)) /\ ~(Len(a) <= Len(fs[i].at))
      BY <1>3, <3>1 DEF Path
    <3>3. QED
      BY <3>2 DEF Below
  <2>4. QED
    BY <2>1, <2>2, <2>3
<1>7. ASSUME NEW l \in 1..Len(os), Below(a, os[l].cmd)
      PROVE  FALSE
  <2> DEFINE c == os[l].cmd
             n == Len(out.cmd) + 1
  <2>1. /\ out.at # Nil /\ Below(out.at, top.cmd) /\ Path(out.cmd) /\ Path(out.at)
        /\ Child(out.cmd, out.at) /\ Len(out.at) <= Len(top.cmd)
    BY <1>1, <1>5
  <2>2. Path(c)
    BY DEF Walk, OpsInOrder, OpNodes, EditPaths, Edits
  <2>3. /\ Len(out.cmd) \in Nat /\ Len(out.at) = n /\ Len(top.cmd) \in Nat /\ Len(a) \in Nat
        /\ Len(c) \in Nat /\ Below(top.cmd, a) /\ Below(a, c) /\ Below(out.cmd, out.at)
    BY <1>3, <1>7, <2>1, <2>2 DEF Path, Child
  <2>4. Clear(out, c)
    BY <1>1, <2>1 DEF Walk, Ahead
  <2> HIDE DEF c, out, top, a
  <2>5. Below(top.cmd, c)
    BY <2>3, BelowFacts
  <2>6. Below(out.at, c)
    BY <2>1, <2>3, <2>5, BelowFacts
  <2>7. Below(out.cmd, c)
    BY <2>3, <2>6, BelowFacts
  <2>8. Len(out.cmd) + 1 < Len(c)
    <3>1. Len(a) <= Len(c) /\ n <= Len(top.cmd) /\ Len(a) = Len(top.cmd) + 1
      BY <1>3, <2>1, <2>3 DEF Below
    <3>2. QED
      BY <2>3, <3>1
  <2>9. c[n] < out.at[n]
    BY <2>4, <2>7, <2>8 DEF Clear
  <2>10. n \in 1..Len(out.at) /\ n \in 2..Len(out.at)
    <3>1. Len(out.cmd) \in Nat \ {0}
      BY <2>1 DEF Path
    <3>2. QED
      BY <2>3, <3>1
  <2>11. c[n] = out.at[n] /\ out.at[n] \in Nat
    BY <2>1, <2>6, <2>10 DEF Below, Path
  <2>12. QED
    BY <2>9, <2>11
<1>8. QED
  BY <1>1, <1>4, <1>6, <1>7

(* create_scan deletes the node it is at and starts again: the handles     *)
(* that the calls and the operations hold are still good.                  *)
LEMMA WalkDeletes ==
  ASSUME NEW h, EditPaths(h), NEW fs, NEW os, NEW j, Walk(h, fs, os, j, TRUE), j < Len(fs),
         Last(fs).at # Nil,
         NEW h2, h2 = DeleteNode(h, Last(fs).at),
         NEW f, IsFrame(f), f.fn = Last(fs).fn, f.cmd = Last(fs).cmd, f.opLast = Last(fs).opLast,
         f.cfg = Last(fs).cfg, f.at = FirstChild(h2, f.cmd)
  PROVE  EditPaths(h2) /\ Walk(h2, Append(Front(fs), f), os, j, TRUE)
<1> DEFINE a == Last(fs).at
           gs == Append(Front(fs), f)
<1>1. /\ \A n : n[1] = "config" => ~Below(a, n)
      /\ \A i \in 1..Len(fs) : ~Below(a, fs[i].cmd) /\ (i < Len(fs) => ~Below(a, fs[i].at))
      /\ \A l \in 1..Len(os) : ~Below(a, os[l].cmd)
  BY NotDeleted
<1>2. Last(fs) = fs[Len(fs)] /\ Len(fs) \in Nat \ {0} /\ j \in 1..Len(fs)
  BY TopFacts DEF Walk, Shape, Calls
<1> HIDE DEF a, gs
<1>3. /\ DOMAIN h2 = {m \in DOMAIN h : ~Below(a, m)}
      /\ \A m \in DOMAIN h2 : h2[m] = h[m]
  BY DEF DeleteNode, Without, Subtree, a
<1>4. /\ Edits(h2) = {m \in Edits(h) : ~Below(a, m)}
      /\ \A n : InConfig(h, n) => InConfig(h2, n) /\ h2[n] = h[n]
      /\ \A m \in Edits(h2) : h2[m] = h[m]
  BY <1>1, <1>3 DEF Edits, InConfig
<1>5. EditPaths(h2)
  BY <1>4 DEF EditPaths
<1>6. f.cmd \in Edits(h2) /\ f.cmd \in Edits(h)
  BY <1>1, <1>2, <1>4 DEF Walk, Stops, Stop
<1>7. f.at = Nil \/ (f.at \in Edits(h2) /\ f.at \in Edits(h) /\ Child(f.cmd, f.at))
  BY <1>4, <1>5, <1>6, FirstFacts
<1>8. /\ Shape(gs, os, j) /\ Stops(h, gs) /\ Names(h, gs, j)
      /\ Len(gs) = Len(fs) /\ gs[Len(fs)] = f /\ \A i \in 1..(Len(fs) - 1) : gs[i] = fs[i]
  BY <1>7, TopMoves DEF Walk, gs
<1>9. ASSUME NEW i \in 1..Len(gs)
      PROVE  /\ gs[i].cmd \in Edits(h2)
             /\ gs[i].at = Nil \/ gs[i].at \in Edits(h2)
  <2>1. CASE i = Len(fs)
    BY <1>6, <1>7, <1>8, <2>1
  <2>2. CASE i # Len(fs)
    <3>1. i \in 1..Len(fs) /\ i < Len(fs) /\ gs[i] = fs[i]
      BY <1>2, <1>8, <2>2
    <3>2. Stop(h, gs[i]) /\ ~Below(a, gs[i].cmd) /\ ~Below(a, gs[i].at)
      BY <1>1, <1>8, <3>1 DEF Stops
    <3>3. QED
      BY <1>4, <3>2 DEF Stop
  <2>3. QED
    BY <2>1, <2>2
<1>10. Stops(h2, gs)
  <2>1. ASSUME NEW i \in 1..Len(gs)
        PROVE  Stop(h2, gs[i])
    <3>1. Stop(h, gs[i])
      BY <1>8 DEF Stops
    <3>2. QED
      BY <1>4, <1>9, <3>1 DEF Stop
  <2>2. QED
    BY <1>8, <2>1 DEF Stops
<1>11. Names(h2, gs, j)
  <2>1. \A i \in 1..j : h2[gs[i].cmd] = h[gs[i].cmd] /\ i \in 1..Len(gs)
    BY <1>2, <1>4, <1>8, <1>9
  <2>2. ASSUME NEW i \in 1..j
        PROVE  i < Len(gs) => h2[gs[i].at] = h[gs[i].at]
    <3>1. i \in 1..(Len(fs) - 1) /\ i \in 1..Len(fs) /\ Len(fs) \in 1..Len(fs)
      BY <1>2
    <3>2. fs[i].at # Nil /\ gs[i] = fs[i]
      BY <1>8, <3>1 DEF Walk, Stops
    <3>3. gs[i].at \in Edits(h2)
      BY <1>8, <1>9, <3>1, <3>2
    <3>4. QED
      BY <1>4, <3>3
  <2>3. ASSUME NEW i \in 1..j
        PROVE  /\ h2[gs[i].cmd].name \in DOMAIN ModelChildren
               /\ h2[gs[i].cmd].name \in Deep => \E k \in 2..i : h2[gs[k].cmd].name = "config"
               /\ i < Len(gs) => h2[gs[i].at].name \in ModelChildren[h2[gs[i].cmd].name]
    <3>1. \A k \in 2..i : k \in 1..j
      BY <1>2
    <3>2. QED
      BY <1>8, <2>1, <2>2, <3>1 DEF Names
  <2>4. QED
    BY <2>3 DEF Names
<1>12. OpsInOrder(h2, os)
  <2>1. \A l \in 1..Len(os) : OpNodes(h, os[l]) /\ Covered(h, os, l) /\ os[l].cmd \in Edits(h2)
    BY <1>1, <1>4 DEF Walk, OpsInOrder, OpNodes
  <2>2. ASSUME NEW l \in 1..Len(os)
        PROVE  OpNodes(h2, os[l]) /\ Covered(h2, os, l)
    <3>1. OpNodes(h2, os[l])
      BY <1>4, <2>1 DEF OpNodes
    <3>2. \A k \in 1..(l - 1) : k \in 1..Len(os)
      <4>1. Len(os) \in Nat
        BY SeqFacts DEF Walk, Shape
      <4>2. QED
        BY <4>1
    <3>3. h2[os[l].cmd] = h[os[l].cmd] /\ \A k \in 1..(l - 1) : h2[os[k].cmd] = h[os[k].cmd]
      BY <1>4, <2>1, <3>2
    <3>4. QED
      BY <2>1, <3>1, <3>3 DEF Covered
  <2>3. QED
    BY <2>2 DEF Walk, OpsInOrder
<1>13. Ahead(gs, os, j, TRUE)
  <2>1. j \in Nat \ {0} /\ \A i \in 1..j : i \in 1..(Len(fs) - 1)
    BY <1>2
  <2>2. QED
    BY <1>8, <2>1, SameAhead DEF Walk
<1>14. QED
  BY <1>5, <1>8, <1>10, <1>11, <1>12, <1>13 DEF Walk, gs

-----------------------------------------------------------------------------
(* editconfig(): its calls are somewhere in the two documents, and so are  *)
(* the operations that it has found.                                       *)
WalkInv ==
  /\ EditPaths(heap) /\ OpsInOrder(heap, ops)
  /\ frames # <<>> => \E j : Walk(heap, frames, ops, j, TRUE)

(* What is to be shown of a turn: the walk goes on, or is over.            *)
LEMMA WalkGoesOn ==
  ASSUME EditPaths(heap'),
         \/ \E j : Walk(heap', frames', ops', j, TRUE)
         \/ frames' = <<>> /\ OpsInOrder(heap', ops')
  PROVE  WalkInv'
<1>1. CASE \E j : Walk(heap', frames', ops', j, TRUE)
  <2>1. OpsInOrder(heap', ops')
    BY <1>1 DEF Walk
  <2>2. QED
    BY <1>1, <2>1 DEF WalkInv
<1>2. CASE frames' = <<>> /\ OpsInOrder(heap', ops')
  BY <1>2 DEF WalkInv
<1>3. QED
  BY <1>1, <1>2

(* Where the innermost call is.                                            *)
LEMMA TopOfWalk ==
  ASSUME NEW h, EditPaths(h), NEW fs, NEW os, NEW j, NEW clear, Walk(h, fs, os, j, clear)
  PROVE  /\ IsFrame(Last(fs)) /\ Stop(h, Last(fs)) /\ Len(fs) \in Nat \ {0}
         /\ Len(fs) = 1 \/ (Len(fs) > 1 /\ Len(fs) # 1)
         /\ Last(fs).fn \in {"perform", "scan"}
         /\ Last(fs).fn = "scan" => j < Len(fs)
<1>1. /\ Len(fs) \in Nat \ {0} /\ Last(fs) = fs[Len(fs)] /\ j \in 1..Len(fs)
      /\ \A i \in 1..Len(fs) : IsFrame(fs[i]) /\ fs[i].fn = (IF i <= j THEN "perform" ELSE "scan")
  BY TopFacts DEF Walk, Shape, Calls
<1>2. Len(fs) \in 1..Len(fs)
  BY <1>1
<1>3. Stop(h, Last(fs))
  BY <1>1, <1>2 DEF Walk, Stops
<1>4. /\ Last(fs).fn = (IF Len(fs) <= j THEN "perform" ELSE "scan")
      /\ IsFrame(Last(fs))
  BY <1>1, <1>2
<1>5. Len(fs) = 1 \/ (Len(fs) > 1 /\ Len(fs) # 1)
  <2>1. \A n \in Nat \ {0} : n = 1 \/ (n > 1 /\ n # 1)
    OBVIOUS
  <2>2. Len(fs) \in Nat \ {0}
    BY <1>1
  <2>3. QED
    BY <2>1, <2>2
<1>6. QED
  BY <1>1, <1>3, <1>4, <1>5

(* The innermost call is children_perform.                                 *)
LEMMA TopPerforms ==
  ASSUME NEW h, NEW fs, NEW os, NEW j, NEW clear, Walk(h, fs, os, j, clear), Last(fs).fn = "perform"
  PROVE  j = Len(fs) /\ InConfig(h, Last(fs).cfg)
<1>1. /\ j = Len(fs) /\ Len(fs) \in Nat \ {0} /\ Last(fs) = fs[Len(fs)]
  BY TopFacts DEF Walk, Shape
<1>2. Len(fs) \in 1..Len(fs)
  BY <1>1
<1>3. Stop(h, Last(fs))
  BY <1>1, <1>2 DEF Walk, Stops
<1>4. QED
  BY <1>1, <1>3 DEF Stop

(* children_perform goes on.                                               *)
LEMMA PerformGoesOn ==
  ASSUME EditPaths(heap), NEW fs, NEW os, NEW j, NEW clear, Walk(heap, fs, os, j, clear),
         j = Len(fs), Last(fs).at # Nil
  PROVE  Walk(heap, Append(Front(fs), Advanced(Last(fs))), os, j, TRUE)
<1>1. IsFrame(Last(fs))
  BY TopOfWalk
<1>2. LET f == Advanced(Last(fs))
      IN  /\ IsFrame(f) /\ f.fn = Last(fs).fn /\ f.cfg = Last(fs).cfg /\ f.cmd = Last(fs).cmd
          /\ f.opLast = Last(fs).opLast /\ f.at = NextSibling(heap, Last(fs).at)
  BY <1>1, AdvancedFacts
<1>3. QED
  BY <1>2, WalkAdvances

(* create_scan goes on.                                                    *)
LEMMA ScanGoesOn ==
  ASSUME EditPaths(heap), NEW fs, NEW os, NEW j, NEW clear, Walk(heap, fs, os, j, clear),
         j < Len(fs), Last(fs).at # Nil
  PROVE  Walk(heap, Append(Front(fs), Advanced(Last(fs))), os, j, clear)
<1> DEFINE f == Advanced(Last(fs))
<1>1. IsFrame(Last(fs)) /\ Stop(heap, Last(fs))
  BY TopOfWalk
<1>2. /\ IsFrame(f) /\ f.fn = Last(fs).fn /\ f.cfg = Last(fs).cfg /\ f.cmd = Last(fs).cmd
      /\ f.opLast = Last(fs).opLast /\ f.at = NextSibling(heap, Last(fs).at)
  BY <1>1, AdvancedFacts
<1> HIDE DEF f
<1>3. f.at = Nil \/ (f.at \in Edits(heap) /\ Child(f.cmd, f.at))
  BY <1>1, <1>2, AdvanceFacts
<1>4. Walk(heap, Append(Front(fs), f), os, j, clear)
  BY <1>2, <1>3, WalkScans
<1>5. QED
  BY <1>4 DEF f

(* A turn of children_perform at something that is not of the model.       *)
LEMMA StrangerWalks ==
  ASSUME WalkInv, Stranger
  PROVE  WalkInv'
<1>1. /\ frames # <<>> /\ Top.fn = "perform" /\ Top.at # Nil
      /\ \/ frames' = <<>> /\ ops' = ops /\ heap' = heap
         \/ frames' = OnTop(Advanced(Top)) /\ ops' = ops /\ heap' = heap
  BY DEF Stranger, Abort, xmlVars
<1>2. PICK j : Walk(heap, frames, ops, j, TRUE)
  BY <1>1 DEF WalkInv
<1>3. EditPaths(heap) /\ OpsInOrder(heap, ops)
  BY DEF WalkInv
<1>4. j = Len(frames)
  BY <1>1, <1>2, TopPerforms DEF Top
<1>5. Walk(heap, OnTop(Advanced(Top)), ops, j, TRUE)
  BY <1>1, <1>2, <1>3, <1>4, PerformGoesOn DEF Top, OnTop
<1>6. QED
  BY <1>1, <1>3, <1>5, WalkGoesOn

(* A turn of children_perform at a node of the model.                      *)
LEMMA PerformWalks ==
  ASSUME WalkInv, PerformNode
  PROVE  WalkInv'
<1>1. /\ frames # <<>> /\ Top.fn = "perform" /\ Top.at # Nil /\ heap' = heap
      /\ heap[Top.at].name \in ModelChildren[heap[Top.cmd].name]
  BY PerformNodeCases DEF xmlVars
<1>2. PICK j : Walk(heap, frames, ops, j, TRUE)
  BY <1>1 DEF WalkInv
<1>3. EditPaths(heap) /\ OpsInOrder(heap, ops)
  BY DEF WalkInv
<1>4. j = Len(frames) /\ InConfig(heap, Top.cfg) /\ Stop(heap, Top)
  BY <1>1, <1>2, <1>3, TopOfWalk, TopPerforms DEF Top
<1>5. Top.at \in Edits(heap)
  BY <1>1, <1>4 DEF Stop
<1>6. ASSUME NEW g, Found(g), g # Nil
      PROVE  InConfig(heap, g) /\ heap[g].name = heap[Top.at].name
  BY <1>4, <1>6, IdentifyFacts DEF Found
<1>7. CASE frames' = <<>> /\ ops' = ops
  BY <1>1, <1>3, <1>7, WalkGoesOn
<1>8. ASSUME ops' = ops \/ (\E g : Found(g) /\ NoteRemoval(g)),
             \/ frames' = OnTop(Advanced(Top))
             \/ \E note : frames' = Append(frames, Scan(heap, Top.at, note))
      PROVE  WalkInv'
  <2>1. Walk(heap, frames, ops', j, TRUE)
    <3>1. ASSUME NEW g, Found(g), g # Nil, NEW note, ops' = Append(ops, Op("remove-tree", Top.at, g, note))
          PROVE  Walk(heap, frames, ops', j, TRUE)
      <4> DEFINE o == Op("remove-tree", Top.at, g, note)
      <4>1. o.op = "remove-tree" /\ o.cmd = Top.at /\ o.cfg = g
        BY DEF Op
      <4> HIDE DEF o
      <4>2. OpNodes(heap, o)
        BY <1>5, <1>6, <3>1, <4>1 DEF OpNodes
      <4>3. Walk(heap, frames, Append(ops, o), j, TRUE)
        BY <1>1, <1>2, <1>3, <1>4, <4>1, <4>2, WalkMoreOps DEF Top
      <4>4. QED
        BY <3>1, <4>3 DEF o
    <3>2. QED
      BY <1>2, <1>8, <3>1 DEF NoteRemoval
  <2>2. Walk(heap, OnTop(Advanced(Top)), ops', j, TRUE)
    BY <1>1, <1>3, <1>4, <2>1, PerformGoesOn DEF Top, OnTop
  <2>3. ASSUME NEW note
        PROVE  Walk(heap, Append(frames, Scan(heap, Top.at, note)), ops', j, TRUE)
    <3> DEFINE f == Scan(heap, Top.at, note)
    <3>1. IsFrame(f) /\ f.fn = "scan" /\ f.cfg = Nil /\ f.cmd = Top.at /\ f.at = FirstChild(heap, f.cmd)
      BY NewFrames
    <3> HIDE DEF f
    <3>2. Walk(heap, Append(frames, f), ops', j, TRUE)
      BY <1>1, <1>3, <2>1, <3>1, WalkIntoScan DEF Top
    <3>3. QED
      BY <3>2 DEF f
  <2>4. QED
    BY <1>1, <1>3, <1>8, <2>2, <2>3, WalkGoesOn
<1>9. ASSUME NEW g, NEW asked, Found(g), g # Nil,
             ops' = Append(ops, Op("enter", Top.at, g, "")),
             frames' = Append(frames, Perform(g, Top.at, asked, Len(ops) + 1))
      PROVE  WalkInv'
  <2> DEFINE f == Perform(g, Top.at, asked, Len(ops) + 1)
             o == Op("enter", Top.at, g, "")
  <2>1. /\ IsFrame(f) /\ f.fn = "perform" /\ f.opLast = Len(ops) + 1 /\ f.cmd = Top.at /\ f.cfg = g
        /\ f.at = FirstChild(heap, f.cmd)
    BY NewFrames
  <2>2. o.op = "enter" /\ o.cmd = Top.at /\ o.cfg = g
    BY DEF Op
  <2> HIDE DEF f, o
  <2>3. OpNodes(heap, o) /\ InConfig(heap, f.cfg)
    BY <1>5, <1>6, <1>9, <2>1, <2>2 DEF OpNodes
  <2>4. Walk(heap, Append(frames, f), Append(ops, o), j + 1, TRUE)
    BY <1>1, <1>2, <1>3, <1>4, <2>1, <2>2, <2>3, WalkIntoPerform DEF Top
  <2>5. QED
    BY <1>1, <1>3, <1>9, <2>4, WalkGoesOn DEF f, o
<1>10. QED
  BY <1>7, <1>8, <1>9, PerformNodeCases

(* children_perform returns.                                               *)
LEMMA PerformReturnWalks ==
  ASSUME WalkInv, PerformReturns
  PROVE  WalkInv'
<1>1. frames # <<>> /\ Top.fn = "perform" /\ heap' = heap
  BY DEF PerformReturns, xmlVars
<1>2. PICK j : Walk(heap, frames, ops, j, TRUE)
  BY <1>1 DEF WalkInv
<1>3. EditPaths(heap) /\ OpsInOrder(heap, ops)
  BY DEF WalkInv
<1>4. /\ j = Len(frames) /\ InConfig(heap, Top.cfg)
      /\ Len(frames) = 1 \/ (Len(frames) > 1 /\ Len(frames) # 1)
  BY <1>1, <1>2, <1>3, TopOfWalk, TopPerforms DEF Top
<1>5. CASE Len(frames) = 1
  <2>1. frames' = <<>> /\ ops' = ops
    BY <1>5 DEF PerformReturns
  <2>2. QED
    BY <1>1, <1>3, <2>1, WalkGoesOn
<1>6. CASE Len(frames) > 1 /\ Len(frames) # 1
  <2> DEFINE outer == Last(Front(frames))
             o == Op("leave", outer.at, Top.cfg, "")
             left == IF Len(ops) = Top.opLast THEN Front(ops) ELSE ops
  <2>1. /\ frames' = Append(Front(Front(frames)), Advanced(outer))
        /\ ops' = IF Len(ops) = Top.opLast THEN Front(ops) ELSE Append(ops, o)
    BY <1>6 DEF PerformReturns, Left
  <2>2. Walk(heap, Front(frames), left, j - 1, FALSE) /\ outer.at # Nil
    BY <1>2, <1>4, <1>6, WalkOutOfPerform DEF Top
  <2>3. o.op = "leave" /\ o.cmd = outer.at /\ o.cfg = Top.cfg
    BY DEF Op
  <2> HIDE DEF o, left
  <2>4. j - 1 = Len(Front(frames))
    <3>1. frames # <<>> /\ IsSeq(frames)
      BY <1>1, <1>2 DEF Walk, Shape, Calls
    <3>2. QED
      BY <1>4, <3>1, FrontFacts
  <2>5. Stop(heap, outer)
    BY <1>3, <2>2, TopOfWalk
  <2>6. OpNodes(heap, o)
    BY <1>4, <2>2, <2>3, <2>5 DEF OpNodes, Stop
  <2>7. Walk(heap, Front(frames), ops', j - 1, FALSE)
    <3>1. CASE Len(ops) = Top.opLast
      BY <2>1, <2>2, <3>1 DEF left
    <3>2. CASE Len(ops) # Top.opLast
      <4>1. Walk(heap, Front(frames), ops, j - 1, FALSE) /\ ops' = Append(ops, o)
        BY <2>1, <2>2, <3>2 DEF left
      <4>2. QED
        BY <1>3, <2>2, <2>3, <2>4, <2>6, <4>1, WalkMoreOps
    <3>3. QED
      BY <3>1, <3>2
  <2>8. Walk(heap, frames', ops', j - 1, TRUE)
    BY <1>3, <2>1, <2>2, <2>4, <2>7, PerformGoesOn
  <2>9. QED
    BY <1>1, <1>3, <2>8, WalkGoesOn
<1>7. QED
  BY <1>4, <1>5, <1>6

(* A turn of create_scan.                                                  *)
LEMMA ScanWalks ==
  ASSUME WalkInv, ScanNode
  PROVE  WalkInv'
<1>1. frames # <<>> /\ Top.fn = "scan" /\ Top.at # Nil
  BY DEF ScanNode
<1>2. PICK j : Walk(heap, frames, ops, j, TRUE)
  BY <1>1 DEF WalkInv
<1>3. EditPaths(heap) /\ OpsInOrder(heap, ops)
  BY DEF WalkInv
<1>4. j < Len(frames) /\ IsFrame(Top) /\ j # Len(frames)
  <2>1. j < Len(frames) /\ IsFrame(Top) /\ Len(frames) \in Nat
    BY <1>1, <1>2, <1>3, TopOfWalk DEF Top
  <2>2. j \in 1..Len(frames)
    BY <1>2 DEF Walk, Shape, Calls
  <2>3. QED
    BY <2>1, <2>2
<1>5. CASE heap' = DeleteNode(heap, Top.at) /\ frames' = AfterDelete(heap', Top) /\ ops' = ops
  <2> DEFINE f == [fn |-> Top.fn, cfg |-> Top.cfg, cmd |-> Top.cmd, at |-> FirstChild(heap', Top.cmd),
                   defop |-> Top.defop, opLast |-> Top.opLast, note |-> Top.note]
  <2>1. frames' = Append(Front(frames), f)
    BY <1>4, <1>5 DEF AfterDelete, IsFrame
  <2>2. /\ IsFrame(f) /\ f.fn = Top.fn /\ f.cmd = Top.cmd /\ f.opLast = Top.opLast
        /\ f.cfg = Top.cfg /\ f.at = FirstChild(heap', f.cmd)
    BY DEF IsFrame
  <2> HIDE DEF f
  <2>3. EditPaths(heap') /\ Walk(heap', Append(Front(frames), f), ops, j, TRUE)
    BY <1>1, <1>2, <1>3, <1>4, <1>5, <2>2, WalkDeletes DEF Top
  <2>4. QED
    BY <1>5, <2>1, <2>3, WalkGoesOn
<1>6. CASE frames' = <<>> /\ ops' = ops /\ heap' = heap
  BY <1>3, <1>6, WalkGoesOn
<1>7. CASE frames' = Append(frames, Scan(heap, Top.at, "")) /\ ops' = ops /\ heap' = heap
  <2> DEFINE f == Scan(heap, Top.at, "")
  <2>1. IsFrame(f) /\ f.fn = "scan" /\ f.cfg = Nil /\ f.cmd = Top.at
    BY DEF IsFrame, Scan
  <2>2. f.at = FirstChild(heap, f.cmd)
    BY DEF Scan
  <2> HIDE DEF f
  <2>3. Walk(heap, Append(frames, f), ops, j, TRUE)
    BY <1>1, <1>2, <1>3, <1>4, <2>1, <2>2, WalkIntoScan DEF Top
  <2>4. QED
    BY <1>3, <1>7, <2>3, WalkGoesOn DEF f
<1>8. QED
  BY <1>5, <1>6, <1>7 DEF ScanNode, Abort, xmlVars

(* create_scan returns.                                                    *)
LEMMA ScanReturnWalks ==
  ASSUME WalkInv, ScanReturns
  PROVE  WalkInv'
<1> DEFINE outer == Last(Front(frames))
           g == Identify(heap, outer.at, outer.cfg)
           o == Op("add-tree", outer.at, g, Top.note)
<1>1. /\ frames # <<>> /\ Top.fn = "scan" /\ heap' = heap
      /\ frames' = Append(Front(Front(frames)), Advanced(outer))
      /\ ops' = IF outer.fn = "scan" THEN ops ELSE Append(ops, o)
  BY DEF ScanReturns, xmlVars
<1>2. PICK j : Walk(heap, frames, ops, j, TRUE)
  BY <1>1 DEF WalkInv
<1>3. EditPaths(heap) /\ OpsInOrder(heap, ops)
  BY DEF WalkInv
<1>4. j < Len(frames)
  BY <1>1, <1>2, <1>3, TopOfWalk DEF Top
<1>5. Walk(heap, Front(frames), ops, j, TRUE) /\ outer.at # Nil
  BY <1>2, <1>4, WalkOutOfScan
<1>6. Stop(heap, outer)
  BY <1>3, <1>5, TopOfWalk
<1>7. o.op = "add-tree" /\ o.cmd = outer.at /\ o.cfg = g
  BY DEF Op
<1> HIDE DEF o
<1>8. CASE outer.fn = "scan"
  <2>1. j < Len(Front(frames)) /\ ops' = ops
    BY <1>1, <1>3, <1>5, <1>8, TopOfWalk
  <2>2. Walk(heap, frames', ops', j, TRUE)
    BY <1>1, <1>3, <1>5, <2>1, ScanGoesOn
  <2>3. QED
    BY <1>1, <1>3, <2>2, WalkGoesOn
<1>9. CASE outer.fn # "scan"
  <2>1. j = Len(Front(frames)) /\ InConfig(heap, outer.cfg) /\ ops' = Append(ops, o)
    <3>1. outer.fn = "perform"
      BY <1>3, <1>5, <1>9, TopOfWalk
    <3>2. QED
      BY <1>1, <1>5, <1>9, <3>1, TopPerforms
  <2>2. OpNodes(heap, o)
    <3>1. g = Nil \/ InConfig(heap, g)
      BY <2>1, IdentifyFacts
    <3>2. outer.at \in Edits(heap)
      BY <1>5, <1>6 DEF Stop
    <3>3. QED
      BY <1>7, <3>1, <3>2 DEF OpNodes
  <2>3. heap[outer.at].name \in ModelChildren[heap[outer.cmd].name]
    <3>1. /\ frames # <<>> /\ IsSeq(frames) /\ j \in 1..Len(frames) /\ j = Len(frames) - 1
          /\ Front(frames)[j] = frames[j]
      <4>1. frames # <<>> /\ IsSeq(frames) /\ j \in 1..Len(frames)
        BY <1>1, <1>2 DEF Walk, Shape, Calls
      <4>2. j = Len(frames) - 1 /\ \A i \in 1..(Len(frames) - 1) : Front(frames)[i] = frames[i]
        BY <2>1, <4>1, FrontFacts
      <4>3. j \in 1..(Len(frames) - 1)
        BY <4>1, <4>2
      <4>4. QED
        BY <4>1, <4>2, <4>3
    <3>2. outer = frames[j]
      <4>1. outer = Front(frames)[j]
        BY <1>5, <2>1, TopFacts DEF Walk, Shape
      <4>2. QED
        BY <3>1, <4>1
    <3>3. j \in 1..j /\ j < Len(frames)
      BY <3>1
    <3>4. QED
      BY <1>2, <3>2, <3>3 DEF Walk, Names
  <2>4. Walk(heap, Front(frames), ops', j, TRUE)
    BY <1>3, <1>5, <1>7, <2>1, <2>2, <2>3, WalkMoreOps
  <2>5. Walk(heap, frames', ops', j, TRUE)
    BY <1>1, <1>3, <1>5, <2>1, <2>4, PerformGoesOn
  <2>6. QED
    BY <1>1, <1>3, <2>5, WalkGoesOn
<1>10. QED
  BY <1>8, <1>9

(* Every turn of editconfig() stays in the documents.                      *)
LEMMA EditWalks ==
  ASSUME WalkInv, EditStep
  PROVE  WalkInv'
BY StrangerWalks, PerformWalks, PerformReturnWalks, ScanWalks, ScanReturnWalks DEF EditStep

-----------------------------------------------------------------------------
(* A session.  The collector and other documents leave the two documents   *)
(* of a set_config alone.                                                  *)
SameDocs(h, h2) ==
  \A m : m[1] \in {"config", "edit"} =>
    (m \in DOMAIN h <=> m \in DOMAIN h2) /\ (m \in DOMAIN h => h2[m] = h[m])

(* What is said of the documents holds as long as they are the same.       *)
LEMMA SameOps ==
  ASSUME NEW h, NEW h2, SameDocs(h, h2), NEW os, OpsInOrder(h, os)
  PROVE  OpsInOrder(h2, os)
<1>1. Len(os) \in Nat /\ \A l \in 1..Len(os) : OpNodes(h, os[l]) /\ Covered(h, os, l)
  BY SeqFacts DEF OpsInOrder
<1>2. ASSUME NEW l \in 1..Len(os)
      PROVE  OpNodes(h2, os[l]) /\ h2[os[l].cmd] = h[os[l].cmd]
  BY <1>1 DEF OpNodes, Edits, InConfig, SameDocs
<1>3. ASSUME NEW l \in 1..Len(os)
      PROVE  Covered(h2, os, l)
  <2>1. \A k \in 1..(l - 1) : k \in 1..Len(os)
    BY <1>1
  <2>2. \A k \in 1..(l - 1) : h2[os[k].cmd] = h[os[k].cmd]
    BY <1>2, <2>1
  <2>3. Covered(h, os, l) /\ h2[os[l].cmd] = h[os[l].cmd]
    BY <1>1, <1>2
  <2>4. QED
    BY <2>2, <2>3 DEF Covered
<1>4. QED
  BY <1>2, <1>3 DEF OpsInOrder

(* So the walk is where it was.                                            *)
LEMMA SameWalk ==
  ASSUME NEW h, NEW h2, SameDocs(h, h2), EditPaths(h),
         NEW fs, NEW os, NEW j, NEW clear, Walk(h, fs, os, j, clear)
  PROVE  Walk(h2, fs, os, j, clear)
<1>1. Len(fs) \in Nat \ {0} /\ j \in 1..Len(fs)
  BY TopFacts DEF Walk, Shape, Calls
<1>2. ASSUME NEW i \in 1..Len(fs)
      PROVE  /\ Stop(h2, fs[i]) /\ h2[fs[i].cmd] = h[fs[i].cmd]
             /\ fs[i].at # Nil => h2[fs[i].at] = h[fs[i].at]
  <2>1. Stop(h, fs[i])
    BY DEF Walk, Stops
  <2>2. QED
    BY <2>1 DEF Stop, Edits, InConfig, SameDocs
<1>3. Stops(h2, fs)
  BY <1>2 DEF Walk, Stops
<1>4. Names(h2, fs, j)
  <2>1. ASSUME NEW i \in 1..j
        PROVE  /\ h2[fs[i].cmd].name \in DOMAIN ModelChildren
               /\ h2[fs[i].cmd].name \in Deep => \E k \in 2..i : h2[fs[k].cmd].name = "config"
               /\ i < Len(fs) => h2[fs[i].at].name \in ModelChildren[h2[fs[i].cmd].name]
    <3>1. i \in 1..Len(fs) /\ Len(fs) \in 1..Len(fs) /\ \A k \in 2..i : k \in 1..Len(fs)
      BY <1>1
    <3>2. i < Len(fs) => fs[i].at # Nil
      <4>1. i < Len(fs) => i \in 1..(Len(fs) - 1)
        BY <1>1
      <4>2. QED
        BY <3>1, <4>1 DEF Walk, Stops
    <3>3. h2[fs[i].cmd] = h[fs[i].cmd] /\ \A k \in 2..i : h2[fs[k].cmd] = h[fs[k].cmd]
      BY <1>2, <3>1
    <3>4. i < Len(fs) => h2[fs[i].at] = h[fs[i].at]
      BY <1>2, <3>1, <3>2
    <3>5. QED
      BY <3>3, <3>4 DEF Walk, Names
  <2>2. QED
    BY <2>1 DEF Names
<1>5. OpsInOrder(h2, os)
  BY SameOps DEF Walk
<1>6. QED
  BY <1>3, <1>4, <1>5 DEF Walk

(* And so is all of editconfig(), if nothing else happens to it.           *)
LEMMA SameWalkInv ==
  ASSUME WalkInv, SameDocs(heap, heap'), UNCHANGED <<frames, ops>>
  PROVE  WalkInv'
<1>1. EditPaths(heap')
  BY DEF WalkInv, EditPaths, Edits, SameDocs
<1>2. OpsInOrder(heap', ops')
  BY SameOps DEF WalkInv
<1>3. frames' # <<>> => \E j : Walk(heap', frames', ops', j, TRUE)
  BY SameWalk DEF WalkInv
<1>4. QED
  BY <1>1, <1>2, <1>3 DEF WalkInv

(* The command's nodes are reached by positions.                           *)
LEMMA CommandPaths ==
  ASSUME NEW c \in Commands, NEW m \in DOMAIN c.nodes
  PROVE  Path(m)
<1> DEFINE S == {"edit"} \union Nat
           t == Tail(m)
<1>1. m = <<"edit">> \o t /\ t \in Seq(Nat \ {0})
  <2>1. LeadsDown("edit", m)
    BY CommandsAssumption
  <2>2. QED
    BY <2>1 DEF LeadsDown, Root
<1> HIDE DEF t
<1>2. Len(t) \in Nat /\ t \in [1..Len(t) -> Nat \ {0}]
  BY <1>1
<1>3. <<"edit">> \in Seq(S) /\ t \in Seq(S)
  BY <1>1, <1>2
<1>4. Len(<<"edit">>) = 1 /\ <<"edit">>[1] = "edit"
  OBVIOUS
<1> HIDE DEF S
<1>5. /\ m \in Seq(S) /\ Len(m) = 1 + Len(t)
      /\ \A i \in 1..(1 + Len(t)) : m[i] = IF i <= 1 THEN <<"edit">>[i] ELSE t[i - 1]
  BY <1>1, <1>3, <1>4, ConcatProperties
<1>6. m[1] = "edit" /\ \A i \in 2..Len(m) : m[i] \in Nat
  <2>1. 1 \in 1..(1 + Len(t)) /\ \A i \in 2..Len(m) : i \in 1..(1 + Len(t)) /\ ~(i <= 1) /\ i - 1 \in 1..Len(t)
    BY <1>2, <1>5
  <2>2. m[1] = "edit"
    BY <1>4, <1>5, <2>1
  <2>3. \A i \in 2..Len(m) : m[i] = t[i - 1]
    BY <1>5, <2>1
  <2>4. QED
    BY <1>2, <2>1, <2>2, <2>3
<1>7. IsSeq(m)
  BY <1>5, AnySeq
<1>8. Len(m) \in Nat \ {0}
  BY <1>2, <1>5
<1>9. QED
  BY <1>6, <1>7, <1>8 DEF Path

(* What a sequence begins with stays its beginning.                        *)
LEMMA LongerPath ==
  ASSUME NEW S, NEW s \in Seq(S), NEW d, Len(s) >= 1, s[1] = d
  PROVE  /\ \A t \in Seq(S) : s \o t \in Seq(S) /\ Len(s \o t) >= 1 /\ (s \o t)[1] = d
         /\ \A x \in S : Append(s, x)[1] = d
<1>1. ASSUME NEW t \in Seq(S)
      PROVE  s \o t \in Seq(S) /\ Len(s \o t) >= 1 /\ (s \o t)[1] = d
  <2>1. Len(s) \in Nat /\ Len(t) \in Nat
    OBVIOUS
  <2>2. 1 \in 1..(Len(s) + Len(t)) /\ 1 <= Len(s)
    BY <2>1
  <2>3. QED
    BY <2>1, <2>2, ConcatProperties
<1>2. ASSUME NEW x \in S
      PROVE  Append(s, x)[1] = d
  OBVIOUS
<1>3. QED
  BY <1>1, <1>2

(* The configuration's nodes are all below its root.                       *)
LEMMA ConfigPaths ==
  ASSUME NEW facts
  PROVE  /\ Root("config") \in DOMAIN ConfigDoc(facts)
         /\ \A m \in DOMAIN ConfigDoc(facts) : m[1] = "config"
<1> DEFINE root == <<"config">>
           at(f, n) == IF n = 1 THEN root \o <<1, 1, f[1]>> ELSE root \o <<1, 1, f[1], f[2]>>
           own(name, key) == Element(name, key, "own", "")
           values == {f \in facts : Len(f) = 4}
           entry(f) == IF f[3] = 0
                       THEN {<<at(f, 2), own("option", f[2])>>, <<Append(at(f, 2), 1), own("value", 0)>>,
                             <<at(f, 2) \o <<1, 1>>, TextNode(f[4])>>}
                       ELSE {<<at(f, 2), own("list", f[2])>>, <<Append(at(f, 2), f[3]), own("item", f[3])>>,
                             <<at(f, 2) \o <<f[3], 1>>, own("content", 0)>>,
                             <<at(f, 2) \o <<f[3], 1, 1>>, TextNode(f[4])>>}
           nodes == {<<root, own("config", 0)>>, <<root \o <<1>>, own("uci", 0)>>,
                     <<root \o <<1, 1>>, own("config", 1)>>}
                    \union {<<at(f, 1), own("section", f[1])>> : f \in facts}
                    \union UNION {entry(f) : f \in values}
<1>1. DOMAIN ConfigDoc(facts) = {p[1] : p \in nodes}
  BY DEF ConfigDoc
<1>2. root[1] = "config" /\ Len(root) >= 1 /\ \A S : "config" \in S => root \in Seq(S)
  OBVIOUS
<1>3. (root \o <<1>>)[1] = "config" /\ (root \o <<1, 1>>)[1] = "config"
  <2> DEFINE S == {"config", 1}
  <2>1. root \in Seq(S) /\ <<1>> \in Seq(S) /\ <<1, 1>> \in Seq(S)
    OBVIOUS
  <2> HIDE DEF S, root
  <2>2. QED
    BY <1>2, <2>1, LongerPath
<1>4. ASSUME NEW f
      PROVE  /\ at(f, 1)[1] = "config" /\ at(f, 2)[1] = "config"
             /\ \A x \in {1, f[3]} : Append(at(f, 2), x)[1] = "config"
             /\ (at(f, 2) \o <<1, 1>>)[1] = "config" /\ (at(f, 2) \o <<f[3], 1>>)[1] = "config"
             /\ (at(f, 2) \o <<f[3], 1, 1>>)[1] = "config"
  <2> DEFINE S == {"config", 1, f[1], f[2], f[3]}
             a == at(f, 2)
  <2>1. /\ root \in Seq(S) /\ <<1, 1, f[1]>> \in Seq(S) /\ <<1, 1, f[1], f[2]>> \in Seq(S)
        /\ <<1, 1>> \in Seq(S) /\ <<f[3], 1>> \in Seq(S) /\ <<f[3], 1, 1>> \in Seq(S)
        /\ {1, f[3]} \subseteq S
    OBVIOUS
  <2>2. at(f, 1) = root \o <<1, 1, f[1]>> /\ a = root \o <<1, 1, f[1], f[2]>>
    OBVIOUS
  <2> HIDE DEF S, root, a
  <2>3. at(f, 1)[1] = "config" /\ a \in Seq(S) /\ Len(a) >= 1 /\ a[1] = "config"
    BY <1>2, <2>1, <2>2, LongerPath
  <2>4. /\ \A t \in Seq(S) : (a \o t)[1] = "config"
        /\ \A x \in S : Append(a, x)[1] = "config"
    BY <2>3, LongerPath
  <2>5. QED
    BY <2>1, <2>3, <2>4 DEF a
<1> HIDE DEF root, at, own
<1>5. ASSUME NEW f, NEW p \in entry(f)
      PROVE  p[1][1] = "config"
  <2>1. \A x, y : <<x, y>>[1] = x
    OBVIOUS
  <2>2. p[1] \in {at(f, 2), Append(at(f, 2), 1), Append(at(f, 2), f[3]), at(f, 2) \o <<1, 1>>,
                 at(f, 2) \o <<f[3], 1>>, at(f, 2) \o <<f[3], 1, 1>>}
    BY <1>5, <2>1
  <2>3. QED
    BY <1>4, <2>2
<1>6. ASSUME NEW p \in nodes
      PROVE  p[1][1] = "config"
  <2>1. CASE p \in {<<root, own("config", 0)>>, <<root \o <<1>>, own("uci", 0)>>,
                    <<root \o <<1, 1>>, own("config", 1)>>}
    BY <1>2, <1>3, <2>1
  <2>2. CASE \E f \in facts : p = <<at(f, 1), own("section", f[1])>>
    <3>1. PICK f : p = <<at(f, 1), own("section", f[1])>>
      BY <2>2
    <3>2. p[1] = at(f, 1)
      BY <3>1
    <3>3. QED
      BY <1>4, <3>2
  <2>3. CASE \E f \in values : p \in entry(f)
    BY <1>5, <2>3
  <2>4. QED
    BY <1>6, <2>1, <2>2, <2>3
<1>7. <<root, own("config", 0)>> \in nodes /\ <<root, own("config", 0)>>[1] = root
  OBVIOUS
<1> HIDE DEF nodes
<1>8. QED
  BY <1>1, <1>6, <1>7 DEF Root, root

(* editconfig() begins at the two roots.                                   *)
LEMMA WalkBegins ==
  ASSUME BeginSetConfig
  PROVE  WalkInv' /\ ops' = <<>> /\ scope' = {"config", "edit"}
<1>1. PICK c \in Commands :
        /\ heap' = WithDoc(WithDoc(heap, "config", ConfigDoc(staged)), "edit", c.nodes)
        /\ scope' = {"config", "edit"}
        /\ BeginEdit(Root("config"), Root("edit"), c.defop)
  BY DEF BeginSetConfig
<1> DEFINE h1 == WithDoc(heap, "config", ConfigDoc(staged))
           h == WithDoc(h1, "edit", c.nodes)
           config == ConfigDoc(staged)
<1>2. /\ Root("config") \in DOMAIN config /\ \A m \in DOMAIN config : m[1] = "config"
  BY ConfigPaths
<1> HIDE DEF config
<1>3. /\ Root("edit") \in DOMAIN c.nodes /\ c.nodes[Root("edit")].name = "edit"
      /\ \A m \in DOMAIN c.nodes : Path(m) /\ m[1] = "edit"
  BY CommandsAssumption, CommandPaths DEF Path
<1>4. /\ DOMAIN h1 = {m \in DOMAIN heap : m[1] # "config"} \union DOMAIN config
  BY DEF WithDoc, Without, OfDocs, config
<1> HIDE DEF h1
<1>5. /\ DOMAIN h = {m \in DOMAIN h1 : m[1] # "edit"} \union DOMAIN c.nodes
      /\ \A m \in DOMAIN c.nodes : h[m] = c.nodes[m]
  BY DEF WithDoc, Without, OfDocs
<1> HIDE DEF h
<1>6. Edits(h) = DOMAIN c.nodes /\ EditPaths(h)
  BY <1>3, <1>5 DEF Edits, EditPaths
<1>7. InConfig(h, Root("config"))
  <2>1. Root("config") \in DOMAIN h1 /\ Root("config")[1] = "config" /\ Len(Root("config")) = 1
    BY <1>2, <1>4 DEF Root
  <2>2. QED
    BY <1>5, <2>1 DEF InConfig
<1> DEFINE f == [fn |-> "perform", cfg |-> Root("config"), cmd |-> Root("edit"),
                 at |-> FirstChild(h, Root("edit")),
                 defop |-> IF c.defop = "notset" THEN "merge" ELSE c.defop,
                 opLast |-> 0, note |-> ""]
<1>8. frames' = <<f>> /\ ops' = <<>> /\ heap' = h
  <2>1. heap' = h
    BY <1>1 DEF h, h1, config
  <2>2. QED
    BY <1>1, <2>1 DEF BeginEdit
<1>9. /\ IsFrame(f) /\ f.fn = "perform" /\ f.cfg = Root("config") /\ f.cmd = Root("edit")
      /\ f.at = FirstChild(h, Root("edit"))
  BY DEF IsFrame
<1> HIDE DEF f
<1>10. Len(<<f>>) = 1 /\ <<f>>[1] = f /\ 1..1 = {1} /\ 1..(1 - 1) = {} /\ Len(<<>>) = 0 /\ 1..0 = {}
  OBVIOUS
<1>11. Shape(<<f>>, <<>>, 1)
  BY <1>9, OneCall
<1>12. Stops(h, <<f>>)
  <2>1. Root("edit") \in Edits(h)
    BY <1>3, <1>6
  <2>2. Stop(h, f)
    BY <1>6, <1>7, <1>9, <2>1, FirstFacts DEF Stop
  <2>3. QED
    BY <1>10, <2>2 DEF Stops
<1>13. Names(h, <<f>>, 1)
  <2>1. h[f.cmd].name = "edit"
    BY <1>3, <1>5, <1>9
  <2>2. "edit" \in DOMAIN ModelChildren /\ "edit" \notin Deep
    BY DEF ModelChildren, Deep
  <2>3. ~(1 < Len(<<f>>))
    BY <1>10
  <2>4. QED
    BY <1>10, <2>1, <2>2, <2>3 DEF Names
<1>14. OpsInOrder(h, <<>>) /\ Ahead(<<f>>, <<>>, 1, TRUE)
  BY <1>10, EmptyFacts DEF OpsInOrder, Ahead
<1>15. Walk(h, <<f>>, <<>>, 1, TRUE)
  BY <1>11, <1>12, <1>13, <1>14 DEF Walk
<1>16. WalkInv'
  BY <1>6, <1>8, <1>15, WalkGoesOn
<1>17. QED
  BY <1>1, <1>8, <1>16

(* In a set_config the package that an operation changes is scheduled: the *)
(* operation is about its config, or below it and behind its enter.        *)
Scheduled ==
  /\ ~dirty => staged = stored /\ delayed = <<>>
  /\ (Calling("set_config") /\ ~dirty) =>
       \A k \in 1..applied : ~(ops[k].op = "enter" /\ heap[ops[k].cmd].name = "config")
InsideInv ==
  /\ OperationsInv
  /\ Calling("set_config") => WalkInv /\ scope = {"config", "edit"}
  /\ ~Calling("set_config") => frames = <<>> /\ ops = <<>> /\ delayed = <<>> /\ handed = FALSE

(* applyops leaves the package alone, or schedules it.                     *)
LEMMA ApplySchedules ==
  ASSUME InsideInv, Scheduled, ApplyStep
  PROVE  Scheduled'
<1> DEFINE o == ops[applied + 1]
           k == applied + 1
<1>1. /\ Calling("set_config") /\ ApplyOp /\ applied < Len(ops) /\ UNCHANGED <<ops, heap, stored>>
      /\ applied' = k /\ dirty' = (dirty \/ Touches(o)) /\ UNCHANGED <<pc, todo>>
  BY DEF ApplyStep, ApplyOp, xmlVars, luaVars
<1>2. applied \in Nat /\ k \in 1..Len(ops) /\ k - 1 = applied /\ OpsInOrder(heap, ops)
  <2>1. applied \in 0..Len(ops) /\ Len(ops) \in Nat
    BY SeqFacts DEF InsideInv, OperationsInv, BalanceInv, Balanced
  <2>2. QED
    BY <1>1, <2>1 DEF InsideInv, WalkInv
<1>3. OpNodes(heap, o) /\ Covered(heap, ops, k)
  BY <1>2 DEF OpsInOrder
<1>4. \/ o.op = "enter" /\ staged' = staged /\ delayed' = delayed
      \/ o.op = "leave" /\ staged' = staged /\ delayed' = delayed
      \/ o.op = "add-tree" /\ AddTree(o)
      \/ o.op = "remove-tree" /\ RemoveTree(o)
  BY <1>1 DEF ApplyOp, Outcome
<1> HIDE DEF o
<1>5. ASSUME ~dirty'
      PROVE  /\ staged' = staged /\ delayed' = delayed
             /\ ~(o.op = "enter" /\ heap[o.cmd].name = "config")
  <2>1. ~dirty /\ ~Touches(o)
    BY <1>1, <1>5
  <2>2. \A l \in 1..applied : ~(ops[l].op = "enter" /\ heap[ops[l].cmd].name = "config")
    BY <1>1, <2>1 DEF Scheduled
  <2>3. o.op \in {"add-tree", "remove-tree"} => heap[o.cmd].name \notin Deep \ {"config"}
    BY <1>2, <1>3, <2>2 DEF Covered, o
  <2>4. ~(o.op = "enter" /\ heap[o.cmd].name = "config")
    BY <2>1 DEF Touches
  <2>5. CASE o.op = "add-tree" /\ AddTree(o)
    <3>1. heap[o.cmd].name \notin Deep
      BY <2>1, <2>3, <2>5 DEF Touches
    <3>2. Unsupported("operation-not-supported")
      BY <2>5, <3>1 DEF AddTree, Deep
    <3>3. QED
      BY <2>4, <3>2 DEF Unsupported, Outcome
  <2>6. CASE o.op = "remove-tree" /\ RemoveTree(o)
    <3>1. heap[o.cfg].name = heap[o.cmd].name
      BY <1>3, <2>6 DEF OpNodes
    <3>2. CASE Replaces(o)
      <4>1. Outcome(staged, delayed, "")
        BY <2>6, <3>2 DEF RemoveTree
      <4>2. QED
        BY <2>4, <4>1 DEF Outcome
    <3>3. CASE ~Replaces(o)
      <4>1. heap[o.cfg].name \notin Deep
        BY <2>1, <2>3, <2>6, <3>1, <3>3 DEF Touches
      <4>2. Unsupported("operation-not-supported")
        BY <2>6, <3>3, <4>1 DEF RemoveTree, Deep
      <4>3. QED
        BY <2>4, <4>2 DEF Unsupported, Outcome
    <3>4. QED
      BY <3>2, <3>3
  <2>7. QED
    BY <1>4, <2>4, <2>5, <2>6
<1>6. ~dirty' => ~dirty
  BY <1>1
<1>7. ~dirty' => staged' = stored' /\ delayed' = <<>>
  BY <1>1, <1>5, <1>6 DEF Scheduled
<1>8. ASSUME ~dirty', NEW l \in 1..applied'
      PROVE  ~(ops'[l].op = "enter" /\ heap'[ops'[l].cmd].name = "config")
  <2>1. l \in 1..applied \/ l = k
    BY <1>1, <1>2
  <2>2. CASE l = k
    BY <1>1, <1>5, <1>8, <2>2 DEF o
  <2>3. CASE l \in 1..applied
    BY <1>1, <1>6, <1>8, <2>3 DEF Scheduled
  <2>4. QED
    BY <2>1, <2>2, <2>3
<1>9. QED
  BY <1>7, <1>8 DEF Scheduled

(* Outside of set_config there is no edit, and it leaves its part alone.   *)
Elsewhere ==
  /\ ~Calling("set_config") /\ ~Calling("set_config")'
  /\ UNCHANGED <<frames, ops, delayed, handed>>

(* What happens there.                                                     *)
LEMMA ElsewhereSteps ==
  ASSUME \/ Loop \/ Chain \/ Finish \/ BeginGet \/ CallOther \/ BuildNode \/ GetReturns \/ OtherReturns
  PROVE  Elsewhere
<1>1. CASE Loop
  BY <1>1 DEF Loop, ReceiveOwn, ReceiveUser, ReceiveServer, NewRpc, Hangup, RefuseInC, Dispatched,
     Elsewhere, Calling, insideVars, editVars, uciVars
<1>2. CASE Chain
  BY <1>2 DEF Chain, ChainReturns, Elsewhere, Calling, editVars
<1>3. CASE Finish
  BY <1>3 DEF Finish, Send, Elsewhere, Calling, editVars, uciVars
<1>4. CASE BeginGet \/ CallOther
  BY <1>4 DEF BeginGet, CallOther, CallLua, Elsewhere, Calling, insideVars, editVars, uciVars
<1>5. CASE BuildNode
  BY <1>5 DEF BuildNode, Elsewhere, Calling, luaVars, editVars, uciVars
<1>6. CASE GetReturns \/ OtherReturns
  <2>1. pc' = "dispatch" /\ (Calling("get") \/ Calling("get_config") \/ Calling("user_rpc"))
    BY <1>6 DEF GetReturns, OtherReturns, LuaReturns
  <2>2. ~Calling("set_config") /\ ~Calling("set_config")'
    BY <2>1 DEF Calling
  <2>3. UNCHANGED <<frames, ops, delayed, handed>>
    BY <1>6 DEF GetReturns, OtherReturns, editVars, uciVars
  <2>4. QED
    BY <2>2, <2>3 DEF Elsewhere
<1>7. QED
  BY <1>1, <1>2, <1>3, <1>4, <1>5, <1>6

(* A session begins outside of everything.                                 *)
LEMMA InsideBegins == Init => InsideInv /\ Scheduled
<1> SUFFICES ASSUME Init
             PROVE  InsideInv /\ Scheduled
  OBVIOUS
<1>1. OperationsInv
  BY OperationsBegin
<1>2. /\ pc = "receive" /\ frames = <<>> /\ ops = <<>> /\ delayed = <<>> /\ handed = FALSE
      /\ staged = stored
  BY DEF Init, LuaInit
<1>3. QED
  BY <1>1, <1>2 DEF InsideInv, Scheduled, Calling

(* editconfig() keeps the documents it works on.                           *)
LEMMA EditKeepsScope ==
  ASSUME EditStep
  PROVE  scope' = scope /\ frames # <<>>
BY DEF EditStep, Stranger, PerformNode, PerformReturns, ScanNode, ScanReturns, Abort, xmlVars

(* The collector leaves the documents of a set_config alone.               *)
LEMMA GcKeepsDocs ==
  ASSUME Gc, scope = {"config", "edit"}
  PROVE  SameDocs(heap, heap')
<1>1. heap' = Without(heap, {m \in DOMAIN heap : m[1] \notin scope})
  BY DEF Gc, Collect
<1>2. QED
  BY <1>1 DEF Without, SameDocs

(* Every step of a session keeps to it.                                    *)
LEMMA InsideStep == InsideInv /\ [Next]_allVars => InsideInv'
<1> SUFFICES ASSUME InsideInv, [Next]_allVars
             PROVE  InsideInv'
  OBVIOUS
<1>1. OperationsInv'
  BY OperationsStep DEF InsideInv
<1>2. CASE \/ Loop \/ Chain \/ Finish \/ BeginGet \/ CallOther \/ BuildNode \/ GetReturns \/ OtherReturns
  <2>1. Elsewhere
    BY <1>2, ElsewhereSteps
  <2>2. QED
    BY <1>1, <2>1 DEF Elsewhere, InsideInv
<1>3. CASE BeginSetConfig
  <2>1. WalkInv' /\ scope' = {"config", "edit"}
    BY <1>3, WalkBegins
  <2>2. Calling("set_config")'
    BY <1>3 DEF BeginSetConfig, CallLua, Calling
  <2>3. QED
    BY <1>1, <2>1, <2>2 DEF InsideInv
<1>4. CASE ScanStep
  <2>1. Calling("set_config") /\ Calling("set_config")' /\ EditStep
    BY <1>4 DEF ScanStep, Calling, luaVars
  <2>2. WalkInv' /\ scope' = scope
    BY <2>1, EditWalks, EditKeepsScope DEF InsideInv
  <2>3. QED
    BY <1>1, <2>1, <2>2 DEF InsideInv
<1>5. ASSUME SameDocs(heap, heap'), UNCHANGED <<frames, ops, delayed, handed, pc, todo, scope>>
      PROVE  InsideInv'
  <2>1. CASE Calling("set_config")
    <3>1. WalkInv' /\ scope' = {"config", "edit"}
      BY <1>5, <2>1, SameWalkInv DEF InsideInv
    <3>2. Calling("set_config")'
      BY <1>5, <2>1 DEF Calling
    <3>3. QED
      BY <1>1, <3>1, <3>2 DEF InsideInv
  <2>2. CASE ~Calling("set_config")
    BY <1>1, <1>5, <2>2 DEF InsideInv, Calling
  <2>3. QED
    BY <2>1, <2>2
<1>6. ASSUME heap' = heap
      PROVE  SameDocs(heap, heap')
  BY <1>6 DEF SameDocs
<1>7. CASE EditConfigOpsReturns \/ ApplyStep
  <2>1. /\ Calling("set_config") /\ Calling("set_config")' /\ heap' = heap /\ UNCHANGED <<frames, ops>>
        /\ scope' = scope \/ scope' = {"config", "edit"}
    BY <1>7 DEF EditConfigOpsReturns, ApplyStep, ApplyOp, HandedOver, Calling, luaVars, xmlVars, editVars
  <2>2. WalkInv' /\ scope' = {"config", "edit"}
    BY <1>6, <2>1, SameWalkInv DEF InsideInv
  <2>3. QED
    BY <1>1, <2>1, <2>2 DEF InsideInv
<1>8. CASE SetConfigReturns
  <2>1. pc' = "dispatch" /\ frames' = frames /\ ops' = <<>> /\ delayed' = <<>> /\ handed' = FALSE /\ handed
    BY <1>8 DEF SetConfigReturns, LuaReturns, FlushLists
  <2>2. frames' = <<>>
    BY <2>1 DEF InsideInv, OperationsInv
  <2>3. QED
    BY <1>1, <2>1, <2>2 DEF InsideInv, Calling
<1>9. CASE Gc
  <2>1. UNCHANGED <<frames, ops, delayed, handed, pc, todo, scope>>
    BY <1>9 DEF Gc, Collect, luaVars, pluginVars, editVars, uciVars
  <2>2. CASE Calling("set_config")
    <3>1. SameDocs(heap, heap')
      BY <1>9, <2>2, GcKeepsDocs DEF InsideInv
    <3>2. QED
      BY <1>5, <2>1, <3>1
  <2>3. CASE ~Calling("set_config")
    BY <1>1, <2>1, <2>3 DEF InsideInv, Calling
  <2>4. QED
    BY <2>2, <2>3
<1>10. CASE UNCHANGED allVars
  <2>1. UNCHANGED <<frames, ops, delayed, handed, pc, todo, scope, heap>>
    BY <1>10 DEF allVars, luaVars, xmlVars, editVars, uciVars
  <2>2. QED
    BY <1>5, <1>6, <2>1
<1>11. QED
  BY <1>2, <1>3, <1>4, <1>7, <1>8, <1>9, <1>10 DEF Next, InsidePlugin

(* And the package is not forgotten.                                       *)
LEMMA ScheduledStep == InsideInv /\ Scheduled /\ [Next]_allVars => Scheduled'
<1> SUFFICES ASSUME InsideInv, Scheduled, [Next]_allVars
             PROVE  Scheduled'
  OBVIOUS
<1>1. ASSUME Elsewhere, ~dirty' => staged' = stored'
      PROVE  Scheduled'
  BY <1>1 DEF Elsewhere, InsideInv, Scheduled
<1>2. CASE \/ Loop \/ Finish \/ BeginGet \/ CallOther \/ BuildNode \/ GetReturns
  <2>1. UNCHANGED <<dirty, staged, stored>>
    BY <1>2 DEF Loop, Finish, BeginGet, CallOther, BuildNode, GetReturns, insideVars, uciVars
  <2>2. QED
    BY <1>1, <1>2, <2>1, ElsewhereSteps DEF Scheduled
<1>3. CASE Chain
  <2>1. PICK o \in Outcomes :
          IF IsError(reply)
          THEN staged' = stored /\ dirty' = FALSE /\ UNCHANGED stored
          ELSE /\ Failed(o) => o.raised /\ dirty
               /\ stored' = IF dirty THEN staged ELSE stored
               /\ dirty' = (dirty /\ Failed(o))
               /\ UNCHANGED staged
    BY <1>3 DEF Chain
  <2>2. ~dirty' => staged' = stored'
    BY <2>1 DEF Scheduled
  <2>3. QED
    BY <1>1, <1>3, <2>2, ElsewhereSteps
<1>4. CASE OtherReturns
  <2>1. staged' \in {stored, staged} /\ UNCHANGED <<dirty, stored>>
    BY <1>4 DEF OtherReturns
  <2>2. QED
    BY <1>1, <1>4, <2>1, ElsewhereSteps DEF Scheduled
<1>5. CASE BeginSetConfig
  <2>1. staged' = stored /\ stored' = stored /\ delayed' = <<>> /\ applied' = 0
    BY <1>5 DEF BeginSetConfig
  <2>2. 1..0 = {}
    OBVIOUS
  <2>3. QED
    BY <2>1, <2>2 DEF Scheduled
<1>6. CASE ScanStep
  <2>1. EditStep /\ UNCHANGED <<dirty, staged, stored, delayed, applied>>
    BY <1>6 DEF ScanStep, uciVars
  <2>2. applied = 0
    BY <2>1, EditKeepsScope DEF InsideInv, OperationsInv, BalanceInv
  <2>3. 1..0 = {}
    OBVIOUS
  <2>4. QED
    BY <2>1, <2>2, <2>3 DEF Scheduled
<1>7. CASE ApplyStep
  BY <1>7, ApplySchedules
<1>8. ASSUME UNCHANGED <<dirty, staged, stored, delayed, applied, ops, pc, todo>>,
             Calling("set_config") => SameDocs(heap, heap')
      PROVE  Scheduled'
  <2>1. ASSUME Calling("set_config"), ~dirty, NEW k \in 1..applied
        PROVE  heap'[ops[k].cmd] = heap[ops[k].cmd]
    <3>1. applied \in 0..Len(ops) /\ Len(ops) \in Nat
      BY SeqFacts DEF InsideInv, OperationsInv, BalanceInv, Balanced
    <3>2. k \in 1..Len(ops)
      BY <3>1
    <3>3. ops[k].cmd \in Edits(heap)
      BY <2>1, <3>2 DEF InsideInv, WalkInv, OpsInOrder, OpNodes
    <3>4. QED
      BY <1>8, <2>1, <3>3 DEF Edits, SameDocs
  <2>2. QED
    BY <1>8, <2>1 DEF Scheduled, Calling
<1>9. CASE EditConfigOpsReturns
  <2>1. UNCHANGED <<dirty, staged, stored, delayed, applied, ops, pc, todo, heap>>
    BY <1>9 DEF EditConfigOpsReturns, luaVars, editVars, uciVars
  <2>2. QED
    BY <1>8, <2>1 DEF SameDocs
<1>10. CASE SetConfigReturns
  <2>1. ~Calling("set_config")' /\ delayed' = <<>> /\ UNCHANGED <<dirty, stored>>
    BY <1>10 DEF SetConfigReturns, LuaReturns, FlushLists, Calling
  <2>2. staged' = WriteLists(staged) \/ staged' = staged
    BY <1>10 DEF SetConfigReturns, FlushLists
  <2>3. ASSUME ~dirty
        PROVE  WriteLists(staged) = staged
    <3>1. DOMAIN delayed = {}
      BY <2>3 DEF Scheduled
    <3>2. QED
      BY <3>1 DEF WriteLists
  <2>4. QED
    BY <2>1, <2>2, <2>3 DEF Scheduled
<1>11. CASE Gc
  <2>1. UNCHANGED <<dirty, staged, stored, delayed, applied, ops, pc, todo>>
    BY <1>11 DEF Gc, luaVars, pluginVars, editVars, uciVars
  <2>2. QED
    BY <1>8, <1>11, <2>1, GcKeepsDocs DEF InsideInv
<1>12. CASE UNCHANGED allVars
  <2>1. UNCHANGED <<dirty, staged, stored, delayed, applied, ops, pc, todo, heap>>
    BY <1>12 DEF allVars, luaVars, xmlVars, editVars, uciVars
  <2>2. QED
    BY <1>8, <2>1 DEF SameDocs
<1>13. QED
  BY <1>2, <1>3, <1>4, <1>5, <1>6, <1>7, <1>9, <1>10, <1>11, <1>12 DEF Next, InsidePlugin

(* What a successful chain leaves in the cursor is on disk: whatever an    *)
(* edit asks for, applyops never changes the package without having        *)
(* entered, or changed, its config, which schedules it for commit.         *)
THEOREM ChangesAreScheduled == Spec => []NothingForgotten
<1>1. Scheduled => NothingForgotten
  BY DEF Scheduled, NothingForgotten
<1>2. InsideInv /\ Scheduled /\ [Next]_allVars => (InsideInv /\ Scheduled)'
  BY InsideStep, ScheduledStep
<1>3. QED
  BY <1>1, <1>2, InsideBegins, PTL DEF Spec
-----------------------------------------------------------------------------
(* get.  The paths of the view in the order of xmltree_dump: a node before *)
(* what is below it, and before the siblings that come later.              *)
Earlier(p, q) ==
  Below(p, q) \/ \E i \in 1..Len(p) : i <= Len(q) /\ p[i] < q[i] /\ \A j \in 1..(i - 1) : p[j] = q[j]

(* Of two paths one comes first.                                           *)
LEMMA EarlierTotal ==
  ASSUME NEW p \in Seq(Nat), NEW q \in Seq(Nat)
  PROVE  Earlier(p, q) \/ Earlier(q, p)
<1> DEFINE D == {i \in 1..Len(p) : i <= Len(q) /\ p[i] # q[i]}
<1>1. CASE D = {}
  <2>1. \A i \in 1..Len(p) : i <= Len(q) => p[i] = q[i]
    BY <1>1
  <2>2. CASE Len(p) <= Len(q)
    BY <2>1, <2>2 DEF Earlier, Below
  <2>3. CASE Len(q) <= Len(p)
    BY <2>1, <2>3 DEF Earlier, Below
  <2>4. QED
    BY <2>2, <2>3
<1>2. CASE D # {}
  <2>1. D \subseteq Nat
    OBVIOUS
  <2>2. PICK i \in D : \A k \in D : i <= k
    BY <1>2, <2>1, LeastNumber
  <2>3. /\ i \in 1..Len(p) /\ i \in 1..Len(q) /\ p[i] # q[i] /\ p[i] \in Nat /\ q[i] \in Nat
        /\ \A j \in 1..(i - 1) : p[j] = q[j]
    BY <2>2, SMTT(30)
  <2>4. CASE p[i] < q[i]
    BY <2>3, <2>4 DEF Earlier
  <2>5. CASE q[i] < p[i]
    BY <2>3, <2>5 DEF Earlier
  <2>6. QED
    BY <2>3, <2>4, <2>5
<1>3. QED
  BY <1>1, <1>2

(* What comes before an earlier one comes before the later one.            *)
LEMMA EarlierTransitive ==
  ASSUME NEW p \in Seq(Nat), NEW q \in Seq(Nat), NEW r \in Seq(Nat), Earlier(p, q), Earlier(q, r)
  PROVE  Earlier(p, r)
<1> DEFINE First(s, t, i) ==
             i \in 1..Len(s) /\ i <= Len(t) /\ s[i] < t[i] /\ \A j \in 1..(i - 1) : s[j] = t[j]
<1>1. CASE Below(p, q) /\ Below(q, r)
  BY <1>1 DEF Earlier, Below
<1>2. ASSUME Below(p, q), NEW i, First(q, r, i)
      PROVE  Earlier(p, r)
  <2>1. CASE i <= Len(p)
    <3>1. First(p, r, i)
      BY <1>2, <2>1 DEF Below
    <3>2. QED
      BY <3>1 DEF Earlier
  <2>2. CASE Len(p) < i
    <3>1. Below(p, r)
      BY <1>2, <2>2 DEF Below
    <3>2. QED
      BY <3>1 DEF Earlier
  <2>3. QED
    BY <1>2, <2>1, <2>2
<1>3. ASSUME NEW i, First(p, q, i), Below(q, r)
      PROVE  Earlier(p, r)
  <2>1. First(p, r, i)
    BY <1>3 DEF Below
  <2>2. QED
    BY <2>1 DEF Earlier
<1>4. ASSUME NEW i, First(p, q, i), NEW k, First(q, r, k)
      PROVE  Earlier(p, r)
  <2>1. CASE i <= k
    <3>1. i \in 1..Len(p) /\ i \in 1..Len(q) /\ i \in 1..Len(r) /\ k \in 1..Len(q) /\ k \in Nat
      <4>1. Len(p) \in Nat /\ Len(q) \in Nat /\ Len(r) \in Nat
        OBVIOUS
      <4>2. QED
        BY <1>4, <2>1, <4>1
    <3>2. p[i] \in Nat /\ q[i] \in Nat /\ r[i] \in Nat
      BY <3>1, SMTT(30)
    <3>3. q[i] <= r[i]
      <4>1. CASE i = k
        BY <1>4, <3>2, <4>1
      <4>2. CASE i # k
        BY <1>4, <2>1, <3>1, <3>2, <4>2
      <4>3. QED
        BY <4>1, <4>2
    <3>4. \A j \in 1..(i - 1) : p[j] = r[j]
      BY <1>4, <2>1, <3>1
    <3>5. First(p, r, i)
      BY <1>4, <3>1, <3>2, <3>3, <3>4, SMTT(30)
    <3>6. QED
      BY <3>5 DEF Earlier
  <2>2. CASE k < i
    <3>1. First(p, r, k)
      BY <1>4, <2>2, SMTT(30)
    <3>2. QED
      BY <3>1 DEF Earlier
  <2>3. QED
    BY <1>4, <2>1, <2>2
<1>5. QED
  BY <1>1, <1>2, <1>3, <1>4 DEF Earlier

(* Of finitely many paths one comes first: the one that fewest precede.    *)
LEMMA EarliestPath ==
  ASSUME NEW S, IsFiniteSet(S), S # {}, S \subseteq Seq(Nat)
  PROVE  \E p \in S : \A q \in S : Earlier(p, q)
<1> DEFINE Before(p) == {q \in S : ~Earlier(p, q)}
           N == {Cardinality(Before(p)) : p \in S}
<1>1. \A p \in S : IsFiniteSet(Before(p)) /\ Cardinality(Before(p)) \in Nat
  BY FS_Subset, FS_CardinalityType
<1>2. N \subseteq Nat /\ N # {}
  BY <1>1
<1>3. PICK p \in S : \A q \in S : Cardinality(Before(p)) <= Cardinality(Before(q))
  <2>1. PICK n \in N : \A m \in N : n <= m
    BY <1>2, LeastNumber
  <2> HIDE DEF Before
  <2>2. QED
    BY <2>1
<1>4. ASSUME NEW q \in S, ~Earlier(p, q)
      PROVE  FALSE
  <2>1. Earlier(q, p)
    BY <1>4, EarlierTotal
  <2>2. Before(q) \subseteq Before(p)
    BY <2>1, EarlierTransitive
  <2>3. Earlier(q, q)
    BY DEF Earlier, Below
  <2>4. Before(q) # Before(p)
    BY <1>4, <2>3
  <2>5. /\ Cardinality(Before(q)) <= Cardinality(Before(p))
        /\ Cardinality(Before(p)) = Cardinality(Before(q)) => Before(p) = Before(q)
    BY <1>1, <2>2, FS_Subset
  <2>6. Cardinality(Before(p)) <= Cardinality(Before(q))
    BY <1>3
  <2> HIDE DEF Before
  <2>7. QED
    BY <1>1, <1>4, <2>4, <2>5, <2>6
<1>5. QED
  BY <1>4

(* Sequences with the same members are the same.                           *)
LEMMA SameSeq ==
  ASSUME NEW s, NEW t, IsSeq(s), IsSeq(t), Len(s) = Len(t), \A i \in 1..Len(s) : s[i] = t[i]
  PROVE  s = t
<1> DEFINE T == {s[i] : i \in 1..Len(s)} \union {t[i] : i \in 1..Len(t)}
<1>1. s \in Seq(T) /\ t \in Seq(T)
  BY DEF IsSeq
<1> HIDE DEF T
<1>2. QED
  BY <1>1, SeqEqual

(* The document that a get makes: a tree, with numbers for positions that  *)
(* have a bound.                                                           *)
Closed(h) ==
  \A m \in DOMAIN h : \A n :
    m[1] = "reply" /\ IsSeq(n) /\ Len(n) \in Nat \ {0} /\ Below(n, m) => n \in DOMAIN h
Bounded(h, b) ==
  \A m \in DOMAIN h : m[1] = "reply" =>
    /\ IsSeq(m) /\ Len(m) \in Nat \ {0}
    /\ Len(m) > 1 => Last(m) \in Nat /\ Last(m) <= b
ReplyTree(h) == Closed(h) /\ \E b \in Nat : Bounded(h, b)

(* Its nodes, and where they hang.                                         *)
ReplyNode(h, n) == n \in DOMAIN h /\ n[1] = "reply"
Hangs(n, m) == IsSeq(m) /\ Len(m) = Len(n) + 1 /\ Len(m) \in Nat \ {0} /\ Child(n, m) /\ Front(m) = n

(* Its node is a sequence, and what Child says of two is that one hangs on *)
(* the other.                                                              *)
LEMMA ChildHangs ==
  ASSUME NEW n, IsSeq(n), NEW m, IsSeq(m), Child(n, m)
  PROVE  Hangs(n, m)
<1>1. Len(n) \in Nat /\ Len(m) = Len(n) + 1 /\ Below(n, m) /\ m # <<>>
  BY SeqFacts DEF Child
<1>2. IsSeq(Front(m)) /\ Len(Front(m)) = Len(n) /\ \A i \in 1..Len(n) : Front(m)[i] = m[i]
  <2>1. IsSeq(Front(m)) /\ Len(Front(m)) = Len(m) - 1 /\ \A i \in 1..(Len(m) - 1) : Front(m)[i] = m[i]
    BY <1>1, FrontFacts
  <2>2. Len(m) - 1 = Len(n)
    BY <1>1
  <2>3. QED
    BY <2>1, <2>2
<1>3. \A i \in 1..Len(n) : m[i] = n[i]
  BY <1>1 DEF Below
<1>4. Front(m) = n
  BY <1>2, <1>3, SameSeq
<1>5. QED
  BY <1>1, <1>4 DEF Hangs, Child

(* A node that is appended is a new one, behind all others, and it is what *)
(* NewChild gives.                                                         *)
Grafted(h, g, u, node, at) ==
  /\ at \notin DOMAIN h /\ ReplyNode(g, at) /\ Hangs(u, at)
  /\ DOMAIN g = DOMAIN h \union {at} /\ g[at] = node /\ \A m \in DOMAIN h : g[m] = h[m]
  /\ g = [m \in DOMAIN h \union {at} |-> g[m]]
  /\ ReplyTree(g) /\ NewChild(g, u) = at

(* So it is, in a document that is a tree.                                 *)
LEMMA AppendedFacts ==
  ASSUME NEW h, ReplyTree(h), NEW u, ReplyNode(h, u), NEW node
  PROVE  \E at : Grafted(h, Appended(h, u, node), u, node, at)
<1> DEFINE L == {Last(m) : m \in ChildNodes(h, u)} \union {0}
           at == Append(u, 1 + Max(L))
           g == Appended(h, u, node)
<1>1. IsSeq(u) /\ Len(u) \in Nat \ {0} /\ u \in DOMAIN h /\ u[1] = "reply"
  BY DEF ReplyTree, Bounded, ReplyNode
<1>2. PICK b \in Nat : Bounded(h, b)
  BY DEF ReplyTree
<1>3. ASSUME NEW m \in ChildNodes(h, u)
      PROVE  m \in DOMAIN h /\ m[1] = "reply" /\ Child(u, m) /\ Last(m) \in Nat /\ Last(m) <= b
  <2>1. m \in DOMAIN h /\ Len(m) = Len(u) + 1 /\ Below(u, m)
    BY DEF ChildNodes
  <2>2. m[1] = "reply" /\ Len(m) > 1
    BY <1>1, <2>1 DEF Below
  <2>3. QED
    BY <1>2, <2>1, <2>2 DEF Bounded, Child
<1>4. Max(L) \in L /\ \A x \in L : x <= Max(L)
  <2> DEFINE D == {b - x : x \in L}
  <2>1. \A x \in L : x \in Nat /\ x <= b
    BY <1>3
  <2>2. 0 \in L
    OBVIOUS
  <2> HIDE DEF L
  <2>3. D \subseteq Nat /\ D # {}
    BY <2>1, <2>2
  <2>4. PICK d \in D : \A e \in D : d <= e
    BY <2>3, LeastNumber
  <2>5. \E x \in L : \A y \in L : x >= y
    BY <2>1, <2>4
  <2>6. Max(L) \in L /\ \A y \in L : Max(L) >= y
    BY <2>5 DEF Max
  <2>7. QED
    BY <2>1, <2>6
<1>5. Max(L) \in Nat /\ Max(L) <= b
  BY <1>3, <1>4
<1> HIDE DEF L
<1>6. /\ IsSeq(at) /\ Len(at) = Len(u) + 1 /\ Child(u, at) /\ at[1] = "reply"
      /\ Last(at) = 1 + Max(L) /\ Len(at) \in Nat \ {0}
  <2>1. /\ IsSeq(at) /\ Len(at) = Len(u) + 1 /\ at[Len(u) + 1] = 1 + Max(L)
        /\ \A i \in 1..Len(u) : at[i] = u[i]
    BY <1>1, AppendFacts
  <2>2. at # <<>>
    BY <1>1, <2>1, SeqFacts
  <2>3. Last(at) = at[Len(at)]
    BY <2>1, <2>2, FrontFacts
  <2> HIDE DEF at
  <2>4. QED
    BY <1>1, <2>1, <2>3 DEF Child, Below
<1>7. g = [m \in DOMAIN h \union {at} |-> IF m = at THEN node ELSE h[m]]
  BY DEF Appended, L
<1> HIDE DEF at, g
<1>8. \A m \in ChildNodes(h, u) : Last(m) < Last(at)
  <2>1. \A m \in ChildNodes(h, u) : Last(m) \in L
    BY DEF L
  <2>2. QED
    BY <1>3, <1>4, <1>5, <1>6, <2>1
<1>9. at \notin DOMAIN h
  <2>1. at \in DOMAIN h => at \in ChildNodes(h, u)
    BY <1>6 DEF ChildNodes, Child
  <2>2. QED
    BY <1>5, <1>6, <1>8, <2>1
<1>10. Closed(g)
  <2> SUFFICES ASSUME NEW m \in DOMAIN g, NEW n, m[1] = "reply", IsSeq(n), Len(n) \in Nat \ {0}, Below(n, m)
               PROVE  n \in DOMAIN g
    BY DEF Closed
  <2>1. CASE m \in DOMAIN h
    BY <1>7, <2>1 DEF ReplyTree, Closed
  <2>2. CASE m = at /\ Len(n) = Len(at)
    <3>1. \A i \in 1..Len(n) : n[i] = at[i]
      BY <2>2 DEF Below
    <3>2. n = at
      BY <1>6, <2>2, <3>1, SameSeq
    <3>3. QED
      BY <1>7, <3>2
  <2>3. CASE m = at /\ Len(n) # Len(at)
    <3>1. Len(n) <= Len(u)
      BY <1>1, <1>6, <2>3 DEF Below
    <3>2. \A i \in 1..Len(n) : u[i] = n[i]
      BY <1>1, <1>6, <2>3, <3>1 DEF Below, Child
    <3>3. Below(n, u)
      BY <3>1, <3>2 DEF Below
    <3>4. QED
      BY <1>1, <1>7, <3>3 DEF ReplyTree, Closed
  <2>4. QED
    BY <1>7, <2>1, <2>2, <2>3
<1>11. Bounded(g, b + 1)
  <2> SUFFICES ASSUME NEW m \in DOMAIN g, m[1] = "reply"
               PROVE  /\ IsSeq(m) /\ Len(m) \in Nat \ {0}
                      /\ Len(m) > 1 => Last(m) \in Nat /\ Last(m) <= b + 1
    BY DEF Bounded
  <2>1. CASE m \in DOMAIN h
    BY <1>2, <2>1 DEF Bounded
  <2>2. CASE m = at
    BY <1>2, <1>5, <1>6, <2>2
  <2>3. QED
    BY <1>7, <2>1, <2>2
<1>12. ReplyTree(g)
  BY <1>10, <1>11 DEF ReplyTree
<1>13. NewChild(g, u) = at
  <2>1. ChildNodes(g, u) = ChildNodes(h, u) \union {at}
    BY <1>6, <1>7 DEF ChildNodes, Child
  <2>2. \A k \in ChildNodes(g, u) : Last(k) <= Last(at)
    BY <1>3, <1>5, <1>6, <1>8, <2>1
  <2>3. /\ NewChild(g, u) \in ChildNodes(g, u)
        /\ \A k \in ChildNodes(g, u) : Last(k) <= Last(NewChild(g, u))
    BY <2>1, <2>2 DEF NewChild
  <2>4. ASSUME NewChild(g, u) \in ChildNodes(h, u)
        PROVE  FALSE
    BY <1>3, <1>5, <1>6, <1>8, <2>1, <2>3, <2>4
  <2>5. QED
    BY <2>1, <2>3, <2>4
<1>14. Hangs(u, at)
  BY <1>1, <1>6, ChildHangs
<1>15. /\ DOMAIN g = DOMAIN h \union {at} /\ g[at] = node /\ \A m \in DOMAIN h : g[m] = h[m]
       /\ g = [m \in DOMAIN h \union {at} |-> g[m]]
  BY <1>7, <1>9
<1>16. ReplyNode(g, at)
  BY <1>6, <1>15 DEF ReplyNode
<1>17. QED
  BY <1>9, <1>12, <1>13, <1>14, <1>15, <1>16 DEF Grafted, g

(* What is known of a path that has been built.                            *)
Made(h, b, p) ==
  /\ ReplyNode(h, b[p]) /\ IsElement(h, b[p]) /\ h[b[p]].ns = "own"
  /\ p # <<>> => /\ Front(p) \in DOMAIN b /\ Hangs(b[Front(p)], b[p])
                 /\ h[b[p]].name = ViewTree[p].name

(* The texts are those of the nodes built, each hanging on its node.       *)
TextOf(h, k, u, q) == h[k] = TextNode(ViewTree[q].text) /\ Hangs(u, k)
Texts(h, b) ==
  /\ \A k \in DOMAIN h : k[1] = "reply" /\ ~IsElement(h, k) =>
       \E q \in DOMAIN b \ {<<>>} : ViewTree[q].text # 0 /\ TextOf(h, k, b[q], q)
  /\ \A q \in DOMAIN b \ {<<>>} : ViewTree[q].text # 0 => \E k \in DOMAIN h : TextOf(h, k, b[q], q)

(* The document has the part of the view that is built: a path is below    *)
(* another exactly if its node is.                                         *)
PrefixClosed(b) == \A p \in DOMAIN b, q \in Paths : Below(q, p) => q \in DOMAIN b
Embedded(b) == \A p, q \in DOMAIN b : Below(p, q) <=> Below(b[p], b[q])
Dump(h, b) ==
  /\ ReplyTree(h)
  /\ <<>> \in DOMAIN b /\ DOMAIN b \subseteq Paths \union {<<>>} /\ b[<<>>] = Root("reply")
  /\ \A p \in DOMAIN b : Made(h, b, p)
  /\ PrefixClosed(b) /\ Embedded(b) /\ Texts(h, b)

(* The paths of the view.                                                  *)
LEMMA ViewPaths ==
  ASSUME NEW p \in Paths
  PROVE  /\ p \in Seq(Nat) /\ IsSeq(p) /\ p # <<>> /\ Len(p) \in Nat \ {0}
         /\ IsSeq(Front(p)) /\ Len(Front(p)) = Len(p) - 1
         /\ Front(p) \in Paths \union {<<>>} /\ Below(Front(p), p) /\ Hangs(Front(p), p)
<1>1. p \in Seq(Nat \ {0}) /\ p # <<>> /\ Front(p) \in Paths \union {<<>>}
  BY ViewAssumption DEF Paths, Parent
<1>2. p \in Seq(Nat) /\ IsSeq(p)
  BY <1>1, AnySeq
<1>3. /\ IsSeq(Front(p)) /\ Len(Front(p)) = Len(p) - 1 /\ Len(p) \in Nat \ {0}
      /\ \A i \in 1..(Len(p) - 1) : Front(p)[i] = p[i]
  BY <1>1, <1>2, FrontFacts
<1>4. Below(Front(p), p) /\ Len(p) = Len(Front(p)) + 1
  BY <1>3 DEF Below
<1>5. Hangs(Front(p), p)
  BY <1>2, <1>3, <1>4, ChildHangs DEF Child
<1>6. QED
  BY <1>1, <1>2, <1>3, <1>4, <1>5

(* The next node hangs on one that is built.                               *)
LEMMA NextPathFacts ==
  ASSUME Dump(heap, built), DOMAIN built # Paths \union {<<>>}
  PROVE  NextPath \in Paths \ DOMAIN built /\ Front(NextPath) \in DOMAIN built
<1> DEFINE S == Paths \ DOMAIN built
<1>1. S # {} /\ S \subseteq Seq(Nat) /\ IsFiniteSet(S)
  <2>1. IsFiniteSet(S)
    BY ViewAssumption, FS_Subset DEF Paths
  <2>2. QED
    BY <2>1, ViewPaths DEF Dump
<1>2. PICK p \in S : \A q \in S : Earlier(p, q)
  BY <1>1, EarliestPath
<1>3. NextPath \in S /\ \A q \in S : Earlier(NextPath, q)
  BY <1>2 DEF NextPath, Earlier
<1>4. PICK e : e = NextPath /\ e \in Paths /\ e \notin DOMAIN built /\ \A q \in S : Earlier(e, q)
  BY <1>3
<1>5. /\ Len(e) \in Nat \ {0} /\ Len(Front(e)) = Len(e) - 1 /\ Front(e) \in Paths \union {<<>>}
      /\ Below(Front(e), e)
  BY <1>4, ViewPaths
<1>6. ~Earlier(e, Front(e))
  <2>1. ~Below(e, Front(e))
    BY <1>5 DEF Below
  <2>2. ASSUME NEW i \in 1..Len(e), i <= Len(Front(e)), e[i] < Front(e)[i]
        PROVE  FALSE
    <3>1. Front(e)[i] = e[i] /\ e[i] \in Nat
      <4>1. i \in 1..Len(Front(e)) /\ e \in Seq(Nat)
        BY <1>4, <1>5, <2>2, ViewPaths
      <4>2. QED
        BY <1>5, <4>1 DEF Below
    <3>2. QED
      BY <2>2, <3>1
  <2>3. QED
    BY <2>1, <2>2 DEF Earlier
<1>7. Front(e) \in DOMAIN built
  BY <1>4, <1>5, <1>6 DEF Dump
<1>8. QED
  BY <1>4, <1>7

(* What handle_node does: one new node, with its text if it has one.       *)
Grown(h, g, b, p, n) ==
  /\ p \in Paths \ DOMAIN b /\ Front(p) \in DOMAIN b
  /\ n \notin DOMAIN h /\ Hangs(b[Front(p)], n) /\ ReplyNode(g, n)
  /\ g[n] = Element(ViewTree[p].name, 0, "own", "")
  /\ ReplyTree(g)
  /\ \A m \in DOMAIN h : m \in DOMAIN g /\ g[m] = h[m]
  /\ \A k \in DOMAIN g \ (DOMAIN h \union {n}) : ViewTree[p].text # 0 /\ TextOf(g, k, n, p)
  /\ ViewTree[p].text # 0 => \E k \in DOMAIN g : TextOf(g, k, n, p)

(* And it is entered into built.                                           *)
Extended(b, p, n) == [q \in DOMAIN b \union {p} |-> IF q = p THEN n ELSE b[q]]

(* A step of get is of this kind.                                          *)
LEMMA BuildGrows ==
  ASSUME Dump(heap, built), BuildNode
  PROVE  \E p, n : Grown(heap, heap', built, p, n) /\ built' = Extended(built, p, n)
<1> DEFINE p == NextPath
           u == built[Front(p)]
           node == Element(ViewTree[p].name, 0, "own", "")
           h == AddChild(heap, u, ViewTree[p].name, "none")
           n == NewChild(h, u)
           t == ViewTree[p].text
<1>1. p \in Paths \ DOMAIN built /\ Front(p) \in DOMAIN built
  BY NextPathFacts DEF BuildNode
<1>2. ReplyNode(heap, u) /\ heap[u].ns = "own" /\ ReplyTree(heap)
  BY <1>1 DEF Dump, Made
<1>3. h = Appended(heap, u, node)
  BY <1>2 DEF AddChild
<1>4. heap' = (IF t = 0 THEN h ELSE SetText(h, n, t)) /\ built' = Extended(built, p, n)
  BY DEF BuildNode, Parent, Extended
<1> HIDE DEF p, u, node, t
<1>5. PICK at : Grafted(heap, h, u, node, at)
  BY <1>2, <1>3, AppendedFacts
<1> HIDE DEF h, n
<1>6. /\ n \notin DOMAIN heap /\ ReplyNode(h, n) /\ Hangs(u, n)
      /\ DOMAIN h = DOMAIN heap \union {n} /\ h[n] = node /\ \A m \in DOMAIN heap : h[m] = heap[m]
      /\ h = [m \in DOMAIN h |-> h[m]] /\ ReplyTree(h)
  BY <1>5 DEF Grafted, n
<1>7. CASE t = 0
  <2>1. heap' = h
    BY <1>4, <1>7
  <2>2. Grown(heap, heap', built, p, n)
    BY <1>1, <1>6, <1>7, <2>1 DEF Grown, t, u, node
  <2>3. QED
    BY <1>4, <2>2
<1>8. CASE t # 0
  <2>1. ChildNodes(h, n) = {}
    <3>1. SUFFICES ASSUME NEW m \in ChildNodes(h, n)
                   PROVE  FALSE
      OBVIOUS
    <3>2. m \in DOMAIN h /\ Len(m) = Len(n) + 1 /\ Below(n, m) /\ Len(n) \in Nat \ {0}
      BY <1>6 DEF ChildNodes, Hangs
    <3>3. m # n /\ m[1] = "reply"
      BY <1>6, <3>2 DEF Below, ReplyNode
    <3>4. m \in DOMAIN heap
      BY <1>6, <3>2, <3>3
    <3>5. IsSeq(n)
      BY <1>6 DEF Hangs
    <3>6. n \in DOMAIN heap
      BY <1>2, <3>2, <3>3, <3>4, <3>5 DEF ReplyTree, Closed
    <3>7. QED
      BY <1>6, <3>6
  <2>2. Without(h, {m \in ChildNodes(h, n) : ~IsElement(h, m)}) = h
    <3>1. {m \in ChildNodes(h, n) : ~IsElement(h, m)} = {}
      BY <2>1
    <3>2. Without(h, {}) = h
      BY <1>6 DEF Without
    <3>3. QED
      BY <3>1, <3>2
  <2>3. heap' = Appended(h, n, TextNode(t))
    BY <1>4, <1>8, <2>2 DEF SetText
  <2>4. PICK k : Grafted(h, heap', n, TextNode(t), k)
    BY <1>6, <2>3, AppendedFacts
  <2>5. Grown(heap, heap', built, p, n)
    <3>1. ReplyNode(heap', n) /\ heap'[n] = node
      BY <1>6, <2>4 DEF Grafted, ReplyNode
    <3>2. \A m \in DOMAIN heap : m \in DOMAIN heap' /\ heap'[m] = heap[m]
      BY <1>6, <2>4 DEF Grafted
    <3>3. TextOf(heap', k, n, p)
      BY <2>4 DEF Grafted, TextOf, t
    <3>4. \A m \in DOMAIN heap' \ (DOMAIN heap \union {n}) : m = k
      BY <1>6, <2>4 DEF Grafted
    <3>5. n \notin DOMAIN heap /\ Hangs(built[Front(p)], n)
      BY <1>6 DEF u
    <3>6. k \in DOMAIN heap' /\ ReplyTree(heap')
      BY <2>4 DEF Grafted
    <3>7. QED
      BY <1>1, <1>8, <3>1, <3>2, <3>3, <3>4, <3>5, <3>6 DEF Grown, t, node
  <2>6. QED
    BY <1>4, <2>5
<1>9. QED
  BY <1>7, <1>8

(* The document goes on having the part of the view that is built.         *)
LEMMA DumpGrows ==
  ASSUME NEW h, NEW b, Dump(h, b), NEW g, NEW p, NEW n, Grown(h, g, b, p, n),
         NEW c, c = Extended(b, p, n)
  PROVE  Dump(g, c)
<1> DEFINE f == Front(p)
           u == b[f]
<1>1. DOMAIN c = DOMAIN b \union {p} /\ c[p] = n /\ \A q \in DOMAIN b : c[q] = b[q]
  BY DEF Grown, Extended
<1>2. /\ p \in Paths \ DOMAIN b /\ f \in DOMAIN b /\ f \in Paths \union {<<>>} /\ p # <<>>
      /\ Below(f, p) /\ Len(p) = Len(f) + 1 /\ Len(p) \in Nat \ {0} /\ IsSeq(p) /\ IsSeq(f)
  BY ViewPaths DEF Grown, Hangs, Child
<1>3. n \notin DOMAIN h /\ Hangs(u, n) /\ ReplyNode(g, n) /\ ReplyTree(g)
  BY DEF Grown
<1>4. \A m \in DOMAIN h : m \in DOMAIN g /\ g[m] = h[m]
  BY DEF Grown
<1> HIDE DEF u, f
<1>5. /\ Len(u) \in Nat \ {0} /\ IsSeq(u) /\ u \in DOMAIN h /\ Len(n) = Len(u) + 1 /\ Below(u, n) /\ IsSeq(n)
      /\ Len(n) \in Nat
  BY <1>2, <1>3 DEF Dump, Made, ReplyTree, Bounded, ReplyNode, Hangs, Child, u
<1>6. \A q \in DOMAIN b : /\ b[q] \in DOMAIN h /\ b[q] # n /\ b[q][1] = "reply" /\ IsSeq(b[q])
                          /\ Len(b[q]) \in Nat \ {0}
  BY <1>3 DEF Dump, Made, ReplyNode, ReplyTree, Bounded
<1>7. \A q \in DOMAIN b : q = <<>> \/ q \in Paths
  BY DEF Dump
<1>8. ASSUME NEW q \in DOMAIN c
      PROVE  Made(g, c, q)
  <2>1. CASE q = p
    <3>1. g[n] = Element(ViewTree[p].name, 0, "own", "")
      BY DEF Grown
    <3>2. IsElement(g, n) /\ g[n].ns = "own" /\ g[n].name = ViewTree[p].name
      <4>1. \A x : /\ Element(x, 0, "own", "").type = "element" /\ Element(x, 0, "own", "").ns = "own"
                   /\ Element(x, 0, "own", "").name = x
        BY DEF Element
      <4>2. QED
        BY <3>1, <4>1 DEF IsElement
    <3>3. c[f] = u
      BY <1>1, <1>2 DEF u
    <3>4. QED
      BY <1>1, <1>2, <1>3, <2>1, <3>2, <3>3 DEF Made, f
  <2>2. CASE q \in DOMAIN b
    <3>1. Made(h, b, q)
      BY <2>2 DEF Dump
    <3>2. c[q] = b[q] /\ g[b[q]] = h[b[q]] /\ b[q] \in DOMAIN g
      BY <1>1, <1>4, <1>6, <2>2
    <3>3. q # <<>> => Front(q) \in DOMAIN c /\ c[Front(q)] = b[Front(q)]
      BY <1>1, <3>1 DEF Made
    <3>4. QED
      BY <3>1, <3>2, <3>3 DEF Made, ReplyNode, IsElement
  <2>3. QED
    BY <1>1, <2>1, <2>2
<1>9. PrefixClosed(c)
  <2> SUFFICES ASSUME NEW r \in DOMAIN c, NEW q \in Paths, Below(q, r)
               PROVE  q \in DOMAIN c
    BY DEF PrefixClosed
  <2>1. CASE r \in DOMAIN b
    BY <1>1, <2>1 DEF Dump, PrefixClosed
  <2>2. CASE r = p
    <3>1. IsSeq(q) /\ Len(q) \in Nat
      BY ViewPaths
    <3>2. CASE Len(q) = Len(p)
      <4>1. \A i \in 1..Len(q) : q[i] = p[i]
        BY <2>2 DEF Below
      <4>2. q = p
        BY <1>2, <3>1, <3>2, <4>1, SameSeq
      <4>3. QED
        BY <1>1, <4>2
    <3>3. CASE Len(q) # Len(p)
      <4>1. Below(q, f)
        BY <1>2, <2>2, <3>1, <3>3 DEF Below
      <4>2. QED
        BY <1>1, <1>2, <4>1 DEF Dump, PrefixClosed
    <3>4. QED
      BY <3>2, <3>3
  <2>3. QED
    BY <1>1, <2>1, <2>2
<1>10. ASSUME NEW q \in DOMAIN b
       PROVE  /\ Below(q, p) <=> Below(b[q], n)
              /\ ~Below(p, q) /\ ~Below(n, b[q])
  <2>1. IsSeq(q) /\ Len(q) \in Nat
    BY <1>7, ViewPaths, EmptyFacts
  <2>2. Below(q, p) <=> Below(q, f)
    <3>1. ASSUME Below(q, p), Len(q) = Len(p)
          PROVE  FALSE
      <4>1. q = p
        BY <1>2, <2>1, <3>1, SameSeq DEF Below
      <4>2. QED
        BY <1>2, <4>1
    <3>2. QED
      BY <1>2, <2>1, <3>1 DEF Below
  <2>3. Below(b[q], n) <=> Below(b[q], u)
    <3>1. ASSUME Below(b[q], n), Len(b[q]) = Len(n)
          PROVE  FALSE
      <4>1. b[q] = n
        BY <1>5, <1>6, <3>1, SameSeq DEF Below
      <4>2. QED
        BY <1>6, <4>1
    <3>2. QED
      BY <1>5, <1>6, <3>1 DEF Below
  <2>4. Below(q, f) <=> Below(b[q], u)
    BY <1>2 DEF Dump, Embedded, u
  <2>5. ~Below(p, q)
    BY <1>2 DEF Dump, PrefixClosed
  <2>6. ~Below(n, b[q])
    <3>1. Closed(h) /\ Len(n) \in Nat \ {0}
      BY <1>5 DEF Dump, ReplyTree
    <3>2. QED
      BY <1>3, <1>5, <1>6, <3>1 DEF Closed
  <2>7. QED
    BY <2>2, <2>3, <2>4, <2>5, <2>6
<1>11. Embedded(c)
  <2>1. Below(p, p) /\ Below(n, n)
    BY <1>2, <1>5 DEF Below
  <2>2. ASSUME NEW q \in DOMAIN c, NEW r \in DOMAIN c
        PROVE  Below(q, r) <=> Below(c[q], c[r])
    <3>1. CASE q \in DOMAIN b /\ r \in DOMAIN b
      BY <1>1, <3>1 DEF Dump, Embedded
    <3>2. CASE q = p /\ r \in DOMAIN b
      BY <1>1, <1>10, <3>2
    <3>3. CASE q \in DOMAIN b /\ r = p
      BY <1>1, <1>10, <3>3
    <3>4. CASE q = p /\ r = p
      BY <1>1, <2>1, <3>4
    <3>5. QED
      BY <1>1, <3>1, <3>2, <3>3, <3>4
  <2>3. QED
    BY <2>2 DEF Embedded
<1>12. Texts(g, c)
  <2>1. ASSUME NEW k \in DOMAIN g, k[1] = "reply", ~IsElement(g, k)
        PROVE  \E q \in DOMAIN c \ {<<>>} : ViewTree[q].text # 0 /\ TextOf(g, k, c[q], q)
    <3>1. CASE k \in DOMAIN h
      <4>1. g[k] = h[k] /\ ~IsElement(h, k)
        BY <1>4, <2>1, <3>1 DEF IsElement
      <4>2. PICK q \in DOMAIN b \ {<<>>} : ViewTree[q].text # 0 /\ TextOf(h, k, b[q], q)
        BY <2>1, <3>1, <4>1 DEF Dump, Texts
      <4>3. QED
        BY <1>1, <4>1, <4>2 DEF TextOf
    <3>2. CASE k \notin DOMAIN h
      <4>1. k # n
        BY <1>1, <1>8, <2>1 DEF Made
      <4>2. ViewTree[p].text # 0 /\ TextOf(g, k, n, p)
        BY <3>2, <4>1 DEF Grown
      <4>3. QED
        BY <1>1, <1>2, <4>2
    <3>3. QED
      BY <3>1, <3>2
  <2>2. ASSUME NEW q \in DOMAIN c \ {<<>>}, ViewTree[q].text # 0
        PROVE  \E k \in DOMAIN g : TextOf(g, k, c[q], q)
    <3>1. CASE q \in DOMAIN b
      <4>1. PICK k \in DOMAIN h : TextOf(h, k, b[q], q)
        BY <2>2, <3>1 DEF Dump, Texts
      <4>2. QED
        BY <1>1, <1>4, <3>1, <4>1 DEF TextOf
    <3>2. CASE q = p
      BY <1>1, <2>2, <3>2 DEF Grown
    <3>3. QED
      BY <1>1, <3>1, <3>2
  <2>3. QED
    BY <2>1, <2>2 DEF Texts
<1>13. <<>> \in DOMAIN c /\ DOMAIN c \subseteq Paths \union {<<>>} /\ c[<<>>] = Root("reply")
  BY <1>1, <1>2 DEF Dump
<1>14. QED
  BY <1>3, <1>8, <1>9, <1>11, <1>12, <1>13 DEF Dump

(* The collector leaves the document of a get alone.                       *)
LEMMA DumpCollected ==
  ASSUME NEW h, NEW b, Dump(h, b), NEW g, DOMAIN g \subseteq DOMAIN h,
         \A m \in DOMAIN g : g[m] = h[m], \A m \in DOMAIN h : m[1] = "reply" => m \in DOMAIN g
  PROVE  Dump(g, b)
<1>1. \A m : ReplyNode(h, m) => ReplyNode(g, m) /\ g[m] = h[m]
  BY DEF ReplyNode
<1>2. ReplyTree(g)
  <2>1. PICK x \in Nat : Bounded(h, x)
    BY DEF Dump, ReplyTree
  <2>2. Bounded(g, x)
    BY <2>1 DEF Bounded
  <2>3. ASSUME NEW m \in DOMAIN g, NEW n, m[1] = "reply", IsSeq(n), Len(n) \in Nat \ {0}, Below(n, m)
        PROVE  n \in DOMAIN g
    <3>1. n \in DOMAIN h
      BY <2>3 DEF Dump, ReplyTree, Closed
    <3>2. n[1] = "reply"
      BY <2>3 DEF Below
    <3>3. QED
      BY <3>1, <3>2
  <2>4. QED
    BY <2>2, <2>3 DEF ReplyTree, Closed
<1>3. \A p \in DOMAIN b : Made(g, b, p)
  BY <1>1 DEF Dump, Made, IsElement
<1>4. Texts(g, b)
  <2>1. ASSUME NEW q \in DOMAIN b \ {<<>>}, ViewTree[q].text # 0
        PROVE  \E k \in DOMAIN g : TextOf(g, k, b[q], q)
    <3>1. PICK k \in DOMAIN h : TextOf(h, k, b[q], q)
      BY <2>1 DEF Dump, Texts
    <3>2. b[q][1] = "reply" /\ Len(b[q]) \in Nat \ {0}
      BY DEF Dump, Made, ReplyNode, ReplyTree, Bounded
    <3>3. k[1] = "reply"
      BY <3>1, <3>2 DEF TextOf, Hangs, Child, Below
    <3>4. QED
      BY <3>1, <3>3 DEF TextOf
  <2>2. ASSUME NEW k \in DOMAIN g, k[1] = "reply", ~IsElement(g, k)
        PROVE  \E q \in DOMAIN b \ {<<>>} : ViewTree[q].text # 0 /\ TextOf(g, k, b[q], q)
    <3>1. ~IsElement(h, k) /\ k \in DOMAIN h /\ g[k] = h[k]
      BY <2>2 DEF IsElement
    <3>2. QED
      BY <2>2, <3>1 DEF Dump, Texts, TextOf
  <2>3. QED
    BY <2>1, <2>2 DEF Texts
<1>5. QED
  BY <1>2, <1>3, <1>4 DEF Dump

(* A get begins with the root alone.                                       *)
LEMMA NewReply ==
  ASSUME NEW root, root = Root("reply")
  PROVE  LET h == NewDoc(heap, "reply", "view", "own")
         IN  /\ \A m \in DOMAIN h : m[1] = "reply" => m = root
             /\ ReplyNode(h, root) /\ h[root] = Element("view", 0, "own", "")
             /\ IsSeq(root) /\ Len(root) = 1 /\ root[1] = "reply"
<1> DEFINE nodes == [m \in {root} |-> Element("view", 0, "own", "")]
           h == NewDoc(heap, "reply", "view", "own")
<1>1. IsSeq(root) /\ Len(root) = 1 /\ root[1] = "reply"
  <2>1. root \in Seq({"reply"}) /\ Len(root) = 1 /\ root[1] = "reply"
    BY DEF Root
  <2>2. QED
    BY <2>1, AnySeq
<1>2. h = WithDoc(heap, "reply", nodes)
  BY DEF NewDoc, Root
<1>3. DOMAIN nodes = {root} /\ nodes[root] = Element("view", 0, "own", "")
  OBVIOUS
<1> HIDE DEF nodes, h
<1>4. /\ \A m \in DOMAIN h : m = root \/ (m \in DOMAIN heap /\ m[1] # "reply")
      /\ root \in DOMAIN h /\ h[root] = nodes[root]
  BY <1>2, <1>3 DEF WithDoc, Without, OfDocs
<1>5. QED
  BY <1>1, <1>3, <1>4 DEF ReplyNode, h

(* What get begins with is the print of the empty part of the tables.      *)
LEMMA DumpBegins ==
  ASSUME NEW b, b = [p \in {<<>>} |-> Root("reply")]
  PROVE  Dump(NewDoc(heap, "reply", "view", "own"), b)
<1>1. PICK h, root : h = NewDoc(heap, "reply", "view", "own") /\ root = Root("reply")
  OBVIOUS
<1>2. /\ \A m \in DOMAIN h : m[1] = "reply" => m = root
      /\ ReplyNode(h, root) /\ h[root] = Element("view", 0, "own", "")
  BY <1>1, NewReply
<1>3. IsSeq(root) /\ Len(root) = 1 /\ root[1] = "reply"
  BY <1>1, NewReply
<1>4. ReplyTree(h)
  <2>1. ASSUME NEW n, IsSeq(n), Len(n) \in Nat \ {0}, Below(n, root)
        PROVE  n \in DOMAIN h
    <3>1. Len(n) = Len(root)
      BY <1>3, <2>1 DEF Below
    <3>2. \A i \in 1..Len(n) : n[i] = root[i]
      BY <1>3, <2>1 DEF Below
    <3>3. n = root
      BY <1>3, <2>1, <3>1, <3>2, SameSeq
    <3>4. QED
      BY <1>2, <3>3 DEF ReplyNode
  <2>2. Closed(h)
    BY <1>2, <2>1 DEF Closed
  <2>3. Bounded(h, 0)
    <3>1. ASSUME NEW m \in DOMAIN h, m[1] = "reply"
          PROVE  IsSeq(m) /\ Len(m) \in Nat \ {0} /\ ~(Len(m) > 1)
      <4>1. IsSeq(m) /\ Len(m) = 1
        BY <1>2, <1>3, <3>1
      <4>2. QED
        BY <4>1
    <3>2. QED
      BY <3>1 DEF Bounded
  <2>4. QED
    BY <2>2, <2>3 DEF ReplyTree
<1>5. DOMAIN b = {<<>>} /\ b[<<>>] = root
  BY <1>1
<1>6. IsElement(h, root) /\ h[root].ns = "own"
  <2>1. \A x : Element(x, 0, "own", "").type = "element" /\ Element(x, 0, "own", "").ns = "own"
    BY DEF Element
  <2>2. QED
    BY <1>2, <2>1 DEF IsElement
<1>7. Texts(h, b)
  BY <1>2, <1>5, <1>6 DEF Texts
<1>8. Embedded(b)
  <2>1. Below(<<>>, <<>>)
    BY DEF Below
  <2>2. Below(root, root)
    BY <1>3 DEF Below
  <2>3. QED
    BY <1>5, <2>1, <2>2 DEF Embedded
<1>9. PrefixClosed(b)
  <2> SUFFICES ASSUME NEW q \in Paths
               PROVE  ~Below(q, <<>>)
    BY <1>5 DEF PrefixClosed
  <2>1. Len(q) \in Nat \ {0}
    BY ViewPaths
  <2>2. QED
    BY <2>1, EmptyFacts DEF Below
<1>10. \A p \in DOMAIN b : Made(h, b, p)
  BY <1>2, <1>5, <1>6 DEF Made
<1>11. QED
  BY <1>1, <1>4, <1>5, <1>7, <1>8, <1>9, <1>10 DEF Dump

(* While get is in work its document is in scope and grows; otherwise      *)
(* there is none.                                                          *)
DumpInv ==
  /\ Calling("get") => Dump(heap, built) /\ scope = {"reply"}
  /\ ~Calling("get") => built = <<>>

(* No plugin is in work at the start.                                      *)
LEMMA DumpInvBegins == Init => DumpInv
BY DEF Init, LuaInit, DumpInv, Calling

(* All else leaves it alone.                                               *)
LEMMA BuiltElsewhere ==
  ASSUME \/ Loop \/ Chain \/ Finish \/ BeginSetConfig \/ CallOther
         \/ ScanStep \/ EditConfigOpsReturns \/ ApplyStep \/ SetConfigReturns \/ OtherReturns
  PROVE  ~Calling("get") /\ ~Calling("get")' /\ built' = built
<1>1. CASE Loop
  BY <1>1 DEF Loop, ReceiveOwn, ReceiveUser, ReceiveServer, NewRpc, Hangup, RefuseInC, Dispatched,
     Calling, insideVars
<1>2. CASE Chain
  BY <1>2 DEF Chain, ChainReturns, Calling
<1>3. CASE Finish
  BY <1>3 DEF Finish, Send, Calling
<1>4. CASE BeginSetConfig \/ CallOther
  BY <1>4 DEF BeginSetConfig, CallOther, CallLua, Calling, insideVars
<1>5. CASE ScanStep \/ EditConfigOpsReturns \/ ApplyStep
  BY <1>5 DEF ScanStep, EditConfigOpsReturns, ApplyStep, Calling, luaVars
<1>6. CASE SetConfigReturns \/ OtherReturns
  BY <1>6 DEF SetConfigReturns, OtherReturns, LuaReturns, Calling
<1>7. QED
  BY <1>1, <1>2, <1>3, <1>4, <1>5, <1>6

(* Every step of a session keeps to it.                                    *)
LEMMA DumpStep == DumpInv /\ [Next]_allVars => DumpInv'
<1> SUFFICES ASSUME DumpInv, [Next]_allVars
             PROVE  DumpInv'
  OBVIOUS
<1>1. CASE \/ Loop \/ Chain \/ Finish \/ BeginSetConfig \/ CallOther
           \/ ScanStep \/ EditConfigOpsReturns \/ ApplyStep \/ SetConfigReturns \/ OtherReturns
  BY <1>1, BuiltElsewhere DEF DumpInv
<1>2. CASE BeginGet
  <2>1. Calling("get")' /\ scope' = {"reply"}
    BY <1>2 DEF BeginGet, CallLua, Calling
  <2>2. Dump(heap', built')
    BY <1>2, DumpBegins DEF BeginGet
  <2>3. QED
    BY <2>1, <2>2 DEF DumpInv
<1>3. CASE BuildNode
  <2>1. Calling("get") /\ Calling("get")' /\ scope' = scope
    BY <1>3 DEF BuildNode, Calling, luaVars
  <2>2. Dump(heap', built')
    BY <1>3, <2>1, BuildGrows, DumpGrows DEF DumpInv
  <2>3. QED
    BY <2>1, <2>2 DEF DumpInv
<1>4. CASE GetReturns
  BY <1>4 DEF GetReturns, LuaReturns, DumpInv, Calling
<1>5. CASE Gc
  <2>1. /\ UNCHANGED <<pc, todo, built, scope>>
        /\ heap' = Without(heap, {m \in DOMAIN heap : m[1] \notin scope})
    BY <1>5 DEF Gc, Collect, luaVars, pluginVars
  <2>2. ASSUME scope = {"reply"}
        PROVE  /\ DOMAIN heap' \subseteq DOMAIN heap /\ \A m \in DOMAIN heap' : heap'[m] = heap[m]
               /\ \A m \in DOMAIN heap : m[1] = "reply" => m \in DOMAIN heap'
    BY <2>1, <2>2 DEF Without
  <2>3. Calling("get") => Dump(heap', built)
    BY <2>2, DumpCollected DEF DumpInv
  <2>4. QED
    BY <2>1, <2>3 DEF DumpInv, Calling
<1>6. CASE UNCHANGED allVars
  BY <1>6 DEF allVars, luaVars, xmlVars, DumpInv, Calling
<1>7. QED
  BY <1>1, <1>2, <1>3, <1>4, <1>5, <1>6 DEF Next, InsidePlugin

(* What strdump prints is the tree of the view: whatever the tree, each    *)
(* node under its parent, in the view's namespace, with the texts of what  *)
(* is below it, although xmltree_dump adds children and texts to one       *)
(* document while the collector runs.                                      *)
THEOREM DumpsAreTrees == Spec => []GetReturnsTree
<1>1. DumpInv => GetReturnsTree
  <2> SUFFICES ASSUME Dump(heap, built), DOMAIN built = Paths \union {<<>>}, NEW p \in Paths
               PROVE  /\ Parent(built[p]) = built[Parent(p)]
                      /\ heap[built[p]].name = ViewTree[p].name /\ heap[built[p]].ns = "own"
                      /\ Text(heap, built[p]) = {ViewTree[q].text : q \in {x \in Paths : Below(p, x)}} \ {0}
    BY DEF DumpInv, GetReturnsTree
  <2>1. Made(heap, built, p) /\ p # <<>> /\ \A q \in Paths : q \in DOMAIN built \ {<<>>}
    BY ViewPaths DEF Dump
  <2>2. /\ Parent(built[p]) = built[Parent(p)]
        /\ heap[built[p]].name = ViewTree[p].name /\ heap[built[p]].ns = "own"
    BY <2>1 DEF Made, Hangs, Parent
  <2> DEFINE below == {k \in Subtree(heap, built[p]) : ~IsElement(heap, k)}
  <2>3. \A q \in DOMAIN built : /\ built[q] \in DOMAIN heap /\ built[q][1] = "reply"
                                /\ IsSeq(built[q]) /\ Len(built[q]) \in Nat \ {0}
    BY DEF Dump, Made, ReplyNode, ReplyTree, Bounded
  <2>4. \A x : TextNode(x).text = x /\ TextNode(x).type = "text"
    BY DEF TextNode
  <2>5. ASSUME NEW k \in below
        PROVE  \E q \in Paths : Below(p, q) /\ ViewTree[q].text # 0 /\ heap[k].text = ViewTree[q].text
    <3>1. k \in DOMAIN heap /\ Below(built[p], k) /\ ~IsElement(heap, k)
      BY DEF Subtree
    <3>2. k[1] = "reply"
      BY <2>1, <2>3, <3>1 DEF Below
    <3>3. PICK q \in DOMAIN built \ {<<>>} : ViewTree[q].text # 0 /\ TextOf(heap, k, built[q], q)
      BY <3>1, <3>2 DEF Dump, Texts
    <3>4. IsSeq(k) /\ Len(k) = Len(built[q]) + 1 /\ Below(built[q], k)
      BY <3>3 DEF TextOf, Hangs, Child
    <3>5. Len(built[p]) # Len(k)
      <4>1. Len(built[p]) = Len(k) => built[p] = k
        BY <2>1, <2>3, <3>1, <3>4, SameSeq DEF Below
      <4>2. QED
        BY <2>1, <3>1, <4>1 DEF Made
    <3>6. Below(built[p], built[q])
      BY <2>1, <2>3, <3>1, <3>4, <3>5 DEF Below
    <3>7. Below(p, q)
      BY <2>1, <3>6 DEF Dump, Embedded
    <3>8. heap[k].text = ViewTree[q].text
      BY <2>4, <3>3 DEF TextOf
    <3>9. QED
      BY <3>3, <3>7, <3>8
  <2>6. ASSUME NEW q \in Paths, Below(p, q), ViewTree[q].text # 0
        PROVE  \E k \in below : heap[k].text = ViewTree[q].text
    <3>1. PICK k \in DOMAIN heap : TextOf(heap, k, built[q], q)
      BY <2>1, <2>6 DEF Dump, Texts
    <3>2. Below(built[p], built[q])
      BY <2>1, <2>6 DEF Dump, Embedded
    <3>3. Len(k) = Len(built[q]) + 1 /\ Below(built[q], k)
      BY <3>1 DEF TextOf, Hangs, Child
    <3>4. Below(built[p], k)
      BY <2>1, <2>3, <3>2, <3>3, BelowFacts
    <3>5. ~IsElement(heap, k) /\ heap[k].text = ViewTree[q].text
      BY <2>4, <3>1 DEF TextOf, IsElement
    <3>6. QED
      BY <3>4, <3>5 DEF Subtree
  <2>7. Text(heap, built[p]) = {heap[k].text : k \in below}
    BY DEF Text
  <2> HIDE DEF below
  <2>8. Text(heap, built[p]) = {ViewTree[q].text : q \in {x \in Paths : Below(p, x)}} \ {0}
    BY <2>5, <2>6, <2>7
  <2>9. QED
    BY <2>2, <2>8
<1>2. QED
  BY <1>1, DumpInvBegins, DumpStep, PTL DEF Spec

(* No Lua function holds a pointer to a node that is freed, neither inside *)
(* editconfig(), where create_scan deletes nodes of the document that it   *)
(* walks, nor while the operations are applied, nor while a get builds its *)
(* answer, whenever the collector runs.                                    *)
THEOREM NoDanglingHandles == Spec => []HandlesLive
<1>1. InsideInv /\ DumpInv => HandlesLive
  <2> SUFFICES ASSUME InsideInv, DumpInv
               PROVE  Held \subseteq DOMAIN heap /\ \A p \in DOMAIN built : built[p] \in DOMAIN heap
    BY DEF HandlesLive
  <2>1. \A p \in DOMAIN built : built[p] \in DOMAIN heap
    BY DEF DumpInv, Dump, Made, ReplyNode
  <2>2. ASSUME NEW f \in ToSet(frames)
        PROVE  HandlesOf(f) \subseteq DOMAIN heap
    <3>1. PICK i \in DOMAIN frames : f = frames[i]
      BY DEF ToSet
    <3>2. frames # <<>> /\ Calling("set_config")
      BY <3>1 DEF InsideInv
    <3>3. PICK j : Walk(heap, frames, ops, j, TRUE)
      BY <3>2 DEF InsideInv, WalkInv
    <3>4. IsSeq(frames) /\ Stops(heap, frames)
      BY <3>3 DEF Walk, Shape, Calls
    <3>5. i \in 1..Len(frames)
      BY <3>1, <3>4 DEF IsSeq
    <3>6. Stop(heap, f)
      BY <3>1, <3>4, <3>5 DEF Stops
    <3>7. QED
      BY <3>6 DEF Stop, Edits, InConfig, HandlesOf
  <2>3. ASSUME NEW o \in ToSet(ops)
        PROVE  {o.cmd, o.cfg} \ {Nil} \subseteq DOMAIN heap
    <3>1. PICK i \in DOMAIN ops : o = ops[i]
      BY DEF ToSet
    <3>2. OpsInOrder(heap, ops)
      <4>1. ops # <<>> /\ Calling("set_config")
        BY <3>1 DEF InsideInv
      <4>2. QED
        BY <4>1 DEF InsideInv, WalkInv
    <3>3. i \in 1..Len(ops)
      BY <3>1, <3>2 DEF OpsInOrder, IsSeq
    <3>4. QED
      BY <3>1, <3>2, <3>3 DEF OpsInOrder, OpNodes, Edits, InConfig
  <2>4. ASSUME NEW x \in Held
        PROVE  x \in DOMAIN heap
    <3>1. \/ x \in UNION {HandlesOf(f) : f \in ToSet(frames)}
          \/ x \in UNION {{o.cmd, o.cfg} \ {Nil} : o \in ToSet(ops)}
      BY <2>4 DEF Held
    <3>2. \/ \E f \in ToSet(frames) : x \in HandlesOf(f)
          \/ \E o \in ToSet(ops) : x \in {o.cmd, o.cfg} \ {Nil}
      BY <3>1
    <3>3. QED
      BY <2>2, <2>3, <3>2
  <2>5. QED
    BY <2>1, <2>4
<1>2. QED
  BY <1>1, InsideBegins, InsideStep, DumpInvBegins, DumpStep, PTL DEF Spec
-----------------------------------------------------------------------------
(* The documents are trees: what is deleted or freed goes with all that    *)
(* hangs on it.                                                            *)
Docs == {"config", "edit", "reply"}
Tree(h) ==
  \A m \in DOMAIN h : /\ m[1] \in Docs /\ IsSeq(m) /\ Len(m) \in Nat \ {0}
                      /\ Len(m) > 1 => Parent(m) \in DOMAIN h

(* A node's parent is in the same document, and above all that it is.      *)
LEMMA ParentFacts ==
  ASSUME NEW m, IsSeq(m), Len(m) \in Nat \ {0}, Len(m) > 1
  PROVE  /\ IsSeq(Parent(m)) /\ Len(Parent(m)) = Len(m) - 1 /\ Parent(m)[1] = m[1]
         /\ \A n : Len(n) \in Nat /\ Below(n, Parent(m)) => Below(n, m)
<1>1. m # <<>>
  BY SeqFacts
<1>2. IsSeq(Front(m)) /\ Len(Front(m)) = Len(m) - 1 /\ \A i \in 1..(Len(m) - 1) : Front(m)[i] = m[i]
  BY <1>1, FrontFacts
<1>3. Parent(m) = Front(m)
  BY DEF Parent
<1>4. 1 \in 1..(Len(m) - 1)
  OBVIOUS
<1>5. ASSUME NEW n, Len(n) \in Nat, Below(n, Parent(m))
      PROVE  Below(n, m)
  <2>1. Len(n) <= Len(m) - 1 /\ \A i \in 1..Len(n) : Parent(m)[i] = n[i]
    BY <1>2, <1>3, <1>5 DEF Below
  <2>2. Len(n) <= Len(m) /\ \A i \in 1..Len(n) : i \in 1..(Len(m) - 1)
    BY <1>5, <2>1
  <2>3. \A i \in 1..Len(n) : m[i] = n[i]
    BY <1>2, <1>3, <2>1, <2>2
  <2>4. QED
    BY <2>2, <2>3 DEF Below
<1>6. QED
  BY <1>2, <1>3, <1>4, <1>5

(* A new document is one of the trees.                                     *)
LEMMA TreeWithDoc ==
  ASSUME NEW h, Tree(h), NEW d, NEW nodes, Tree(nodes), \A m \in DOMAIN nodes : m[1] = d
  PROVE  Tree(WithDoc(h, d, nodes))
<1> DEFINE g == WithDoc(h, d, nodes)
<1>1. DOMAIN g = {m \in DOMAIN h : m[1] # d} \union DOMAIN nodes
  BY DEF WithDoc, Without, OfDocs
<1> HIDE DEF g
<1>2. ASSUME NEW m \in DOMAIN g
      PROVE  /\ m[1] \in Docs /\ IsSeq(m) /\ Len(m) \in Nat \ {0}
             /\ Len(m) > 1 => Parent(m) \in DOMAIN g
  <2>1. CASE m \in DOMAIN nodes
    BY <1>1, <2>1 DEF Tree
  <2>2. CASE m \in DOMAIN h /\ m[1] # d
    <3>1. m[1] \in Docs /\ IsSeq(m) /\ Len(m) \in Nat \ {0} /\ (Len(m) > 1 => Parent(m) \in DOMAIN h)
      BY <2>2 DEF Tree
    <3>2. Len(m) > 1 => Parent(m)[1] # d
      BY <2>2, <3>1, ParentFacts
    <3>3. QED
      BY <1>1, <3>1, <3>2
  <2>3. QED
    BY <1>1, <2>1, <2>2
<1>3. QED
  BY <1>2 DEF Tree, g

(* What is left of the trees when nodes go with all that is below them.    *)
LEMMA TreeWithout ==
  ASSUME NEW h, Tree(h), NEW gone,
         \A m \in DOMAIN h : Len(m) > 1 /\ Parent(m) \in gone => m \in gone
  PROVE  Tree(Without(h, gone))
<1>1. DOMAIN Without(h, gone) = DOMAIN h \ gone
  BY DEF Without
<1>2. QED
  BY <1>1 DEF Tree

(* One that has only its root.                                             *)
LEMMA TreeRoot ==
  ASSUME NEW h, NEW d \in Docs, DOMAIN h = {<<d>>}
  PROVE  Tree(h) /\ \A m \in DOMAIN h : m[1] = d
<1>1. PICK root : root = <<d>>
  OBVIOUS
<1>2. IsSeq(root) /\ Len(root) = 1 /\ root[1] = d
  <2>1. root \in Seq({d}) /\ Len(root) = 1 /\ root[1] = d
    BY <1>1
  <2>2. QED
    BY <2>1, AnySeq
<1>3. ASSUME NEW m \in DOMAIN h
      PROVE  m[1] = d /\ IsSeq(m) /\ Len(m) \in Nat \ {0} /\ ~(Len(m) > 1)
  <2>1. m = root
    BY <1>1
  <2>2. m[1] = d /\ IsSeq(m) /\ Len(m) = 1
    BY <1>2, <2>1
  <2>3. QED
    BY <2>2
<1>4. QED
  BY <1>3 DEF Tree

(* One that grows.                                                         *)
LEMMA TreeGrows ==
  ASSUME NEW h, NEW b, NEW g, NEW p, NEW n, Dump(h, b), Tree(h), Grown(h, g, b, p, n)
  PROVE  Tree(g)
<1>1. b[Front(p)] \in DOMAIN h
  BY DEF Grown, Dump, Made, ReplyNode
<1>2. /\ n \in DOMAIN g /\ n[1] = "reply" /\ Front(n) \in DOMAIN h /\ IsSeq(n) /\ Len(n) \in Nat \ {0}
  BY <1>1 DEF Grown, Hangs, ReplyNode
<1>3. \A m \in DOMAIN h : m \in DOMAIN g
  BY DEF Grown
<1>4. ASSUME NEW k \in DOMAIN g \ (DOMAIN h \union {n})
      PROVE  k[1] = "reply" /\ Front(k) = n /\ IsSeq(k) /\ Len(k) \in Nat \ {0}
  <2>1. Hangs(n, k)
    BY DEF Grown, TextOf
  <2>2. IsSeq(k) /\ Len(k) \in Nat \ {0} /\ Front(k) = n /\ Below(n, k)
    BY <2>1 DEF Hangs, Child
  <2>3. k[1] = n[1]
    BY <1>2, <2>2 DEF Below
  <2>4. QED
    BY <1>2, <2>2, <2>3
<1>5. ASSUME NEW m \in DOMAIN g
      PROVE  /\ m[1] \in Docs /\ IsSeq(m) /\ Len(m) \in Nat \ {0}
             /\ Len(m) > 1 => Parent(m) \in DOMAIN g
  <2>1. CASE m \in DOMAIN h
    BY <1>3, <2>1 DEF Tree
  <2>2. CASE m = n
    BY <1>2, <1>3, <2>2 DEF Docs, Parent
  <2>3. CASE m \notin DOMAIN h \union {n}
    BY <1>2, <1>4, <2>3 DEF Docs, Parent
  <2>4. QED
    BY <2>1, <2>2, <2>3
<1>6. QED
  BY <1>5 DEF Tree

(* A command is one.                                                       *)
LEMMA TreeCommand ==
  ASSUME NEW c \in Commands
  PROVE  Tree(c.nodes) /\ \A m \in DOMAIN c.nodes : m[1] = "edit"
<1>1. \A m \in DOMAIN c.nodes : Path(m) /\ (Len(m) > 1 => Parent(m) \in DOMAIN c.nodes)
  BY CommandPaths, CommandsAssumption
<1>2. QED
  BY <1>1 DEF Path, Tree, Docs

(* A node that hangs on one of these.                                      *)
On(D, m) == \E s \in D : IsSeq(s) /\ \E x : m = Append(s, x)

(* Its parent is that one.                                                 *)
LEMMA OnFacts ==
  ASSUME NEW s, IsSeq(s), NEW x
  PROVE  IsSeq(Append(s, x)) /\ Len(Append(s, x)) \in Nat \ {0} /\ Parent(Append(s, x)) = s
<1> DEFINE m == Append(s, x)
<1>1. IsSeq(m) /\ Len(m) = Len(s) + 1 /\ Len(s) \in Nat /\ \A i \in 1..Len(s) : m[i] = s[i]
  BY AppendFacts, SeqFacts
<1> HIDE DEF m
<1>2. m # <<>> /\ Len(m) \in Nat \ {0}
  BY <1>1, SeqFacts
<1>3. /\ IsSeq(Front(m)) /\ Len(Front(m)) = Len(m) - 1
      /\ \A i \in 1..(Len(m) - 1) : Front(m)[i] = m[i]
  BY <1>1, <1>2, FrontFacts
<1>4. Len(m) - 1 = Len(s)
  BY <1>1
<1>5. Len(Front(m)) = Len(s) /\ \A i \in 1..Len(Front(m)) : Front(m)[i] = s[i]
  BY <1>1, <1>3, <1>4
<1>6. Front(m) = s
  BY <1>3, <1>5, SameSeq
<1>7. QED
  BY <1>1, <1>2, <1>6 DEF m, Parent

(* One position more on the way down.                                      *)
LEMMA OneDown ==
  ASSUME NEW S, NEW s \in Seq(S), NEW t \in Seq(S), NEW x \in S
  PROVE  s \o Append(t, x) = Append(s \o t, x)
<1>1. Append(t, x) = t \o <<x>> /\ <<x>> \in Seq(S) /\ s \o t \in Seq(S)
  BY AppendIsConcat
<1>2. s \o (t \o <<x>>) = (s \o t) \o <<x>>
  BY <1>1, ConcatAssociative
<1>3. Append(s \o t, x) = (s \o t) \o <<x>>
  BY <1>1, AppendIsConcat
<1>4. QED
  BY <1>1, <1>2, <1>3

(* The positions of a fact's nodes, one after the other.                   *)
Positions(root, section, entry, a, b, c) ==
  /\ IsSeq(root) /\ IsSeq(root \o <<1>>) /\ IsSeq(root \o <<1, 1>>) /\ IsSeq(section) /\ IsSeq(entry)
  /\ root \o <<1>> = Append(root, 1)
  /\ root \o <<1, 1>> = Append(root \o <<1>>, 1)
  /\ section = Append(root \o <<1, 1>>, a) /\ entry = Append(section, b)
  /\ entry \o <<c, 1>> = Append(Append(entry, c), 1)
  /\ entry \o <<c, 1, 1>> = Append(entry \o <<c, 1>>, 1)
  /\ IsSeq(Append(entry, c)) /\ IsSeq(entry \o <<c, 1>>)

(* They are one below the other, for any numbers in the fact.              *)
LEMMA FactPositions ==
  ASSUME NEW a, NEW b, NEW c
  PROVE  LET root == <<"config">>
         IN  Positions(root, root \o <<1, 1, a>>, root \o <<1, 1, a, b>>, a, b, c)
<1> DEFINE root == <<"config">>
           section == root \o <<1, 1, a>>
           entry == root \o <<1, 1, a, b>>
           S == {"config", 1, a, b, c}
<1>1. /\ root \in Seq(S) /\ <<>> \in Seq(S) /\ <<1>> \in Seq(S) /\ <<1, 1>> \in Seq(S) /\ <<1, 1, a>> \in Seq(S)
      /\ <<1, 1, a, b>> \in Seq(S) /\ <<c>> \in Seq(S) /\ <<c, 1>> \in Seq(S) /\ 1 \in S /\ a \in S /\ b \in S
      /\ c \in S
  OBVIOUS
<1>2. /\ <<1>> = Append(<<>>, 1) /\ <<1, 1>> = Append(<<1>>, 1) /\ <<1, 1, a>> = Append(<<1, 1>>, a)
      /\ <<1, 1, a, b>> = Append(<<1, 1, a>>, b)
      /\ <<c>> = Append(<<>>, c) /\ <<c, 1>> = Append(<<c>>, 1) /\ <<c, 1, 1>> = Append(<<c, 1>>, 1)
  OBVIOUS
<1>3. PICK r, s1, s2, s3, s4, c1, c2, c3, nil :
        /\ r = root /\ s1 = <<1>> /\ s2 = <<1, 1>> /\ s3 = <<1, 1, a>> /\ s4 = <<1, 1, a, b>>
        /\ c1 = <<c>> /\ c2 = <<c, 1>> /\ c3 = <<c, 1, 1>> /\ nil = <<>>
  OBVIOUS
<1>4. PICK T : T = S
  OBVIOUS
<1>5. /\ r \in Seq(T) /\ nil \in Seq(T) /\ s1 \in Seq(T) /\ s2 \in Seq(T) /\ s3 \in Seq(T)
      /\ s4 \in Seq(T) /\ c1 \in Seq(T) /\ c2 \in Seq(T) /\ 1 \in T /\ a \in T /\ b \in T /\ c \in T
  BY <1>1, <1>3, <1>4
<1>6. /\ s1 = Append(nil, 1) /\ s2 = Append(s1, 1) /\ s3 = Append(s2, a) /\ s4 = Append(s3, b)
      /\ c1 = Append(nil, c) /\ c2 = Append(c1, 1) /\ c3 = Append(c2, 1)
  BY <1>2, <1>3
<1>7. \A s \in Seq(T) : s \o nil = s
  BY <1>3, ConcatEmptySeq
<1>8. \A s, t \in Seq(T) : s \o t \in Seq(T)
  BY ConcatProperties
<1>9. \A s, t \in Seq(T), x \in T : s \o Append(t, x) = Append(s \o t, x)
  BY OneDown
<1>10. /\ r \o s1 = Append(r, 1) /\ r \o s2 = Append(r \o s1, 1) /\ r \o s3 = Append(r \o s2, a)
       /\ r \o s4 = Append(r \o s3, b)
  <2>1. /\ r \o Append(nil, 1) = Append(r \o nil, 1) /\ r \o Append(s1, 1) = Append(r \o s1, 1)
        /\ r \o Append(s2, a) = Append(r \o s2, a) /\ r \o Append(s3, b) = Append(r \o s3, b)
    BY <1>5, <1>9, ZenonT(60)
  <2>2. r \o nil = r
    BY <1>5, <1>7, Zenon
  <2>3. QED
    BY <1>6, <2>1, <2>2, Zenon
<1>11. PICK e : e = r \o s4
  OBVIOUS
<1>12. e \in Seq(T)
  BY <1>5, <1>8, <1>11
<1>13. e \o c1 = Append(e, c) /\ e \o c2 = Append(e \o c1, 1) /\ e \o c3 = Append(e \o c2, 1)
  <2>1. /\ e \o Append(nil, c) = Append(e \o nil, c) /\ e \o Append(c1, 1) = Append(e \o c1, 1)
        /\ e \o Append(c2, 1) = Append(e \o c2, 1)
    BY <1>5, <1>9, <1>12, Zenon
  <2>2. e \o nil = e
    BY <1>7, <1>12, Zenon
  <2>3. QED
    BY <1>6, <2>1, <2>2, Zenon
<1>14. \A s \in Seq(T) : IsSeq(s)
  BY AnySeq
<1>15. /\ IsSeq(r) /\ IsSeq(r \o s1) /\ IsSeq(r \o s2) /\ IsSeq(r \o s3) /\ IsSeq(e)
       /\ IsSeq(e \o c1) /\ IsSeq(e \o c2)
  BY ONLY <1>5, <1>8, <1>12, <1>14
<1>16. Positions(r, r \o s3, e, a, b, c)
  BY <1>3, <1>10, <1>11, <1>13, <1>15 DEF Positions
<1>17. QED
  BY <1>3, <1>11, <1>16

(* What read_memory makes of a configuration is a tree.                    *)
LEMMA TreeConfig ==
  ASSUME NEW facts
  PROVE  Tree(ConfigDoc(facts))
<1> DEFINE root == <<"config">>
           at(f, n) == IF n = 1 THEN root \o <<1, 1, f[1]>> ELSE root \o <<1, 1, f[1], f[2]>>
           own(name, key) == Element(name, key, "own", "")
           values == {f \in facts : Len(f) = 4}
           entry(f) == IF f[3] = 0
                       THEN {<<at(f, 2), own("option", f[2])>>, <<Append(at(f, 2), 1), own("value", 0)>>,
                             <<at(f, 2) \o <<1, 1>>, TextNode(f[4])>>}
                       ELSE {<<at(f, 2), own("list", f[2])>>, <<Append(at(f, 2), f[3]), own("item", f[3])>>,
                             <<at(f, 2) \o <<f[3], 1>>, own("content", 0)>>,
                             <<at(f, 2) \o <<f[3], 1, 1>>, TextNode(f[4])>>}
           nodes == {<<root, own("config", 0)>>, <<root \o <<1>>, own("uci", 0)>>,
                     <<root \o <<1, 1>>, own("config", 1)>>}
                    \union {<<at(f, 1), own("section", f[1])>> : f \in facts}
                    \union UNION {entry(f) : f \in values}
           D == DOMAIN ConfigDoc(facts)
<1>1. D = {p[1] : p \in nodes}
  BY DEF ConfigDoc
<1>2. \A x, y : <<x, y>>[1] = x
  OBVIOUS
<1>3. root \in D /\ root \o <<1>> \in D /\ root \o <<1, 1>> \in D
  <2>1. /\ <<root, own("config", 0)>> \in nodes /\ <<root \o <<1>>, own("uci", 0)>> \in nodes
        /\ <<root \o <<1, 1>>, own("config", 1)>> \in nodes
    OBVIOUS
  <2> HIDE DEF nodes, D
  <2>2. QED
    BY <1>1, <1>2, <2>1
<1>4. ASSUME NEW f \in facts
      PROVE  at(f, 1) \in D
  <2>1. <<at(f, 1), own("section", f[1])>> \in nodes
    OBVIOUS
  <2> HIDE DEF nodes, D, at, own
  <2>2. QED
    BY <1>1, <1>2, <2>1
<1>5. ASSUME NEW f \in values, NEW p \in entry(f)
      PROVE  p[1] \in D
  <2>1. p \in nodes
    BY <1>5
  <2> HIDE DEF nodes, D
  <2>2. QED
    BY <1>1, <2>1
<1>6. ASSUME NEW f, NEW x
      PROVE  Positions(root, at(f, 1), at(f, 2), f[1], f[2], x)
  BY FactPositions
<1>7. ASSUME NEW p \in nodes
      PROVE  p[1] = root \/ On(D, p[1])
  <2>1. CASE p \in {<<root, own("config", 0)>>, <<root \o <<1>>, own("uci", 0)>>,
                    <<root \o <<1, 1>>, own("config", 1)>>}
    <3>1. p[1] \in {root, root \o <<1>>, root \o <<1, 1>>}
      BY <1>2, <2>1
    <3> HIDE DEF root, D, at, own, nodes
    <3>2. QED
      BY <1>3, <1>6, <3>1 DEF On, Positions
  <2>2. CASE \E f \in facts : p = <<at(f, 1), own("section", f[1])>>
    <3> HIDE DEF root, D, at, own, nodes
    <3>1. PICK f \in facts : p[1] = at(f, 1)
      BY <1>2, <2>2
    <3>2. QED
      BY <1>3, <1>6, <3>1 DEF On, Positions
  <2>3. CASE \E f \in values : p \in entry(f)
    <3>1. PICK f \in values : p \in entry(f)
      BY <2>3
    <3>2. f \in facts
      OBVIOUS
    <3>3. at(f, 1) \in D
      BY <1>4, <3>2
    <3>4. at(f, 2) \in D
      <4>1. <<at(f, 2), own("option", f[2])>> \in entry(f) \/ <<at(f, 2), own("list", f[2])>> \in entry(f)
        OBVIOUS
      <4> HIDE DEF root, D, at, own, nodes, entry
      <4>2. QED
        BY <1>2, <1>5, <3>1, <4>1
    <3>5. CASE f[3] = 0
      <4>1. /\ p[1] \in {at(f, 2), Append(at(f, 2), 1), at(f, 2) \o <<1, 1>>}
            /\ <<Append(at(f, 2), 1), own("value", 0)>> \in entry(f)
        <5> HIDE DEF root, D, at, own, nodes
        <5>1. QED
          BY <1>2, <3>1, <3>5
      <4> HIDE DEF root, D, at, own, nodes, entry
      <4>2. Append(at(f, 2), 1) \in D
        BY <1>2, <1>5, <3>1, <4>1
      <4>3. QED
        BY <1>6, <3>3, <3>4, <4>1, <4>2 DEF On, Positions
    <3>6. CASE f[3] # 0
      <4>1. /\ p[1] \in {at(f, 2), Append(at(f, 2), f[3]), at(f, 2) \o <<f[3], 1>>, at(f, 2) \o <<f[3], 1, 1>>}
            /\ <<Append(at(f, 2), f[3]), own("item", f[3])>> \in entry(f)
            /\ <<at(f, 2) \o <<f[3], 1>>, own("content", 0)>> \in entry(f)
        <5> HIDE DEF root, D, at, own, nodes
        <5>1. QED
          BY <1>2, <3>1, <3>6
      <4> HIDE DEF root, D, at, own, nodes, entry
      <4>2. Append(at(f, 2), f[3]) \in D /\ at(f, 2) \o <<f[3], 1>> \in D
        BY <1>2, <1>5, <3>1, <4>1
      <4>3. QED
        <5>1. PICK x : x = f[3]
          OBVIOUS
        <5>2. Positions(root, at(f, 1), at(f, 2), f[1], f[2], x)
          BY <1>6
        <5>3. p[1] \in {at(f, 2), Append(at(f, 2), x), at(f, 2) \o <<x, 1>>, at(f, 2) \o <<x, 1, 1>>}
          BY <4>1, <5>1
        <5>4. On(D, at(f, 2)) /\ On(D, Append(at(f, 2), x))
          BY <3>3, <3>4, <5>2 DEF On, Positions
        <5>5. On(D, at(f, 2) \o <<x, 1>>) /\ On(D, at(f, 2) \o <<x, 1, 1>>)
          BY <4>2, <5>1, <5>2 DEF On, Positions
        <5>6. QED
          BY <5>3, <5>4, <5>5
    <3>7. QED
      BY <3>5, <3>6
  <2>4. QED
    BY <1>7, <2>1, <2>2, <2>3
<1>8. ASSUME NEW m \in D
      PROVE  /\ m[1] \in Docs /\ IsSeq(m) /\ Len(m) \in Nat \ {0}
             /\ Len(m) > 1 => Parent(m) \in D
  <2>1. m[1] \in Docs
    BY ConfigPaths DEF Docs
  <2>2. m = root \/ On(D, m)
    <3> HIDE DEF root, D, at, own, nodes, entry
    <3>1. QED
      BY <1>1, <1>7
  <2>3. CASE m = root
    <3>1. Len(root) = 1
      OBVIOUS
    <3> HIDE DEF root, D, at, own, nodes
    <3>2. IsSeq(m) /\ Len(m) = 1
      BY <1>6, <2>3, <3>1 DEF Positions
    <3>3. QED
      BY <2>1, <3>2
  <2>4. CASE On(D, m)
    <3> HIDE DEF root, D, at, own, nodes
    <3>1. PICK s \in D : IsSeq(s) /\ \E x : m = Append(s, x)
      BY <2>4 DEF On
    <3>2. QED
      BY <2>1, <3>1, OnFacts
  <2>5. QED
    BY <2>2, <2>3, <2>4
<1>9. QED
  BY <1>8 DEF Tree

(* The documents in the heap are trees, at any time.                       *)
TreesInv == Tree(heap) /\ scope \subseteq Docs

(* The heap is empty at the start.                                         *)
LEMMA TreesBegin == Init => TreesInv
<1> SUFFICES ASSUME Init
             PROVE  TreesInv
  OBVIOUS
<1>1. heap = <<>> /\ scope = {}
  BY DEF Init
<1>2. DOMAIN heap = {}
  BY <1>1
<1>3. QED
  BY <1>1, <1>2 DEF TreesInv, Tree

(* editconfig() deletes a node that its own document has, or none.         *)
LEMMA EditDeletes ==
  ASSUME EditStep, WalkInv
  PROVE  heap' = heap \/ (Top.at \in DOMAIN heap /\ heap' = DeleteNode(heap, Top.at))
<1>1. CASE ScanNode
  <2>1. PICK j : Walk(heap, frames, ops, j, TRUE)
    BY <1>1 DEF ScanNode, WalkInv
  <2>2. Stop(heap, Top)
    BY <2>1, TopOfWalk DEF WalkInv, Top
  <2>3. Top.at # Nil => Top.at \in DOMAIN heap
    BY <2>2 DEF Stop, Edits
  <2>4. QED
    BY <1>1, <2>3 DEF ScanNode, Abort, xmlVars
<1>2. CASE Stranger \/ PerformNode \/ PerformReturns \/ ScanReturns
  BY <1>2 DEF Stranger, PerformNode, PerformReturns, ScanReturns, Abort, xmlVars
<1>3. QED
  BY <1>1, <1>2 DEF EditStep

(* Every step of a session leaves trees.                                   *)
LEMMA TreesStep == TreesInv /\ InsideInv /\ DumpInv /\ [Next]_allVars => TreesInv'
<1> SUFFICES ASSUME TreesInv, InsideInv, DumpInv, [Next]_allVars
             PROVE  TreesInv'
  OBVIOUS
<1>1. CASE Loop \/ Chain \/ CallOther \/ GetReturns \/ OtherReturns \/ EditConfigOpsReturns
           \/ ApplyStep \/ SetConfigReturns \/ UNCHANGED allVars
  <2>1. heap' = heap /\ scope' \in {scope, {}, {"config", "edit"}}
    BY <1>1 DEF Loop, Chain, CallOther, GetReturns, OtherReturns, EditConfigOpsReturns, ApplyStep, ApplyOp,
       SetConfigReturns, HandedOver, allVars, insideVars, xmlVars
  <2>2. QED
    BY <2>1 DEF TreesInv, Docs
<1>2. CASE Finish
  BY <1>2 DEF Finish, TreesInv, Tree
<1>3. CASE Gc
  <2> DEFINE gone == {m \in DOMAIN heap : m[1] \notin scope}
  <2>1. heap' = Without(heap, gone) /\ scope' = scope
    BY <1>3 DEF Gc, Collect
  <2>2. ASSUME NEW m \in DOMAIN heap, Len(m) > 1, Parent(m) \in gone
        PROVE  m \in gone
    <3>1. Parent(m)[1] = m[1]
      BY <2>2, ParentFacts DEF TreesInv, Tree
    <3>2. QED
      BY <2>2, <3>1
  <2>3. Tree(heap')
    BY <2>1, <2>2, TreeWithout DEF TreesInv
  <2>4. QED
    BY <2>1, <2>3 DEF TreesInv
<1>4. CASE BeginGet
  <2> DEFINE nodes == [m \in {<<"reply">>} |-> Element("view", 0, "own", "")]
  <2>1. heap' = WithDoc(heap, "reply", nodes) /\ scope' = {"reply"}
    BY <1>4 DEF BeginGet, NewDoc
  <2>2. Tree(nodes) /\ \A m \in DOMAIN nodes : m[1] = "reply"
    <3>1. DOMAIN nodes = {<<"reply">>} /\ "reply" \in Docs
      BY DEF Docs
    <3> HIDE DEF nodes
    <3>2. QED
      BY <3>1, TreeRoot
  <2> HIDE DEF nodes
  <2>3. QED
    BY <2>1, <2>2, TreeWithDoc DEF TreesInv, Docs
<1>5. CASE BeginSetConfig
  <2>1. PICK c \in Commands : /\ heap' = WithDoc(WithDoc(heap, "config", ConfigDoc(staged)), "edit", c.nodes)
                              /\ scope' = {"config", "edit"}
    BY <1>5 DEF BeginSetConfig
  <2>2. Tree(WithDoc(heap, "config", ConfigDoc(staged)))
    BY TreeConfig, ConfigPaths, TreeWithDoc DEF TreesInv
  <2>3. Tree(heap')
    BY <2>1, <2>2, TreeCommand, TreeWithDoc
  <2>4. QED
    BY <2>1, <2>3 DEF TreesInv, Docs
<1>6. CASE BuildNode
  <2>1. Calling("get") /\ scope' = scope
    BY <1>6 DEF BuildNode
  <2>2. PICK p, n : Grown(heap, heap', built, p, n)
    BY <1>6, <2>1, BuildGrows DEF DumpInv
  <2>3. Tree(heap')
    BY <2>1, <2>2, TreeGrows DEF TreesInv, DumpInv
  <2>4. QED
    BY <2>1, <2>3 DEF TreesInv
<1>7. CASE ScanStep
  <2>1. EditStep /\ WalkInv /\ scope' = scope
    BY <1>7, EditKeepsScope DEF ScanStep, InsideInv
  <2>2. CASE heap' = heap
    BY <2>1, <2>2 DEF TreesInv
  <2>3. CASE Top.at \in DOMAIN heap /\ heap' = DeleteNode(heap, Top.at)
    <3>1. PICK n \in DOMAIN heap : heap' = Without(heap, Subtree(heap, n)) /\ Len(n) \in Nat
      BY <2>3 DEF DeleteNode, TreesInv, Tree
    <3>2. ASSUME NEW m \in DOMAIN heap, Len(m) > 1, Parent(m) \in Subtree(heap, n)
          PROVE  m \in Subtree(heap, n)
      <4>1. Below(n, Parent(m)) /\ IsSeq(m) /\ Len(m) \in Nat \ {0}
        BY <3>2 DEF Subtree, TreesInv, Tree
      <4>2. Below(n, m)
        BY <3>1, <3>2, <4>1, ParentFacts
      <4>3. QED
        BY <4>2 DEF Subtree
    <3>3. Tree(heap')
      BY <3>1, <3>2, TreeWithout DEF TreesInv
    <3>4. QED
      BY <2>1, <3>3 DEF TreesInv
  <2>4. QED
    BY <2>1, <2>2, <2>3, EditDeletes
<1>8. QED
  BY <1>1, <1>2, <1>3, <1>4, <1>5, <1>6, <1>7 DEF Next, InsidePlugin

(* Types, and the heap has no node that hangs in the air: whatever is      *)
(* deleted, freed or added, a node goes with all that hangs on it.         *)
THEOREM SessionTypeCorrect == Spec => []TypeOK
<1>1. BridgeInv /\ InsideInv /\ TreesInv => TypeOK
  <2> SUFFICES ASSUME BridgeInv, InsideInv, TreesInv
               PROVE  TypeOK
    OBVIOUS
  <2>1. pc \in {"receive", "dispatch", "lua", "chain", "send", "ended"} /\ calls \in Nat
    BY DEF BridgeInv, BridgeTypes
  <2>2. applied \in 0..Len(ops) /\ depth \in Nat
    BY DEF InsideInv, OperationsInv, BalanceInv, Balanced
  <2>3. /\ Rooted /\ \A m \in DOMAIN heap : m[1] \in {"config", "edit", "reply"}
        /\ scope \subseteq {"config", "edit", "reply"}
    BY DEF TreesInv, Tree, Rooted, Docs
  <2>4. QED
    BY <2>1, <2>2, <2>3 DEF TypeOK
<1>2. InsideInv /\ DumpInv /\ TreesInv /\ [Next]_allVars => (InsideInv /\ DumpInv /\ TreesInv)'
  BY InsideStep, DumpStep, TreesStep
<1>3. Init => InsideInv /\ DumpInv /\ TreesInv
  BY InsideBegins, DumpInvBegins, TreesBegin
<1>4. QED
  BY <1>1, <1>2, <1>3, SessionBridge, PTL DEF Spec
=============================================================================
