------------------------------ MODULE EditConfig ------------------------------
(***************************************************************************)
(* editconfig() of editconfig.lua: turns an <edit-config> into a list of   *)
(* simple operations, by walking the command's document and the present    *)
(* configuration side by side under the model.                             *)
(*                                                                         *)
(* One step is one turn of a loop: of children_perform, or of create_scan, *)
(* the closure that looks through a tree about to be created.  The calls   *)
(* in work are a stack of frames, and frames and operations keep bare      *)
(* pointers to nodes (XmlWrap).  The model is the one of uci-raw, without  *)
(* the leaves type and anonymous; `item' is the list's <value>.            *)
(***************************************************************************)
EXTENDS XmlWrap

VARIABLES frames,    \* the calls in work, the innermost last
          ops,       \* the operations found
          editError  \* the error tag of the result, or ""

editVars == <<frames, ops, editError>>

-----------------------------------------------------------------------------
(* The model, and what model_names says of its nodes.                      *)
ModelChildren ==
  [edit |-> {"uci"}, uci |-> {"config"}, config |-> {"section"}, section |-> {"option", "list"},
   option |-> {"value"}, list |-> {"item"}, item |-> {"content"}, value |-> {}, content |-> {}]
HasChildren(name) == name \notin {"value", "content"}

(* config_identify: the node of that name and key below p.                 *)
Identify(h, c, p) ==
  LET same == {m \in Elements(h, p) : h[m].name = h[c].name /\ h[m].key = h[c].key} IN
  IF same = {} THEN Nil ELSE CHOOSE m \in same : TRUE

(* What is asked for at c: its attribute, or what its parent was asked.    *)
Asked(h, c, defop) == IF h[c].operation = "" THEN defop ELSE h[c].operation

(* Faulty: the text is compared whatever kind of node it is.               *)
Mutant_Unchanged(h, c, g) == Text(h, g) = Text(h, c)
Unchanged(h, c, g) == ~HasChildren(h[c].name) /\ Text(h, g) = Text(h, c)

(* What is done at c, whose node in the configuration is g.                *)
Performed(h, c, g, asked) ==
  LET operation == IF asked = "merge" /\ ~HasChildren(h[c].name) THEN "replace" ELSE asked IN
  CASE g = Nil /\ operation \in {"replace", "merge"} -> "create"
    [] g # Nil /\ operation = "delete" -> "remove"
    [] g # Nil /\ operation = "merge" -> "none"
    [] g # Nil /\ operation = "replace" /\ Unchanged(h, c, g) -> "none"
    [] OTHER -> operation

Refusal(g, asked) ==
  CASE g # Nil /\ asked = "create" -> "data-exists"
    [] g = Nil /\ asked \in {"none", "delete"} -> "data-missing"
    [] OTHER -> ""

-----------------------------------------------------------------------------
Perform(cfg, cmd, defop, opLast) ==
  [fn |-> "perform", cfg |-> cfg, cmd |-> cmd, at |-> FirstChild(heap, cmd), defop |-> defop,
   opLast |-> opLast, note |-> ""]
Scan(h, cmd, note) ==
  [fn |-> "scan", cfg |-> Nil, cmd |-> cmd, at |-> FirstChild(h, cmd), defop |-> "", opLast |-> 0,
   note |-> note]
Op(op, cmd, cfg, note) == [op |-> op, cmd |-> cmd, cfg |-> cfg, note |-> note]

Top == Last(frames)
Advanced(f) == [f EXCEPT !.at = NextSibling(heap, f.at)]
OnTop(f) == Append(Front(frames), f)

(* The error goes up through all the calls.                                *)
Abort(tag) ==
  /\ editError' = tag
  /\ frames' = <<>>
  /\ UNCHANGED <<ops, xmlVars>>

(* editconfig(): without a default operation the default is merge.         *)
BeginEdit(config, command, defop) ==
  /\ frames' = <<[fn |-> "perform", cfg |-> config, cmd |-> command,
                  at |-> FirstChild(heap', command),
                  defop |-> IF defop = "notset" THEN "merge" ELSE defop,
                  opLast |-> 0, note |-> ""]>>
  /\ ops' = <<>>
  /\ editError' = ""

(* children_perform meets something that is not of the model.  A node in   *)
(* no namespace is passed over.                                            *)
Stranger ==
  LET c == Top.at IN
  /\ frames # <<>> /\ Top.fn = "perform" /\ c # Nil
  /\ \/ /\ heap[c].ns = "none"
        /\ frames' = OnTop(Advanced(Top))
        /\ UNCHANGED <<ops, editError, xmlVars>>
     \/ /\ heap[c].ns = "foreign"
        /\ Abort("unknown-namespace")
     \/ /\ heap[c].ns = "own"
        /\ heap[c].name \notin ModelChildren[heap[Top.cmd].name]
        /\ Abort("unknown-element")

(* children_perform takes one node of the command.                         *)
PerformNode ==
  LET c == Top.at
      g == Identify(heap, c, Top.cfg)
      asked == Asked(heap, c, Top.defop)
      done == Performed(heap, c, g, asked)
      note == IF done = "replace" THEN "replace" ELSE ""
  IN
  /\ frames # <<>> /\ Top.fn = "perform" /\ c # Nil
  /\ heap[c].ns = "own"
  /\ heap[c].name \in ModelChildren[heap[Top.cmd].name]
  /\ \/ /\ Refusal(g, asked) # ""
        /\ Abort(Refusal(g, asked))
     \/ /\ Refusal(g, asked) = ""
        /\ UNCHANGED <<editError, xmlVars>>
        /\ ops' = (CASE done \in {"remove", "replace"} /\ g # Nil ->
                          Append(ops, Op("remove-tree", c, g, note))
                     [] done = "none" -> Append(ops, Op("enter", c, g, ""))
                     [] OTHER -> ops)
        /\ frames' = (CASE done \in {"create", "replace"} -> Append(frames, Scan(heap, c, note))
                        [] done = "none" -> Append(frames, Perform(g, c, asked, Len(ops) + 1))
                        [] OTHER -> OnTop(Advanced(Top)))

(* Faulty: an enter without anything inside stays, without its leave.      *)
Mutant_Left(f, c, g) == IF Len(ops) = f.opLast THEN ops ELSE Append(ops, Op("leave", c, g, ""))

(* The operations once the children are done: enter is dropped if nothing  *)
(* came after it, otherwise leave is added.                                *)
Left(f, c, g) == IF Len(ops) = f.opLast THEN Front(ops) ELSE Append(ops, Op("leave", c, g, ""))

(* children_perform has no more nodes and returns to the loop around it.   *)
PerformReturns ==
  /\ frames # <<>> /\ Top.fn = "perform" /\ Top.at = Nil
  /\ IF Len(frames) = 1
     THEN frames' = <<>> /\ UNCHANGED ops
     ELSE LET outer == Last(Front(frames)) IN
          /\ ops' = Left(Top, outer.at, Top.cfg)
          /\ frames' = Append(Front(Front(frames)), Advanced(outer))
  /\ UNCHANGED <<editError, xmlVars>>

-----------------------------------------------------------------------------
(* The scan starts again at the first child: the iterator pointed to the   *)
(* node that is gone.                                                      *)
AfterDelete(h, f) == Append(Front(frames), [f EXCEPT !.at = FirstChild(h, f.cmd)])

(* create_scan takes one node: what is to be removed is not added.         *)
ScanNode ==
  LET a == Top.at IN
  /\ frames # <<>> /\ Top.fn = "scan" /\ a # Nil
  /\ \/ /\ heap[a].operation = "remove"
        /\ heap' = DeleteNode(heap, a)
        /\ frames' = AfterDelete(heap', Top)
        /\ UNCHANGED <<ops, editError, scope>>
     \/ /\ heap[a].operation = "delete"
        /\ Abort("data-missing")
     \/ /\ heap[a].operation \notin {"remove", "delete"}
        /\ frames' = Append(frames, Scan(heap, a, ""))
        /\ UNCHANGED <<ops, editError, xmlVars>>

(* create_scan has seen all children: back to the scan around it, or to    *)
(* children_perform, which adds the tree.                                  *)
ScanReturns ==
  LET outer == Last(Front(frames)) IN
  /\ frames # <<>> /\ Top.fn = "scan" /\ Top.at = Nil
  /\ frames' = Append(Front(Front(frames)), Advanced(outer))
  /\ ops' = IF outer.fn = "scan" THEN ops
            ELSE Append(ops, Op("add-tree", outer.at, Identify(heap, outer.at, outer.cfg), Top.note))
  /\ UNCHANGED <<editError, xmlVars>>

EditStep == Stranger \/ PerformNode \/ PerformReturns \/ ScanNode \/ ScanReturns

-----------------------------------------------------------------------------
(* The handles that the calls in work and the operations hold.             *)
HandlesOf(f) == {f.cfg, f.cmd, f.at} \ {Nil}
Held == (UNION {HandlesOf(f) : f \in ToSet(frames)}) \union
        (UNION {{o.cmd, o.cfg} \ {Nil} : o \in ToSet(ops)})
=============================================================================
