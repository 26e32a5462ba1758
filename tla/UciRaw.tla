-------------------------------- MODULE UciRaw --------------------------------
(***************************************************************************)
(* The datastore uci-raw: get_config, and set_config, which lets applyops  *)
(* of editconfig.lua carry out the operations that EditConfig found.       *)
(*                                                                         *)
(* A configuration is a set of facts about one package: <<s>>, there is a  *)
(* section s; <<s, n, 0, v>>, its option n is v; <<s, n, i, v>>, the i-th  *)
(* value of its list n is v.  The cursor stages options and sections as    *)
(* they come; what becomes of lists is collected in delayed_lists (values  *)
(* under the indices the client sees) and written at the end.  One step is *)
(* one operation.  Sections have names; no entry comes twice.              *)
(***************************************************************************)
EXTENDS EditConfig

VARIABLES stored,   \* the package's file
          staged,   \* the package as the cursor has it
          delayed,  \* delayed_lists: <<s, n>> -> set of <<index, value>>
          dirty,    \* the package is in uci_dirty
          applied,  \* how many operations applyops has done
          depth     \* how many descriptions desc_stack has

uciVars == <<stored, staged, delayed, dirty, applied, depth>>

-----------------------------------------------------------------------------
(* get_config: the document that read_memory makes of facts.               *)
ConfigDoc(facts) ==
  LET root == <<"config">>
      at(f, n) == IF n = 1 THEN root \o <<1, 1, f[1]>> ELSE root \o <<1, 1, f[1], f[2]>>
      own(name, key) == Element(name, key, "own", "")
      values == {f \in facts : Len(f) = 4}
      entry(f) == IF f[3] = 0
                  THEN {<<at(f, 2), own("option", f[2])>>, <<Append(at(f, 2), 1), own("value", 0)>>,
                        <<at(f, 2) \o <<1, 1>>, TextNode(f[4])>>}
                  ELSE {<<at(f, 2), own("list", f[2])>>, <<Append(at(f, 2), f[3]), own("item", f[3])>>,
                        <<at(f, 2) \o <<f[3], 1>>, own("content", 0)>>,
                        <<at(f, 2) \o <<f[3], 1, 1>>, TextNode(f[4])>>}
      nodes == {<<root, own("config", 0)>>, <<root \o <<1>>, own("uci", 0)>>,
                <<root \o <<1, 1>>, own("config", 1)>>}
               \union {<<at(f, 1), own("section", f[1])>> : f \in facts}
               \union UNION {entry(f) : f \in values}
  IN  [m \in {p[1] : p \in nodes} |-> (CHOOSE p \in nodes : p[1] = m)[2]]

-----------------------------------------------------------------------------
(* node_path: the keys on the way up from a node.                          *)
SectionOf(n) == heap[SubSeq(n, 1, 4)].key
EntryOf(n) == <<SectionOf(n), heap[SubSeq(n, 1, 5)].key>>

(* cursor:delete, cursor:set and cursor:add.                               *)
DropSection(facts, s) == {f \in facts : f[1] # s}
DropEntry(facts, e) == {f \in facts : Len(f) = 1 \/ <<f[1], f[2]>> # e}
SetOption(facts, e, v) == DropEntry(facts, e) \union {<<e[1], e[2], 0, v>>}

(* get_delayed_list: collected already, or the cursor's.                   *)
DelayedList(e) ==
  IF e \in DOMAIN delayed THEN delayed[e]
  ELSE {<<f[3], f[4]>> : f \in {x \in staged : Len(x) = 4 /\ <<x[1], x[2]>> = e /\ x[3] > 0}}
Delayed(e, list) == (e :> list) @@ delayed
WithoutIndex(list, i) == {p \in list : p[1] # i}

(* Sorted by index, without gaps.                                          *)
Compact(e, list) == {<<e[1], e[2], Cardinality({q \in list : q[1] <= p[1]}), p[2]>> : p \in list}

(* The end of set_config: every collected list is set, or deleted if it is *)
(* empty.                                                                  *)
WriteLists(facts) ==
  {f \in facts : Len(f) = 1 \/ <<f[1], f[2]>> \notin DOMAIN delayed}
  \union UNION {Compact(e, delayed[e]) : e \in DOMAIN delayed}

-----------------------------------------------------------------------------
(* The description.  What recurse('create') objects to below n: nodes that *)
(* are not of the model, and mandatory ones that are missing.              *)
Mandatory == [option |-> {"value"}, list |-> {"item"}, item |-> {"content"}]

(* Faulty: the description is not asked what must be there.                *)
Mutant_Lacking(m, names) == FALSE
Lacking(m, names) == heap[m].name \in DOMAIN Mandatory /\ ~(Mandatory[heap[m].name] \subseteq names)

Refused(n) ==
  \E m \in {k \in Subtree(heap, n) : IsElement(heap, k) /\ heap[k].ns = "own"} :
    LET ours == {heap[k].name : k \in {x \in Elements(heap, m) : heap[x].ns = "own"}} IN
    \/ \E k \in Elements(heap, m) : heap[k].ns = "foreign"
    \/ ~(ours \subseteq ModelChildren[heap[m].name])
    \/ Lacking(m, ours)

OwnNamed(n, name) == {m \in Elements(heap, n) : Named(heap, m, name, "own")}
Entries(n) == OwnNamed(n, "option") \union OwnNamed(n, "list")
OneText(n) == CHOOSE t \in Text(heap, n) : TRUE
ItemPairs(items) ==
  {<<heap[p[1]].key, OneText(p[2])>> :
     p \in {q \in items \X DOMAIN heap : q[2] \in OwnNamed(q[1], "content")}}

(* What `create' of sections, and of entries, does to the cursor and to    *)
(* the lists.                                                              *)
OptionFacts(n) == {EntryOf(n) \o <<0, OneText(v)>> : v \in OwnNamed(n, "value")}
WithOptions(facts, entries) ==
  LET options == {e \in entries : heap[e].name = "option"} IN
  {f \in facts : Len(f) = 1 \/ <<f[1], f[2]>> \notin {EntryOf(e) : e \in options}}
  \union UNION {OptionFacts(e) : e \in options}
WithLists(entries) ==
  LET lists == {e \in entries : heap[e].name = "list"} IN
  [e \in {EntryOf(n) : n \in lists} |->
     ItemPairs(OwnNamed(CHOOSE n \in lists : EntryOf(n) = e, "item"))] @@ delayed

Outcome(facts, lists, tag) ==
  /\ staged' = facts
  /\ delayed' = lists
  /\ editError' = tag
Unsupported(tag) == Outcome(staged, delayed, tag)

(* Creates sections and entries below n, which is where recurse stops if   *)
(* something is refused: what it had staged by then stays in the cursor,   *)
(* here nothing or all that is in order.                                   *)
Create(n, facts, sections, entries) ==
  LET named == facts \union {<<heap[s].key>> : s \in sections}
      good == {e \in entries : ~Refused(e)}
  IN  IF ~Refused(n)
      THEN Outcome(WithOptions(named, entries), WithLists(entries), "")
      ELSE \E kept \in {{}, good} :
             Outcome(WithOptions(named, kept), WithLists(kept), "data-missing")

SetItems(e, items) ==
  LET list == {p \in DelayedList(e) : p[1] \notin {heap[i].key : i \in items}} IN
  Delayed(e, list \union ItemPairs(items))

(* add-tree: `create', or `replace' where the description has one.  Only   *)
(* config differs between the two: the old sections go first.              *)
AddTree(o) ==
  LET n == o.cmd IN
  CASE heap[n].name = "config" /\ o.note = "replace" ->
         LET old == {heap[m].key : m \in OwnNamed(o.cfg, "section")}
             new == OwnNamed(n, "section")
         IN  Create(n, {f \in staged : f[1] \notin old}, new, UNION {Entries(s) : s \in new})
    [] heap[n].name = "section" -> Create(n, staged, {n}, Entries(n))
    [] heap[n].name \in {"option", "list"} -> Create(n, staged, {}, {n})
    [] heap[n].name = "item" ->
         IF Refused(n) THEN Unsupported("data-missing")
         ELSE Outcome(staged, SetItems(EntryOf(n), {n}), "")
    [] heap[n].name = "value" -> Outcome(SetOption(staged, EntryOf(n), OneText(n)), delayed, "")
    [] heap[n].name = "content" -> Outcome(staged, SetItems(EntryOf(n), {Parent(n)}), "")
    [] OTHER -> Unsupported("operation-not-supported")

(* Those whose description has a `replace': remove-tree leaves it to the   *)
(* add-tree that follows.                                                  *)
Replaces(o) == o.note = "replace" /\ heap[o.cmd].name \in {"config", "option", "value", "item", "content"}

EmptyList(e) == Delayed(e, {})

RemoveTree(o) ==
  LET n == o.cfg IN
  CASE Replaces(o) -> Outcome(staged, delayed, "")
    [] ~Replaces(o) /\ heap[n].name = "section" -> Outcome(DropSection(staged, heap[n].key), delayed, "")
    [] ~Replaces(o) /\ heap[n].name = "option" -> Outcome(DropEntry(staged, EntryOf(n)), delayed, "")
    [] ~Replaces(o) /\ heap[n].name = "list" -> Outcome(staged, EmptyList(EntryOf(n)), "")
    [] ~Replaces(o) /\ heap[n].name = "item" ->
         Outcome(staged, Delayed(EntryOf(n), WithoutIndex(DelayedList(EntryOf(n)), heap[n].key)), "")
    [] ~Replaces(o) /\ heap[n].name \in {"value", "content"} -> Unsupported("data-missing")
    [] OTHER -> Unsupported("operation-not-supported")

(* Faulty: only a config that is passed through is scheduled.              *)
Mutant_Touches(o) == heap[o.cmd].name = "section" /\ o.op = "enter"

(* A description that is entered, or applied to: config has an `enter'     *)
(* that schedules the package for commit.                                  *)
Touches(o) == heap[o.cmd].name = "config" /\ o.op # "leave" /\ ~(o.op = "remove-tree" /\ Replaces(o))

(* applyops does the next operation.                                       *)
ApplyOp ==
  LET o == ops[applied + 1] IN
  /\ frames = <<>> /\ editError = ""
  /\ applied < Len(ops)
  /\ applied' = applied + 1
  /\ dirty' = (dirty \/ Touches(o))
  /\ UNCHANGED <<frames, ops, stored, xmlVars>>
  /\ \/ o.op = "enter" /\ depth' = depth + 1 /\ Outcome(staged, delayed, "")
     \/ o.op = "leave" /\ depth' = depth - 1
           /\ Outcome(staged, delayed, IF depth = 0 THEN "runtime" ELSE "")
     \/ o.op = "add-tree" /\ AddTree(o) /\ UNCHANGED depth
     \/ o.op = "remove-tree" /\ RemoveTree(o) /\ UNCHANGED depth

(* The end of set_config, after the last operation.                        *)
FlushLists ==
  /\ frames = <<>> /\ editError = "" /\ applied = Len(ops)
  /\ staged' = WriteLists(staged)
  /\ delayed' = <<>>
=============================================================================
