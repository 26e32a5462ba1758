------------------------------- MODULE XmlWrap -------------------------------
(***************************************************************************)
(* xmlwrap.c: the documents of libxml2 as the Lua code sees them.          *)
(*                                                                         *)
(* A document is a userdata that the garbage collector frees with all its  *)
(* nodes (doc_gc); a node is a light userdata, a bare pointer that keeps   *)
(* nothing alive.  Here a node's handle is the way to it from the root:    *)
(* the document's name, then the positions of the nodes.  The root element *)
(* of d is <<d>>, and <<>> is nil.  The heap has the nodes that are not    *)
(* freed.  An element has a name, the key by which YANG tells the entries  *)
(* of a list apart (the text of its key leaf, which is not a node of its   *)
(* own here), a namespace and the attribute netconf:operation.             *)
(***************************************************************************)
EXTENDS Integers, Sequences, SequencesExt, FiniteSetsExt

VARIABLES heap,    \* the nodes not freed: handle -> contents
          scope    \* documents a variable of a running Lua function holds

xmlVars == <<heap, scope>>

Nil == <<>>

(* doc:root().                                                             *)
Root(d) == <<d>>

(* internal_next_element_node skips everything but elements.               *)
IsElement(h, n) == h[n].type = "element"

Below(n, m) == Len(n) <= Len(m) /\ \A i \in 1..Len(n) : m[i] = n[i]
Subtree(h, n) == {m \in DOMAIN h : Below(n, m)}
ChildNodes(h, n) == {m \in DOMAIN h : Len(m) = Len(n) + 1 /\ Below(n, m)}
Parent(n) == Front(n)

NextElement(h, n, i) ==
  LET later == {m \in ChildNodes(h, n) : IsElement(h, m) /\ Last(m) > i} IN
  IF later = {} THEN Nil ELSE CHOOSE m \in later : \A k \in later : Last(m) <= Last(k)

(* first_child, next and one turn of iterate.                              *)
FirstChild(h, n) == NextElement(h, n, 0)

(* Faulty: the iterator gives its state, the first child, on every turn.   *)
Mutant_NextSibling(h, n) == FirstChild(h, Parent(n))
NextSibling(h, n) == NextElement(h, Parent(n), Last(n))

(* node:name(): the name with its namespace.                               *)
Named(h, n, name, ns) == h[n].name = name /\ h[n].ns = ns

Elements(h, n) == {m \in ChildNodes(h, n) : IsElement(h, m)}

(* node:text(): what all text nodes of the subtree say.                    *)
Text(h, n) == {h[m].text : m \in {k \in Subtree(h, n) : ~IsElement(h, k)}}

Element(name, key, ns, operation) ==
  [type |-> "element", name |-> name, key |-> key, ns |-> ns, operation |-> operation, text |-> 0]
TextNode(t) ==
  [type |-> "text", name |-> "text", key |-> 0, ns |-> "none", operation |-> "", text |-> t]

Without(h, nodes) == [m \in DOMAIN h \ nodes |-> h[m]]

(* Faulty: unlinked, but its children stay.                                *)
Mutant_DeleteNode(h, n) == Without(h, {n})

(* node:delete(): unlinked and freed with everything below it.             *)
DeleteNode(h, n) == Without(h, Subtree(h, n))

Appended(h, n, node) ==
  LET at == Append(n, 1 + Max({Last(m) : m \in ChildNodes(h, n)} \union {0}))
  IN  [m \in DOMAIN h \union {at} |-> IF m = at THEN node ELSE h[m]]

(* Faulty: without a namespace asked for, the child has none.              *)
Mutant_AddChild(h, n, name, ns) == Appended(h, n, Element(name, 0, ns, ""))

(* node:add_child(): xmlNewChild hands the parent's namespace down.        *)
AddChild(h, n, name, ns) ==
  Appended(h, n, Element(name, 0, IF ns = "none" THEN h[n].ns ELSE ns, ""))
NewChild(h, n) == CHOOSE m \in ChildNodes(h, n) : \A k \in ChildNodes(h, n) : Last(k) <= Last(m)

(* node:set_text(): the text nodes go, one new one comes at the end.       *)
SetText(h, n, t) ==
  Appended(Without(h, {m \in ChildNodes(h, n) : ~IsElement(h, m)}), n, TextNode(t))

(* The nodes of a document.                                                *)
OfDocs(h, docs) == {m \in DOMAIN h : m[1] \in docs}

(* read_memory and new_xml_doc: a document takes the place of a collected  *)
(* or forgotten one of its name.                                           *)
WithDoc(h, d, nodes) ==
  LET old == Without(h, OfDocs(h, {d})) IN
  [m \in DOMAIN old \union DOMAIN nodes |-> IF m \in DOMAIN nodes THEN nodes[m] ELSE old[m]]
NewDoc(h, d, name, ns) == WithDoc(h, d, [m \in {<<d>>} |-> Element(name, 0, ns, "")])

(* The collector frees a document nobody holds: whole, and whatever points *)
(* to its nodes.                                                           *)
Collect ==
  /\ \E m \in DOMAIN heap : m[1] \notin scope
  /\ heap' = Without(heap, {m \in DOMAIN heap : m[1] \notin scope})
  /\ UNCHANGED scope

(* Every node but a root hangs on a node that is there.                    *)
Rooted == \A m \in DOMAIN heap : Len(m) > 1 => Parent(m) \in DOMAIN heap
=============================================================================
