---------------------------- MODULE MCPluginSession ----------------------------
(* A package with up to two sections; in a section, option 1 and list 2.   *)
EXTENDS PluginSession

Node(path, name, key, op) ==
  [m \in {<<"edit">> \o path} |-> Element(name, key, "own", op)]
In(path, name, ns, op) == [m \in {<<"edit">> \o path} |-> Element(name, 1, ns, op)]
Leaf(path, name, op, t) ==
  Node(path, name, 0, op) @@ [m \in {<<"edit">> \o path \o <<1>>} |-> TextNode(t)]

(* A command around what is below its config; positions start with <<1, 1>>. *)
Command(defop, configOp, nodes) ==
  [defop |-> defop,
   nodes |-> Node(<<>>, "edit", 0, "") @@ Node(<<1>>, "uci", 0, "") @@
             Node(<<1, 1>>, "config", 1, configOp) @@ nodes]
Section(j, key, op) == Node(<<1, 1, j>>, "section", key, op)
Option(j, k, op, valueOp, t) ==
  Node(<<1, 1, j, k>>, "option", k, op) @@ Leaf(<<1, 1, j, k, 1>>, "value", valueOp, t)
Item(j, k, i, op, t) ==
  Node(<<1, 1, j, k, i>>, "item", i, op) @@ Leaf(<<1, 1, j, k, i, 1>>, "content", "", t)
List(j, k, op) == Node(<<1, 1, j, k>>, "list", 2, op)

Given_ == {"", "create", "delete", "remove", "replace", "merge", "none"}

OneOption ==
  {Command("notset", "", Section(1, 1, a) @@ Option(1, 1, b, "", 1)) : a \in Given_, b \in Given_}
  \union {Command(d, "", Section(1, 1, a) @@ Option(1, 1, b, "", 1)) :
            d \in {"replace", "none"}, a \in {"", "merge", "none"}, b \in {"", "merge", "remove"}}
OneValue ==
  {Command("merge", "", Section(1, 1, "") @@ Option(1, 1, b, c, 2)) :
     b \in {"", "replace"}, c \in {"", "create", "remove"}}
OneList ==
  {Command("merge", "", Section(1, 1, a) @@ List(1, 2, l) @@ Item(1, 2, 1, x, 2) @@ Item(1, 2, 3, y, 1)) :
     a \in {"", "replace"}, l \in {"", "replace", "remove"}, x \in {"", "remove"}, y \in {"", "remove"}}
Scanned ==    \* removed and deleted nodes in a tree to be created
  {Command("merge", c, Section(1, 1, "replace") @@ Option(1, 1, x, "", 1) @@ List(1, 2, y)
                         @@ Item(1, 2, 1, x, 2) @@ Item(1, 2, 3, "", 1)) :
     c \in {"", "replace"}, x \in {"", "remove"}, y \in {"", "remove", "delete"}}
Strange ==
  {Command("merge", "", Section(1, 1, a) @@ n) :
     a \in {"", "create"},
     n \in {In(<<1, 1, 1, 1>>, "option", "foreign", ""), In(<<1, 1, 1, 1>>, "option", "none", ""),
            In(<<1, 1, 1, 1>>, "nonsense", "own", ""), Node(<<1, 1, 1, 1>>, "option", 1, ""),
            List(1, 2, "")}}
Whole ==
  {Command("merge", c, Section(1, 1, a) @@ Option(1, 1, "", "", 1)) :
     c \in Given_, a \in {"", "create", "remove"}}

MCCommands == OneOption \union OneValue \union OneList \union Scanned \union Strange \union Whole

MCInitialFacts ==
  {{}, {<<1>>, <<1, 1, 0, 2>>, <<2>>, <<2, 2, 1, 1>>}, {<<1>>, <<1, 1, 0, 1>>, <<1, 2, 1, 1>>, <<1, 2, 2, 2>>}}

MCViewTree ==
  (<<1>> :> [name |-> "board", text |-> 1]) @@ (<<2>> :> [name |-> "interfaces", text |-> 0]) @@
  (<<2, 1>> :> [name |-> "interface", text |-> 0]) @@ (<<2, 1, 1>> :> [name |-> "address", text |-> 2])

MCServerRpcs == {<<>>, <<"get", "get_config">>, <<"set_config">>}
=============================================================================
