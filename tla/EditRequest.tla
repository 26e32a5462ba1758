----------------------------- MODULE EditRequest -----------------------------
(***************************************************************************)
(* What an <edit-config> asks for, said without an algorithm: which nodes  *)
(* of the command decide about what is below them, when the request is an  *)
(* error, and which facts hold when it is done.  It is the reference that  *)
(* EditConfig and UciRaw together are compared with.  R is the command's   *)
(* document, D the default operation, S the facts before (see UciRaw).     *)
(*                                                                         *)
(* It leaves one case out, see EditYieldsRequest in PluginSession.         *)
(***************************************************************************)
EXTENDS UciRaw

InModel(R, n) == Len(n) > 1 /\ R[n].ns = "own" /\ R[n].name \in ModelChildren[R[Parent(n)].name]

(* The operation that holds at n: the nearest one given, or the default.   *)
Wanted(R, D, n) ==
  LET given == {k \in 1..Len(n) : R[SubSeq(n, 1, k)].operation # ""} IN
  IF given # {} THEN R[SubSeq(n, 1, Max(given))].operation
  ELSE IF D = "notset" THEN "merge" ELSE D

KeyAt(R, n, k) == R[SubSeq(n, 1, k)].key

(* The facts that n stands for, that is, which it removes when it goes.    *)
Covers(R, n, f) ==
  CASE R[n].name \in {"uci", "config"} -> TRUE
    [] R[n].name = "section" -> f[1] = KeyAt(R, n, 4)
    [] OTHER -> /\ Len(f) = 4
                /\ f[1] = KeyAt(R, n, 4) /\ f[2] = KeyAt(R, n, 5)
                /\ (f[3] = 0) = (R[SubSeq(n, 1, 5)].name = "option")
                /\ R[n].name \in {"item", "content"} => f[3] = KeyAt(R, n, 6)
Present(R, S, n) == R[n].name \in {"uci", "config"} \/ \E f \in S : Covers(R, n, f)

(* Nodes that settle all below them, and those that are reached because    *)
(* nothing above settles them.                                             *)
Settles(R, S, D, n) ==
  \/ Wanted(R, D, n) \in {"create", "replace", "delete", "remove"}
  \/ Wanted(R, D, n) = "merge" /\ (~HasChildren(R[n].name) \/ ~Present(R, S, n))
Reached(R, S, D) ==
  {n \in {m \in DOMAIN R : IsElement(R, m) /\ Len(m) > 1} :
     \A k \in 2..(Len(n) - 1) : LET a == SubSeq(n, 1, k) IN InModel(R, a) /\ ~Settles(R, S, D, a)}
Settling(R, S, D) == {n \in Reached(R, S, D) : InModel(R, n) /\ Settles(R, S, D, n)}

(* What a settling node wants to be there: all of it that is not to be     *)
(* removed.                                                                *)
Gives(R, D, n) == Wanted(R, D, n) \in {"create", "replace", "merge"}
Given(R, g) ==
  {n \in Subtree(R, g) : \A k \in (Len(g) + 1)..Len(n) : R[SubSeq(n, 1, k)].operation # "remove"}
Sound(R, T, n) ==
  LET children == {m \in T \intersect Elements(R, n) : R[m].ns # "none"} IN
  /\ \A m \in children : InModel(R, m)
  /\ R[n].name = "option" => \E m \in children : R[m].name = "value"
  /\ R[n].name = "list" => \E m \in children : R[m].name = "item"
  /\ R[n].name = "item" => \E m \in children : R[m].name = "content"

Impossible(R, S, D) ==
  \/ \E n \in Reached(R, S, D) :
       \/ R[n].ns = "foreign"
       \/ R[n].ns = "own" /\ ~InModel(R, n)
       \/ /\ InModel(R, n)
          /\ \/ Present(R, S, n) /\ Wanted(R, D, n) = "create"
             \/ ~Present(R, S, n) /\ Wanted(R, D, n) \in {"none", "delete"}
  \/ \E g \in Settling(R, S, D) :
       \/ /\ Gives(R, D, g)
          /\ \/ R[g].name = "uci"
             \/ \E n \in Given(R, g) \ {g} : R[n].operation = "delete"
             \/ \E n \in Given(R, g) : InModel(R, n) /\ ~Sound(R, Given(R, g), n)
       \/ /\ ~Gives(R, D, g) /\ Present(R, S, g)
          /\ R[g].name \in {"uci", "config", "value", "content"}

(* The facts of a tree that is to be there.                                *)
FactsOf(R, T) ==
  {<<KeyAt(R, n, 4)>> : n \in {m \in T : R[m].name = "section"}} \union
  {<<KeyAt(R, n, 4), KeyAt(R, n, 5), IF R[n].name = "value" THEN 0 ELSE KeyAt(R, n, 6),
     R[Append(n, 1)].text>> : n \in {m \in T : R[m].name \in {"value", "content"}}}

(* A list counts from 1 without gaps.                                      *)
Renumbered(F) ==
  {f \in F : Len(f) = 1 \/ f[3] = 0} \union
  {<<f[1], f[2], Cardinality({x \in F : Len(x) = 4 /\ <<x[1], x[2]>> = <<f[1], f[2]>> /\ x[3] \in 1..f[3]}),
     f[4]>> : f \in {x \in F : Len(x) = 4 /\ x[3] > 0}}

Requested(R, S, D) ==
  LET settling == Settling(R, S, D)
      given == UNION {Given(R, g) : g \in {n \in settling : Gives(R, D, n)}}
  IN  Renumbered({f \in S : \A g \in settling : ~Covers(R, g, f)} \union FactsOf(R, given))
=============================================================================
