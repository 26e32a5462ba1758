------------------------------ MODULE CaGenProofs ------------------------------
(***************************************************************************)
(* Proofs about CaGen for any CAs, any number of runs of the script, any   *)
(* well made command lines, and a crash at any time: no two runs are at    *)
(* work in one CA, and a mark is only there under a lock.  At the end, for *)
(* lines in which drop_ca comes first, that get_ca loses no certificate    *)
(* (NothingVanishes): what is begun and not yet listed is told by its mark.*)
(*                                                                         *)
(* Whether a step may work in a CA depends on the steps before it, some of *)
(* which are done and some still words of the command line.  So a run is   *)
(* followed with what is known of it when it gets to a step (Know): which  *)
(* lock it holds, where it is, what CA is set, whether there may be a mark *)
(* and how far a certificate is.  Leads says what a step needs and what is *)
(* known after it; it is true of every step of every word (the lemmas on   *)
(* the words), of the rest of a line, and of the cleanup from anywhere.    *)
(***************************************************************************)
EXTENDS CaGen, FiniteSetTheorems, SequenceTheorems, TLAPS

Places == CAs \union {NoCA}
Know == [held : Places, dir : Places, ca : Places, marked : BOOLEAN, num : 0..3]

(* NoCA stands for a place that is not known.                              *)
K(held, dir, set, marked, num) ==
  [held |-> held, dir |-> dir, ca |-> set, marked |-> marked, num |-> num]
Nothing == K(NoCA, NoCA, NoCA, FALSE, 0)
Entered(c) == K(c, c, c, FALSE, 0)

(* It is in the CA that it has locked and that is set.                     *)
AtWork(k) == k.held # NoCA /\ k.dir = k.held /\ k.ca = k.held

(* What a step needs to be known, and what is known behind it.  num counts *)
(* the number of a certificate, its note and its key.                      *)
LeadsAnywhere(k, s, l) ==
  \/ s.do \in {"chosen", "fresh", "other", "-", "exit"} /\ l = k
  \/ s.do = "clean" /\ l = K(k.held, k.dir, NoCA, FALSE, 0)
LeadsUnmarked(k, s, l) ==
  /\ ~k.marked
  /\ \/ s.do = "unlock" /\ l = K(NoCA, k.dir, k.ca, FALSE, 0)
     \/ s.do = "background" /\ l = K(k.held, k.dir, k.ca, FALSE, 0)
     \/ s.do = "refresh" /\ l = Nothing
     \/ s.do = "next" /\ s.ca \in Seq(CAs) /\ l = Nothing
     \/ /\ s.ca \in CAs
        /\ \/ s.do = "cd" /\ l = K(NoCA, s.ca, NoCA, FALSE, 0)
           \/ s.do = "lock" /\ l = K(s.ca, k.dir, NoCA, FALSE, 0)
           \/ s.do = "enter" /\ k.held = s.ca /\ k.dir = s.ca /\ l = Entered(s.ca)
           \/ s.do \in {"mkdir", "touch", "reset", "drop_ca"} /\ l = Nothing
           \/ s.do \in {"empty", "rmdir"} /\ k.held = s.ca /\ l = K(s.ca, NoCA, NoCA, FALSE, 0)
           \/ s.do \in {"switch", "new_ca"} /\ l = Entered(s.ca)
LeadsInside(k, s, l) ==
  /\ AtWork(k)
  /\ \/ s.do \in {"gen_ca", "gen_dh", "gen", "revoke"} /\ k = Entered(k.held) /\ l = k
     \/ s.do \in {"make-root", "crl", "openssl-revoke"} /\ l = k
     \/ s.do \in {"mark-root", "mark-dh"} /\ l = K(k.held, k.held, k.held, TRUE, k.num)
     \/ s.do = "mark" /\ k.num = 2 /\ l = K(k.held, k.held, k.held, TRUE, 2)
     \/ s.do = "unmark" /\ l = K(k.held, k.held, k.held, FALSE, k.num)
     \/ s.do = "number" /\ l = K(k.held, k.held, k.held, k.marked, 1)
     \/ s.do = "note" /\ k.num = 1 /\ l = K(k.held, k.held, k.held, k.marked, 2)
     \/ s.do = "request" /\ k.num = 2 /\ l = K(k.held, k.held, k.held, k.marked, 3)
     \/ s.do = "sign" /\ k.num = 3 /\ l = K(k.held, k.held, k.held, k.marked, 0)
Leads(k, s, l) == LeadsAnywhere(k, s, l) \/ LeadsUnmarked(k, s, l) \/ LeadsInside(k, s, l)

(* The steps t, begun with k, need nothing that is not known, and l is     *)
(* known behind them.                                                      *)
Chain(t, k, l) ==
  \E f \in [1..(Len(t) + 1) -> Know] :
    /\ f[1] = k /\ f[Len(t) + 1] = l
    /\ \A i \in 1..Len(t) : Leads(f[i], t[i], f[i + 1])
Typed(t, k) == \E l \in Know : Chain(t, k, l)

Does == {"chosen", "fresh", "other", "-", "exit", "clean", "unlock", "background", "refresh", "next",
         "cd", "lock", "enter", "mkdir", "touch", "reset", "drop_ca", "empty", "rmdir", "switch",
         "new_ca", "gen_ca", "gen_dh", "gen", "revoke", "make-root", "crl", "openssl-revoke",
         "mark-root", "mark-dh", "mark", "unmark", "number", "note", "request", "sign"}
StepSet == [do : Does, ca : Places \union Seq(CAs)]

-----------------------------------------------------------------------------
(* The first step of a chain, and the rest.                                *)
LEMMA ChainTail ==
  ASSUME NEW t \in Seq(StepSet), t # <<>>, NEW k, NEW m, Chain(t, k, m)
  PROVE  \E l \in Know : Leads(k, Head(t), l) /\ Chain(Tail(t), l, m)
<1>1. PICK f \in [1..(Len(t) + 1) -> Know] :
        /\ f[1] = k /\ f[Len(t) + 1] = m
        /\ \A i \in 1..Len(t) : Leads(f[i], t[i], f[i + 1])
  BY DEF Chain
<1>2. /\ Len(t) \in Nat \ {0} /\ Tail(t) \in Seq(StepSet) /\ Len(Tail(t)) = Len(t) - 1
      /\ Head(t) = t[1] /\ \A i \in 1..(Len(t) - 1) : Tail(t)[i] = t[i + 1]
  BY EmptySeq, HeadTailProperties
<1> DEFINE g == [i \in 1..Len(t) |-> f[i + 1]]
<1>3. g \in [1..(Len(Tail(t)) + 1) -> Know] /\ g[1] = f[2] /\ g[Len(Tail(t)) + 1] = m
  BY <1>1, <1>2
<1>4. \A i \in 1..Len(Tail(t)) : Leads(g[i], Tail(t)[i], g[i + 1])
  <2>1. TAKE i \in 1..Len(Tail(t))
  <2>2. g[i] = f[i + 1] /\ g[i + 1] = f[(i + 1) + 1] /\ Tail(t)[i] = t[i + 1] /\ i + 1 \in 1..Len(t)
    BY <1>2
  <2> HIDE DEF g
  <2>3. QED
    BY <1>1, <2>2
<1> HIDE DEF g
<1>5. Chain(Tail(t), f[2], m)
  BY <1>3, <1>4 DEF Chain
<1>6. f[2] \in Know /\ Leads(k, Head(t), f[2])
  BY <1>1, <1>2
<1>7. QED
  BY <1>5, <1>6

(* Two chains, one behind the other.                                       *)
LEMMA ChainConcat ==
  ASSUME NEW t \in Seq(StepSet), NEW u \in Seq(StepSet), NEW k, NEW l, NEW m,
         Chain(t, k, l), Chain(u, l, m)
  PROVE  Chain(t \o u, k, m)
<1>1. PICK f \in [1..(Len(t) + 1) -> Know] :
        /\ f[1] = k /\ f[Len(t) + 1] = l
        /\ \A i \in 1..Len(t) : Leads(f[i], t[i], f[i + 1])
  BY DEF Chain
<1>2. PICK g \in [1..(Len(u) + 1) -> Know] :
        /\ g[1] = l /\ g[Len(u) + 1] = m
        /\ \A i \in 1..Len(u) : Leads(g[i], u[i], g[i + 1])
  BY DEF Chain
<1>3. /\ Len(t) \in Nat /\ Len(u) \in Nat /\ Len(t \o u) = Len(t) + Len(u)
      /\ \A i \in 1..(Len(t) + Len(u)) : (t \o u)[i] = IF i <= Len(t) THEN t[i] ELSE u[i - Len(t)]
  BY LenProperties, ConcatProperties
<1> DEFINE n == Len(t)
           h == [i \in 1..(n + Len(u) + 1) |-> IF i <= n THEN f[i] ELSE g[i - n]]
<1>4. /\ h \in [1..(Len(t \o u) + 1) -> Know]
      /\ h[1] = k /\ h[Len(t \o u) + 1] = m
  BY <1>1, <1>2, <1>3
<1>5. \A i \in 1..Len(t \o u) : Leads(h[i], (t \o u)[i], h[i + 1])
  <2>1. TAKE i \in 1..Len(t \o u)
  <2>2. CASE i < n
    <3>1. h[i] = f[i] /\ h[i + 1] = f[i + 1] /\ (t \o u)[i] = t[i] /\ i \in 1..Len(t)
      BY <1>3, <2>2
    <3>2. QED
      BY <1>1, <3>1
  <2>3. CASE i = n
    <3>1. h[i] = f[i] /\ h[i + 1] = f[i + 1] /\ (t \o u)[i] = t[i] /\ i \in 1..Len(t)
      BY <1>1, <1>2, <1>3, <2>3
    <3>2. QED
      BY <1>1, <3>1
  <2>4. CASE i > n
    <3>1. /\ h[i] = g[i - n] /\ h[i + 1] = g[(i - n) + 1] /\ (t \o u)[i] = u[i - n]
          /\ i - n \in 1..Len(u)
      BY <1>3, <2>4
    <3>2. QED
      BY <1>2, <3>1
  <2>5. QED
    BY <1>3, <2>2, <2>3, <2>4
<1> HIDE DEF h
<1>6. QED
  BY <1>4, <1>5 DEF Chain

(* One step is a chain.                                                    *)
LEMMA ChainStep ==
  ASSUME NEW k \in Know, NEW s \in StepSet, NEW l \in Know, Leads(k, s, l)
  PROVE  <<s>> \in Seq(StepSet) /\ Chain(<<s>>, k, l)
<1> DEFINE f == [i \in 1..2 |-> IF i = 1 THEN k ELSE l]
<1>1. Len(<<s>>) = 1 /\ <<s>>[1] = s /\ <<s>> \in Seq(StepSet)
  OBVIOUS
<1>2. f \in [1..(Len(<<s>>) + 1) -> Know] /\ f[1] = k /\ f[Len(<<s>>) + 1] = l
  BY <1>1
<1>3. \A i \in 1..Len(<<s>>) : Leads(f[i], <<s>>[i], f[i + 1])
  BY <1>1
<1> HIDE DEF f
<1>4. QED
  BY <1>1, <1>2, <1>3 DEF Chain

-----------------------------------------------------------------------------
(* The words: what each needs is what Leads says of it as a whole.         *)
LEMMA Kinds ==
  /\ \A do \in Does : \A c \in Places : Step(do, c) \in StepSet /\ Step(do, c).do = do /\ Step(do, c).ca = c
  /\ \A h, d, c \in Places : \A m \in BOOLEAN : \A n \in 0..3 : K(h, d, c, m, n) \in Know
  /\ Nothing \in Know /\ \A c \in CAs : Entered(c) \in Know
BY DEF StepSet, Step, K, Know, Nothing, Entered, Places

(* A step before a chain.                                                  *)
LEMMA ChainCons ==
  ASSUME NEW k \in Know, NEW s \in StepSet, NEW l \in Know, Leads(k, s, l),
         NEW t \in Seq(StepSet), NEW m, Chain(t, l, m)
  PROVE  <<s>> \o t \in Seq(StepSet) /\ Chain(<<s>> \o t, k, m)
<1>1. <<s>> \in Seq(StepSet) /\ Chain(<<s>>, k, l)
  BY ChainStep
<1>2. QED
  BY <1>1, ConcatProperties, ChainConcat

(* cleanup, from anywhere: the mark goes before the lock.                  *)
LEMMA CleanupChain ==
  ASSUME NEW k \in Know
  PROVE  /\ CleanupSteps \in Seq(StepSet)
         /\ Chain(CleanupSteps, k, K(NoCA, k.dir, NoCA, FALSE, 0))
<1> DEFINE k0 == k
           k1 == K(k.held, k.dir, NoCA, FALSE, 0)
           k2 == K(NoCA, k.dir, NoCA, FALSE, 0)
           s1 == Step("clean", NoCA)
           s2 == Step("unlock", NoCA)
           t == <<s1, s2>>
           f == <<k0, k1, k2>>
<1>1. /\ NoCA \in Places /\ k0.held \in Places /\ k0.dir \in Places /\ k0.ca \in Places
      /\ k0.marked \in BOOLEAN /\ k0.num \in 0..3
  BY Kinds DEF Know, Places, Entered, Nothing, K
<1>2. /\ k0 \in Know /\ k1 \in Know /\ k2 \in Know
  BY <1>1, Kinds DEF Know, Places, K, Entered, Nothing
<1>3. /\ s1 \in StepSet /\ s2 \in StepSet
  BY Kinds DEF Places, Does
<1>4. Leads(k0, s1, k1)
  BY CaAssumption DEF Leads, LeadsAnywhere, LeadsUnmarked, LeadsInside, AtWork, Step, K, Entered,
                      Nothing, Know
<1>5. Leads(k1, s2, k2)
  BY CaAssumption DEF Leads, LeadsAnywhere, LeadsUnmarked, LeadsInside, AtWork, Step, K, Entered,
                      Nothing, Know
<1> HIDE DEF k0, k1, k2, s1, s2
<1>6. t \in Seq(StepSet) /\ Len(t) = 2 /\ f \in [1..(Len(t) + 1) -> Know] /\ f[1] = k0 /\ f[Len(t) + 1] = k2
  BY <1>2, <1>3
<1>7. \A i \in 1..2 : Leads(f[i], t[i], f[i + 1])
  BY <1>4, <1>5
<1> HIDE DEF t, f
<1>8. Chain(t, k0, k2)
  BY <1>6, <1>7 DEF Chain
<1>9. CleanupSteps = t
  BY DEF CleanupSteps, Steps, Plain, t, s1, s2
<1>10. QED
  BY <1>6, <1>8, <1>9 DEF k0, k2

(* do_switch: from anywhere into a CA.                                     *)
LEMMA SwitchChain ==
  ASSUME NEW k \in Know, NEW c \in CAs
  PROVE  /\ Switch(c) \in Seq(StepSet)
         /\ Chain(Switch(c), k, Entered(c))
<1> DEFINE k0 == K(NoCA, k.dir, NoCA, FALSE, 0)
           k1 == K(NoCA, c, NoCA, FALSE, 0)
           k2 == K(c, c, NoCA, FALSE, 0)
           k3 == Entered(c)
           s1 == Step("cd", c)
           s2 == Step("lock", c)
           s3 == Step("enter", c)
           t == <<s1, s2, s3>>
           f == <<k0, k1, k2, k3>>
<1>1. /\ NoCA \in Places /\ k0.held \in Places /\ k0.dir \in Places /\ k0.ca \in Places
      /\ k0.marked \in BOOLEAN /\ k0.num \in 0..3
  BY Kinds DEF Know, Places, Entered, Nothing, K
<1>2. /\ k0 \in Know /\ k1 \in Know /\ k2 \in Know /\ k3 \in Know
  BY <1>1, Kinds DEF Know, Places, K, Entered, Nothing
<1>3. /\ s1 \in StepSet /\ s2 \in StepSet /\ s3 \in StepSet
  BY Kinds DEF Places, Does
<1>4. Leads(k0, s1, k1)
  BY CaAssumption DEF Leads, LeadsAnywhere, LeadsUnmarked, LeadsInside, AtWork, Step, K, Entered,
                      Nothing, Know
<1>5. Leads(k1, s2, k2)
  BY CaAssumption DEF Leads, LeadsAnywhere, LeadsUnmarked, LeadsInside, AtWork, Step, K, Entered,
                      Nothing, Know
<1>6. Leads(k2, s3, k3)
  BY CaAssumption DEF Leads, LeadsAnywhere, LeadsUnmarked, LeadsInside, AtWork, Step, K, Entered,
                      Nothing, Know
<1> HIDE DEF k0, k1, k2, k3, s1, s2, s3
<1>7. t \in Seq(StepSet) /\ Len(t) = 3 /\ f \in [1..(Len(t) + 1) -> Know] /\ f[1] = k0 /\ f[Len(t) + 1] = k3
  BY <1>2, <1>3
<1>8. \A i \in 1..3 : Leads(f[i], t[i], f[i + 1])
  BY <1>4, <1>5, <1>6
<1> HIDE DEF t, f
<1>9. Chain(t, k0, k3)
  BY <1>7, <1>8 DEF Chain
<1>10. CleanupSteps \in Seq(StepSet) /\ Chain(CleanupSteps, k, k0)
  BY CleanupChain DEF k0
<1>11. Switch(c) = CleanupSteps \o t
  BY DEF Switch, t, s1, s2, s3
<1>12. QED
  BY <1>7, <1>9, <1>10, <1>11, ConcatProperties, ChainConcat DEF k3

(* do_new_ca.                                                              *)
LEMMA NewCaChain ==
  ASSUME NEW k \in Know, ~k.marked, NEW c \in CAs
  PROVE  /\ CommandSteps("new_ca", c) \in Seq(StepSet)
         /\ Chain(CommandSteps("new_ca", c), k, Entered(c))
<1> DEFINE k0 == k
           k1 == Nothing
           k2 == Nothing
           k3 == Nothing
           s1 == Step("mkdir", c)
           s2 == Step("touch", c)
           s3 == Step("reset", c)
           t == <<s1, s2, s3>>
           f == <<k0, k1, k2, k3>>
<1>1. /\ NoCA \in Places /\ k0.held \in Places /\ k0.dir \in Places /\ k0.ca \in Places
      /\ k0.marked \in BOOLEAN /\ k0.num \in 0..3
  BY Kinds DEF Know, Places, Entered, Nothing, K
<1>2. /\ k0 \in Know /\ k1 \in Know /\ k2 \in Know /\ k3 \in Know
  BY <1>1, Kinds DEF Know, Places, K, Entered, Nothing
<1>3. /\ s1 \in StepSet /\ s2 \in StepSet /\ s3 \in StepSet
  BY Kinds DEF Places, Does
<1>4. Leads(k0, s1, k1)
  BY CaAssumption DEF Leads, LeadsAnywhere, LeadsUnmarked, LeadsInside, AtWork, Step, K, Entered,
                      Nothing, Know
<1>5. Leads(k1, s2, k2)
  BY CaAssumption DEF Leads, LeadsAnywhere, LeadsUnmarked, LeadsInside, AtWork, Step, K, Entered,
                      Nothing, Know
<1>6. Leads(k2, s3, k3)
  BY CaAssumption DEF Leads, LeadsAnywhere, LeadsUnmarked, LeadsInside, AtWork, Step, K, Entered,
                      Nothing, Know
<1> HIDE DEF k0, k1, k2, k3, s1, s2, s3
<1>7. t \in Seq(StepSet) /\ Len(t) = 3 /\ f \in [1..(Len(t) + 1) -> Know] /\ f[1] = k0 /\ f[Len(t) + 1] = k3
  BY <1>2, <1>3
<1>8. \A i \in 1..3 : Leads(f[i], t[i], f[i + 1])
  BY <1>4, <1>5, <1>6
<1> HIDE DEF t, f
<1>9. Chain(t, k0, k3)
  BY <1>7, <1>8 DEF Chain
<1>10. Switch(c) \in Seq(StepSet) /\ Chain(Switch(c), k3, Entered(c))
  BY <1>2, SwitchChain DEF k3
<1>11. CommandSteps("new_ca", c) = t \o Switch(c)
  BY DEF CommandSteps, t, s1, s2, s3
<1>12. QED
  BY <1>7, <1>9, <1>10, <1>11, ConcatProperties, ChainConcat DEF k0

(* do_gen_ca.                                                              *)
LEMMA GenCaChain ==
  ASSUME NEW c \in CAs, NEW arg
  PROVE  /\ CommandSteps("gen_ca", arg) \in Seq(StepSet)
         /\ Chain(CommandSteps("gen_ca", arg), Entered(c), Entered(c))
<1> DEFINE k0 == Entered(c)
           k1 == Entered(c)
           k2 == Entered(c)
           k3 == K(c, c, c, TRUE, 0)
           k4 == K(c, c, c, TRUE, 0)
           k5 == K(c, c, c, TRUE, 0)
           k6 == Entered(c)
           s1 == Step("chosen", NoCA)
           s2 == Step("fresh", NoCA)
           s3 == Step("mark-root", NoCA)
           s4 == Step("make-root", NoCA)
           s5 == Step("crl", NoCA)
           s6 == Step("unmark", NoCA)
           t == <<s1, s2, s3, s4, s5, s6>>
           f == <<k0, k1, k2, k3, k4, k5, k6>>
<1>1. /\ NoCA \in Places /\ k0.held \in Places /\ k0.dir \in Places /\ k0.ca \in Places
      /\ k0.marked \in BOOLEAN /\ k0.num \in 0..3
  BY Kinds DEF Know, Places, Entered, Nothing, K
<1>2. /\ k0 \in Know /\ k1 \in Know /\ k2 \in Know /\ k3 \in Know /\ k4 \in Know /\ k5 \in Know
      /\ k6 \in Know
  BY <1>1, Kinds DEF Know, Places, K, Entered, Nothing
<1>3. /\ s1 \in StepSet /\ s2 \in StepSet /\ s3 \in StepSet /\ s4 \in StepSet /\ s5 \in StepSet
      /\ s6 \in StepSet
  BY Kinds DEF Places, Does
<1>4. Leads(k0, s1, k1)
  BY CaAssumption DEF Leads, LeadsAnywhere, LeadsUnmarked, LeadsInside, AtWork, Step, K, Entered,
                      Nothing, Know
<1>5. Leads(k1, s2, k2)
  BY CaAssumption DEF Leads, LeadsAnywhere, LeadsUnmarked, LeadsInside, AtWork, Step, K, Entered,
                      Nothing, Know
<1>6. Leads(k2, s3, k3)
  BY CaAssumption DEF Leads, LeadsAnywhere, LeadsUnmarked, LeadsInside, AtWork, Step, K, Entered,
                      Nothing, Know
<1>7. Leads(k3, s4, k4)
  BY CaAssumption DEF Leads, LeadsAnywhere, LeadsUnmarked, LeadsInside, AtWork, Step, K, Entered,
                      Nothing, Know
<1>8. Leads(k4, s5, k5)
  BY CaAssumption DEF Leads, LeadsAnywhere, LeadsUnmarked, LeadsInside, AtWork, Step, K, Entered,
                      Nothing, Know
<1>9. Leads(k5, s6, k6)
  BY CaAssumption DEF Leads, LeadsAnywhere, LeadsUnmarked, LeadsInside, AtWork, Step, K, Entered,
                      Nothing, Know
<1> HIDE DEF k0, k1, k2, k3, k4, k5, k6, s1, s2, s3, s4, s5, s6
<1>10. t \in Seq(StepSet) /\ Len(t) = 6 /\ f \in [1..(Len(t) + 1) -> Know] /\ f[1] = k0 /\ f[Len(t) + 1] = k6
  BY <1>2, <1>3
<1>11. \A i \in 1..6 : Leads(f[i], t[i], f[i + 1])
  BY <1>4, <1>5, <1>6, <1>7, <1>8, <1>9
<1> HIDE DEF t, f
<1>12. Chain(t, k0, k6)
  BY <1>10, <1>11 DEF Chain
<1>13. CommandSteps("gen_ca", arg) = t
  BY DEF CommandSteps, Steps, Plain, t, s1, s2, s3, s4, s5, s6
<1>14. QED
  BY <1>10, <1>12, <1>13 DEF k0, k6

(* do_gen_dh.                                                              *)
LEMMA GenDhChain ==
  ASSUME NEW c \in CAs, NEW arg
  PROVE  /\ CommandSteps("gen_dh", arg) \in Seq(StepSet)
         /\ Chain(CommandSteps("gen_dh", arg), Entered(c), Entered(c))
<1> DEFINE k0 == Entered(c)
           k1 == K(c, c, c, TRUE, 0)
           k2 == Entered(c)
           s1 == Step("mark-dh", NoCA)
           s2 == Step("unmark", NoCA)
           t == <<s1, s2>>
           f == <<k0, k1, k2>>
<1>1. /\ NoCA \in Places /\ k0.held \in Places /\ k0.dir \in Places /\ k0.ca \in Places
      /\ k0.marked \in BOOLEAN /\ k0.num \in 0..3
  BY Kinds DEF Know, Places, Entered, Nothing, K
<1>2. /\ k0 \in Know /\ k1 \in Know /\ k2 \in Know
  BY <1>1, Kinds DEF Know, Places, K, Entered, Nothing
<1>3. /\ s1 \in StepSet /\ s2 \in StepSet
  BY Kinds DEF Places, Does
<1>4. Leads(k0, s1, k1)
  BY CaAssumption DEF Leads, LeadsAnywhere, LeadsUnmarked, LeadsInside, AtWork, Step, K, Entered,
                      Nothing, Know
<1>5. Leads(k1, s2, k2)
  BY CaAssumption DEF Leads, LeadsAnywhere, LeadsUnmarked, LeadsInside, AtWork, Step, K, Entered,
                      Nothing, Know
<1> HIDE DEF k0, k1, k2, s1, s2
<1>6. t \in Seq(StepSet) /\ Len(t) = 2 /\ f \in [1..(Len(t) + 1) -> Know] /\ f[1] = k0 /\ f[Len(t) + 1] = k2
  BY <1>2, <1>3
<1>7. \A i \in 1..2 : Leads(f[i], t[i], f[i + 1])
  BY <1>4, <1>5
<1> HIDE DEF t, f
<1>8. Chain(t, k0, k2)
  BY <1>6, <1>7 DEF Chain
<1>9. CommandSteps("gen_dh", arg) = t
  BY DEF CommandSteps, Steps, Plain, t, s1, s2
<1>10. QED
  BY <1>6, <1>8, <1>9 DEF k0, k2

(* do_gen_server and do_gen_client.                                        *)
LEMMA GenChain ==
  ASSUME NEW c \in CAs, NEW arg
  PROVE  /\ CommandSteps("gen", arg) \in Seq(StepSet)
         /\ Chain(CommandSteps("gen", arg), Entered(c), Entered(c))
<1> DEFINE k0 == Entered(c)
           k1 == Entered(c)
           k2 == K(c, c, c, FALSE, 1)
           k3 == K(c, c, c, FALSE, 2)
           k4 == K(c, c, c, TRUE, 2)
           k5 == K(c, c, c, TRUE, 3)
           k6 == K(c, c, c, TRUE, 0)
           k7 == K(c, c, c, TRUE, 0)
           k8 == Entered(c)
           s1 == Step("chosen", NoCA)
           s2 == Step("number", NoCA)
           s3 == Step("note", NoCA)
           s4 == Step("mark", NoCA)
           s5 == Step("request", NoCA)
           s6 == Step("sign", NoCA)
           s7 == Step("crl", NoCA)
           s8 == Step("unmark", NoCA)
           t == <<s1, s2, s3, s4, s5, s6, s7, s8>>
           f == <<k0, k1, k2, k3, k4, k5, k6, k7, k8>>
<1>1. /\ NoCA \in Places /\ k0.held \in Places /\ k0.dir \in Places /\ k0.ca \in Places
      /\ k0.marked \in BOOLEAN /\ k0.num \in 0..3
  BY Kinds DEF Know, Places, Entered, Nothing, K
<1>2. /\ k0 \in Know /\ k1 \in Know /\ k2 \in Know /\ k3 \in Know /\ k4 \in Know /\ k5 \in Know
      /\ k6 \in Know /\ k7 \in Know /\ k8 \in Know
  BY <1>1, Kinds DEF Know, Places, K, Entered, Nothing
<1>3. /\ s1 \in StepSet /\ s2 \in StepSet /\ s3 \in StepSet /\ s4 \in StepSet /\ s5 \in StepSet
      /\ s6 \in StepSet /\ s7 \in StepSet /\ s8 \in StepSet
  BY Kinds DEF Places, Does
<1>4. Leads(k0, s1, k1)
  BY CaAssumption DEF Leads, LeadsAnywhere, LeadsUnmarked, LeadsInside, AtWork, Step, K, Entered,
                      Nothing, Know
<1>5. Leads(k1, s2, k2)
  BY CaAssumption DEF Leads, LeadsAnywhere, LeadsUnmarked, LeadsInside, AtWork, Step, K, Entered,
                      Nothing, Know
<1>6. Leads(k2, s3, k3)
  BY CaAssumption DEF Leads, LeadsAnywhere, LeadsUnmarked, LeadsInside, AtWork, Step, K, Entered,
                      Nothing, Know
<1>7. Leads(k3, s4, k4)
  BY CaAssumption DEF Leads, LeadsAnywhere, LeadsUnmarked, LeadsInside, AtWork, Step, K, Entered,
                      Nothing, Know
<1>8. Leads(k4, s5, k5)
  BY CaAssumption DEF Leads, LeadsAnywhere, LeadsUnmarked, LeadsInside, AtWork, Step, K, Entered,
                      Nothing, Know
<1>9. Leads(k5, s6, k6)
  BY CaAssumption DEF Leads, LeadsAnywhere, LeadsUnmarked, LeadsInside, AtWork, Step, K, Entered,
                      Nothing, Know
<1>10. Leads(k6, s7, k7)
  BY CaAssumption DEF Leads, LeadsAnywhere, LeadsUnmarked, LeadsInside, AtWork, Step, K, Entered,
                      Nothing, Know
<1>11. Leads(k7, s8, k8)
  BY CaAssumption DEF Leads, LeadsAnywhere, LeadsUnmarked, LeadsInside, AtWork, Step, K, Entered,
                      Nothing, Know
<1> HIDE DEF k0, k1, k2, k3, k4, k5, k6, k7, k8, s1, s2, s3, s4, s5, s6, s7, s8
<1>12. t \in Seq(StepSet) /\ Len(t) = 8 /\ f \in [1..(Len(t) + 1) -> Know] /\ f[1] = k0 /\ f[Len(t) + 1] = k8
  BY <1>2, <1>3
<1>13. \A i \in 1..8 : Leads(f[i], t[i], f[i + 1])
  BY <1>4, <1>5, <1>6, <1>7, <1>8, <1>9, <1>10, <1>11
<1> HIDE DEF t, f
<1>14. Chain(t, k0, k8)
  BY <1>12, <1>13 DEF Chain
<1>15. CommandSteps("gen", arg) = t
  BY DEF CommandSteps, GenSteps, Steps, Plain, t, s1, s2, s3, s4, s5, s6, s7, s8
<1>16. QED
  BY <1>12, <1>14, <1>15 DEF k0, k8

(* do_drop_ca.                                                             *)
LEMMA DropCaChain ==
  ASSUME NEW k \in Know, ~k.marked, NEW c \in CAs
  PROVE  /\ CommandSteps("drop_ca", c) \in Seq(StepSet)
         /\ Chain(CommandSteps("drop_ca", c), k, Nothing)
<1> DEFINE k0 == k
           k1 == k
           k2 == K(NoCA, k.dir, k.ca, FALSE, 0)
           k3 == K(c, k.dir, NoCA, FALSE, 0)
           k4 == K(c, NoCA, NoCA, FALSE, 0)
           k5 == K(c, NoCA, NoCA, FALSE, 0)
           k6 == Nothing
           s1 == Step("other", c)
           s2 == Step("unlock", NoCA)
           s3 == Step("lock", c)
           s4 == Step("empty", c)
           s5 == Step("rmdir", c)
           s6 == Step("unlock", NoCA)
           t == <<s1, s2, s3, s4, s5, s6>>
           f == <<k0, k1, k2, k3, k4, k5, k6>>
<1>1. /\ NoCA \in Places /\ k0.held \in Places /\ k0.dir \in Places /\ k0.ca \in Places
      /\ k0.marked \in BOOLEAN /\ k0.num \in 0..3
  BY Kinds DEF Know, Places, Entered, Nothing, K
<1>2. /\ k0 \in Know /\ k1 \in Know /\ k2 \in Know /\ k3 \in Know /\ k4 \in Know /\ k5 \in Know
      /\ k6 \in Know
  BY <1>1, Kinds DEF Know, Places, K, Entered, Nothing
<1>3. /\ s1 \in StepSet /\ s2 \in StepSet /\ s3 \in StepSet /\ s4 \in StepSet /\ s5 \in StepSet
      /\ s6 \in StepSet
  BY Kinds DEF Places, Does
<1>4. Leads(k0, s1, k1)
  BY CaAssumption DEF Leads, LeadsAnywhere, LeadsUnmarked, LeadsInside, AtWork, Step, K, Entered,
                      Nothing, Know
<1>5. Leads(k1, s2, k2)
  BY CaAssumption DEF Leads, LeadsAnywhere, LeadsUnmarked, LeadsInside, AtWork, Step, K, Entered,
                      Nothing, Know
<1>6. Leads(k2, s3, k3)
  BY CaAssumption DEF Leads, LeadsAnywhere, LeadsUnmarked, LeadsInside, AtWork, Step, K, Entered,
                      Nothing, Know
<1>7. Leads(k3, s4, k4)
  BY CaAssumption DEF Leads, LeadsAnywhere, LeadsUnmarked, LeadsInside, AtWork, Step, K, Entered,
                      Nothing, Know
<1>8. Leads(k4, s5, k5)
  BY CaAssumption DEF Leads, LeadsAnywhere, LeadsUnmarked, LeadsInside, AtWork, Step, K, Entered,
                      Nothing, Know
<1>9. Leads(k5, s6, k6)
  BY CaAssumption DEF Leads, LeadsAnywhere, LeadsUnmarked, LeadsInside, AtWork, Step, K, Entered,
                      Nothing, Know
<1> HIDE DEF k0, k1, k2, k3, k4, k5, k6, s1, s2, s3, s4, s5, s6
<1>10. t \in Seq(StepSet) /\ Len(t) = 6 /\ f \in [1..(Len(t) + 1) -> Know] /\ f[1] = k0 /\ f[Len(t) + 1] = k6
  BY <1>2, <1>3
<1>11. \A i \in 1..6 : Leads(f[i], t[i], f[i + 1])
  BY <1>4, <1>5, <1>6, <1>7, <1>8, <1>9
<1> HIDE DEF t, f
<1>12. Chain(t, k0, k6)
  BY <1>10, <1>11 DEF Chain
<1>13. CommandSteps("drop_ca", c) = t
  BY DEF CommandSteps, Plain, t, s1, s2, s3, s4, s5, s6
<1>14. QED
  BY <1>10, <1>12, <1>13 DEF k0, k6

(* do_revoke.                                                              *)
LEMMA RevokeChain ==
  ASSUME NEW c \in CAs, NEW arg
  PROVE  /\ CommandSteps("revoke", arg) \in Seq(StepSet)
         /\ Chain(CommandSteps("revoke", arg), Entered(c), Entered(c))
<1> DEFINE k0 == Entered(c)
           k1 == Entered(c)
           k2 == Entered(c)
           k3 == Entered(c)
           s1 == Step("chosen", NoCA)
           s2 == Step("openssl-revoke", NoCA)
           s3 == Step("crl", NoCA)
           t == <<s1, s2, s3>>
           f == <<k0, k1, k2, k3>>
<1>1. /\ NoCA \in Places /\ k0.held \in Places /\ k0.dir \in Places /\ k0.ca \in Places
      /\ k0.marked \in BOOLEAN /\ k0.num \in 0..3
  BY Kinds DEF Know, Places, Entered, Nothing, K
<1>2. /\ k0 \in Know /\ k1 \in Know /\ k2 \in Know /\ k3 \in Know
  BY <1>1, Kinds DEF Know, Places, K, Entered, Nothing
<1>3. /\ s1 \in StepSet /\ s2 \in StepSet /\ s3 \in StepSet
  BY Kinds DEF Places, Does
<1>4. Leads(k0, s1, k1)
  BY CaAssumption DEF Leads, LeadsAnywhere, LeadsUnmarked, LeadsInside, AtWork, Step, K, Entered,
                      Nothing, Know
<1>5. Leads(k1, s2, k2)
  BY CaAssumption DEF Leads, LeadsAnywhere, LeadsUnmarked, LeadsInside, AtWork, Step, K, Entered,
                      Nothing, Know
<1>6. Leads(k2, s3, k3)
  BY CaAssumption DEF Leads, LeadsAnywhere, LeadsUnmarked, LeadsInside, AtWork, Step, K, Entered,
                      Nothing, Know
<1> HIDE DEF k0, k1, k2, k3, s1, s2, s3
<1>7. t \in Seq(StepSet) /\ Len(t) = 3 /\ f \in [1..(Len(t) + 1) -> Know] /\ f[1] = k0 /\ f[Len(t) + 1] = k3
  BY <1>2, <1>3
<1>8. \A i \in 1..3 : Leads(f[i], t[i], f[i + 1])
  BY <1>4, <1>5, <1>6
<1> HIDE DEF t, f
<1>9. Chain(t, k0, k3)
  BY <1>7, <1>8 DEF Chain
<1>10. CommandSteps("revoke", arg) = t
  BY DEF CommandSteps, Steps, Plain, t, s1, s2, s3
<1>11. QED
  BY <1>7, <1>9, <1>10 DEF k0, k3

(* The steps of a word lead where the word leads.                          *)
LEMMA WordChain ==
  ASSUME NEW k \in Know, NEW s \in StepSet, s.do \in Words, NEW l \in Know, Leads(k, s, l)
  PROVE  CommandSteps(s.do, s.ca) \in Seq(StepSet) /\ Chain(CommandSteps(s.do, s.ca), k, l)
<1> USE DEF Leads, LeadsAnywhere, LeadsUnmarked, LeadsInside
<1>1. CASE s.do = "switch"
  <2>1. s.ca \in CAs /\ l = Entered(s.ca) /\ CommandSteps(s.do, s.ca) = Switch(s.ca)
    BY <1>1 DEF CommandSteps
  <2>2. QED
    BY <2>1, SwitchChain
<1>2. CASE s.do = "new_ca"
  BY <1>2, NewCaChain
<1>3. CASE s.do = "drop_ca"
  BY <1>3, DropCaChain
<1>4. CASE s.do \in {"gen_ca", "gen_dh", "gen", "revoke"}
  <2>1. k.held \in CAs /\ k = Entered(k.held) /\ l = k
    BY <1>4 DEF AtWork, Know, Places
  <2>2. QED
    BY <1>4, <2>1, GenCaChain, GenDhChain, GenChain, RevokeChain
<1>5. CASE s.do = "-"
  <2>1. CommandSteps(s.do, s.ca) = <<>> /\ l = k
    BY <1>5 DEF CommandSteps
  <2>2. Chain(<<>>, k, k)
    <3> DEFINE f == [i \in 1..1 |-> k]
    <3>1. f \in [1..(Len(<<>>) + 1) -> Know] /\ f[1] = k /\ f[Len(<<>>) + 1] = k
      OBVIOUS
    <3> HIDE DEF f
    <3>2. QED
      BY <3>1 DEF Chain
  <2>3. QED
    BY <2>1, <2>2
<1>6. QED
  BY <1>1, <1>2, <1>3, <1>4, <1>5 DEF Words

(* The end of the script can always be reached.                            *)
LEMMA EndingTyped ==
  ASSUME NEW k \in Know
  PROVE  /\ Ending \in Seq(StepSet) /\ Len(Ending) = 3 /\ Ending[3].do = "exit"
         /\ Typed(Ending, k)
<1> DEFINE l == K(NoCA, k.dir, NoCA, FALSE, 0)
           s == Step("exit", NoCA)
<1>1. l \in Know /\ s \in StepSet /\ s.do = "exit"
  BY Kinds DEF Know, Places, K, Does
<1>2. Leads(l, s, l)
  BY <1>1 DEF Leads, LeadsAnywhere
<1>3. CleanupSteps \in Seq(StepSet) /\ Chain(CleanupSteps, k, l)
  BY CleanupChain
<1>4. Ending = CleanupSteps \o <<s>> /\ Len(CleanupSteps) = 2
  BY DEF Ending, CleanupSteps, Steps, Plain
<1> HIDE DEF s, l
<1>5. <<s>> \in Seq(StepSet) /\ Chain(<<s>>, l, l) /\ Len(<<s>>) = 1 /\ <<s>>[1] = s
  BY <1>1, <1>2, ChainStep
<1>6. Ending \in Seq(StepSet) /\ Chain(Ending, k, l)
  BY <1>3, <1>4, <1>5, ConcatProperties, ChainConcat
<1>7. Len(Ending) = 3 /\ Ending[3] = s
  BY <1>3, <1>4, <1>5, ConcatProperties
<1>8. QED
  BY <1>1, <1>6, <1>7 DEF Typed

(* One round of the refresh, and those left, start from nothing known.     *)
LEMMA RoundChain ==
  ASSUME NEW list \in Seq(CAs)
  PROVE  Round(list) \in Seq(StepSet) /\ Chain(Round(list), Nothing, Nothing)
<1>1. Nothing \in Know
  BY Kinds
<1>2. CASE list = <<>>
  <2> DEFINE f == [i \in 1..1 |-> Nothing]
  <2>1. f \in [1..(Len(<<>>) + 1) -> Know] /\ f[1] = Nothing /\ f[Len(<<>>) + 1] = Nothing
    BY <1>1
  <2> HIDE DEF f
  <2>2. Chain(<<>>, Nothing, Nothing)
    BY <2>1 DEF Chain
  <2>3. QED
    BY <1>2, <2>2 DEF Round
<1>3. CASE list # <<>>
  <2> DEFINE c == Head(list)
             s1 == Plain("crl")
             s2 == Step("next", Tail(list))
  <2>1. c \in CAs /\ Tail(list) \in Seq(CAs)
    BY <1>3, HeadTailProperties
  <2>2. s1 \in StepSet /\ s2 \in StepSet /\ Entered(c) \in Know
    BY <2>1, Kinds DEF StepSet, Step, Plain, Does, Places
  <2>3. Leads(Entered(c), s1, Entered(c))
    BY <2>1, CaAssumption DEF Leads, LeadsInside, AtWork, Entered, K, Plain, Step
  <2>4. Leads(Entered(c), s2, Nothing)
    BY <2>1 DEF Leads, LeadsUnmarked, Entered, K, Step
  <2>5. Round(list) = Switch(c) \o <<s1, s2>> /\ <<s1, s2>> = <<s1>> \o <<s2>>
    BY <1>3 DEF Round
  <2> HIDE DEF c, s1, s2
  <2>6. <<s2>> \in Seq(StepSet) /\ Chain(<<s2>>, Entered(c), Nothing)
    BY <1>1, <2>2, <2>4, ChainStep
  <2>7. <<s1>> \o <<s2>> \in Seq(StepSet) /\ Chain(<<s1>> \o <<s2>>, Entered(c), Nothing)
    BY <2>2, <2>3, <2>6, ChainCons
  <2>8. Switch(c) \in Seq(StepSet) /\ Chain(Switch(c), Nothing, Entered(c))
    BY <1>1, <2>1, SwitchChain
  <2>9. QED
    BY <2>5, <2>7, <2>8, ConcatProperties, ChainConcat
<1>4. QED
  BY <1>2, <1>3

(* The list that the refresh works on.                                     *)
LEMMA ListOfCAs ==
  ASSUME NEW S \in SUBSET CAs
  PROVE  SetToSeq(S) \in Seq(CAs)
<1>1. IsFiniteSet(S)
  BY CaAssumption, FS_Subset
<1>2. Cardinality(S) \in Nat /\ ExistsBijection(1..Cardinality(S), S)
  BY <1>1, FS_CardinalityType
<1>3. \E f \in [1..Cardinality(S) -> S] : IsInjective(f)
  BY <1>2 DEF ExistsBijection, Bijection, Injection, IsInjective
<1>4. SetToSeq(S) \in [1..Cardinality(S) -> S]
  BY <1>3 DEF SetToSeq
<1>5. SetToSeq(S) \in Seq(S)
  BY <1>2, <1>4
<1>6. QED
  BY <1>5, SeqMonotonic

(* A well made line needs nothing to be known when it starts: what is      *)
(* known at a word is the CA that the last entering word entered.          *)
LEMMA JobTyped ==
  ASSUME NEW job \in Jobs
  PROVE  job \in Seq(StepSet) /\ Typed(job, Nothing)
<1>1. job \in Lines /\ WellMade(job)
  BY JobsAssumption
<1>2. job \in Seq(StepSet)
  <2>1. [do : Words \union {"refresh", "background"}, ca : CAs \union {NoCA}] \subseteq StepSet
    BY DEF Words, StepSet, Does, Places
  <2>2. QED
    BY <1>1, <2>1, SeqMonotonic DEF Lines
<1>3. /\ Len(job) \in Nat
      /\ \A i \in 1..Len(job) : job[i] \in StepSet /\ job[i].do \in Words \union {"refresh", "background"}
  <2> DEFINE R == [do : Words \union {"refresh", "background"}, ca : CAs \union {NoCA}]
  <2>1. job \in Seq(R)
    BY <1>1 DEF Lines
  <2>2. \A r \in R : r.do \in Words \union {"refresh", "background"}
    OBVIOUS
  <2> HIDE DEF R
  <2>3. \A i \in 1..Len(job) : job[i] \in R
    BY <2>1, ElementOfSeq
  <2>4. QED
    BY <1>2, <2>2, <2>3, LenProperties, ElementOfSeq
<1> DEFINE In(i, c) == \E j \in 1..(i - 1) :
                         /\ job[j].do \in Entering /\ job[j].ca = c
                         /\ \A k \in (j + 1)..(i - 1) : job[k].do \notin Entering \union Leaving
           f == [i \in 1..(Len(job) + 1) |->
                   IF \E c \in CAs : In(i, c) THEN Entered(CHOOSE c \in CAs : In(i, c)) ELSE Nothing]
<1>4. ASSUME NEW i \in Nat, NEW c, NEW d, In(i, c), In(i, d)
      PROVE  c = d
  <2>1. PICK j \in 1..(i - 1) : /\ job[j].do \in Entering /\ job[j].ca = c
                               /\ \A k \in (j + 1)..(i - 1) : job[k].do \notin Entering \union Leaving
    BY <1>4
  <2>2. PICK m \in 1..(i - 1) : /\ job[m].do \in Entering /\ job[m].ca = d
                               /\ \A k \in (m + 1)..(i - 1) : job[k].do \notin Entering \union Leaving
    BY <1>4
  <2>3. ~(j < m) /\ ~(m < j)
    BY <2>1, <2>2
  <2>4. QED
    BY <2>1, <2>2, <2>3
<1>5. ASSUME NEW i \in 1..(Len(job) + 1), NEW c \in CAs, In(i, c)
      PROVE  f[i] = Entered(c)
  <2>1. \A d : In(i, d) => d = c
    BY <1>3, <1>4, <1>5
  <2>2. (CHOOSE d \in CAs : In(i, d)) = c
    <3> HIDE DEF In
    <3>1. QED
      BY <1>5, <2>1
  <2>3. QED
    BY <1>5, <2>2
<1>6. ASSUME NEW i \in 1..(Len(job) + 1), \A c \in CAs : ~In(i, c)
      PROVE  f[i] = Nothing
  BY <1>6
<1>7. f \in [1..(Len(job) + 1) -> Know]
  <2>1. ASSUME NEW i \in 1..(Len(job) + 1)
        PROVE  f[i] \in Know
    BY <1>5, <1>6, Kinds
  <2>2. QED
    BY <2>1
<1>8. f[1] = Nothing
  BY <1>3, <1>6
<1>9. ASSUME NEW i \in 1..Len(job)
      PROVE  Leads(f[i], job[i], f[i + 1])
  <2>1. i \in 1..(Len(job) + 1) /\ i + 1 \in 1..(Len(job) + 1) /\ i \in Nat
    BY <1>3
  <2>2. f[i] = Nothing \/ \E c \in CAs : f[i] = Entered(c) /\ In(i, c)
    BY <1>5, <1>6, <2>1
  <2>0. ~f[i].marked /\ K(f[i].held, f[i].dir, f[i].ca, FALSE, 0) = f[i]
    <3> HIDE DEF f, In
    <3>1. \A c : ~Entered(c).marked /\ K(Entered(c).held, Entered(c).dir, Entered(c).ca, FALSE, 0) = Entered(c)
      BY DEF Entered, K
    <3>2. ~Nothing.marked /\ K(Nothing.held, Nothing.dir, Nothing.ca, FALSE, 0) = Nothing
      BY DEF Nothing, K
    <3>3. QED
      BY <2>2, <3>1, <3>2
  <2>3. CASE job[i].do \in Entering
    <3>1. job[i].ca \in CAs
      BY <1>1, <2>3 DEF WellMade
    <3>2. In(i + 1, job[i].ca)
      BY <2>1, <2>3
    <3>3. f[i + 1] = Entered(job[i].ca)
      BY <1>5, <2>1, <3>1, <3>2
    <3> HIDE DEF f, In
    <3>4. QED
      BY <2>0, <2>3, <3>1, <3>3 DEF Leads, LeadsUnmarked, Entering
  <2>4. CASE job[i].do \in Leaving
    <3>1. \A c : ~In(i + 1, c)
      BY <2>1, <2>4 DEF Entering, Leaving
    <3>2. f[i + 1] = Nothing
      BY <1>6, <2>1, <3>1
    <3>3. job[i].do = "drop_ca" => job[i].ca \in CAs
      BY <1>1 DEF WellMade
    <3> HIDE DEF f, In
    <3>4. QED
      BY <2>0, <2>4, <3>2, <3>3 DEF Leads, LeadsUnmarked, Leaving
  <2>5. CASE job[i].do \notin Entering \union Leaving
    <3>1. \A c : In(i, c) => In(i + 1, c)
      <4>1. SUFFICES ASSUME NEW c, In(i, c) PROVE In(i + 1, c)
        OBVIOUS
      <4>2. PICK j \in 1..(i - 1) : /\ job[j].do \in Entering /\ job[j].ca = c
                                   /\ \A k \in (j + 1)..(i - 1) : job[k].do \notin Entering \union Leaving
        BY <4>1
      <4>3. j \in 1..((i + 1) - 1) /\ \A k \in (j + 1)..((i + 1) - 1) : k = i \/ k \in (j + 1)..(i - 1)
        BY <2>1
      <4>4. QED
        BY <2>5, <4>2, <4>3
    <3>2. \A c : In(i + 1, c) => In(i, c)
      <4>1. SUFFICES ASSUME NEW c, In(i + 1, c) PROVE In(i, c)
        OBVIOUS
      <4>2. PICK j \in 1..((i + 1) - 1) :
              /\ job[j].do \in Entering /\ job[j].ca = c
              /\ \A k \in (j + 1)..((i + 1) - 1) : job[k].do \notin Entering \union Leaving
        BY <4>1
      <4>3. j # i /\ j \in 1..(i - 1) /\ \A k \in (j + 1)..(i - 1) : k \in (j + 1)..((i + 1) - 1)
        BY <2>1, <2>5, <4>2
      <4>4. QED
        BY <4>2, <4>3
    <3>3. f[i + 1] = f[i]
      BY <1>5, <1>6, <2>1, <2>2, <3>1, <3>2
    <3>4. CASE job[i].do \in WorksInside
      <4>1. PICK j \in 1..(i - 1) : /\ job[j].do \in Entering
                                   /\ \A k \in (j + 1)..(i - 1) : job[k].do \notin Entering \union Leaving
        BY <1>1, <3>4 DEF WellMade
      <4>2. job[j].ca \in CAs
        BY <1>1, <1>3, <4>1 DEF WellMade
      <4>3. In(i, job[j].ca)
        BY <4>1
      <4>4. f[i] = Entered(job[j].ca)
        BY <1>5, <2>1, <4>2, <4>3
      <4> HIDE DEF f, In
      <4>5. QED
        BY <3>3, <3>4, <4>2, <4>4, CaAssumption DEF Leads, LeadsInside, AtWork, Entered, K, WorksInside
    <3>5. CASE job[i].do \in {"-", "background"}
      <4> HIDE DEF f, In
      <4>1. QED
        BY <2>0, <3>3, <3>5 DEF Leads, LeadsAnywhere, LeadsUnmarked
    <3>6. QED
      BY <1>3, <2>5, <3>4, <3>5 DEF Words, Entering, Leaving, WorksInside
  <2>6. QED
    BY <2>3, <2>4, <2>5
<1> HIDE DEF f
<1>10. f[Len(job) + 1] \in Know
  BY <1>3, <1>7
<1>11. Chain(job, Nothing, f[Len(job) + 1])
  BY <1>3, <1>7, <1>8, <1>9 DEF Chain
<1>12. QED
  BY <1>2, <1>10, <1>11 DEF Typed

-----------------------------------------------------------------------------
(* The state.  A run started in the background has what it was passed.     *)
Held(p) == IF passed[p] = <<>> THEN lockfile[p] ELSE passed[p][2]
Chosen(p) == IF passed[p] = <<>> THEN ca[p] ELSE passed[p][1]
NoCrash == \A p \in Procs : status[p] # "killed"

Owners == Procs \union {NoProc}
Maps == UNION {[D -> Owners] : D \in SUBSET Nat}
Marks == Nat \union {Root, -2}
Directory == [state : {"absent", "bare", "ready"}, index : SUBSET (Nat \ {0}), revoked : SUBSET Nat,
              notes : SUBSET (Nat \ {0}), serial : Nat, mark : Marks, root : BOOLEAN,
              keys : Maps, certs : Maps]
Passed == {<<>>} \union (Places \X Places)

DataTypes ==
  /\ dirs \in [CAs -> Directory] /\ lock \in [CAs -> Owners]
  /\ todo \in [Procs -> Seq(StepSet)]
  /\ status \in [Procs -> {"new", "running", "done", "killed"}]
  /\ ca \in [Procs -> Places] /\ lockfile \in [Procs -> Places] /\ cwd \in [Procs -> Places]
  /\ number \in [Procs -> Nat] /\ passed \in [Procs -> Passed]
  /\ renewed \subseteq CAs

ReaderTypes ==
  /\ reader \in [at : {"new", "generating", "index", "notes", "root", "done", "failed"}, ca : Places,
                 mark : Marks, index : SUBSET (Nat \union {Root}), report : SUBSET (Nat \union {Root})]
  /\ reader.at # "new" => reader.ca \in CAs

(* What k says is so.  What is known of marks goes when a process dies     *)
(* without its cleanup; the number is that of the CA, unless somebody who  *)
(* created the CA again has set it back, and openssl ca will refuse it.    *)
Meaning(p, k) ==
  /\ k.held # NoCA => Held(p) = k.held
  /\ k.dir # NoCA => cwd[p] \in {k.dir, NoCA}
  /\ k.ca # NoCA => Chosen(p) = k.ca
  /\ k.marked => k.held # NoCA /\ k.ca = k.held
  /\ NoCrash /\ ~k.marked /\ Held(p) # NoCA => dirs[Held(p)].mark = 0
  /\ k.num > 0 /\ cwd[p] # NoCA =>
       /\ k.held = cwd[p] /\ number[p] # 0
       /\ number[p] = Dir(p).serial \/ Dir(p).serial \in Dir(p).index
       /\ k.num > 1 => number[p] \in Dir(p).notes
       /\ k.num > 2 => number[p] \in DOMAIN Dir(p).keys

(* A run at work ends with its exit, owns the lock that it believes to     *)
(* have, and every step left finds what it needs.                          *)
Ends(t) == t # <<>> /\ t[Len(t)].do = "exit"
AtWorkInv(p) ==
  /\ Ends(todo[p])
  /\ Held(p) # NoCA => lock[Held(p)] = p
  /\ \E k \in Know : Typed(todo[p], k) /\ Meaning(p, k)
ProcInv(p) ==
  /\ status[p] = "running" => AtWorkInv(p)
  /\ cwd[p] # NoCA => dirs[cwd[p]].state # "absent"
  /\ status[p] # "running" => todo[p] = <<>> /\ passed[p] = <<>> /\ cwd[p] = NoCA
  /\ status[p] = "new" => ca[p] = NoCA /\ lockfile[p] = NoCA

(* The certificates of a CA are numbered in order; a number that was set   *)
(* back has been used.                                                     *)
DirInv(c) ==
  /\ dirs[c].index \subseteq dirs[c].notes
  /\ \A n \in dirs[c].index : 1..n \subseteq dirs[c].index
  /\ dirs[c].serial # 0 => dirs[c].serial \in dirs[c].index \/ 1..(dirs[c].serial - 1) \subseteq dirs[c].index
  /\ c \notin renewed => \A n \in dirs[c].index :
       /\ n < dirs[c].serial
       /\ n \in DOMAIN dirs[c].keys /\ n \in DOMAIN dirs[c].certs
       /\ dirs[c].certs[n] = dirs[c].keys[n]

CaInv ==
  /\ DataTypes
  /\ \A p \in Procs : ProcInv(p)
  /\ \A c \in CAs : DirInv(c)
  /\ MarkUnderLock

-----------------------------------------------------------------------------
(* What a step of one process leaves to the others: all that is theirs, but *)
(* not the directory that they are in; and in the CA that they hold, the   *)
(* mark may go and the number may be set back (cleanup, do_new_ca).        *)
Same(q) ==
  /\ todo'[q] = todo[q] /\ ca'[q] = ca[q] /\ lockfile'[q] = lockfile[q]
  /\ number'[q] = number[q] /\ passed'[q] = passed[q] /\ cwd'[q] \in {cwd[q], NoCA}
Mild(c) ==
  /\ dirs'[c].mark \in {0, dirs[c].mark}
  /\ dirs[c].state # "absent" =>
       /\ dirs'[c].index = dirs[c].index /\ dirs'[c].notes = dirs[c].notes
       /\ dirs'[c].keys = dirs[c].keys /\ dirs'[c].serial \in {dirs[c].serial, 1}

(* The last element of a sequence stays the last one of its tail.          *)
LEMMA LastButOne ==
  ASSUME NEW n \in Nat \ {0}, n # 1
  PROVE  n - 1 \in 1..(n - 1) /\ (n - 1) + 1 = n /\ n - 1 # 0
OBVIOUS

(* A process at work: what is known before and after its next step.        *)
LEMMA OwnFacts ==
  ASSUME CaInv, NEW p \in Procs, status[p] = "running"
  PROVE  /\ AtWorkInv(p) /\ todo[p] \in Seq(StepSet) /\ todo[p] # <<>>
         /\ Head(todo[p]) \in StepSet /\ Tail(todo[p]) \in Seq(StepSet)
         /\ Head(todo[p]).do # "exit" => Ends(Tail(todo[p]))
         /\ \E k, l \in Know : /\ Leads(k, Head(todo[p]), l) /\ Typed(Tail(todo[p]), l) /\ Meaning(p, k)
                              /\ Typed(todo[p], k)
<1>1. AtWorkInv(p) /\ todo[p] \in Seq(StepSet)
  BY DEF CaInv, ProcInv, DataTypes
<1>2. todo[p] # <<>> /\ todo[p][Len(todo[p])].do = "exit"
  BY <1>1 DEF AtWorkInv, Ends
<1> DEFINE t == todo[p]
<1>3. /\ Len(t) \in Nat \ {0} /\ Tail(t) \in Seq(StepSet) /\ Len(Tail(t)) = Len(t) - 1
      /\ Head(t) = t[1] /\ \A i \in 1..(Len(t) - 1) : Tail(t)[i] = t[i + 1]
  BY <1>1, <1>2, EmptySeq, HeadTailProperties
<1>4. Head(t) \in StepSet
  BY <1>1, <1>2, HeadTailProperties
<1>5. ASSUME Head(t).do # "exit" PROVE Ends(Tail(t))
  <2>2. Len(t) # 1
    BY <1>2, <1>3, <1>5
  <2>3. Len(t) - 1 \in 1..(Len(t) - 1) /\ (Len(t) - 1) + 1 = Len(t) /\ Len(t) - 1 # 0
    BY <1>3, <2>2, LastButOne
  <2>4. Tail(t)[Len(Tail(t))] = t[Len(t)]
    BY <1>3, <2>3
  <2>5. Tail(t) # <<>>
    BY <1>3, <2>3, EmptySeq
  <2>6. QED
    BY <1>2, <2>4, <2>5 DEF Ends
<1>6. PICK k \in Know : Typed(t, k) /\ Meaning(p, k)
  BY <1>1 DEF AtWorkInv
<1>7. PICK m \in Know : Chain(t, k, m)
  BY <1>6 DEF Typed
<1>8. PICK l \in Know : Leads(k, Head(t), l) /\ Chain(Tail(t), l, m)
  BY <1>1, <1>2, <1>7, ChainTail
<1>9. Typed(Tail(t), l)
  BY <1>7, <1>8 DEF Typed
<1>10. QED
  BY <1>1, <1>2, <1>3, <1>4, <1>5, <1>6, <1>8, <1>9

(* The others keep what they know.                                         *)
LEMMA OthersKeep ==
  ASSUME CaInv, NEW q \in Procs, status[q] = "running", NoCrash' => NoCrash, Same(q),
         Held(q) # NoCA => lock'[Held(q)] = q /\ Mild(Held(q))
  PROVE  AtWorkInv(q)'
<1>1. AtWorkInv(q) /\ ProcInv(q)
  BY DEF CaInv, ProcInv
<1>2. PICK k \in Know : Typed(todo[q], k) /\ Meaning(q, k)
  BY <1>1 DEF AtWorkInv
<1>3. Held(q)' = Held(q) /\ Chosen(q)' = Chosen(q)
  BY DEF Same, Held, Chosen
<1>4. Meaning(q, k)'
  <2>1. /\ k.held # NoCA => Held(q)' = k.held
        /\ k.dir # NoCA => cwd'[q] \in {k.dir, NoCA}
        /\ k.ca # NoCA => Chosen(q)' = k.ca
        /\ k.marked => k.held # NoCA /\ k.ca = k.held
    BY <1>2, <1>3 DEF Meaning, Same
  <2>2. ASSUME NoCrash, ~k.marked, Held(q) # NoCA PROVE dirs'[Held(q)].mark = 0
    BY <1>2, <2>2 DEF Meaning, Mild
  <2>3. ASSUME k.num > 0, cwd'[q] # NoCA
        PROVE  /\ k.held = cwd'[q] /\ number'[q] # 0
               /\ number'[q] = dirs'[cwd'[q]].serial \/ dirs'[cwd'[q]].serial \in dirs'[cwd'[q]].index
               /\ k.num > 1 => number'[q] \in dirs'[cwd'[q]].notes
               /\ k.num > 2 => number'[q] \in DOMAIN dirs'[cwd'[q]].keys
    <3> DEFINE c == cwd[q]
    <3>1. c # NoCA /\ cwd'[q] = c /\ number'[q] = number[q]
      BY <2>3 DEF Same
    <3>2. /\ k.held = c /\ number[q] # 0
          /\ number[q] = dirs[c].serial \/ dirs[c].serial \in dirs[c].index
          /\ k.num > 1 => number[q] \in dirs[c].notes
          /\ k.num > 2 => number[q] \in DOMAIN dirs[c].keys
      BY <1>2, <2>3, <3>1 DEF Meaning, Dir
    <3>3. c = Held(q) /\ dirs[c].state # "absent"
      BY <1>1, <1>2, <3>1, <3>2 DEF Meaning, ProcInv
    <3>4. /\ dirs'[c].index = dirs[c].index /\ dirs'[c].notes = dirs[c].notes
          /\ dirs'[c].keys = dirs[c].keys /\ dirs'[c].serial \in {dirs[c].serial, 1}
      BY <3>1, <3>3 DEF Mild
    <3>5. number[q] = dirs'[c].serial \/ dirs'[c].serial \in dirs[c].index
      <4>1. c \in CAs /\ dirs[c].serial \in Nat /\ dirs[c].index \subseteq Nat \ {0} /\ number[q] \in Nat
        BY <3>1 DEF CaInv, DataTypes, Directory, Places
      <4>2. DirInv(c)
        BY <4>1 DEF CaInv
      <4>3. CASE dirs'[c].serial = dirs[c].serial
        BY <3>2, <4>3
      <4>4. CASE dirs'[c].serial = 1 /\ dirs[c].serial > 1
        <5>1. 1 \in 1..(dirs[c].serial - 1) /\ 1 \in 1..dirs[c].serial
          BY <4>1, <4>4
        <5>2. QED
          BY <4>1, <4>2, <4>4, <5>1 DEF DirInv
      <4>5. CASE dirs[c].serial = 0
        BY <3>2, <4>1, <4>5
      <4>6. QED
        BY <3>4, <4>1, <4>3, <4>4, <4>5
    <3>6. QED
      BY <3>1, <3>2, <3>4, <3>5
  <2>4. QED
    BY <1>3, <2>1, <2>2, <2>3 DEF Meaning, Dir
<1>5. Held(q)' # NoCA => lock'[Held(q)'] = q
  BY <1>3
<1>6. Ends(todo'[q]) /\ Typed(todo'[q], k)
  BY <1>1, <1>2 DEF Same, AtWorkInv
<1>7. QED
  BY <1>2, <1>4, <1>5, <1>6 DEF AtWorkInv

(* A step of another process has to keep this of q.                        *)
Spared(q) == status[q] = "running" /\ Held(q) # NoCA => lock'[Held(q)] = q /\ Mild(Held(q))

(* What a step of p has to keep; the rest follows.                         *)
LEMMA Concludes ==
  ASSUME CaInv, NEW p \in Procs, DataTypes', NoCrash' => NoCrash,
         \A q \in Procs \ {p} : Same(q) /\ Spared(q) /\ status'[q] = status[q],
         \A q \in Procs : cwd'[q] # NoCA => dirs'[cwd'[q]].state # "absent",
         ProcInv(p)', \A c \in CAs : DirInv(c)', MarkUnderLock'
  PROVE  CaInv'
<1>1. ASSUME NEW q \in Procs PROVE ProcInv(q)'
  <2>1. ProcInv(q)
    BY DEF CaInv
  <2>2. CASE q # p
    <3>1. status[q] = "running" => AtWorkInv(q)'
      BY <2>2, OthersKeep DEF Spared
    <3>2. QED
      BY <2>1, <2>2, <3>1 DEF ProcInv, Same
  <2>3. QED
    BY <2>2
<1>2. QED
  BY <1>1 DEF CaInv

(* A step that leaves the directories and the locks as they are.           *)
LEMMA Quietly ==
  ASSUME CaInv, NEW p \in Procs, status[p] = "running", DataTypes',
         UNCHANGED <<dirs, lock, status, renewed>>, \A q \in Procs \ {p} : Same(q),
         cwd'[p] # NoCA => dirs[cwd'[p]].state # "absent", AtWorkInv(p)'
  PROVE  CaInv'
<1>1. \A c \in CAs : DirInv(c)'
  BY DEF CaInv, DirInv
<1>2. MarkUnderLock'
  BY DEF CaInv, MarkUnderLock
<1>3. ASSUME NEW q \in Procs \ {p}
      PROVE  Spared(q)
  BY DEF CaInv, ProcInv, AtWorkInv, Mild, Spared
<1>4. ASSUME NEW q \in Procs, cwd'[q] # NoCA PROVE dirs'[cwd'[q]].state # "absent"
  BY <1>4 DEF Same, CaInv, ProcInv
<1>5. ProcInv(p)' /\ (NoCrash' => NoCrash)
  BY DEF ProcInv, NoCrash
<1>6. QED
  BY <1>1, <1>2, <1>3, <1>4, <1>5, Concludes

(* The process that acts: it has its next steps, and what is known of them. *)
LEMMA Proceeds ==
  ASSUME NEW p \in Procs, NEW l \in Know, Typed(todo'[p], l), Ends(todo'[p]), Meaning(p, l)',
         Held(p)' # NoCA => lock'[Held(p)'] = p
  PROVE  AtWorkInv(p)'
BY DEF AtWorkInv

(* The steps left after one or more others.                                *)
LEMMA Prepends ==
  ASSUME NEW t \in Seq(StepSet), NEW u \in Seq(StepSet), NEW k, NEW l, Chain(t, k, l),
         Typed(u, l), Ends(u)
  PROVE  t \o u \in Seq(StepSet) /\ Typed(t \o u, k) /\ Ends(t \o u)
<1>1. PICK m \in Know : Chain(u, l, m)
  BY DEF Typed
<1>2. t \o u \in Seq(StepSet) /\ Chain(t \o u, k, m)
  BY <1>1, ConcatProperties, ChainConcat
<1>3. /\ Len(t) \in Nat /\ Len(u) \in Nat /\ Len(t \o u) = Len(t) + Len(u)
      /\ \A i \in 1..(Len(t) + Len(u)) : (t \o u)[i] = IF i <= Len(t) THEN t[i] ELSE u[i - Len(t)]
  BY LenProperties, ConcatProperties
<1>4. u # <<>> /\ u[Len(u)].do = "exit"
  BY DEF Ends
<1>5. Len(u) # 0
  BY <1>4, EmptySeq
<1>6. ASSUME NEW a \in Nat, NEW b \in Nat, b # 0
      PROVE  a + b \in 1..(a + b) /\ ~(a + b <= a) /\ (a + b) - a = b /\ a + b # 0
  BY <1>6
<1>7. /\ Len(t) + Len(u) \in 1..(Len(t) + Len(u)) /\ ~(Len(t) + Len(u) <= Len(t))
      /\ (Len(t) + Len(u)) - Len(t) = Len(u) /\ Len(t) + Len(u) # 0
  BY <1>3, <1>5, <1>6
<1>8. (t \o u)[Len(t \o u)] = u[Len(u)]
  BY <1>3, <1>7
<1>9. t \o u # <<>>
  BY <1>2, <1>3, <1>7, EmptySeq
<1>10. QED
  BY <1>1, <1>2, <1>4, <1>8, <1>9 DEF Typed, Ends

(* Only steps left change.                                                 *)
LEMMA OnlyTodo ==
  ASSUME CaInv, NEW p \in Procs, Running(p), NEW u \in Seq(StepSet), NEW l \in Know,
         todo' = [todo EXCEPT ![p] = u], Typed(u, l), Ends(u), Meaning(p, l),
         UNCHANGED <<dirs, lock, status, ca, lockfile, cwd, number, passed, renewed>>
  PROVE  CaInv'
<1>1. DataTypes'
  BY DEF CaInv, DataTypes
<1>2. status[p] = "running" /\ ProcInv(p) /\ AtWorkInv(p)
  BY DEF Running, CaInv, ProcInv
<1>3. todo'[p] = u /\ \A q \in Procs \ {p} : Same(q)
  BY DEF CaInv, DataTypes, Same
<1>4. Held(p)' = Held(p) /\ Chosen(p)' = Chosen(p) /\ NoCrash' = NoCrash
  BY DEF Held, Chosen, NoCrash
<1>5. Meaning(p, l)'
  BY <1>4 DEF Meaning, Dir
<1>6. AtWorkInv(p)'
  BY <1>2, <1>3, <1>4, <1>5, Proceeds DEF AtWorkInv
<1>7. QED
  BY <1>1, <1>2, <1>3, <1>6, Quietly DEF ProcInv

(* A step that fails leaves the cleanup.                                   *)
LEMMA FailsKeeps ==
  ASSUME CaInv, NEW p \in Procs, Running(p), Fails(p)
  PROVE  CaInv'
<1>1. PICK k \in Know : Meaning(p, k)
  BY DEF CaInv, ProcInv, AtWorkInv, Running
<1>2. Ending \in Seq(StepSet) /\ Len(Ending) = 3 /\ Ending[3].do = "exit" /\ Typed(Ending, k)
  BY EndingTyped
<1>3. Ending # <<>>
  <2>1. Len(Ending) # 0
    BY <1>2
  <2>2. QED
    BY <1>2, <2>1, EmptySeq
<1>4. Ends(Ending)
  BY <1>2, <1>3 DEF Ends
<1>5. QED
  BY <1>1, <1>2, <1>4, OnlyTodo DEF Fails

-----------------------------------------------------------------------------
(* The steps, one by one.  Words, tests and the rounds of the refresh      *)
(* change only what is left to do.                                         *)
LEMMA CommandKeeps ==
  ASSUME CaInv, NEW p \in Procs, Command(p)
  PROVE  CaInv'
<1>1. Running(p) /\ Head(todo[p]).do \in Words
  BY DEF Command, Now
<1>2. PICK k, l \in Know : Leads(k, Head(todo[p]), l) /\ Typed(Tail(todo[p]), l) /\ Meaning(p, k)
  BY <1>1, OwnFacts DEF Running
<1>3. /\ Head(todo[p]) \in StepSet /\ Tail(todo[p]) \in Seq(StepSet)
      /\ Head(todo[p]).do # "exit" => Ends(Tail(todo[p]))
  BY <1>1, OwnFacts DEF Running
<1> DEFINE t == CommandSteps(Head(todo[p]).do, Head(todo[p]).ca)
<1>4. t \in Seq(StepSet) /\ Chain(t, k, l)
  BY <1>1, <1>2, <1>3, WordChain
<1>5. Head(todo[p]).do # "exit"
  BY <1>1 DEF Words
<1> HIDE DEF t
<1>6. t \o Tail(todo[p]) \in Seq(StepSet) /\ Typed(t \o Tail(todo[p]), k) /\ Ends(t \o Tail(todo[p]))
  BY <1>2, <1>3, <1>4, <1>5, Prepends
<1>7. /\ todo' = [todo EXCEPT ![p] = t \o Tail(todo[p])]
      /\ UNCHANGED <<dirs, lock, status, ca, lockfile, cwd, number, passed, renewed>>
  BY DEF Command, t, readVars, CaInv, DataTypes
<1>8. QED
  BY <1>1, <1>2, <1>6, <1>7, OnlyTodo

(* A step that is done, and changes nothing else.                          *)
LEMMA DoneKeeps ==
  ASSUME CaInv, NEW p \in Procs, Running(p), Done(p),
         NEW k \in Know, Typed(Tail(todo[p]), k), Meaning(p, k), Head(todo[p]).do # "exit",
         UNCHANGED <<dirs, lock, status, ca, lockfile, cwd, number, passed, renewed>>
  PROVE  CaInv'
<1>1. Tail(todo[p]) \in Seq(StepSet) /\ Ends(Tail(todo[p]))
  BY OwnFacts DEF Running
<1>2. todo' = [todo EXCEPT ![p] = Tail(todo[p])]
  BY DEF Done, CaInv, DataTypes
<1>3. QED
  BY <1>1, <1>2, OnlyTodo

(* The tests before a command.                                             *)
LEMMA TestsKeeps ==
  ASSUME CaInv, NEW p \in Procs, Tests(p)
  PROVE  CaInv'
<1>1. Running(p) /\ Head(todo[p]).do \in {"chosen", "fresh", "other"}
  BY DEF Tests, Now
<1>2. PICK k, l \in Know : Leads(k, Head(todo[p]), l) /\ Typed(Tail(todo[p]), l) /\ Meaning(p, k)
  BY <1>1, OwnFacts DEF Running
<1>3. l = k /\ Head(todo[p]).do # "exit"
  BY <1>1, <1>2 DEF Leads, LeadsAnywhere, LeadsUnmarked, LeadsInside
<1>4. \/ Done(p) /\ UNCHANGED <<dirs, lock, status, ca, lockfile, cwd, number, passed, readVars, renewed>>
      \/ Fails(p)
  BY DEF Tests
<1>5. CASE Fails(p)
  BY <1>1, <1>5, FailsKeeps
<1>6. CASE Done(p) /\ UNCHANGED <<dirs, lock, status, ca, lockfile, cwd, number, passed, readVars, renewed>>
  BY <1>1, <1>2, <1>3, <1>6, DoneKeeps
<1>7. QED
  BY <1>4, <1>5, <1>6

(* The revocation list.                                                    *)
LEMMA GenCrlKeeps ==
  ASSUME CaInv, NEW p \in Procs, GenCrl(p)
  PROVE  CaInv'
<1>1. Running(p) /\ Head(todo[p]).do = "crl"
  BY DEF GenCrl, Now
<1>2. PICK k, l \in Know : Leads(k, Head(todo[p]), l) /\ Typed(Tail(todo[p]), l) /\ Meaning(p, k)
  BY <1>1, OwnFacts DEF Running
<1>3. l = k
  BY <1>1, <1>2 DEF Leads, LeadsAnywhere, LeadsUnmarked, LeadsInside
<1>4. CASE Fails(p)
  BY <1>1, <1>4, FailsKeeps
<1>5. CASE ~Fails(p)
  <2>1. /\ Inside(p) /\ dirs' = [dirs EXCEPT ![cwd[p]] = Dir(p)] /\ Done(p)
        /\ UNCHANGED <<lock, status, ca, lockfile, cwd, number, passed, readVars, renewed>>
    BY <1>5 DEF GenCrl, InDir
  <2>2. dirs' = dirs
    BY <2>1 DEF Dir, CaInv, DataTypes
  <2>3. QED
    BY <1>1, <1>2, <1>3, <2>1, <2>2, DoneKeeps
<1>6. QED
  BY <1>4, <1>5

(* The beginning of the refresh, which leaves the directory, and the next  *)
(* round.                                                                  *)
LEMMA RefreshKeeps ==
  ASSUME CaInv, NEW p \in Procs, Refresh(p)
  PROVE  CaInv'
<1>1. Running(p) /\ Head(todo[p]).do \in {"refresh", "next"}
  BY DEF Refresh, Now
<1>2. PICK k, l \in Know : Leads(k, Head(todo[p]), l) /\ Typed(Tail(todo[p]), l) /\ Meaning(p, k)
  BY <1>1, OwnFacts DEF Running
<1>3. Tail(todo[p]) \in Seq(StepSet) /\ Ends(Tail(todo[p]))
  BY <1>1, OwnFacts DEF Running
<1>4. Head(todo[p]).do = "next" => Arg(p) \in Seq(CAs)
  BY <1>1, <1>2 DEF Leads, LeadsAnywhere, LeadsUnmarked, LeadsInside, Arg
<1>5. l = Nothing /\ ~k.marked
  BY <1>1, <1>2 DEF Leads, LeadsAnywhere, LeadsUnmarked, LeadsInside
<1>6. Meaning(p, Nothing)
  BY <1>2, <1>5 DEF Meaning, Nothing, K
<1>7. ASSUME NEW list \in Seq(CAs)
      PROVE  LET u == Round(list) \o Tail(todo[p])
             IN  u \in Seq(StepSet) /\ Typed(u, Nothing) /\ Ends(u)
  BY <1>2, <1>3, <1>5, RoundChain, Prepends
<1>8. Nothing \in Know
  BY Kinds
<1>9. CASE Now(p, "next") /\ Head(todo[p]).do = "next"
  <2> DEFINE u == Round(Arg(p)) \o Tail(todo[p])
  <2>1. u \in Seq(StepSet) /\ Typed(u, Nothing) /\ Ends(u)
    BY <1>4, <1>5, <1>7, <1>9
  <2>2. /\ todo' = [todo EXCEPT ![p] = u]
        /\ UNCHANGED <<dirs, lock, status, ca, lockfile, cwd, number, passed, renewed>>
    BY <1>9 DEF Refresh, Now, readVars, CaInv, DataTypes
  <2> HIDE DEF u
  <2>3. QED
    BY <1>1, <1>6, <1>8, <2>1, <2>2, OnlyTodo
<1>10. CASE Now(p, "refresh") /\ Head(todo[p]).do = "refresh"
  <2> DEFINE here == SetToSeq({c \in CAs : dirs[c].state # "absent"})
             u == Round(here) \o Tail(todo[p])
  <2>1. here \in Seq(CAs)
    BY ListOfCAs
  <2>2. u \in Seq(StepSet) /\ Typed(u, Nothing) /\ Ends(u)
    <3> HIDE DEF here
    <3>1. QED
      BY <1>7, <2>1
  <2>3. /\ todo' = [todo EXCEPT ![p] = u] /\ cwd' = [cwd EXCEPT ![p] = NoCA]
        /\ UNCHANGED <<dirs, lock, status, ca, lockfile, number, passed, renewed>>
    BY <1>10 DEF Refresh, Now, readVars, CaInv, DataTypes
  <2> HIDE DEF u, here
  <2>4. DataTypes'
    BY <2>2, <2>3 DEF CaInv, DataTypes, Places
  <2>5. status[p] = "running" /\ AtWorkInv(p)
    BY <1>1 DEF Running, CaInv, ProcInv
  <2>6. todo'[p] = u /\ cwd'[p] = NoCA /\ \A q \in Procs \ {p} : Same(q)
    BY <2>3 DEF CaInv, DataTypes, Same
  <2>7. Held(p)' = Held(p) /\ Chosen(p)' = Chosen(p) /\ NoCrash' = NoCrash
    BY <2>3 DEF Held, Chosen, NoCrash
  <2>8. Meaning(p, Nothing)'
    BY <1>6, <2>3, <2>6, <2>7 DEF Meaning, Nothing, K
  <2>9. AtWorkInv(p)'
    BY <1>8, <2>2, <2>3, <2>5, <2>6, <2>7, <2>8, Proceeds DEF AtWorkInv
  <2>10. QED
    BY <2>3, <2>4, <2>5, <2>6, <2>9, Quietly
<1>11. QED
  BY <1>9, <1>10 DEF Refresh, Now

(* cd: what was known of the lock is not needed any more.                  *)
LEMMA ChangesDirKeeps ==
  ASSUME CaInv, NEW p \in Procs, ChangesDir(p)
  PROVE  CaInv'
<1>1. Running(p) /\ Head(todo[p]).do = "cd"
  BY DEF ChangesDir, Now
<1>2. PICK k, l \in Know : Leads(k, Head(todo[p]), l) /\ Typed(Tail(todo[p]), l) /\ Meaning(p, k)
  BY <1>1, OwnFacts DEF Running
<1>3. Tail(todo[p]) \in Seq(StepSet) /\ Ends(Tail(todo[p]))
  BY <1>1, OwnFacts DEF Running
<1>4. ~k.marked /\ Arg(p) \in CAs /\ l = K(NoCA, Arg(p), NoCA, FALSE, 0)
  BY <1>1, <1>2 DEF Leads, LeadsAnywhere, LeadsUnmarked, LeadsInside, Arg
<1>5. CASE Fails(p)
  BY <1>1, <1>5, FailsKeeps
<1>6. CASE ~Fails(p)
  <2>1. /\ dirs[Arg(p)].state # "absent" /\ todo' = [todo EXCEPT ![p] = Tail(todo[p])]
        /\ cwd' = [cwd EXCEPT ![p] = Arg(p)]
        /\ UNCHANGED <<dirs, lock, status, ca, lockfile, number, passed, renewed>>
    BY <1>6 DEF ChangesDir, Done, readVars, CaInv, DataTypes
  <2>2. DataTypes'
    BY <1>3, <1>4, <2>1 DEF CaInv, DataTypes, Places
  <2>3. status[p] = "running" /\ AtWorkInv(p)
    BY <1>1 DEF Running, CaInv, ProcInv
  <2>4. todo'[p] = Tail(todo[p]) /\ cwd'[p] = Arg(p) /\ \A q \in Procs \ {p} : Same(q)
    BY <2>1 DEF CaInv, DataTypes, Same
  <2>5. Held(p)' = Held(p) /\ Chosen(p)' = Chosen(p) /\ NoCrash' = NoCrash
    BY <2>1 DEF Held, Chosen, NoCrash
  <2>6. Meaning(p, l)'
    BY <1>2, <1>4, <2>1, <2>4, <2>5 DEF Meaning, K
  <2>7. AtWorkInv(p)'
    BY <1>2, <1>3, <2>1, <2>3, <2>4, <2>5, <2>6, Proceeds DEF AtWorkInv
  <2>8. QED
    BY <2>1, <2>2, <2>3, <2>4, <2>7, Quietly
<1>7. QED
  BY <1>5, <1>6

(* The number is read from the CA's file.                                  *)
LEMMA TakeNumberKeeps ==
  ASSUME CaInv, NEW p \in Procs, TakeNumber(p)
  PROVE  CaInv'
<1>1. Running(p) /\ Head(todo[p]).do = "number"
  BY DEF TakeNumber, Now
<1>2. PICK k, l \in Know : Leads(k, Head(todo[p]), l) /\ Typed(Tail(todo[p]), l) /\ Meaning(p, k)
  BY <1>1, OwnFacts DEF Running
<1>3. Tail(todo[p]) \in Seq(StepSet) /\ Ends(Tail(todo[p]))
  BY <1>1, OwnFacts DEF Running
<1>4. AtWork(k) /\ l = K(k.held, k.held, k.held, k.marked, 1)
  BY <1>1, <1>2 DEF Leads, LeadsAnywhere, LeadsUnmarked, LeadsInside
<1>5. CASE Fails(p)
  BY <1>1, <1>5, FailsKeeps
<1>6. CASE ~Fails(p)
  <2>1. /\ Inside(p) /\ Dir(p).serial # 0 /\ todo' = [todo EXCEPT ![p] = Tail(todo[p])]
        /\ number' = [number EXCEPT ![p] = Dir(p).serial]
        /\ UNCHANGED <<dirs, lock, status, ca, lockfile, cwd, passed, renewed>>
    BY <1>6 DEF TakeNumber, Done, readVars, CaInv, DataTypes
  <2>2. cwd[p] \in CAs /\ Dir(p).serial \in Nat
    BY <2>1 DEF CaInv, DataTypes, Inside, Places, Directory, Dir
  <2>3. DataTypes'
    BY <1>3, <2>1, <2>2 DEF CaInv, DataTypes
  <2>4. status[p] = "running" /\ AtWorkInv(p) /\ ProcInv(p)
    BY <1>1 DEF Running, CaInv, ProcInv
  <2>5. todo'[p] = Tail(todo[p]) /\ number'[p] = Dir(p).serial /\ \A q \in Procs \ {p} : Same(q)
    BY <2>1 DEF CaInv, DataTypes, Same
  <2>6. Held(p)' = Held(p) /\ Chosen(p)' = Chosen(p) /\ NoCrash' = NoCrash
    BY <2>1 DEF Held, Chosen, NoCrash
  <2>7. Meaning(p, l)'
    BY <1>2, <1>4, <2>1, <2>5, <2>6 DEF Meaning, K, AtWork, Dir, Inside
  <2>8. AtWorkInv(p)'
    BY <1>2, <1>3, <2>1, <2>4, <2>5, <2>6, <2>7, Proceeds DEF AtWorkInv
  <2>9. QED
    BY <2>1, <2>3, <2>4, <2>5, <2>8, Quietly DEF ProcInv
<1>7. QED
  BY <1>5, <1>6

(* The hand-over to the background: the lock is held all the time.         *)
LEMMA BackgroundKeeps ==
  ASSUME CaInv, NEW p \in Procs, Background(p)
  PROVE  CaInv'
<1>1. Running(p) /\ Head(todo[p]).do = "background"
  BY DEF Background, Now
<1>2. PICK k, l \in Know : Leads(k, Head(todo[p]), l) /\ Typed(Tail(todo[p]), l) /\ Meaning(p, k)
  BY <1>1, OwnFacts DEF Running
<1>3. Tail(todo[p]) \in Seq(StepSet) /\ Ends(Tail(todo[p]))
  BY <1>1, OwnFacts DEF Running
<1>4. ~k.marked /\ l = K(k.held, k.dir, k.ca, FALSE, 0)
  BY <1>1, <1>2 DEF Leads, LeadsAnywhere, LeadsUnmarked, LeadsInside
<1>5. /\ todo' = [todo EXCEPT ![p] = Tail(todo[p])] /\ passed' = [passed EXCEPT ![p] = <<ca[p], lockfile[p]>>]
      /\ ca' = [ca EXCEPT ![p] = NoCA] /\ lockfile' = [lockfile EXCEPT ![p] = NoCA]
      /\ number' = [number EXCEPT ![p] = 0]
      /\ UNCHANGED <<dirs, lock, status, cwd, renewed>>
  BY DEF Background, Done, readVars, CaInv, DataTypes
<1>6. DataTypes'
  <2>1. <<ca[p], lockfile[p]>> \in Passed
    BY DEF CaInv, DataTypes, Passed
  <2>2. QED
    BY <1>3, <1>5, <2>1 DEF CaInv, DataTypes, Places
<1>7. status[p] = "running" /\ AtWorkInv(p) /\ ProcInv(p) /\ passed[p] = <<>>
  BY <1>1 DEF Running, CaInv, ProcInv
<1>8. todo'[p] = Tail(todo[p]) /\ passed'[p] = <<ca[p], lockfile[p]>> /\ \A q \in Procs \ {p} : Same(q)
  BY <1>5 DEF CaInv, DataTypes, Same
<1>9. Held(p)' = Held(p) /\ Chosen(p)' = Chosen(p) /\ NoCrash' = NoCrash
  <2>1. /\ <<ca[p], lockfile[p]>> # <<>> /\ <<ca[p], lockfile[p]>>[1] = ca[p]
        /\ <<ca[p], lockfile[p]>>[2] = lockfile[p]
    OBVIOUS
  <2>2. QED
    BY <1>5, <1>7, <1>8, <2>1 DEF Held, Chosen, NoCrash
<1>10. Meaning(p, l)'
  BY <1>2, <1>4, <1>5, <1>9 DEF Meaning, K
<1>11. AtWorkInv(p)'
  BY <1>2, <1>3, <1>5, <1>7, <1>8, <1>9, <1>10, Proceeds DEF AtWorkInv
<1>12. QED
  BY <1>5, <1>6, <1>7, <1>8, <1>11, Quietly DEF ProcInv

(* The background part takes over what it was started with.               *)
LEMMA RestartKeeps ==
  ASSUME CaInv, NEW p \in Procs, Restart(p)
  PROVE  CaInv'
<1>1. status[p] = "running" /\ passed[p] # <<>> /\ passed[p] \in Places \X Places
  BY DEF Restart, CaInv, DataTypes, Passed
<1>2. PICK k \in Know : Typed(todo[p], k) /\ Meaning(p, k)
  BY <1>1, OwnFacts
<1>3. /\ ca' = [ca EXCEPT ![p] = passed[p][1]] /\ lockfile' = [lockfile EXCEPT ![p] = passed[p][2]]
      /\ passed' = [passed EXCEPT ![p] = <<>>]
      /\ UNCHANGED <<dirs, lock, todo, status, cwd, number, renewed>>
  BY DEF Restart, readVars
<1>4. passed[p][1] \in Places /\ passed[p][2] \in Places
  BY <1>1
<1>5. DataTypes'
  BY <1>3, <1>4 DEF CaInv, DataTypes, Passed
<1>6. /\ passed'[p] = <<>> /\ ca'[p] = passed[p][1] /\ lockfile'[p] = passed[p][2]
      /\ \A q \in Procs \ {p} : Same(q)
  BY <1>3 DEF CaInv, DataTypes, Same
<1>7. Held(p)' = Held(p) /\ Chosen(p)' = Chosen(p) /\ NoCrash' = NoCrash
  BY <1>1, <1>3, <1>6 DEF Held, Chosen, NoCrash
<1>8. Meaning(p, k)'
  BY <1>2, <1>3, <1>7 DEF Meaning, Dir
<1>9. AtWorkInv(p) /\ ProcInv(p)
  BY <1>1 DEF CaInv, ProcInv
<1>10. AtWorkInv(p)'
  BY <1>2, <1>3, <1>7, <1>8, <1>9, Proceeds DEF AtWorkInv
<1>11. QED
  BY <1>1, <1>3, <1>5, <1>6, <1>9, <1>10, Quietly DEF ProcInv

(* The end.                                                                *)
LEMMA ExitKeeps ==
  ASSUME CaInv, NEW p \in Procs, Exit(p)
  PROVE  CaInv'
<1>1. Running(p)
  BY DEF Exit, Now
<1>2. /\ status' = [status EXCEPT ![p] = "done"] /\ todo' = [todo EXCEPT ![p] = <<>>]
      /\ cwd' = [cwd EXCEPT ![p] = NoCA] /\ number' = [number EXCEPT ![p] = 0]
      /\ UNCHANGED <<dirs, lock, ca, lockfile, passed, renewed>>
  BY DEF Exit, readVars
<1>3. DataTypes'
  BY <1>2 DEF CaInv, DataTypes, Places
<1>4. /\ status'[p] = "done" /\ todo'[p] = <<>> /\ cwd'[p] = NoCA /\ passed'[p] = <<>>
      /\ \A q \in Procs \ {p} : Same(q) /\ status'[q] = status[q]
  BY <1>1, <1>2 DEF CaInv, DataTypes, Same, Running
<1>5. NoCrash' => NoCrash
  BY <1>1, <1>4 DEF NoCrash, Running
<1>6. ProcInv(p)'
  BY <1>4 DEF ProcInv
<1>7. \A c \in CAs : DirInv(c)'
  BY <1>2 DEF CaInv, DirInv
<1>8. MarkUnderLock'
  <2>1. MarkUnderLock
    BY DEF CaInv
  <2>2. QED
    BY <1>2, <1>5, <2>1 DEF MarkUnderLock, NoCrash
<1>9. \A q \in Procs : cwd'[q] # NoCA => dirs'[cwd'[q]].state # "absent"
  BY <1>2, <1>4 DEF Same, CaInv, ProcInv
<1>10. \A q \in Procs \ {p} : Spared(q)
  BY <1>2 DEF CaInv, ProcInv, AtWorkInv, Mild, Spared
<1>11. QED
  BY <1>3, <1>4, <1>5, <1>6, <1>7, <1>8, <1>9, <1>10, Concludes

(* The beginning of any command line.                                      *)
LEMMA StartsKeeps ==
  ASSUME CaInv, NEW p \in Procs, Starts(p)
  PROVE  CaInv'
<1>1. PICK job \in Jobs :
        /\ status[p] = "new" /\ status' = [status EXCEPT ![p] = "running"]
        /\ todo' = [todo EXCEPT ![p] = job \o Ending]
        /\ UNCHANGED <<dirs, lock, ca, lockfile, cwd, number, passed, renewed>>
  BY DEF Starts, readVars
<1>2. ProcInv(p) /\ job \in Seq(StepSet) /\ Typed(job, Nothing) /\ Nothing \in Know
  BY JobTyped, Kinds DEF CaInv
<1>3. PICK l \in Know : Chain(job, Nothing, l)
  BY <1>2 DEF Typed
<1>4. Ending \in Seq(StepSet) /\ Typed(Ending, l) /\ Len(Ending) = 3 /\ Ending[3].do = "exit"
  BY EndingTyped
<1>5. Ends(Ending)
  <2>1. Len(Ending) # 0 /\ Ending # <<>>
    BY <1>4
  <2>2. QED
    BY <1>4, <2>1 DEF Ends
<1> DEFINE u == job \o Ending
<1>6. u \in Seq(StepSet) /\ Typed(u, Nothing) /\ Ends(u)
  BY <1>2, <1>3, <1>4, <1>5, Prepends
<1> HIDE DEF u
<1>7. todo' = [todo EXCEPT ![p] = u]
  BY <1>1 DEF u
<1>8. DataTypes'
  BY <1>1, <1>6, <1>7 DEF CaInv, DataTypes
<1>9. /\ status'[p] = "running" /\ todo'[p] = u
      /\ \A q \in Procs \ {p} : Same(q) /\ status'[q] = status[q]
  BY <1>1, <1>7 DEF CaInv, DataTypes, Same
<1>10. NoCrash' => NoCrash
  BY <1>1, <1>9 DEF NoCrash
<1>11. Held(p)' = NoCA /\ cwd'[p] = NoCA
  BY <1>1, <1>2 DEF Held, ProcInv
<1>12. Meaning(p, Nothing)'
  BY <1>11 DEF Meaning, Nothing, K
<1>13. AtWorkInv(p)'
  BY <1>2, <1>6, <1>9, <1>11, <1>12, Proceeds
<1>14. ProcInv(p)'
  BY <1>9, <1>11, <1>13 DEF ProcInv
<1>15. \A c \in CAs : DirInv(c)'
  BY <1>1 DEF CaInv, DirInv
<1>16. MarkUnderLock'
  <2>1. MarkUnderLock
    BY DEF CaInv
  <2>2. QED
    BY <1>1, <1>10, <2>1 DEF MarkUnderLock, NoCrash
<1>17. \A q \in Procs : cwd'[q] # NoCA => dirs'[cwd'[q]].state # "absent"
  BY <1>1, <1>11 DEF CaInv, ProcInv
<1>18. \A q \in Procs \ {p} : Spared(q)
  BY <1>1 DEF CaInv, ProcInv, AtWorkInv, Mild, Spared
<1>19. QED
  BY <1>8, <1>9, <1>10, <1>14, <1>15, <1>16, <1>17, <1>18, Concludes

-----------------------------------------------------------------------------
(* A step that changes locks and leaves the directories alone.             *)
LEMMA LockingKeeps ==
  ASSUME CaInv, NEW p \in Procs, status[p] = "running", DataTypes',
         UNCHANGED <<dirs, status, cwd, renewed>>, \A q \in Procs \ {p} : Same(q),
         \A q \in Procs \ {p} : status[q] = "running" /\ Held(q) # NoCA => lock'[Held(q)] = q,
         \A c \in CAs : NoCrash /\ dirs[c].mark # 0 /\ lock[c] # NoProc => lock'[c] # NoProc,
         AtWorkInv(p)'
  PROVE  CaInv'
<1>1. \A c \in CAs : DirInv(c)'
  BY DEF CaInv, DirInv
<1>2. MarkUnderLock'
  BY DEF CaInv, MarkUnderLock, NoCrash
<1>3. \A q \in Procs \ {p} : Spared(q)
  BY DEF Mild, Spared
<1>4. ProcInv(p)' /\ (NoCrash' => NoCrash)
  <2>1. ProcInv(p)
    BY DEF CaInv
  <2>2. QED
    BY <2>1 DEF ProcInv, NoCrash
<1>5. \A q \in Procs : cwd'[q] # NoCA => dirs'[cwd'[q]].state # "absent"
  BY DEF CaInv, ProcInv
<1>6. QED
  BY <1>1, <1>2, <1>3, <1>4, <1>5, Concludes

(* A lock is given up only when no mark is there, and it is the own one.   *)
LEMMA UnlockKeeps ==
  ASSUME CaInv, NEW p \in Procs, Unlock(p)
  PROVE  CaInv'
<1>1. Running(p) /\ Head(todo[p]).do = "unlock"
  BY DEF Unlock, Now
<1>2. PICK k, l \in Know : Leads(k, Head(todo[p]), l) /\ Typed(Tail(todo[p]), l) /\ Meaning(p, k)
  BY <1>1, OwnFacts DEF Running
<1>3. Tail(todo[p]) \in Seq(StepSet) /\ Ends(Tail(todo[p])) /\ AtWorkInv(p)
  BY <1>1, OwnFacts DEF Running
<1>4. ~k.marked /\ l = K(NoCA, k.dir, k.ca, FALSE, 0)
  BY <1>1, <1>2 DEF Leads, LeadsAnywhere, LeadsUnmarked, LeadsInside
<1>5. /\ todo' = [todo EXCEPT ![p] = Tail(todo[p])]
      /\ lock' = [c \in CAs |-> IF lockfile[p] = c THEN NoProc ELSE lock[c]]
      /\ lockfile' = [lockfile EXCEPT ![p] = NoCA]
      /\ UNCHANGED <<dirs, status, ca, cwd, number, passed, renewed>>
  BY DEF Unlock, Done, readVars, CaInv, DataTypes
<1>6. DataTypes'
  BY <1>3, <1>5 DEF CaInv, DataTypes, Places, Owners
<1>7. status[p] = "running" /\ Held(p) = lockfile[p] /\ passed[p] = <<>>
  BY <1>1 DEF Running, Held
<1>8. todo'[p] = Tail(todo[p]) /\ lockfile'[p] = NoCA /\ \A q \in Procs \ {p} : Same(q)
  BY <1>5 DEF CaInv, DataTypes, Same
<1>9. Held(p)' = NoCA /\ Chosen(p)' = Chosen(p)
  BY <1>5, <1>7, <1>8 DEF Held, Chosen
<1>10. Meaning(p, l)'
  BY <1>2, <1>4, <1>5, <1>9 DEF Meaning, K
<1>11. AtWorkInv(p)'
  BY <1>2, <1>3, <1>8, <1>9, <1>10, Proceeds
<1>12. ASSUME NEW q \in Procs \ {p}, status[q] = "running", Held(q) # NoCA
       PROVE  lock'[Held(q)] = q
  <2>1. lock[Held(q)] = q /\ Held(q) \in CAs
    <3>1. passed[q] \in Passed /\ lockfile[q] \in Places
      BY DEF CaInv, DataTypes
    <3>2. Held(q) \in Places
      BY <3>1 DEF Held, Passed, Places
    <3>3. QED
      BY <1>12, <3>2 DEF CaInv, ProcInv, AtWorkInv, Places
  <2>2. lockfile[p] # Held(q)
    BY <1>3, <1>7, <1>12, <2>1 DEF AtWorkInv
  <2>3. QED
    BY <1>5, <2>1, <2>2
<1>13. ASSUME NEW c \in CAs, NoCrash, dirs[c].mark # 0, lock[c] # NoProc
       PROVE  lock'[c] # NoProc
  <2>1. lockfile[p] # c
    BY <1>2, <1>4, <1>7, <1>13, CaAssumption DEF Meaning
  <2>2. QED
    BY <1>5, <1>13, <2>1
<1>14. QED
  BY <1>5, <1>6, <1>7, <1>8, <1>11, <1>12, <1>13, LockingKeeps

(* Under the lock of a CA that was free there is no mark.                  *)
LEMMA LockKeeps ==
  ASSUME CaInv, NEW p \in Procs, Lock(p)
  PROVE  CaInv'
<1>1. Running(p) /\ Head(todo[p]).do = "lock"
  BY DEF Lock, Now
<1>2. PICK k, l \in Know : Leads(k, Head(todo[p]), l) /\ Typed(Tail(todo[p]), l) /\ Meaning(p, k)
  BY <1>1, OwnFacts DEF Running
<1>3. Tail(todo[p]) \in Seq(StepSet) /\ Ends(Tail(todo[p])) /\ AtWorkInv(p)
  BY <1>1, OwnFacts DEF Running
<1>4. ~k.marked /\ Arg(p) \in CAs /\ l = K(Arg(p), k.dir, NoCA, FALSE, 0)
  BY <1>1, <1>2 DEF Leads, LeadsAnywhere, LeadsUnmarked, LeadsInside, Arg
<1>5. /\ todo' = [todo EXCEPT ![p] = Tail(todo[p])]
      /\ lock[Arg(p)] = NoProc /\ lock' = [lock EXCEPT ![Arg(p)] = p]
      /\ lockfile' = [lockfile EXCEPT ![p] = Arg(p)]
      /\ UNCHANGED <<dirs, status, ca, cwd, number, passed, renewed>>
  BY DEF Lock, Done, readVars, CaInv, DataTypes
<1>6. DataTypes'
  BY <1>3, <1>4, <1>5 DEF CaInv, DataTypes, Places, Owners
<1>7. status[p] = "running" /\ passed[p] = <<>>
  BY <1>1 DEF Running
<1>8. /\ todo'[p] = Tail(todo[p]) /\ lockfile'[p] = Arg(p) /\ lock'[Arg(p)] = p
      /\ \A q \in Procs \ {p} : Same(q)
  BY <1>4, <1>5 DEF CaInv, DataTypes, Same
<1>9. Held(p)' = Arg(p) /\ Chosen(p)' = Chosen(p) /\ NoCrash' = NoCrash
  BY <1>5, <1>7, <1>8 DEF Held, Chosen, NoCrash
<1>10. NoCrash => dirs[Arg(p)].mark = 0
  BY <1>4, <1>5 DEF CaInv, MarkUnderLock, NoCrash
<1>11. Meaning(p, l)'
  BY <1>2, <1>4, <1>5, <1>9, <1>10 DEF Meaning, K
<1>12. AtWorkInv(p)'
  BY <1>2, <1>3, <1>8, <1>9, <1>11, Proceeds
<1>13. ASSUME NEW q \in Procs \ {p}, status[q] = "running", Held(q) # NoCA
       PROVE  lock'[Held(q)] = q
  <2>1. lock[Held(q)] = q
    BY <1>13 DEF CaInv, ProcInv, AtWorkInv
  <2>2. Held(q) # Arg(p)
    BY <1>5, <2>1, CaAssumption
  <2>3. QED
    BY <1>5, <2>1, <2>2 DEF CaInv, DataTypes
<1>14. \A c \in CAs : lock[c] # NoProc => lock'[c] # NoProc
  BY <1>5 DEF CaInv, DataTypes
<1>15. QED
  BY <1>5, <1>6, <1>7, <1>8, <1>12, <1>13, <1>14, LockingKeeps

-----------------------------------------------------------------------------
(* The directories.  A step that changes one of them, which p has locked   *)
(* unless the change is mild, and no lock.                                 *)
LEMMA WritesKeeps ==
  ASSUME CaInv, NEW p \in Procs, Running(p), DataTypes',
         NEW c \in CAs, \A b \in CAs \ {c} : dirs'[b] = dirs[b],
         UNCHANGED <<lock, status, lockfile, passed>>, \A q \in Procs \ {p} : Same(q),
         Mild(c) \/ Held(p) = c,
         \A q \in Procs : cwd'[q] # NoCA => dirs'[cwd'[q]].state # "absent",
         dirs'[c].mark # 0 /\ NoCrash => lock[c] # NoProc,
         \A b \in CAs \ {c} : b \in renewed => b \in renewed', DirInv(c)',
         NEW l \in Know, todo'[p] = Tail(todo[p]), Typed(Tail(todo[p]), l), Meaning(p, l)',
         Head(todo[p]).do # "exit"
  PROVE  CaInv'
<1>1. status[p] = "running" /\ AtWorkInv(p) /\ Ends(Tail(todo[p])) /\ ProcInv(p)
  BY OwnFacts DEF Running, CaInv
<1>2. Held(p)' = Held(p) /\ NoCrash' = NoCrash
  BY DEF Held, NoCrash
<1>3. AtWorkInv(p)'
  BY <1>1, <1>2, Proceeds DEF AtWorkInv
<1>4. ProcInv(p)'
  BY <1>1, <1>3 DEF ProcInv
<1>5. ASSUME NEW b \in CAs PROVE DirInv(b)'
  <2>1. CASE b # c
    <3>1. DirInv(b)
      BY DEF CaInv
    <3>2. QED
      BY <2>1, <3>1 DEF DirInv
  <2>2. QED
    BY <2>1
<1>6. MarkUnderLock'
  <2>1. MarkUnderLock
    BY DEF CaInv
  <2>2. QED
    BY <2>1 DEF MarkUnderLock, NoCrash
<1>7. ASSUME NEW q \in Procs \ {p} PROVE Spared(q)
  <2>1. SUFFICES ASSUME status[q] = "running", Held(q) # NoCA PROVE lock'[Held(q)] = q /\ Mild(Held(q))
    BY DEF Spared
  <2>2. lock[Held(q)] = q
    BY <2>1 DEF CaInv, ProcInv, AtWorkInv
  <2>3. Held(q) \in CAs
    <3>1. passed[q] \in Passed /\ lockfile[q] \in Places
      BY DEF CaInv, DataTypes
    <3>2. Held(q) \in Places
      BY <3>1 DEF Held, Passed, Places
    <3>3. QED
      BY <2>1, <3>2 DEF Places
  <2>4. CASE Held(q) # c
    BY <2>2, <2>3, <2>4 DEF Mild
  <2>5. CASE Held(q) = c
    <3>1. Held(p) # c
      BY <1>1, <2>2, <2>3, <2>5, CaAssumption DEF AtWorkInv
    <3>2. QED
      BY <2>2, <2>5, <3>1
  <2>6. QED
    BY <2>4, <2>5
<1>8. QED
  BY <1>2, <1>4, <1>5, <1>6, <1>7, Concludes

(* A step in the CA that p has locked and is in.                           *)
LEMMA WorkKeeps ==
  ASSUME CaInv, NEW p \in Procs, Running(p), NEW k \in Know, AtWork(k), Meaning(p, k),
         NEW l \in Know, Typed(Tail(todo[p]), l), Head(todo[p]).do # "exit",
         NEW d \in Directory, Inside(p), dirs' = [dirs EXCEPT ![cwd[p]] = d], d.state = Dir(p).state, Done(p),
         UNCHANGED <<lock, status, ca, lockfile, cwd, number, passed, renewed>>,
         DirInv(cwd[p])', Meaning(p, l)'
  PROVE  CaInv'
<1> DEFINE c == cwd[p]
<1>1. c \in CAs /\ Held(p) = c
  BY DEF CaInv, DataTypes, Inside, AtWork, Meaning, Places
<1>2. Tail(todo[p]) \in Seq(StepSet) /\ AtWorkInv(p) /\ todo' = [todo EXCEPT ![p] = Tail(todo[p])]
  BY OwnFacts DEF Running, Done, CaInv, DataTypes
<1>3. DataTypes'
  BY <1>1, <1>2 DEF CaInv, DataTypes
<1>4. todo'[p] = Tail(todo[p]) /\ \A q \in Procs \ {p} : Same(q)
  BY <1>2 DEF CaInv, DataTypes, Same
<1>5. dirs'[c] = d /\ \A b \in CAs \ {c} : dirs'[b] = dirs[b]
  BY <1>1 DEF CaInv, DataTypes
<1>6. lock[c] # NoProc
  BY <1>1, <1>2, CaAssumption DEF AtWorkInv, Inside
<1>7. ASSUME NEW q \in Procs, cwd'[q] # NoCA PROVE dirs'[cwd'[q]].state # "absent"
  <2>1. cwd[q] \in CAs /\ dirs[cwd[q]].state # "absent"
    BY <1>7 DEF CaInv, ProcInv, DataTypes, Places
  <2>2. QED
    BY <1>5, <2>1 DEF Dir
<1>8. QED
  BY <1>1, <1>3, <1>4, <1>5, <1>6, <1>7, WritesKeeps

(* The mark, the root and the revocations: nothing about certificates.     *)
LEMMA PlainWorkKeeps ==
  ASSUME CaInv, NEW p \in Procs, Running(p), NEW k \in Know, AtWork(k), Meaning(p, k),
         NEW m \in BOOLEAN, NEW l \in Know, l = K(k.held, k.held, k.held, m, k.num),
         Typed(Tail(todo[p]), l), Head(todo[p]).do # "exit",
         NEW may \in BOOLEAN, NEW d, InDir(p, may, d), may => Inside(p),
         Inside(p) => /\ d \in Directory /\ d.state = Dir(p).state /\ d.index = Dir(p).index
                      /\ d.serial = Dir(p).serial /\ d.notes = Dir(p).notes
                      /\ d.keys = Dir(p).keys /\ d.certs = Dir(p).certs
                      /\ m \/ d.mark = 0 \/ (k.marked = m /\ d.mark = Dir(p).mark)
  PROVE  CaInv'
<1>1. CASE Fails(p)
  BY <1>1, FailsKeeps
<1>2. CASE ~Fails(p)
  <2>1. /\ Inside(p) /\ Done(p) /\ dirs' = [dirs EXCEPT ![cwd[p]] = d]
        /\ UNCHANGED <<lock, status, ca, lockfile, cwd, number, passed, renewed>>
    BY <1>2 DEF InDir, readVars
  <2> DEFINE c == cwd[p]
  <2>2. c \in CAs /\ Held(p) = c /\ k.held = c /\ DirInv(c)
    BY <2>1 DEF CaInv, DataTypes, Inside, AtWork, Meaning, Places
  <2>3. dirs'[c] = d
    BY <2>1, <2>2 DEF CaInv, DataTypes
  <2>4. DirInv(c)'
    <3>1. DirInv(c)' <=> DirInv(c)
      BY <2>1, <2>2, <2>3 DEF DirInv, Dir
    <3>2. QED
      BY <2>2, <3>1
  <2>5. Held(p)' = c /\ Chosen(p)' = c /\ NoCrash' = NoCrash
    BY <2>1, <2>2 DEF Held, Chosen, NoCrash, Meaning, AtWork
  <2>6. NoCrash /\ ~m => d.mark = 0
    BY <2>1, <2>2 DEF Meaning, Dir, Inside
  <2>7. k.num > 0 =>
          /\ number[p] # 0 /\ (number[p] = d.serial \/ d.serial \in d.index)
          /\ k.num > 1 => number[p] \in d.notes
          /\ k.num > 2 => number[p] \in DOMAIN d.keys
    BY <2>1 DEF Meaning, Inside
  <2>8. Meaning(p, l)'
    BY <2>1, <2>2, <2>3, <2>5, <2>6, <2>7 DEF Meaning, K, Dir, AtWork
  <2>9. QED
    BY <2>1, <2>4, <2>8, WorkKeeps
<1>3. QED
  BY <1>1, <1>2

(* The file generating.                                                    *)
LEMMA MarkKeeps ==
  ASSUME CaInv, NEW p \in Procs, Mark(p) \/ Unmark(p)
  PROVE  CaInv'
<1>1. Running(p) /\ Head(todo[p]).do \in {"mark-root", "mark-dh", "mark", "unmark"}
  BY DEF Mark, Unmark, Now
<1>2. PICK k, l \in Know : Leads(k, Head(todo[p]), l) /\ Typed(Tail(todo[p]), l) /\ Meaning(p, k)
  BY <1>1, OwnFacts DEF Running
<1>3. Inside(p) => Dir(p) \in Directory
  BY DEF Inside, Dir, CaInv, DataTypes, Places
<1>4. CASE Unmark(p)
  <2> DEFINE d == [Dir(p) EXCEPT !.mark = 0]
             may == Inside(p) /\ Dir(p).mark # 0
  <2>1. Head(todo[p]).do = "unmark" /\ InDir(p, may, d)
    BY <1>4 DEF Unmark, Now
  <2>2. AtWork(k) /\ l = K(k.held, k.held, k.held, FALSE, k.num)
    BY <1>2, <2>1 DEF Leads, LeadsAnywhere, LeadsUnmarked, LeadsInside
  <2>3. Inside(p) => /\ d \in Directory /\ d.state = Dir(p).state /\ d.index = Dir(p).index
                     /\ d.serial = Dir(p).serial /\ d.notes = Dir(p).notes
                     /\ d.keys = Dir(p).keys /\ d.certs = Dir(p).certs /\ d.mark = 0
    BY <1>3 DEF Directory, Marks
  <2>4. may \in BOOLEAN /\ (may => Inside(p))
    BY DEF Inside
  <2> HIDE DEF d, may
  <2>5. QED
    BY <1>1, <1>2, <2>1, <2>2, <2>3, <2>4, PlainWorkKeeps
<1>5. CASE Mark(p)
  <2>1. PICK n \in Marks : /\ InDir(p, Inside(p), [Dir(p) EXCEPT !.mark = n])
                           /\ Head(todo[p]).do \in {"mark-root", "mark-dh", "mark"}
    BY <1>5 DEF Mark, Now, Marks, CaInv, DataTypes
  <2> DEFINE d == [Dir(p) EXCEPT !.mark = n]
  <2>2. AtWork(k) /\ l = K(k.held, k.held, k.held, TRUE, k.num)
    BY <1>2, <2>1 DEF Leads, LeadsAnywhere, LeadsUnmarked, LeadsInside
  <2>3. Inside(p) => /\ d \in Directory /\ d.state = Dir(p).state /\ d.index = Dir(p).index
                     /\ d.serial = Dir(p).serial /\ d.notes = Dir(p).notes
                     /\ d.keys = Dir(p).keys /\ d.certs = Dir(p).certs
    BY <1>3 DEF Directory
  <2>4. Inside(p) \in BOOLEAN
    BY DEF Inside
  <2> HIDE DEF d
  <2>5. InDir(p, Inside(p), d)
    BY <2>1 DEF d
  <2>6. QED
    BY <1>1, <1>2, <2>1, <2>2, <2>3, <2>4, <2>5, PlainWorkKeeps
<1>6. QED
  BY <1>4, <1>5

(* The root, and a revocation.                                             *)
LEMMA OpensslKeeps ==
  ASSUME CaInv, NEW p \in Procs, MakeRoot(p) \/ Revoke(p)
  PROVE  CaInv'
<1>1. Running(p) /\ Head(todo[p]).do \in {"make-root", "openssl-revoke"}
  BY DEF MakeRoot, Revoke, Now
<1>2. PICK k, l \in Know : Leads(k, Head(todo[p]), l) /\ Typed(Tail(todo[p]), l) /\ Meaning(p, k)
  BY <1>1, OwnFacts DEF Running
<1>3. AtWork(k) /\ l = k
  BY <1>1, <1>2 DEF Leads, LeadsAnywhere, LeadsUnmarked, LeadsInside
<1>4. l = K(k.held, k.held, k.held, k.marked, k.num) /\ k.marked \in BOOLEAN
  BY <1>3 DEF AtWork, K, Know
<1>5. Inside(p) => Dir(p) \in Directory
  BY DEF Inside, Dir, CaInv, DataTypes, Places
<1>6. CASE MakeRoot(p)
  <2> DEFINE d == [Dir(p) EXCEPT !.root = TRUE]
  <2>1. Inside(p) => /\ d \in Directory /\ d.state = Dir(p).state /\ d.index = Dir(p).index
                     /\ d.serial = Dir(p).serial /\ d.notes = Dir(p).notes
                     /\ d.keys = Dir(p).keys /\ d.certs = Dir(p).certs /\ d.mark = Dir(p).mark
    BY <1>5 DEF Directory
  <2>2. InDir(p, Inside(p), d) /\ Inside(p) \in BOOLEAN
    BY <1>6 DEF MakeRoot, Inside
  <2> HIDE DEF d
  <2>3. QED
    BY <1>1, <1>2, <1>3, <1>4, <2>1, <2>2, PlainWorkKeeps
<1>7. CASE Revoke(p)
  <2> DEFINE d == [Dir(p) EXCEPT !.revoked = @ \union {1}]
             may == Inside(p) /\ 1 \in Dir(p).index
  <2>1. Inside(p) => /\ d \in Directory /\ d.state = Dir(p).state /\ d.index = Dir(p).index
                     /\ d.serial = Dir(p).serial /\ d.notes = Dir(p).notes
                     /\ d.keys = Dir(p).keys /\ d.certs = Dir(p).certs /\ d.mark = Dir(p).mark
    BY <1>5 DEF Directory
  <2>2. InDir(p, may, d) /\ may \in BOOLEAN /\ (may => Inside(p))
    BY <1>7 DEF Revoke, Inside
  <2> HIDE DEF d, may
  <2>3. QED
    BY <1>1, <1>2, <1>3, <1>4, <2>1, <2>2, PlainWorkKeeps
<1>8. QED
  BY <1>6, <1>7

(* The keys or the certificates after one more.                            *)
LEMMA OneMore ==
  ASSUME NEW n \in Nat, NEW o \in Owners, NEW f \in Maps
  PROVE  /\ Put(f, n, o) \in Maps /\ DOMAIN Put(f, n, o) = DOMAIN f \union {n}
         /\ Put(f, n, o)[n] = o
         /\ \A i \in DOMAIN f \ {n} : Put(f, n, o)[i] = f[i]
<1>1. PICK D \in SUBSET Nat : f \in [D -> Owners]
  BY DEF Maps
<1> DEFINE g == Put(f, n, o)
<1>2. g = [i \in D \union {n} |-> IF i = n THEN o ELSE f[i]]
  BY <1>1 DEF Put
<1> HIDE DEF g
<1>3. g \in [D \union {n} -> Owners] /\ D \union {n} \in SUBSET Nat
  BY <1>1, <1>2
<1>4. g \in Maps
  BY <1>3 DEF Maps
<1>5. QED
  BY <1>1, <1>2, <1>4 DEF g

(* What is known of a certificate in the making.                           *)
LEMMA InTheMaking ==
  ASSUME CaInv, NEW p \in Procs, Running(p), Inside(p), NEW k \in Know, AtWork(k), Meaning(p, k)
  PROVE  /\ cwd[p] \in CAs /\ Dir(p) \in Directory /\ DirInv(cwd[p]) /\ number[p] \in Nat
         /\ Held(p) = cwd[p] /\ k.held = cwd[p] /\ Chosen(p) = cwd[p]
         /\ NoCrash /\ ~k.marked => Dir(p).mark = 0
         /\ k.num > 0 =>
              /\ number[p] # 0 /\ (number[p] = Dir(p).serial \/ Dir(p).serial \in Dir(p).index)
              /\ k.num > 1 => number[p] \in Dir(p).notes
              /\ k.num > 2 => number[p] \in DOMAIN Dir(p).keys
<1>1. cwd[p] \in CAs /\ number[p] \in Nat
  BY DEF CaInv, DataTypes, Inside, Places
<1>2. Dir(p) \in Directory /\ DirInv(cwd[p])
  BY <1>1 DEF CaInv, DataTypes, Dir
<1>3. Held(p) = cwd[p] /\ k.held = cwd[p] /\ Chosen(p) = cwd[p]
  BY DEF AtWork, Meaning, Inside
<1>4. NoCrash /\ ~k.marked => Dir(p).mark = 0
  BY <1>3 DEF Meaning, Inside, Dir
<1>5. QED
  BY <1>1, <1>2, <1>3, <1>4 DEF Meaning, Inside

(* The note of a new certificate.                                          *)
LEMMA WriteNoteKeeps ==
  ASSUME CaInv, NEW p \in Procs, WriteNote(p)
  PROVE  CaInv'
<1>1. Running(p) /\ Head(todo[p]).do = "note"
  BY DEF WriteNote, Now
<1>2. PICK k, l \in Know : Leads(k, Head(todo[p]), l) /\ Typed(Tail(todo[p]), l) /\ Meaning(p, k)
  BY <1>1, OwnFacts DEF Running
<1>3. AtWork(k) /\ k.num = 1 /\ l = K(k.held, k.held, k.held, k.marked, 2)
  BY <1>1, <1>2 DEF Leads, LeadsAnywhere, LeadsUnmarked, LeadsInside
<1>4. CASE Fails(p)
  BY <1>1, <1>4, FailsKeeps
<1>5. CASE ~Fails(p)
  <2> DEFINE c == cwd[p]
             d == [Dir(p) EXCEPT !.notes = @ \union {number[p]}]
  <2>1. /\ Inside(p) /\ Done(p) /\ dirs' = [dirs EXCEPT ![c] = d]
        /\ UNCHANGED <<lock, status, ca, lockfile, cwd, number, passed, renewed>>
    BY <1>5 DEF WriteNote, InDir, readVars
  <2>2. /\ c \in CAs /\ Dir(p) \in Directory /\ DirInv(c) /\ number[p] \in Nat
        /\ Held(p) = c /\ k.held = c /\ Chosen(p) = c /\ (NoCrash /\ ~k.marked => Dir(p).mark = 0)
        /\ number[p] # 0 /\ (number[p] = Dir(p).serial \/ Dir(p).serial \in Dir(p).index)
    BY <1>1, <1>2, <1>3, <2>1, InTheMaking
  <2>3. /\ d \in Directory /\ d.state = Dir(p).state /\ d.index = Dir(p).index
        /\ d.serial = Dir(p).serial /\ d.notes = Dir(p).notes \union {number[p]}
        /\ d.keys = Dir(p).keys /\ d.certs = Dir(p).certs /\ d.mark = Dir(p).mark
    BY <2>2 DEF Directory
  <2> HIDE DEF d
  <2>4. dirs'[c] = d
    BY <2>1, <2>2 DEF CaInv, DataTypes
  <2>5. DirInv(c)'
    BY <2>1, <2>2, <2>3, <2>4 DEF DirInv, Dir
  <2>6. Held(p)' = c /\ Chosen(p)' = c /\ NoCrash' = NoCrash
    BY <2>1, <2>2 DEF Held, Chosen, NoCrash
  <2>7. Meaning(p, l)'
    <3>1. k.marked => c # NoCA
      BY <2>1 DEF Inside
    <3>2. QED
      BY <1>3, <2>1, <2>2, <2>3, <2>4, <2>6, <3>1 DEF Meaning, K, Dir, Inside
  <2>8. QED
    BY <1>1, <1>2, <1>3, <2>1, <2>3, <2>5, <2>7, WorkKeeps
<1>6. QED
  BY <1>4, <1>5

(* Its key: one that is made again is not the key of a certificate.        *)
LEMMA RequestKeeps ==
  ASSUME CaInv, NEW p \in Procs, Request(p)
  PROVE  CaInv'
<1>1. Running(p) /\ Head(todo[p]).do = "request"
  BY DEF Request, Now
<1>2. PICK k, l \in Know : Leads(k, Head(todo[p]), l) /\ Typed(Tail(todo[p]), l) /\ Meaning(p, k)
  BY <1>1, OwnFacts DEF Running
<1>3. AtWork(k) /\ k.num = 2 /\ l = K(k.held, k.held, k.held, k.marked, 3)
  BY <1>1, <1>2 DEF Leads, LeadsAnywhere, LeadsUnmarked, LeadsInside
<1>4. CASE Fails(p)
  BY <1>1, <1>4, FailsKeeps
<1>5. CASE ~Fails(p)
  <2> DEFINE c == cwd[p]
             n == number[p]
             d == [Dir(p) EXCEPT !.keys = Put(@, number[p], p)]
  <2>1. /\ Inside(p) /\ Done(p) /\ dirs' = [dirs EXCEPT ![c] = d]
        /\ UNCHANGED <<lock, status, ca, lockfile, cwd, number, passed, renewed>>
    BY <1>5 DEF Request, InDir, readVars
  <2>2. /\ c \in CAs /\ Dir(p) \in Directory /\ DirInv(c) /\ n \in Nat
        /\ Held(p) = c /\ k.held = c /\ Chosen(p) = c /\ (NoCrash /\ ~k.marked => Dir(p).mark = 0)
        /\ n # 0 /\ (n = Dir(p).serial \/ Dir(p).serial \in Dir(p).index)
        /\ n \in Dir(p).notes
    BY <1>1, <1>2, <1>3, <2>1, InTheMaking
  <2>3. Dir(p).keys \in Maps /\ p \in Owners
    BY <2>2 DEF Directory, Owners
  <2>4. /\ Put(Dir(p).keys, n, p) \in Maps /\ DOMAIN Put(Dir(p).keys, n, p) = DOMAIN Dir(p).keys \union {n}
        /\ \A i \in DOMAIN Dir(p).keys \ {n} : Put(Dir(p).keys, n, p)[i] = Dir(p).keys[i]
    <3> HIDE DEF n
    <3>1. n \in Nat
      BY <2>2
    <3>2. QED
      BY <2>3, <3>1, OneMore
  <2>5. /\ d \in Directory /\ d.state = Dir(p).state /\ d.index = Dir(p).index
        /\ d.serial = Dir(p).serial /\ d.notes = Dir(p).notes
        /\ d.keys = Put(Dir(p).keys, n, p) /\ d.certs = Dir(p).certs /\ d.mark = Dir(p).mark
    BY <2>2, <2>4 DEF Directory
  <2> HIDE DEF d
  <2>6. dirs'[c] = d
    BY <2>1, <2>2 DEF CaInv, DataTypes
  <2>7. DirInv(c)'
    <3>1. c \notin renewed => n \notin Dir(p).index
      <4>1. c \notin renewed => \A i \in Dir(p).index : i < Dir(p).serial
        BY <2>2 DEF DirInv, Dir
      <4>2. Dir(p).serial \in Nat /\ Dir(p).index \subseteq Nat
        BY <2>2 DEF Directory
      <4>3. c \notin renewed => n = Dir(p).serial
        BY <2>2, <4>1, <4>2
      <4>4. QED
        BY <4>1, <4>2, <4>3
    <3>2. QED
      BY <2>1, <2>2, <2>4, <2>5, <2>6, <3>1 DEF DirInv, Dir
  <2>8. Held(p)' = c /\ Chosen(p)' = c /\ NoCrash' = NoCrash
    BY <2>1, <2>2 DEF Held, Chosen, NoCrash
  <2>9. n \in DOMAIN d.keys
    BY <2>4, <2>5
  <2>10. Meaning(p, l)'
    <3>1. k.marked => c # NoCA
      BY <2>1 DEF Inside
    <3>2. QED
      BY <1>3, <2>1, <2>2, <2>5, <2>6, <2>8, <2>9, <3>1 DEF Meaning, K, Dir, Inside
  <2>11. QED
    BY <1>1, <1>2, <1>3, <2>1, <2>5, <2>7, <2>10, WorkKeeps
<1>6. QED
  BY <1>4, <1>5

(* openssl ca: it signs the number that was noted, or fails.               *)
LEMMA OpensslCaKeeps ==
  ASSUME CaInv, NEW p \in Procs, OpensslCa(p)
  PROVE  CaInv'
<1>1. Running(p) /\ Head(todo[p]).do = "sign"
  BY DEF OpensslCa, Now
<1>2. PICK k, l \in Know : Leads(k, Head(todo[p]), l) /\ Typed(Tail(todo[p]), l) /\ Meaning(p, k)
  BY <1>1, OwnFacts DEF Running
<1>3. AtWork(k) /\ k.num = 3 /\ l = K(k.held, k.held, k.held, k.marked, 0)
  BY <1>1, <1>2 DEF Leads, LeadsAnywhere, LeadsUnmarked, LeadsInside
<1>4. CASE Fails(p)
  BY <1>1, <1>4, FailsKeeps
<1>5. CASE ~Fails(p)
  <2> DEFINE c == cwd[p]
             n == Dir(p).serial
             files == Put(Dir(p).certs, number[p], Dir(p).keys[number[p]])
             d == [Dir(p) EXCEPT !.index = @ \union {Dir(p).serial}, !.serial = @ + 1,
                                 !.certs = Put(@, number[p], Dir(p).keys[number[p]])]
  <2>1. /\ Inside(p) /\ n \notin Dir(p).index \union {0} /\ Done(p) /\ dirs' = [dirs EXCEPT ![c] = d]
        /\ UNCHANGED <<lock, status, ca, lockfile, cwd, number, passed, renewed>>
    BY <1>5 DEF OpensslCa, InDir, readVars
  <2>2. /\ c \in CAs /\ Dir(p) \in Directory /\ DirInv(c) /\ number[p] = n
        /\ Held(p) = c /\ k.held = c /\ Chosen(p) = c /\ (NoCrash /\ ~k.marked => Dir(p).mark = 0)
        /\ n \in Dir(p).notes /\ n \in DOMAIN Dir(p).keys
    BY <1>1, <1>2, <1>3, <2>1, InTheMaking
  <2>3. /\ n \in Nat \ {0} /\ Dir(p).keys \in Maps /\ Dir(p).certs \in Maps
        /\ Dir(p).index \in SUBSET (Nat \ {0})
    BY <2>1, <2>2 DEF Directory
  <2>4. Dir(p).keys[n] \in Owners
    BY <2>2, <2>3 DEF Maps
  <2>5. /\ files \in Maps /\ DOMAIN files = DOMAIN Dir(p).certs \union {n}
        /\ files[n] = Dir(p).keys[n]
        /\ \A i \in DOMAIN Dir(p).certs \ {n} : files[i] = Dir(p).certs[i]
    <3>1. files = Put(Dir(p).certs, n, Dir(p).keys[n]) /\ n \in Nat
      BY <2>2, <2>3
    <3> DEFINE certs == Dir(p).certs
               key == Dir(p).keys[n]
    <3>2. certs \in Maps /\ key \in Owners
      BY <2>3, <2>4
    <3> HIDE DEF n, files, certs, key
    <3>3. /\ Put(certs, n, key) \in Maps /\ DOMAIN Put(certs, n, key) = DOMAIN certs \union {n}
          /\ Put(certs, n, key)[n] = key
          /\ \A i \in DOMAIN certs \ {n} : Put(certs, n, key)[i] = certs[i]
      BY <3>1, <3>2, OneMore
    <3>4. QED
      BY <3>1, <3>3 DEF certs, key
  <2> HIDE DEF files
  <2>6. d = [Dir(p) EXCEPT !.index = @ \union {n}, !.serial = @ + 1, !.certs = files]
    BY <2>2 DEF files
  <2> HIDE DEF d
  <2>7. /\ d \in Directory /\ d.state = Dir(p).state /\ d.index = Dir(p).index \union {n}
        /\ d.serial = n + 1 /\ d.notes = Dir(p).notes
        /\ d.keys = Dir(p).keys /\ d.certs = files /\ d.mark = Dir(p).mark
    <3> DEFINE index == Dir(p).index \union {n}
               serial == n + 1
    <3>1. index \in SUBSET (Nat \ {0}) /\ serial \in Nat /\ files \in Maps
      BY <2>3, <2>5
    <3>2. d = [Dir(p) EXCEPT !.index = index, !.serial = serial, !.certs = files]
      BY <2>2, <2>6 DEF Directory
    <3> HIDE DEF index, serial
    <3>3. /\ d \in Directory /\ d.state = Dir(p).state /\ d.index = index
          /\ d.serial = serial /\ d.notes = Dir(p).notes
          /\ d.keys = Dir(p).keys /\ d.certs = files /\ d.mark = Dir(p).mark
      BY <2>2, <3>1, <3>2 DEF Directory
    <3>4. QED
      BY <3>3 DEF index, serial
  <2>8. dirs'[c] = d
    BY <2>1, <2>2 DEF CaInv, DataTypes
  <2>9. DirInv(c)'
    <3>1. /\ Dir(p).index \subseteq Dir(p).notes
          /\ \A i \in Dir(p).index : 1..i \subseteq Dir(p).index
          /\ 1..(n - 1) \subseteq Dir(p).index
          /\ c \notin renewed => \A i \in Dir(p).index :
               /\ i < n
               /\ i \in DOMAIN Dir(p).keys /\ i \in DOMAIN Dir(p).certs
               /\ Dir(p).certs[i] = Dir(p).keys[i]
      BY <2>1, <2>2, <2>3 DEF DirInv, Dir
    <3>2. 1..n = 1..(n - 1) \union {n} /\ (n + 1) - 1 = n
      BY <2>3
    <3>3. d.index \subseteq d.notes
      BY <2>2, <2>7, <3>1
    <3>4. \A i \in d.index : 1..i \subseteq d.index
      BY <2>7, <3>1, <3>2
    <3>5. 1..(d.serial - 1) \subseteq d.index
      BY <2>7, <3>1, <3>2
    <3>6. ASSUME c \notin renewed, NEW i \in d.index
          PROVE  /\ i < d.serial /\ i \in DOMAIN d.keys /\ i \in DOMAIN d.certs
                 /\ d.certs[i] = d.keys[i]
      <4>1. CASE i = n
        BY <2>2, <2>3, <2>5, <2>7, <4>1
      <4>2. CASE i # n
        <5>1. i \in Dir(p).index /\ i \in Nat
          BY <2>3, <2>7, <3>6, <4>2
        <5>2. i < n + 1
          BY <2>3, <3>1, <3>6, <5>1
        <5>3. QED
          BY <2>5, <2>7, <3>1, <3>6, <4>2, <5>1, <5>2
      <4>3. QED
        BY <4>1, <4>2
    <3>7. QED
      BY <2>1, <2>8, <3>3, <3>4, <3>5, <3>6 DEF DirInv
  <2>10. Held(p)' = c /\ Chosen(p)' = c /\ NoCrash' = NoCrash
    BY <2>1, <2>2 DEF Held, Chosen, NoCrash
  <2>11. Meaning(p, l)'
    <3>1. k.marked => c # NoCA
      BY <2>1 DEF Inside
    <3>2. QED
      BY <1>3, <2>1, <2>2, <2>7, <2>8, <2>10, <3>1 DEF Meaning, K, Dir, Inside
  <2>12. QED
    BY <1>1, <1>2, <1>3, <2>1, <2>7, <2>9, <2>11, WorkKeeps
<1>6. QED
  BY <1>4, <1>5

-----------------------------------------------------------------------------
(* The CAs when the mark of one is removed.                                *)
Unmarked(c) == [dirs EXCEPT ![c].mark = 0]

(* That is mild, and the CA stays in order.                                *)
LEMMA MarkGone ==
  ASSUME CaInv, NEW c \in CAs, dirs' = Unmarked(c)
  PROVE  /\ dirs' \in [CAs -> Directory] /\ \A b \in CAs \ {c} : dirs'[b] = dirs[b]
         /\ dirs'[c].mark = 0 /\ Mild(c)
         /\ \A b \in CAs : dirs'[b].state = dirs[b].state /\ (dirs[b].mark = 0 => dirs'[b].mark = 0)
         /\ renewed' = renewed => DirInv(c)'
<1>1. dirs \in [CAs -> Directory] /\ DirInv(c)
  BY DEF CaInv, DataTypes
<1> DEFINE d == [dirs[c] EXCEPT !.mark = 0]
<1>2. /\ d \in Directory /\ d.state = dirs[c].state /\ d.index = dirs[c].index
      /\ d.serial = dirs[c].serial /\ d.notes = dirs[c].notes
      /\ d.keys = dirs[c].keys /\ d.certs = dirs[c].certs /\ d.mark = 0
  BY <1>1 DEF Directory, Marks
<1>3. dirs' = [dirs EXCEPT ![c] = d]
  BY <1>1 DEF Unmarked
<1> HIDE DEF d
<1>4. dirs'[c] = d /\ \A b \in CAs \ {c} : dirs'[b] = dirs[b]
  BY <1>1, <1>3
<1>5. dirs' \in [CAs -> Directory]
  BY <1>1, <1>2, <1>3
<1>6. renewed' = renewed => DirInv(c)'
  BY <1>1, <1>2, <1>4 DEF DirInv
<1>7. \A b \in CAs : dirs'[b].state = dirs[b].state /\ (dirs[b].mark = 0 => dirs'[b].mark = 0)
  <2>1. TAKE b \in CAs
  <2>2. CASE b = c
    BY <1>2, <1>4, <2>2
  <2>3. CASE b # c
    BY <1>4, <2>3
  <2>4. QED
    BY <2>2, <2>3
<1>8. QED
  BY <1>2, <1>4, <1>5, <1>6, <1>7 DEF Mild

(* cleanup removes the mark of the CA that is set: its own, if there is one. *)
LEMMA CleanKeeps ==
  ASSUME CaInv, NEW p \in Procs, Clean(p)
  PROVE  CaInv'
<1>1. Running(p) /\ Head(todo[p]).do = "clean"
  BY DEF Clean, Now
<1>2. PICK k, l \in Know : Leads(k, Head(todo[p]), l) /\ Typed(Tail(todo[p]), l) /\ Meaning(p, k)
  BY <1>1, OwnFacts DEF Running
<1>3. Tail(todo[p]) \in Seq(StepSet) /\ Ends(Tail(todo[p])) /\ AtWorkInv(p)
  BY <1>1, OwnFacts DEF Running
<1>4. l = K(k.held, k.dir, NoCA, FALSE, 0)
  BY <1>1, <1>2 DEF Leads, LeadsAnywhere, LeadsUnmarked, LeadsInside
<1>5. /\ todo' = [todo EXCEPT ![p] = Tail(todo[p])] /\ ca' = [ca EXCEPT ![p] = NoCA]
      /\ UNCHANGED <<lock, status, lockfile, cwd, number, passed, renewed>>
  BY DEF Clean, Done, CaInv, DataTypes
<1>6. /\ todo'[p] = Tail(todo[p]) /\ \A q \in Procs \ {p} : Same(q)
      /\ Held(p)' = Held(p) /\ NoCrash' = NoCrash /\ Chosen(p) = ca[p] /\ Held(p) = lockfile[p]
  BY <1>1, <1>5 DEF CaInv, DataTypes, Same, Held, NoCrash, Chosen, Running
<1>7. Held(p) \in Places /\ cwd[p] \in Places /\ status[p] = "running"
  BY <1>1, <1>6 DEF CaInv, DataTypes, Running
<1>8. CASE ca[p] = NoCA
  <2>1. dirs' = dirs
    BY <1>8 DEF Clean
  <2>2. ~k.marked
    BY <1>2, <1>6, <1>8 DEF Meaning
  <2>3. Meaning(p, l)'
    BY <1>2, <1>4, <1>5, <1>6, <2>1, <2>2 DEF Meaning, K
  <2>4. AtWorkInv(p)'
    BY <1>2, <1>3, <1>5, <1>6, <2>3, Proceeds DEF AtWorkInv
  <2>5. DataTypes'
    BY <1>3, <1>5, <2>1 DEF CaInv, DataTypes, Places
  <2>6. QED
    BY <1>5, <1>6, <1>7, <2>1, <2>4, <2>5, Quietly DEF CaInv, ProcInv
<1>9. CASE ca[p] # NoCA
  <2>0. PICK c \in CAs : c = ca[p]
    BY <1>9 DEF CaInv, DataTypes, Places
  <2>1. dirs' = Unmarked(c) /\ Chosen(p) = c
    BY <1>6, <1>9, <2>0 DEF Clean, Unmarked
  <2>2. /\ dirs' \in [CAs -> Directory] /\ \A b \in CAs \ {c} : dirs'[b] = dirs[b]
        /\ dirs'[c].mark = 0 /\ Mild(c) /\ DirInv(c)'
        /\ \A b \in CAs : dirs'[b].state = dirs[b].state /\ (dirs[b].mark = 0 => dirs'[b].mark = 0)
    BY <1>5, <2>1, MarkGone
  <2>3. DataTypes'
    BY <1>3, <1>5, <2>2 DEF CaInv, DataTypes, Places
  <2>4. NoCrash /\ Held(p) # NoCA => dirs'[Held(p)].mark = 0
    <3>1. CASE k.marked
      BY <1>2, <2>1, <2>2, <3>1 DEF Meaning
    <3>2. CASE ~k.marked
      BY <1>2, <1>7, <2>2, <3>2 DEF Meaning, Places
    <3>3. QED
      BY <3>1, <3>2
  <2>5. Meaning(p, l)'
    BY <1>2, <1>4, <1>5, <1>6, <2>4 DEF Meaning, K
  <2>6. \A q \in Procs : cwd'[q] # NoCA => dirs'[cwd'[q]].state # "absent"
    BY <1>5, <2>2 DEF CaInv, ProcInv, DataTypes, Places
  <2>7. /\ Mild(c) \/ Held(p) = c
        /\ dirs'[c].mark # 0 /\ NoCrash => lock[c] # NoProc
        /\ \A b \in CAs \ {c} : b \in renewed => b \in renewed'
        /\ Head(todo[p]).do # "exit"
    BY <1>1, <1>5, <2>2
  <2>8. QED
    BY <1>1, <1>2, <1>5, <1>6, <2>1, <2>2, <2>3, <2>5, <2>6, <2>7, WritesKeeps
<1>10. QED
  BY <1>8, <1>9

(* The mark of somebody who died.                                          *)
LEMMA EntersKeeps ==
  ASSUME CaInv, NEW p \in Procs, Enters(p)
  PROVE  CaInv'
<1>1. Running(p) /\ Head(todo[p]).do = "enter"
  BY DEF Enters, Now
<1>2. PICK k, l \in Know : Leads(k, Head(todo[p]), l) /\ Typed(Tail(todo[p]), l) /\ Meaning(p, k)
  BY <1>1, OwnFacts DEF Running
<1>3. Tail(todo[p]) \in Seq(StepSet) /\ Ends(Tail(todo[p])) /\ AtWorkInv(p)
  BY <1>1, OwnFacts DEF Running
<1>0. PICK c \in CAs : c = Arg(p)
  BY <1>1, <1>2 DEF Leads, LeadsAnywhere, LeadsUnmarked, LeadsInside, Arg
<1>4. ~k.marked /\ c \in CAs /\ k.held = c /\ k.dir = c /\ l = Entered(c)
  BY <1>0, <1>1, <1>2 DEF Leads, LeadsAnywhere, LeadsUnmarked, LeadsInside, Arg
<1>5. /\ todo' = [todo EXCEPT ![p] = Tail(todo[p])] /\ ca' = [ca EXCEPT ![p] = c]
      /\ UNCHANGED <<lock, status, lockfile, cwd, number, passed, renewed>>
  BY <1>0 DEF Enters, Done, CaInv, DataTypes
<1>6. /\ todo'[p] = Tail(todo[p]) /\ \A q \in Procs \ {p} : Same(q)
      /\ Held(p)' = Held(p) /\ NoCrash' = NoCrash /\ Chosen(p)' = c /\ Held(p) = c
  BY <1>1, <1>2, <1>4, <1>5, CaAssumption DEF CaInv, DataTypes, Same, Held, NoCrash, Chosen, Running, Meaning
<1>7. cwd[p] \in {c, NoCA} /\ status[p] = "running" /\ c # NoCA /\ (NoCrash => dirs[c].mark = 0)
  BY <1>1, <1>2, <1>4, <1>6, CaAssumption DEF Running, Meaning
<1>8. CASE cwd[p] = NoCA
  <2>1. dirs' = dirs
    BY <1>8 DEF Enters, Inside
  <2>2. Meaning(p, l)'
    BY <1>4, <1>5, <1>6, <1>7, <2>1 DEF Meaning, K, Entered
  <2>3. AtWorkInv(p)'
    BY <1>2, <1>3, <1>5, <1>6, <2>2, Proceeds DEF AtWorkInv
  <2>4. DataTypes'
    BY <1>3, <1>4, <1>5, <2>1 DEF CaInv, DataTypes, Places
  <2>5. QED
    BY <1>5, <1>6, <1>7, <2>1, <2>3, <2>4, Quietly DEF CaInv, ProcInv
<1>9. CASE cwd[p] = c
  <2>1. dirs' = Unmarked(c)
    BY <1>7, <1>9 DEF Enters, Inside, Unmarked
  <2>2. /\ dirs' \in [CAs -> Directory] /\ \A b \in CAs \ {c} : dirs'[b] = dirs[b]
        /\ dirs'[c].mark = 0 /\ Mild(c) /\ DirInv(c)'
        /\ \A b \in CAs : dirs'[b].state = dirs[b].state
    BY <1>4, <1>5, <2>1, MarkGone
  <2>3. DataTypes'
    BY <1>3, <1>4, <1>5, <2>2 DEF CaInv, DataTypes, Places
  <2>4. Meaning(p, l)'
    BY <1>4, <1>5, <1>6, <1>9, <2>2 DEF Meaning, K, Entered
  <2>5. \A q \in Procs : cwd'[q] # NoCA => dirs'[cwd'[q]].state # "absent"
    BY <1>5, <2>2 DEF CaInv, ProcInv, DataTypes, Places
  <2>6. /\ Mild(c) \/ Held(p) = c
        /\ dirs'[c].mark # 0 /\ NoCrash => lock[c] # NoProc
        /\ \A b \in CAs \ {c} : b \in renewed => b \in renewed'
        /\ Head(todo[p]).do # "exit"
    BY <1>1, <1>5, <2>2
  <2>7. QED
    BY <1>1, <1>2, <1>4, <1>5, <1>6, <2>2, <2>3, <2>4, <2>5, <2>6, WritesKeeps
<1>10. QED
  BY <1>7, <1>8, <1>9

(* An empty directory.                                                     *)
LEMMA NewDirectory ==
  /\ Absent \in Directory /\ Bare \in Directory
  /\ Bare = [Absent EXCEPT !.state = "bare"] /\ Absent.state = "absent" /\ Bare.state = "bare"
  /\ Absent.index = {} /\ Absent.notes = {} /\ Absent.mark = 0 /\ Absent.serial = 0
  /\ Bare.index = {} /\ Bare.notes = {} /\ Bare.mark = 0 /\ Bare.serial = 0
<1>1. <<>> \in Maps
  <2>1. <<>> \in [{} -> Owners] /\ {} \in SUBSET Nat
    OBVIOUS
  <2>2. QED
    BY <2>1 DEF Maps
<1>2. Absent \in Directory
  BY <1>1 DEF Absent, Directory, Marks
<1>3. QED
  BY <1>2 DEF Absent, Bare, Directory

(* do_new_ca, before it has the lock: it may set the number of somebody    *)
(* else's CA back.                                                         *)
LEMMA NewCaKeeps ==
  ASSUME CaInv, NEW p \in Procs, NewCa(p)
  PROVE  CaInv'
<1>1. Running(p) /\ Head(todo[p]).do \in {"mkdir", "touch", "reset"}
  BY DEF NewCa, Now
<1>2. PICK k, l \in Know : Leads(k, Head(todo[p]), l) /\ Typed(Tail(todo[p]), l) /\ Meaning(p, k)
  BY <1>1, OwnFacts DEF Running
<1>3. Tail(todo[p]) \in Seq(StepSet)
  BY <1>1, OwnFacts DEF Running
<1>4. PICK c \in CAs : c = Arg(p)
  BY <1>1, <1>2 DEF Leads, LeadsAnywhere, LeadsUnmarked, LeadsInside, Arg
<1>5. ~k.marked /\ l = Nothing
  BY <1>1, <1>2 DEF Leads, LeadsAnywhere, LeadsUnmarked, LeadsInside
<1>6. CASE Fails(p)
  BY <1>1, <1>6, FailsKeeps
<1>7. CASE ~Fails(p)
  <2>1. /\ todo' = [todo EXCEPT ![p] = Tail(todo[p])]
        /\ UNCHANGED <<lock, status, ca, lockfile, cwd, number, passed>>
        /\ \A b \in CAs \ {c} : dirs'[b] = dirs[b]
        /\ dirs' \in [CAs -> Directory] /\ renewed' \subseteq CAs /\ renewed \subseteq renewed'
        /\ dirs'[c].mark \in {0, dirs[c].mark}
        /\ dirs'[c].state # "absent"
        /\ dirs[c].state # "absent" =>
             /\ dirs'[c].index = dirs[c].index /\ dirs'[c].notes = dirs[c].notes
             /\ dirs'[c].keys = dirs[c].keys /\ dirs'[c].certs = dirs[c].certs
             /\ \/ dirs'[c].serial = dirs[c].serial
                \/ dirs'[c].serial = 1 /\ (dirs[c].notes # {} => c \in renewed')
        /\ dirs[c].state = "absent" => dirs'[c].index = {} /\ dirs'[c].serial = 0
    <3>1. /\ todo' = [todo EXCEPT ![p] = Tail(todo[p])]
          /\ UNCHANGED <<lock, status, ca, lockfile, cwd, number, passed>>
      BY <1>7 DEF NewCa, Done, CaInv, DataTypes
    <3>2. dirs \in [CAs -> Directory] /\ dirs[c] \in Directory /\ renewed \subseteq CAs
      BY DEF CaInv, DataTypes
    <3>3. CASE Head(todo[p]).do = "mkdir"
      <4>1. /\ dirs' = [dirs EXCEPT ![c] = IF dirs[c].state = "absent" THEN Bare ELSE dirs[c]]
            /\ renewed' = renewed
        BY <1>4, <3>2, <3>3 DEF NewCa, Now
      <4>2. QED
        BY <3>1, <3>2, <4>1, NewDirectory
    <3>4. CASE Head(todo[p]).do = "touch"
      <4> DEFINE d == [dirs[c] EXCEPT !.state = "ready"]
      <4>1. dirs[c].state # "absent" /\ dirs' = [dirs EXCEPT ![c] = d] /\ renewed' = renewed
        BY <1>4, <1>7, <3>2, <3>4 DEF NewCa, Now
      <4>2. /\ d \in Directory /\ d.state = "ready" /\ d.mark = dirs[c].mark /\ d.index = dirs[c].index
            /\ d.notes = dirs[c].notes /\ d.keys = dirs[c].keys /\ d.certs = dirs[c].certs
            /\ d.serial = dirs[c].serial
        BY <3>2 DEF Directory
      <4> HIDE DEF d
      <4>3. QED
        BY <3>1, <3>2, <4>1, <4>2
    <3>5. CASE Head(todo[p]).do = "reset"
      <4> DEFINE d == [dirs[c] EXCEPT !.serial = 1]
      <4>1. /\ dirs[c].state # "absent" /\ dirs' = [dirs EXCEPT ![c] = d]
            /\ renewed' = renewed \union (IF dirs[c].notes = {} THEN {} ELSE {c})
        BY <1>4, <1>7, <3>2, <3>5 DEF NewCa, Now
      <4>2. d \in Directory /\ d.state = dirs[c].state /\ d.mark = dirs[c].mark /\ d.index = dirs[c].index
            /\ d.notes = dirs[c].notes /\ d.keys = dirs[c].keys /\ d.certs = dirs[c].certs /\ d.serial = 1
        BY <3>2 DEF Directory
      <4> HIDE DEF d
      <4>3. QED
        BY <3>1, <3>2, <4>1, <4>2
    <3>6. QED
      BY <1>1, <3>3, <3>4, <3>5
  <2>2. DataTypes'
    BY <1>3, <2>1 DEF CaInv, DataTypes
  <2>3. todo'[p] = Tail(todo[p]) /\ \A q \in Procs \ {p} : Same(q)
    BY <2>1 DEF CaInv, DataTypes, Same
  <2>4. Mild(c)
    BY <2>1 DEF Mild
  <2>5. Held(p)' = Held(p) /\ NoCrash' = NoCrash
    BY <2>1 DEF Held, NoCrash
  <2>6. Meaning(p, l)'
    <3>1. Held(p) \in Places
      BY <1>1 DEF Running, Held, CaInv, DataTypes
    <3>2. ASSUME NoCrash, Held(p) # NoCA PROVE dirs'[Held(p)].mark = 0
      <4>1. dirs[Held(p)].mark = 0 /\ Held(p) \in CAs
        BY <1>2, <1>5, <3>1, <3>2 DEF Meaning, Places
      <4>2. QED
        BY <2>1, <4>1
    <3>3. QED
      BY <1>5, <2>5, <3>2 DEF Meaning, Nothing, K
  <2>7. DirInv(c)'
    <3>1. DirInv(c)
      BY DEF CaInv
    <3>2. dirs'[c] \in Directory
      BY <2>1
    <3>3. CASE dirs[c].state = "absent"
      BY <2>1, <3>3 DEF DirInv
    <3>4. CASE dirs[c].state # "absent" /\ dirs'[c].serial = dirs[c].serial
      BY <2>1, <3>1, <3>4 DEF DirInv
    <3>5. CASE dirs[c].state # "absent" /\ dirs'[c].serial = 1 /\ (dirs[c].notes # {} => c \in renewed')
      <4>1. 1..(1 - 1) = {}
        OBVIOUS
      <4>2. QED
        BY <2>1, <3>1, <3>5, <4>1 DEF DirInv
    <3>6. QED
      BY <2>1, <3>3, <3>4, <3>5
  <2>8. /\ \A q \in Procs : cwd'[q] # NoCA => dirs'[cwd'[q]].state # "absent"
        /\ \A b \in CAs \ {c} : b \in renewed => b \in renewed'
        /\ Head(todo[p]).do # "exit"
    BY <1>1, <2>1 DEF CaInv, ProcInv, DataTypes, Places
  <2>9. dirs'[c].mark # 0 /\ NoCrash => lock[c] # NoProc
    BY <2>1 DEF CaInv, MarkUnderLock, NoCrash
  <2>10. QED
    BY <1>1, <1>2, <2>1, <2>2, <2>3, <2>4, <2>6, <2>7, <2>8, <2>9, WritesKeeps
<1>8. QED
  BY <1>6, <1>7

(* drop_ca, in the CA that it has locked.                                  *)
LEMMA DropCaKeeps ==
  ASSUME CaInv, NEW p \in Procs, DropCa(p)
  PROVE  CaInv'
<1>1. Running(p) /\ Head(todo[p]).do \in {"empty", "rmdir"}
  BY DEF DropCa, Now
<1>2. PICK k, l \in Know : Leads(k, Head(todo[p]), l) /\ Typed(Tail(todo[p]), l) /\ Meaning(p, k)
  BY <1>1, OwnFacts DEF Running
<1>3. Tail(todo[p]) \in Seq(StepSet) /\ AtWorkInv(p)
  BY <1>1, OwnFacts DEF Running
<1>4. PICK c \in CAs : c = Arg(p)
  BY <1>1, <1>2 DEF Leads, LeadsAnywhere, LeadsUnmarked, LeadsInside, Arg
<1>5. ~k.marked /\ k.held = c /\ l = K(c, NoCA, NoCA, FALSE, 0)
  BY <1>1, <1>2, <1>4 DEF Leads, LeadsAnywhere, LeadsUnmarked, LeadsInside, Arg
<1>6. Held(p) = c /\ lock[c] = p /\ lock[c] # NoProc
  BY <1>2, <1>3, <1>5, CaAssumption DEF Meaning, AtWorkInv
<1>7. CASE Fails(p)
  BY <1>1, <1>7, FailsKeeps
<1>8. CASE ~Fails(p)
  <2>1. dirs \in [CAs -> Directory] /\ renewed \subseteq CAs /\ cwd \in [Procs -> Places]
    BY DEF CaInv, DataTypes
  <2>2. /\ todo' = [todo EXCEPT ![p] = Tail(todo[p])]
        /\ UNCHANGED <<lock, status, ca, lockfile, number, passed>>
    BY <1>8 DEF DropCa, Done, CaInv, DataTypes
  <2>3. /\ dirs' \in [CAs -> Directory] /\ \A b \in CAs \ {c} : dirs'[b] = dirs[b]
        /\ dirs'[c].mark = 0 \/ dirs'[c] = dirs[c]
        /\ \/ dirs'[c].index = {} /\ dirs'[c].serial = 0
           \/ dirs'[c] = dirs[c] /\ (c \in renewed => c \in renewed')
        /\ cwd' \in [Procs -> Places]
        /\ \A q \in Procs : cwd'[q] \in {cwd[q], NoCA} /\ (cwd'[q] = c => dirs'[c].state # "absent")
        /\ renewed' \subseteq renewed /\ \A b \in CAs \ {c} : b \in renewed => b \in renewed'
    <3>1. CASE Head(todo[p]).do = "empty"
      <4>1. /\ dirs' = [dirs EXCEPT ![c] = IF dirs[c].state = "absent" THEN dirs[c] ELSE Bare]
            /\ cwd' = cwd /\ renewed' = renewed
        BY <1>4, <2>1, <3>1 DEF DropCa, Now
      <4>2. \A q \in Procs : cwd[q] = c => dirs[c].state # "absent"
        BY CaAssumption DEF CaInv, ProcInv
      <4>3. dirs'[c] = IF dirs[c].state = "absent" THEN dirs[c] ELSE Bare
        BY <2>1, <4>1
      <4>4. QED
        BY <2>1, <4>1, <4>2, <4>3, NewDirectory
    <3>2. CASE Head(todo[p]).do = "rmdir"
      <4>1. /\ dirs' = [dirs EXCEPT ![c] = Absent]
            /\ cwd' = [q \in Procs |-> IF cwd[q] = c THEN NoCA ELSE cwd[q]] /\ renewed' = renewed \ {c}
        BY <1>4, <1>8, <3>2 DEF DropCa, Now
      <4>2. \A q \in Procs : cwd'[q] \in {cwd[q], NoCA} /\ cwd'[q] # c
        BY <4>1, CaAssumption
      <4>3. cwd' \in [Procs -> Places]
        BY <2>1, <4>1 DEF Places
      <4>4. dirs'[c] = Absent
        BY <2>1, <4>1
      <4>5. QED
        BY <2>1, <4>1, <4>2, <4>3, <4>4, NewDirectory
    <3>3. QED
      BY <1>1, <3>1, <3>2
  <2>4. DataTypes'
    BY <1>3, <2>1, <2>2, <2>3 DEF CaInv, DataTypes
  <2>5. todo'[p] = Tail(todo[p]) /\ \A q \in Procs \ {p} : Same(q)
    BY <2>2, <2>3 DEF CaInv, DataTypes, Same
  <2>6. Held(p)' = c /\ NoCrash' = NoCrash
    BY <1>6, <2>2 DEF Held, NoCrash
  <2>7. Meaning(p, l)'
    <3>1. NoCrash => dirs'[c].mark = 0
      BY <1>2, <1>5, <1>6, <2>3, CaAssumption DEF Meaning
    <3>2. QED
      BY <1>5, <2>6, <3>1 DEF Meaning, K
  <2>8. DirInv(c)'
    <3>1. DirInv(c)
      BY DEF CaInv
    <3>2. QED
      BY <2>3, <3>1 DEF DirInv
  <2>9. ASSUME NEW q \in Procs, cwd'[q] # NoCA PROVE dirs'[cwd'[q]].state # "absent"
    <3>1. cwd'[q] = cwd[q] /\ cwd[q] \in CAs /\ dirs[cwd[q]].state # "absent"
      BY <2>1, <2>3, <2>9 DEF CaInv, ProcInv, Places
    <3>2. QED
      BY <2>3, <3>1
  <2>10. Head(todo[p]).do # "exit"
    BY <1>1
  <2>11. QED
    BY <1>1, <1>2, <1>6, <2>2, <2>3, <2>4, <2>5, <2>7, <2>8, <2>9, <2>10, WritesKeeps
<1>9. QED
  BY <1>7, <1>8

-----------------------------------------------------------------------------
(* A crash: what is known of marks is not known any more.                  *)
LEMMA CrashKeeps ==
  ASSUME CaInv, NEW dead \in SUBSET Procs, NEW left \in [CAs -> Owners], Crash(dead, left),
         \A q \in Procs \ dead : status[q] = "running" => left = lock
  PROVE  CaInv'
<1>1. DataTypes'
  BY DEF Crash, CaInv, DataTypes, readVars, Places, Passed
<1>2. ~NoCrash'
  BY DEF Crash, NoCrash
<1>3. ASSUME NEW q \in Procs PROVE ProcInv(q)'
  <2>1. ProcInv(q)
    BY DEF CaInv
  <2>2. CASE q \in dead
    BY <2>2 DEF Crash, ProcInv
  <2>3. CASE q \notin dead
    <3>1. Same(q) /\ status'[q] = status[q] /\ cwd'[q] = cwd[q] /\ dirs' = dirs /\ lock' = left
      BY <2>3 DEF Crash, Same
    <3>2. Spared(q)
      BY <2>1, <2>3, <3>1 DEF Spared, Mild, ProcInv, AtWorkInv
    <3>3. status[q] = "running" => AtWorkInv(q)'
      BY <1>2, <3>1, <3>2, OthersKeep DEF Spared
    <3>4. QED
      BY <2>1, <3>1, <3>3 DEF ProcInv, Same
  <2>4. QED
    BY <2>2, <2>3
<1>4. \A c \in CAs : DirInv(c)'
  BY DEF CaInv, DirInv, Crash
<1>5. MarkUnderLock'
  BY <1>2 DEF MarkUnderLock, NoCrash
<1>6. QED
  BY <1>1, <1>3, <1>4, <1>5 DEF CaInv

(* get_ca changes nothing that the script works with.                      *)
LEMMA ReaderKeeps ==
  ASSUME CaInv, UNCHANGED <<dirs, lock, procVars, renewed>>
  PROVE  CaInv'
<1>1. UNCHANGED <<dirs, lock, todo, status, ca, lockfile, cwd, number, passed, renewed>>
  BY DEF procVars
<1>2. DataTypes'
  BY <1>1 DEF CaInv, DataTypes
<1>3. ASSUME NEW q \in Procs PROVE ProcInv(q)'
  <2>1. ProcInv(q)
    BY DEF CaInv
  <2>2. QED
    BY <1>1, <2>1 DEF ProcInv, AtWorkInv, Meaning, Held, Chosen, NoCrash, Dir
<1>4. (\A c \in CAs : DirInv(c)') /\ MarkUnderLock'
  BY <1>1 DEF CaInv, DirInv, MarkUnderLock
<1>5. QED
  BY <1>2, <1>3, <1>4 DEF CaInv

(* The first state: CAs without or with one certificate, nobody at work.   *)
LEMMA CaInit ==
  ASSUME Init
  PROVE  CaInv
<1>1. Used \in Directory /\ Absent \in Directory
  <2>1. <<NoProc>> \in Maps
    <3>1. <<NoProc>> \in [1..1 -> Owners] /\ 1..1 \in SUBSET Nat
      BY DEF Owners
    <3>2. QED
      BY <3>1 DEF Maps
  <2>2. Absent \in Directory
    BY NewDirectory
  <2> DEFINE files == <<NoProc>>
  <2>3. Used = [state |-> "ready", index |-> {1}, revoked |-> {}, notes |-> {1}, serial |-> 2, mark |-> 0,
                root |-> TRUE, keys |-> files, certs |-> files]
    <3>1. Used = [Absent EXCEPT !.state = "ready", !.index = {1}, !.notes = {1}, !.serial = 2, !.root = TRUE,
                                !.keys = files, !.certs = files]
      BY DEF Used
    <3> DEFINE none == <<>>
    <3>2. Absent = [state |-> "absent", index |-> {}, revoked |-> {}, notes |-> {}, serial |-> 0, mark |-> 0,
                    root |-> FALSE, keys |-> none, certs |-> none]
      BY DEF Absent
    <3> HIDE DEF files, none
    <3>3. QED
      BY <3>1, <3>2
  <2> HIDE DEF files
  <2>4. [state |-> "ready", index |-> {1}, revoked |-> {}, notes |-> {1}, serial |-> 2, mark |-> 0,
         root |-> TRUE, keys |-> files, certs |-> files] \in Directory
    BY <2>1 DEF Directory, Marks, files
  <2>5. QED
    BY <2>2, <2>3, <2>4
<1>2. PICK there \in There : dirs = [c \in CAs |-> IF c \in there THEN Used ELSE Absent]
  BY DEF Init
<1>3. DataTypes
  BY <1>1, <1>2 DEF Init, DataTypes, Places, Owners, Passed
<1>4. \A p \in Procs : ProcInv(p)
  BY DEF Init, ProcInv
<1>5. ASSUME NEW c \in CAs PROVE DirInv(c)
  <2>1. dirs[c] \in {Used, Absent}
    BY <1>2
  <2>2. Absent.index = {} /\ Absent.serial = 0
    BY NewDirectory
  <2>3. /\ Used.index = {1} /\ Used.notes = {1} /\ Used.serial = 2
        /\ Used.keys = <<NoProc>> /\ Used.certs = <<NoProc>>
    BY DEF Used, Absent
  <2>4. 1..1 = {1} /\ 1..(2 - 1) = {1} /\ 1 < 2 /\ 1 \in DOMAIN <<NoProc>>
    OBVIOUS
  <2>5. CASE dirs[c] = Absent
    BY <2>2, <2>5 DEF DirInv
  <2>6. CASE dirs[c] = Used
    BY <2>3, <2>4, <2>6 DEF DirInv
  <2>7. QED
    BY <2>1, <2>5, <2>6
<1>6. MarkUnderLock
  <2>1. \A c \in CAs : dirs[c].mark = 0
    BY <1>2, NewDirectory DEF Used
  <2>2. QED
    BY <2>1 DEF MarkUnderLock
<1>7. QED
  BY <1>3, <1>4, <1>5, <1>6 DEF CaInv

(* Every step.                                                             *)
LEMMA CaStep ==
  ASSUME CaInv, [Next]_vars
  PROVE  CaInv'
<1>1. ASSUME NEW p \in Procs, Goes(p) PROVE CaInv'
  BY <1>1, CommandKeeps, CleanKeeps, UnlockKeeps, ExitKeeps, ChangesDirKeeps, LockKeeps, EntersKeeps,
     NewCaKeeps, TestsKeeps, MarkKeeps, OpensslKeeps, GenCrlKeeps, TakeNumberKeeps, WriteNoteKeeps,
     RequestKeeps, OpensslCaKeeps, DropCaKeeps, RefreshKeeps, BackgroundKeeps, RestartKeeps DEF Goes
<1>2. CASE Kill
  <2>1. PICK p \in Procs : Crash({p}, lock)
    BY <1>2 DEF Kill
  <2>2. lock \in [CAs -> Owners] /\ {p} \in SUBSET Procs
    BY DEF CaInv, DataTypes
  <2>3. QED
    BY <2>1, <2>2, CrashKeeps
<1>3. CASE Reboot
  <2> DEFINE dead == {p \in Procs : status[p] = "running"}
             left == [c \in CAs |-> NoProc]
  <2>1. Crash(dead, left) /\ dead \in SUBSET Procs /\ left \in [CAs -> Owners]
    BY <1>3 DEF Reboot, Owners
  <2>2. \A q \in Procs \ dead : status[q] # "running"
    OBVIOUS
  <2> HIDE DEF dead, left
  <2>3. QED
    BY <2>1, <2>2, CrashKeeps
<1>4. CASE Reader
  <2>1. UNCHANGED <<dirs, lock, procVars, renewed>>
    BY <1>4 DEF Reader, ReaderStarts, Reads, ReadMark, ReadIndex, ReadNotes, ReadRoot
  <2>2. QED
    BY <2>1, ReaderKeeps
<1>5. CASE UNCHANGED vars
  BY <1>5, ReaderKeeps DEF vars
<1>6. QED
  BY <1>1, <1>2, <1>3, <1>4, <1>5, StartsKeeps DEF Next

(* get_ca only ever reports numbers.                                       *)
LEMMA ReaderStep ==
  ASSUME CaInv, ReaderTypes, [Next]_vars
  PROVE  ReaderTypes'
<1>1. dirs \in [CAs -> Directory]
  BY DEF CaInv, DataTypes
<1>2. CASE UNCHANGED reader
  BY <1>2 DEF ReaderTypes
<1>3. CASE Reader
  <2> DEFINE R == [at : {"new", "generating", "index", "notes", "root", "done", "failed"}, ca : Places,
                   mark : Marks, index : SUBSET (Nat \union {Root}), report : SUBSET (Nat \union {Root})]
  <2>1. reader \in R /\ 0 \in Marks /\ {} \in SUBSET (Nat \union {Root})
    BY DEF ReaderTypes, Marks
  <2>2. ASSUME NEW c \in Read, ReaderStarts(c) PROVE ReaderTypes'
    <3>1. c \in CAs /\ reader' = [reader EXCEPT !.at = "generating", !.ca = c]
      BY <2>2, CaAssumption DEF ReaderStarts
    <3>2. QED
      BY <3>1 DEF ReaderTypes, Places
  <2>3. ASSUME reader.at # "new" PROVE dirs[reader.ca] \in Directory
    BY <1>1, <2>3 DEF ReaderTypes
  <2>4. ASSUME NEW file \in {"generating", "index", "notes", "root"}, NEW next, Reads(file, next),
               dirs[reader.ca] \in Directory => next \in R /\ next.at # "new" /\ next.ca = reader.ca
        PROVE  ReaderTypes'
    <3>1. reader.at # "new"
      BY <2>4 DEF Reads
    <3>2. \/ reader' = next
          \/ reader' = [reader EXCEPT !.at = "failed", !.index = {}, !.mark = 0, !.report = {}]
      BY <2>4 DEF Reads
    <3>3. CASE reader' = next
      BY <2>3, <2>4, <3>1, <3>3 DEF ReaderTypes
    <3>4. CASE reader' = [reader EXCEPT !.at = "failed", !.index = {}, !.mark = 0, !.report = {}]
      BY <2>1, <3>1, <3>4 DEF ReaderTypes
    <3>5. QED
      BY <3>2, <3>3, <3>4
  <2>5. CASE ReadMark
    <3> DEFINE next == [reader EXCEPT !.at = "index", !.mark = dirs[reader.ca].mark]
    <3>1. dirs[reader.ca] \in Directory => next \in R /\ next.at # "new" /\ next.ca = reader.ca
      BY <2>1 DEF Directory
    <3>2. Reads("generating", next)
      BY <2>5 DEF ReadMark
    <3> HIDE DEF next, R
    <3>3. QED
      BY <2>4, <3>1, <3>2
  <2>6. CASE ReadIndex
    <3> DEFINE next == [reader EXCEPT !.at = "notes", !.index = dirs[reader.ca].index]
    <3>1. dirs[reader.ca] \in Directory => next \in R /\ next.at # "new" /\ next.ca = reader.ca
      BY <2>1 DEF Directory
    <3>2. Reads("index", next)
      BY <2>6 DEF ReadIndex
    <3> HIDE DEF next, R
    <3>3. QED
      BY <2>4, <3>1, <3>2
  <2>7. CASE ReadNotes
    <3> DEFINE report == dirs[reader.ca].notes \intersect (reader.index \union {reader.mark})
               next == [reader EXCEPT !.at = "root", !.index = {}, !.report = report]
    <3>1. dirs[reader.ca] \in Directory => report \in SUBSET (Nat \union {Root})
      BY DEF Directory
    <3>2. Reads("notes", next)
      BY <2>7 DEF ReadNotes
    <3> HIDE DEF report
    <3>3. dirs[reader.ca] \in Directory => next \in R /\ next.at # "new" /\ next.ca = reader.ca
      BY <2>1, <3>1
    <3> HIDE DEF next, R
    <3>4. QED
      BY <2>4, <3>2, <3>3
  <2>8. CASE ReadRoot
    <3> DEFINE report == reader.report \union
                           (IF dirs[reader.ca].root \/ reader.mark = Root THEN {Root} ELSE {})
               next == [reader EXCEPT !.at = "done", !.mark = 0, !.report = report]
    <3>1. report \in SUBSET (Nat \union {Root})
      BY <2>1
    <3>2. Reads("root", next)
      BY <2>1, <2>8 DEF ReadRoot
    <3> HIDE DEF report
    <3>3. next \in R /\ next.at # "new" /\ next.ca = reader.ca
      BY <2>1, <3>1
    <3> HIDE DEF next, R
    <3>4. QED
      BY <2>4, <3>2, <3>3
  <2>9. QED
    BY <1>3, <2>2, <2>5, <2>6, <2>7, <2>8 DEF Reader
<1>4. CASE \E p \in Procs : Starts(p) \/ Goes(p)
  <2>1. PICK p \in Procs : Starts(p) \/ Goes(p)
    BY <1>4
  <2>2. UNCHANGED reader
    BY <2>1 DEF Starts, Goes, readVars, Command, Clean, Unlock, Exit, ChangesDir, Lock, Enters, NewCa, Tests,
          Mark, Unmark, MakeRoot, GenCrl, TakeNumber, WriteNote, Request, OpensslCa, Revoke, DropCa,
          Refresh, Background, Restart, InDir, Fails
  <2>3. QED
    BY <1>2, <2>2
<1>5. CASE Kill \/ Reboot
  BY <1>2, <1>5 DEF Kill, Reboot, Crash, readVars
<1>6. CASE UNCHANGED vars
  BY <1>2, <1>6 DEF vars, readVars
<1>7. QED
  BY <1>3, <1>4, <1>5, <1>6 DEF Next

-----------------------------------------------------------------------------
(* The inductive invariant: every run that is at work owns the lock that   *)
(* it believes to have, and each step that it has left finds what it needs *)
(* (ca/gen as a whole, with what datastore.lua and cron start it for).     *)
THEOREM CaInvariant == Spec => [](CaInv /\ ReaderTypes)
<1>1. Init => CaInv /\ ReaderTypes
  <2>1. Init => ReaderTypes
    BY DEF Init, ReaderTypes, Places, Marks
  <2>2. QED
    BY <2>1, CaInit
<1>2. CaInv /\ ReaderTypes /\ [Next]_vars => (CaInv /\ ReaderTypes)'
  BY CaStep, ReaderStep
<1>3. QED
  BY <1>1, <1>2, PTL DEF Spec

(* TypeOK of run ca_gen: the files of a CA hold what they are for, and a   *)
(* run has steps left as long as it runs.                                  *)
THEOREM CaTypeCorrect == Spec => []TypeOK
<1>1. ASSUME CaInv, ReaderTypes PROVE TypeOK
  <2>1. DataTypes
    BY <1>1 DEF CaInv
  <2>2. ASSUME NEW f \in Maps PROVE Range(f) \subseteq Procs \union {NoProc}
    <3>1. PICK D \in SUBSET Nat : f \in [D -> Owners]
      BY DEF Maps
    <3>2. QED
      BY <3>1 DEF Range, Owners
  <2>3. ASSUME NEW c \in CAs
        PROVE  /\ dirs[c].state \in {"absent", "bare", "ready"}
               /\ dirs[c].index \union dirs[c].notes \subseteq Nat \ {0}
               /\ dirs[c].mark \in Nat \union {Root, -2}
               /\ Range(dirs[c].keys) \union Range(dirs[c].certs) \subseteq Procs \union {NoProc}
    <3>1. dirs[c] \in Directory
      BY <2>1 DEF DataTypes
    <3>2. dirs[c].keys \in Maps /\ dirs[c].certs \in Maps
      BY <3>1 DEF Directory
    <3>3. QED
      BY <2>2, <3>1, <3>2 DEF Directory, Marks
  <2>4. \A p \in Procs : status[p] = "running" <=> todo[p] # <<>>
    BY <1>1 DEF CaInv, ProcInv, AtWorkInv, Ends
  <2>5. reader.report \subseteq Nat \union {Root}
    BY <1>1 DEF ReaderTypes
  <2>6. QED
    BY <2>1, <2>3, <2>4, <2>5 DEF TypeOK, DataTypes, Places, Owners
<1>2. QED
  BY <1>1, CaInvariant, PTL

(* OneAtWork of run ca_gen: no two runs of the script are at work in one   *)
(* CA (lock of ca/gen; do_background hands the lock over).                 *)
THEOREM OneRunAtWork == Spec => []OneAtWork
<1>1. ASSUME CaInv, NEW p \in Procs, Touches(p) # NoCA
      PROVE  lock[Touches(p)] = p
  <2>1. Running(p) /\ status[p] = "running"
    BY <1>1 DEF Touches, Running
  <2>2. PICK k, l \in Know : Leads(k, Head(todo[p]), l) /\ Meaning(p, k)
    BY <1>1, <2>1, OwnFacts
  <2>3. AtWorkInv(p)
    BY <1>1, <2>1, OwnFacts
  <2>4. CASE Head(todo[p]).do \in {"empty", "rmdir"}
    <3>1. Touches(p) = Arg(p) /\ k.held = Arg(p) /\ Arg(p) # NoCA
      BY <1>1, <2>1, <2>2, <2>4 DEF Touches, Leads, LeadsAnywhere, LeadsUnmarked, LeadsInside, Arg
    <3>2. QED
      BY <2>2, <2>3, <3>1 DEF Meaning, AtWorkInv
  <2>5. CASE Head(todo[p]).do \in {"mark-root", "mark-dh", "mark", "unmark", "make-root", "crl", "number",
                                   "note", "request", "sign", "openssl-revoke"}
    <3>1. Touches(p) = cwd[p] /\ AtWork(k)
      BY <2>1, <2>2, <2>5 DEF Touches, Leads, LeadsAnywhere, LeadsUnmarked, LeadsInside
    <3>2. QED
      BY <1>1, <2>2, <2>3, <3>1 DEF Meaning, AtWorkInv, AtWork
  <2>6. QED
    BY <1>1, <2>1, <2>4, <2>5 DEF Touches
<1>2. ASSUME CaInv PROVE OneAtWork
  BY <1>1, <1>2 DEF OneAtWork
<1>3. QED
  BY <1>2, CaInvariant, PTL

(* MarkUnderLock of run ca_gen: until a crash, a mark is only there under  *)
(* the lock of its CA (cleanup removes the mark before the lock).          *)
THEOREM MarksUnderLock == Spec => []MarkUnderLock
<1>1. CaInv => MarkUnderLock
  BY DEF CaInv
<1>2. QED
  BY <1>1, CaInvariant, PTL

(* KeysMatch of run ca_gen: every certificate that is in index.txt has the *)
(* key it was made with, unless the CA was created again over its          *)
(* certificates (do_gen_server, do_gen_client).                            *)
THEOREM CertificatesMatch == Spec => []KeysMatch
<1>1. CaInv => KeysMatch
  BY DEF CaInv, DirInv, KeysMatch
<1>2. QED
  BY <1>1, CaInvariant, PTL

-----------------------------------------------------------------------------
(* NothingVanishes: what a mark announces is found in the notes, and when  *)
(* the mark goes, in index.txt or with the root, as long as a process does *)
(* not give up.  So a process has to know more of its steps: that no CA is *)
(* set at those which take or give up a lock, and what the mark says.      *)
WithoutCa == {"unlock", "cd", "lock", "enter", "drop_ca"}
LeavesCa == {"clean", "unlock", "cd", "lock"}
EntersCa == {"enter", "switch", "new_ca", "refresh", "next"}

(* At step i of t no CA will be set; none says that there is none now.     *)
NotSet(t, none, i) ==
  \/ i > 1 /\ t[i - 1].do \in LeavesCa
  \/ none /\ \A j \in 1..(i - 1) : t[j].do \notin EntersCa
Placed(t, none) == \A i \in 1..Len(t) : t[i].do \in WithoutCa => NotSet(t, none, i)

(* These two steps come one behind the other and nowhere else.             *)
Pairs == {<<"mark-root", "make-root">>, <<"mark", "request">>, <<"request", "sign">>}
Firsts == {"mark-root", "mark", "request"}
Seconds == {"make-root", "request", "sign"}
Follows(x, y) == \A pair \in Pairs : x = pair[1] <=> y = pair[2]
Paired(t) == \A i \in 1..Len(t), j \in 1..Len(t) : j = i + 1 => Follows(t[i].do, t[j].do)

(* A mark that get_ca does not need any more.                              *)
Settled(d) == d.mark \in Listed(d) \union {0, -2}
MarkTells(do, n, d) ==
  /\ do = "make-root" => d.mark = Root
  /\ do \in {"request", "sign"} => d.mark = n
  /\ do \notin Seconds \union {"clean"} => Settled(d)

PlanInv(p) ==
  /\ Placed(todo[p], Chosen(p) = NoCA) /\ Paired(todo[p])
  /\ Chosen(p) # NoCA => Held(p) = Chosen(p) /\ cwd[p] \in {Chosen(p), NoCA}
  /\ Chosen(p) # NoCA /\ cwd[p] # NoCA => MarkTells(Head(todo[p]).do, number[p], Dir(p))

(* What get_ca has still to report it has found or will find: the notes of *)
(* it, and the rest in the order in which the generator writes.            *)
Finds(x) ==
  LET d == dirs[reader.ca] IN
    \/ reader.at = "generating" /\ x \in Listed(d) \union {d.mark}
    \/ reader.at = "index" /\ x \in Listed(d) \union {reader.mark}
    \/ reader.at = "notes" /\ x # Root /\ x \in reader.index \union {reader.mark}
    \/ reader.at = "root" /\ x # Root /\ x \in reader.report
    \/ reader.at \in {"notes", "root"} /\ x = Root /\ (d.root \/ reader.mark = Root)
    \/ reader.at = "done" /\ x \in reader.report
    \/ reader.at = "failed"
WatchInv ==
  /\ reader.at = "new" => due = {}
  /\ \A x \in due : /\ x \in (Nat \ {0}) \union {Root} /\ Finds(x)
                    /\ reader.at \in {"generating", "index", "notes"} => x \in dirs[reader.ca].notes \union {Root}

(* A mark is noted first, and there are no files without their directory.  *)
FilesInv(c) ==
  /\ dirs[c].mark \in dirs[c].notes \union {0, Root, -2}
  /\ dirs[c].state = "absent" => dirs[c].mark = 0 /\ Listed(dirs[c]) = {} /\ dirs[c].notes = {}

VanishInv ==
  /\ \A p \in Procs : status[p] = "running" => PlanInv(p)
  /\ \A c \in CAs : FilesInv(c)
  /\ WatchInv

(* What is said of a sequence of steps is said of its tail.                *)
LEMMA PlanTail ==
  ASSUME NEW t \in Seq(StepSet), t # <<>>, NEW n, NEW m, Placed(t, n), Paired(t),
         n /\ Head(t).do \notin EntersCa => m, Head(t).do \in LeavesCa => m
  PROVE  /\ Placed(Tail(t), m) /\ Paired(Tail(t))
         /\ Tail(t) # <<>> => Follows(Head(t).do, Head(Tail(t)).do)
<1> DEFINE v == Tail(t)
<1>1. /\ Len(t) \in Nat \ {0} /\ v \in Seq(StepSet) /\ Len(v) = Len(t) - 1
      /\ Head(t) = t[1] /\ \A i \in 1..(Len(t) - 1) : v[i] = t[i + 1]
  BY EmptySeq, HeadTailProperties
<1> HIDE DEF v
<1>2. ASSUME NEW i \in 1..Len(v), v[i].do \in WithoutCa
      PROVE  NotSet(v, m, i)
  <2>1. i + 1 \in 1..Len(t) /\ v[i] = t[i + 1] /\ i \in Nat /\ (i + 1) - 1 = i
    BY <1>1
  <2>2. NotSet(t, n, i + 1)
    BY <1>2, <2>1 DEF Placed
  <2>3. CASE t[i].do \in LeavesCa
    <3>1. CASE i = 1
      <4>1. m
        BY <1>1, <2>3, <3>1
      <4>2. 1..(i - 1) = {}
        BY <3>1
      <4>3. QED
        BY <4>1, <4>2 DEF NotSet
    <3>2. CASE i > 1
      <4>1. i - 1 \in 1..(Len(t) - 1) /\ (i - 1) + 1 = i
        BY <1>1, <2>1, <3>2
      <4>2. v[i - 1] = t[i]
        BY <1>1, <4>1
      <4>3. QED
        BY <2>3, <3>2, <4>2 DEF NotSet
    <3>3. QED
      BY <2>1, <3>1, <3>2
  <2>4. CASE n /\ \A j \in 1..i : t[j].do \notin EntersCa
    <3>1. m
      BY <1>1, <2>1, <2>4
    <3>2. ASSUME NEW j \in 1..(i - 1) PROVE v[j].do \notin EntersCa
      <4>1. j \in 1..(Len(t) - 1) /\ j + 1 \in 1..i
        BY <1>1, <2>1
      <4>2. QED
        BY <1>1, <2>4, <4>1
    <3>3. QED
      BY <3>1, <3>2 DEF NotSet
  <2>5. QED
    BY <2>1, <2>2, <2>3, <2>4 DEF NotSet
<1>3. ASSUME NEW i \in 1..Len(v), NEW j \in 1..Len(v), j = i + 1
      PROVE  Follows(v[i].do, v[j].do)
  <2>1. i + 1 \in 1..Len(t) /\ j + 1 \in 1..Len(t) /\ j + 1 = (i + 1) + 1
    BY <1>1, <1>3
  <2>2. v[i] = t[i + 1] /\ v[j] = t[j + 1]
    BY <1>1, <1>3
  <2>3. QED
    BY <2>1, <2>2 DEF Paired
<1>4. ASSUME v # <<>> PROVE Follows(Head(t).do, Head(v).do)
  <2>1. Len(v) # 0 /\ Head(v) = v[1]
    BY <1>1, <1>4, EmptySeq, HeadTailProperties
  <2>2. 1 \in 1..Len(t) /\ 2 \in 1..Len(t) /\ 2 = 1 + 1 /\ v[1] = t[2]
    BY <1>1, <2>1
  <2>3. Follows(t[1].do, t[2].do)
    BY <2>2 DEF Paired
  <2>4. QED
    BY <1>1, <2>1, <2>2, <2>3
<1>5. QED
  BY <1>2, <1>3, <1>4 DEF Placed, Paired, v

(* And of two of them, one behind the other: no CA is set at the end of    *)
(* the first one, if none was and none of its steps sets one.              *)
LEMMA PlanConcat ==
  ASSUME NEW u \in Seq(StepSet), NEW v \in Seq(StepSet), NEW n, NEW m,
         Placed(u, n), Placed(v, m), Paired(u), Paired(v),
         m => n /\ \A j \in 1..Len(u) : u[j].do \notin EntersCa,
         u # <<>> => u[Len(u)].do \notin Firsts, v # <<>> => Head(v).do \notin Seconds
  PROVE  Placed(u \o v, n) /\ Paired(u \o v)
<1> DEFINE t == u \o v
           a == Len(u)
<1>1. /\ a \in Nat /\ Len(v) \in Nat /\ Len(t) = a + Len(v)
      /\ \A i \in 1..(a + Len(v)) : t[i] = IF i <= a THEN u[i] ELSE v[i - a]
  BY LenProperties, ConcatProperties
<1>2. \A i \in 1..a : t[i] = u[i]
  BY <1>1
<1>3. \A i \in 1..Len(v) : t[i + a] = v[i]
  <2>1. ASSUME NEW i \in 1..Len(v) PROVE t[i + a] = v[i]
    <3>1. i + a \in 1..(a + Len(v)) /\ ~(i + a <= a) /\ (i + a) - a = i
      BY <1>1
    <3>2. QED
      BY <1>1, <3>1
  <2>2. QED
    BY <2>1
<1>0. \A i \in 1..Len(t) : i \in 1..a \/ \E k \in 1..Len(v) : i = k + a
  <2>1. ASSUME NEW i \in 1..(a + Len(v)), i \notin 1..a PROVE \E k \in 1..Len(v) : i = k + a
    <3>1. i - a \in 1..Len(v) /\ i = (i - a) + a
      BY <1>1, <2>1
    <3>2. QED
      BY <3>1
  <2>2. QED
    BY <1>1, <2>1
<1> HIDE DEF t
<1>4. ASSUME NEW i \in 1..Len(t), t[i].do \in WithoutCa
      PROVE  NotSet(t, n, i)
  <2>1. CASE i \in 1..a
    <3>1. NotSet(u, n, i)
      BY <1>2, <1>4, <2>1 DEF Placed
    <3>2. \A j \in 1..(i - 1) : j \in 1..a
      BY <1>1, <2>1
    <3>3. i > 1 => i - 1 \in 1..a
      BY <1>1, <2>1
    <3>4. QED
      BY <1>2, <3>1, <3>2, <3>3 DEF NotSet
  <2>2. CASE i \notin 1..a
    <3>1. PICK k \in 1..Len(v) : i = k + a
      BY <1>0, <2>2
    <3>2. NotSet(v, m, k)
      BY <1>3, <1>4, <3>1 DEF Placed
    <3>3. CASE k > 1 /\ v[k - 1].do \in LeavesCa
      <4>1. k - 1 \in 1..Len(v) /\ (k - 1) + a = i - 1 /\ i > 1
        BY <1>1, <3>1, <3>3
      <4>2. QED
        BY <1>3, <3>3, <4>1 DEF NotSet
    <3>4. CASE m /\ \A j \in 1..(k - 1) : v[j].do \notin EntersCa
      <4>1. ASSUME NEW j \in 1..(i - 1) PROVE t[j].do \notin EntersCa
        <5>1. CASE j \in 1..a
          BY <1>2, <3>4, <5>1
        <5>2. CASE j \notin 1..a
          <6>1. j \in 1..Len(t)
            BY <1>1
          <6>2. PICK h \in 1..Len(v) : j = h + a
            BY <1>0, <5>2, <6>1
          <6>3. h \in 1..(k - 1)
            BY <1>1, <3>1, <6>2
          <6>4. QED
            BY <1>3, <3>4, <6>2, <6>3
        <5>3. QED
          BY <5>1, <5>2
      <4>2. QED
        BY <3>4, <4>1 DEF NotSet
    <3>5. QED
      BY <3>2, <3>3, <3>4 DEF NotSet
  <2>3. QED
    BY <2>1, <2>2
<1>5. ASSUME NEW i \in 1..Len(t), NEW j \in 1..Len(t), j = i + 1
      PROVE  Follows(t[i].do, t[j].do)
  <2>1. CASE j \in 1..a
    <3>1. i \in 1..a
      BY <1>5, <2>1
    <3>2. QED
      BY <1>2, <1>5, <2>1, <3>1 DEF Paired
  <2>2. CASE i \notin 1..a
    <3>1. PICK k \in 1..Len(v) : i = k + a
      BY <1>0, <2>2
    <3>2. k + 1 \in 1..Len(v) /\ j = (k + 1) + a
      BY <1>1, <1>5, <3>1
    <3>3. QED
      BY <1>3, <3>1, <3>2 DEF Paired
  <2>3. CASE i \in 1..a /\ j \notin 1..a
    <3>1. i = a /\ j = 1 + a /\ 1 \in 1..Len(v) /\ Len(u) # 0 /\ Len(v) # 0
      BY <1>1, <1>5, <2>3
    <3>2. u # <<>> /\ v # <<>> /\ Head(v) = v[1]
      BY <3>1, EmptySeq, HeadTailProperties
    <3>3. t[i].do \notin Firsts /\ t[j].do \notin Seconds
      BY <1>2, <1>3, <2>3, <3>1, <3>2
    <3>4. QED
      BY <3>3 DEF Follows, Pairs, Firsts, Seconds
  <2>4. QED
    BY <2>1, <2>2, <2>3
<1>6. QED
  BY <1>4, <1>5 DEF Placed, Paired, t

(* A plan that can follow another one and be followed by another one.      *)
Fits(u, n) ==
  /\ Placed(u, n) /\ Paired(u)
  /\ u # <<>> => u[1].do \notin Seconds /\ u[Len(u)].do \notin Firsts

(* The words that make a mark.                                             *)
LEMMA MarkingWords ==
  ASSUME NEW w \in {"gen_ca", "gen"}, NEW c, NEW n
  PROVE  LET u == CommandSteps(w, c)
         IN  Fits(u, n) /\ \A i \in 1..Len(u) : u[i].do \notin EntersCa
<1>1. CASE w = "gen_ca"
  <2>1. PICK u : u = CommandSteps(w, c)
    OBVIOUS
  <2>2. /\ Len(u) = 6 /\ u[1].do = "chosen" /\ u[2].do = "fresh" /\ u[3].do = "mark-root"
        /\ u[4].do = "make-root" /\ u[5].do = "crl" /\ u[6].do = "unmark"
    BY <1>1, <2>1 DEF CommandSteps, Steps, Plain, Step
  <2>3. 1..6 = {1, 2, 3, 4, 5, 6}
    OBVIOUS
  <2>4. \A i \in 1..6 : u[i].do \notin WithoutCa \union EntersCa
    BY <2>2, <2>3 DEF WithoutCa, EntersCa
  <2>5. ASSUME NEW i \in 1..6, NEW j \in 1..6, j = i + 1 PROVE Follows(u[i].do, u[j].do)
    <3>1. i \in 1..5
      BY <2>5
    <3>2. CASE i = 1
      BY <2>2, <2>5, <3>2 DEF Follows, Pairs
    <3>3. CASE i = 2
      BY <2>2, <2>5, <3>3 DEF Follows, Pairs
    <3>4. CASE i = 3
      BY <2>2, <2>5, <3>4 DEF Follows, Pairs
    <3>5. CASE i = 4
      BY <2>2, <2>5, <3>5 DEF Follows, Pairs
    <3>6. CASE i = 5
      BY <2>2, <2>5, <3>6 DEF Follows, Pairs
    <3>7. QED
      BY <3>1, <3>2, <3>3, <3>4, <3>5, <3>6
  <2>6. u[1].do \notin Seconds /\ u[Len(u)].do \notin Firsts
    BY <2>2 DEF Firsts, Seconds
  <2>7. Placed(u, n) /\ Paired(u)
    BY <2>2, <2>4, <2>5 DEF Placed, Paired
  <2>8. QED
    BY <2>1, <2>2, <2>4, <2>6, <2>7 DEF Fits
<1>2. CASE w = "gen"
  <2>1. PICK u : u = CommandSteps(w, c)
    OBVIOUS
  <2>2. /\ Len(u) = 8 /\ u[1].do = "chosen" /\ u[2].do = "number" /\ u[3].do = "note" /\ u[4].do = "mark"
        /\ u[5].do = "request" /\ u[6].do = "sign" /\ u[7].do = "crl" /\ u[8].do = "unmark"
    BY <1>2, <2>1 DEF CommandSteps, GenSteps, Steps, Plain, Step
  <2>3. 1..8 = {1, 2, 3, 4, 5, 6, 7, 8}
    OBVIOUS
  <2>4. \A i \in 1..8 : u[i].do \notin WithoutCa \union EntersCa
    BY <2>2, <2>3 DEF WithoutCa, EntersCa
  <2>5. ASSUME NEW i \in 1..8, NEW j \in 1..8, j = i + 1 PROVE Follows(u[i].do, u[j].do)
    <3>1. i \in 1..7
      BY <2>5
    <3>2. CASE i = 1
      BY <2>2, <2>5, <3>2 DEF Follows, Pairs
    <3>3. CASE i = 2
      BY <2>2, <2>5, <3>3 DEF Follows, Pairs
    <3>4. CASE i = 3
      BY <2>2, <2>5, <3>4 DEF Follows, Pairs
    <3>5. CASE i = 4
      BY <2>2, <2>5, <3>5 DEF Follows, Pairs
    <3>6. CASE i = 5
      BY <2>2, <2>5, <3>6 DEF Follows, Pairs
    <3>7. CASE i = 6
      BY <2>2, <2>5, <3>7 DEF Follows, Pairs
    <3>8. CASE i = 7
      BY <2>2, <2>5, <3>8 DEF Follows, Pairs
    <3>9. QED
      BY <3>1, <3>2, <3>3, <3>4, <3>5, <3>6, <3>7, <3>8
  <2>6. u[1].do \notin Seconds /\ u[Len(u)].do \notin Firsts
    BY <2>2 DEF Firsts, Seconds
  <2>7. Placed(u, n) /\ Paired(u)
    BY <2>2, <2>4, <2>5 DEF Placed, Paired
  <2>8. QED
    BY <2>1, <2>2, <2>4, <2>6, <2>7 DEF Fits
<1>3. QED
  BY <1>1, <1>2

(* Steps that make no certificate are never paired.                        *)
LEMMA Unpaired ==
  ASSUME NEW u, Len(u) \in Nat, \A i \in 1..Len(u) : u[i].do \notin Firsts \union Seconds, NEW n, Placed(u, n),
         u # <<>> => Len(u) # 0
  PROVE  Fits(u, n)
<1>1. Paired(u)
  BY DEF Paired, Follows, Pairs, Firsts, Seconds
<1>2. u # <<>> => 1 \in 1..Len(u) /\ Len(u) \in 1..Len(u)
  OBVIOUS
<1>3. QED
  BY <1>1, <1>2 DEF Fits

(* do_switch.                                                              *)
LEMMA SwitchPlan ==
  ASSUME NEW c, NEW n
  PROVE  /\ Len(Switch(c)) = 5 /\ Fits(Switch(c), n)
         /\ Switch(c)[1].do = "clean" /\ Switch(c)[5].do = "enter"
<1>1. PICK u : u = Switch(c)
  OBVIOUS
<1>2. /\ Len(u) = 5 /\ u[1].do = "clean" /\ u[2].do = "unlock" /\ u[3].do = "cd"
      /\ u[4].do = "lock" /\ u[5].do = "enter"
  BY <1>1 DEF Switch, CleanupSteps, Steps, Plain, Step
<1>3. 1..5 = {1, 2, 3, 4, 5} /\ 2 - 1 = 1 /\ 3 - 1 = 2 /\ 4 - 1 = 3 /\ 5 - 1 = 4 /\ 2 > 1 /\ 3 > 1 /\ 4 > 1 /\ 5 > 1
  OBVIOUS
<1>4. \A i \in 1..5 : u[i].do \notin Firsts \union Seconds
  BY <1>2, <1>3 DEF Firsts, Seconds
<1>5. \A i \in 1..5 : i # 1 => i > 1 /\ u[i - 1].do \in LeavesCa
  BY <1>2, <1>3 DEF LeavesCa
<1>6. u[1].do \notin WithoutCa
  BY <1>2 DEF WithoutCa
<1>7. Placed(u, n)
  <2>1. \A i \in 1..5 : i # 1 => NotSet(u, n, i)
    BY <1>5 DEF NotSet
  <2>2. QED
    BY <1>2, <1>6, <2>1 DEF Placed
<1>8. Fits(u, n)
  <2>1. Len(u) \in Nat /\ Len(u) # 0 /\ \A i \in 1..Len(u) : u[i].do \notin Firsts \union Seconds
    BY <1>2, <1>4
  <2>2. QED
    BY <1>7, <2>1, Unpaired, Zenon
<1>9. QED
  BY <1>1, <1>2, <1>8

(* The words that set a CA, and those that neither do nor make a mark.     *)
LEMMA OtherWords ==
  ASSUME NEW w \in Words \ {"gen_ca", "gen"}, NEW c, NEW n, w = "drop_ca" => n
  PROVE  LET u == CommandSteps(w, c)
         IN  Fits(u, n) /\ (w \notin EntersCa => \A i \in 1..Len(u) : u[i].do \notin EntersCa)
<1>1. CASE w = "switch"
  BY <1>1, SwitchPlan DEF CommandSteps, EntersCa
<1>2. CASE w = "new_ca"
  <2>1. PICK u : u = CommandSteps(w, c)
    OBVIOUS
  <2>2. /\ Len(u) = 8 /\ u[1].do = "mkdir" /\ u[2].do = "touch" /\ u[3].do = "reset" /\ u[4].do = "clean"
        /\ u[5].do = "unlock" /\ u[6].do = "cd" /\ u[7].do = "lock" /\ u[8].do = "enter"
    BY <1>2, <2>1 DEF CommandSteps, Switch, CleanupSteps, Steps, Plain, Step
  <2>3. /\ 1..8 = {1, 2, 3, 4, 5, 6, 7, 8} /\ 5 - 1 = 4 /\ 6 - 1 = 5 /\ 7 - 1 = 6 /\ 8 - 1 = 7
        /\ 5 > 1 /\ 6 > 1 /\ 7 > 1 /\ 8 > 1
    OBVIOUS
  <2>4. \A i \in 1..8 : u[i].do \notin Firsts \union Seconds
    BY <2>2, <2>3 DEF Firsts, Seconds
  <2>5. \A i \in {5, 6, 7, 8} : i > 1 /\ u[i - 1].do \in LeavesCa
    BY <2>2, <2>3 DEF LeavesCa
  <2>6. \A i \in {1, 2, 3, 4} : u[i].do \notin WithoutCa
    BY <2>2 DEF WithoutCa
  <2>7. Placed(u, n)
    BY <2>2, <2>3, <2>5, <2>6 DEF Placed, NotSet
  <2>8. Fits(u, n)
    <3>1. Len(u) \in Nat /\ Len(u) # 0 /\ \A i \in 1..Len(u) : u[i].do \notin Firsts \union Seconds
      BY <2>2, <2>4
    <3>2. QED
      BY <2>7, <3>1, Unpaired, Zenon
  <2>9. QED
    BY <1>2, <2>1, <2>8 DEF EntersCa
<1>3. CASE w = "drop_ca"
  <2>1. PICK u : u = CommandSteps(w, c)
    OBVIOUS
  <2>2. /\ Len(u) = 6 /\ u[1].do = "other" /\ u[2].do = "unlock" /\ u[3].do = "lock" /\ u[4].do = "empty"
        /\ u[5].do = "rmdir" /\ u[6].do = "unlock"
    BY <1>3, <2>1 DEF CommandSteps, Plain, Step
  <2>3. 1..6 = {1, 2, 3, 4, 5, 6}
    OBVIOUS
  <2>4. \A i \in 1..6 : u[i].do \notin Firsts \union Seconds
    BY <2>2, <2>3 DEF Firsts, Seconds
  <2>5. \A i \in 1..6 : u[i].do \notin EntersCa
    BY <2>2, <2>3 DEF EntersCa
  <2>6. \A i \in 1..6 : \A j \in 1..(i - 1) : j \in 1..6
    OBVIOUS
  <2>7. Placed(u, n)
    <3>1. \A i \in 1..6 : NotSet(u, n, i)
      BY <1>3, <2>5, <2>6 DEF NotSet
    <3>2. QED
      BY <2>2, <3>1 DEF Placed
  <2>8. Fits(u, n)
    <3>1. Len(u) \in Nat /\ Len(u) # 0 /\ \A i \in 1..Len(u) : u[i].do \notin Firsts \union Seconds
      BY <2>2, <2>4
    <3>2. QED
      BY <2>7, <3>1, Unpaired, Zenon
  <2>9. QED
    BY <2>1, <2>2, <2>5, <2>8
<1>4. CASE w = "gen_dh"
  <2>1. PICK u : u = CommandSteps(w, c)
    OBVIOUS
  <2>2. Len(u) = 2 /\ u[1].do = "mark-dh" /\ u[2].do = "unmark"
    BY <1>4, <2>1 DEF CommandSteps, Steps, Plain, Step
  <2>3. 1..2 = {1, 2}
    OBVIOUS
  <2>4. \A i \in 1..2 : u[i].do \notin Firsts \union Seconds \union EntersCa \union WithoutCa
    BY <2>2, <2>3 DEF Firsts, Seconds, EntersCa, WithoutCa
  <2>5. Placed(u, n)
    BY <2>2, <2>4 DEF Placed
  <2>6. QED
    BY <2>1, <2>2, <2>4, <2>5, Unpaired
<1>5. CASE w = "revoke"
  <2>1. PICK u : u = CommandSteps(w, c)
    OBVIOUS
  <2>2. Len(u) = 3 /\ u[1].do = "chosen" /\ u[2].do = "openssl-revoke" /\ u[3].do = "crl"
    BY <1>5, <2>1 DEF CommandSteps, Steps, Plain, Step
  <2>3. 1..3 = {1, 2, 3}
    OBVIOUS
  <2>4. \A i \in 1..3 : u[i].do \notin Firsts \union Seconds \union EntersCa \union WithoutCa
    BY <2>2, <2>3 DEF Firsts, Seconds, EntersCa, WithoutCa
  <2>5. Placed(u, n)
    BY <2>2, <2>4 DEF Placed
  <2>6. QED
    BY <2>1, <2>2, <2>4, <2>5, Unpaired
<1>6. CASE w = "-"
  <2>1. CommandSteps(w, c) = <<>> /\ Len(<<>>) = 0
    BY <1>6 DEF CommandSteps
  <2>2. Placed(<<>>, n)
    BY DEF Placed
  <2>3. QED
    BY <2>1, <2>2, Unpaired
<1>7. QED
  BY <1>1, <1>2, <1>3, <1>4, <1>5, <1>6 DEF Words

(* The steps of a word, in a plan.                                         *)
LEMMA WordPlan ==
  ASSUME NEW w \in Words, NEW c, NEW n, w = "drop_ca" => n
  PROVE  LET u == CommandSteps(w, c)
         IN  Fits(u, n) /\ (w \notin EntersCa => \A i \in 1..Len(u) : u[i].do \notin EntersCa)
BY MarkingWords, OtherWords

(* The end of the script, and a round of the refresh.                      *)
LEMMA EndingPlan ==
  ASSUME NEW n
  PROVE  Fits(Ending, n) /\ Ending # <<>> /\ Head(Ending).do = "clean" /\ Ending \in Seq(StepSet)
<1>1. PICK u : u = Ending
  OBVIOUS
<1>2. /\ Len(u) = 3 /\ u[1].do = "clean" /\ u[2].do = "unlock" /\ u[3].do = "exit" /\ Head(u) = u[1]
  BY <1>1 DEF Ending, CleanupSteps, Steps, Plain, Step
<1>3. 1..3 = {1, 2, 3} /\ 2 - 1 = 1 /\ 2 > 1
  OBVIOUS
<1>4. \A i \in 1..3 : u[i].do \notin Firsts \union Seconds
  BY <1>2, <1>3 DEF Firsts, Seconds
<1>5. u[1].do \notin WithoutCa /\ u[3].do \notin WithoutCa /\ u[2 - 1].do \in LeavesCa
  BY <1>2, <1>3 DEF LeavesCa, WithoutCa
<1>6. Placed(u, n)
  BY <1>2, <1>3, <1>5 DEF Placed, NotSet
<1>7. Len(u) \in Nat /\ Len(u) # 0 /\ \A i \in 1..Len(u) : u[i].do \notin Firsts \union Seconds
  BY <1>2, <1>4
<1>8. Fits(u, n)
  BY <1>6, <1>7, Unpaired, Zenon
<1>9. u \in Seq(StepSet)
  <2>1. PICK k \in Know : k = Nothing
    BY Kinds
  <2>2. QED
    BY <1>1, EndingTyped
<1>10. u # <<>>
  BY <1>7, <1>9, EmptySeq
<1>11. QED
  BY <1>1, <1>2, <1>8, <1>9, <1>10

(* After the word before it, it may begin anywhere.                        *)
LEMMA RoundPlan ==
  ASSUME NEW list \in Seq(CAs), NEW n
  PROVE  Round(list) \in Seq(StepSet) /\ Fits(Round(list), n)
<1>1. Round(list) \in Seq(StepSet)
  BY RoundChain
<1>2. CASE list = <<>>
  <2>1. Round(list) = <<>> /\ Len(<<>>) = 0
    BY <1>2 DEF Round
  <2>2. Placed(<<>>, n)
    BY DEF Placed
  <2>3. QED
    BY <1>1, <2>1, <2>2, Unpaired
<1>3. CASE list # <<>>
  <2>1. PICK u : u = Round(list)
    OBVIOUS
  <2>2. /\ Len(u) = 7 /\ u[1].do = "clean" /\ u[2].do = "unlock" /\ u[3].do = "cd"
        /\ u[4].do = "lock" /\ u[5].do = "enter" /\ u[6].do = "crl" /\ u[7].do = "next"
    BY <1>3, <2>1 DEF Round, Switch, CleanupSteps, Steps, Plain, Step
  <2>3. /\ 1..7 = {1, 2, 3, 4, 5, 6, 7} /\ 2 - 1 = 1 /\ 3 - 1 = 2 /\ 4 - 1 = 3 /\ 5 - 1 = 4
        /\ 2 > 1 /\ 3 > 1 /\ 4 > 1 /\ 5 > 1
    OBVIOUS
  <2>4. \A i \in 1..7 : u[i].do \notin Firsts \union Seconds
    BY <2>2, <2>3 DEF Firsts, Seconds
  <2>5. \A i \in {2, 3, 4, 5} : i > 1 /\ u[i - 1].do \in LeavesCa
    BY <2>2, <2>3 DEF LeavesCa
  <2>6. \A i \in {1, 6, 7} : u[i].do \notin WithoutCa
    BY <2>2 DEF WithoutCa
  <2>7. Placed(u, n)
    BY <2>2, <2>3, <2>5, <2>6 DEF Placed, NotSet
  <2>8. Len(u) \in Nat /\ Len(u) # 0 /\ \A i \in 1..Len(u) : u[i].do \notin Firsts \union Seconds
    BY <2>2, <2>4
  <2>9. QED
    BY <1>1, <2>1, <2>7, <2>8, Unpaired, Zenon
<1>4. QED
  BY <1>2, <1>3

(* A plan before the steps that are left.                                  *)
LEMMA Joined ==
  ASSUME NEW u \in Seq(StepSet), NEW v \in Seq(StepSet), NEW n, NEW m, Fits(u, n), Placed(v, m), Paired(v),
         m => n /\ \A j \in 1..Len(u) : u[j].do \notin EntersCa, v # <<>>, Head(v).do \notin Seconds
  PROVE  /\ u \o v \in Seq(StepSet) /\ u \o v # <<>> /\ Head(u \o v).do \notin Seconds
         /\ Placed(u \o v, n) /\ Paired(u \o v)
<1>1. Placed(u, n) /\ Paired(u) /\ (u # <<>> => u[Len(u)].do \notin Firsts /\ u[1].do \notin Seconds)
  BY DEF Fits
<1>2. Placed(u \o v, n) /\ Paired(u \o v)
  BY <1>1, PlanConcat
<1>3. /\ u \o v \in Seq(StepSet) /\ Len(u \o v) = Len(u) + Len(v) /\ Len(u) \in Nat
      /\ Len(v) \in Nat /\ Len(v) # 0 /\ Head(v) = v[1]
      /\ \A i \in 1..(Len(u) + Len(v)) : (u \o v)[i] = IF i <= Len(u) THEN u[i] ELSE v[i - Len(u)]
  BY LenProperties, ConcatProperties, EmptySeq, HeadTailProperties
<1>4. 1 \in 1..(Len(u) + Len(v)) /\ Len(u) + Len(v) # 0 /\ (Len(u) = 0 => 1 - Len(u) = 1)
  BY <1>3
<1>5. u \o v # <<>> /\ Head(u \o v) = (u \o v)[1]
  BY <1>3, <1>4, EmptySeq, HeadTailProperties
<1>6. Head(u \o v) = IF Len(u) = 0 THEN v[1] ELSE u[1]
  BY <1>3, <1>4, <1>5
<1>7. Head(u \o v).do \notin Seconds
  <2>1. CASE Len(u) = 0
    BY <1>3, <1>6, <2>1
  <2>2. CASE Len(u) # 0
    <3>1. u # <<>>
      BY <2>2, EmptySeq
    <3>2. QED
      BY <1>1, <1>6, <2>2, <3>1
  <2>3. QED
    BY <2>1, <2>2
<1>8. QED
  BY <1>2, <1>3, <1>5, <1>7

(* A line that deletes CAs has no CA set; all others end with one set.     *)
LEMMA JobPlan ==
  ASSUME NEW job \in Jobs
  PROVE  LET t == job \o Ending
         IN  t \in Seq(StepSet) /\ Placed(t, TRUE) /\ Paired(t) /\ t # <<>> /\ Head(t).do \notin Seconds
<1>1. job \in Seq(StepSet) /\ DropsFirst(job)
  BY JobTyped, DropsAssumption
<1>2. /\ Len(job) \in Nat
      /\ \A i \in 1..Len(job) : job[i].do \in Words \union {"refresh", "background"}
  <2> DEFINE R == [do : Words \union {"refresh", "background"}, ca : CAs \union {NoCA}]
  <2>1. job \in Seq(R)
    BY JobsAssumption DEF Lines
  <2>2. \A r \in R : r.do \in Words \union {"refresh", "background"}
    OBVIOUS
  <2> HIDE DEF R
  <2>3. \A i \in 1..Len(job) : job[i] \in R
    BY <2>1, ElementOfSeq
  <2>4. QED
    BY <1>1, <2>2, <2>3, LenProperties
<1>3. ASSUME NEW i \in 1..Len(job), job[i].do \in WithoutCa
      PROVE  NotSet(job, TRUE, i)
  <2>1. job[i].do = "drop_ca"
    BY <1>2, <1>3 DEF WithoutCa, Words
  <2>2. ASSUME NEW j \in 1..(i - 1) PROVE job[j].do \notin EntersCa
    <3>1. j \in 1..Len(job) /\ j < i
      BY <1>2
    <3>2. job[j].do \notin {"switch", "new_ca", "refresh"}
      BY <1>1, <2>1, <3>1 DEF DropsFirst, Entering
    <3>3. QED
      BY <1>2, <3>1, <3>2 DEF EntersCa, Words
  <2>3. QED
    BY <2>2 DEF NotSet
<1>4. \A i \in 1..Len(job) : job[i].do \notin Firsts \union Seconds
  BY <1>2 DEF Words, Firsts, Seconds
<1>5. Placed(job, TRUE)
  BY <1>3 DEF Placed
<1>6. job # <<>> => Len(job) # 0
  BY <1>1, EmptySeq
<1>7. Fits(job, TRUE)
  BY <1>2, <1>4, <1>5, <1>6, Unpaired
<1>8. /\ Fits(Ending, FALSE) /\ Ending # <<>> /\ Head(Ending).do = "clean" /\ Ending \in Seq(StepSet)
  BY EndingPlan
<1>9. Head(Ending).do \notin Seconds /\ Placed(Ending, FALSE) /\ Paired(Ending)
  BY <1>8 DEF Seconds, Fits
<1>10. QED
  BY <1>1, <1>7, <1>8, <1>9, Joined

-----------------------------------------------------------------------------
(* What a step of p may do to the marks of the others, and to get_ca.      *)
Untouched(c) == dirs'[c].mark = dirs[c].mark /\ Listed(dirs[c]) \subseteq Listed(dirs'[c])
Kept(c) ==
  /\ dirs[c].index \subseteq dirs'[c].index /\ dirs[c].notes \subseteq dirs'[c].notes
  /\ dirs[c].root => dirs'[c].root
  /\ dirs'[c].mark = dirs[c].mark \/ dirs[c].mark \notin due' \/ dirs[c].mark \in Listed(dirs'[c])

(* The others have what they had.                                          *)
LEMMA OthersPlan ==
  ASSUME CaInv, NEW q \in Procs, status[q] = "running", PlanInv(q), Same(q),
         Chosen(q) # NoCA /\ lock[Chosen(q)] = q => Untouched(Chosen(q))
  PROVE  PlanInv(q)'
<1>1. Chosen(q)' = Chosen(q) /\ Held(q)' = Held(q) /\ todo'[q] = todo[q] /\ number'[q] = number[q]
  BY DEF Same, Chosen, Held
<1>2. Placed(todo'[q], Chosen(q)' = NoCA) /\ Paired(todo'[q])
  BY <1>1 DEF PlanInv
<1>3. Chosen(q) # NoCA => Held(q) = Chosen(q) /\ cwd[q] \in {Chosen(q), NoCA} /\ cwd'[q] \in {cwd[q], NoCA}
  BY DEF PlanInv, Same
<1>4. ASSUME Chosen(q) # NoCA, cwd'[q] # NoCA
      PROVE  MarkTells(Head(todo'[q]).do, number'[q], dirs'[cwd'[q]])
  <2>1. cwd'[q] = Chosen(q) /\ cwd[q] = Chosen(q) /\ lock[Chosen(q)] = q
    BY <1>3, <1>4 DEF CaInv, ProcInv, AtWorkInv
  <2>2. MarkTells(Head(todo[q]).do, number[q], dirs[Chosen(q)])
    BY <1>4, <2>1 DEF PlanInv, Dir
  <2>3. dirs'[Chosen(q)].mark = dirs[Chosen(q)].mark
    BY <1>4, <2>1 DEF Untouched
  <2>4. Listed(dirs[Chosen(q)]) \subseteq Listed(dirs'[Chosen(q)])
    BY <1>4, <2>1 DEF Untouched
  <2>5. QED
    BY <1>1, <2>1, <2>2, <2>3, <2>4 DEF MarkTells, Settled
<1>5. QED
  BY <1>1, <1>2, <1>3, <1>4 DEF PlanInv, Dir

(* get_ca still finds what it has to report.                               *)
LEMMA WatchKeeps ==
  ASSUME WatchInv, reader' = reader, due' \subseteq due, due' = {} \/ Kept(reader.ca)
  PROVE  WatchInv'
<1>1. reader.at = "new" => due' = {}
  BY DEF WatchInv
<1>2. ASSUME NEW x \in due'
      PROVE  /\ x \in (Nat \ {0}) \union {Root} /\ Finds(x)'
             /\ reader.at \in {"generating", "index", "notes"} => x \in dirs'[reader.ca].notes \union {Root}
  <2>1. /\ x \in (Nat \ {0}) \union {Root} /\ Finds(x)
        /\ reader.at \in {"generating", "index", "notes"} => x \in dirs[reader.ca].notes \union {Root}
    BY <1>2 DEF WatchInv
  <2>2. PICK d, e : d = dirs[reader.ca] /\ e = dirs'[reader.ca]
    OBVIOUS
  <2>3. /\ d.index \subseteq e.index /\ d.notes \subseteq e.notes /\ (d.root => e.root)
        /\ e.mark = d.mark \/ d.mark \notin due' \/ d.mark \in Listed(e)
    BY <1>2, <2>2 DEF Kept
  <2>4. Listed(d) \subseteq Listed(e)
    BY <2>3 DEF Listed
  <2>5. x = d.mark => x \in Listed(e) \union {e.mark}
    BY <1>2, <2>3
  <2>6. Finds(x)'
    BY <2>1, <2>2, <2>3, <2>4, <2>5 DEF Finds
  <2>7. QED
    BY <2>1, <2>2, <2>3, <2>6
<1>3. QED
  BY <1>1, <1>2 DEF WatchInv

(* What a step of p has to keep.                                           *)
LEMMA VanishConcludes ==
  ASSUME CaInv, VanishInv, NEW p \in Procs,
         \A q \in Procs \ {p} : Same(q) /\ status'[q] = status[q],
         \A c \in CAs : lock[c] = p \/ Untouched(c),
         status'[p] = "running" => PlanInv(p)',
         \A c \in CAs : FilesInv(c)',
         reader' = reader, due' \subseteq due,
         reader.at # "new" => due' = {} \/ Kept(reader.ca)
  PROVE  VanishInv'
<1>1. ASSUME NEW q \in Procs, status'[q] = "running" PROVE PlanInv(q)'
  <2>1. CASE q # p
    <3>1. status[q] = "running" /\ PlanInv(q) /\ Same(q)
      BY <1>1, <2>1 DEF VanishInv
    <3>2. ASSUME Chosen(q) # NoCA, lock[Chosen(q)] = q PROVE Untouched(Chosen(q))
      <4>1. Chosen(q) \in CAs
        BY <3>2 DEF CaInv, DataTypes, Chosen, Passed, Places
      <4>2. QED
        BY <2>1, <3>2, <4>1
    <3>3. QED
      BY <3>1, <3>2, OthersPlan
  <2>2. QED
    BY <1>1, <2>1
<1>2. WatchInv'
  <2>1. CASE reader.at = "new"
    <3>1. due = {} /\ due' = {}
      BY <2>1 DEF VanishInv, WatchInv
    <3>2. QED
      BY <3>1, WatchKeeps DEF VanishInv
  <2>2. CASE reader.at # "new"
    BY <2>2, WatchKeeps DEF VanishInv
  <2>3. QED
    BY <2>1, <2>2
<1>3. QED
  BY <1>1, <1>2 DEF VanishInv

(* A step that leaves the directories as they are.                         *)
LEMMA VanishQuietly ==
  ASSUME CaInv, VanishInv, NEW p \in Procs, UNCHANGED <<dirs, readVars>>,
         \A q \in Procs \ {p} : Same(q) /\ status'[q] = status[q],
         status'[p] = "running" => PlanInv(p)'
  PROVE  VanishInv'
<1>1. \A c \in CAs : Untouched(c)
  BY DEF Untouched
<1>2. reader' = reader /\ due' = due /\ Kept(reader.ca)
  BY DEF readVars, Kept
<1>3. \A c \in CAs : FilesInv(c)'
  BY DEF VanishInv, FilesInv
<1>4. QED
  BY <1>1, <1>2, <1>3, VanishConcludes

-----------------------------------------------------------------------------
(* What the mark says when the step do is done, for the step behind it.    *)
MarkLeft(do, n, d) ==
  /\ do = "mark-root" => d.mark = Root
  /\ do \in {"mark", "request"} => d.mark = n
  /\ do \notin Firsts => Settled(d)

(* A step that is done, and what it has to leave.                          *)
LEMMA StepDone ==
  ASSUME CaInv, NEW p \in Procs, status[p] = "running", PlanInv(p), Head(todo[p]).do # "exit",
         todo'[p] = Tail(todo[p]),
         Chosen(p) = NoCA /\ Head(todo[p]).do \notin EntersCa => Chosen(p)' = NoCA,
         Head(todo[p]).do \in LeavesCa => Chosen(p)' = NoCA,
         Chosen(p)' # NoCA => Held(p)' = Chosen(p)' /\ cwd'[p] \in {Chosen(p)', NoCA},
         Chosen(p)' # NoCA /\ cwd'[p] # NoCA => MarkLeft(Head(todo[p]).do, number'[p], Dir(p)')
  PROVE  PlanInv(p)'
<1> DEFINE t == todo[p]
           n == Chosen(p) = NoCA
           m == Chosen(p)' = NoCA
<1>1. t \in Seq(StepSet) /\ t # <<>> /\ Tail(t) # <<>>
  BY OwnFacts DEF Ends
<1>2. Placed(t, n) /\ Paired(t)
  BY DEF PlanInv
<1>3. (n /\ Head(t).do \notin EntersCa => m) /\ (Head(t).do \in LeavesCa => m)
  OBVIOUS
<1> HIDE DEF t, n, m
<1>4. Placed(Tail(t), m) /\ Paired(Tail(t)) /\ Follows(Head(t).do, Head(Tail(t)).do)
  BY <1>1, <1>2, <1>3, PlanTail
<1> DEFINE x == Head(t).do
           y == Head(Tail(t)).do
<1>5. (x = "mark-root" <=> y = "make-root") /\ (x = "mark" <=> y = "request") /\ (x = "request" <=> y = "sign")
  BY <1>4 DEF Follows, Pairs
<1>6. ASSUME NEW d, MarkLeft(x, number'[p], d) PROVE MarkTells(y, number'[p], d)
  <2> HIDE DEF x, y
  <2>1. QED
    BY <1>5, <1>6 DEF MarkLeft, MarkTells, Firsts, Seconds
<1>7. Chosen(p)' # NoCA /\ cwd'[p] # NoCA => MarkTells(y, number'[p], Dir(p)')
  BY <1>6 DEF t
<1>8. todo'[p] = Tail(t)
  BY DEF t
<1>9. Placed(todo'[p], m) /\ Paired(todo'[p])
  BY <1>4, <1>8
<1>10. QED
  BY <1>7, <1>8, <1>9 DEF PlanInv, m

(* A step that gives way to others, at which the mark is settled.          *)
LEMMA Replans ==
  ASSUME CaInv, NEW p \in Procs, status[p] = "running", PlanInv(p),
         Head(todo[p]).do \notin Firsts \union Seconds \union LeavesCa \union {"exit"},
         NEW u \in Seq(StepSet), Fits(u, Chosen(p) = NoCA), todo'[p] = u \o Tail(todo[p]),
         Head(todo[p]).do \notin EntersCa => \A j \in 1..Len(u) : u[j].do \notin EntersCa,
         UNCHANGED <<dirs, ca, lockfile, passed, number>>, cwd'[p] \in {cwd[p], NoCA}
  PROVE  PlanInv(p)'
<1> DEFINE t == todo[p]
           v == Tail(todo[p])
           n == Chosen(p) = NoCA
           m == n /\ Head(todo[p]).do \notin EntersCa
<1>1. t \in Seq(StepSet) /\ t # <<>> /\ v \in Seq(StepSet) /\ v # <<>>
  BY OwnFacts DEF Ends
<1>2. Placed(t, n) /\ Paired(t)
  BY DEF PlanInv
<1>3. (n /\ Head(t).do \notin EntersCa => m) /\ (Head(t).do \in LeavesCa => m)
  OBVIOUS
<1>4. Placed(v, m) /\ Paired(v) /\ Follows(Head(t).do, Head(v).do)
  <2> HIDE DEF n, m
  <2>1. v = Tail(t)
    OBVIOUS
  <2> HIDE DEF t, v
  <2>2. QED
    BY <1>1, <1>2, <1>3, <2>1, PlanTail
<1>5. Head(v).do \notin Seconds
  BY <1>4 DEF Follows, Pairs, Firsts, Seconds
<1>6. m => n /\ \A j \in 1..Len(u) : u[j].do \notin EntersCa
  OBVIOUS
<1>7. Head(u \o v).do \notin Seconds /\ Placed(u \o v, n) /\ Paired(u \o v)
  <2>1. Fits(u, n)
    OBVIOUS
  <2> HIDE DEF n, m, v
  <2>2. QED
    BY <1>1, <1>4, <1>5, <1>6, <2>1, Joined
<1>8. Chosen(p)' = Chosen(p) /\ Held(p)' = Held(p)
  BY DEF Chosen, Held
<1>9. ASSUME Chosen(p) # NoCA, cwd'[p] # NoCA
      PROVE  cwd'[p] = cwd[p] /\ Settled(Dir(p))
  <2>1. cwd'[p] = cwd[p] /\ MarkTells(Head(todo[p]).do, number[p], Dir(p))
    BY <1>9 DEF PlanInv
  <2>2. Head(todo[p]).do \notin Seconds \union {"clean"}
    BY DEF LeavesCa
  <2>3. QED
    BY <2>1, <2>2 DEF MarkTells
<1>10. todo'[p] = u \o v
  OBVIOUS
<1> HIDE DEF v, t, m
<1>11. \A w : MarkTells(Head(u \o v).do, w, Dir(p)) <=> Head(u \o v).do = "clean" \/ Settled(Dir(p))
  BY <1>7 DEF MarkTells, Seconds
<1>12. Chosen(p) # NoCA /\ cwd'[p] # NoCA => MarkTells(Head(todo'[p]).do, number'[p], dirs'[cwd'[p]])
  BY <1>9, <1>10, <1>11 DEF Dir
<1>13. Placed(todo'[p], Chosen(p)' = NoCA) /\ Paired(todo'[p])
  BY <1>7, <1>8, <1>10
<1>14. Chosen(p)' # NoCA => Held(p)' = Chosen(p)' /\ cwd'[p] \in {Chosen(p)', NoCA}
  BY <1>8 DEF PlanInv
<1>15. QED
  BY <1>8, <1>12, <1>13, <1>14 DEF PlanInv, Dir

(* No CA is set where no one must be.                                      *)
LEMMA NotChosen ==
  ASSUME CaInv, NEW p \in Procs, status[p] = "running", PlanInv(p), Head(todo[p]).do \in WithoutCa
  PROVE  Chosen(p) = NoCA
<1>1. PICK t : t = todo[p]
  OBVIOUS
<1>2. t \in Seq(StepSet) /\ t # <<>> /\ Head(t) = t[1]
  BY <1>1, OwnFacts, HeadTailProperties
<1>3. 1 \in 1..Len(t)
  BY <1>2, EmptySeq, LenProperties
<1>4. Placed(t, Chosen(p) = NoCA)
  BY <1>1 DEF PlanInv
<1>5. NotSet(t, Chosen(p) = NoCA, 1)
  BY <1>1, <1>2, <1>3, <1>4 DEF Placed
<1>6. QED
  BY <1>5 DEF NotSet

(* A step that fails leaves the cleanup.                                   *)
LEMMA VanishFails ==
  ASSUME CaInv, VanishInv, NEW p \in Procs, Running(p), Fails(p)
  PROVE  VanishInv'
<1>1. status[p] = "running" /\ PlanInv(p)
  BY DEF Running, VanishInv
<1>2. /\ todo' = [todo EXCEPT ![p] = Ending]
      /\ UNCHANGED <<dirs, lock, status, ca, lockfile, cwd, number, passed, readVars, renewed>>
  BY DEF Fails
<1>3. todo'[p] = Ending /\ \A q \in Procs \ {p} : Same(q) /\ status'[q] = status[q]
  BY <1>2 DEF CaInv, DataTypes, Same
<1>4. \A n : Fits(Ending, n) /\ Head(Ending).do = "clean"
  BY EndingPlan, Zenon
<1>5. Chosen(p)' = Chosen(p) /\ Held(p)' = Held(p)
  BY <1>2 DEF Chosen, Held
<1>6. Placed(todo'[p], Chosen(p)' = NoCA) /\ Paired(todo'[p]) /\ Head(todo'[p]).do = "clean"
  BY <1>3, <1>4 DEF Fits
<1>7. Chosen(p)' # NoCA => Held(p)' = Chosen(p)' /\ cwd'[p] \in {Chosen(p)', NoCA}
  BY <1>1, <1>2, <1>5 DEF PlanInv
<1>8. MarkTells(Head(todo'[p]).do, number'[p], Dir(p)')
  BY <1>6 DEF MarkTells, Seconds
<1>9. PlanInv(p)'
  BY <1>6, <1>7, <1>8 DEF PlanInv
<1>10. QED
  BY <1>2, <1>3, <1>9, VanishQuietly

-----------------------------------------------------------------------------
(* The steps that change no directory.                                     *)
LEMMA VanishCommand ==
  ASSUME CaInv, VanishInv, NEW p \in Procs, Command(p)
  PROVE  VanishInv'
<1>1. PICK w \in Words : w = Head(todo[p]).do
  BY DEF Command, Now
<1>2. PICK c : c = Head(todo[p]).ca
  OBVIOUS
<1>3. status[p] = "running" /\ PlanInv(p)
  BY DEF Command, Now, Running, VanishInv
<1> DEFINE u == CommandSteps(w, c)
<1>4. w = "drop_ca" => Chosen(p) = NoCA
  BY <1>1, <1>3, NotChosen DEF WithoutCa
<1>5. Fits(u, Chosen(p) = NoCA) /\ (w \notin EntersCa => \A j \in 1..Len(u) : u[j].do \notin EntersCa)
  <2>1. PICK n : n = (Chosen(p) = NoCA)
    OBVIOUS
  <2>2. w = "drop_ca" => n
    BY <1>4, <2>1
  <2>3. Fits(u, n) /\ (w \notin EntersCa => \A j \in 1..Len(u) : u[j].do \notin EntersCa)
    BY <2>2, WordPlan, Zenon
  <2>4. QED
    BY <2>1, <2>3
<1>6. u \in Seq(StepSet)
  <2>1. PICK k, l \in Know : Leads(k, Head(todo[p]), l)
    BY <1>3, OwnFacts
  <2>2. QED
    BY <1>1, <1>2, <1>3, <2>1, OwnFacts, WordChain
<1> HIDE DEF u
<1>7. /\ todo' = [todo EXCEPT ![p] = u \o Tail(todo[p])]
      /\ UNCHANGED <<dirs, lock, status, ca, lockfile, cwd, number, passed, readVars, renewed>>
  BY <1>1, <1>2 DEF Command, u, CaInv, DataTypes
<1>8. todo'[p] = u \o Tail(todo[p]) /\ \A q \in Procs \ {p} : Same(q) /\ status'[q] = status[q]
  BY <1>7 DEF CaInv, DataTypes, Same
<1>9. Head(todo[p]).do \notin Firsts \union Seconds \union LeavesCa \union {"exit"}
  BY <1>1 DEF Words, Firsts, Seconds, LeavesCa
<1>10. PlanInv(p)'
  BY <1>1, <1>3, <1>5, <1>6, <1>7, <1>8, <1>9, Replans
<1>11. QED
  BY <1>7, <1>8, <1>10, VanishQuietly

(* A round of the refresh is a plan behind the rest, and no CA is set.     *)
LEMMA VanishRefresh ==
  ASSUME CaInv, VanishInv, NEW p \in Procs, Refresh(p)
  PROVE  VanishInv'
<1>1. /\ Head(todo[p]).do \in {"refresh", "next"}
      /\ status[p] = "running" /\ PlanInv(p)
  BY DEF Refresh, Now, Running, VanishInv
<1>2. PICK k, l \in Know : Leads(k, Head(todo[p]), l)
  BY <1>1, OwnFacts
<1>3. Head(todo[p]).do = "next" => Arg(p) \in Seq(CAs)
  BY <1>2 DEF Leads, LeadsAnywhere, LeadsUnmarked, LeadsInside, Arg
<1>4. SetToSeq({c \in CAs : dirs[c].state # "absent"}) \in Seq(CAs)
  BY ListOfCAs
<1>5. PICK list \in Seq(CAs) :
        /\ todo' = [todo EXCEPT ![p] = Round(list) \o Tail(todo[p])]
        /\ cwd' = cwd \/ cwd' = [cwd EXCEPT ![p] = NoCA]
        /\ UNCHANGED <<dirs, lock, status, ca, lockfile, number, passed, readVars, renewed>>
  <2>1. CASE Now(p, "next")
    BY <1>3, <2>1 DEF Refresh, Now, CaInv, DataTypes
  <2>2. CASE Now(p, "refresh")
    BY <1>4, <2>2 DEF Refresh, Now, CaInv, DataTypes
  <2>3. QED
    BY <2>1, <2>2 DEF Refresh
<1> DEFINE u == Round(list)
<1>6. u \in Seq(StepSet) /\ Fits(u, Chosen(p) = NoCA)
  <2>1. PICK n : n = (Chosen(p) = NoCA)
    OBVIOUS
  <2>2. u \in Seq(StepSet) /\ Fits(u, n)
    BY <1>5, RoundPlan, Zenon
  <2>3. QED
    BY <2>1, <2>2
<1> HIDE DEF u
<1>7. todo' = [todo EXCEPT ![p] = u \o Tail(todo[p])]
  BY <1>5 DEF u
<1>8. /\ todo'[p] = u \o Tail(todo[p]) /\ cwd'[p] \in {cwd[p], NoCA}
      /\ \A q \in Procs \ {p} : Same(q) /\ status'[q] = status[q]
  BY <1>5, <1>7 DEF CaInv, DataTypes, Same
<1>9. /\ Head(todo[p]).do \notin Firsts \union Seconds \union LeavesCa \union {"exit"}
      /\ Head(todo[p]).do \in EntersCa
  BY <1>1 DEF Firsts, Seconds, LeavesCa, EntersCa
<1>10. PlanInv(p)'
  BY <1>1, <1>5, <1>6, <1>8, <1>9, Replans
<1>11. QED
  BY <1>5, <1>8, <1>10, VanishQuietly

(* A step that is done and needs no mark, or has no CA to look for it.     *)
LEMMA QuietlyDone ==
  ASSUME CaInv, VanishInv, NEW p \in Procs, status[p] = "running", Done(p),
         Head(todo[p]).do \notin Firsts \union Seconds \union {"exit", "clean"},
         UNCHANGED <<dirs, status, readVars>>, \A q \in Procs \ {p} : Same(q),
         \/ /\ Chosen(p)' = Chosen(p) /\ Held(p)' = Held(p) /\ cwd'[p] = cwd[p]
            /\ Head(todo[p]).do \notin LeavesCa
         \/ Chosen(p)' = NoCA
  PROVE  VanishInv'
<1>1. PlanInv(p) /\ todo'[p] = Tail(todo[p])
  BY DEF VanishInv, Done, CaInv, DataTypes
<1>2. CASE Chosen(p)' = NoCA
  <2>1. PlanInv(p)'
    BY <1>1, <1>2, StepDone
  <2>2. QED
    BY <2>1, VanishQuietly
<1>3. CASE /\ Chosen(p)' = Chosen(p) /\ Held(p)' = Held(p) /\ cwd'[p] = cwd[p]
           /\ Head(todo[p]).do \notin LeavesCa
  <2>1. Chosen(p)' # NoCA => Held(p)' = Chosen(p)' /\ cwd'[p] \in {Chosen(p)', NoCA}
    BY <1>1, <1>3 DEF PlanInv
  <2>2. ASSUME Chosen(p)' # NoCA, cwd'[p] # NoCA PROVE MarkLeft(Head(todo[p]).do, number'[p], Dir(p)')
    <3>1. Settled(dirs[cwd[p]])
      BY <1>1, <1>3, <2>2 DEF PlanInv, MarkTells, Dir
    <3>2. Head(todo[p]).do \notin {"mark-root", "mark", "request"}
      BY DEF Firsts
    <3>3. QED
      BY <1>3, <3>1, <3>2 DEF MarkLeft, Dir
  <2>3. PlanInv(p)'
    BY <1>1, <1>3, <2>1, <2>2, StepDone
  <2>4. QED
    BY <2>3, VanishQuietly
<1>4. QED
  BY <1>2, <1>3

(* Locks are given up and taken, and cd is done, while no CA is set.       *)
LEMMA VanishSwitching ==
  ASSUME CaInv, VanishInv, NEW p \in Procs, Unlock(p) \/ ChangesDir(p) \/ Lock(p)
  PROVE  VanishInv'
<1>1. Running(p) /\ status[p] = "running" /\ Head(todo[p]).do \in {"unlock", "cd", "lock"}
  BY DEF Unlock, ChangesDir, Lock, Now, Running
<1>2. Chosen(p) = NoCA
  BY <1>1, NotChosen DEF VanishInv, WithoutCa
<1>3. CASE Fails(p)
  BY <1>1, <1>3, VanishFails
<1>4. CASE ~Fails(p)
  <2>1. /\ Done(p) /\ UNCHANGED <<dirs, status, ca, number, passed, readVars>>
        /\ \A q \in Procs \ {p} : cwd'[q] = cwd[q] /\ lockfile'[q] = lockfile[q]
    <3>1. CASE Unlock(p)
      BY <3>1 DEF Unlock, CaInv, DataTypes
    <3>2. CASE ChangesDir(p)
      BY <1>4, <3>2 DEF ChangesDir, CaInv, DataTypes
    <3>3. CASE Lock(p)
      BY <3>3 DEF Lock, CaInv, DataTypes
    <3>4. QED
      BY <3>1, <3>2, <3>3
  <2>2. \A q \in Procs \ {p} : Same(q)
    BY <2>1 DEF Same, Done, CaInv, DataTypes
  <2>3. Chosen(p)' = NoCA
    BY <1>2, <2>1 DEF Chosen
  <2>4. Head(todo[p]).do \notin Firsts \union Seconds \union {"exit", "clean"}
    BY <1>1 DEF Firsts, Seconds
  <2>5. QED
    BY <1>1, <2>1, <2>2, <2>3, <2>4, QuietlyDone
<1>5. QED
  BY <1>3, <1>4

(* The steps that write no file.                                           *)
LEMMA VanishLooking ==
  ASSUME CaInv, VanishInv, NEW p \in Procs, Tests(p) \/ GenCrl(p) \/ TakeNumber(p) \/ Background(p)
  PROVE  VanishInv'
<1>1. /\ Running(p) /\ status[p] = "running" /\ passed[p] = <<>>
      /\ Head(todo[p]).do \in {"chosen", "fresh", "other", "crl", "number", "background"}
  BY DEF Tests, GenCrl, TakeNumber, Background, Now, Running
<1>2. CASE Fails(p)
  BY <1>1, <1>2, VanishFails
<1>3. CASE ~Fails(p)
  <2>1. /\ Done(p) /\ UNCHANGED <<dirs, status, cwd, readVars>>
        /\ Chosen(p)' = Chosen(p) /\ Held(p)' = Held(p) /\ \A q \in Procs \ {p} : Same(q)
    <3>1. CASE Tests(p)
      <4>1. Done(p) /\ UNCHANGED <<dirs, lock, status, ca, lockfile, cwd, number, passed, readVars, renewed>>
        BY <1>3, <3>1 DEF Tests
      <4>2. QED
        BY <4>1 DEF Done, Chosen, Held, Same, CaInv, DataTypes
    <3>2. CASE GenCrl(p)
      <4>1. /\ Inside(p) /\ dirs' = [dirs EXCEPT ![cwd[p]] = Dir(p)] /\ Done(p)
            /\ UNCHANGED <<lock, status, ca, lockfile, cwd, number, passed, readVars, renewed>>
        BY <1>3, <3>2 DEF GenCrl, InDir
      <4>2. dirs' = dirs
        BY <4>1 DEF Dir, CaInv, DataTypes
      <4>3. QED
        BY <4>1, <4>2 DEF Done, Chosen, Held, Same, CaInv, DataTypes
    <3>3. CASE TakeNumber(p)
      <4>1. /\ Done(p) /\ number' = [number EXCEPT ![p] = Dir(p).serial]
            /\ UNCHANGED <<dirs, lock, status, ca, lockfile, cwd, passed, readVars, renewed>>
        BY <1>3, <3>3 DEF TakeNumber
      <4>2. QED
        BY <4>1 DEF Done, Chosen, Held, Same, CaInv, DataTypes
    <3>4. CASE Background(p)
      <4> DEFINE pair == <<ca[p], lockfile[p]>>
      <4>1. /\ Done(p) /\ passed' = [passed EXCEPT ![p] = pair]
            /\ ca' = [ca EXCEPT ![p] = NoCA] /\ lockfile' = [lockfile EXCEPT ![p] = NoCA]
            /\ number' = [number EXCEPT ![p] = 0] /\ UNCHANGED <<dirs, lock, status, cwd, readVars, renewed>>
        BY <3>4 DEF Background
      <4>2. pair # <<>> /\ pair[1] = ca[p] /\ pair[2] = lockfile[p]
        OBVIOUS
      <4> HIDE DEF pair
      <4>3. passed'[p] = pair
        BY <4>1 DEF CaInv, DataTypes
      <4>4. Chosen(p)' = Chosen(p) /\ Held(p)' = Held(p)
        BY <1>1, <4>2, <4>3 DEF Chosen, Held
      <4>5. QED
        BY <4>1, <4>4 DEF Done, Same, CaInv, DataTypes
    <3>5. QED
      BY <3>1, <3>2, <3>3, <3>4
  <2>2. Head(todo[p]).do \notin Firsts \union Seconds \union {"exit", "clean"} \union LeavesCa
    BY <1>1 DEF Firsts, Seconds, LeavesCa
  <2>3. QED
    BY <1>1, <2>1, <2>2, QuietlyDone
<1>4. QED
  BY <1>2, <1>3

(* The first step and the last one, and what is handed over.               *)
LEMMA VanishRuns ==
  ASSUME CaInv, VanishInv, NEW p \in Procs, Starts(p) \/ Exit(p) \/ Restart(p)
  PROVE  VanishInv'
<1>1. CASE Starts(p)
  <2>1. PICK job \in Jobs :
          /\ status[p] = "new" /\ status' = [status EXCEPT ![p] = "running"]
          /\ todo' = [todo EXCEPT ![p] = job \o Ending]
          /\ UNCHANGED <<dirs, lock, ca, lockfile, cwd, number, passed, readVars, renewed>>
    BY <1>1 DEF Starts
  <2>2. ca[p] = NoCA /\ passed[p] = <<>>
    BY <2>1 DEF CaInv, ProcInv
  <2>3. Chosen(p)' = NoCA
    BY <2>1, <2>2 DEF Chosen
  <2>4. todo'[p] = job \o Ending /\ \A q \in Procs \ {p} : Same(q) /\ status'[q] = status[q]
    BY <2>1 DEF CaInv, DataTypes, Same
  <2>5. Placed(todo'[p], TRUE) /\ Paired(todo'[p])
    BY <2>4, JobPlan
  <2>6. PlanInv(p)'
    <3>1. (Chosen(p)' = NoCA) = TRUE
      BY <2>3
    <3>2. QED
      BY <2>3, <2>5, <3>1 DEF PlanInv
  <2>7. QED
    BY <2>1, <2>4, <2>6, VanishQuietly
<1>2. CASE Exit(p)
  <2>1. /\ status' = [status EXCEPT ![p] = "done"] /\ todo' = [todo EXCEPT ![p] = <<>>]
        /\ cwd' = [cwd EXCEPT ![p] = NoCA] /\ number' = [number EXCEPT ![p] = 0]
        /\ UNCHANGED <<dirs, lock, ca, lockfile, passed, readVars, renewed>>
    BY <1>2 DEF Exit
  <2>2. status'[p] = "done" /\ \A q \in Procs \ {p} : Same(q) /\ status'[q] = status[q]
    BY <2>1 DEF CaInv, DataTypes, Same
  <2>3. QED
    BY <2>1, <2>2, VanishQuietly
<1>3. CASE Restart(p)
  <2>1. /\ status[p] = "running" /\ passed[p] # <<>>
        /\ ca' = [ca EXCEPT ![p] = passed[p][1]] /\ lockfile' = [lockfile EXCEPT ![p] = passed[p][2]]
        /\ passed' = [passed EXCEPT ![p] = <<>>]
        /\ UNCHANGED <<dirs, lock, todo, status, cwd, number, readVars, renewed>>
    BY <1>3 DEF Restart
  <2>2. /\ passed'[p] = <<>> /\ ca'[p] = passed[p][1] /\ lockfile'[p] = passed[p][2]
        /\ \A q \in Procs \ {p} : Same(q) /\ status'[q] = status[q]
    BY <2>1 DEF CaInv, DataTypes, Same
  <2>3. Chosen(p)' = Chosen(p) /\ Held(p)' = Held(p)
    BY <2>1, <2>2 DEF Chosen, Held
  <2>4. PlanInv(p)
    BY <2>1 DEF VanishInv
  <2>5. PlanInv(p)'
    BY <2>1, <2>3, <2>4 DEF PlanInv, Dir
  <2>6. QED
    BY <2>1, <2>2, <2>5, VanishQuietly
<1>4. QED
  BY <1>1, <1>2, <1>3

-----------------------------------------------------------------------------
(* A step of p that changes one directory.                                 *)
LEMMA OneDirectory ==
  ASSUME CaInv, ReaderTypes, VanishInv, NEW p \in Procs, NEW c \in CAs,
         \A b \in CAs \ {c} : dirs'[b] = dirs[b],
         lock[c] = p \/ Untouched(c), FilesInv(c)',
         \A q \in Procs \ {p} : Same(q) /\ status'[q] = status[q],
         status'[p] = "running" => PlanInv(p)',
         reader' = reader, due' \subseteq due, reader.ca = c => due' = {} \/ Kept(c)
  PROVE  VanishInv'
<1>1. \A b \in CAs : lock[b] = p \/ Untouched(b)
  BY DEF Untouched
<1>2. ASSUME NEW b \in CAs PROVE FilesInv(b)'
  <2>1. CASE b = c
    BY <2>1
  <2>2. CASE b # c
    BY <2>2 DEF VanishInv, FilesInv
  <2>3. QED
    BY <2>1, <2>2
<1>3. ASSUME reader.at # "new", due' # {} PROVE Kept(reader.ca)
  <2>1. reader.ca \in CAs
    BY <1>3 DEF ReaderTypes
  <2>2. CASE reader.ca = c
    BY <1>3, <2>2
  <2>3. CASE reader.ca # c
    BY <2>1, <2>3 DEF Kept
  <2>4. QED
    BY <2>2, <2>3
<1>4. QED
  BY <1>1, <1>2, <1>3, VanishConcludes

(* The mark of a CA goes, under its lock: what it announced and is not     *)
(* there does not have to be reported.                                     *)
LEMMA Unmarks ==
  ASSUME CaInv, ReaderTypes, VanishInv, NEW p \in Procs, NEW c \in CAs, lock[c] = p,
         dirs' = Unmarked(c), Dropped(p, c), reader' = reader,
         \A q \in Procs \ {p} : Same(q) /\ status'[q] = status[q],
         status'[p] = "running" => PlanInv(p)'
  PROVE  VanishInv'
<1>1. dirs \in [CAs -> Directory] /\ FilesInv(c)
  BY DEF CaInv, DataTypes, VanishInv
<1> DEFINE d == [dirs[c] EXCEPT !.mark = 0]
<1>2. /\ d.state = dirs[c].state /\ d.index = dirs[c].index /\ d.notes = dirs[c].notes
      /\ d.root = dirs[c].root /\ d.mark = 0
  BY <1>1 DEF Directory
<1>3. dirs' = [dirs EXCEPT ![c] = d]
  BY <1>1 DEF Unmarked
<1> HIDE DEF d
<1>4. dirs'[c] = d /\ \A b \in CAs \ {c} : dirs'[b] = dirs[b]
  BY <1>1, <1>3
<1>5. Listed(d) = Listed(dirs[c])
  BY <1>2 DEF Listed
<1>6. FilesInv(c)'
  BY <1>1, <1>2, <1>4, <1>5 DEF FilesInv
<1>7. due' \subseteq due /\ (reader.ca = c => dirs[c].mark \notin due' \/ dirs[c].mark \in Listed(dirs[c]))
  BY DEF Dropped
<1>8. reader.ca = c => Kept(c)
  BY <1>2, <1>4, <1>5, <1>7 DEF Kept
<1>9. QED
  BY <1>4, <1>6, <1>7, <1>8, OneDirectory

(* The cleanup takes a mark away only in the CA that it has locked.        *)
LEMMA VanishClean ==
  ASSUME CaInv, ReaderTypes, VanishInv, NEW p \in Procs, Clean(p)
  PROVE  VanishInv'
<1>1. Running(p) /\ status[p] = "running" /\ passed[p] = <<>> /\ Head(todo[p]).do = "clean" /\ PlanInv(p)
  BY DEF Clean, Now, Running, VanishInv
<1>2. /\ todo' = [todo EXCEPT ![p] = Tail(todo[p])] /\ ca' = [ca EXCEPT ![p] = NoCA]
      /\ UNCHANGED <<lock, status, lockfile, cwd, number, passed, reader>>
  BY DEF Clean, Done, CaInv, DataTypes
<1>3. /\ todo'[p] = Tail(todo[p]) /\ ca'[p] = NoCA
      /\ \A q \in Procs \ {p} : Same(q) /\ status'[q] = status[q]
  BY <1>2 DEF CaInv, DataTypes, Same
<1>4. Chosen(p)' = NoCA /\ Chosen(p) = ca[p]
  BY <1>1, <1>2, <1>3 DEF Chosen
<1>5. PlanInv(p)'
  BY <1>1, <1>3, <1>4, StepDone
<1>6. CASE ca[p] = NoCA
  <2>1. UNCHANGED <<dirs, readVars>>
    BY <1>2, <1>6 DEF Clean, readVars
  <2>2. QED
    BY <1>3, <1>5, <2>1, VanishQuietly
<1>7. CASE ca[p] # NoCA
  <2>1. PICK c \in CAs : c = ca[p]
    BY <1>7 DEF CaInv, DataTypes, Places
  <2>2. dirs' = Unmarked(c) /\ Dropped(p, c)
    BY <1>7, <2>1 DEF Clean, Unmarked
  <2>3. Held(p) = c
    BY <1>1, <1>4, <1>7, <2>1 DEF PlanInv
  <2>4. lock[c] = p
    BY <1>1, <2>1, <2>3, <1>7 DEF CaInv, ProcInv, AtWorkInv
  <2>5. QED
    BY <1>2, <1>3, <1>5, <2>2, <2>4, Unmarks
<1>8. QED
  BY <1>6, <1>7

(* CA is set to what is locked, where the last one left no unsettled mark. *)
LEMMA VanishEnters ==
  ASSUME CaInv, ReaderTypes, VanishInv, NEW p \in Procs, Enters(p)
  PROVE  VanishInv'
<1>1. Running(p) /\ status[p] = "running" /\ passed[p] = <<>> /\ Head(todo[p]).do = "enter" /\ PlanInv(p)
  BY DEF Enters, Now, Running, VanishInv
<1>2. PICK k, l \in Know : Leads(k, Head(todo[p]), l) /\ Meaning(p, k)
  BY <1>1, OwnFacts
<1>3. PICK c \in CAs : c = Arg(p) /\ k.held = c /\ k.dir = c
  BY <1>1, <1>2 DEF Leads, LeadsAnywhere, LeadsUnmarked, LeadsInside, Arg
<1>4. Held(p) = c /\ cwd[p] \in {c, NoCA} /\ lock[c] = p
  BY <1>1, <1>2, <1>3, CaAssumption DEF Meaning, CaInv, ProcInv, AtWorkInv
<1>5. /\ todo' = [todo EXCEPT ![p] = Tail(todo[p])] /\ ca' = [ca EXCEPT ![p] = c]
      /\ UNCHANGED <<lock, status, lockfile, cwd, number, passed, reader>>
  BY <1>3 DEF Enters, Done, CaInv, DataTypes
<1>6. /\ todo'[p] = Tail(todo[p]) /\ ca'[p] = c
      /\ \A q \in Procs \ {p} : Same(q) /\ status'[q] = status[q]
  BY <1>5 DEF CaInv, DataTypes, Same
<1>7. Chosen(p)' = c /\ Held(p)' = c
  BY <1>1, <1>4, <1>5, <1>6 DEF Chosen, Held
<1>8. /\ cwd[p] = NoCA => UNCHANGED <<dirs, readVars>>
      /\ cwd[p] # NoCA => dirs' = Unmarked(c) /\ Dropped(p, c)
  BY <1>4, <1>5 DEF Enters, Inside, Unmarked, readVars
<1>9. cwd[p] # NoCA => Settled(dirs'[c])
  BY <1>8, MarkGone DEF Settled
<1>10. PlanInv(p)'
  <2>1. cwd'[p] # NoCA => MarkLeft(Head(todo[p]).do, number'[p], Dir(p)')
    BY <1>1, <1>4, <1>5, <1>9 DEF MarkLeft, Dir
  <2>2. Head(todo[p]).do \in EntersCa /\ Head(todo[p]).do \notin LeavesCa
    BY <1>1 DEF EntersCa, LeavesCa
  <2>3. QED
    BY <1>1, <1>4, <1>5, <1>6, <1>7, <2>1, <2>2, StepDone
<1>11. CASE cwd[p] = NoCA
  BY <1>6, <1>8, <1>10, <1>11, VanishQuietly
<1>12. CASE cwd[p] # NoCA
  BY <1>4, <1>5, <1>6, <1>8, <1>10, <1>12, Unmarks
<1>13. QED
  BY <1>11, <1>12

(* The directory of a new CA, before it has the lock: nothing of what is   *)
(* there goes.                                                             *)
LEMMA VanishNewCa ==
  ASSUME CaInv, ReaderTypes, VanishInv, NEW p \in Procs, NewCa(p)
  PROVE  VanishInv'
<1>1. /\ Running(p) /\ status[p] = "running" /\ PlanInv(p)
      /\ Head(todo[p]).do \in {"mkdir", "touch", "reset"}
  BY DEF NewCa, Now, Running, VanishInv
<1>2. PICK k, l \in Know : Leads(k, Head(todo[p]), l)
  BY <1>1, OwnFacts
<1>3. PICK c \in CAs : c = Arg(p)
  BY <1>1, <1>2 DEF Leads, LeadsAnywhere, LeadsUnmarked, LeadsInside, Arg
<1>4. CASE Fails(p)
  BY <1>1, <1>4, VanishFails
<1>5. CASE ~Fails(p)
  <2>1. dirs \in [CAs -> Directory] /\ dirs[c] \in Directory /\ FilesInv(c)
    BY DEF CaInv, DataTypes, VanishInv
  <2>2. /\ todo' = [todo EXCEPT ![p] = Tail(todo[p])]
        /\ UNCHANGED <<lock, status, ca, lockfile, cwd, number, passed, readVars>>
    BY <1>5 DEF NewCa, Done, CaInv, DataTypes
  <2>3. /\ \A b \in CAs \ {c} : dirs'[b] = dirs[b]
        /\ dirs'[c].mark = dirs[c].mark /\ dirs'[c].index = dirs[c].index
        /\ dirs'[c].notes = dirs[c].notes /\ dirs'[c].root = dirs[c].root
        /\ dirs'[c].state # "absent"
    <3>1. CASE Head(todo[p]).do = "mkdir"
      <4>1. dirs' = [dirs EXCEPT ![c] = IF dirs[c].state = "absent" THEN Bare ELSE dirs[c]]
        BY <1>3, <2>1, <3>1 DEF NewCa, Now
      <4>2. Bare.index = {} /\ Bare.notes = {} /\ Bare.mark = 0 /\ Bare.root = FALSE /\ Bare.state = "bare"
        BY NewDirectory DEF Absent, Directory
      <4>3. dirs[c].state = "absent" =>
              dirs[c].index = {} /\ dirs[c].notes = {} /\ dirs[c].mark = 0 /\ dirs[c].root = FALSE
        <5>1. dirs[c].root \in BOOLEAN
          BY <2>1 DEF Directory
        <5>2. QED
          BY <2>1, <5>1 DEF FilesInv, Listed
      <4>4. QED
        BY <2>1, <4>1, <4>2, <4>3
    <3>2. CASE Head(todo[p]).do = "touch"
      <4> DEFINE d == [dirs[c] EXCEPT !.state = "ready"]
      <4>1. dirs' = [dirs EXCEPT ![c] = d]
        BY <1>3, <1>5, <2>1, <3>2 DEF NewCa, Now
      <4>2. /\ d.mark = dirs[c].mark /\ d.index = dirs[c].index
            /\ d.notes = dirs[c].notes /\ d.root = dirs[c].root /\ d.state = "ready"
        BY <2>1 DEF Directory
      <4> HIDE DEF d
      <4>3. QED
        BY <2>1, <4>1, <4>2
    <3>3. CASE Head(todo[p]).do = "reset"
      <4> DEFINE d == [dirs[c] EXCEPT !.serial = 1]
      <4>1. dirs[c].state # "absent" /\ dirs' = [dirs EXCEPT ![c] = d]
        BY <1>3, <1>5, <2>1, <3>3 DEF NewCa, Now
      <4>2. /\ d.mark = dirs[c].mark /\ d.index = dirs[c].index
            /\ d.notes = dirs[c].notes /\ d.root = dirs[c].root /\ d.state = dirs[c].state
        BY <2>1 DEF Directory
      <4> HIDE DEF d
      <4>3. QED
        BY <2>1, <4>1, <4>2
    <3>4. QED
      BY <1>1, <3>1, <3>2, <3>3
  <2>4. Listed(dirs'[c]) = Listed(dirs[c])
    BY <2>3 DEF Listed
  <2>5. Untouched(c) /\ Kept(c) /\ FilesInv(c)'
    BY <2>1, <2>3, <2>4 DEF Untouched, Kept, FilesInv
  <2>6. /\ todo'[p] = Tail(todo[p]) /\ Chosen(p)' = Chosen(p) /\ Held(p)' = Held(p)
        /\ \A q \in Procs \ {p} : Same(q) /\ status'[q] = status[q]
    BY <2>2 DEF CaInv, DataTypes, Same, Chosen, Held
  <2>7. Chosen(p)' # NoCA => Held(p)' = Chosen(p)' /\ cwd'[p] \in {Chosen(p)', NoCA}
    BY <1>1, <2>2, <2>6 DEF PlanInv
  <2>8. ASSUME Chosen(p)' # NoCA, cwd'[p] # NoCA PROVE MarkLeft(Head(todo[p]).do, number'[p], Dir(p)')
    <3>1. Settled(dirs[cwd[p]]) /\ cwd[p] \in CAs
      BY <1>1, <2>2, <2>6, <2>8 DEF PlanInv, MarkTells, Dir, Seconds, CaInv, DataTypes, Places
    <3>2. Settled(dirs'[cwd[p]])
      <4>1. CASE cwd[p] = c
        BY <2>3, <2>4, <3>1, <4>1 DEF Settled
      <4>2. CASE cwd[p] # c
        BY <2>3, <3>1, <4>2
      <4>3. QED
        BY <4>1, <4>2
    <3>3. QED
      BY <1>1, <2>2, <3>2 DEF MarkLeft, Dir
  <2>9. PlanInv(p)'
    <3>1. Head(todo[p]).do \notin LeavesCa \union {"exit"}
      BY <1>1 DEF LeavesCa
    <3>2. QED
      BY <1>1, <2>6, <2>7, <2>8, <3>1, StepDone
  <2>10. reader' = reader /\ due' \subseteq due
    BY <2>2 DEF readVars
  <2>11. QED
    BY <2>3, <2>5, <2>6, <2>9, <2>10, OneDirectory
<1>6. QED
  BY <1>4, <1>5

(* drop_ca: nothing of the CA has to be reported any more.                 *)
LEMMA VanishDropCa ==
  ASSUME CaInv, ReaderTypes, VanishInv, NEW p \in Procs, DropCa(p)
  PROVE  VanishInv'
<1>1. /\ Running(p) /\ status[p] = "running" /\ PlanInv(p)
      /\ Head(todo[p]).do \in {"empty", "rmdir"}
  BY DEF DropCa, Now, Running, VanishInv
<1>2. PICK k, l \in Know : Leads(k, Head(todo[p]), l) /\ Meaning(p, k)
  BY <1>1, OwnFacts
<1>3. PICK c \in CAs : c = Arg(p) /\ k.held = c
  BY <1>1, <1>2 DEF Leads, LeadsAnywhere, LeadsUnmarked, LeadsInside, Arg
<1>4. Held(p) = c /\ lock[c] = p
  BY <1>1, <1>2, <1>3, CaAssumption DEF Meaning, CaInv, ProcInv, AtWorkInv
<1>5. CASE Fails(p)
  BY <1>1, <1>5, VanishFails
<1>6. CASE ~Fails(p)
  <2>1. dirs \in [CAs -> Directory] /\ FilesInv(c) /\ cwd \in [Procs -> Places]
    BY DEF CaInv, DataTypes, VanishInv
  <2>2. /\ todo' = [todo EXCEPT ![p] = Tail(todo[p])] /\ reader' = reader /\ due' \subseteq due
        /\ UNCHANGED <<lock, status, ca, lockfile, number, passed>>
    BY <1>6 DEF DropCa, Done, CaInv, DataTypes, readVars
  <2>3. \A d \in {Bare, Absent} : d.index = {} /\ d.notes = {} /\ d.mark = 0 /\ ~d.root /\ Listed(d) = {}
    BY NewDirectory DEF Absent, Directory, Listed
  <2>4. /\ \A b \in CAs \ {c} : dirs'[b] = dirs[b]
        /\ \A q \in Procs : cwd'[q] \in {cwd[q], NoCA}
        /\ dirs'[c].mark = 0 /\ FilesInv(c)' /\ (reader.ca = c => due' = {} \/ Kept(c))
    <3>1. CASE Head(todo[p]).do = "empty"
      <4>1. /\ dirs' = [dirs EXCEPT ![c] = IF dirs[c].state = "absent" THEN dirs[c] ELSE Bare]
            /\ cwd' = cwd /\ (reader.ca = c => due' = {})
        BY <1>3, <2>1, <3>1 DEF DropCa, Now
      <4>2. \/ dirs'[c] = Bare
            \/ dirs'[c] = dirs[c] /\ dirs[c].state = "absent"
        BY <2>1, <4>1
      <4>3. dirs'[c].mark = 0 /\ FilesInv(c)'
        BY <2>1, <2>3, <4>2 DEF FilesInv
      <4>4. QED
        BY <2>1, <4>1, <4>3
    <3>2. CASE Head(todo[p]).do = "rmdir"
      <4>1. /\ dirs[c] \in {Bare, Absent} /\ dirs' = [dirs EXCEPT ![c] = Absent]
            /\ cwd' = [q \in Procs |-> IF cwd[q] = c THEN NoCA ELSE cwd[q]]
        BY <1>3, <1>6, <3>2 DEF DropCa, Now
      <4>2. dirs'[c] = Absent
        BY <2>1, <4>1
      <4>3. Kept(c)
        BY <2>3, <4>1, <4>2 DEF Kept
      <4>4. FilesInv(c)'
        BY <2>3, <4>2 DEF FilesInv
      <4>5. QED
        BY <2>1, <2>3, <4>1, <4>2, <4>3, <4>4
    <3>3. QED
      BY <1>1, <3>1, <3>2
  <2>5. /\ todo'[p] = Tail(todo[p]) /\ Chosen(p)' = Chosen(p) /\ Held(p)' = Held(p)
        /\ \A q \in Procs \ {p} : Same(q) /\ status'[q] = status[q]
    BY <2>2, <2>4 DEF CaInv, DataTypes, Same, Chosen, Held
  <2>6. Chosen(p)' # NoCA => Held(p)' = Chosen(p)' /\ cwd'[p] \in {Chosen(p)', NoCA}
    BY <1>1, <2>4, <2>5 DEF PlanInv
  <2>7. ASSUME Chosen(p)' # NoCA, cwd'[p] # NoCA PROVE MarkLeft(Head(todo[p]).do, number'[p], Dir(p)')
    <3>1. cwd'[p] = c
      BY <1>4, <2>5, <2>6, <2>7
    <3>2. Settled(dirs'[cwd'[p]])
      BY <2>4, <3>1 DEF Settled
    <3>3. QED
      BY <1>1, <3>2 DEF MarkLeft, Dir
  <2>8. PlanInv(p)'
    <3>1. Head(todo[p]).do \notin LeavesCa \union {"exit"}
      BY <1>1 DEF LeavesCa
    <3>2. QED
      BY <1>1, <2>5, <2>6, <2>7, <3>1, StepDone
  <2>9. QED
    BY <1>4, <2>2, <2>4, <2>5, <2>8, OneDirectory
<1>7. QED
  BY <1>5, <1>6

-----------------------------------------------------------------------------
(* A step in the CA that is set, locked and entered: what it finds there,  *)
(* and what it has to keep and to leave.                                   *)
LEMMA SetAndLocked ==
  ASSUME CaInv, VanishInv, NEW p \in Procs, Running(p), Inside(p), NEW k \in Know, AtWork(k), Meaning(p, k)
  PROVE  /\ cwd[p] \in CAs /\ lock[cwd[p]] = p /\ Dir(p) \in Directory /\ Dir(p).state # "absent"
         /\ Held(p) = cwd[p] /\ Chosen(p) = cwd[p] /\ FilesInv(cwd[p])
         /\ MarkTells(Head(todo[p]).do, number[p], Dir(p))
<1>1. cwd[p] \in CAs /\ Dir(p) \in Directory /\ Held(p) = cwd[p] /\ Chosen(p) = cwd[p]
  BY InTheMaking
<1>2. status[p] = "running" /\ cwd[p] # NoCA
  BY DEF Running, Inside
<1>3. lock[cwd[p]] = p /\ Dir(p).state # "absent"
  BY <1>1, <1>2 DEF CaInv, ProcInv, AtWorkInv, Dir
<1>4. FilesInv(cwd[p]) /\ MarkTells(Head(todo[p]).do, number[p], Dir(p))
  BY <1>1, <1>2 DEF VanishInv, PlanInv
<1>5. QED
  BY <1>1, <1>3, <1>4

(* A step in a CA keeps the invariant if it keeps what is in the files.    *)
LEMMA VanishInside ==
  ASSUME CaInv, ReaderTypes, VanishInv, NEW p \in Procs, Running(p), Inside(p),
         NEW k \in Know, AtWork(k), Meaning(p, k), Head(todo[p]).do \notin LeavesCa \union {"exit"},
         NEW d, dirs' = [dirs EXCEPT ![cwd[p]] = d], Done(p),
         UNCHANGED <<lock, status, ca, lockfile, cwd, number, passed, readVars, renewed>>,
         d.state = Dir(p).state, Dir(p).index \subseteq d.index, Dir(p).notes \subseteq d.notes,
         Dir(p).root => d.root,
         d.mark = Dir(p).mark \/ Dir(p).mark \in Listed(d) \union {0, -2},
         d.mark \in d.notes \union {0, Root, -2}, MarkLeft(Head(todo[p]).do, number[p], d)
  PROVE  VanishInv'
<1> DEFINE c == cwd[p]
<1>1. c \in CAs /\ lock[c] = p /\ Dir(p).state # "absent" /\ Held(p) = c /\ Chosen(p) = c
  BY SetAndLocked
<1>2. status[p] = "running" /\ PlanInv(p) /\ c # NoCA
  BY DEF Running, VanishInv, Inside
<1>3. dirs'[c] = d /\ \A b \in CAs \ {c} : dirs'[b] = dirs[b]
  BY <1>1 DEF CaInv, DataTypes
<1>4. /\ todo'[p] = Tail(todo[p]) /\ Chosen(p)' = c /\ Held(p)' = c
      /\ \A q \in Procs \ {p} : Same(q) /\ status'[q] = status[q]
  BY <1>1 DEF Done, CaInv, DataTypes, Same, Chosen, Held
<1>5. PlanInv(p)'
  <2>1. cwd'[p] = c /\ number'[p] = number[p] /\ Dir(p)' = d
    BY <1>3 DEF Dir
  <2>2. QED
    BY <1>1, <1>2, <1>4, <2>1, StepDone
<1>6. FilesInv(c)'
  BY <1>1, <1>3 DEF FilesInv
<1>7. reader' = reader /\ due' = due
  BY DEF readVars
<1>8. 0 \notin due /\ -2 \notin due
  <2>1. \A x \in due : x \in (Nat \ {0}) \union {Root}
    BY DEF VanishInv, WatchInv
  <2>2. 0 \notin (Nat \ {0}) \union {Root} /\ -2 \notin (Nat \ {0}) \union {Root}
    BY DEF Root
  <2>3. QED
    BY <2>1, <2>2
<1>9. Kept(c)
  BY <1>3, <1>7, <1>8 DEF Kept, Dir
<1>10. QED
  BY <1>1, <1>3, <1>4, <1>5, <1>6, <1>7, <1>9, OneDirectory

(* The mark is written and removed only when the one before is settled.    *)
LEMMA VanishMark ==
  ASSUME CaInv, ReaderTypes, VanishInv, NEW p \in Procs, Mark(p) \/ Unmark(p)
  PROVE  VanishInv'
<1>1. Running(p) /\ Head(todo[p]).do \in {"mark-root", "mark-dh", "mark", "unmark"}
  BY DEF Mark, Unmark, Now
<1>2. PICK k, l \in Know : Leads(k, Head(todo[p]), l) /\ Meaning(p, k)
  BY <1>1, OwnFacts DEF Running
<1>3. AtWork(k) /\ (Head(todo[p]).do = "mark" => k.num = 2)
  BY <1>1, <1>2 DEF Leads, LeadsAnywhere, LeadsUnmarked, LeadsInside
<1>4. CASE Fails(p)
  BY <1>1, <1>4, VanishFails
<1>5. CASE ~Fails(p)
  <2>1. PICK m : /\ m = CASE Head(todo[p]).do = "mark-root" -> Root
                           [] Head(todo[p]).do = "mark-dh" -> -2
                           [] Head(todo[p]).do = "mark" -> number[p]
                           [] Head(todo[p]).do = "unmark" -> 0
    OBVIOUS
  <2> DEFINE d == [Dir(p) EXCEPT !.mark = m]
  <2>2. /\ Inside(p) /\ dirs' = [dirs EXCEPT ![cwd[p]] = d] /\ Done(p)
        /\ UNCHANGED <<lock, status, ca, lockfile, cwd, number, passed, readVars, renewed>>
    <3>1. CASE Unmark(p)
      BY <1>5, <2>1, <3>1 DEF Unmark, InDir, Now
    <3>2. CASE Mark(p) /\ Head(todo[p]).do = "mark-root"
      BY <1>5, <2>1, <3>2 DEF Mark, InDir, Now
    <3>3. CASE Mark(p) /\ Head(todo[p]).do = "mark-dh"
      BY <1>5, <2>1, <3>3 DEF Mark, InDir, Now
    <3>4. CASE Mark(p) /\ Head(todo[p]).do = "mark"
      BY <1>5, <2>1, <3>4 DEF Mark, InDir, Now
    <3>5. QED
      BY <3>1, <3>2, <3>3, <3>4 DEF Mark, Now
  <2>3. /\ Dir(p) \in Directory /\ MarkTells(Head(todo[p]).do, number[p], Dir(p))
        /\ Head(todo[p]).do = "mark" => number[p] \in Dir(p).notes
    BY <1>1, <1>2, <1>3, <2>2, SetAndLocked, InTheMaking
  <2>4. /\ d.state = Dir(p).state /\ d.index = Dir(p).index /\ d.notes = Dir(p).notes
        /\ d.root = Dir(p).root /\ d.mark = m
    BY <2>3 DEF Directory
  <2> HIDE DEF d
  <2>5. Listed(d) = Listed(Dir(p))
    BY <2>4 DEF Listed
  <2>6. Dir(p).mark \in Listed(d) \union {0, -2}
    BY <1>1, <2>3, <2>5 DEF MarkTells, Settled, Seconds
  <2>7. d.mark \in d.notes \union {0, Root, -2}
    BY <1>1, <2>1, <2>3, <2>4
  <2>8. MarkLeft(Head(todo[p]).do, number[p], d)
    BY <1>1, <2>1, <2>4 DEF MarkLeft, Firsts, Settled
  <2>9. Head(todo[p]).do \notin LeavesCa \union {"exit"}
    BY <1>1 DEF LeavesCa
  <2>10. QED
    BY <1>1, <1>2, <1>3, <2>2, <2>4, <2>6, <2>7, <2>8, <2>9, VanishInside
<1>6. QED
  BY <1>4, <1>5

(* The root, notes, keys and revocations are only added.                   *)
LEMMA VanishAdds ==
  ASSUME CaInv, ReaderTypes, VanishInv, NEW p \in Procs, MakeRoot(p) \/ WriteNote(p) \/ Request(p) \/ Revoke(p)
  PROVE  VanishInv'
<1>1. Running(p) /\ Head(todo[p]).do \in {"make-root", "note", "request", "openssl-revoke"}
  BY DEF MakeRoot, WriteNote, Request, Revoke, Now
<1>2. PICK k, l \in Know : Leads(k, Head(todo[p]), l) /\ Meaning(p, k)
  BY <1>1, OwnFacts DEF Running
<1>3. AtWork(k)
  BY <1>1, <1>2 DEF Leads, LeadsAnywhere, LeadsUnmarked, LeadsInside
<1>4. CASE Fails(p)
  BY <1>1, <1>4, VanishFails
<1>5. CASE ~Fails(p)
  <2>1. PICK d : /\ Inside(p) /\ dirs' = [dirs EXCEPT ![cwd[p]] = d] /\ Done(p)
                 /\ UNCHANGED <<lock, status, ca, lockfile, cwd, number, passed, readVars, renewed>>
                 /\ \/ Head(todo[p]).do = "make-root" /\ d = [Dir(p) EXCEPT !.root = TRUE]
                    \/ Head(todo[p]).do = "note" /\ d = [Dir(p) EXCEPT !.notes = @ \union {number[p]}]
                    \/ Head(todo[p]).do = "request" /\ d = [Dir(p) EXCEPT !.keys = Put(@, number[p], p)]
                    \/ Head(todo[p]).do = "openssl-revoke" /\ d = [Dir(p) EXCEPT !.revoked = @ \union {1}]
    <3>1. CASE MakeRoot(p)
      BY <1>5, <3>1 DEF MakeRoot, InDir, Now
    <3>2. CASE WriteNote(p)
      BY <1>5, <3>2 DEF WriteNote, InDir, Now
    <3>3. CASE Request(p)
      BY <1>5, <3>3 DEF Request, InDir, Now
    <3>4. CASE Revoke(p)
      BY <1>5, <3>4 DEF Revoke, InDir, Now
    <3>5. QED
      BY <3>1, <3>2, <3>3, <3>4
  <2>2. /\ Dir(p) \in Directory /\ MarkTells(Head(todo[p]).do, number[p], Dir(p))
        /\ Dir(p).mark \in Dir(p).notes \union {0, Root, -2}
    BY <1>1, <1>2, <1>3, <2>1, SetAndLocked DEF FilesInv, Dir
  <2>3. /\ d.state = Dir(p).state /\ d.index = Dir(p).index /\ d.mark = Dir(p).mark
        /\ Dir(p).notes \subseteq d.notes
        /\ IF Head(todo[p]).do = "make-root" THEN d.root = TRUE ELSE d.root = Dir(p).root
    <3>1. CASE Head(todo[p]).do = "make-root"
      BY <2>1, <2>2, <3>1 DEF Directory
    <3>2. CASE Head(todo[p]).do = "note"
      BY <2>1, <2>2, <3>2 DEF Directory
    <3>3. CASE Head(todo[p]).do = "request"
      BY <2>1, <2>2, <3>3 DEF Directory
    <3>4. CASE Head(todo[p]).do = "openssl-revoke"
      BY <2>1, <2>2, <3>4 DEF Directory
    <3>5. QED
      BY <1>1, <3>1, <3>2, <3>3, <3>4
  <2>4. MarkLeft(Head(todo[p]).do, number[p], d)
    <3>1. CASE Head(todo[p]).do = "make-root"
      BY <2>2, <2>3, <3>1 DEF MarkLeft, MarkTells, Firsts, Settled, Listed
    <3>2. CASE Head(todo[p]).do = "request"
      BY <2>2, <2>3, <3>2 DEF MarkLeft, MarkTells, Firsts
    <3>3. CASE Head(todo[p]).do \in {"note", "openssl-revoke"}
      <4>1. Settled(Dir(p)) /\ Listed(d) = Listed(Dir(p))
        BY <2>2, <2>3, <3>3 DEF MarkTells, Seconds, Listed
      <4>2. QED
        BY <2>3, <3>3, <4>1 DEF MarkLeft, Settled
    <3>4. QED
      BY <1>1, <3>1, <3>2, <3>3
  <2>5. Head(todo[p]).do \notin LeavesCa \union {"exit"}
    BY <1>1 DEF LeavesCa
  <2>6. d.mark \in d.notes \union {0, Root, -2} /\ (Dir(p).root => d.root)
    BY <2>2, <2>3
  <2>7. QED
    BY <1>1, <1>2, <1>3, <2>1, <2>3, <2>4, <2>5, <2>6, VanishInside
<1>6. QED
  BY <1>4, <1>5

(* openssl ca signs what the mark tells of.                                *)
LEMMA VanishSign ==
  ASSUME CaInv, ReaderTypes, VanishInv, NEW p \in Procs, OpensslCa(p)
  PROVE  VanishInv'
<1>1. Running(p) /\ Head(todo[p]).do = "sign"
  BY DEF OpensslCa, Now
<1>2. PICK k, l \in Know : Leads(k, Head(todo[p]), l) /\ Meaning(p, k)
  BY <1>1, OwnFacts DEF Running
<1>3. AtWork(k) /\ k.num = 3
  BY <1>1, <1>2 DEF Leads, LeadsAnywhere, LeadsUnmarked, LeadsInside
<1>4. CASE Fails(p)
  BY <1>1, <1>4, VanishFails
<1>5. CASE ~Fails(p)
  <2> DEFINE n == Dir(p).serial
             d == [Dir(p) EXCEPT !.index = @ \union {Dir(p).serial}, !.serial = @ + 1,
                                 !.certs = Put(@, number[p], Dir(p).keys[number[p]])]
  <2>1. /\ Inside(p) /\ n \notin Dir(p).index \union {0} /\ Done(p) /\ dirs' = [dirs EXCEPT ![cwd[p]] = d]
        /\ UNCHANGED <<lock, status, ca, lockfile, cwd, number, passed, readVars, renewed>>
    BY <1>5 DEF OpensslCa, InDir
  <2>2. Dir(p) \in Directory /\ number[p] = n /\ Dir(p).mark = n
    <3>1. MarkTells(Head(todo[p]).do, number[p], Dir(p)) /\ Dir(p) \in Directory
      BY <1>1, <1>2, <1>3, <2>1, SetAndLocked
    <3>2. number[p] = n
      BY <1>1, <1>2, <1>3, <2>1, InTheMaking
    <3>3. QED
      BY <1>1, <3>1, <3>2 DEF MarkTells
  <2>3. Dir(p).mark \in Dir(p).notes \union {0, Root, -2}
    BY <1>1, <1>2, <1>3, <2>1, SetAndLocked DEF FilesInv, Dir
  <2>4. /\ d.state = Dir(p).state /\ d.index = Dir(p).index \union {n} /\ d.notes = Dir(p).notes
        /\ d.root = Dir(p).root /\ d.mark = Dir(p).mark
    BY <2>2 DEF Directory
  <2> HIDE DEF d
  <2>5. MarkLeft(Head(todo[p]).do, number[p], d)
    BY <1>1, <2>2, <2>4 DEF MarkLeft, Settled, Listed
  <2>6. /\ Dir(p).index \subseteq d.index /\ d.mark \in d.notes \union {0, Root, -2}
        /\ Head(todo[p]).do \notin LeavesCa \union {"exit"}
    BY <1>1, <2>3, <2>4 DEF LeavesCa
  <2>7. QED
    BY <1>1, <1>2, <1>3, <2>1, <2>4, <2>5, <2>6, VanishInside
<1>6. QED
  BY <1>4, <1>5

-----------------------------------------------------------------------------
(* A crash leaves the marks where they are, and the others at work.        *)
LEMMA VanishCrash ==
  ASSUME CaInv, VanishInv, NEW dead \in SUBSET Procs, NEW left, Crash(dead, left)
  PROVE  VanishInv'
<1>1. UNCHANGED <<dirs, reader, due>> /\ \A c \in CAs : Untouched(c)
  BY DEF Crash, readVars, Untouched
<1>2. ASSUME NEW q \in Procs, status'[q] = "running" PROVE PlanInv(q)'
  <2>1. q \notin dead
    BY <1>2 DEF Crash
  <2>2. Same(q) /\ status[q] = "running"
    BY <1>2, <2>1 DEF Crash, Same
  <2>3. PlanInv(q) /\ (Chosen(q) # NoCA => Chosen(q) \in CAs)
    BY <2>2 DEF VanishInv, CaInv, DataTypes, Chosen, Passed, Places
  <2>4. QED
    BY <1>1, <2>2, <2>3, OthersPlan
<1>3. \A c \in CAs : FilesInv(c)'
  BY <1>1 DEF VanishInv, FilesInv
<1>4. WatchInv'
  BY <1>1, WatchKeeps DEF VanishInv, Kept
<1>5. QED
  BY <1>2, <1>3, <1>4 DEF VanishInv

(* A step that changes nothing but what get_ca knows.                      *)
LEMMA VanishWatched ==
  ASSUME VanishInv, UNCHANGED <<dirs, lock, procVars>>, WatchInv'
  PROVE  VanishInv'
<1>1. UNCHANGED <<dirs, lock, todo, status, ca, lockfile, cwd, number, passed>>
  BY DEF procVars
<1>2. ASSUME NEW q \in Procs, status'[q] = "running" PROVE PlanInv(q)'
  <2>1. PlanInv(q)
    BY <1>1, <1>2 DEF VanishInv
  <2>2. QED
    BY <1>1, <2>1 DEF PlanInv, Chosen, Held, Dir
<1>3. \A c \in CAs : FilesInv(c)'
  BY <1>1 DEF VanishInv, FilesInv
<1>4. QED
  BY <1>2, <1>3 DEF VanishInv

(* get_ca begins: all that is announced is noted.                          *)
LEMMA WatchStarts ==
  ASSUME CaInv, ReaderTypes, VanishInv, NEW c \in CAs, ReaderStarts(c)
  PROVE  WatchInv'
<1>1. /\ reader' = [reader EXCEPT !.at = "generating", !.ca = c] /\ dirs' = dirs
      /\ due' = Listed(dirs[c]) \union ({dirs[c].mark} \ {0, -2})
  BY DEF ReaderStarts
<1>2. reader'.at = "generating" /\ reader'.ca = c
  BY <1>1 DEF ReaderTypes
<1>3. dirs[c] \in Directory /\ FilesInv(c) /\ DirInv(c)
  BY DEF CaInv, DataTypes, VanishInv
<1>4. ASSUME NEW x \in due'
      PROVE  /\ x \in (Nat \ {0}) \union {Root} /\ x \in Listed(dirs[c]) \union {dirs[c].mark}
             /\ x \in dirs[c].notes \union {Root}
  <2>1. CASE x \in dirs[c].index
    BY <1>3, <2>1 DEF Directory, DirInv, Listed
  <2>2. CASE x = Root
    BY <1>1, <1>4, <2>2
  <2>3. CASE x = dirs[c].mark /\ x \notin {0, -2, Root}
    BY <1>3, <2>3 DEF Directory, FilesInv, Marks
  <2>4. QED
    BY <1>1, <1>4, <2>1, <2>2, <2>3 DEF Listed
<1>5. QED
  BY <1>1, <1>2, <1>4 DEF WatchInv, Finds

(* It reads on: first the mark, then what the mark may have been for.      *)
LEMMA WatchReads ==
  ASSUME CaInv, ReaderTypes, VanishInv, ReadMark \/ ReadIndex \/ ReadNotes \/ ReadRoot
  PROVE  WatchInv'
<1>1. dirs' = dirs /\ due' = due
  BY DEF ReadMark, ReadIndex, ReadNotes, ReadRoot, Reads
<1>2. /\ reader.at \in {"generating", "index", "notes", "root"} /\ reader.ca \in CAs
      /\ reader \in [at : {"new", "generating", "index", "notes", "root", "done", "failed"}, ca : Places,
                     mark : Marks, index : SUBSET (Nat \union {Root}), report : SUBSET (Nat \union {Root})]
  BY DEF ReadMark, ReadIndex, ReadNotes, ReadRoot, Reads, ReaderTypes
<1>3. PICK d \in Directory : d = dirs[reader.ca]
  BY <1>2 DEF CaInv, DataTypes
<1>4. ASSUME NEW x \in due
      PROVE  /\ x \in (Nat \ {0}) \union {Root} /\ Finds(x)
             /\ reader.at # "root" => x \in d.notes \union {Root}
  BY <1>2, <1>3, <1>4 DEF VanishInv, WatchInv
<1>5. Root \notin d.index
  BY <1>3 DEF Directory, Root
<1>6. CASE reader'.at = "failed"
  BY <1>1, <1>4, <1>6 DEF WatchInv, Finds
<1>7. CASE reader'.at # "failed"
  <2>1. CASE ReadMark
    <3>1. reader' = [reader EXCEPT !.at = "index", !.mark = d.mark] /\ reader.at = "generating"
      BY <1>2, <1>3, <2>1 DEF ReadMark, Reads
    <3>2. reader'.at = "index" /\ reader'.mark = d.mark /\ reader'.ca = reader.ca
      BY <1>2, <3>1
    <3>3. \A x \in due : x \in Listed(d) \union {d.mark}
      BY <1>3, <1>4, <3>1 DEF Finds
    <3>4. QED
      BY <1>1, <1>3, <1>4, <3>1, <3>2, <3>3 DEF WatchInv, Finds
  <2>2. CASE ReadIndex
    <3>1. reader' = [reader EXCEPT !.at = "notes", !.index = d.index] /\ reader.at = "index"
      BY <1>2, <1>3, <1>7, <2>2 DEF ReadIndex, Reads
    <3>2. /\ reader'.at = "notes" /\ reader'.index = d.index /\ reader'.ca = reader.ca
          /\ reader'.mark = reader.mark
      BY <1>2, <3>1
    <3>3. \A x \in due : x \in Listed(d) \union {reader.mark}
      BY <1>3, <1>4, <3>1 DEF Finds
    <3>4. \A x \in due : IF x = Root THEN d.root \/ reader.mark = Root ELSE x \in d.index \union {reader.mark}
      BY <1>5, <3>3 DEF Listed
    <3>5. QED
      BY <1>1, <1>3, <1>4, <3>1, <3>2, <3>4 DEF WatchInv, Finds
  <2>3. CASE ReadNotes
    <3> DEFINE report == d.notes \intersect (reader.index \union {reader.mark})
    <3>1. reader' = [reader EXCEPT !.at = "root", !.index = {}, !.report = report] /\ reader.at = "notes"
      BY <1>2, <1>3, <1>7, <2>3 DEF ReadNotes, Reads
    <3>2. /\ reader'.at = "root" /\ reader'.report = report /\ reader'.ca = reader.ca
          /\ reader'.mark = reader.mark
      BY <1>2, <3>1
    <3>3. \A x \in due : IF x = Root THEN d.root \/ reader.mark = Root ELSE x \in report
      BY <1>3, <1>4, <3>1 DEF Finds
    <3> HIDE DEF report
    <3>4. QED
      BY <1>1, <1>3, <1>4, <3>1, <3>2, <3>3 DEF WatchInv, Finds
  <2>4. CASE ReadRoot
    <3> DEFINE report == reader.report \union (IF d.root \/ reader.mark = Root THEN {Root} ELSE {})
    <3>1. reader' = [reader EXCEPT !.at = "done", !.mark = 0, !.report = report] /\ reader.at = "root"
      BY <1>2, <1>3, <1>7, <2>4 DEF ReadRoot, Reads
    <3>2. reader'.at = "done" /\ reader'.report = report
      BY <1>2, <3>1
    <3>3. \A x \in due : x \in report
      BY <1>3, <1>4, <3>1 DEF Finds
    <3> HIDE DEF report
    <3>4. QED
      BY <1>1, <1>4, <3>1, <3>2, <3>3 DEF WatchInv, Finds
  <2>5. QED
    BY <2>1, <2>2, <2>3, <2>4
<1>8. QED
  BY <1>6, <1>7

(* Every step.                                                             *)
LEMMA VanishStep ==
  ASSUME CaInv, ReaderTypes, VanishInv, [Next]_vars
  PROVE  VanishInv'
<1>1. ASSUME NEW p \in Procs, Starts(p) \/ Goes(p) PROVE VanishInv'
  BY <1>1, VanishCommand, VanishRefresh, VanishSwitching, VanishLooking, VanishRuns, VanishClean, VanishEnters,
     VanishNewCa, VanishDropCa, VanishMark, VanishAdds, VanishSign DEF Goes
<1>2. CASE Kill
  BY <1>2, VanishCrash DEF Kill
<1>3. CASE Reboot
  <2> DEFINE dead == {p \in Procs : status[p] = "running"}
  <2>1. Crash(dead, [c \in CAs |-> NoProc]) /\ dead \in SUBSET Procs
    BY <1>3 DEF Reboot
  <2> HIDE DEF dead
  <2>2. QED
    BY <2>1, VanishCrash
<1>4. CASE Reader
  <2>1. UNCHANGED <<dirs, lock, procVars>>
    BY <1>4 DEF Reader, ReaderStarts, Reads, ReadMark, ReadIndex, ReadNotes, ReadRoot
  <2>2. WatchInv'
    BY <1>4, CaAssumption, WatchStarts, WatchReads DEF Reader
  <2>3. QED
    BY <2>1, <2>2, VanishWatched
<1>5. CASE UNCHANGED vars
  <2>1. UNCHANGED <<dirs, lock, procVars, reader, due>>
    BY <1>5 DEF vars, readVars
  <2>2. WatchInv'
    BY <2>1, WatchKeeps DEF VanishInv, Kept
  <2>3. QED
    BY <2>1, <2>2, VanishWatched
<1>6. QED
  BY <1>1, <1>2, <1>3, <1>4, <1>5 DEF Next

(* NothingVanishes of run ca_gen: get_ca, which takes no lock, reports     *)
(* every certificate that was there or was being made when it began and    *)
(* that nobody gave up or deleted (the order of note, mark and signature   *)
(* in do_gen_server, and of the reads in get_ca).                          *)
THEOREM CertificatesStay == Spec => []NothingVanishes
<1>1. Init => VanishInv
  <2>1. SUFFICES ASSUME Init PROVE VanishInv
    OBVIOUS
  <2>2. \A p \in Procs : status[p] # "running"
    BY <2>1 DEF Init
  <2>3. WatchInv
    BY <2>1 DEF Init, WatchInv
  <2>4. ASSUME NEW c \in CAs PROVE FilesInv(c)
    <3>1. dirs[c] \in {Used, Absent}
      BY <2>1 DEF Init
    <3>2. Absent.mark = 0 /\ Absent.notes = {} /\ Absent.index = {} /\ Absent.root = FALSE
      BY NewDirectory DEF Absent
    <3>3. Used.mark = 0 /\ Used.state = "ready"
      BY DEF Used, Absent
    <3>4. Listed(Absent) = {}
      BY <3>2 DEF Listed
    <3>5. QED
      BY <3>1, <3>2, <3>3, <3>4 DEF FilesInv
  <2>5. QED
    BY <2>2, <2>3, <2>4 DEF VanishInv
<1>2. CaInv /\ ReaderTypes /\ VanishInv /\ [Next]_vars => VanishInv'
  BY VanishStep
<1>3. VanishInv => NothingVanishes
  BY DEF VanishInv, WatchInv, Finds, NothingVanishes
<1>4. QED
  BY <1>1, <1>2, <1>3, CaInvariant, PTL DEF Spec
=============================================================================
