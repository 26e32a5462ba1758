----------------------------- MODULE MCNuciServer -----------------------------
(***************************************************************************)
(* Small instances of NuciServer: the package "net", edited through        *)
(* uci-raw, with two options, and "updater", edited through the updater's  *)
(* own datastore, with one.                                                *)
(***************************************************************************)
EXTENDS NuciServer, TLC

CONSTANTS s1, s2, on, off

MCConfigs == {"net", "updater"}
MCOptions == {"addr", "dns", "lists"}
MCConfigOf == [o \in MCOptions |-> IF o = "lists" THEN "updater" ELSE "net"]
MCValues == {on, off}
MCInitialDisk == [o \in MCOptions |-> IF o = "addr" THEN Absent ELSE off]

Edit(o, how, v) == [opt |-> o, how |-> how, val |-> v]
Raw(o, how, v) == EditRequest("uci-raw" :> Edit(o, how, v))
Lists(v) == EditRequest("updater" :> Edit("lists", "merge", v))
Both(v) == EditRequest("uci-raw" :> Edit("addr", "merge", v) @@ "updater" :> Edit("lists", "merge", v))

Get == [op |-> "get"]
User == [op |-> "user", cfg |-> "net"]
Lockings == {[op |-> "lock"], [op |-> "unlock"]}

(* One client with every kind of request but the lock's.                   *)
TxnRequests ==
  {Raw("addr", "create", on), Raw("addr", "delete", off), Raw("addr", "broken", on),
   Raw("dns", "merge", on), Lists(on), Lists(off), Both(on), Both(off), Get, User}

(* Two clients that edit different options of one package, and lock.       *)
PairConfigs == {"net"}
PairOptions == {"addr", "dns"}
PairConfigOf == [o \in PairOptions |-> "net"]
PairDisk == [o \in PairOptions |-> Absent]
PairRequests ==
  {Raw("addr", "create", on), Raw("addr", "remove", on), Raw("dns", "merge", on)} \union Lockings

PairSymmetry == Permutations({s1, s2})

(* For the runs that show a disagreement.                                  *)
BothRequests == {Both(on)}
MergeRequests == {Raw("addr", "merge", on), Raw("addr", "remove", on)}
=============================================================================
