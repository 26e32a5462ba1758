---------------------------- MODULE UciCursorProofs ----------------------------
(***************************************************************************)
(* What the operations on the shared cursor return, for any packages and   *)
(* options: the facts the proofs about the server's transactions rest on.  *)
(*                                                                         *)
(* WellFormed says of a cursor that only packages it has read have staged  *)
(* changes, which is what makes cursor:commit of an untouched package a    *)
(* no-operation rather than a loss.                                        *)
(***************************************************************************)
EXTENDS UciCursor, TLAPS

WellFormed(cursor) ==
  /\ cursor \in Cursors
  /\ \A o \in cursor.staged : ConfigOf[o] \in cursor.loaded

(* The kept copy of package c is what is on disk but for staged changes.   *)
InStep(cursor, disk) ==
  \A o \in Options \ cursor.staged : ConfigOf[o] \in cursor.loaded => cursor.mem[o] = disk[o]

(* A new cursor has read nothing and staged nothing.                       *)
LEMMA FreshFacts ==
  ASSUME NEW disk
  PROVE  /\ WellFormed(FreshCursor) /\ InStep(FreshCursor, disk)
         /\ FreshCursor.staged = {} /\ FreshCursor.loaded = {}
BY DEF FreshCursor, WellFormed, InStep, Cursors, Contents

(* The first touch of a package only adds its copy to the cursor.          *)
LEMMA LoadFacts ==
  ASSUME NEW cursor, WellFormed(cursor), NEW disk \in Contents, NEW c \in Configs
  PROVE  LET at == Load(cursor, disk, c)
         IN  /\ WellFormed(at)
             /\ at.staged = cursor.staged
             /\ at.loaded = cursor.loaded \union {c}
             /\ \A o \in cursor.staged : at.mem[o] = cursor.mem[o]
             /\ InStep(cursor, disk) => InStep(at, disk)
BY ConfigOfAssumption DEF Load, WellFormed, InStep, Cursors, Contents

(* Reading an option yields a value of it, and the one on disk if the      *)
(* cursor has read nothing.                                                *)
LEMMA ViewFacts ==
  ASSUME NEW cursor, WellFormed(cursor), NEW disk \in Contents, NEW o \in Options
  PROVE  /\ View(cursor, disk, o) \in Values \union {Absent}
         /\ InStep(cursor, disk) /\ o \notin cursor.staged => View(cursor, disk, o) = disk[o]
         /\ o \in cursor.staged => View(cursor, disk, o) = cursor.mem[o]
BY ConfigOfAssumption DEF View, Load, WellFormed, InStep, Cursors, Contents

(* set and delete stage the one option, with the new value, and keep what  *)
(* was staged before.                                                      *)
LEMMA SetFacts ==
  ASSUME NEW cursor, WellFormed(cursor), NEW disk \in Contents,
         NEW o \in Options, NEW v \in Values \union {Absent}
  PROVE  LET set == SetOption(cursor, disk, o, v)
         IN  /\ WellFormed(set)
             /\ set.staged = cursor.staged \union {o}
             /\ set.mem[o] = v
             /\ \A p \in cursor.staged \ {o} : set.mem[p] = cursor.mem[p]
             /\ InStep(cursor, disk) => InStep(set, disk)
<1> DEFINE at == Load(cursor, disk, ConfigOf[o])
<1>1. ConfigOf[o] \in Configs
  BY ConfigOfAssumption
<1>2. /\ WellFormed(at) /\ at.staged = cursor.staged
      /\ at.loaded = cursor.loaded \union {ConfigOf[o]}
      /\ \A p \in cursor.staged : at.mem[p] = cursor.mem[p]
      /\ InStep(cursor, disk) => InStep(at, disk)
  BY <1>1, LoadFacts
<1> HIDE DEF at
<1>3. SetOption(cursor, disk, o, v) = [at EXCEPT !.mem[o] = v, !.staged = @ \union {o}]
  BY DEF SetOption, at
<1>4. at \in Cursors /\ cursor \in Cursors
  BY <1>2 DEF WellFormed
<1> DEFINE set == SetOption(cursor, disk, o, v)
<1>5. /\ set.loaded = at.loaded /\ set.staged = at.staged \union {o}
      /\ set.mem = [at.mem EXCEPT ![o] = v]
      /\ set \in Cursors
  <2>1. at = [loaded |-> at.loaded, mem |-> at.mem, staged |-> at.staged]
    BY <1>4 DEF Cursors
  <2>2. set = [loaded |-> at.loaded, mem |-> [at.mem EXCEPT ![o] = v],
               staged |-> at.staged \union {o}]
    BY <1>3, <2>1
  <2> HIDE DEF set
  <2>3. [at.mem EXCEPT ![o] = v] \in Contents
    BY <1>4 DEF Cursors, Contents
  <2>4. QED
    BY <1>4, <2>2, <2>3 DEF Cursors
<1> HIDE DEF set
<1>6. set.mem[o] = v /\ \A p \in Options \ {o} : set.mem[p] = at.mem[p]
  BY <1>4, <1>5 DEF Cursors, Contents
<1>7. WellFormed(set)
  BY <1>2, <1>5 DEF WellFormed
<1>8. InStep(cursor, disk) => InStep(set, disk)
  BY <1>2, <1>5, <1>6 DEF InStep
<1>9. QED
  BY <1>2, <1>4, <1>5, <1>6, <1>7, <1>8 DEF set, Cursors

(* commit writes the staged changes of its package and nothing else.       *)
LEMMA MergedFacts ==
  ASSUME NEW cursor, WellFormed(cursor), NEW disk \in Contents, NEW c
  PROVE  LET merged == Merged(cursor, disk, c)
         IN  /\ merged \in Contents
             /\ \A o \in Options : merged[o] # disk[o] =>
                  o \in cursor.staged /\ ConfigOf[o] = c /\ merged[o] = cursor.mem[o]
             /\ \A o \in cursor.staged : ConfigOf[o] = c => merged[o] = cursor.mem[o]
BY DEF Merged, WellFormed, Cursors, Contents

(* After it nothing of the package is staged; the other packages' changes  *)
(* still are, with the same values.                                        *)
LEMMA AfterCommitFacts ==
  ASSUME NEW cursor, WellFormed(cursor), NEW disk \in Contents, NEW c
  PROVE  LET after == AfterCommit(cursor, disk, c)
         IN  /\ WellFormed(after)
             /\ after.staged = {o \in cursor.staged : ConfigOf[o] # c}
             /\ \A o \in after.staged : after.mem[o] = cursor.mem[o]
             /\ InStep(cursor, disk) => InStep(after, Merged(cursor, disk, c))
<1> DEFINE after == AfterCommit(cursor, disk, c)
           merged == Merged(cursor, disk, c)
<1>1. merged \in Contents
  BY MergedFacts
<1>2. CASE c \in cursor.loaded
  <2>1. after = [cursor EXCEPT
          !.mem = [o \in Options |-> IF ConfigOf[o] = c THEN merged[o] ELSE cursor.mem[o]],
          !.staged = cursor.staged \ OptionsOf(c)]
    BY <1>2 DEF AfterCommit, Cursors, WellFormed
  <2>2. /\ after.loaded = cursor.loaded
        /\ after.staged = cursor.staged \ OptionsOf(c)
        /\ after.mem = [o \in Options |-> IF ConfigOf[o] = c THEN merged[o] ELSE cursor.mem[o]]
    BY <2>1 DEF Cursors, WellFormed
  <2> HIDE DEF after
  <2>6. after \in Cursors
    <3>1. [o \in Options |-> IF ConfigOf[o] = c THEN merged[o] ELSE cursor.mem[o]] \in Contents
      BY <1>1 DEF Contents, Cursors, WellFormed
    <3>2. QED
      BY <2>1, <3>1 DEF Cursors, WellFormed
  <2>3. after.staged = {o \in cursor.staged : ConfigOf[o] # c}
    BY <2>2 DEF OptionsOf, WellFormed, Cursors
  <2>4. WellFormed(after)
    BY <2>2, <2>3, <2>6 DEF WellFormed
  <2>5. ASSUME InStep(cursor, disk), NEW o \in Options \ after.staged,
               ConfigOf[o] \in after.loaded
        PROVE  after.mem[o] = merged[o]
    BY <2>5, <2>2, <2>3 DEF InStep, Merged
  <2>7. QED
    BY <2>2, <2>3, <2>4, <2>5 DEF after, InStep, WellFormed, Cursors
<1>3. CASE c \notin cursor.loaded
  <2>1. after = cursor
    BY <1>3 DEF AfterCommit
  <2>2. \A o \in cursor.staged : ConfigOf[o] # c
    BY <1>3 DEF WellFormed
  <2>3. \A o \in Options : merged[o] = disk[o]
    BY <2>2 DEF Merged
  <2>4. QED
    BY <1>3, <2>1, <2>2, <2>3 DEF InStep, WellFormed, Cursors
<1>4. QED
  BY <1>2, <1>3
=============================================================================
