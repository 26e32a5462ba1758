------------------------------ MODULE UciCursor ------------------------------
(***************************************************************************)
(* The shared UCI cursor of one nuci process.  libuci itself is not part   *)
(* of the repository: the operators describe what the code in src/ gets    *)
(* from it.  A package (config) is read when the cursor first touches it   *)
(* and kept from then on; set and delete change the kept copy and are      *)
(* remembered as staged changes; commit(config) reads the file again,      *)
(* applies the staged changes of that package and writes it, and does      *)
(* nothing for a package the cursor never touched.                         *)
(***************************************************************************)

CONSTANTS Configs,        \* the UCI packages
          Options,        \* the options, of all the packages
          ConfigOf,       \* the package of each option
          Values,         \* the values an option may have
          Absent          \* "the option is not there"

ASSUME ConfigOfAssumption == ConfigOf \in [Options -> Configs]

Contents == [Options -> Values \union {Absent}]

OptionsOf(c) == {o \in Options : ConfigOf[o] = c}

(* loaded: packages read so far; mem: the kept copies; staged: the options *)
(* that were set or deleted since.                                         *)
Cursors == [loaded : SUBSET Configs, mem : Contents, staged : SUBSET Options]

(* get_uci_cursor after reset_uci_cursor: staged changes are gone with the *)
(* old cursor.                                                             *)
FreshCursor == [loaded |-> {}, mem |-> [o \in Options |-> Absent], staged |-> {}]

(* The first touch of package c.                                           *)
Load(cursor, disk, c) ==
  IF c \in cursor.loaded
  THEN cursor
  ELSE [cursor EXCEPT
          !.loaded = @ \union {c},
          !.mem = [o \in Options |-> IF ConfigOf[o] = c THEN disk[o] ELSE @[o]]]

(* What the process reads for option o.                                    *)
View(cursor, disk, o) == Load(cursor, disk, ConfigOf[o]).mem[o]

(* cursor:set(config, section, option, v), or cursor:delete for Absent.    *)
SetOption(cursor, disk, o, v) ==
  LET at == Load(cursor, disk, ConfigOf[o])
  IN  [at EXCEPT !.mem[o] = v, !.staged = @ \union {o}]

(* The file of package c after cursor:commit(c).                           *)
Merged(cursor, disk, c) ==
  [o \in Options |-> IF o \in cursor.staged /\ ConfigOf[o] = c THEN cursor.mem[o] ELSE disk[o]]

(* The cursor after it: it has just read the package again.                *)
AfterCommit(cursor, disk, c) ==
  IF c \in cursor.loaded
  THEN [cursor EXCEPT
          !.mem = [o \in Options |-> IF ConfigOf[o] = c THEN Merged(cursor, disk, c)[o] ELSE @[o]],
          !.staged = @ \ OptionsOf(c)]
  ELSE cursor
=============================================================================
