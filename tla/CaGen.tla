--------------------------------- MODULE CaGen ---------------------------------
(***************************************************************************)
(* The CA generator: ca/gen, a script that ca-gen.lua starts for the RPCs  *)
(* generate, revoke and delete-ca, that cron starts to refresh the         *)
(* revocation lists, and that may go on in the background; and get_ca of   *)
(* ca-gen.lua, which reads the same files for <get> and takes no lock.     *)
(*                                                                         *)
(* A word of the command line is followed by its arguments, and stands for *)
(* the sequence of its steps, which replace it when it is reached.  A step *)
(* that fails ends the script (set -e), and the script cleans up when it   *)
(* ends.  A process may be killed, and then it does not.  Not here: the    *)
(* trap on signals, which cleans up and goes on; notes on what kind of     *)
(* certificate it is, and its name.                                        *)
(***************************************************************************)
EXTENDS Integers, Sequences, SequencesExt, FiniteSets

CONSTANTS CAs,       \* names of CAs
          Procs,     \* runs of the script, each with its background part
          Jobs,      \* the command lines
          Read,      \* the CAs that get_ca is watched at
          There,     \* the CAs that may be there at first, with one certificate
          NoCA, NoProc

ASSUME CaAssumption ==
  /\ There \subseteq SUBSET CAs /\ Read \subseteq CAs
  /\ NoCA \notin CAs /\ NoProc \notin Procs
  /\ IsFiniteSet(CAs) /\ IsFiniteSet(Procs)

VARIABLES
  dirs,       \* CA -> its directory
  lock,       \* CA -> who made /tmp/ca-lock-<CA>, if it is there
  todo,       \* process -> steps left
  status,     \* process -> new, running, done or killed
  ca,         \* process -> CA
  lockfile,   \* process -> the CA of LOCKFILE
  cwd,        \* process -> the CA whose directory it is in
  number,     \* process -> SERIAL
  passed,     \* process -> what its background part is started with
  reader,     \* get_ca at work
  due,        \* history: certificates that get_ca has to report
  renewed     \* history: CAs with certificates that were created again

procVars == <<todo, status, ca, lockfile, cwd, number, passed>>
readVars == <<reader, due>>
vars == <<dirs, lock, procVars, readVars, renewed>>

-----------------------------------------------------------------------------
(* A directory: `bare' has no index.txt and notes.txt.  mark is the file   *)
(* generating: a serial, 0 if it is not there, -1 for root and -2 for      *)
(* dhparams.  keys and certs tell which key it is, and whose.              *)
Root == -1
Absent == [state |-> "absent", index |-> {}, revoked |-> {}, notes |-> {}, serial |-> 0, mark |-> 0,
           root |-> FALSE, keys |-> <<>>, certs |-> <<>>]
Bare == [Absent EXCEPT !.state = "bare"]
Used == [Absent EXCEPT !.state = "ready", !.index = {1}, !.notes = {1}, !.serial = 2, !.root = TRUE,
                       !.keys = <<NoProc>>, !.certs = <<NoProc>>]

(* The file of a number is written, whether there is one already or not.   *)
Put(files, n, what) == [i \in DOMAIN files \union {n} |-> IF i = n THEN what ELSE files[i]]

(* What get_ca can find in it without the notes.                           *)
Listed(d) == d.index \union (IF d.root THEN {Root} ELSE {})

Step(do, c) == [do |-> do, ca |-> c]
Plain(do) == Step(do, NoCA)
Steps(names) == [i \in 1..Len(names) |-> Plain(names[i])]

(* A bug: the lock is given up before the mark is removed.                 *)
Mutant_CleanupSteps == Steps(<<"unlock", "clean">>)

(* cleanup: the mark goes while the lock is still held.                    *)
CleanupSteps == Steps(<<"clean", "unlock">>)

(* A bug: the next CA is locked while the last one still is.               *)
Mutant_Switch(c) == <<Step("cd", c), Step("lock", c), Step("enter", c)>>

(* do_switch; the CA's name is an argument.                                *)
Switch(c) == CleanupSteps \o <<Step("cd", c), Step("lock", c), Step("enter", c)>>

(* A bug: the mark is written before the note.                             *)
Mutant_GenSteps == Steps(<<"chosen", "number", "mark", "note", "request", "sign", "crl", "unmark">>)

GenSteps == Steps(<<"chosen", "number", "note", "mark", "request", "sign", "crl", "unmark">>)

(* Words of the command line; one that the script does not know (here `-') *)
(* does nothing.  Two of them are steps, and one begins a loop.            *)
Words == {"switch", "new_ca", "gen_ca", "gen_dh", "gen", "drop_ca", "revoke", "-"}
CommandSteps(cmd, c) ==
  CASE cmd = "switch" -> Switch(c)
    [] cmd = "new_ca" -> <<Step("mkdir", c), Step("touch", c), Step("reset", c)>> \o Switch(c)
    [] cmd = "gen_ca" -> Steps(<<"chosen", "fresh", "mark-root", "make-root", "crl", "unmark">>)
    [] cmd = "gen_dh" -> Steps(<<"mark-dh", "unmark">>)
    [] cmd = "gen" -> GenSteps
    [] cmd = "drop_ca" -> <<Step("other", c), Plain("unlock"), Step("lock", c), Step("empty", c),
                            Step("rmdir", c), Plain("unlock")>>
    [] cmd = "revoke" -> Steps(<<"chosen", "openssl-revoke", "crl">>)
    [] OTHER -> <<>>

(* A bug: the script does not end.                                         *)
Mutant_Ending == CleanupSteps
Ending == CleanupSteps \o <<Plain("exit")>>

(* ca-gen.lua: the command line of a generate, and of a revoke.            *)
CaGenParams(r) ==
  (IF r.new THEN <<Step("new_ca", r.ca), Plain("gen_ca"), Plain("-")>> ELSE <<Step("switch", r.ca)>>)
  \o (IF r.dh THEN <<Plain("gen_dh")>> ELSE <<>>)
  \o [i \in 1..r.certs |-> Plain("gen")]
GenerateParams(background, rs) ==
  (IF background THEN <<Plain("background")>> ELSE <<>>)
  \o FlattenSeq([i \in 1..Len(rs) |-> CaGenParams(rs[i])])
RevokeParams(c) == <<Step("switch", c), Plain("revoke")>>

(* "To work with a concrete CA you have to switch to it first" (the help,  *)
(* ca/gen:233): before a word that works in a CA, the last one that enters *)
(* or leaves one enters it.  So are the lines of ca-gen.lua and of cron.   *)
Entering == {"switch", "new_ca"}
Leaving == {"drop_ca", "refresh"}
WorksInside == {"gen_ca", "gen_dh", "gen", "revoke"}
WellMade(job) ==
  \A i \in 1..Len(job) :
    /\ job[i].do \in Entering \union {"drop_ca"} => job[i].ca \in CAs
    /\ job[i].do \in WorksInside =>
         \E j \in 1..(i - 1) : /\ job[j].do \in Entering
                              /\ \A k \in (j + 1)..(i - 1) : job[k].do \notin Entering \union Leaving

Lines == Seq([do : Words \union {"refresh", "background"}, ca : CAs \union {NoCA}])

ASSUME JobsAssumption == Jobs \subseteq Lines /\ \A job \in Jobs : WellMade(job)

(* Nor do they work in a CA before drop_ca, which gives up its lock and    *)
(* leaves CA set: a line that deletes CAs does nothing before or between.  *)
DropsFirst(job) ==
  \A i, j \in 1..Len(job) : job[i].do = "drop_ca" /\ j < i => job[j].do \notin Entering \union {"refresh"}

ASSUME DropsAssumption == \A job \in Jobs : DropsFirst(job)

-----------------------------------------------------------------------------
Running(p) == status[p] = "running" /\ passed[p] = <<>>
Now(p, do) == Running(p) /\ Head(todo[p]).do = do
Arg(p) == Head(todo[p]).ca
Done(p) == todo' = [todo EXCEPT ![p] = Tail(@)]

(* The directory it is in, if that is still there.                         *)
Inside(p) == cwd[p] # NoCA
Dir(p) == dirs[cwd[p]]

(* set -e: the script only cleans up.                                      *)
Fails(p) ==
  /\ todo' = [todo EXCEPT ![p] = Ending]
  /\ UNCHANGED <<dirs, lock, status, ca, lockfile, cwd, number, passed, readVars, renewed>>

(* A generation that its process gives up is not to be reported.           *)
Dropped(p, c) ==
  due' = IF reader.ca = c /\ lock[c] = p /\ dirs[c].mark \notin Listed(dirs[c])
         THEN due \ {dirs[c].mark} ELSE due

(* A step that changes only the directory it is in, or fails.              *)
InDir(p, may, dir) ==
  IF may
  THEN /\ dirs' = [dirs EXCEPT ![cwd[p]] = dir]
       /\ Done(p)
       /\ UNCHANGED <<lock, status, ca, lockfile, cwd, number, passed, readVars, renewed>>
  ELSE Fails(p)

-----------------------------------------------------------------------------
Starts(p) ==
  \E job \in Jobs :
    /\ status[p] = "new"
    /\ status' = [status EXCEPT ![p] = "running"]
    /\ todo' = [todo EXCEPT ![p] = job \o Ending]
    /\ UNCHANGED <<dirs, lock, ca, lockfile, cwd, number, passed, readVars, renewed>>

(* The loop over the command line: a word gives way to its steps.          *)
Command(p) ==
  /\ \E word \in Words : Now(p, word)
  /\ todo' = [todo EXCEPT ![p] = CommandSteps(Head(@).do, Head(@).ca) \o Tail(@)]
  /\ UNCHANGED <<dirs, lock, status, ca, lockfile, cwd, number, passed, readVars, renewed>>

(* rm -f of the mark, by its path, if it has a CA.                         *)
Clean(p) ==
  /\ Now(p, "clean")
  /\ IF ca[p] = NoCA THEN UNCHANGED <<dirs, due>>
     ELSE dirs' = [dirs EXCEPT ![ca[p]].mark = 0] /\ Dropped(p, ca[p])
  /\ ca' = [ca EXCEPT ![p] = NoCA]
  /\ Done(p)
  /\ UNCHANGED <<lock, status, lockfile, cwd, number, passed, reader, renewed>>

Unlock(p) ==
  /\ Now(p, "unlock")
  /\ lock' = [c \in CAs |-> IF lockfile[p] = c THEN NoProc ELSE lock[c]]
  /\ lockfile' = [lockfile EXCEPT ![p] = NoCA]
  /\ Done(p)
  /\ UNCHANGED <<dirs, status, ca, cwd, number, passed, readVars, renewed>>

Exit(p) ==
  /\ Now(p, "exit")
  /\ status' = [status EXCEPT ![p] = "done"]
  /\ todo' = [todo EXCEPT ![p] = <<>>]
  /\ cwd' = [cwd EXCEPT ![p] = NoCA]
  /\ number' = [number EXCEPT ![p] = 0]
  /\ UNCHANGED <<dirs, lock, ca, lockfile, passed, readVars, renewed>>

ChangesDir(p) ==
  /\ Now(p, "cd")
  /\ IF dirs[Arg(p)].state = "absent" THEN Fails(p)
     ELSE /\ cwd' = [cwd EXCEPT ![p] = Arg(p)]
          /\ Done(p)
          /\ UNCHANGED <<dirs, lock, status, ca, lockfile, number, passed, readVars, renewed>>

(* A bug: no noclobber, it does not wait.                                  *)
Mutant_Lock(p) ==
  /\ Now(p, "lock")
  /\ lock' = [lock EXCEPT ![Arg(p)] = p]
  /\ lockfile' = [lockfile EXCEPT ![p] = Arg(p)]
  /\ Done(p)
  /\ UNCHANGED <<dirs, status, ca, cwd, number, passed, readVars, renewed>>

(* noclobber: it waits until the file is not there.                        *)
Lock(p) ==
  /\ Now(p, "lock")
  /\ lock[Arg(p)] = NoProc
  /\ lock' = [lock EXCEPT ![Arg(p)] = p]
  /\ lockfile' = [lockfile EXCEPT ![p] = Arg(p)]
  /\ Done(p)
  /\ UNCHANGED <<dirs, status, ca, cwd, number, passed, readVars, renewed>>

(* The mark of somebody who died goes.                                     *)
Enters(p) ==
  /\ Now(p, "enter")
  /\ IF Inside(p) THEN dirs' = [dirs EXCEPT ![cwd[p]].mark = 0] /\ Dropped(p, cwd[p])
     ELSE UNCHANGED <<dirs, due>>
  /\ ca' = [ca EXCEPT ![p] = Arg(p)]
  /\ Done(p)
  /\ UNCHANGED <<lock, status, lockfile, cwd, number, passed, reader, renewed>>

(* do_new_ca makes the directory before it has the lock.                   *)
NewCa(p) ==
  \/ /\ Now(p, "mkdir")
     /\ dirs' = [dirs EXCEPT ![Arg(p)] = IF @.state = "absent" THEN Bare ELSE @]
     /\ Done(p)
     /\ UNCHANGED <<lock, status, ca, lockfile, cwd, number, passed, readVars, renewed>>
  \/ /\ Now(p, "touch")
     /\ IF dirs[Arg(p)].state = "absent" THEN Fails(p)
        ELSE /\ dirs' = [dirs EXCEPT ![Arg(p)].state = "ready"]
             /\ Done(p)
             /\ UNCHANGED <<lock, status, ca, lockfile, cwd, number, passed, readVars, renewed>>
  \/ /\ Now(p, "reset")
     /\ IF dirs[Arg(p)].state = "absent" THEN Fails(p)
        ELSE /\ dirs' = [dirs EXCEPT ![Arg(p)].serial = 1]
             /\ renewed' = renewed \union (IF dirs[Arg(p)].notes = {} THEN {} ELSE {Arg(p)})
             /\ Done(p)
             /\ UNCHANGED <<lock, status, ca, lockfile, cwd, number, passed, readVars>>

(* The tests before a command: a CA is chosen, it has no root yet, it is   *)
(* not the one to be dropped.                                              *)
Tests(p) ==
  LET pass(may) ==
        IF may
        THEN Done(p) /\ UNCHANGED <<dirs, lock, status, ca, lockfile, cwd, number, passed, readVars, renewed>>
        ELSE Fails(p)
  IN \/ Now(p, "chosen") /\ pass(ca[p] # NoCA)
     \/ Now(p, "fresh") /\ pass(~(Inside(p) /\ Dir(p).root))
     \/ Now(p, "other") /\ pass(ca[p] # Arg(p))

(* The file generating, written and removed.                               *)
Mark(p) ==
  LET write(m) == InDir(p, Inside(p), [Dir(p) EXCEPT !.mark = m])
  IN \/ Now(p, "mark-root") /\ write(Root)
     \/ Now(p, "mark-dh") /\ write(-2)
     \/ Now(p, "mark") /\ write(number[p])
Unmark(p) == Now(p, "unmark") /\ InDir(p, Inside(p) /\ Dir(p).mark # 0, [Dir(p) EXCEPT !.mark = 0])

(* OpenSSL: the root, and the revocation list, which needs it.             *)
MakeRoot(p) == Now(p, "make-root") /\ InDir(p, Inside(p), [Dir(p) EXCEPT !.root = TRUE])
GenCrl(p) == Now(p, "crl") /\ InDir(p, Inside(p) /\ Dir(p).root, Dir(p))

(* A server's or a client's certificate: its number, what the notes tell   *)
(* of it, its key with the request, and the certificate.                   *)
TakeNumber(p) ==
  /\ Now(p, "number")
  /\ IF Inside(p) /\ Dir(p).serial # 0
     THEN /\ number' = [number EXCEPT ![p] = Dir(p).serial]
          /\ Done(p)
          /\ UNCHANGED <<dirs, lock, status, ca, lockfile, cwd, passed, readVars, renewed>>
     ELSE Fails(p)
WriteNote(p) == Now(p, "note") /\ InDir(p, Inside(p), [Dir(p) EXCEPT !.notes = @ \union {number[p]}])
Request(p) == Now(p, "request") /\ InDir(p, Inside(p), [Dir(p) EXCEPT !.keys = Put(@, number[p], p)])

(* openssl ca takes the number from its own file, and fails if it is used. *)
OpensslCa(p) ==
  /\ Now(p, "sign")
  /\ \/ InDir(p, Inside(p) /\ Dir(p).root /\ Dir(p).serial \notin Dir(p).index \union {0},
              [Dir(p) EXCEPT !.index = @ \union {Dir(p).serial}, !.serial = @ + 1,
                             !.certs = Put(@, number[p], Dir(p).keys[number[p]])])
     \/ Fails(p)

(* do_revoke of the first certificate, unless that is done already.        *)
Revoke(p) == Now(p, "openssl-revoke") /\ InDir(p, Inside(p) /\ 1 \in Dir(p).index, [Dir(p) EXCEPT !.revoked = @ \union {1}])

(* rm -rf: the files, then the directory, where somebody may be waiting.   *)
DropCa(p) ==
  \/ /\ Now(p, "empty")
     /\ dirs' = [dirs EXCEPT ![Arg(p)] = IF @.state = "absent" THEN @ ELSE Bare]
     /\ due' = IF reader.ca = Arg(p) THEN {} ELSE due
     /\ Done(p)
     /\ UNCHANGED <<lock, status, ca, lockfile, cwd, number, passed, reader, renewed>>
  \/ /\ Now(p, "rmdir")
     /\ IF dirs[Arg(p)] \notin {Bare, Absent} THEN Fails(p)
        ELSE /\ dirs' = [dirs EXCEPT ![Arg(p)] = Absent]
             /\ cwd' = [q \in Procs |-> IF cwd[q] = Arg(p) THEN NoCA ELSE cwd[q]]
             /\ renewed' = renewed \ {Arg(p)}
             /\ Done(p)
             /\ UNCHANGED <<lock, status, ca, lockfile, number, passed, readVars>>

(* do_refresh: the CAs that are there now, one after the other; the script *)
(* has left the directory that it was in.                                  *)
Round(list) ==
  IF list = <<>> THEN <<>>
  ELSE Switch(Head(list)) \o <<Plain("crl"), Step("next", Tail(list))>>
Refresh(p) ==
  \/ /\ Now(p, "refresh")
     /\ LET here == SetToSeq({c \in CAs : dirs[c].state # "absent"})
        IN  todo' = [todo EXCEPT ![p] = Round(here) \o Tail(@)]
     /\ cwd' = [cwd EXCEPT ![p] = NoCA]
     /\ UNCHANGED <<dirs, lock, status, ca, lockfile, number, passed, readVars, renewed>>
  \/ /\ Now(p, "next")
     /\ todo' = [todo EXCEPT ![p] = Round(Arg(p)) \o Tail(@)]
     /\ UNCHANGED <<dirs, lock, status, ca, lockfile, cwd, number, passed, readVars, renewed>>

(* A bug: its trap is left on, and unlocks.                                *)
Mutant_Background(p) ==
  /\ Now(p, "background")
  /\ passed' = [passed EXCEPT ![p] = <<ca[p], lockfile[p]>>]
  /\ lock' = [c \in CAs |-> IF lockfile[p] = c THEN NoProc ELSE lock[c]]
  /\ ca' = [ca EXCEPT ![p] = NoCA]
  /\ lockfile' = [lockfile EXCEPT ![p] = NoCA]
  /\ number' = [number EXCEPT ![p] = 0]
  /\ Done(p)
  /\ UNCHANGED <<dirs, status, cwd, readVars, renewed>>

(* The rest goes on in the background: it is started with CA and LOCKFILE, *)
(* and the script ends without cleaning up.                                *)
Background(p) ==
  /\ Now(p, "background")
  /\ passed' = [passed EXCEPT ![p] = <<ca[p], lockfile[p]>>]
  /\ ca' = [ca EXCEPT ![p] = NoCA]
  /\ lockfile' = [lockfile EXCEPT ![p] = NoCA]
  /\ number' = [number EXCEPT ![p] = 0]
  /\ Done(p)
  /\ UNCHANGED <<dirs, lock, status, cwd, readVars, renewed>>
Restart(p) ==
  /\ status[p] = "running" /\ passed[p] # <<>>
  /\ ca' = [ca EXCEPT ![p] = passed[p][1]]
  /\ lockfile' = [lockfile EXCEPT ![p] = passed[p][2]]
  /\ passed' = [passed EXCEPT ![p] = <<>>]
  /\ UNCHANGED <<dirs, lock, todo, status, cwd, number, readVars, renewed>>

-----------------------------------------------------------------------------
(* One crash: a process is killed, or all of them and /tmp is lost.        *)
Crash(dead, left) ==
  /\ \A p \in Procs : status[p] # "killed"
  /\ dead # {}
  /\ status' = [p \in Procs |-> IF p \in dead THEN "killed" ELSE status[p]]
  /\ todo' = [p \in Procs |-> IF p \in dead THEN <<>> ELSE todo[p]]
  /\ ca' = [p \in Procs |-> IF p \in dead THEN NoCA ELSE ca[p]]
  /\ lockfile' = [p \in Procs |-> IF p \in dead THEN NoCA ELSE lockfile[p]]
  /\ cwd' = [p \in Procs |-> IF p \in dead THEN NoCA ELSE cwd[p]]
  /\ number' = [p \in Procs |-> IF p \in dead THEN 0 ELSE number[p]]
  /\ passed' = [p \in Procs |-> IF p \in dead THEN <<>> ELSE passed[p]]
  /\ lock' = left
  /\ UNCHANGED <<dirs, readVars, renewed>>
Kill == \E p \in Procs : status[p] = "running" /\ Crash({p}, lock)
Reboot == Crash({p \in Procs : status[p] = "running"}, [c \in CAs |-> NoProc])

-----------------------------------------------------------------------------
(* get_ca: generating, index.txt, notes.txt, and whether ca.crt is there.  *)
ReaderStarts(c) ==
  /\ reader.at = "new"
  /\ dirs[c].state # "absent"
  /\ reader' = [reader EXCEPT !.at = "generating", !.ca = c]
  /\ due' = Listed(dirs[c]) \union ({dirs[c].mark} \ {0, -2})
  /\ UNCHANGED <<dirs, lock, procVars, renewed>>
Reads(file, next) ==
  /\ reader.at = file
  /\ IF file \in {"index", "notes"} /\ dirs[reader.ca].state # "ready"
     THEN reader' = [reader EXCEPT !.at = "failed", !.index = {}, !.mark = 0, !.report = {}]
     ELSE reader' = next
  /\ UNCHANGED <<dirs, lock, procVars, due, renewed>>
ReadMark == Reads("generating", [reader EXCEPT !.at = "index", !.mark = dirs[reader.ca].mark])
ReadIndex == Reads("index", [reader EXCEPT !.at = "notes", !.index = dirs[reader.ca].index])
ReadNotes ==
  Reads("notes", [reader EXCEPT !.at = "root", !.index = {},
                                !.report = dirs[reader.ca].notes \intersect (reader.index \union {reader.mark})])
ReadRoot ==
  Reads("root", [reader EXCEPT !.at = "done", !.mark = 0,
                               !.report = @ \union (IF dirs[reader.ca].root \/ reader.mark = Root THEN {Root} ELSE {})])
Reader == (\E c \in Read : ReaderStarts(c)) \/ ReadMark \/ ReadIndex \/ ReadNotes \/ ReadRoot

-----------------------------------------------------------------------------
Init ==
  /\ \E there \in There : dirs = [c \in CAs |-> IF c \in there THEN Used ELSE Absent]
  /\ lock = [c \in CAs |-> NoProc]
  /\ todo = [p \in Procs |-> <<>>]
  /\ status = [p \in Procs |-> "new"]
  /\ ca = [p \in Procs |-> NoCA]
  /\ lockfile = [p \in Procs |-> NoCA]
  /\ cwd = [p \in Procs |-> NoCA]
  /\ number = [p \in Procs |-> 0]
  /\ passed = [p \in Procs |-> <<>>]
  /\ reader = [at |-> "new", ca |-> NoCA, mark |-> 0, index |-> {}, report |-> {}]
  /\ due = {}
  /\ renewed = {}

Goes(p) ==
  \/ Command(p) \/ Clean(p) \/ Unlock(p) \/ Exit(p) \/ ChangesDir(p) \/ Lock(p) \/ Enters(p) \/ NewCa(p) \/ Tests(p)
  \/ Mark(p) \/ Unmark(p) \/ MakeRoot(p) \/ GenCrl(p) \/ TakeNumber(p) \/ WriteNote(p) \/ Request(p)
  \/ OpensslCa(p) \/ Revoke(p) \/ DropCa(p) \/ Refresh(p) \/ Background(p) \/ Restart(p)
Next == (\E p \in Procs : Starts(p) \/ Goes(p)) \/ Kill \/ Reboot \/ Reader
Spec == Init /\ [][Next]_vars /\ \A p \in Procs : WF_vars(Goes(p))

-----------------------------------------------------------------------------
TypeOK ==
  /\ DOMAIN dirs = CAs
  /\ \A c \in CAs : /\ dirs[c].state \in {"absent", "bare", "ready"}
                     /\ dirs[c].index \union dirs[c].notes \subseteq Nat \ {0}
                     /\ dirs[c].mark \in Nat \union {Root, -2}
                     /\ Range(dirs[c].keys) \union Range(dirs[c].certs) \subseteq Procs \union {NoProc}
  /\ lock \in [CAs -> Procs \union {NoProc}]
  /\ status \in [Procs -> {"new", "running", "done", "killed"}]
  /\ ca \in [Procs -> CAs \union {NoCA}] /\ lockfile \in [Procs -> CAs \union {NoCA}]
  /\ cwd \in [Procs -> CAs \union {NoCA}] /\ number \in [Procs -> Nat]
  /\ \A p \in Procs : status[p] = "running" <=> todo[p] # <<>>
  /\ reader.report \subseteq Nat \union {Root}

(* The CA that the next step of a process reads or changes.                *)
Touches(p) ==
  IF ~Running(p) THEN NoCA
  ELSE IF Head(todo[p]).do \in {"empty", "rmdir"} THEN Arg(p)
  ELSE IF Head(todo[p]).do \in {"mark-root", "mark-dh", "mark", "unmark", "make-root", "crl", "number",
                                "note", "request", "sign", "openssl-revoke"} THEN cwd[p]
  ELSE NoCA

(* No two processes are at work in one CA, whatever was handed over,       *)
(* dropped, created again or lost before (the lock of ca/gen).             *)
OneAtWork == \A p, q \in Procs : p # q => Touches(p) # Touches(q) \/ Touches(p) = NoCA

(* A certificate in index.txt has the key it was made with, unless somebody *)
(* ran new_ca for a CA that had certificates (do_gen_server, user_rpc).    *)
KeysMatch ==
  \A c \in CAs \ renewed : \A n \in dirs[c].index :
    n \in DOMAIN dirs[c].certs /\ dirs[c].certs[n] = dirs[c].keys[n]

(* get_ca reports every certificate that was there or was being made when  *)
(* it began, though it takes no lock: notes before the mark, the mark      *)
(* before index.txt, and it reads them in the other order (get_ca).        *)
NothingVanishes == reader.at = "done" => due \subseteq reader.report

(* A mark is there only under a lock, until a crash (cleanup, lock).       *)
MarkUnderLock == (\A p \in Procs : status[p] # "killed") => \A c \in CAs : dirs[c].mark # 0 => lock[c] # NoProc

(* Every process ends: no two wait for each other's lock, for do_switch    *)
(* gives up its lock first; but one that is killed leaves its lock.        *)
JobsEnd == \A p \in Procs : status[p] = "running" ~> (status[p] = "done" \/ \E q \in Procs : status[q] = "killed")
=============================================================================
