------------------------------ MODULE NuciServer ------------------------------
(***************************************************************************)
(* The life of an RPC in nuci: the session loop of communication.c, the    *)
(* access test and the flock of nuci_datastore.c (NuciLock), the           *)
(* datastores' set_config and get_config on the shared cursor (UciCursor), *)
(* and the commit or rollback that follows (commits.lua, CommitHooks).     *)
(*                                                                         *)
(* Every session is a process.  A step is what a process does between two  *)
(* points at which other processes matter: one system call on the lock     *)
(* file, one read of the configuration, one cursor:commit, one daemon.     *)
(* libnetconf (external) hands an <edit-config> to the datastores whose    *)
(* namespace occurs in it, in the order of their registration, here any,   *)
(* and goes on or stops after an error according to <error-option>.        *)
(***************************************************************************)
EXTENDS UciCursor, CommitHooks, FiniteSets

CONSTANTS Sessions, None,
          Datastores,     \* the Lua datastores with a set_config
          AlwaysStages,   \* those that write their option even if it keeps its value
          Requests,       \* the RPCs the clients may send
          InitialDisk,    \* the files before the first RPC
          ReloadMayFail   \* the packages whose daemon may refuse to reload

ASSUME SessionsAssumption == None \notin Sessions
ASSUME DatastoresAssumption == Datastores # {} /\ IsFiniteSet(Datastores)
ASSUME DiskAssumption == InitialDisk \in Contents

VARIABLES owner, alive, heirs, holding, probing, granted, answer   \* NuciLock

lockVars == <<owner, alive, heirs, holding, probing, granted, answer>>

Flock == INSTANCE NuciLock WITH FailingUnlock <- {}

VARIABLES
  disk,      \* the files: the stored value of every option
  running,   \* the values the daemons run with
  pc,        \* where each process is
  req,       \* the RPC in work, afterwards the last one
  todo,      \* datastores libnetconf has still to call
  ds,        \* the datastore being called
  seen,      \* the value edit_config_ops read for the edited option
  failed,    \* the reply is going to be an error
  cursor,    \* the shared cursor
  dirty,     \* uci_dirty of commits.lua
  hooks,     \* hooks_success and hooks_failure
  chain,     \* hooks of the chain in work still to run
  pending,   \* packages the running hook has still to store or reload
  cache,     \* views_supervisor has a tree built for the RPC in work
  effect,    \* history: datastores whose edit was found or put on disk
  wrote,     \* history: packages the RPC has changed on disk
  admitted,  \* history: sessions past an access test in the RPC in work
  overlap    \* history: of these, the ones when the present lock was granted

fileVars == <<disk, running>>
rpcVars == <<pc, req, todo, ds, seen, failed>>
txnVars == <<cursor, dirty, hooks, cache>>
chainVars == <<chain, pending>>
historyVars == <<effect, wrote, admitted, overlap>>
vars == <<lockVars, fileVars, rpcVars, txnVars, chainVars, historyVars>>

-----------------------------------------------------------------------------
(* Requests.  An edit is [opt, how, val]: the option it is about, its      *)
(* NETCONF operation and value.  A "broken" one is refused by applyops     *)
(* after part of it was staged (a mandatory child is missing).             *)

NoRequest == [op |-> "none"]
EditRequest(edits) == [op |-> "edit", edits |-> edits]

IsEdit(r) == r.op = "edit"

(* A message is one of the RPCs nuci announces; an edit reaches only       *)
(* datastores there are, and is about options and values there are.        *)
ASSUME RequestsAssumption ==
  \A r \in Requests :
    /\ r.op \in {"lock", "unlock", "get", "user", "edit"}
    /\ r.op = "user" => r.cfg \in Configs
    /\ IsEdit(r) => /\ DOMAIN r.edits \subseteq Datastores
                    /\ \A d \in DOMAIN r.edits : /\ r.edits[d].opt \in Options
                                                /\ r.edits[d].val \in Values

(* The datastores libnetconf calls for r, and what each is to do.          *)
Called(r) == IF IsEdit(r) THEN DOMAIN r.edits ELSE {}
EditAt(s) == req[s].edits[ds[s]]
Target(e) == IF e.how \in {"delete", "remove"} THEN Absent ELSE e.val

(* editconfig's data-exists and data-missing.                              *)
Refuses(e, old) ==
  \/ e.how = "create" /\ old # Absent
  \/ e.how = "delete" /\ old = Absent

At(s, p) == pc[s] = p
Goto(s, p) == pc' = [pc EXCEPT ![s] = p]
SetCursor(s, c) == cursor' = [cursor EXCEPT ![s] = c]

(* A datastore returned an error: the others are called, or not.           *)
DatastoreFails(s, rest) ==
  /\ failed' = [failed EXCEPT ![s] = TRUE]
  /\ \E t \in {{}, rest} : todo' = [todo EXCEPT ![s] = t]
  /\ Goto(s, "dispatch")

-----------------------------------------------------------------------------
(* The loop: a message arrives.  An RPC starts without errors; nothing     *)
(* else is reset here.                                                     *)
Receive(s) ==
  /\ At(s, "recv") /\ s \in alive
  /\ \E r \in Requests :
       /\ req' = [req EXCEPT ![s] = r]
       /\ todo' = [todo EXCEPT ![s] = Called(r)]
       /\ Goto(s, IF IsEdit(r) THEN "dispatch" ELSE r.op)
  /\ failed' = [failed EXCEPT ![s] = FALSE]
  /\ effect' = [effect EXCEPT ![s] = {}]
  /\ wrote' = [wrote EXCEPT ![s] = {}]
  /\ UNCHANGED <<lockVars, fileVars, ds, seen, txnVars, chainVars, admitted, overlap>>

(* <lock> and <unlock>: the chains run afterwards like after any RPC.      *)
HandleLock(s) ==
  /\ At(s, "lock")
  /\ Flock!Lock(s)
  /\ failed' = [failed EXCEPT ![s] = answer'[s] = "denied"]
  /\ overlap' = IF answer'[s] = "granted" THEN admitted ELSE overlap
  /\ Goto(s, "commit")
  /\ UNCHANGED <<fileVars, req, todo, ds, seen, txnVars, chainVars, effect, wrote, admitted>>

HandleUnlock(s) ==
  /\ At(s, "unlock")
  /\ Flock!Unlock(s)
  /\ failed' = [failed EXCEPT ![s] = answer'[s] = "notReleased"]
  /\ Goto(s, "commit")
  /\ UNCHANGED <<fileVars, req, todo, ds, seen, txnVars, chainVars, historyVars>>

(* <get>: every get_config reads through the cursor and drops it, the      *)
(* supervisor builds its tree, and a plugin may fail.                      *)
HandleGet(s) ==
  /\ At(s, "get")
  /\ SetCursor(s, FreshCursor)
  /\ hooks' = [hooks EXCEPT ![s] = WithInvalidation(@)]
  /\ cache' = [cache EXCEPT ![s] = TRUE]
  /\ \E f \in BOOLEAN : failed' = [failed EXCEPT ![s] = f]
  /\ Goto(s, "commit")
  /\ UNCHANGED <<lockVars, fileVars, req, todo, ds, seen, dirty, chainVars, historyVars>>

(* A user RPC: no chain runs after it.  openvpn-client.lua returns early,  *)
(* with the cursor open, when the section it looks for is missing; the     *)
(* other ways out of the user RPCs reset the cursor.                       *)
HandleUser(s) ==
  /\ At(s, "user")
  /\ \E c \in {FreshCursor, Load(cursor[s], disk, req[s].cfg)} : SetCursor(s, c)
  /\ Goto(s, "recv")
  /\ UNCHANGED <<lockVars, fileVars, req, todo, ds, seen, failed, dirty, hooks, cache,
                 chainVars, historyVars>>

-----------------------------------------------------------------------------
(* <edit-config>, once for every datastore.                                *)

(* Faulty: the access test is skipped.                                     *)
Mutant_CallDatastore(s) ==
  /\ At(s, "dispatch")
  /\ \E d \in todo[s] :
       /\ ds' = [ds EXCEPT ![s] = d]
       /\ todo' = [todo EXCEPT ![s] = @ \ {d}]
       /\ Goto(s, "read")
       /\ admitted' = admitted \union {s}
       /\ UNCHANGED <<lockVars, failed>>
  /\ UNCHANGED <<fileVars, req, seen, txnVars, chainVars, effect, wrote, overlap>>

CallDatastore(s) ==
  /\ At(s, "dispatch")
  /\ \E d \in todo[s] :
       /\ ds' = [ds EXCEPT ![s] = d]
       /\ \/ /\ Flock!EditAsHolder(s)
             /\ todo' = [todo EXCEPT ![s] = @ \ {d}]
             /\ Goto(s, "read")
             /\ admitted' = admitted \union {s}
             /\ UNCHANGED failed
          \/ /\ Flock!Probe(s)
             /\ todo' = [todo EXCEPT ![s] = @ \ {d}]
             /\ Goto(s, "probe")
             /\ UNCHANGED <<failed, admitted>>
          \/ /\ Flock!EditInUse(s)
             /\ DatastoreFails(s, todo[s] \ {d})
             /\ UNCHANGED admitted
  /\ UNCHANGED <<fileVars, req, seen, txnVars, chainVars, effect, wrote, overlap>>

(* Faulty: the access test forgets to release the flock.                   *)
Mutant_AccessTested(s) ==
  /\ At(s, "probe")
  /\ admitted' = admitted \union {s}
  /\ Goto(s, "read")
  /\ UNCHANGED <<lockVars, fileVars, req, todo, ds, seen, failed, txnVars, chainVars, effect,
                 wrote, overlap>>

AccessTested(s) ==
  /\ At(s, "probe")
  /\ Flock!ProbeDone(s)
  /\ admitted' = admitted \union {s}
  /\ Goto(s, "read")
  /\ UNCHANGED <<fileVars, req, todo, ds, seen, failed, txnVars, chainVars, effect, wrote,
                 overlap>>

(* edit_config_ops: get_config reads through the cursor the process has    *)
(* and drops it, and the request is compared with what was read.           *)
ReadConfig(s) ==
  /\ At(s, "read")
  /\ seen' = [seen EXCEPT ![s] = View(cursor[s], disk, EditAt(s).opt)]
  /\ SetCursor(s, FreshCursor)
  /\ IF Refuses(EditAt(s), seen'[s])
     THEN /\ DatastoreFails(s, todo[s])
          /\ UNCHANGED effect
     ELSE /\ Goto(s, "stage")
          /\ effect' = IF disk[EditAt(s).opt] = Target(EditAt(s))
                       THEN [effect EXCEPT ![s] = @ \union {ds[s]}]
                       ELSE effect
          /\ UNCHANGED <<todo, failed>>
  /\ UNCHANGED <<lockVars, fileVars, req, ds, dirty, hooks, cache, chainVars, wrote, admitted,
                 overlap>>

(* editconfig drops an edit that would not change what was read.           *)
Changes(s, e) == seen[s] # Target(e)

(* Faulty: the package is not marked dirty.                                *)
Mutant_MarkDirty(s, c) == UNCHANGED dirty

(* commit_mark_dirty.                                                      *)
MarkDirty(s, c) == dirty' = [dirty EXCEPT ![s] = @ \union {c}]

(* applyops: the changes go to the cursor, and entering the package's      *)
(* element marks it dirty.                                                 *)
Stage(s) ==
  LET e == EditAt(s)
      changes == Changes(s, e)
  IN  /\ At(s, "stage")
      /\ IF changes \/ ds[s] \in AlwaysStages
         THEN SetCursor(s, SetOption(cursor[s], disk, e.opt, Target(e)))
         ELSE UNCHANGED cursor
      /\ IF changes THEN MarkDirty(s, ConfigOf[e.opt]) ELSE UNCHANGED dirty
      /\ IF e.how = "broken" /\ changes
         THEN DatastoreFails(s, todo[s])
         ELSE Goto(s, "dispatch") /\ UNCHANGED <<todo, failed>>
      /\ UNCHANGED <<lockVars, fileVars, req, ds, seen, hooks, cache, chainVars, historyVars>>

-----------------------------------------------------------------------------
(* commit_execute and the loop around it.                                  *)

(* Faulty: the success chain after every RPC.                              *)
Mutant_BeginChain(s) ==
  /\ At(s, "commit") \/ (At(s, "dispatch") /\ todo[s] = {})
  /\ chain' = [chain EXCEPT ![s] = hooks[s].success]
  /\ Goto(s, "chain")
  /\ UNCHANGED <<lockVars, fileVars, req, todo, ds, seen, failed, txnVars, pending, historyVars>>

(* interpreter_commit(!error): the chain is taken once, so that cleanup,   *)
(* which replaces the lists, does not cut it short.                        *)
BeginChain(s) ==
  /\ At(s, "commit") \/ (At(s, "dispatch") /\ todo[s] = {})
  /\ chain' = [chain EXCEPT ![s] = IF failed[s] THEN hooks[s].failure ELSE hooks[s].success]
  /\ Goto(s, "chain")
  /\ UNCHANGED <<lockVars, fileVars, req, todo, ds, seen, failed, txnVars, pending, historyVars>>

(* The next hook of priority order, taken off the chain.                   *)
Takes(s, act) ==
  /\ At(s, "chain")
  /\ \E h \in First(chain[s]) :
       /\ h.act = act
       /\ chain' = [chain EXCEPT ![s] = @ \ {h}]
  /\ UNCHANGED <<lockVars, fileVars, req, todo, ds, seen, failed, historyVars>>

(* store_uci and restart_daemons go through the dirty packages one by one. *)
HookPackages(s) ==
  \E act \in {"store_uci", "restart_daemons"} :
    /\ Takes(s, act)
    /\ pending' = [pending EXCEPT ![s] = dirty[s]]
    /\ IF dirty[s] = {} THEN UNCHANGED pc ELSE Goto(s, act)
    /\ UNCHANGED txnVars

HookCleanup(s) ==
  /\ Takes(s, "cleanup")
  /\ hooks' = [hooks EXCEPT ![s] = DefaultHooks]
  /\ dirty' = [dirty EXCEPT ![s] = {}]
  /\ UNCHANGED <<pc, pending, cursor, cache>>

HookRollback(s) ==
  /\ Takes(s, "rollback_uci")
  /\ SetCursor(s, FreshCursor)
  /\ UNCHANGED <<pc, pending, dirty, hooks, cache>>

HookInvalidate(s) ==
  /\ Takes(s, "invalidate_cache")
  /\ cache' = [cache EXCEPT ![s] = FALSE]
  /\ UNCHANGED <<pc, pending, cursor, dirty, hooks>>

(* One package of the running hook is done; the last one ends the hook.    *)
PackageDone(s, c) ==
  /\ pending' = [pending EXCEPT ![s] = @ \ {c}]
  /\ Goto(s, IF pending[s] = {c} THEN "chain" ELSE pc[s])

(* Faulty: the file is written from the kept copy.                         *)
Mutant_Stored(s, c) == [o \in Options |-> IF ConfigOf[o] = c THEN cursor[s].mem[o] ELSE disk[o]]

(* The files after the changes of package c are stored.                    *)
Stored(s, c) == Merged(cursor[s], disk, c)

(* cursor:commit(config); its result is not looked at.                     *)
StoreConfig(s) ==
  /\ At(s, "store_uci")
  /\ \E c \in pending[s] :
       /\ PackageDone(s, c)
       /\ disk' = Stored(s, c)
       /\ SetCursor(s, AfterCommit(cursor[s], disk, c))
       /\ wrote' = IF disk' = disk THEN wrote ELSE [wrote EXCEPT ![s] = @ \union {c}]
       /\ effect' = [effect EXCEPT ![s] = @ \union
             {d \in Called(req[s]) : LET e == req[s].edits[d]
                                     IN ConfigOf[e.opt] = c /\ disk'[e.opt] = Target(e)}]
  /\ UNCHANGED <<lockVars, running, req, todo, ds, seen, failed, dirty, hooks, cache, chain,
                 admitted, overlap>>

ReloadDaemon(s) ==
  /\ At(s, "restart_daemons")
  /\ \E c \in pending[s] :
       /\ PackageDone(s, c)
       /\ running' = [o \in Options |-> IF ConfigOf[o] = c THEN disk[o] ELSE running[o]]
  /\ UNCHANGED <<lockVars, disk, req, todo, ds, seen, failed, txnVars, chain, historyVars>>

(* Faulty: the loop retries the commit, not as a failure.                  *)
Mutant_ReloadFails(s) ==
  /\ At(s, "restart_daemons")
  /\ pending[s] \intersect ReloadMayFail # {}
  /\ pending' = [pending EXCEPT ![s] = {}]
  /\ chain' = [chain EXCEPT ![s] = {}]
  /\ Goto(s, "commit")
  /\ UNCHANGED <<lockVars, fileVars, req, todo, ds, seen, failed, txnVars, historyVars>>

(* error() in restart_daemons: the rest of the chain is not run, the reply *)
(* becomes an error, and the loop starts the failure chain.                *)
ReloadFails(s) ==
  /\ At(s, "restart_daemons")
  /\ pending[s] \intersect ReloadMayFail # {}
  /\ failed' = [failed EXCEPT ![s] = TRUE]
  /\ pending' = [pending EXCEPT ![s] = {}]
  /\ chain' = [chain EXCEPT ![s] = {}]
  /\ Goto(s, "commit")
  /\ UNCHANGED <<lockVars, fileVars, req, todo, ds, seen, txnVars, historyVars>>

(* comm_send_reply.                                                        *)
Reply(s) ==
  /\ At(s, "chain")
  /\ chain[s] = {}
  /\ Flock!Tell(s, IF failed[s] THEN "error" ELSE "ok")
  /\ Goto(s, "recv")
  /\ admitted' = admitted \ {s}
  /\ overlap' = overlap \ {s}
  /\ UNCHANGED <<owner, alive, heirs, holding, probing, granted, fileVars, req, todo, ds, seen,
                 failed, txnVars, chainVars, effect, wrote>>

-----------------------------------------------------------------------------
(* Processes come and go.                                                  *)

Connect(s) ==
  /\ Flock!Open(s)
  /\ UNCHANGED <<fileVars, rpcVars, txnVars, chainVars, historyVars>>

(* A process ends, at any point: nothing of it stays but the files.        *)
Disconnect(s) ==
  /\ Flock!Exit(s)
  /\ Goto(s, "recv")
  /\ req' = [req EXCEPT ![s] = NoRequest]
  /\ todo' = [todo EXCEPT ![s] = {}]
  /\ seen' = [seen EXCEPT ![s] = Absent]
  /\ failed' = [failed EXCEPT ![s] = FALSE]
  /\ SetCursor(s, FreshCursor)
  /\ dirty' = [dirty EXCEPT ![s] = {}]
  /\ hooks' = [hooks EXCEPT ![s] = DefaultHooks]
  /\ cache' = [cache EXCEPT ![s] = FALSE]
  /\ chain' = [chain EXCEPT ![s] = {}]
  /\ pending' = [pending EXCEPT ![s] = {}]
  /\ effect' = [effect EXCEPT ![s] = {}]
  /\ wrote' = [wrote EXCEPT ![s] = {}]
  /\ admitted' = admitted \ {s}
  /\ overlap' = overlap \ {s}
  /\ UNCHANGED <<fileVars, ds>>

-----------------------------------------------------------------------------
Init ==
  /\ Flock!Init
  /\ disk = InitialDisk /\ running = InitialDisk
  /\ pc = [s \in Sessions |-> "recv"]
  /\ req = [s \in Sessions |-> NoRequest]
  /\ todo = [s \in Sessions |-> {}]
  /\ ds \in [Sessions -> {CHOOSE d \in Datastores : TRUE}]
  /\ seen = [s \in Sessions |-> Absent]
  /\ failed = [s \in Sessions |-> FALSE]
  /\ cursor = [s \in Sessions |-> FreshCursor]
  /\ dirty = [s \in Sessions |-> {}]
  /\ hooks = [s \in Sessions |-> DefaultHooks]
  /\ chain = [s \in Sessions |-> {}]
  /\ pending = [s \in Sessions |-> {}]
  /\ cache = [s \in Sessions |-> FALSE]
  /\ effect = [s \in Sessions |-> {}]
  /\ wrote = [s \in Sessions |-> {}]
  /\ admitted = {} /\ overlap = {}

(* What a process does about the RPC it has.                               *)
Work(s) ==
  \/ HandleLock(s) \/ HandleUnlock(s) \/ HandleGet(s) \/ HandleUser(s)
  \/ CallDatastore(s) \/ AccessTested(s) \/ ReadConfig(s) \/ Stage(s)
  \/ BeginChain(s) \/ HookPackages(s) \/ HookCleanup(s) \/ HookRollback(s) \/ HookInvalidate(s)
  \/ StoreConfig(s) \/ ReloadDaemon(s) \/ ReloadFails(s) \/ Reply(s)

Next == \E s \in Sessions : Receive(s) \/ Work(s) \/ Connect(s) \/ Disconnect(s)

Spec == Init /\ [][Next]_vars

(* A process that has an RPC goes on with it: no step waits for another    *)
(* process (the flock is taken with LOCK_NB).                              *)
FairSpec == Spec /\ \A s \in Sessions : WF_vars(Work(s))

-----------------------------------------------------------------------------
Places == {"recv", "lock", "unlock", "get", "user", "dispatch", "probe", "read", "stage",
           "commit", "chain", "store_uci", "restart_daemons"}

TypeOK ==
  /\ disk \in Contents /\ running \in Contents
  /\ pc \in [Sessions -> Places]
  /\ req \in [Sessions -> Requests \union {NoRequest}]
  /\ todo \in [Sessions -> SUBSET Datastores]
  /\ ds \in [Sessions -> Datastores]
  /\ seen \in [Sessions -> Values \union {Absent}]
  /\ failed \in [Sessions -> BOOLEAN]
  /\ cursor \in [Sessions -> Cursors]
  /\ dirty \in [Sessions -> SUBSET Configs]
  /\ \A s \in Sessions : hooks[s].success \subseteq Hooks /\ hooks[s].failure \subseteq Hooks
  /\ \A s \in Sessions : chain[s] \subseteq Hooks
  /\ pending \in [Sessions -> SUBSET Configs]
  /\ cache \in [Sessions -> BOOLEAN]
  /\ \A s \in Sessions : At(s, "probe") <=> s \in probing
  /\ admitted \subseteq alive /\ overlap \subseteq admitted

(* The process waits for the next RPC, having answered the edit a.         *)
Answered(s, a) == At(s, "recv") /\ s \in alive /\ IsEdit(req[s]) /\ answer[s] = a

(* Nothing of an RPC is left for the next one: no dirty package, no extra  *)
(* hook, no tree of the supervisor, whichever chains ran in between.       *)
CleanBetweenRpcs ==
  \A s \in Sessions : At(s, "recv") => dirty[s] = {} /\ hooks[s] = DefaultHooks /\ ~cache[s]

(* After a refused edit nothing is staged any more, also if a part had     *)
(* been staged for another datastore or stored before a daemon failed.     *)
RolledBack ==
  \A s \in Sessions : Answered(s, "error") => cursor[s].staged = {}

(* What a process stores is what its RPC in work asked for: nothing that   *)
(* an earlier RPC left staged, nothing of an RPC with a refused part, and  *)
(* no old copy of what another process has stored meanwhile.               *)
NothingUnasked ==
  [][\A s \in Sessions : StoreConfig(s) =>
       /\ ~failed[s]
       /\ \A o \in Options : disk'[o] # disk[o] =>
            \E d \in Called(req[s]) : LET e == req[s].edits[d]
                                      IN e.opt = o /\ disk'[o] = Target(e)]_vars

(* An edit that was answered with ok is on disk, or was when it was made.  *)
OkMeansStored ==
  \A s \in Sessions : Answered(s, "ok") => effect[s] = Called(req[s])

(* The same for the edits of a single datastore.                           *)
SingleOkMeansStored ==
  \A s \in Sessions :
    Answered(s, "ok") /\ Cardinality(Called(req[s])) = 1 => effect[s] = Called(req[s])

(* Daemons are told to reload only when every dirty package is stored.     *)
StoredBeforeReload ==
  \A s \in Sessions : At(s, "restart_daemons") =>
    /\ \A o \in cursor[s].staged : ConfigOf[o] \notin dirty[s]
    /\ \A h \in chain[s] : h.act # "store_uci"

(* "so the transaction is not kept open and new changes from other sources *)
(* are seen" (plugins.txt:167): but for what the RPC itself has staged, a  *)
(* datastore reads what is on disk.                                        *)
ReadsAreFresh ==
  \A s \in Sessions : At(s, "read") \/ At(s, "get") =>
    \A o \in Options : \/ View(cursor[s], disk, o) = disk[o]
                       \/ o \in cursor[s].staged /\ ConfigOf[o] \in dirty[s]

(* An edit that was answered with an error has changed nothing on disk.    *)
ErrorMeansUnchanged ==
  \A s \in Sessions : Answered(s, "error") => wrote[s] = {}

(* While a session has the lock, the only others with an edit in work are  *)
(* those that had passed their access test before the lock was granted.    *)
LockStopsNewEdits ==
  \A s \in admitted : Flock!LockedBy \in {None, s} \union (IF s \in overlap THEN Sessions ELSE {})

(* "I haven't lock and datastore is locked -> stop any activity"           *)
(* (nuci_datastore.c:152): nobody stores while another has the lock.       *)
StoreRespectsLock ==
  [][\A s \in Sessions : StoreConfig(s) => Flock!LockedBy \in {None, s}]_vars

(* Every RPC is answered unless the process ends.                          *)
EveryRpcAnswered == \A s \in Sessions : ~At(s, "recv") ~> At(s, "recv")
=============================================================================
