--------------------------- MODULE NuciCommitProofs ---------------------------
(***************************************************************************)
(* Proofs about NuciServer's transactions: what the chains of commits.lua  *)
(* leave behind and what they store, for any requests and any interleaving *)
(* of sessions, and what one session is promised when it is alone.         *)
(* Between two RPCs nothing is left behind; this alone is not inductive,   *)
(* for in an RPC there is, and what removes it is a hook still to run.  So *)
(* the invariants say which hooks have to be left in the chain for what is *)
(* dirty, staged, cached or registered.                                    *)
(***************************************************************************)
EXTENDS NuciServerProofs, FiniteSetTheorems

Invalidate == Hook("invalidate_cache", 0)
StoreUci == Hook("store_uci", -1)
RestartDaemons == Hook("restart_daemons", -2)
CleanupFirst == Hook("cleanup", 9999)
CleanupLast == Hook("cleanup", -9999)
RollbackUci == Hook("rollback_uci", 9998)

InChain(s) == pc[s] \in {"chain", "store_uci", "restart_daemons"}

(* What an RPC leaves behind is seen to by the chain in work: the hook     *)
(* that removes it is still to come.                                       *)
ChainInv(s) ==
  /\ pc[s] \in {"recv", "lock", "unlock", "get", "user"} =>
       dirty[s] = {} /\ hooks[s] = DefaultHooks /\ ~cache[s]
  /\ ~InChain(s) /\ cache[s] => hooks[s] = WithInvalidation(DefaultHooks)
  /\ InChain(s) =>
       /\ chain[s] \subseteq {Invalidate} \union (IF failed[s] THEN FailureHooks ELSE SuccessHooks)
       /\ cache[s] => Invalidate \in chain[s]
       /\ dirty[s] # {} \/ hooks[s] # DefaultHooks =>
            (IF failed[s] THEN CleanupFirst ELSE CleanupLast) \in chain[s]
       /\ failed[s] /\ cursor[s].staged # {} => RollbackUci \in chain[s]
  /\ At(s, "store_uci") => ~failed[s] /\ chain[s] \subseteq {RestartDaemons, CleanupLast}
  /\ At(s, "restart_daemons") => ~failed[s] /\ chain[s] \subseteq {CleanupLast}
  /\ At(s, "recv") /\ IsEdit(req[s]) /\ answer[s] = "error" => cursor[s].staged = {}

(* What is staged in a dirty package is still to be stored.                *)
StoreInv(s) ==
  /\ pc[s] \in {"store_uci", "restart_daemons"} => pending[s] \subseteq dirty[s]
  /\ InChain(s) /\ ~failed[s] /\ StoreUci \notin chain[s] =>
       \A o \in cursor[s].staged : ConfigOf[o] \in dirty[s] =>
         At(s, "store_uci") /\ ConfigOf[o] \in pending[s]

(* While a package is dirty, what is staged was asked for by the RPC in    *)
(* work; the cursor that an edit is staged in was opened for it.           *)
AskedInv(s) ==
  /\ At(s, "stage") => cursor[s].staged = {}
  /\ dirty[s] # {} =>
       \A o \in cursor[s].staged : \E d \in Called(req[s]) :
         req[s].edits[d].opt = o /\ cursor[s].mem[o] = Target(req[s].edits[d])

-----------------------------------------------------------------------------
(* The order of the hooks.                                                 *)

(* The hooks of both chains.                                               *)
LEMMA HookNames ==
  /\ SuccessHooks = {StoreUci, RestartDaemons, CleanupLast}
  /\ FailureHooks = {CleanupFirst, RollbackUci}
  /\ WithInvalidation(DefaultHooks).success = SuccessHooks \union {Invalidate}
  /\ WithInvalidation(DefaultHooks).failure = FailureHooks \union {Invalidate}
  /\ DefaultHooks.success = SuccessHooks /\ DefaultHooks.failure = FailureHooks
BY DEF SuccessHooks, FailureHooks, WithInvalidation, DefaultHooks, Invalidate, StoreUci,
       RestartDaemons, RollbackUci, CleanupFirst, CleanupLast

(* They are told apart by what they do, but for the two cleanups.          *)
LEMMA HookFields ==
  /\ Invalidate.act = "invalidate_cache" /\ Invalidate.prio = 0
  /\ StoreUci.act = "store_uci" /\ StoreUci.prio = -1
  /\ RestartDaemons.act = "restart_daemons" /\ RestartDaemons.prio = -2
  /\ RollbackUci.act = "rollback_uci" /\ RollbackUci.prio = 9998
  /\ CleanupFirst.act = "cleanup" /\ CleanupFirst.prio = 9999
  /\ CleanupLast.act = "cleanup" /\ CleanupLast.prio = -9999
BY DEF Hook, Invalidate, StoreUci, RestartDaemons, RollbackUci, CleanupFirst, CleanupLast

(* After a success: invalidate, store, reload, clean up.                   *)
LEMMA SuccessOrder ==
  ASSUME NEW ch, ch \subseteq {Invalidate} \union SuccessHooks, NEW h \in First(ch)
  PROVE  /\ h.act = "invalidate_cache" => h = Invalidate
         /\ h.act = "store_uci" =>
              h = StoreUci /\ ch \ {h} \subseteq {RestartDaemons, CleanupLast}
         /\ h.act = "restart_daemons" =>
              h = RestartDaemons /\ ch \ {h} \subseteq {CleanupLast}
         /\ h.act = "cleanup" => h = CleanupLast /\ ch = {h}
         /\ h.act # "rollback_uci"
<1>1. ch \subseteq {Invalidate, StoreUci, RestartDaemons, CleanupLast}
  BY HookNames
<1>2. h \in ch /\ \A g \in ch : g.prio <= h.prio
  BY DEF First
<1>3. \/ h = Invalidate
      \/ h = StoreUci /\ Invalidate \notin ch
      \/ h = RestartDaemons /\ Invalidate \notin ch /\ StoreUci \notin ch
      \/ h = CleanupLast /\ Invalidate \notin ch /\ StoreUci \notin ch /\ RestartDaemons \notin ch
  BY <1>1, <1>2, HookFields
<1>4. QED
  BY <1>1, <1>2, <1>3, HookFields

(* After an error: clean up, roll back, invalidate.                        *)
LEMMA FailureOrder ==
  ASSUME NEW ch, ch \subseteq {Invalidate} \union FailureHooks, NEW h \in First(ch)
  PROVE  /\ h.act = "invalidate_cache" => h = Invalidate
         /\ h.act = "rollback_uci" => h = RollbackUci
         /\ h.act = "cleanup" => h = CleanupFirst
         /\ h.act \notin {"store_uci", "restart_daemons"}
<1>1. h \in {Invalidate, CleanupFirst, RollbackUci}
  BY HookNames DEF First
<1>2. QED
  BY <1>1, HookFields

(* A hook that is taken off a chain.                                       *)
LEMMA TakenHook ==
  ASSUME Base, NEW s \in Sessions, ChainInv(s), NEW act, Takes(s, act)
  PROVE  \E h \in chain[s] :
           /\ h.act = act /\ chain'[s] = chain[s] \ {h}
           /\ act = "invalidate_cache" => h = Invalidate
           /\ act = "store_uci" =>
                /\ h = StoreUci /\ ~failed[s]
                /\ chain'[s] \subseteq {RestartDaemons, CleanupLast}
           /\ act = "restart_daemons" =>
                h = RestartDaemons /\ ~failed[s] /\ chain'[s] \subseteq {CleanupLast}
           /\ act = "cleanup" =>
                /\ h = (IF failed[s] THEN CleanupFirst ELSE CleanupLast)
                /\ ~failed[s] => chain[s] = {h}
           /\ act = "rollback_uci" => h = RollbackUci /\ failed[s]
<1>1. PICK h \in First(chain[s]) : h.act = act /\ chain' = [chain EXCEPT ![s] = @ \ {h}]
  BY DEF Takes
<1>2. h \in chain[s] /\ chain'[s] = chain[s] \ {h}
  BY <1>1 DEF First, Base, ControlTypes
<1>3. failed[s] \in BOOLEAN
  BY DEF Base, DataTypes
<1>4. CASE failed[s]
  <2>1. chain[s] \subseteq {Invalidate} \union FailureHooks
    BY <1>4 DEF Takes, At, ChainInv, InChain
  <2>2. QED
    BY <1>1, <1>2, <1>4, <2>1, FailureOrder
<1>5. CASE ~failed[s]
  <2>1. chain[s] \subseteq {Invalidate} \union SuccessHooks
    BY <1>5 DEF Takes, At, ChainInv, InChain
  <2>2. QED
    BY <1>1, <1>2, <1>5, <2>1, SuccessOrder
<1>6. QED
  BY <1>3, <1>4, <1>5

-----------------------------------------------------------------------------
(* Whatever an RPC does, the chain in work knows what it has to undo.      *)
LEMMA ChainStep ==
  ASSUME Base, NEW s \in Sessions, Step(s), NEW t \in Sessions, ChainInv(t)
  PROVE  ChainInv(t)'
<1> SUFFICES ASSUME s = t
             PROVE  ChainInv(t)'
  BY OthersUntouched DEF Base, Untouched, ChainInv, InChain, At
<1> ChainInv(s)
  OBVIOUS
<1> USE DEF Base, DataTypes, ControlTypes, Phase, At, Goto, Places, InChain, SetCursor,
            lockVars, rpcVars, txnVars, chainVars
<1>1. CASE Receive(s)
  <2>1. \A r \in Requests : r.op \in {"lock", "unlock", "get", "user", "edit"}
    BY RequestsAssumption
  <2>2. QED
    BY <1>1, <2>1 DEF Receive, IsEdit, ChainInv
<1>2. CASE HandleLock(s)
  BY <1>2 DEF HandleLock, Flock!Lock, ChainInv
<1>3. CASE HandleUnlock(s)
  BY <1>3 DEF HandleUnlock, Flock!Unlock, ChainInv
<1>4. CASE HandleGet(s)
  <2>1. hooks'[s] = WithInvalidation(DefaultHooks)
    BY <1>4 DEF HandleGet, ChainInv
  <2>2. QED
    BY <1>4, <2>1 DEF HandleGet, ChainInv
<1>5. CASE HandleUser(s)
  <2>1. ~IsEdit(req[s])
    BY <1>5 DEF HandleUser, IsEdit
  <2>2. QED
    BY <1>5, <2>1 DEF HandleUser, ChainInv
<1>6. CASE CallDatastore(s)
  BY <1>6 DEF CallDatastore, Flock!EditAsHolder, Flock!Probe, Flock!EditInUse, DatastoreFails, ChainInv
<1>7. CASE AccessTested(s)
  BY <1>7 DEF AccessTested, Flock!ProbeDone, ChainInv
<1>8. CASE ReadConfig(s)
  BY <1>8 DEF ReadConfig, DatastoreFails, ChainInv
<1>9. CASE Stage(s)
  BY <1>9 DEF Stage, DatastoreFails, ChainInv
<1>10. CASE BeginChain(s)
  <2>1. /\ chain'[s] = IF failed[s] THEN hooks[s].failure ELSE hooks[s].success
        /\ pc'[s] = "chain" /\ ~InChain(s)
        /\ UNCHANGED <<failed, dirty, hooks, cache, cursor>>
    BY <1>10 DEF BeginChain
  <2>2. /\ (IF failed[s] THEN CleanupFirst ELSE CleanupLast) \in chain'[s]
        /\ failed[s] => RollbackUci \in chain'[s]
    BY <2>1, HookNames
  <2>3. chain'[s] \subseteq {Invalidate} \union (IF failed[s] THEN FailureHooks ELSE SuccessHooks)
    BY <2>1, HookNames
  <2>4. cache[s] => Invalidate \in chain'[s]
    BY <2>1, HookNames DEF ChainInv
  <2>5. QED
    BY <2>1, <2>2, <2>3, <2>4 DEF ChainInv
<1>11. CASE HookPackages(s)
  <2>1. PICK act \in {"store_uci", "restart_daemons"} : Takes(s, act) /\ UNCHANGED txnVars
          /\ IF dirty[s] = {} THEN UNCHANGED pc ELSE Goto(s, act)
    BY <1>11 DEF HookPackages
  <2>2. PICK h \in chain[s] :
          /\ h.act = act /\ chain'[s] = chain[s] \ {h} /\ ~failed[s]
          /\ act = "store_uci" => chain'[s] \subseteq {RestartDaemons, CleanupLast}
          /\ act = "restart_daemons" => chain'[s] \subseteq {CleanupLast}
    BY <2>1, TakenHook
  <2>3. QED
    BY <2>1, <2>2, HookFields DEF Takes, ChainInv
<1>12. CASE HookCleanup(s)
  <2>1. PICK h \in chain[s] :
          /\ h.act = "cleanup" /\ chain'[s] = chain[s] \ {h}
          /\ h = (IF failed[s] THEN CleanupFirst ELSE CleanupLast)
    BY <1>12, TakenHook DEF HookCleanup
  <2>2. QED
    BY <1>12, <2>1, HookFields, FreshFacts DEF HookCleanup, Takes, ChainInv
<1>13. CASE HookRollback(s)
  <2>1. PICK h \in chain[s] : chain'[s] = chain[s] \ {h} /\ h = RollbackUci
    BY <1>13, TakenHook DEF HookRollback
  <2>2. h \notin {Invalidate, CleanupFirst, CleanupLast}
    BY <2>1, HookFields
  <2>3. cursor'[s].staged = {} /\ UNCHANGED <<pc, failed, dirty, hooks, cache, req, answer>>
    BY <1>13, FreshFacts DEF HookRollback, Takes
  <2>4. At(s, "chain")
    BY <1>13 DEF HookRollback, Takes
  <2>5. QED
    BY <2>1, <2>2, <2>3, <2>4 DEF ChainInv
<1>14. CASE HookInvalidate(s)
  <2>1. PICK h \in chain[s] :
          /\ h.act = "invalidate_cache" /\ chain'[s] = chain[s] \ {h}
          /\ h = Invalidate
    BY <1>14, TakenHook DEF HookInvalidate
  <2>2. QED
    BY <1>14, <2>1, HookFields, FreshFacts DEF HookInvalidate, Takes, ChainInv
<1>15. CASE StoreConfig(s)
  <2>1. At(s, "store_uci") /\ pc'[s] \in {"chain", "store_uci"}
    BY <1>15 DEF StoreConfig, PackageDone
  <2>2. UNCHANGED <<failed, dirty, hooks, cache, chain, req, answer>>
    BY <1>15 DEF StoreConfig
  <2>3. QED
    BY <2>1, <2>2 DEF ChainInv
<1>16. CASE ReloadDaemon(s)
  BY <1>16 DEF ReloadDaemon, PackageDone, ChainInv
<1>17. CASE ReloadFails(s)
  <2>1. ~cache[s]
    BY <1>17, HookFields DEF ReloadFails, ChainInv
  <2>2. QED
    BY <1>17, <2>1 DEF ReloadFails, ChainInv
<1>18. CASE Reply(s)
  <2>1. answer'[s] = IF failed[s] THEN "error" ELSE "ok"
    BY <1>18 DEF Reply, Flock!Tell
  <2>2. QED
    BY <1>18, <2>1 DEF Reply, ChainInv
<1>19. CASE Connect(s)
  BY <1>19 DEF Connect, Flock!Open, ChainInv
<1>20. CASE Disconnect(s)
  BY <1>20, FreshFacts DEF Disconnect, Flock!Exit, NoRequest, IsEdit, ChainInv
<1>21. QED
  BY <1>1, <1>2, <1>3, <1>4, <1>5, <1>6, <1>7, <1>8, <1>9, <1>10, <1>11, <1>12, <1>13, <1>14, <1>15,
     <1>16, <1>17, <1>18, <1>19, <1>20 DEF Step, Work

(* What cursor:commit of one package does to the process and the files.    *)
LEMMA StoreEffect ==
  ASSUME Base, NEW s \in Sessions, StoreConfig(s)
  PROVE  \E c \in pending[s] :
           /\ At(s, "store_uci")
           /\ pc'[s] = IF pending[s] = {c} THEN "chain" ELSE "store_uci"
           /\ pending'[s] = pending[s] \ {c}
           /\ disk' = Merged(cursor[s], disk, c)
           /\ \A o \in Options : disk'[o] # disk[o] =>
                o \in cursor[s].staged /\ disk'[o] = cursor[s].mem[o]
           /\ \A o \in cursor[s].staged : ConfigOf[o] = c => disk'[o] = cursor[s].mem[o]
           /\ cursor'[s] = AfterCommit(cursor[s], disk, c)
           /\ cursor'[s].staged = {o \in cursor[s].staged : ConfigOf[o] # c}
           /\ \A o \in cursor'[s].staged : cursor'[s].mem[o] = cursor[s].mem[o]
           /\ effect'[s] = effect[s] \union
                {d \in Called(req[s]) : LET e == req[s].edits[d]
                                        IN ConfigOf[e.opt] = c /\ disk'[e.opt] = Target(e)}
<1>1. PICK c \in pending[s] :
        /\ PackageDone(s, c) /\ disk' = Stored(s, c)
        /\ SetCursor(s, AfterCommit(cursor[s], disk, c))
        /\ effect' = [effect EXCEPT ![s] = @ \union
                {d \in Called(req[s]) : LET e == req[s].edits[d]
                                        IN ConfigOf[e.opt] = c /\ disk'[e.opt] = Target(e)}]
  BY DEF StoreConfig
<1>2. WellFormed(cursor[s]) /\ disk \in Contents
  BY DEF Base, DataTypes
<1>3. /\ cursor'[s] = AfterCommit(cursor[s], disk, c)
      /\ pending'[s] = pending[s] \ {c}
      /\ pc'[s] = IF pending[s] = {c} THEN "chain" ELSE "store_uci"
      /\ At(s, "store_uci")
  BY <1>1 DEF StoreConfig, PackageDone, SetCursor, Goto, At, Base, DataTypes, ControlTypes
<1>4. disk' = Merged(cursor[s], disk, c)
  BY <1>1 DEF Stored
<1>5. /\ cursor'[s].staged = {o \in cursor[s].staged : ConfigOf[o] # c}
      /\ \A o \in cursor'[s].staged : cursor'[s].mem[o] = cursor[s].mem[o]
  BY <1>2, <1>3, AfterCommitFacts
<1>6. /\ \A o \in Options : disk'[o] # disk[o] =>
           o \in cursor[s].staged /\ disk'[o] = cursor[s].mem[o]
      /\ \A o \in cursor[s].staged : ConfigOf[o] = c => disk'[o] = cursor[s].mem[o]
  BY <1>2, <1>4, MergedFacts
<1>7. effect'[s] = effect[s] \union
        {d \in Called(req[s]) : LET e == req[s].edits[d]
                                IN ConfigOf[e.opt] = c /\ disk'[e.opt] = Target(e)}
  BY <1>1 DEF Base, ControlTypes
<1>8. QED
  BY <1>3, <1>4, <1>5, <1>6, <1>7

(* What applyops does: it stages at most the option of the edit, with the  *)
(* value asked for, and marks its package if the option changes.           *)
LEMMA StageEffect ==
  ASSUME Base, NEW s \in Sessions, Stage(s)
  PROVE  /\ \/ cursor'[s] = SetOption(cursor[s], disk, EditAt(s).opt, Target(EditAt(s)))
            \/ cursor'[s] = cursor[s] /\ ~Changes(s, EditAt(s)) /\ ds[s] \notin AlwaysStages
         /\ dirty'[s] = dirty[s] \union
              (IF Changes(s, EditAt(s)) THEN {ConfigOf[EditAt(s).opt]} ELSE {})
         /\ pc'[s] = "dispatch" /\ todo'[s] \in {todo[s], {}} /\ (~failed'[s] => todo' = todo)
         /\ failed[s] => failed'[s]
<1> USE DEF Base, DataTypes, ControlTypes, Goto, SetCursor
<1>1. \/ cursor'[s] = SetOption(cursor[s], disk, EditAt(s).opt, Target(EditAt(s)))
      \/ cursor'[s] = cursor[s] /\ ~Changes(s, EditAt(s)) /\ ds[s] \notin AlwaysStages
  BY DEF Stage
<1>2. CASE Changes(s, EditAt(s))
  <2>1. dirty'[s] = dirty[s] \union {ConfigOf[EditAt(s).opt]}
    BY <1>2 DEF Stage, MarkDirty
  <2>2. DatastoreFails(s, todo[s]) \/ (Goto(s, "dispatch") /\ UNCHANGED <<todo, failed>>)
    BY <1>2 DEF Stage
  <2>3. QED
    BY <1>1, <1>2, <2>1, <2>2 DEF DatastoreFails
<1>3. CASE ~Changes(s, EditAt(s))
  <2>1. UNCHANGED dirty /\ Goto(s, "dispatch") /\ UNCHANGED <<todo, failed>>
    BY <1>3 DEF Stage
  <2>2. QED
    BY <1>1, <1>3, <2>1
<1>4. QED
  BY <1>2, <1>3

(* The success chain leaves nothing staged in a package it went through.   *)
LEMMA StoreStep ==
  ASSUME Base, NEW s \in Sessions, Step(s), NEW t \in Sessions, ChainInv(t), StoreInv(t)
  PROVE  StoreInv(t)'
<1> SUFFICES ASSUME s = t
             PROVE  StoreInv(t)'
  BY OthersUntouched DEF Base, Untouched, StoreInv, InChain, At
<1> ChainInv(s) /\ StoreInv(s)
  OBVIOUS
<1> USE DEF Base, DataTypes, ControlTypes, At, Goto, InChain, SetCursor, lockVars, rpcVars, txnVars,
            chainVars
<1>1. CASE Receive(s)
  <2>1. \A r \in Requests : r.op \in {"lock", "unlock", "get", "user", "edit"}
    BY RequestsAssumption
  <2>2. QED
    BY <1>1, <2>1 DEF Receive, StoreInv
<1>2. CASE HandleLock(s)
  BY <1>2 DEF HandleLock, Flock!Lock, StoreInv
<1>3. CASE HandleUnlock(s)
  BY <1>3 DEF HandleUnlock, Flock!Unlock, StoreInv
<1>4. CASE HandleGet(s)
  BY <1>4 DEF HandleGet, StoreInv
<1>5. CASE HandleUser(s)
  BY <1>5 DEF HandleUser, StoreInv
<1>6. CASE CallDatastore(s)
  BY <1>6 DEF CallDatastore, Flock!EditAsHolder, Flock!Probe, Flock!EditInUse, DatastoreFails, StoreInv
<1>7. CASE AccessTested(s)
  BY <1>7 DEF AccessTested, Flock!ProbeDone, StoreInv
<1>8. CASE ReadConfig(s)
  BY <1>8 DEF ReadConfig, DatastoreFails, StoreInv
<1>9. CASE Stage(s)
  <2>1. pc'[s] = "dispatch"
    BY <1>9, StageEffect
  <2>2. QED
    BY <2>1 DEF StoreInv
<1>10. CASE BeginChain(s)
  <2>1. ~failed'[s] => StoreUci \in chain'[s]
    BY <1>10, HookNames DEF BeginChain
  <2>2. QED
    BY <1>10, <2>1 DEF BeginChain, StoreInv
<1>11. CASE HookPackages(s)
  <2>1. PICK act \in {"store_uci", "restart_daemons"} :
          /\ Takes(s, act) /\ UNCHANGED txnVars
          /\ pending' = [pending EXCEPT ![s] = dirty[s]]
          /\ IF dirty[s] = {} THEN UNCHANGED pc ELSE Goto(s, act)
    BY <1>11 DEF HookPackages
  <2>2. PICK h \in chain[s] : /\ chain'[s] = chain[s] \ {h} /\ h.act = act
                              /\ act = "restart_daemons" => chain'[s] \subseteq {CleanupLast}
    BY <2>1, TakenHook
  <2>3. act = "restart_daemons" => StoreUci \notin chain[s]
    BY <2>2, HookFields
  <2>4. At(s, "chain") /\ UNCHANGED failed
    BY <2>1 DEF Takes
  <2>5. act = "restart_daemons" => \A o \in cursor[s].staged : ConfigOf[o] \in dirty[s] => failed[s]
    BY <2>3, <2>4 DEF StoreInv
  <2>6. dirty[s] # {} => pc'[s] = act
    BY <2>1
  <2>7. QED
    BY <2>1, <2>2, <2>4, <2>5, <2>6 DEF StoreInv
<1>12. CASE HookCleanup(s)
  BY <1>12 DEF HookCleanup, Takes, StoreInv
<1>13. CASE HookRollback(s)
  <2>1. failed[s] /\ UNCHANGED <<pc, failed>> /\ At(s, "chain")
    BY <1>13, TakenHook DEF HookRollback, Takes
  <2>2. QED
    BY <2>1 DEF StoreInv
<1>14. CASE HookInvalidate(s)
  <2>1. PICK h \in chain[s] : chain'[s] = chain[s] \ {h} /\ h = Invalidate
    BY <1>14, TakenHook DEF HookInvalidate
  <2>2. StoreUci \notin chain'[s] => StoreUci \notin chain[s]
    BY <2>1, HookFields
  <2>3. QED
    BY <1>14, <2>2 DEF HookInvalidate, Takes, StoreInv
<1>15. CASE StoreConfig(s)
  <2>1. PICK c \in pending[s] :
          /\ At(s, "store_uci") /\ pc'[s] = IF pending[s] = {c} THEN "chain" ELSE "store_uci"
          /\ pending'[s] = pending[s] \ {c}
          /\ cursor'[s].staged = {o \in cursor[s].staged : ConfigOf[o] # c}
    BY <1>15, StoreEffect
  <2>2. UNCHANGED <<failed, dirty, chain>>
    BY <1>15 DEF StoreConfig
  <2>3. StoreUci \notin chain[s]
    BY <2>1, HookFields DEF ChainInv
  <2>4. \A o \in cursor[s].staged : ConfigOf[o] \in dirty[s] => ConfigOf[o] \in pending[s] \/ failed[s]
    BY <2>1, <2>3 DEF StoreInv
  <2>5. QED
    BY <2>1, <2>2, <2>4 DEF StoreInv
<1>16. CASE ReloadDaemon(s)
  BY <1>16 DEF ReloadDaemon, PackageDone, StoreInv
<1>17. CASE ReloadFails(s)
  BY <1>17 DEF ReloadFails, StoreInv
<1>18. CASE Reply(s)
  BY <1>18 DEF Reply, StoreInv
<1>19. CASE Connect(s)
  BY <1>19 DEF Connect, Flock!Open, StoreInv
<1>20. CASE Disconnect(s)
  BY <1>20, FreshFacts DEF Disconnect, StoreInv
<1>21. QED
  BY <1>1, <1>2, <1>3, <1>4, <1>5, <1>6, <1>7, <1>8, <1>9, <1>10, <1>11, <1>12, <1>13, <1>14, <1>15,
     <1>16, <1>17, <1>18, <1>19, <1>20 DEF Step, Work

(* Whatever else happens, a process stages only what its RPC asks for and  *)
(* marks nothing dirty while an older RPC's changes are staged.            *)
LEMMA AskedStep ==
  ASSUME Base, NEW s \in Sessions, Step(s), NEW t \in Sessions, ChainInv(t), StoreInv(t), AskedInv(t)
  PROVE  AskedInv(t)'
<1> SUFFICES ASSUME s = t
             PROVE  AskedInv(t)'
  BY OthersUntouched DEF Base, Untouched, AskedInv, At
<1> ChainInv(s) /\ StoreInv(s) /\ AskedInv(s)
  OBVIOUS
<1> USE DEF Base, DataTypes, ControlTypes, At, Goto, InChain, SetCursor, lockVars, rpcVars, txnVars,
            chainVars
<1>1. CASE Receive(s)
  <2>1. dirty'[s] = {}
    BY <1>1 DEF Receive, ChainInv
  <2>2. pc'[s] # "stage"
    BY <1>1, RequestsAssumption DEF Receive
  <2>3. QED
    BY <2>1, <2>2 DEF AskedInv
<1>2. CASE HandleLock(s)
  BY <1>2 DEF HandleLock, Flock!Lock, AskedInv
<1>3. CASE HandleUnlock(s)
  BY <1>3 DEF HandleUnlock, Flock!Unlock, AskedInv
<1>4. CASE HandleGet(s)
  BY <1>4, FreshFacts DEF HandleGet, AskedInv
<1>5. CASE HandleUser(s)
  BY <1>5 DEF HandleUser, ChainInv, AskedInv
<1>6. CASE CallDatastore(s)
  BY <1>6 DEF CallDatastore, Flock!EditAsHolder, Flock!Probe, Flock!EditInUse, DatastoreFails, AskedInv
<1>7. CASE AccessTested(s)
  BY <1>7 DEF AccessTested, Flock!ProbeDone, AskedInv
<1>8. CASE ReadConfig(s)
  <2>1. cursor'[s].staged = {}
    BY <1>8, FreshFacts DEF ReadConfig
  <2>2. QED
    BY <2>1 DEF AskedInv
<1>9. CASE Stage(s)
  <2>1. pc'[s] = "dispatch" /\ UNCHANGED req /\ cursor[s].staged = {} /\ ds[s] \in Called(req[s])
    BY <1>9, StageEffect, EditFacts DEF Stage, AskedInv
  <2>2. \/ cursor'[s] = SetOption(cursor[s], disk, EditAt(s).opt, Target(EditAt(s)))
        \/ cursor'[s] = cursor[s]
    BY <1>9, StageEffect
  <2> DEFINE set == SetOption(cursor[s], disk, EditAt(s).opt, Target(EditAt(s)))
  <2>3. EditAt(s).opt \in Options /\ Target(EditAt(s)) \in Values \union {Absent}
    BY <1>9, EditFacts DEF Stage
  <2>4. set.staged = {EditAt(s).opt} /\ set.mem[EditAt(s).opt] = Target(EditAt(s))
    <3>1. WellFormed(cursor[s]) /\ disk \in Contents
      OBVIOUS
    <3>2. set.staged = cursor[s].staged \union {EditAt(s).opt}
      BY <2>3, <3>1, SetFacts
    <3>3. set.mem[EditAt(s).opt] = Target(EditAt(s))
      BY <2>3, <3>1, SetFacts
    <3>4. QED
      BY <2>1, <3>2, <3>3
  <2> HIDE DEF set
  <2>5. \A o \in cursor'[s].staged : o = EditAt(s).opt /\ cursor'[s].mem[o] = Target(EditAt(s))
    BY <2>1, <2>2, <2>4 DEF set
  <2>6. QED
    BY <2>1, <2>5 DEF AskedInv, EditAt
<1>10. CASE BeginChain(s)
  BY <1>10 DEF BeginChain, AskedInv
<1>11. CASE HookPackages(s)
  <2>1. pc'[s] # "stage" /\ UNCHANGED <<req, cursor, dirty>>
    BY <1>11 DEF HookPackages, Takes
  <2>2. QED
    BY <2>1 DEF AskedInv
<1>12. CASE HookCleanup(s)
  BY <1>12 DEF HookCleanup, Takes, AskedInv
<1>13. CASE HookRollback(s)
  BY <1>13, FreshFacts DEF HookRollback, Takes, AskedInv
<1>14. CASE HookInvalidate(s)
  BY <1>14 DEF HookInvalidate, Takes, AskedInv
<1>15. CASE StoreConfig(s)
  <2>1. /\ pc'[s] # "stage" /\ cursor'[s].staged \subseteq cursor[s].staged
        /\ \A o \in cursor'[s].staged : cursor'[s].mem[o] = cursor[s].mem[o]
    BY <1>15, StoreEffect
  <2>2. UNCHANGED <<req, dirty>>
    BY <1>15 DEF StoreConfig
  <2>3. QED
    BY <2>1, <2>2 DEF AskedInv
<1>16. CASE ReloadDaemon(s)
  BY <1>16 DEF ReloadDaemon, PackageDone, AskedInv
<1>17. CASE ReloadFails(s)
  BY <1>17 DEF ReloadFails, AskedInv
<1>18. CASE Reply(s)
  BY <1>18 DEF Reply, AskedInv
<1>19. CASE Connect(s)
  BY <1>19 DEF Connect, Flock!Open, AskedInv
<1>20. CASE Disconnect(s)
  BY <1>20, FreshFacts DEF Disconnect, AskedInv
<1>21. QED
  BY <1>1, <1>2, <1>3, <1>4, <1>5, <1>6, <1>7, <1>8, <1>9, <1>10, <1>11, <1>12, <1>13, <1>14, <1>15,
     <1>16, <1>17, <1>18, <1>19, <1>20 DEF Step, Work
-----------------------------------------------------------------------------
(* The three parts, for every session, on top of what NuciServerProofs     *)
(* proves.                                                                 *)
TxnInv ==
  /\ Base /\ AdmittedInv
  /\ \A s \in Sessions : ChainInv(s) /\ StoreInv(s) /\ AskedInv(s)

(* They hold at first.                                                    *)
LEMMA TxnInit == Init => TxnInv
<1> SUFFICES ASSUME Init
             PROVE  TxnInv
  OBVIOUS
<1>1. ASSUME NEW s \in Sessions
      PROVE  ChainInv(s) /\ StoreInv(s) /\ AskedInv(s)
  BY DEF Init, Flock!Init, ChainInv, StoreInv, AskedInv, InChain, At
<1>2. QED
  BY <1>1, BaseInit DEF TxnInv

(* Every step of a session keeps them for it, and for the others.          *)
LEMMA TxnStep == TxnInv /\ [Next]_vars => TxnInv'
<1> SUFFICES ASSUME TxnInv, [Next]_vars
             PROVE  TxnInv'
  OBVIOUS
<1>1. Base' /\ AdmittedInv'
  BY BaseStep DEF TxnInv
<1>2. ASSUME NEW s \in Sessions, Step(s), NEW t \in Sessions
      PROVE  ChainInv(t)' /\ StoreInv(t)' /\ AskedInv(t)'
  BY <1>2, ChainStep, StoreStep, AskedStep DEF TxnInv
<1>3. ASSUME UNCHANGED vars, NEW t \in Sessions
      PROVE  ChainInv(t)' /\ StoreInv(t)' /\ AskedInv(t)'
  BY <1>3 DEF TxnInv, vars, lockVars, fileVars, rpcVars, txnVars, chainVars, historyVars,
              ChainInv, StoreInv, AskedInv, InChain, At
<1>4. QED
  BY <1>1, <1>2, <1>3 DEF TxnInv, Next, Step

(* The chains of commits.lua never lose sight of a dirty package, an added *)
(* hook, a cached tree or a staged change, whatever fails and whatever     *)
(* other sessions do.                                                      *)
THEOREM TransactionInvariant == Spec => []TxnInv
<1>1. QED
  BY TxnInit, TxnStep, PTL DEF Spec

(* Nothing of an RPC is left for the next: no dirty package, no added hook *)
(* and no tree of the supervisor, after success, error and failed reload   *)
(* (cleanup of commits.lua, the wipe of views_supervisor.lua).             *)
THEOREM ChainsLeaveNothing == Spec => []CleanBetweenRpcs
<1>1. TxnInv => CleanBetweenRpcs
  BY DEF TxnInv, CleanBetweenRpcs, ChainInv, At
<1>2. QED
  BY <1>1, TransactionInvariant, PTL

(* An edit that is answered with an error leaves nothing staged, whichever *)
(* datastore refused it and however far its chain had got (rollback_uci).  *)
THEOREM RefusedEditRolledBack == Spec => []RolledBack
<1>1. TxnInv => RolledBack
  BY DEF TxnInv, RolledBack, Answered, ChainInv, At
<1>2. QED
  BY <1>1, TransactionInvariant, PTL

(* When daemons are reloaded every dirty package has been committed: the   *)
(* priorities -1 and -2 of commits.lua, with any hooks in between.         *)
THEOREM ReloadAfterStore == Spec => []StoredBeforeReload
<1>1. ASSUME TxnInv, NEW s \in Sessions, At(s, "restart_daemons")
      PROVE  /\ \A o \in cursor[s].staged : ConfigOf[o] \notin dirty[s]
             /\ \A h \in chain[s] : h.act # "store_uci"
  <2>1. ChainInv(s) /\ StoreInv(s)
    BY <1>1 DEF TxnInv
  <2>2. InChain(s) /\ ~At(s, "store_uci")
    BY <1>1 DEF InChain, At
  <2>3. ~failed[s] /\ chain[s] \subseteq {CleanupLast}
    BY <1>1, <2>1 DEF ChainInv
  <2>4. \A h \in chain[s] : h.act # "store_uci" /\ h # StoreUci
    BY <2>3, HookFields
  <2>5. QED
    BY <2>1, <2>2, <2>3, <2>4 DEF StoreInv
<1>2. TxnInv => StoredBeforeReload
  BY <1>1 DEF StoredBeforeReload
<1>3. QED
  BY <1>2, TransactionInvariant, PTL

(* A process stores only what its RPC in work asked for, and never for an  *)
(* RPC with a refused part: nothing an earlier RPC staged, and nothing of  *)
(* an old copy of the package, whatever other sessions store meanwhile.    *)
THEOREM StoresOnlyAsked == Spec => NothingUnasked
<1>1. ASSUME TxnInv, NEW s \in Sessions, StoreConfig(s)
      PROVE  /\ ~failed[s]
             /\ \A o \in Options : disk'[o] # disk[o] =>
                  \E d \in Called(req[s]) : LET e == req[s].edits[d]
                                            IN e.opt = o /\ disk'[o] = Target(e)
  <2>1. Base /\ ChainInv(s) /\ StoreInv(s) /\ AskedInv(s)
    BY <1>1 DEF TxnInv
  <2>2. PICK c \in pending[s] :
          /\ At(s, "store_uci")
          /\ \A o \in Options : disk'[o] # disk[o] =>
               o \in cursor[s].staged /\ disk'[o] = cursor[s].mem[o]
    BY <1>1, <2>1, StoreEffect
  <2>3. ~failed[s] /\ dirty[s] # {}
    BY <2>1, <2>2 DEF ChainInv, StoreInv, At
  <2>4. QED
    BY <2>1, <2>2, <2>3 DEF AskedInv
<1>2. TxnInv => \A s \in Sessions : StoreConfig(s) =>
                  /\ ~failed[s]
                  /\ \A o \in Options : disk'[o] # disk[o] =>
                       \E d \in Called(req[s]) : LET e == req[s].edits[d]
                                                 IN e.opt = o /\ disk'[o] = Target(e)
  BY <1>1
<1>3. QED
  BY <1>2, TransactionInvariant, PTL DEF NothingUnasked
-----------------------------------------------------------------------------
(* One session.  With two, one may store between the other's read and its  *)
(* use of it (the runs stale_read and lost_edit); alone, the kept copies   *)
(* are what is on disk.                                                    *)

(* The failure chain in work has still to drop the cursor.                 *)
Doomed(s) == InChain(s) /\ failed[s] /\ RollbackUci \in chain[s]

(* The kept copies are fresh but for what the RPC has staged and marked;   *)
(* what edit_config_ops read for the edit is on disk.                      *)
FreshInv(s) ==
  /\ InStep(cursor[s], disk)
  /\ ~Doomed(s) => \A o \in cursor[s].staged :
                     cursor[s].mem[o] = disk[o] \/ ConfigOf[o] \in dirty[s]
  /\ At(s, "stage") => \/ seen[s] = disk[EditAt(s).opt]
                       \/ ConfigOf[EditAt(s).opt] \in dirty[s]

(* The edit e is staged, and its package will be stored before the reply.  *)
ToStore(s, e) ==
  /\ e.opt \in cursor[s].staged /\ cursor[s].mem[e.opt] = Target(e)
  /\ ConfigOf[e.opt] \in dirty[s]
  /\ \/ pc[s] \in {"dispatch", "commit"}
     \/ At(s, "chain") /\ StoreUci \in chain[s]
     \/ At(s, "store_uci") /\ ConfigOf[e.opt] \in pending[s]

(* How far an edit of the one datastore d has got.                         *)
SingleInv(s) ==
  /\ pc[s] \in {"lock", "unlock", "get", "user"} => Called(req[s]) = {}
  /\ effect[s] \subseteq Called(req[s])
  /\ \A d \in Datastores : Called(req[s]) = {d} =>
       /\ pc[s] \in {"probe", "read", "stage"} => todo[s] = {} /\ dirty[s] = {}
       /\ At(s, "dispatch") /\ todo[s] # {} => dirty[s] = {}
       /\ At(s, "stage") /\ disk[req[s].edits[d].opt] = Target(req[s].edits[d]) => effect[s] = {d}
       /\ /\ ~failed[s]
          /\ At(s, "dispatch") => todo[s] = {}
          /\ pc[s] \in {"dispatch", "commit", "chain", "store_uci", "restart_daemons"}
          => effect[s] = {d} \/ ToStore(s, req[s].edits[d])
       /\ At(s, "recv") /\ answer[s] = "ok" => effect[s] = {d}

Alone(s) == Sessions = {s}

(* The only session's own steps keep its copies fresh.                     *)
LEMMA FreshStep ==
  ASSUME Base, NEW s \in Sessions, Step(s), ChainInv(s), StoreInv(s), AskedInv(s), FreshInv(s)
  PROVE  FreshInv(s)'
<1> USE DEF At, Goto, InChain, SetCursor, lockVars, fileVars, rpcVars, txnVars, chainVars
<1> WellFormed(cursor[s]) /\ disk \in Contents
  BY DEF Base, DataTypes
<1> DEFINE Fresh == /\ cursor'[s].staged = {} /\ InStep(cursor'[s], disk')
<1>0. cursor'[s] = FreshCursor => Fresh
  BY FreshFacts
<1> USE DEF Base, DataTypes, ControlTypes
<1>1. CASE Receive(s)
  <2>1. pc'[s] \notin {"stage", "chain", "store_uci", "restart_daemons"} /\ ~InChain(s)
    BY <1>1, RequestsAssumption DEF Receive
  <2>2. UNCHANGED <<cursor, disk, dirty>>
    BY <1>1 DEF Receive
  <2>3. QED
    BY <2>1, <2>2 DEF FreshInv, Doomed
<1>2. CASE HandleLock(s)
  BY <1>2 DEF HandleLock, Flock!Lock, FreshInv, Doomed
<1>3. CASE HandleUnlock(s)
  BY <1>3 DEF HandleUnlock, Flock!Unlock, FreshInv, Doomed
<1>4. CASE HandleGet(s)
  <2>1. Fresh /\ pc'[s] = "commit"
    BY <1>4, <1>0 DEF HandleGet
  <2>2. QED
    BY <2>1 DEF FreshInv
<1>5. CASE HandleUser(s)
  <2>1. pc'[s] = "recv" /\ ~InChain(s) /\ UNCHANGED <<disk, dirty>>
    BY <1>5 DEF HandleUser
  <2>2. CASE cursor'[s] = FreshCursor
    BY <1>0, <2>1, <2>2 DEF FreshInv
  <2>3. CASE cursor'[s] = Load(cursor[s], disk, req[s].cfg)
    <3>1. req[s].cfg \in Configs
      BY <1>5, RequestsAssumption DEF HandleUser, Phase, NoRequest
    <3>2. /\ cursor'[s].staged = cursor[s].staged
          /\ \A o \in cursor[s].staged : cursor'[s].mem[o] = cursor[s].mem[o]
      BY <2>3, <3>1, LoadFacts
    <3>3. InStep(cursor'[s], disk)
      BY <2>3, <3>1, LoadFacts DEF FreshInv
    <3>4. QED
      BY <2>1, <3>2, <3>3 DEF FreshInv, Doomed
  <2>4. QED
    BY <1>5, <2>2, <2>3 DEF HandleUser
<1>6. CASE CallDatastore(s)
  BY <1>6 DEF CallDatastore, Flock!EditAsHolder, Flock!Probe, Flock!EditInUse, DatastoreFails, FreshInv, Doomed
<1>7. CASE AccessTested(s)
  BY <1>7 DEF AccessTested, Flock!ProbeDone, FreshInv, Doomed
<1>8. CASE ReadConfig(s)
  <2>1. Fresh /\ UNCHANGED <<disk, dirty, req, ds>> /\ ~InChain(s)
    BY <1>8, <1>0 DEF ReadConfig
  <2>2. seen'[s] = View(cursor[s], disk, EditAt(s).opt) /\ EditAt(s).opt \in Options
    BY <1>8, EditFacts DEF ReadConfig
  <2>3. seen'[s] = disk[EditAt(s).opt] \/ ConfigOf[EditAt(s).opt] \in dirty[s]
    BY <2>1, <2>2, ViewFacts DEF FreshInv, Doomed
  <2>4. QED
    BY <2>1, <2>3 DEF FreshInv, EditAt
<1>9. CASE Stage(s)
  <2>1. pc'[s] = "dispatch" /\ UNCHANGED disk /\ cursor[s].staged = {} /\ InStep(cursor[s], disk)
    BY <1>9, StageEffect DEF Stage, AskedInv, FreshInv
  <2>2. dirty'[s] = dirty[s] \union
          (IF Changes(s, EditAt(s)) THEN {ConfigOf[EditAt(s).opt]} ELSE {})
    BY <1>9, StageEffect
  <2> DEFINE set == SetOption(cursor[s], disk, EditAt(s).opt, Target(EditAt(s)))
  <2>3. cursor'[s] = set \/ cursor'[s] = cursor[s]
    BY <1>9, StageEffect
  <2>4. EditAt(s).opt \in Options /\ Target(EditAt(s)) \in Values \union {Absent}
    BY <1>9, EditFacts DEF Stage
  <2>5. /\ set.staged = {EditAt(s).opt} /\ set.mem[EditAt(s).opt] = Target(EditAt(s))
        /\ InStep(set, disk)
    <3>1. set.staged = cursor[s].staged \union {EditAt(s).opt}
      BY <2>4, SetFacts
    <3>2. set.mem[EditAt(s).opt] = Target(EditAt(s))
      BY <2>4, SetFacts
    <3>3. InStep(cursor[s], disk) => InStep(set, disk)
      BY <2>4, SetFacts
    <3>4. QED
      BY <2>1, <3>1, <3>2, <3>3
  <2> HIDE DEF set
  <2>6. \/ ConfigOf[EditAt(s).opt] \in dirty'[s]
        \/ Target(EditAt(s)) = disk[EditAt(s).opt]
    BY <1>9, <2>2 DEF Stage, Changes, FreshInv
  <2>7. QED
    BY <2>1, <2>3, <2>5, <2>6 DEF FreshInv
<1>10. CASE BeginChain(s)
  <2>1. pc'[s] = "chain" /\ ~InChain(s) /\ UNCHANGED <<cursor, disk, dirty>>
    BY <1>10 DEF BeginChain
  <2>2. QED
    BY <2>1 DEF FreshInv, Doomed
<1>11. CASE HookPackages(s)
  <2>1. PICK act \in {"store_uci", "restart_daemons"} : Takes(s, act)
          /\ UNCHANGED txnVars /\ pc'[s] \in {"chain", act}
    BY <1>11 DEF HookPackages, Takes
  <2>2. ~failed[s]
    BY <2>1, TakenHook
  <2>3. QED
    BY <2>1, <2>2 DEF Takes, FreshInv, Doomed
<1>12. CASE HookCleanup(s)
  <2>1. PICK h \in chain[s] :
          /\ chain'[s] = chain[s] \ {h}
          /\ ~failed[s] => chain[s] = {CleanupLast}
          /\ h = (IF failed[s] THEN CleanupFirst ELSE CleanupLast)
    BY <1>12, TakenHook DEF HookCleanup
  <2>2. UNCHANGED <<pc, cursor, disk, failed>> /\ At(s, "chain")
    BY <1>12 DEF HookCleanup, Takes
  <2>3. CASE failed[s]
    <3>1. RollbackUci \in chain'[s] <=> RollbackUci \in chain[s]
      BY <2>1, <2>3, HookFields
    <3>2. ~Doomed(s)' => cursor[s].staged = {}
      BY <2>2, <2>3, <3>1 DEF Doomed, ChainInv
    <3>3. QED
      BY <2>2, <3>2 DEF FreshInv
  <2>4. CASE ~failed[s]
    <3>1. StoreUci \notin chain[s]
      BY <2>1, <2>4, HookFields
    <3>2. \A o \in cursor[s].staged : cursor[s].mem[o] = disk[o]
      BY <2>2, <2>4, <3>1 DEF FreshInv, StoreInv, Doomed
    <3>3. QED
      BY <2>2, <3>2 DEF FreshInv
  <2>5. QED
    BY <2>3, <2>4
<1>13. CASE HookRollback(s)
  <2>1. Fresh /\ At(s, "chain") /\ UNCHANGED pc
    BY <1>13, <1>0 DEF HookRollback, Takes
  <2>2. QED
    BY <2>1 DEF FreshInv
<1>14. CASE HookInvalidate(s)
  <2>1. PICK h \in chain[s] : chain'[s] = chain[s] \ {h} /\ h = Invalidate
    BY <1>14, TakenHook DEF HookInvalidate
  <2>2. RollbackUci \in chain'[s] <=> RollbackUci \in chain[s]
    BY <2>1, HookFields
  <2>3. UNCHANGED <<pc, cursor, disk, dirty, failed>> /\ At(s, "chain")
    BY <1>14 DEF HookInvalidate, Takes
  <2>4. QED
    BY <2>2, <2>3 DEF FreshInv, Doomed
<1>15. CASE StoreConfig(s)
  <2>1. PICK c \in pending[s] :
          /\ At(s, "store_uci") /\ pc'[s] = IF pending[s] = {c} THEN "chain" ELSE "store_uci"
          /\ disk' = Merged(cursor[s], disk, c) /\ cursor'[s] = AfterCommit(cursor[s], disk, c)
          /\ cursor'[s].staged = {o \in cursor[s].staged : ConfigOf[o] # c}
          /\ \A o \in cursor'[s].staged : cursor'[s].mem[o] = cursor[s].mem[o]
    BY <1>15, StoreEffect
  <2>2. InStep(cursor'[s], disk')
    BY <2>1, AfterCommitFacts DEF FreshInv
  <2>3. \A o \in cursor'[s].staged : disk'[o] = disk[o]
    BY <2>1 DEF Merged, Cursors
  <2>4. ~failed[s] /\ UNCHANGED <<failed, dirty>>
    BY <1>15, <2>1 DEF StoreConfig, ChainInv
  <2>5. QED
    BY <2>1, <2>2, <2>3, <2>4 DEF FreshInv, Doomed
<1>16. CASE ReloadDaemon(s)
  <2>1. pc'[s] # "stage" /\ UNCHANGED <<cursor, disk, dirty, failed, chain>> /\ InChain(s)
    BY <1>16 DEF ReloadDaemon, PackageDone
  <2>2. ~failed[s]
    BY <1>16 DEF ReloadDaemon, ChainInv
  <2>3. QED
    BY <2>1, <2>2 DEF FreshInv, Doomed
<1>17. CASE ReloadFails(s)
  <2>1. ~failed[s] /\ pc'[s] = "commit" /\ UNCHANGED <<cursor, disk, dirty>>
    BY <1>17 DEF ReloadFails, ChainInv
  <2>2. QED
    BY <2>1 DEF FreshInv, Doomed
<1>18. CASE Reply(s)
  BY <1>18 DEF Reply, FreshInv, Doomed
<1>19. CASE Connect(s)
  BY <1>19 DEF Connect, Flock!Open, EditAt, FreshInv, Doomed
<1>20. CASE Disconnect(s)
  <2>1. Fresh /\ pc'[s] = "recv"
    BY <1>20, <1>0 DEF Disconnect
  <2>2. QED
    BY <2>1 DEF FreshInv
<1>21. QED
  BY <1>1, <1>2, <1>3, <1>4, <1>5, <1>6, <1>7, <1>8, <1>9, <1>10, <1>11, <1>12, <1>13, <1>14, <1>15,
     <1>16, <1>17, <1>18, <1>19, <1>20 DEF Step, Work

(* An edit of one datastore is put on disk before it is answered with ok.  *)
LEMMA SingleStep ==
  ASSUME Base, NEW s \in Sessions, Step(s), ChainInv(s), StoreInv(s), AskedInv(s), FreshInv(s),
         SingleInv(s)
  PROVE  SingleInv(s)'
<1> USE DEF At, Goto, InChain, SetCursor, lockVars, fileVars, rpcVars, txnVars, chainVars,
            historyVars
<1> USE DEF Base, DataTypes, ControlTypes
<1>1. CASE Receive(s)
  <2>1. PICK r \in Requests :
          /\ req'[s] = r /\ todo'[s] = Called(r)
          /\ pc'[s] = IF IsEdit(r) THEN "dispatch" ELSE r.op
    BY <1>1 DEF Receive
  <2>2. pc'[s] \in {"lock", "unlock", "get", "user", "dispatch"}
    BY <2>1, RequestsAssumption DEF IsEdit
  <2>3. pc'[s] # "dispatch" => Called(r) = {}
    BY <2>1 DEF Called
  <2>4. effect'[s] = {} /\ dirty'[s] = {}
    BY <1>1 DEF Receive, ChainInv
  <2>5. QED
    BY <2>1, <2>2, <2>3, <2>4 DEF SingleInv
<1>2. CASE HandleLock(s)
  <2>1. Called(req[s]) = {} /\ pc'[s] = "commit" /\ UNCHANGED <<req, effect>>
    BY <1>2 DEF HandleLock, SingleInv
  <2>2. QED
    BY <2>1 DEF SingleInv
<1>3. CASE HandleUnlock(s)
  <2>1. Called(req[s]) = {} /\ pc'[s] = "commit" /\ UNCHANGED <<req, effect>>
    BY <1>3 DEF HandleUnlock, SingleInv
  <2>2. QED
    BY <2>1 DEF SingleInv
<1>4. CASE HandleGet(s)
  <2>1. Called(req[s]) = {} /\ pc'[s] = "commit" /\ UNCHANGED <<req, effect>>
    BY <1>4 DEF HandleGet, SingleInv
  <2>2. QED
    BY <2>1 DEF SingleInv
<1>5. CASE HandleUser(s)
  <2>1. Called(req[s]) = {} /\ pc'[s] = "recv" /\ UNCHANGED <<req, effect>>
    BY <1>5 DEF HandleUser, SingleInv
  <2>2. QED
    BY <2>1 DEF SingleInv
<1>6. CASE CallDatastore(s)
  <2>1. PICK d \in todo[s] : /\ todo'[s] \in {todo[s] \ {d}, {}}
                             /\ pc'[s] \in {"read", "probe"} \/ (pc'[s] = "dispatch" /\ failed'[s])
    BY <1>6 DEF CallDatastore, DatastoreFails
  <2>2. /\ At(s, "dispatch") /\ UNCHANGED <<req, dirty, effect, disk>>
        /\ todo[s] \subseteq Called(req[s])
    BY <1>6 DEF CallDatastore, Phase
  <2>3. \A e : Called(req[s]) = {e} => todo[s] = {e} /\ todo'[s] = {}
    BY <2>1, <2>2
  <2>4. QED
    BY <2>1, <2>2, <2>3 DEF SingleInv
<1>7. CASE AccessTested(s)
  BY <1>7 DEF AccessTested, Flock!ProbeDone, SingleInv, ToStore
<1>8. CASE ReadConfig(s)
  <2>1. /\ At(s, "read") /\ UNCHANGED <<req, ds, dirty, disk>>
        /\ \/ pc'[s] = "dispatch" /\ failed'[s] /\ todo'[s] \in {todo[s], {}} /\ UNCHANGED effect
           \/ /\ pc'[s] = "stage" /\ UNCHANGED todo
              /\ effect'[s] = IF disk[EditAt(s).opt] = Target(EditAt(s))
                              THEN effect[s] \union {ds[s]} ELSE effect[s]
    <3>1. At(s, "read") /\ UNCHANGED <<req, ds, dirty, disk>>
      BY <1>8 DEF ReadConfig, fileVars
    <3>2. CASE Refuses(EditAt(s), seen'[s])
      <4>1. DatastoreFails(s, todo[s]) /\ UNCHANGED effect
        BY <1>8, <3>2 DEF ReadConfig
      <4>2. pc'[s] = "dispatch" /\ failed'[s] /\ todo'[s] \in {todo[s], {}}
        BY <4>1 DEF DatastoreFails, Goto, Base, ControlTypes, DataTypes
      <4>3. QED
        BY <3>1, <4>1, <4>2
    <3>3. CASE ~Refuses(EditAt(s), seen'[s])
      <4>1. /\ pc'[s] = "stage" /\ UNCHANGED todo
            /\ effect' = IF disk[EditAt(s).opt] = Target(EditAt(s))
                         THEN [effect EXCEPT ![s] = @ \union {ds[s]}] ELSE effect
        BY <1>8, <3>3 DEF ReadConfig, Goto, Base, ControlTypes, DataTypes
      <4>2. effect'[s] = IF disk[EditAt(s).opt] = Target(EditAt(s))
                         THEN effect[s] \union {ds[s]} ELSE effect[s]
        BY <4>1 DEF Base, ControlTypes, DataTypes
      <4>3. QED
        BY <3>1, <4>1, <4>2
    <3>4. QED
      BY <3>2, <3>3
  <2>2. ds[s] \in Called(req[s])
    BY <2>1 DEF Phase
  <2>3. QED
    BY <2>1, <2>2 DEF SingleInv, EditAt
<1>9. CASE Stage(s)
  <2>1. /\ pc'[s] = "dispatch" /\ todo'[s] \in {todo[s], {}} /\ At(s, "stage")
        /\ UNCHANGED <<req, disk, effect>>
        /\ dirty'[s] = dirty[s] \union
             (IF Changes(s, EditAt(s)) THEN {ConfigOf[EditAt(s).opt]} ELSE {})
    BY <1>9, StageEffect DEF Stage
  <2>2. ds[s] \in Called(req[s]) /\ Called(req[s]) \subseteq Datastores
    BY <2>1, EditFacts, RequestFacts
  <2>3. ASSUME Called(req[s]) = {ds[s]}
        PROVE  effect[s] = {ds[s]} \/ ToStore(s, EditAt(s))'
    <3>1. todo[s] = {} /\ dirty[s] = {}
      BY <2>1, <2>2, <2>3 DEF SingleInv
    <3>2. CASE Changes(s, EditAt(s))
      <4>1. cursor'[s] = SetOption(cursor[s], disk, EditAt(s).opt, Target(EditAt(s)))
        BY <1>9, <3>2, StageEffect
      <4>2. EditAt(s).opt \in Options /\ Target(EditAt(s)) \in Values \union {Absent}
        BY <2>1, EditFacts
      <4>3. EditAt(s).opt \in cursor'[s].staged
        BY <4>1, <4>2, SetFacts
      <4>4. cursor'[s].mem[EditAt(s).opt] = Target(EditAt(s))
        BY <4>1, <4>2, SetFacts
      <4>5. ConfigOf[EditAt(s).opt] \in dirty'[s]
        BY <2>1, <3>2
      <4>6. EditAt(s)' = EditAt(s)
        BY <1>9 DEF Stage, EditAt
      <4>7. QED
        BY <2>1, <4>3, <4>4, <4>5, <4>6 DEF ToStore
    <3>3. CASE ~Changes(s, EditAt(s))
      <4>1. disk[EditAt(s).opt] = Target(EditAt(s))
        BY <2>1, <3>1, <3>3 DEF Changes, FreshInv
      <4>2. QED
        BY <2>1, <2>2, <2>3, <4>1 DEF SingleInv, EditAt
    <3>4. QED
      BY <3>2, <3>3
  <2>4. \A d : Called(req[s]) = {d} => d = ds[s] /\ todo'[s] = {}
    BY <2>1, <2>2 DEF SingleInv
  <2>5. EditAt(s)' = req'[s].edits[ds[s]]
    BY <1>9 DEF Stage, EditAt
  <2>6. QED
    BY <2>1, <2>3, <2>4, <2>5 DEF SingleInv
<1>10. CASE BeginChain(s)
  <2>1. /\ pc'[s] = "chain" /\ UNCHANGED <<req, cursor, dirty, effect, failed>>
        /\ ~failed[s] => StoreUci \in chain'[s]
        /\ At(s, "commit") \/ (At(s, "dispatch") /\ todo[s] = {})
    BY <1>10, HookNames DEF BeginChain
  <2>2. QED
    BY <2>1 DEF SingleInv, ToStore
<1>11. CASE HookPackages(s)
  <2>1. PICK act \in {"store_uci", "restart_daemons"} : /\ Takes(s, act)
          /\ UNCHANGED txnVars /\ pending' = [pending EXCEPT ![s] = dirty[s]]
          /\ IF dirty[s] = {} THEN UNCHANGED pc ELSE Goto(s, act)
    BY <1>11 DEF HookPackages
  <2>2. PICK h \in chain[s] : /\ chain'[s] = chain[s] \ {h} /\ h.act = act
                              /\ act = "restart_daemons" => chain'[s] \subseteq {CleanupLast}
    BY <2>1, TakenHook
  <2>3. act = "restart_daemons" => StoreUci \notin chain[s]
    BY <2>2, HookFields
  <2>4. At(s, "chain") /\ UNCHANGED <<req, failed, effect>>
    BY <2>1 DEF Takes
  <2>5. pc'[s] \in {"chain", act}
    BY <2>1, <2>4
  <2>6. \A e : ToStore(s, e) => act = "store_uci" /\ ToStore(s, e)'
    BY <2>1, <2>3, <2>4 DEF ToStore
  <2>7. QED
    BY <2>4, <2>5, <2>6 DEF SingleInv
<1>12. CASE HookCleanup(s)
  <2>1. ~failed[s] => chain[s] \subseteq {CleanupLast}
    <3>1. PICK h \in chain[s] :
            /\ ~failed[s] => chain[s] = {h}
            /\ h = (IF failed[s] THEN CleanupFirst ELSE CleanupLast)
      BY <1>12, TakenHook DEF HookCleanup
    <3>2. QED
      BY <3>1
  <2>2. UNCHANGED <<pc, req, failed, effect>> /\ At(s, "chain")
    BY <1>12 DEF HookCleanup, Takes
  <2>3. ~failed[s] => \A e : ~ToStore(s, e)
    BY <2>1, <2>2, HookFields DEF ToStore
  <2>4. QED
    BY <2>2, <2>3 DEF SingleInv
<1>13. CASE HookRollback(s)
  <2>1. failed[s] /\ UNCHANGED <<pc, req, failed, effect>> /\ At(s, "chain")
    BY <1>13, TakenHook DEF HookRollback, Takes
  <2>2. QED
    BY <2>1 DEF SingleInv
<1>14. CASE HookInvalidate(s)
  <2>1. PICK h \in chain[s] : chain'[s] = chain[s] \ {h} /\ h = Invalidate
    BY <1>14, TakenHook DEF HookInvalidate
  <2>2. StoreUci \in chain[s] => StoreUci \in chain'[s]
    BY <2>1, HookFields
  <2>3. UNCHANGED <<pc, req, cursor, dirty, failed, effect>> /\ At(s, "chain")
    BY <1>14 DEF HookInvalidate, Takes
  <2>4. QED
    BY <2>2, <2>3 DEF SingleInv, ToStore
<1>15. CASE StoreConfig(s)
  <2>1. PICK c \in pending[s] :
          /\ At(s, "store_uci") /\ pc'[s] = IF pending[s] = {c} THEN "chain" ELSE "store_uci"
          /\ pending'[s] = pending[s] \ {c}
          /\ \A o \in cursor[s].staged : ConfigOf[o] = c => disk'[o] = cursor[s].mem[o]
          /\ cursor'[s].staged = {o \in cursor[s].staged : ConfigOf[o] # c}
          /\ \A o \in cursor'[s].staged : cursor'[s].mem[o] = cursor[s].mem[o]
          /\ effect'[s] = effect[s] \union
               {d \in Called(req[s]) : LET e == req[s].edits[d]
                                       IN ConfigOf[e.opt] = c /\ disk'[e.opt] = Target(e)}
    BY <1>15, StoreEffect
  <2>2. UNCHANGED <<req, failed, dirty>>
    BY <1>15 DEF StoreConfig
  <2>3. effect[s] \subseteq effect'[s] /\ effect'[s] \subseteq Called(req[s])
    BY <2>1 DEF SingleInv
  <2>4. ASSUME NEW d \in Datastores, Called(req[s]) = {d}, ToStore(s, req[s].edits[d])
        PROVE  effect'[s] = {d} \/ ToStore(s, req[s].edits[d])'
    BY <2>1, <2>2, <2>3, <2>4 DEF ToStore
  <2>5. QED
    BY <2>1, <2>2, <2>3, <2>4 DEF SingleInv
<1>16. CASE ReloadDaemon(s)
  <2>1. /\ At(s, "restart_daemons") /\ pc'[s] \in {"restart_daemons", "chain"}
        /\ UNCHANGED <<req, failed, effect>>
    BY <1>16 DEF ReloadDaemon, PackageDone
  <2>2. \A e : ~ToStore(s, e)
    BY <2>1 DEF ToStore
  <2>3. QED
    BY <2>1, <2>2 DEF SingleInv
<1>17. CASE ReloadFails(s)
  <2>1. failed'[s] /\ pc'[s] = "commit" /\ UNCHANGED <<req, effect>>
    BY <1>17 DEF ReloadFails
  <2>2. QED
    BY <2>1 DEF SingleInv
<1>18. CASE Reply(s)
  <2>1. /\ At(s, "chain") /\ chain[s] = {} /\ pc'[s] = "recv" /\ UNCHANGED <<req, effect>>
        /\ answer'[s] = "ok" => ~failed[s]
    BY <1>18 DEF Reply, Flock!Tell
  <2>2. \A e : ~ToStore(s, e)
    BY <2>1 DEF ToStore
  <2>3. QED
    BY <2>1, <2>2 DEF SingleInv
<1>19. CASE Connect(s)
  BY <1>19 DEF Connect, Flock!Open, SingleInv, ToStore
<1>20. CASE Disconnect(s)
  <2>1. req'[s] = NoRequest /\ pc'[s] = "recv" /\ effect'[s] = {}
    BY <1>20 DEF Disconnect
  <2>2. Called(req'[s]) = {}
    BY <2>1 DEF Called, IsEdit, NoRequest
  <2>3. QED
    BY <2>1, <2>2 DEF SingleInv
<1>21. QED
  BY <1>1, <1>2, <1>3, <1>4, <1>5, <1>6, <1>7, <1>8, <1>9, <1>10, <1>11, <1>12, <1>13, <1>14, <1>15,
     <1>16, <1>17, <1>18, <1>19, <1>20 DEF Step, Work

(* Both hold for a session that is the only one.                           *)
LEMMA AloneInvariant ==
  ASSUME NEW s \in Sessions, Alone(s)
  PROVE  Spec => [](TxnInv /\ FreshInv(s) /\ SingleInv(s))
<1>1. Init => TxnInv /\ FreshInv(s) /\ SingleInv(s)
  <2>1. ASSUME Init
        PROVE  FreshInv(s) /\ SingleInv(s)
    <3>1. FreshInv(s)
      BY <2>1, FreshFacts DEF Init, FreshInv, At
    <3>2. SingleInv(s)
      BY <2>1 DEF Init, Flock!Init, SingleInv, At, Called, IsEdit, NoRequest
    <3>3. QED
      BY <3>1, <3>2
  <2>2. QED
    BY <2>1, TxnInit
<1>2. (TxnInv /\ FreshInv(s) /\ SingleInv(s)) /\ [Next]_vars
        => (TxnInv /\ FreshInv(s) /\ SingleInv(s))'
  <2> SUFFICES ASSUME TxnInv, FreshInv(s), SingleInv(s), [Next]_vars
               PROVE  TxnInv' /\ FreshInv(s)' /\ SingleInv(s)'
    OBVIOUS
  <2>1. TxnInv'
    BY TxnStep
  <2>2. ASSUME Step(s)
        PROVE  FreshInv(s)' /\ SingleInv(s)'
    BY <2>2, FreshStep, SingleStep DEF TxnInv
  <2>3. ASSUME UNCHANGED vars
        PROVE  FreshInv(s)' /\ SingleInv(s)'
    BY <2>3 DEF vars, lockVars, fileVars, rpcVars, txnVars, chainVars, historyVars, FreshInv,
                SingleInv, ToStore, Doomed, InChain, EditAt, At
  <2>4. QED
    BY <2>1, <2>2, <2>3 DEF Next, Step, Alone
<1>3. QED
  BY <1>1, <1>2, PTL DEF Spec

(* A client that is alone reads what is on disk, but for what its RPC in   *)
(* work has staged itself (plugins.txt:167), though a user RPC may leave   *)
(* the cursor open and a datastore stage a value that is on disk already.  *)
THEOREM AloneReadsAreFresh ==
  ASSUME NEW s \in Sessions, Alone(s)
  PROVE  Spec => []ReadsAreFresh
<1>1. ASSUME TxnInv, FreshInv(s), At(s, "read") \/ At(s, "get"), NEW o \in Options
      PROVE  \/ View(cursor[s], disk, o) = disk[o]
             \/ o \in cursor[s].staged /\ ConfigOf[o] \in dirty[s]
  <2>1. WellFormed(cursor[s]) /\ disk \in Contents
    BY <1>1 DEF TxnInv, Base, DataTypes
  <2>2. ~Doomed(s)
    BY <1>1 DEF Doomed, InChain, At
  <2>3. QED
    BY <1>1, <2>1, <2>2, ViewFacts DEF FreshInv
<1>2. TxnInv /\ FreshInv(s) => ReadsAreFresh
  BY <1>1 DEF ReadsAreFresh, Alone
<1>3. QED
  BY <1>2, AloneInvariant, PTL

(* An edit of one datastore that a client alone is told succeeded is on    *)
(* disk, or was when edit_config_ops read it: staging, dirty marks, hook   *)
(* order and cursor:commit together lose nothing.                          *)
THEOREM AloneOkMeansStored ==
  ASSUME NEW s \in Sessions, Alone(s)
  PROVE  Spec => []SingleOkMeansStored
<1>1. ASSUME TxnInv, SingleInv(s), Answered(s, "ok"), Cardinality(Called(req[s])) = 1
      PROVE  effect[s] = Called(req[s])
  <2>1. Called(req[s]) \subseteq Datastores
    BY <1>1, RequestFacts DEF TxnInv, Base
  <2>2. IsFiniteSet(Called(req[s]))
    BY <2>1, DatastoresAssumption, FS_Subset
  <2>3. PICK d : Called(req[s]) = {d}
    BY <1>1, <2>2, FS_Singleton
  <2>4. QED
    BY <1>1, <2>1, <2>3 DEF SingleInv, Answered
<1>2. TxnInv /\ SingleInv(s) => SingleOkMeansStored
  BY <1>1 DEF SingleOkMeansStored, Alone
<1>3. QED
  BY <1>2, AloneInvariant, PTL
=============================================================================
