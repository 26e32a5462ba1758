--------------------------- MODULE NuciServerProofs ---------------------------
(***************************************************************************)
(* Proofs about NuciServer for any sessions, datastores, packages, options *)
(* and requests: the ranges of the data, the flock, and where each process *)
(* is with its RPC.  The flock alone is not inductive: that the reply of a *)
(* command is only sent for what the process asked of the flock needs the  *)
(* place the process is at, and this needs the RPC that it works on.       *)
(***************************************************************************)
EXTENDS NuciServer, UciCursorProofs, TLAPS

(* The ranges of the functions, beyond what TypeOK says.                   *)
DataTypes ==
  /\ disk \in Contents /\ running \in Contents
  /\ seen \in [Sessions -> Values \union {Absent}]
  /\ failed \in [Sessions -> BOOLEAN]
  /\ cursor \in [Sessions -> Cursors]
  /\ \A s \in Sessions : WellFormed(cursor[s])
  /\ dirty \in [Sessions -> SUBSET Configs]
  /\ pending \in [Sessions -> SUBSET Configs]
  /\ cache \in [Sessions -> BOOLEAN]

ControlTypes ==
  /\ pc \in [Sessions -> Places]
  /\ req \in [Sessions -> Requests \union {NoRequest}]
  /\ todo \in [Sessions -> SUBSET Datastores]
  /\ ds \in [Sessions -> Datastores]
  /\ hooks \in [Sessions -> {DefaultHooks, WithInvalidation(DefaultHooks)}]
  /\ chain \in [Sessions -> SUBSET Hooks]
  /\ effect \in [Sessions -> SUBSET Datastores]
  /\ wrote \in [Sessions -> SUBSET Configs]
  /\ answer \in [Sessions -> Flock!Answers \union {"ok", "error"}]

(* The flock without background commands, which the server does not start. *)
LockInv ==
  /\ alive \subseteq Sessions /\ heirs = {}
  /\ owner \in alive \union {None}
  /\ holding \subseteq alive /\ probing \subseteq holding
  /\ Flock!LockCoherent

(* Where a process is goes with the RPC it has.                            *)
Phase(s) ==
  /\ ~At(s, "recv") => s \in alive
  /\ At(s, "probe") <=> s \in probing
  /\ todo[s] \subseteq Called(req[s])
  /\ At(s, "user") => req[s].op = "user"
  /\ pc[s] \in {"dispatch", "probe", "read", "stage"} => IsEdit(req[s])
  /\ pc[s] \in {"probe", "read", "stage"} => ds[s] \in Called(req[s])

(* Sessions past their access test, and the present lock.                  *)
AdmittedInv ==
  /\ admitted \subseteq alive /\ overlap \subseteq admitted
  /\ LockStopsNewEdits

Base == DataTypes /\ ControlTypes /\ LockInv /\ \A s \in Sessions : Phase(s)

(* A step of session s.                                                    *)
Step(s) == Receive(s) \/ Work(s) \/ Connect(s) \/ Disconnect(s)

-----------------------------------------------------------------------------
(* What a datastore is asked for is an option of a package and one of its  *)
(* values, or its absence.                                                 *)
LEMMA RequestFacts ==
  ASSUME ControlTypes, NEW s \in Sessions
  PROVE  /\ Called(req[s]) \subseteq Datastores
         /\ \A d \in Called(req[s]) :
              /\ req[s].edits[d].opt \in Options
              /\ ConfigOf[req[s].edits[d].opt] \in Configs
              /\ Target(req[s].edits[d]) \in Values \union {Absent}
<1>1. req[s] \in Requests \/ Called(req[s]) = {}
  BY DEF ControlTypes, Called, IsEdit, NoRequest
<1>2. QED
  BY <1>1, RequestsAssumption, ConfigOfAssumption DEF Called, Target

(* The same for the datastore being called.                                *)
LEMMA EditFacts ==
  ASSUME ControlTypes, NEW s \in Sessions, Phase(s), pc[s] \in {"probe", "read", "stage"}
  PROVE  /\ ds[s] \in Called(req[s])
         /\ EditAt(s).opt \in Options /\ ConfigOf[EditAt(s).opt] \in Configs
         /\ Target(EditAt(s)) \in Values \union {Absent}
BY RequestFacts DEF Phase, EditAt

(* The state of a session, which only the session itself changes.          *)
Untouched(t) ==
  /\ pc'[t] = pc[t] /\ req'[t] = req[t] /\ todo'[t] = todo[t] /\ ds'[t] = ds[t]
  /\ seen'[t] = seen[t] /\ failed'[t] = failed[t] /\ cursor'[t] = cursor[t]
  /\ dirty'[t] = dirty[t] /\ hooks'[t] = hooks[t] /\ chain'[t] = chain[t]
  /\ pending'[t] = pending[t] /\ cache'[t] = cache[t] /\ effect'[t] = effect[t]
  /\ answer'[t] = answer[t]
  /\ (t \in alive' <=> t \in alive) /\ (t \in probing' <=> t \in probing)

(* No step of a session touches another one.                               *)
LEMMA OthersUntouched ==
  ASSUME DataTypes, ControlTypes, NEW s \in Sessions, Step(s), NEW t \in Sessions, t # s
  PROVE  Untouched(t)
<1> USE DEF DataTypes, ControlTypes, Untouched, lockVars, fileVars, rpcVars, txnVars, chainVars,
            historyVars, Goto, SetCursor, Flock!Tell
<1>1. CASE Receive(s)
  BY <1>1 DEF Receive
<1>2. CASE HandleLock(s)
  BY <1>2 DEF HandleLock, Flock!Lock, Flock!TestAndSet
<1>3. CASE HandleUnlock(s)
  BY <1>3 DEF HandleUnlock, Flock!Unlock, Flock!Release, Flock!ReleaseFails
<1>4. CASE HandleGet(s)
  BY <1>4 DEF HandleGet
<1>5. CASE HandleUser(s)
  BY <1>5 DEF HandleUser
<1>6. CASE CallDatastore(s)
  BY <1>6 DEF CallDatastore, Flock!EditAsHolder, Flock!Probe, Flock!TestAndSet,
             Flock!EditInUse, DatastoreFails
<1>7. CASE AccessTested(s)
  BY <1>7 DEF AccessTested, Flock!ProbeDone, Flock!Release, Flock!ReleaseFails
<1>8. CASE ReadConfig(s)
  BY <1>8 DEF ReadConfig, DatastoreFails
<1>9. CASE Stage(s)
  BY <1>9 DEF Stage, DatastoreFails, MarkDirty
<1>10. CASE BeginChain(s)
  BY <1>10 DEF BeginChain
<1>11. CASE HookPackages(s)
  BY <1>11 DEF HookPackages, Takes
<1>12. CASE HookCleanup(s)
  BY <1>12 DEF HookCleanup, Takes
<1>13. CASE HookRollback(s)
  BY <1>13 DEF HookRollback, Takes
<1>14. CASE HookInvalidate(s)
  BY <1>14 DEF HookInvalidate, Takes
<1>15. CASE StoreConfig(s)
  BY <1>15 DEF StoreConfig, PackageDone
<1>16. CASE ReloadDaemon(s)
  BY <1>16 DEF ReloadDaemon, PackageDone
<1>17. CASE ReloadFails(s)
  BY <1>17 DEF ReloadFails
<1>18. CASE Reply(s)
  BY <1>18 DEF Reply
<1>19. CASE Connect(s)
  BY <1>19 DEF Connect, Flock!Open
<1>20. CASE Disconnect(s)
  BY <1>20 DEF Disconnect, Flock!Exit
<1>21. QED
  BY <1>1, <1>2, <1>3, <1>4, <1>5, <1>6, <1>7, <1>8, <1>9, <1>10, <1>11, <1>12, <1>13, <1>14, <1>15,
     <1>16, <1>17, <1>18, <1>19, <1>20 DEF Step, Work

(* The ranges of the data are kept by every step.                          *)
LEMMA DataStep ==
  ASSUME Base, NEW s \in Sessions, Step(s)
  PROVE  DataTypes'
<1> USE DEF Base, DataTypes, lockVars, fileVars, rpcVars, txnVars, chainVars, historyVars,
            Goto, SetCursor
<1> USE FreshFacts
<1>1. CASE Receive(s)
  BY <1>1 DEF Receive
<1>2. CASE HandleLock(s)
  BY <1>2 DEF HandleLock
<1>3. CASE HandleUnlock(s)
  BY <1>3 DEF HandleUnlock
<1>4. CASE HandleGet(s)
  BY <1>4 DEF HandleGet, WellFormed
<1>5. CASE HandleUser(s)
  <2>1. At(s, "user") => Load(cursor[s], disk, req[s].cfg) \in Cursors
                           /\ WellFormed(Load(cursor[s], disk, req[s].cfg))
    <3>1. At(s, "user") => req[s].cfg \in Configs
      BY RequestsAssumption DEF Phase, ControlTypes, NoRequest
    <3>2. QED
      BY <3>1, LoadFacts DEF WellFormed
  <2>2. QED
    BY <1>5, <2>1 DEF HandleUser, WellFormed
<1>6. CASE CallDatastore(s)
  BY <1>6 DEF CallDatastore, DatastoreFails
<1>7. CASE AccessTested(s)
  BY <1>7 DEF AccessTested
<1>8. CASE ReadConfig(s)
  <2>1. View(cursor[s], disk, EditAt(s).opt) \in Values \union {Absent}
    BY <1>8, EditFacts, ViewFacts DEF ReadConfig, At
  <2>2. QED
    BY <1>8, <2>1 DEF ReadConfig, DatastoreFails, WellFormed
<1>9. CASE Stage(s)
  <2> DEFINE set == SetOption(cursor[s], disk, EditAt(s).opt, Target(EditAt(s)))
  <2>1. /\ WellFormed(set) /\ set \in Cursors /\ ConfigOf[EditAt(s).opt] \in Configs
    BY <1>9, EditFacts, SetFacts DEF Stage, At, WellFormed
  <2> HIDE DEF set
  <2>2. cursor' = [cursor EXCEPT ![s] = set] \/ UNCHANGED cursor
    BY <1>9 DEF Stage, set
  <2>3. cursor' \in [Sessions -> Cursors] /\ \A t \in Sessions : WellFormed(cursor'[t])
    BY <2>1, <2>2
  <2>4. dirty' = [dirty EXCEPT ![s] = dirty[s] \union {ConfigOf[EditAt(s).opt]}] \/ UNCHANGED dirty
    BY <1>9 DEF Stage, MarkDirty
  <2>5. dirty' \in [Sessions -> SUBSET Configs]
    BY <2>1, <2>4
  <2>6. failed' \in [Sessions -> BOOLEAN]
    BY <1>9 DEF Stage, DatastoreFails
  <2>7. QED
    BY <1>9, <2>3, <2>5, <2>6 DEF Stage
<1>10. CASE BeginChain(s)
  BY <1>10 DEF BeginChain
<1>11. CASE HookPackages(s)
  BY <1>11 DEF HookPackages, Takes
<1>12. CASE HookCleanup(s)
  BY <1>12 DEF HookCleanup, Takes
<1>13. CASE HookRollback(s)
  BY <1>13 DEF HookRollback, Takes, WellFormed
<1>14. CASE HookInvalidate(s)
  BY <1>14 DEF HookInvalidate, Takes
<1>15. CASE StoreConfig(s)
  <2> PICK c \in pending[s] : /\ PackageDone(s, c) /\ disk' = Stored(s, c)
                              /\ SetCursor(s, AfterCommit(cursor[s], disk, c))
    BY <1>15 DEF StoreConfig
  <2> DEFINE after == AfterCommit(cursor[s], disk, c)
  <2>1. WellFormed(after) /\ after \in Cursors /\ disk' \in Contents
    BY AfterCommitFacts, MergedFacts DEF Stored, WellFormed
  <2> HIDE DEF after
  <2>2. cursor' = [cursor EXCEPT ![s] = after]
    BY DEF after
  <2>3. cursor' \in [Sessions -> Cursors] /\ \A t \in Sessions : WellFormed(cursor'[t])
    BY <2>1, <2>2
  <2>4. QED
    BY <1>15, <2>1, <2>3 DEF StoreConfig, PackageDone
<1>16. CASE ReloadDaemon(s)
  BY <1>16 DEF ReloadDaemon, PackageDone, Contents
<1>17. CASE ReloadFails(s)
  BY <1>17 DEF ReloadFails
<1>18. CASE Reply(s)
  BY <1>18 DEF Reply
<1>19. CASE Connect(s)
  BY <1>19 DEF Connect
<1>20. CASE Disconnect(s)
  BY <1>20 DEF Disconnect, WellFormed
<1>21. QED
  BY <1>1, <1>2, <1>3, <1>4, <1>5, <1>6, <1>7, <1>8, <1>9, <1>10, <1>11, <1>12, <1>13, <1>14, <1>15,
     <1>16, <1>17, <1>18, <1>19, <1>20 DEF Step, Work

(* So are those of what steers the processes.                              *)
LEMMA ControlStep ==
  ASSUME Base, NEW s \in Sessions, Step(s)
  PROVE  ControlTypes'
<1> USE DEF Base, ControlTypes, lockVars, fileVars, rpcVars, txnVars, chainVars, historyVars,
            Goto, Flock!Tell, Places, Flock!Answers
<1>1. CASE Receive(s)
  <2>1. \A r \in Requests : /\ Called(r) \in SUBSET Datastores
                            /\ r.op \in {"lock", "unlock", "get", "user", "edit"}
    BY RequestsAssumption DEF Called
  <2>2. QED
    BY <1>1, <2>1 DEF Receive, IsEdit
<1>2. CASE HandleLock(s)
  BY <1>2 DEF HandleLock, Flock!Lock
<1>3. CASE HandleUnlock(s)
  BY <1>3 DEF HandleUnlock, Flock!Unlock
<1>4. CASE HandleGet(s)
  <2>1. \A S : LET T == S \union {Hook("invalidate_cache", 0)}
               IN  T \union {Hook("invalidate_cache", 0)} = T
    OBVIOUS
  <2>2. WithInvalidation(WithInvalidation(DefaultHooks)) = WithInvalidation(DefaultHooks)
    BY <2>1 DEF WithInvalidation
  <2>3. \A h \in {DefaultHooks, WithInvalidation(DefaultHooks)} :
          WithInvalidation(h) = WithInvalidation(DefaultHooks)
    BY <2>2
  <2>4. QED
    BY <1>4, <2>3 DEF HandleGet
<1>5. CASE HandleUser(s)
  BY <1>5 DEF HandleUser
<1>6. CASE CallDatastore(s)
  BY <1>6 DEF CallDatastore, Flock!EditAsHolder, Flock!Probe, Flock!EditInUse, DatastoreFails
<1>7. CASE AccessTested(s)
  BY <1>7 DEF AccessTested, Flock!ProbeDone
<1>8. CASE ReadConfig(s)
  BY <1>8 DEF ReadConfig, DatastoreFails
<1>9. CASE Stage(s)
  BY <1>9 DEF Stage, DatastoreFails
<1>10. CASE BeginChain(s)
  <2>1. hooks[s].failure \in SUBSET Hooks /\ hooks[s].success \in SUBSET Hooks
    BY DEF DefaultHooks, WithInvalidation, SuccessHooks, FailureHooks, Hook, Hooks, Acts
  <2>2. QED
    BY <1>10, <2>1 DEF BeginChain
<1>11. CASE HookPackages(s)
  BY <1>11 DEF HookPackages, Takes
<1>12. CASE HookCleanup(s)
  BY <1>12 DEF HookCleanup, Takes
<1>13. CASE HookRollback(s)
  BY <1>13 DEF HookRollback, Takes
<1>14. CASE HookInvalidate(s)
  BY <1>14 DEF HookInvalidate, Takes
<1>15. CASE StoreConfig(s)
  <2>1. Called(req[s]) \subseteq Datastores
    BY RequestFacts
  <2>2. QED
    BY <1>15, <2>1 DEF StoreConfig, PackageDone, DataTypes
<1>16. CASE ReloadDaemon(s)
  BY <1>16 DEF ReloadDaemon, PackageDone
<1>17. CASE ReloadFails(s)
  BY <1>17 DEF ReloadFails
<1>18. CASE Reply(s)
  BY <1>18 DEF Reply
<1>19. CASE Connect(s)
  BY <1>19 DEF Connect, Flock!Open
<1>20. CASE Disconnect(s)
  BY <1>20 DEF Disconnect, Flock!Exit
<1>21. QED
  BY <1>1, <1>2, <1>3, <1>4, <1>5, <1>6, <1>7, <1>8, <1>9, <1>10, <1>11, <1>12, <1>13, <1>14, <1>15,
     <1>16, <1>17, <1>18, <1>19, <1>20 DEF Step, Work

(* No step of the server lets the flock and the processes' flags disagree: *)
(* the argument of NuciLock's invariant, for the steps the server takes.   *)
LEMMA LockStep ==
  ASSUME Base, NEW s \in Sessions, Step(s)
  PROVE  LockInv'
<1> USE SessionsAssumption DEF Base, LockInv, Flock!LockCoherent, lockVars
<1>1. CASE Receive(s)
  BY <1>1 DEF Receive
<1>2. CASE HandleLock(s)
  BY <1>2 DEF HandleLock, Flock!Lock, Flock!TestAndSet, Flock!CanTake, Flock!Waits
<1>3. CASE HandleUnlock(s)
  BY <1>3 DEF HandleUnlock, Flock!Unlock, Flock!Release, Flock!ReleaseFails, Flock!Waits
<1>4. CASE HandleGet(s)
  BY <1>4 DEF HandleGet
<1>5. CASE HandleUser(s)
  BY <1>5 DEF HandleUser
<1>6. CASE CallDatastore(s)
  BY <1>6 DEF CallDatastore, Flock!EditAsHolder, Flock!Probe, Flock!EditInUse, Flock!TestAndSet,
     Flock!CanTake, Flock!Waits
<1>7. CASE AccessTested(s)
  BY <1>7 DEF AccessTested, Flock!ProbeDone, Flock!Release, Flock!ReleaseFails
<1>8. CASE ReadConfig(s)
  BY <1>8 DEF ReadConfig
<1>9. CASE Stage(s)
  BY <1>9 DEF Stage
<1>10. CASE BeginChain(s)
  BY <1>10 DEF BeginChain
<1>11. CASE HookPackages(s)
  BY <1>11 DEF HookPackages, Takes
<1>12. CASE HookCleanup(s)
  BY <1>12 DEF HookCleanup, Takes
<1>13. CASE HookRollback(s)
  BY <1>13 DEF HookRollback, Takes
<1>14. CASE HookInvalidate(s)
  BY <1>14 DEF HookInvalidate, Takes
<1>15. CASE StoreConfig(s)
  BY <1>15 DEF StoreConfig
<1>16. CASE ReloadDaemon(s)
  BY <1>16 DEF ReloadDaemon
<1>17. CASE ReloadFails(s)
  BY <1>17 DEF ReloadFails
<1>18. CASE Reply(s)
  BY <1>18 DEF Reply
<1>19. CASE Connect(s)
  BY <1>19 DEF Connect, Flock!Open, rpcVars
<1>20. CASE Disconnect(s)
  BY <1>20 DEF Disconnect, Flock!Exit, Flock!Orphaned
<1>21. QED
  BY <1>1, <1>2, <1>3, <1>4, <1>5, <1>6, <1>7, <1>8, <1>9, <1>10, <1>11, <1>12, <1>13, <1>14, <1>15,
     <1>16, <1>17, <1>18, <1>19, <1>20 DEF Step, Work

(* Every step takes the process from a place of the RPC it has to another, *)
(* and the RPC is dropped only with the process.                           *)
LEMMA PhaseStep ==
  ASSUME Base, NEW s \in Sessions, Step(s), NEW t \in Sessions
  PROVE  Phase(t)'
<1> SUFFICES ASSUME s = t
             PROVE  Phase(t)'
  BY OthersUntouched DEF Base, Untouched, Phase, At
<1> USE DEF Base, DataTypes, ControlTypes, LockInv, Phase, At, Goto, Places, lockVars
<1> HIDE DEF DataTypes
<1>1. CASE Receive(s)
  <2>1. \A r \in Requests : r.op \in {"lock", "unlock", "get", "user", "edit"}
    BY RequestsAssumption
  <2>2. QED
    BY <1>1, <2>1 DEF Receive, Called, IsEdit
<1>2. CASE HandleLock(s)
  BY <1>2 DEF HandleLock, Flock!Lock, Flock!TestAndSet, Flock!CanTake, Flock!Waits
<1>3. CASE HandleUnlock(s)
  BY <1>3 DEF HandleUnlock, Flock!Unlock, Flock!Release, Flock!ReleaseFails, Flock!Waits
<1>4. CASE HandleGet(s)
  BY <1>4 DEF HandleGet
<1>5. CASE HandleUser(s)
  BY <1>5 DEF HandleUser
<1>6. CASE CallDatastore(s)
  BY <1>6 DEF CallDatastore, DatastoreFails, Flock!EditAsHolder, Flock!Probe, Flock!EditInUse,
     Flock!TestAndSet, Flock!CanTake, Flock!Waits
<1>7. CASE AccessTested(s)
  BY <1>7 DEF AccessTested, Flock!ProbeDone, Flock!Release, Flock!ReleaseFails
<1>8. CASE ReadConfig(s)
  BY <1>8 DEF ReadConfig, DatastoreFails
<1>9. CASE Stage(s)
  BY <1>9 DEF Stage, DatastoreFails
<1>10. CASE BeginChain(s)
  BY <1>10 DEF BeginChain
<1>11. CASE HookPackages(s)
  BY <1>11 DEF HookPackages, Takes
<1>12. CASE HookCleanup(s)
  BY <1>12 DEF HookCleanup, Takes
<1>13. CASE HookRollback(s)
  BY <1>13 DEF HookRollback, Takes
<1>14. CASE HookInvalidate(s)
  BY <1>14 DEF HookInvalidate, Takes
<1>15. CASE StoreConfig(s)
  <2>1. At(s, "store_uci") /\ pc'[s] \in {"chain", "store_uci"}
    BY <1>15 DEF StoreConfig, PackageDone
  <2>2. UNCHANGED <<lockVars, req, todo, ds>>
    BY <1>15 DEF StoreConfig
  <2>3. QED
    BY <2>1, <2>2
<1>16. CASE ReloadDaemon(s)
  BY <1>16 DEF ReloadDaemon, PackageDone
<1>17. CASE ReloadFails(s)
  BY <1>17 DEF ReloadFails
<1>18. CASE Reply(s)
  BY <1>18 DEF Reply
<1>19. CASE Connect(s)
  BY <1>19 DEF Connect, Flock!Open, rpcVars
<1>20. CASE Disconnect(s)
  BY <1>20 DEF Disconnect, Flock!Exit, Flock!Orphaned
<1>21. QED
  BY <1>1, <1>2, <1>3, <1>4, <1>5, <1>6, <1>7, <1>8, <1>9, <1>10, <1>11, <1>12, <1>13, <1>14, <1>15,
     <1>16, <1>17, <1>18, <1>19, <1>20 DEF Step, Work

(* A session is past its access test only while it runs, and an edit that  *)
(* goes on under the lock of another was admitted before the grant.        *)
LEMMA AdmittedStep ==
  ASSUME Base, AdmittedInv, NEW s \in Sessions, Step(s)
  PROVE  AdmittedInv'
<1> USE SessionsAssumption
        DEF Base, LockInv, Flock!LockCoherent, AdmittedInv, LockStopsNewEdits, Flock!LockedBy,
            lockVars, historyVars
<1>1. CASE Receive(s)
  BY <1>1 DEF Receive
<1>2. CASE HandleLock(s)
  <2>1. \/ s \notin holding /\ Flock!TestAndSet(s) /\ answer' = [answer EXCEPT ![s] = "granted"]
        \/ UNCHANGED <<owner, holding>> /\ answer' = [answer EXCEPT ![s] = "denied"]
    BY <1>2 DEF HandleLock, Flock!Lock, Flock!Tell
  <2>2. UNCHANGED <<alive, probing, admitted>>
    BY <1>2 DEF HandleLock, Flock!Lock
  <2>3. overlap' = IF answer'[s] = "granted" THEN admitted ELSE overlap
    BY <1>2 DEF HandleLock
  <2>4. CASE answer'[s] = "granted"
    BY <2>2, <2>3, <2>4, LockStep
  <2>5. CASE UNCHANGED <<owner, holding>> /\ answer' = [answer EXCEPT ![s] = "denied"]
    <3>1. answer'[s] = "denied"
      BY <2>5 DEF ControlTypes
    <3>2. UNCHANGED <<owner, alive, probing, admitted, overlap>>
      BY <2>2, <2>3, <2>5, <3>1
    <3>3. QED
      BY <3>2
  <2>6. QED
    BY <2>1, <2>4, <2>5 DEF ControlTypes
<1>3. CASE HandleUnlock(s)
  BY <1>3 DEF HandleUnlock, Flock!Unlock, Flock!Release, Flock!ReleaseFails, Flock!Waits
<1>4. CASE HandleGet(s)
  BY <1>4 DEF HandleGet
<1>5. CASE HandleUser(s)
  BY <1>5 DEF HandleUser
<1>6. CASE CallDatastore(s)
  BY <1>6 DEF CallDatastore, Flock!EditAsHolder, Flock!Probe, Flock!EditInUse, Flock!TestAndSet,
     Flock!CanTake, Flock!Waits
<1>7. CASE AccessTested(s)
  BY <1>7 DEF AccessTested, Flock!ProbeDone, Flock!Release, Flock!ReleaseFails
<1>8. CASE ReadConfig(s)
  BY <1>8 DEF ReadConfig
<1>9. CASE Stage(s)
  BY <1>9 DEF Stage
<1>10. CASE BeginChain(s)
  BY <1>10 DEF BeginChain
<1>11. CASE HookPackages(s)
  BY <1>11 DEF HookPackages, Takes
<1>12. CASE HookCleanup(s)
  BY <1>12 DEF HookCleanup, Takes
<1>13. CASE HookRollback(s)
  BY <1>13 DEF HookRollback, Takes
<1>14. CASE HookInvalidate(s)
  BY <1>14 DEF HookInvalidate, Takes
<1>15. CASE StoreConfig(s)
  BY <1>15 DEF StoreConfig
<1>16. CASE ReloadDaemon(s)
  BY <1>16 DEF ReloadDaemon
<1>17. CASE ReloadFails(s)
  BY <1>17 DEF ReloadFails
<1>18. CASE Reply(s)
  BY <1>18 DEF Reply
<1>19. CASE Connect(s)
  BY <1>19 DEF Connect, Flock!Open, rpcVars
<1>20. CASE Disconnect(s)
  BY <1>20 DEF Disconnect, Flock!Exit, Flock!Orphaned
<1>21. QED
  BY <1>1, <1>2, <1>3, <1>4, <1>5, <1>6, <1>7, <1>8, <1>9, <1>10, <1>11, <1>12, <1>13, <1>14, <1>15,
     <1>16, <1>17, <1>18, <1>19, <1>20 DEF Step, Work
-----------------------------------------------------------------------------
(* No session, no RPC: the invariant holds at the start.                   *)
LEMMA BaseInit == Init => Base /\ AdmittedInv
<1> SUFFICES ASSUME Init
             PROVE  Base /\ AdmittedInv
  OBVIOUS
<1> USE DEF Init, Flock!Init
<1>1. DataTypes
  <2>1. FreshCursor \in Cursors /\ WellFormed(FreshCursor)
    BY FreshFacts DEF WellFormed
  <2>2. QED
    BY <2>1, DiskAssumption DEF DataTypes
<1>2. ControlTypes
  <2>1. (CHOOSE d \in Datastores : TRUE) \in Datastores
    BY DatastoresAssumption
  <2>2. QED
    BY <2>1 DEF ControlTypes, Places, Flock!Answers
<1>3. LockInv
  BY SessionsAssumption DEF LockInv, Flock!LockCoherent
<1>4. ASSUME NEW s \in Sessions
      PROVE  Phase(s)
  BY DEF Phase, At
<1>5. AdmittedInv
  BY DEF AdmittedInv, LockStopsNewEdits
<1>6. QED
  BY <1>1, <1>2, <1>3, <1>4, <1>5 DEF Base

(* Every step preserves it, whichever session takes it.                    *)
LEMMA BaseStep == Base /\ AdmittedInv /\ [Next]_vars => Base' /\ AdmittedInv'
<1> SUFFICES ASSUME Base, AdmittedInv, [Next]_vars
             PROVE  Base' /\ AdmittedInv'
  OBVIOUS
<1>1. ASSUME NEW s \in Sessions, Step(s)
      PROVE  Base' /\ AdmittedInv'
  <2>1. \A t \in Sessions : Phase(t)'
    BY <1>1, PhaseStep
  <2>2. QED
    BY <1>1, <2>1, DataStep, ControlStep, LockStep, AdmittedStep DEF Base
<1>2. CASE UNCHANGED vars
  BY <1>2 DEF vars, lockVars, fileVars, rpcVars, txnVars, chainVars, historyVars,
    Base, DataTypes, ControlTypes, LockInv, Flock!LockCoherent, Phase, At,
    AdmittedInv, LockStopsNewEdits, Flock!LockedBy
<1>3. QED
  BY <1>1, <1>2 DEF Next, Step

(* The types, the flags of the lock, the places of the processes and the   *)
(* admissions hold together whatever the clients send, in any order, and   *)
(* wherever a process ends.                                                *)
THEOREM ServerInvariant == Spec => [](Base /\ AdmittedInv)
<1>1. QED
  BY BaseInit, BaseStep, PTL DEF Spec

(* The variables keep their types: a probe of the flock is under way       *)
(* exactly where test_access_status is, and only running processes have    *)
(* edits in work (communication.c, nuci_datastore.c).                      *)
THEOREM ServerTypeCorrect == Spec => []TypeOK
<1>1. ASSUME Base, AdmittedInv
      PROVE  TypeOK
  <2>1. ASSUME NEW s \in Sessions
        PROVE  hooks[s].success \subseteq Hooks /\ hooks[s].failure \subseteq Hooks
    <3>1. hooks[s] \in {DefaultHooks, WithInvalidation(DefaultHooks)}
      BY <1>1 DEF Base, ControlTypes
    <3>2. QED
      BY <3>1
         DEF DefaultHooks, WithInvalidation, SuccessHooks, FailureHooks, Hook, Hooks, Acts
  <2>2. QED
    BY <1>1, <2>1 DEF TypeOK, Base, DataTypes, ControlTypes, AdmittedInv, Phase
<1>2. QED
  BY <1>1, ServerInvariant, PTL

(* What nuci_datastore.c believes of the flock stays true between the      *)
(* other steps of the server: edits, chains, replies, sessions that end.   *)
THEOREM ServerLockCoherent == Spec => []Flock!LockCoherent
<1>1. Base => Flock!LockCoherent
  BY DEF Base, LockInv
<1>2. QED
  BY <1>1, ServerInvariant, PTL

(* While a session has the lock no other starts to edit: an edit in work   *)
(* elsewhere had passed test_access_status before the lock was granted,    *)
(* for any number of sessions and datastores.                              *)
THEOREM LockAdmitsNoEdit == Spec => []LockStopsNewEdits
<1>1. AdmittedInv => LockStopsNewEdits
  BY DEF AdmittedInv
<1>2. QED
  BY <1>1, ServerInvariant, PTL
=============================================================================
