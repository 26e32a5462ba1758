---------------------------- MODULE NuciLockProofs ----------------------------
(***************************************************************************)
(* Proofs about NuciLock for any set of sessions: the flock and the        *)
(* processes' flags never disagree, and the protocol of flocks, probes,    *)
(* inherited files and crashes implements one shared NETCONF lock.         *)
(*                                                                         *)
(* LockInv is inductive.  LockCoherent alone is not: that a new process    *)
(* starts without the flock needs NoLockWithoutFile, and that the end of   *)
(* a probe does not drop a granted lock needs GrantStands and the          *)
(* inclusions probing, granted \subseteq ... of TypeOK.                    *)
(***************************************************************************)
EXTENDS NuciLock, TLAPS

LockInv == TypeOK /\ LockCoherent /\ GrantStands /\ NoLockWithoutFile

-----------------------------------------------------------------------------
(* What the invariant says of the kernel's owner, used in the steps below. *)

(* A process that holds the lock owns the flock, so no other holds it.     *)
LEMMA HolderOwns ==
  ASSUME LockInv, NEW s \in Sessions, s \in holding
  PROVE  owner = s /\ s \in alive
BY DEF LockInv, TypeOK, LockCoherent

(* A grant belongs to a process that holds the lock outside of a probe.    *)
LEMMA GrantedHolds ==
  ASSUME LockInv, NEW s \in Sessions, s \in granted
  PROVE  owner = s /\ s \in holding /\ s \notin probing
BY DEF LockInv, TypeOK, LockCoherent, GrantStands

(* While one process holds the lock, nobody else was granted it.           *)
LEMMA HolderExcludes ==
  ASSUME LockInv, NEW s \in Sessions, s \in holding
  PROVE  granted \subseteq {s}
BY HolderOwns, GrantedHolds DEF LockInv, TypeOK

-----------------------------------------------------------------------------
(* Every step of the system preserves all four parts of the invariant.     *)
LEMMA LockInvStep == LockInv /\ [Next]_lockVars => LockInv'
<1> SUFFICES ASSUME LockInv, [Next]_lockVars
             PROVE  LockInv'
  OBVIOUS
<1> USE NoneAssumption
<1> USE DEF LockInv, TypeOK, LockCoherent, GrantStands, NoLockWithoutFile
<1>1. ASSUME NEW s \in Sessions, Lock(s)
      PROVE  LockInv'
  BY <1>1, GrantedHolds DEF Lock, TestAndSet, CanTake, Waits, Tell, Answers
<1>2. ASSUME NEW s \in Sessions, Unlock(s)
      PROVE  LockInv'
  <2>1. CASE s \in holding /\ Release(s) /\ granted' = granted \ {s}
    <3>1. \A t \in granted : t = s
      BY <2>1, HolderExcludes DEF TypeOK
    <3>2. granted' = {}
      BY <2>1, <3>1
    <3>3. QED
      BY <1>2, <2>1, <3>2, HolderOwns DEF Unlock, Release, Waits, Tell, Answers
  <2>2. CASE UNCHANGED <<owner, holding, granted>>
    BY <1>2, <2>2 DEF Unlock, Tell, Answers
  <2>3. QED
    BY <1>2, <2>1, <2>2 DEF Unlock, ReleaseFails
<1>3. ASSUME NEW s \in Sessions, EditAsHolder(s) \/ EditInUse(s)
      PROVE  LockInv'
  BY <1>3 DEF EditAsHolder, EditInUse, Tell, Answers
<1>4. ASSUME NEW s \in Sessions, Probe(s)
      PROVE  LockInv'
  BY <1>4, GrantedHolds DEF Probe, TestAndSet, CanTake, Waits
<1>5. ASSUME NEW s \in Sessions, ProbeDone(s)
      PROVE  LockInv'
  <2>1. granted = {}
    BY <1>5, HolderExcludes, GrantedHolds DEF ProbeDone
  <2>2. CASE Release(s)
    BY <1>5, <2>1, <2>2, HolderOwns DEF ProbeDone, Release, Tell, Answers
  <2>3. CASE ReleaseFails(s)
    BY <1>5, <2>1, <2>3 DEF ProbeDone, ReleaseFails, Tell, Answers
  <2>4. QED
    BY <1>5, <2>2, <2>3 DEF ProbeDone
<1>6. ASSUME NEW s \in Sessions, Open(s)
      PROVE  LockInv'
  <2>1. owner # s
    BY <1>6 DEF Open
  <2>2. QED
    BY <1>6, <2>1 DEF Open
<1>7. ASSUME NEW s \in Sessions, Spawn(s)
      PROVE  LockInv'
  BY <1>7 DEF Spawn, Waits
<1>8. ASSUME NEW s \in Sessions, HeirExits(s)
      PROVE  LockInv'
  <2>1. owner' = owner \/ (owner = s /\ s \notin alive /\ owner' = None)
    BY <1>8 DEF HeirExits, Orphaned
  <2>2. QED
    BY <1>8, <2>1 DEF HeirExits, Orphaned
<1>9. ASSUME NEW s \in Sessions, Exit(s)
      PROVE  LockInv'
  <2>1. owner' = owner \/ (owner = s /\ owner' = None)
    BY <1>9 DEF Exit, Orphaned
  <2>2. QED
    BY <1>9, <2>1 DEF Exit, Orphaned, Tell, Answers
<1>10. CASE UNCHANGED lockVars
  BY <1>10 DEF lockVars
<1>11. QED
  BY <1>1, <1>2, <1>3, <1>4, <1>5, <1>6, <1>7, <1>8, <1>9, <1>10 DEF Next, Operate

(* The four parts hold together in every state that sessions, background   *)
(* commands and crashes can reach.                                         *)
THEOREM LockInvariant == Spec => []LockInv
<1>1. Init => LockInv
  BY NoneAssumption
     DEF Init, LockInv, TypeOK, LockCoherent, GrantStands, NoLockWithoutFile, Answers
<1>2. QED
  BY <1>1, LockInvStep, PTL DEF Spec

(* The variables keep their types: holding_lock and a probe only ever      *)
(* belong to a running process of nuci_datastore.c.                        *)
THEOREM TypeCorrect == Spec => []TypeOK
<1>1. LockInv => TypeOK
  BY DEF LockInv
<1>2. QED
  BY <1>1, LockInvariant, PTL

(* A process believes it has the lock exactly when the kernel gave it the  *)
(* flock, for any sessions and any of them whose unlock may fail: what     *)
(* nuci_datastore.c:199-200 relies on instead of writing to the lock file. *)
THEOREM Coherent == Spec => []LockCoherent
<1>1. LockInv => LockCoherent
  BY DEF LockInv
<1>2. QED
  BY <1>1, LockInvariant, PTL

(* A granted <lock> is not lost before <unlock> or the session's end, and  *)
(* at most one session has been granted it (nuci_ds_lock, nuci_ds_unlock). *)
THEOREM GrantIsExclusive ==
  Spec => [](GrantStands /\ \A s, t \in granted : s = t)
<1>1. LockInv => GrantStands /\ \A s, t \in granted : s = t
  BY GrantedHolds DEF LockInv, TypeOK, GrantStands
<1>2. QED
  BY <1>1, LockInvariant, PTL

(* A flock never outlives the last process that has the file open: neither *)
(* a crash in the middle of a probe nor a background command leaves it to  *)
(* nobody (nuci_datastore.c opens the file without O_CLOEXEC).             *)
THEOREM LockHasProcess == Spec => []NoLockWithoutFile
<1>1. LockInv => NoLockWithoutFile
  BY DEF LockInv
<1>2. QED
  BY <1>1, LockInvariant, PTL

-----------------------------------------------------------------------------
(* The flock protocol implements NetconfLock: the refinement mapping hides *)
(* the flock that a probe has for a moment.                                *)

(* No session, no lock: the initial states are initial states of the lock. *)
LEMMA ImplInit == Init => Abstract!Init
BY DEF Init, Abstract!Init, LockedBy

(* Every step of the processes is one step of the lock or none.            *)
LEMMA ImplStep ==
  LockInv /\ [Next]_lockVars => [Abstract!Next]_Abstract!absVars
<1> SUFFICES ASSUME LockInv, [Next]_lockVars
             PROVE  [Abstract!Next]_Abstract!absVars
  OBVIOUS
<1> USE NoneAssumption
<1> USE DEF LockInv, TypeOK, LockCoherent, LockedBy, Tell, Abstract!Tell, Abstract!absVars
<1>1. ASSUME NEW s \in Sessions, Lock(s)
      PROVE  Abstract!Grant(s) \/ Abstract!Refuse(s)
  BY <1>1 DEF Lock, TestAndSet, CanTake, Waits, Abstract!Grant, Abstract!Refuse
<1>2. ASSUME NEW s \in Sessions, Unlock(s)
      PROVE  Abstract!Free(s) \/ Abstract!Refuse(s)
  BY <1>2, HolderOwns
     DEF Unlock, Release, ReleaseFails, Waits, Abstract!Free, Abstract!Refuse
<1>3. ASSUME NEW s \in Sessions, EditAsHolder(s)
      PROVE  Abstract!Admit(s)
  BY <1>3 DEF EditAsHolder, Waits, Abstract!Admit
<1>4. ASSUME NEW s \in Sessions, EditInUse(s)
      PROVE  Abstract!Refuse(s)
  BY <1>4 DEF EditInUse, Waits, Abstract!Refuse
<1>5. ASSUME NEW s \in Sessions, Probe(s)
      PROVE  UNCHANGED Abstract!absVars
  BY <1>5 DEF Probe, TestAndSet, CanTake, Waits
<1>6. ASSUME NEW s \in Sessions, ProbeDone(s)
      PROVE  Abstract!Admit(s)
  <2>1. owner = s /\ LockedBy = None /\ s \in alive
    BY <1>6, HolderOwns DEF ProbeDone
  <2>2. CASE Release(s)
    BY <1>6, <2>1, <2>2 DEF ProbeDone, Release, Abstract!Admit
  <2>3. CASE ReleaseFails(s)
    BY <1>6, <2>1, <2>3 DEF ProbeDone, ReleaseFails, Abstract!Admit
  <2>4. QED
    BY <1>6, <2>2, <2>3 DEF ProbeDone
<1>7. ASSUME NEW s \in Sessions, Open(s)
      PROVE  Abstract!Join(s)
  BY <1>7 DEF Open, NoLockWithoutFile, Abstract!Join
<1>8. ASSUME NEW s \in Sessions, Spawn(s)
      PROVE  UNCHANGED Abstract!absVars
  BY <1>8 DEF Spawn
<1>9. ASSUME NEW s \in Sessions, HeirExits(s)
      PROVE  Abstract!Expire \/ UNCHANGED Abstract!absVars
  BY <1>9 DEF HeirExits, Orphaned, Abstract!Expire
<1>10. ASSUME NEW s \in Sessions, Exit(s)
       PROVE  Abstract!Leave(s)
  <2>1. LockedBy' = LockedBy \/ (LockedBy = s /\ LockedBy' = None)
          \/ (LockedBy = None /\ LockedBy' = s)
    BY <1>10 DEF Exit, Orphaned
  <2>2. QED
    BY <1>10, <2>1 DEF Exit, Abstract!Leave
<1>11. CASE UNCHANGED lockVars
  BY <1>11 DEF lockVars
<1>12. QED
  BY <1>1, <1>2, <1>3, <1>4, <1>5, <1>6, <1>7, <1>8, <1>9, <1>10, <1>11
     DEF Next, Operate, Abstract!Next

(* For any sessions, also if the kernel refuses to unlock for some: every  *)
(* behaviour of the processes, probes, crashes and inherited files is one  *)
(* of a single lock that only admits edits when it is free or the caller's.*)
THEOREM Refinement == Spec => RefinesNetconfLock
<1>1. QED
  BY ImplInit, ImplStep, LockInvariant, PTL DEF Spec, RefinesNetconfLock, Abstract!Spec
=============================================================================
