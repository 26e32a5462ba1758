------------------------------- MODULE NuciLock -------------------------------
(***************************************************************************)
(* The lock of the running datastore, src/src/nuci_datastore.c.            *)
(*                                                                         *)
(* Every NETCONF session is a nuci process of its own.  Each opens the     *)
(* same lock file (lock_info_create) and the NETCONF lock is the kernel's  *)
(* flock on it.  A flock belongs to the open file description, not to the  *)
(* process: commands that nuci starts inherit the descriptor (nothing sets *)
(* FD_CLOEXEC), so the lock of a session that ended stays until the last   *)
(* background command it left behind ends too.                             *)
(*                                                                         *)
(* An edit does not keep the lock.  test_access_status takes it for a      *)
(* moment to find out whether anybody else has it, and lets it go: two     *)
(* system calls with other processes in between.                           *)
(***************************************************************************)
EXTENDS FiniteSets

CONSTANTS Sessions,       \* the sessions, one process and one open file each
          None,           \* "nobody" as the owner of the flock
          FailingUnlock   \* sessions for which flock(LOCK_UN) may fail

ASSUME NoneAssumption == None \notin Sessions
ASSUME FailingAssumption == FailingUnlock \subseteq Sessions

VARIABLES
  owner,     \* session whose open lock file has the flock, or None (kernel)
  alive,     \* sessions whose nuci process runs
  heirs,     \* sessions with a background command that inherited the file
  holding,   \* sessions with lock_info->holding_lock set
  probing,   \* sessions between the two flocks of test_access_status
  granted,   \* sessions whose client was told that it has the lock
  answer     \* what the client of each session was last told

lockVars == <<owner, alive, heirs, holding, probing, granted, answer>>

Answers == {"none", "granted", "denied", "released", "notReleased", "admitted", "inUse"}

Tell(s, a) == answer' = [answer EXCEPT ![s] = a]

(* The session's process waits in its loop for the next message.           *)
Waits(s) == s \in alive \ probing

-----------------------------------------------------------------------------
(* The operations on the file.                                             *)

(* flock(LOCK_EX | LOCK_NB) succeeds.                                      *)
CanTake(s) == owner \in {None, s}

(* Faulty: holding_lock is not set.                                        *)
Mutant_TestAndSet(s) == CanTake(s) /\ owner' = s /\ UNCHANGED holding

TestAndSet(s) ==
  /\ CanTake(s)
  /\ owner' = s
  /\ holding' = holding \union {s}

(* flock(LOCK_UN): holding_lock is cleared only when the kernel agreed.    *)
Release(s) ==
  /\ owner' = None
  /\ holding' = holding \ {s}

(* Faulty: holding_lock is cleared although the unlock failed.             *)
Mutant_ReleaseFails(s) ==
  /\ s \in FailingUnlock
  /\ holding' = holding \ {s}
  /\ UNCHANGED owner

ReleaseFails(s) ==
  /\ s \in FailingUnlock
  /\ UNCHANGED <<owner, holding>>

-----------------------------------------------------------------------------
(* <lock> and <unlock>, nuci_ds_lock and nuci_ds_unlock of the datastore   *)
(* that is the lock master.                                                *)

Lock(s) ==
  /\ Waits(s)
  /\ \/ /\ s \notin holding
        /\ TestAndSet(s)
        /\ granted' = granted \union {s}
        /\ Tell(s, "granted")
     \/ /\ s \in holding \/ ~CanTake(s)
        /\ UNCHANGED <<owner, holding, granted>>
        /\ Tell(s, "denied")
  /\ UNCHANGED <<alive, heirs, probing>>

Unlock(s) ==
  /\ Waits(s)
  /\ \/ /\ s \in holding
        /\ Release(s)
        /\ granted' = granted \ {s}
        /\ Tell(s, "released")
     \/ /\ s \in holding
        /\ ReleaseFails(s)
        /\ UNCHANGED granted
        /\ Tell(s, "notReleased")
     \/ /\ s \notin holding
        /\ UNCHANGED <<owner, holding, granted>>
        /\ Tell(s, "notReleased")
  /\ UNCHANGED <<alive, heirs, probing>>

-----------------------------------------------------------------------------
(* The access test of <edit-config>, test_access_status.                   *)

EditAsHolder(s) ==
  /\ Waits(s)
  /\ s \in holding
  /\ Tell(s, "admitted")
  /\ UNCHANGED <<owner, alive, heirs, holding, probing, granted>>

(* Faulty: the access test does not look at holding_lock first.            *)
Mutant_Probe(s) ==
  /\ Waits(s)
  /\ TestAndSet(s)
  /\ probing' = probing \union {s}
  /\ UNCHANGED <<alive, heirs, granted, answer>>

Probe(s) ==
  /\ Waits(s)
  /\ s \notin holding
  /\ TestAndSet(s)
  /\ probing' = probing \union {s}
  /\ UNCHANGED <<alive, heirs, granted, answer>>

EditInUse(s) ==
  /\ Waits(s)
  /\ s \notin holding
  /\ ~CanTake(s)
  /\ Tell(s, "inUse")
  /\ UNCHANGED <<owner, alive, heirs, holding, probing, granted>>

(* The result of release_lock is not looked at: the edit goes ahead.       *)
ProbeDone(s) ==
  /\ s \in probing
  /\ Release(s) \/ ReleaseFails(s)
  /\ probing' = probing \ {s}
  /\ Tell(s, "admitted")
  /\ UNCHANGED <<alive, heirs, granted>>

-----------------------------------------------------------------------------
(* Processes.                                                              *)

(* A new session: a process opens the lock file anew.                      *)
Open(s) ==
  /\ s \notin alive \union heirs
  /\ alive' = alive \union {s}
  /\ UNCHANGED <<owner, heirs, holding, probing, granted, answer>>

(* run_command of a command that leaves a process in the background (the   *)
(* CA generator's do_background): fork copies the descriptor.              *)
Spawn(s) ==
  /\ Waits(s)
  /\ heirs' = heirs \union {s}
  /\ UNCHANGED <<owner, alive, holding, probing, granted, answer>>

(* The flock after the processes in files are all that have s's file open. *)
Orphaned(s, files) == IF owner = s /\ s \notin files THEN None ELSE owner

HeirExits(s) ==
  /\ s \in heirs
  /\ heirs' = heirs \ {s}
  /\ owner' = Orphaned(s, alive)
  /\ UNCHANGED <<alive, holding, probing, granted, answer>>

(* Faulty: the lock is a file's existence, which outlives the process.     *)
Mutant_Exit(s) ==
  /\ s \in alive
  /\ alive' = alive \ {s}
  /\ holding' = holding \ {s}
  /\ probing' = probing \ {s}
  /\ granted' = granted \ {s}
  /\ Tell(s, "none")
  /\ UNCHANGED <<owner, heirs>>

(* The process ends at any point: close-session and lock_info_free, the    *)
(* connection breaks, die(), or it is killed.                              *)
Exit(s) ==
  /\ s \in alive
  /\ alive' = alive \ {s}
  /\ owner' = Orphaned(s, heirs)
  /\ holding' = holding \ {s}
  /\ probing' = probing \ {s}
  /\ granted' = granted \ {s}
  /\ Tell(s, "none")
  /\ UNCHANGED heirs

-----------------------------------------------------------------------------
Init ==
  /\ owner = None
  /\ alive = {}
  /\ heirs = {}
  /\ holding = {}
  /\ probing = {}
  /\ granted = {}
  /\ answer = [s \in Sessions |-> "none"]

Operate(s) ==
  \/ Lock(s) \/ Unlock(s)
  \/ EditAsHolder(s) \/ Probe(s) \/ EditInUse(s) \/ ProbeDone(s)

Next == \E s \in Sessions :
  Operate(s) \/ Open(s) \/ Spawn(s) \/ HeirExits(s) \/ Exit(s)

(* What the machine does by itself: background commands end (the CA        *)
(* generator creates a fixed list of files).  Clients owe nothing.         *)
Fairness == \A s \in Sessions : WF_lockVars(HeirExits(s))

Spec == Init /\ [][Next]_lockVars

FairSpec == Spec /\ Fairness

-----------------------------------------------------------------------------
(* The sets and functions the variables range over.                        *)
TypeOK ==
  /\ owner \in Sessions \union {None}
  /\ alive \subseteq Sessions
  /\ heirs \subseteq Sessions
  /\ holding \subseteq alive
  /\ probing \subseteq holding
  /\ granted \subseteq alive
  /\ answer \in [Sessions -> Answers]

(* A running process believes it has the lock exactly when the kernel says *)
(* so: "this specific value is set only if file lock is confirmed by OS"   *)
(* (nuci_datastore.c:200), through probes, failed releases and restarts.   *)
LockCoherent == \A s \in alive : s \in holding <=> owner = s

(* A client that was granted the lock has it, until it is told that it     *)
(* unlocked or its session ends: its own edits, whose access test takes    *)
(* and drops the same flock, other sessions and orphaned files in between. *)
GrantStands == \A s \in granted : owner = s /\ s \notin probing

(* A flock never outlives the last process that has its file open.         *)
NoLockWithoutFile == owner # None => owner \in alive \union heirs

(* The lock that clients can see: a probe holds the file, not the lock.    *)
LockedBy == IF owner \in probing THEN None ELSE owner

Abstract == INSTANCE NetconfLock WITH
  clients <- alive, lockedBy <- LockedBy, Leaky <- FailingUnlock

(* The flock protocol implements one lock shared by all the sessions.      *)
RefinesNetconfLock == Abstract!Spec

(* The lock of a session that ended becomes free: no lock is lost for ever *)
(* with the process that took it.                                          *)
DeadLockFreed == \A s \in Sessions : (owner = s /\ s \notin alive) ~> owner # s

(* "I haven't lock, but datastore is not locked -> proceed" (the comment   *)
(* of test_access_status, nuci_datastore.c:151): an edit is refused only   *)
(* while some session has locked the datastore.                            *)
RefusedOnlyWhenLocked ==
  [][\A s \in Sessions : answer'[s] = "inUse" /\ answer[s] # "inUse" => LockedBy # None]_lockVars
=============================================================================
