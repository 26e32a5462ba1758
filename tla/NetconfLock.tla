----------------------------- MODULE NetconfLock -----------------------------
(***************************************************************************)
(* What a NETCONF client is promised about <lock>, <unlock> and            *)
(* <edit-config> on the running datastore: one lock for all the sessions,  *)
(* edits only by its holder or while nobody holds it.  The answers say     *)
(* what each client was last told.  A refusal is never justified here: the *)
(* flock probe of nuci_datastore.c may refuse an operation no lock stands  *)
(* against, which run "spurious_refusal" shows on the detailed model.      *)
(***************************************************************************)

CONSTANTS Sessions,     \* the NETCONF sessions, one nuci process each
          None,         \* "no session"
          Leaky         \* sessions that may be left with the lock by an edit

VARIABLES clients,      \* sessions that are connected
          lockedBy,     \* the session that has the lock, or None
          answer        \* what each session was last answered

absVars == <<clients, lockedBy, answer>>

Tell(s, a) == answer' = [answer EXCEPT ![s] = a]

Init ==
  /\ clients = {}
  /\ lockedBy = None
  /\ answer = [s \in Sessions |-> "none"]

(* A session connects.  A session that left the lock behind can not.       *)
Join(s) ==
  /\ s \notin clients
  /\ lockedBy # s
  /\ clients' = clients \union {s}
  /\ UNCHANGED <<lockedBy, answer>>

Grant(s) ==
  /\ s \in clients
  /\ lockedBy = None
  /\ lockedBy' = s
  /\ Tell(s, "granted")
  /\ UNCHANGED clients

Free(s) ==
  /\ s \in clients
  /\ lockedBy = s
  /\ lockedBy' = None
  /\ Tell(s, "released")
  /\ UNCHANGED clients

(* An edit goes ahead: the lock is free or the session's own.              *)
Admit(s) ==
  /\ s \in clients
  /\ lockedBy \in {None, s}
  /\ lockedBy' \in {lockedBy} \union (IF s \in Leaky THEN {s} ELSE {})
  /\ Tell(s, "admitted")
  /\ UNCHANGED clients

(* Any of the three operations is refused.                                 *)
Refuse(s) ==
  /\ s \in clients
  /\ \E a \in {"denied", "notReleased", "inUse"} : Tell(s, a)
  /\ UNCHANGED <<clients, lockedBy>>

(* The session ends, and its lock with it or a little later (Expire).  A   *)
(* process killed in the middle of an edit's access test may even leave a  *)
(* lock behind that no client asked for, until it expires as well.         *)
Leave(s) ==
  /\ s \in clients
  /\ clients' = clients \ {s}
  /\ \/ lockedBy' = lockedBy
     \/ lockedBy = s /\ lockedBy' = None
     \/ lockedBy = None /\ lockedBy' = s
  /\ Tell(s, "none")

Expire ==
  /\ lockedBy \notin clients
  /\ lockedBy' = None
  /\ UNCHANGED <<clients, answer>>

Next ==
  \/ \E s \in Sessions : Join(s) \/ Grant(s) \/ Free(s) \/ Admit(s) \/ Refuse(s) \/ Leave(s)
  \/ Expire

Spec == Init /\ [][Next]_absVars
=============================================================================
