------------------------------ MODULE MCNuciLock ------------------------------
(* NuciLock with three sessions; the kernel may refuse to unlock for one.  *)
EXTENDS NuciLock, TLC

CONSTANTS s1, s2, s3

MCSessions == {s1, s2, s3}
MCFailingUnlock == {s1}
=============================================================================
