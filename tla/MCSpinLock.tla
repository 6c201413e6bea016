----------------------------- MODULE MCSpinLock -----------------------------
(* Small instances of SpinLock for TLC. *)
EXTENDS SpinLockInv

CONSTANTS c1, c2, t1, t2, qlk, lk1

\* A thread may take queue_lk, for the kmt module, while it holds lk1.
MCNested == {<<lk1, qlk>>}
=============================================================================
