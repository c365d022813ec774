---------------------------- MODULE MCFreqLock ----------------------------
(* FreqLock on small instances, and two claims about it that do not hold. *)
EXTENDS FreqLock, TLC

CONSTANTS a, b, c1

TwoLocks == {a, b}
OneLock == {a}
OneClient == {c1}

Symmetry == Permutations(TwoLocks)

\* "Sends a saved lock again after the program starts" (freq_lock.rs, start()): what the
\* restore task sends is a lock that is still saved.
RestoreSendsSaved == [][BootSend => boot.entries = saved]_vars

\* "`previous` is what the module had before" (freq_lock.rs, lock()): the lock the guard
\* would put back is the one the new lock replaces, unless the module forgot it.
\* Stated, and part of no run: TLC finds it violated (README, section 4).
PreviousIsInForce ==
  [][\A c \in Clients :
       LockSend(c) => client[c].previous = modem \/ modem = NoLock]_vars
=============================================================================
