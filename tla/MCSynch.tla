------------------------------- MODULE MCSynch -------------------------------
EXTENDS Synch, TLC

CONSTANTS main, idle0, t1, t2, dev, mon, cond

FourThreads == {main, idle0, t1, t2}

BothSemas == {idle_started, dev}
BothLocks == {tid_lock, mon}
OneCond == {cond}
CondLock == (cond :> mon)

WorkerSymmetry == Permutations({t1, t2})

=============================================================================
