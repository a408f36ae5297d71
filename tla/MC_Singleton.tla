---------------------------- MODULE MC_Singleton ----------------------------
EXTENDS Singleton

CONSTANTS t1, t2, t3

MCThreads == {t1, t2, t3}

\* The accessors with double-checked locking.
MCLockedClasses == {"ClientDataManager", "RequestQueue"}

\* An accessor with no lock.
MCUnlockedClasses == {"ClientGarbageCollector"}

MCSymmetry == Permutations(MCThreads)

=============================================================================
