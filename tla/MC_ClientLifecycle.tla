------------------------- MODULE MC_ClientLifecycle -------------------------
EXTENDS ClientLifecycle, TLC

CONSTANTS p1, p2, t1, t2, t3

MCPids == {p1, p2}

MCTids == {t1, t2, t3}

\* p1 has two threads, p2 one.
MCThreadsOf == (p1 :> {t1, t2}) @@ (p2 :> {t3})

=============================================================================
