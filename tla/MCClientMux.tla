---------------------------- MODULE MCClientMux -----------------------------
EXTENDS ClientMux
CONSTANTS t1, t2, t3

Use(tasks, kinds, upsets, ids, notices) ==
    [tasks |-> tasks, kinds |-> kinds, upsets |-> upsets, ids |-> ids, pushes |-> notices]

\* Three tasks that may drop their calls; two of which everything may go wrong with;
\* two that drop or time out and then call again.
MCSettings ==
    {Use({t1, t2, t3}, {"plain"}, {"drop"}, 3, 0),
     Use({t1, t2}, {"plain", "progress"}, {"time_out", "drop", "close"}, 2, 1),
     Use({t1, t2}, {"plain"}, {"time_out", "drop"}, 3, 0)}
=============================================================================
