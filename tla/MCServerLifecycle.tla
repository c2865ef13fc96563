------------------------- MODULE MCServerLifecycle --------------------------
EXTENDS ServerLifecycle
CONSTANTS d1, d2, c1, c2, c3

World(daemons, conns, max, grace, asks, mishaps) ==
    [daemons |-> daemons, conns |-> conns, max |-> max, grace |-> grace, asks |-> asks,
     mishaps |-> mishaps]

\* More connections than permits; one session stuck and another not, with and without
\* an end of the grace period; a daemon that fails or is killed; one daemon after or
\* beside another.
MCSettings ==
    {World({d1}, {c1, c2, c3}, 2, "elapses", 0, {}),
     World({d1}, {c1, c2}, 2, "elapses", 1, {"deaf"}),
     World({d1}, {c1, c2}, 2, "endless", 1, {}),
     World({d1}, {c1, c2}, 2, "endless", 1, {"deaf", "kill"}),
     World({d1}, {c1, c2}, 1, "elapses", 1, {"deaf", "accept", "kill"}),
     World({d1, d2}, {c1, c2}, 1, "elapses", 0, {"kill", "accept"})}
=============================================================================
