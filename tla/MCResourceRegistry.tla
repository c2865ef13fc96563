------------------------- MODULE MCResourceRegistry -------------------------
EXTENDS ResourceRegistry
CONSTANTS u1, u2, w1, w2, s1, s2

World(resources_, writers, sessions, changes_, choices) ==
    [resources |-> resources_, writers |-> writers, sessions |-> sessions, again |-> "no",
     changes |-> changes_, choices |-> choices]

\* Two threads and one client; two clients; more events than the channel holds.
MCSettings ==
    {World({u1}, {w1, w2}, {s1}, 2, 2),
     World({u1}, {w1}, {s1, s2}, 1, 1),
     World({u1}, {w1}, {s1}, 3, 1)}
=============================================================================
