---------------------------- MODULE MCConnection ----------------------------
EXTENDS Connection, TLC
CONSTANTS t1, t2

Link(link, r1, a1, r2, a2, most, drop) ==
    [link |-> link, request |-> (t1 :> r1 @@ t2 :> r2), answer |-> (t1 :> a1 @@ t2 :> a2),
     pushes |-> most, drop |-> drop]

\* Large answers; large requests, whose writes may be torn; the soft bus; a request
\* over the limit.
MCSettings ==
    {Link("socket", 1, 3, 1, 2, 1, "yes"), Link("socket", 4, 1, 2, 1, 1, "yes"),
     Link("softbus", 3, 3, 2, 2, 1, "yes"), Link("socket", 6, 1, 1, 1, 0, "yes")}
=============================================================================
