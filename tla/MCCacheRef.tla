----------------------------- MODULE MCCacheRef -----------------------------
EXTENDS CacheRef
CONSTANTS c1, c2, t1, t2, k1, k2

OneClient == [t \in {t1, t2} |-> c1]
TwoClients == [t \in {t1, t2} |-> IF t = t1 THEN c1 ELSE c2]
Both(n) == [t \in {t1, t2} |-> n]
Only(n) == [t \in {t1, t2} |-> IF t = t1 THEN n ELSE 0]
All == {"plain", "keyless"}

\* One caller, whose answers may be slow, where the server or the client or both may have
\* room for one result; two clients; two tasks of one client, whose answers may be slow.
MCSettings ==
    {[conn |-> OneClient, kinds |-> {"plain"}, drops |-> "no", slow |-> slow,
      room |-> room, store |-> store, calls |-> Only(5)] :
         slow \in {"yes", "no"}, room \in {1, 2}, store \in {1, 2}}
    \cup
    {[conn |-> TwoClients, kinds |-> All, drops |-> "yes", slow |-> "no",
      room |-> 1, store |-> 1, calls |-> Both(2)],
     [conn |-> OneClient, kinds |-> All, drops |-> "yes", slow |-> "yes",
      room |-> 1, store |-> 1, calls |-> Both(2)]}

\* One caller some of whose calls have no key.
MCKeylessSettings ==
    {[conn |-> OneClient, kinds |-> All, drops |-> "no", slow |-> "no",
      room |-> 2, store |-> 1, calls |-> Only(2)]}
=============================================================================
