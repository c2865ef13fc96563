--------------------------- MODULE MCRingAndCache ---------------------------
EXTENDS ShmRing, ResultCache
CONSTANTS k1, k2, k3, k4, v1, v2

\* All lengths around the bounds try_write tests: empty, below the threshold,
\* half the ring, the whole ring, and one byte more than the ring.
MCLens == 0 .. Cap + 1

\* The two components stand alone.  In each behaviour one of them is used, and the
\* other stays as it was created.
CacheUnused == now = 0 /\ DOMAIN map = {} /\ hits + misses = 0
RingUnused == frames = <<>> /\ prod = Idle
RingAlone == CacheUnused /\ Next /\ UNCHANGED cacheVars
CacheAlone == RingUnused /\ CacheNext /\ UNCHANGED vars
AsCreated == Init /\ CacheInit
OneOfThem == AsCreated /\ [][RingAlone \/ CacheAlone]_<<vars, cacheVars>> /\ Fairness
=============================================================================
