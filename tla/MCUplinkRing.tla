---------------------------- MODULE MCUplinkRing ----------------------------
EXTENDS UplinkRing
CONSTANTS t1, t2, t3
MCLens == 1 .. Cap
=============================================================================
