--------------------------- MODULE MCShmHandshake ----------------------------
EXTENDS ShmHandshake
=============================================================================
