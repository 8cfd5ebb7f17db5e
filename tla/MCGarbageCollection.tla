------------------------- MODULE MCGarbageCollection -------------------------
EXTENDS GarbageCollection
=============================================================================
