--------------------------- MODULE MCVectorWrites ---------------------------
EXTENDS VectorWrites

CONSTANTS u1, u2

MCOwner == <<u1, u1, u2>>
=============================================================================
