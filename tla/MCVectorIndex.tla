---------------------------- MODULE MCVectorIndex ----------------------------
EXTENDS VectorIndex
================================================================================
