---------------------------- MODULE MCHaCluster ----------------------------
EXTENDS HaCluster
=============================================================================
