---------------------------- MODULE MCDagValidator ----------------------------
EXTENDS ExecutionWaves

CONSTANTS n1, n2, n3

ThreeNodes == <<n3, n1, n2>>
==============================================================================
