----------------------------- MODULE MCIngestion -----------------------------
EXTENDS IngestionProperties, TLC
=============================================================================
