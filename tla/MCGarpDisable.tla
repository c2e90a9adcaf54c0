---------------------------- MODULE MCGarpDisable ----------------------------
EXTENDS GarpDisable
=============================================================================
