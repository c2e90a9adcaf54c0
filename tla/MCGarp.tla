------------------------------- MODULE MCGarp -------------------------------
EXTENDS Garp
=============================================================================
