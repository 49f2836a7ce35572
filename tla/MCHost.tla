------------------------------- MODULE MCHost -------------------------------
EXTENDS Host
=============================================================================
