----------------------------- MODULE MCRegAlloc -----------------------------
EXTENDS RegAlloc
=============================================================================
