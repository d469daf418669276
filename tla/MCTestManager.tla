---------------------------- MODULE MCTestManager ----------------------------
EXTENDS TestManager
=============================================================================
