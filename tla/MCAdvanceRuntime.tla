-------------------------- MODULE MCAdvanceRuntime ---------------------------
EXTENDS AdvanceRuntime
=============================================================================
