---------------------------- MODULE MC_SwapExactIn ----------------------------
EXTENDS SwapExactIn
=============================================================================
