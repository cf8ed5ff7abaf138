--------------------------- MODULE MC_LeaseClosing ---------------------------
EXTENDS LeaseClosing

=============================================================================
