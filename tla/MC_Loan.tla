-------------------------------- MODULE MC_Loan --------------------------------
EXTENDS Loan

\* Small amounts a customer may pay: below, around and above a period's interest.
MC_Payments == {1, 3, 8}

=============================================================================
