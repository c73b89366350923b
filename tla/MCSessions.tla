----------------------------- MODULE MCSessions ------------------------------
EXTENDS Sessions

MCText == [r \in Rec |-> <<2, 0, 3, 0, 0, 0>>]

=============================================================================
