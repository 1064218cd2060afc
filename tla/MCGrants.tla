------------------------------ MODULE MCGrants ------------------------------
\* ClickhouseGrants for TLC: two objects whose lists may overlap.
EXTENDS GrantsInvariant, TLC
CONSTANTS g1, g2, p, q
TwoLists == {{p}, {p, q}}
=============================================================================
