--------------------------- MODULE MCAwaitGroups ---------------------------
EXTENDS AwaitGroups
=============================================================================
