--------------------------- MODULE MCFindingsView ---------------------------
EXTENDS FindingsView
=============================================================================
