--------------------------- MODULE MCProjectFiles ---------------------------
EXTENDS ProjectFiles
=============================================================================
