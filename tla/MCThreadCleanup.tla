--------------------------- MODULE MCThreadCleanup ---------------------------
EXTENDS ThreadCleanup
=============================================================================
