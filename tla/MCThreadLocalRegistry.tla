------------------------ MODULE MCThreadLocalRegistry ------------------------
EXTENDS ThreadLocalRegistry
=============================================================================
