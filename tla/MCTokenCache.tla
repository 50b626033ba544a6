---------------------------- MODULE MCTokenCache ----------------------------
EXTENDS TokenCache

CONSTANTS c1, c2
=============================================================================
