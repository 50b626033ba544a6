---------------------------- MODULE MCFbServerWs ----------------------------
EXTENDS FbServerWs

CONSTANTS s1, s2, s3
=============================================================================
