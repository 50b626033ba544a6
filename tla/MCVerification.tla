---------------------------- MODULE MCVerification ----------------------------
EXTENDS Verification, TLC

CONSTANTS tk1, tk2, h1, h2
=============================================================================
