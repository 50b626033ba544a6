----------------------------- MODULE MCHsmFacade -----------------------------
EXTENDS HsmFacade

CONSTANTS k1, k2
=============================================================================
