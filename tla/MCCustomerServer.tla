-------------------------- MODULE MCCustomerServer --------------------------
EXTENDS CustomerServer

CONSTANTS r1, r2, u1, h1, h2
=============================================================================
