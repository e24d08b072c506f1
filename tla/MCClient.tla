------------------------------ MODULE MCClient ------------------------------
\* One deal for a payload of a few bytes, under an arbitrary provider.
EXTENDS ClientEnv
=============================================================================
