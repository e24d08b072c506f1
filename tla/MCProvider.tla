----------------------------- MODULE MCProvider -----------------------------
\* One deal for a payload of a few bytes, under an arbitrary client.
EXTENDS ProviderEnv
=============================================================================
