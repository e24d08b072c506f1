---------------------------- MODULE MCRetrieval -----------------------------
\* One deal of this client with this provider, for a payload of a few bytes.
EXTENDS Retrieval
=============================================================================
