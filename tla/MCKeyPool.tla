----------------------------- MODULE MCKeyPool -----------------------------
EXTENDS KeyPool
CONSTANTS h1, h2
=============================================================================
