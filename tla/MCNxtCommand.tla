---------------------------- MODULE MCNxtCommand ----------------------------
EXTENDS NxtCommandProperties

CONSTANTS n2, n2more   \* a name of 15 characters, and a longer one like it

MCPacked == [n \in Name |-> IF n = n2more THEN n2 ELSE n]
=============================================================================
