-------------------------- MODULE MCCommanderBudget --------------------------
EXTENDS CommanderBudget, TLC

CONSTANTS h1, h2, h3

Interchangeable == Permutations({h1, h2, h3})
Prices == [s \in Service |-> IF s \in Auditor \cup Plain THEN 2 ELSE 1]
=============================================================================
