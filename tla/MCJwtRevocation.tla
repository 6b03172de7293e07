-------------------------- MODULE MCJwtRevocation --------------------------
EXTENDS JwtRevocation, FiniteSets, TLC

CONSTANT MaxTokens

FewTokens == Cardinality(tokens) <= MaxTokens
Interchangeable == Permutations(Requests)
=============================================================================
