------------------------------ MODULE MCPairing ------------------------------
EXTENDS Pairing, TLC

(* Tokens, identities and algorithms are told apart by nothing else.       *)
Symmetric == Permutations(Tok) \cup Permutations(Id) \cup Permutations(Algo)
=============================================================================
