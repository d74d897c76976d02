---------------------------- MODULE MCAgentCore ----------------------------
(* Small instances of AgentCore for TLC.                                    *)
EXTENDS AgentCore, TLC

(* Ids, monitors and streams are interchangeable: no definition tells one   *)
(* from another.  Used by the runs that check safety only.                  *)
Symmetry == Permutations(Sid) \cup Permutations(Mon) \cup Permutations(Stream)
              \cup Permutations(Operator) \cup Permutations(Dev)
=============================================================================
