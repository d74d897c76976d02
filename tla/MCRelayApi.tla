------------------------------ MODULE MCRelayApi ------------------------------
(* RelayApi for TLC: connections, requests and session ids are             *)
(* interchangeable.                                                        *)
EXTENDS RelayApi, TLC

Symmetry == Permutations(Conn) \cup Permutations(Request) \cup Permutations(Sid)
=============================================================================
