--------------------------- MODULE MCSessionBuffer ---------------------------
(* SessionBuffer for TLC.                                                   *)
EXTENDS SessionBuffer

(* The loop of readWith over takeLocked, as it is written.                 *)
LinesLoop(b, max) ==
  LET more[have \in 0..Len(b)] ==
        LET n == Taken(SubSeq(b, have + 1, Len(b)), max - have, TRUE)
        IN IF have >= max \/ n = 0 THEN have ELSE more[have + n]
  IN more[0]

(* It ends where TakenLines says.                                          *)
ASSUME LoopAssumption ==
  \A n \in 0..4, max \in 1..5 : \A b \in [1..n -> 1..Bytes] :
    TakenLines(b, max) = LinesLoop(b, max)
=============================================================================
