------------------------------ MODULE MCAesCcm ------------------------------
(* Model-checking instance of AesCcm: blocks of 3 bytes, associated data in *)
(* every split of up to 5 bytes into at most 3 items, empty ones included.  *)
(* A u16 has 6 values: 5 bytes are the longest associated data its prefix   *)
(* can tell, and the longest message takes the last counter, 5.             *)
EXTENDS AesCcm

MCAadLens == {lens \in UNION {[1..n -> 0..5] : n \in 0..3} :
                 FoldSeq(LAMBDA a, b : a + b, 0, lens) <= 5}
MCMessageLens == {0, 1, 3, 4, 15}
MCFewAadLens == {<<>>, <<1>>, <<1, 3>>}
=============================================================================
