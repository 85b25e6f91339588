----------------------------- MODULE MCTaskPanel -----------------------------
(* Instances of TaskPanel for TLC.                                         *)
EXTENDS TaskPanel, TLC

CONSTANTS l1, l2, x, y, padded, r1, r2

\* One of the texts has spaces around it.
Trim == [text \in Text |-> IF text = padded THEN y ELSE text]

\* Labels are alike, and so are the requests until they are sent.
Symmetry == Permutations(Label) \cup Permutations(Req)
=============================================================================
