--------------------------- MODULE MCTransferServer ---------------------------
(* TransferServer with small sets of model values. *)
EXTENDS TransferServer, SequencesExt

CONSTANT CommandBudget  \* bound on the commands issued to all sessions together, one less past time 1

Symmetry == Permutations(Worker) \cup Permutations(TransferId) \cup Permutations(Nonce)

WithinBudget ==
    FoldFunction(LAMBDA s, n : Len(s) + n, 0, issued)
        <= CommandBudget - (IF clock > 1 THEN 1 ELSE 0)
=============================================================================
