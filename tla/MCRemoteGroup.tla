---------------------------- MODULE MCRemoteGroup ----------------------------
(* RemoteGroup with small bounds. *)
EXTENDS RemoteGroup

CONSTANT ReadBudget  \* bound on the reads of all streams but the first

\* One stream is read to its end, the others are opened beside it.
WithinBudget == \A s \in Source \ {1} : reads[s] <= ReadBudget
=============================================================================
