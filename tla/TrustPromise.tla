----------------------------- MODULE TrustPromise -----------------------------
(***************************************************************************)
(* What a pairing (src/pairing.rs) promises to the users of two machines.  *)
(* Pairing says how the machines keep it.                                  *)
(***************************************************************************)

CONSTANT Machine  \* the two machines

VARIABLES
    session, \* of each connection: the decision sent and the user's answer, by machine
    trusted  \* the session that made the machine trust the other, 0 for none

\* A machine trusts the other one only by a session in which both users
\* approved, whatever crosses, is late or is refused.
TrustNeedsBothApprovals ==
    \A m \in Machine :
        trusted[m] # 0 => \A o \in Machine : session[trusted[m]].asked[o] = "yes"
=============================================================================
