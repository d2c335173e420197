------------------------------- MODULE Pairing -------------------------------
(***************************************************************************)
(* Two machines that pair: the tray of each has a thread that listens      *)
(* (PairingRuntime and complete_native_pairing, src/tray.rs) and may start *)
(* one that connects; a connection is a session of src/pairing.rs, in      *)
(* which each side sends its user's decision and reads the other one.      *)
(*                                                                         *)
(* The hellos and the proof of the TLS identities succeed or fail as a     *)
(* whole, on each side for itself.  A side may give up at any time (a      *)
(* timeout, a closed connection); what it sent before can still be read.   *)
(* The registry of a machine (Registry) is here the session that put the   *)
(* peer into it.                                                           *)
(***************************************************************************)
EXTENDS Naturals, FiniteSets, TrustPromise

CONSTANT MaxSessions  \* bound on the connections

\* What the theorems about the module assume of the constants.
PairingAssumption == (\E a, b \in Machine : a # b /\ Machine = {a, b}) /\ MaxSessions \in Nat

VARIABLES
    made,    \* connections made
    busy,    \* PairingRuntime::busy
    thread,  \* of each machine and role: [pc, session, owner, answer]
    seen     \* whether the discovery of a machine knows the other

vars == <<session, made, busy, thread, trusted, seen>>

Role == {"listener", "connector"}
Session == 1 .. MaxSessions

Other(m) == CHOOSE o \in Machine : o # m
IdleThread(role) == [pc |-> IF role = "listener" THEN "listening" ELSE "idle",
                     session |-> 0, owner |-> FALSE, answer |-> FALSE]

Init ==
    /\ session = [n \in Session |-> [sent  |-> [m \in Machine |-> "nothing"],
                                     asked |-> [m \in Machine |-> "nothing"]]]
    /\ made = 0
    /\ busy = [m \in Machine |-> FALSE]
    /\ thread = [m \in Machine |-> [role \in Role |-> IdleThread(role)]]
    /\ trusted = [m \in Machine |-> 0]
    /\ seen = [m \in Machine |-> FALSE]

\* A thread is done with its session; the one that took busy releases it.
EndThread(m, role) ==
    LET th == thread[m][role] IN
    /\ thread' = [thread EXCEPT ![m][role] = IdleThread(role)]
    /\ busy' = [busy EXCEPT ![m] = @ /\ ~th.owner]

-----------------------------------------------------------------------------
(* Starting. *)

\* start_pairing offers a discovered device that is not trusted, and connect
\* takes busy.  Without a thread busy stays taken.
StartPairing(m) ==
    /\ seen[m] /\ trusted[m] = 0
    /\ ~busy[m]
    /\ thread[m]["connector"].pc = "idle"
    /\ busy' = [busy EXCEPT ![m] = TRUE]
    /\ \/ thread' = [thread EXCEPT ![m]["connector"].pc = "connect",
                                   ![m]["connector"].owner = TRUE]
       \/ UNCHANGED thread
    /\ UNCHANGED <<session, made, trusted, seen>>

ConnectFails(m) ==
    /\ thread[m]["connector"].pc = "connect"
    /\ EndThread(m, "connector")
    /\ UNCHANGED <<session, made, trusted, seen>>

\* connect_for_pairing meets listen_for_pairing: both sides prove their
\* identities, or one of them does not see the end of it.
Connect(m) ==
    LET o == Other(m)  n == made + 1
        ready(x, proven) == [x EXCEPT !.pc = IF proven THEN "proven" ELSE "failed", !.session = n]
    IN  /\ thread[m]["connector"].pc = "connect"
        /\ thread[o]["listener"].pc = "listening"
        /\ made < MaxSessions
        /\ made' = n
        /\ \E a, b \in BOOLEAN :
              thread' = [thread EXCEPT ![m]["connector"] = ready(@, a), ![o]["listener"] = ready(@, b)]
        /\ UNCHANGED <<session, busy, trusted, seen>>

\* The side whose handshake failed.
HandshakeFails(m, role) ==
    /\ thread[m][role].pc = "failed"
    /\ EndThread(m, role)
    /\ UNCHANGED <<session, made, trusted, seen>>

-----------------------------------------------------------------------------
(* complete_native_pairing *)

\* The connector took busy before; the listener refuses when it is taken.
Takes(m, role) == role = "connector" \/ ~busy[m]

\* The peer must be the discovered one, at its address, and not be trusted
\* yet; otherwise, and while another pairing is confirmed, the decision is no.
Examine(m, role) ==
    LET th == thread[m][role]
        acceptable == Takes(m, role) /\ (role = "connector" \/ seen[m]) /\ trusted[m] = 0
    IN  /\ th.pc = "proven"
        /\ busy' = [busy EXCEPT ![m] = TRUE]
        /\ thread' = [thread EXCEPT ![m][role].pc = IF acceptable THEN "ask" ELSE "decide",
                                    ![m][role].owner = Takes(m, role)]
        /\ UNCHANGED <<session, made, trusted, seen>>

\* The connector's device may have answered with another identity or address
\* than the discovered one.
ExamineFails(m) ==
    /\ thread[m]["connector"].pc = "proven"
    /\ thread' = [thread EXCEPT ![m]["connector"].pc = "decide"]
    /\ UNCHANGED <<session, made, busy, trusted, seen>>

\* The user compares the codes and answers.
Answer(m, role) ==
    LET th == thread[m][role] IN
    /\ th.pc = "ask"
    /\ \E yes \in BOOLEAN :
          /\ thread' = [thread EXCEPT ![m][role].pc = "decide", ![m][role].answer = yes]
          /\ session' = [session EXCEPT ![th.session].asked[m] = IF yes THEN "yes" ELSE "no"]
    /\ UNCHANGED <<made, busy, trusted, seen>>

-----------------------------------------------------------------------------
(* PendingPairing::confirm *)

SendDecision(m, role) ==
    LET th == thread[m][role] IN
    /\ th.pc = "decide"
    /\ session' = [session EXCEPT ![th.session].sent[m] = IF th.answer THEN "yes" ELSE "no"]
    /\ thread' = [thread EXCEPT ![m][role].pc = "confirm"]
    /\ UNCHANGED <<made, busy, trusted, seen>>

RefusesEither(own, decision) == ~own /\ decision = "no"  \* mutant: one approval is enough

Refuses(own, decision) == ~own \/ decision = "no"

\* The other decision is read.  If both are yes the peer is trusted, unless
\* the identity changed or the registry refuses it.
ReadDecision(m, role) ==
    LET th == thread[m][role]
        decision == session[th.session].sent[Other(m)]
    IN  /\ th.pc = "confirm"
        /\ decision # "nothing"
        /\ \/ UNCHANGED trusted
           \/ /\ ~Refuses(th.answer, decision)
              /\ trusted[m] = 0
              /\ trusted' = [trusted EXCEPT ![m] = th.session]
        /\ EndThread(m, role)
        /\ UNCHANGED <<session, made, seen>>

\* A write or a read fails: the other side closed or is too late.
SessionFails(m, role) ==
    /\ thread[m][role].pc \in {"decide", "confirm"}
    /\ EndThread(m, role)
    /\ UNCHANGED <<session, made, trusted, seen>>

-----------------------------------------------------------------------------

\* A packet of the other machine arrives, ...
HearPeer(m) == seen' = [seen EXCEPT ![m] = TRUE]

\* ... or none for PEER_TTL, and the next look drops the peer.
ForgetPeer(m) == seen' = [seen EXCEPT ![m] = FALSE]

Discover(m) ==
    /\ HearPeer(m) \/ ForgetPeer(m)
    /\ UNCHANGED <<session, made, busy, thread, trusted>>

\* The user revokes the pairing.
Revoke(m) ==
    /\ trusted[m] # 0
    /\ trusted' = [trusted EXCEPT ![m] = 0]
    /\ UNCHANGED <<session, made, busy, thread, seen>>

Pair(m, role) ==
    \/ HandshakeFails(m, role) \/ Examine(m, role) \/ Answer(m, role)
    \/ SendDecision(m, role) \/ ReadDecision(m, role) \/ SessionFails(m, role)

Next ==
    \E m \in Machine :
        \/ StartPairing(m) \/ ConnectFails(m) \/ Connect(m) \/ ExamineFails(m)
        \/ \E role \in Role : Pair(m, role)
        \/ Discover(m) \/ Revoke(m)

-----------------------------------------------------------------------------
(* Properties. *)

\* Besides the types: a machine asks its user about one pairing at a time.
TypeOK ==
    /\ made \in 0 .. MaxSessions
    /\ busy \in [Machine -> BOOLEAN] /\ seen \in [Machine -> BOOLEAN]
    /\ trusted \in [Machine -> 0 .. made]
    /\ \A m \in Machine, role \in Role :
          /\ thread[m][role].pc \in {"listening", "idle", "connect", "proven", "failed", "ask",
                                     "decide", "confirm"}
          /\ thread[m][role].session \in 0 .. made
    /\ \A m \in Machine : Cardinality({role \in Role : thread[m][role].pc = "ask"}) <= 1
=============================================================================
