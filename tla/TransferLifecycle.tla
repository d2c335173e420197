-------------------------- MODULE TransferLifecycle --------------------------
(***************************************************************************)
(* What the server of an offer promises about its sessions, with no word   *)
(* of workers, locks, time, retries or the session table.                  *)
(*                                                                         *)
(* A session is opened once.  Commands act on it one at a time, in the     *)
(* order of their numbers, each at most once.  Data is handed out while it *)
(* is open or completed.  The source may withdraw sessions at any moment,  *)
(* several of them at once.  Every cancellation is counted.                *)
(***************************************************************************)
EXTENDS Naturals, FiniteSets, SessionState

CONSTANTS Session, Datum, MaxCommands

VARIABLES
    phase,         \* what became of each session
    last,          \* number of the last command consumed
    delivered,     \* data handed out
    cancellations  \* sessions cancelled so far

lifecycleVars == <<phase, last, delivered, cancellations>>

Init ==
    /\ phase = [s \in Session |-> "none"]
    /\ last = [s \in Session |-> 0]
    /\ delivered = [s \in Session |-> {}]
    /\ cancellations = 0

Open(s) ==
    /\ phase[s] = "none"
    /\ phase' = [phase EXCEPT ![s] = "Running"]
    /\ UNCHANGED <<last, delivered, cancellations>>

\* Command number q acts, if only by using up its number.
Consume(s, q, op) ==
    /\ phase[s] # "none"
    /\ q > last[s]
    /\ last' = [last EXCEPT ![s] = q]
    /\ phase' = [phase EXCEPT ![s] = Obey(op, @)]
    /\ cancellations' = IF Obey(op, phase[s]) = "Cancelled" /\ phase[s] # "Cancelled"
                        THEN cancellations + 1 ELSE cancellations
    /\ UNCHANGED delivered

\* The source cancels active sessions of its own accord.
Withdraw(S) ==
    /\ \A s \in S : phase[s] \in Active
    /\ phase' = [s \in Session |-> IF s \in S THEN "Cancelled" ELSE phase[s]]
    /\ cancellations' = cancellations + Cardinality(S)
    /\ UNCHANGED <<last, delivered>>

Deliver(s, d) ==
    /\ phase[s] \in Active \cup {"Completed"}
    /\ delivered' = [delivered EXCEPT ![s] = @ \cup {d}]
    /\ UNCHANGED <<phase, last, cancellations>>

Next ==
    \/ \E s \in Session : Open(s)
    \/ \E s \in Session, q \in 1 .. MaxCommands, op \in Opcode : Consume(s, q, op)
    \/ \E S \in SUBSET Session : Withdraw(S)
    \/ \E s \in Session, d \in Datum : Deliver(s, d)

Spec == Init /\ [][Next]_lifecycleVars
=============================================================================
