----------------------------- MODULE SessionState -----------------------------
(* The states of a transfer session and the commands that move it between    *)
(* them, as the server of the source applies them.                           *)

Opcode == {"Pause", "Resume", "Cancel", "Complete"}
Active == {"Running", "Paused"}

\* "none": the session does not exist yet.
States == Active \cup {"Cancelled", "Completed", "none"}

\* What opcode op makes of a session in state s.
Obey(op, s) ==
    CASE op = "Pause"    /\ s = "Running" -> "Paused"
      [] op = "Resume"   /\ s = "Paused"  -> "Running"
      [] op = "Cancel"   /\ s \in Active  -> "Cancelled"
      [] op = "Complete" /\ s = "Running" -> "Completed"
      [] OTHER -> s
=============================================================================
