------------------------------ MODULE SecureFetch ------------------------------
(***************************************************************************)
(* run_secure_fetch_probe (src/clipboard/runtime.rs): a process that       *)
(* downloads a file into a partial file beside the output and renames it.  *)
(* Several such processes may have the same output, another program may    *)
(* write it too, and a process can be killed between any two steps.  A     *)
(* source delivers up to Size bytes, or fails.                             *)
(***************************************************************************)
EXTENDS Naturals

CONSTANTS
    Download,  \* processes that fetch to the same output
    Size    \* of the file in the manifest

FetchAssumption == Size \in Nat \ {0}

VARIABLES
    output,   \* the output: what it is and how much of it
    partial,  \* PartialFileGuard: the bytes of each partial file
    step,     \* of each process
    acked     \* processes whose source confirmed the end of the transfer

vars == <<output, partial, step, acked>>

NoFile  == [of |-> "nobody", bytes |-> 0]
Foreign == [of |-> "another program", bytes |-> 1]
Absent  == Size + 1

Init ==
    /\ output \in {NoFile, Foreign}
    /\ partial = [p \in Download |-> Absent]
    /\ step = [p \in Download |-> "check"]
    /\ acked = {}

Goto(p, s) == step' = [step EXCEPT ![p] = s]

CheckOutput(p) ==
    /\ step[p] = "check"
    /\ Goto(p, IF output = NoFile THEN "manifest" ELSE "failed")
    /\ UNCHANGED <<output, partial, acked>>

\* The manifest must be of one file; the name of the partial file is drawn.
CreatePartial(p) ==
    /\ step[p] = "manifest"
    /\ partial' = [partial EXCEPT ![p] = 0]
    /\ Goto(p, "reading")
    /\ UNCHANGED <<output, acked>>

ReadAndWrite(p) ==
    /\ step[p] = "reading"
    /\ \E n \in 1 .. Size - partial[p] : partial' = [partial EXCEPT ![p] = @ + n]
    /\ UNCHANGED <<output, step, acked>>

IsWhole(p) == partial[p] = Size

\* A read of nothing ends the loop, wherever it is.
EndReading(p) ==
    /\ step[p] = "reading"
    /\ Goto(p, IF IsWhole(p) THEN "complete" ELSE "drop")
    /\ UNCHANGED <<output, partial, acked>>

\* SecureRemoteSource::complete, then flush and sync_all.
Complete(p) ==
    /\ step[p] = "complete"
    /\ acked' = acked \cup {p}
    /\ Goto(p, "commit")
    /\ UNCHANGED <<output, partial>>

\* PartialFileGuard::commit renames over whatever is there by now.
Commit(p) ==
    /\ step[p] = "commit"
    /\ output' = [of |-> p, bytes |-> partial[p]]
    /\ partial' = [partial EXCEPT ![p] = Absent]
    /\ Goto(p, "done")
    /\ UNCHANGED acked

\* Any step may fail; what was created is dropped.
Fail(p) ==
    /\ step[p] \in {"manifest", "reading", "complete", "commit"}
    /\ Goto(p, IF partial[p] = Absent THEN "failed" ELSE "drop")
    /\ UNCHANGED <<output, partial, acked>>

\* PartialFileGuard::drop.  A file that cannot be removed stays, unnoticed.
DropPartial(p) ==
    /\ step[p] = "drop"
    /\ \/ partial' = [partial EXCEPT ![p] = Absent] /\ Goto(p, "failed")
       \/ UNCHANGED partial /\ Goto(p, "left")
    /\ UNCHANGED <<output, acked>>

Kill(p) ==
    /\ step[p] \notin {"done", "failed", "left", "killed"}
    /\ Goto(p, "killed")
    /\ UNCHANGED <<output, partial, acked>>

\* Another program creates, or removes, the output.
WriteOutput ==
    /\ output' \in {NoFile, Foreign}
    /\ UNCHANGED <<partial, step, acked>>

Process(p) ==
    \/ CheckOutput(p) \/ CreatePartial(p) \/ ReadAndWrite(p) \/ EndReading(p)
    \/ Complete(p) \/ Commit(p) \/ Fail(p) \/ DropPartial(p) \/ Kill(p)

Next == (\E p \in Download : Process(p)) \/ WriteOutput

-----------------------------------------------------------------------------
(* Properties. *)

\* Whatever fails or is killed, and whoever writes beside, the output is what
\* another program put there or the whole file, of a transfer the source knows
\* to be complete.  A partial file is left behind only by a process that was
\* killed or could not remove it.
OutputIsWhole ==
    /\ \/ output \in {NoFile, Foreign}
       \/ output.of \in acked /\ output.bytes = Size
    /\ \A p \in Download : step[p] \in {"done", "failed"} => partial[p] = Absent
=============================================================================
