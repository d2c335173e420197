-------------------------------- MODULE Probes --------------------------------
(***************************************************************************)
(* A diagnostic process of the command line (src/main.rs) runs one probe:  *)
(* the capture session of FileCapture, the loopback transfer of Loopback,  *)
(* the secure source, which walks the paths of its arguments with FileTree *)
(* and serves what it found (OfferServer), or the secure fetch.  Those     *)
(* that keep an object on the clipboard do so as ProbeProcess says, and    *)
(* any object is asked as DataObject says.  The state of the parts that    *)
(* were not chosen stays as it is.                                         *)
(***************************************************************************)
EXTENDS FileCapture, StreamPromise, ObjectFormats

CONSTANTS
    Reader, MaxRange, MaxPosition, MaxWorkers, MaxRequests, MaxCommands, \* Loopback
    MaxDepth, MaxItems, MaxPathUnits, MaxRoots,                                  \* FileTree
    Name, Node, \* the names and nodes of the file systems that are walked
    MaxEntries, MaxFetch, \* DataObject
    Caller,               \* ProbeProcess
    Download, Size        \* SecureFetch

VARIABLES
    probe,  \* the probe the arguments name
    selection, \* the paths of the secure source and what is on the disk: [fs, roots]
    snapshot,  \* its FileTreeSnapshot
    control, readers, requests, server, commands,
    feedback, asyncMode, inOperation,
    mode, phase, input, messages, transfer, started, calls,
    output, partial, step, acked

objectVars  == <<entries, enumerators, feedback, opened, asyncMode, inOperation>>
processVars == <<mode, phase, input, messages, transfer, started, calls>>
fetchVars   == <<output, partial, step, acked>>
otherVars   == <<objectVars, processVars, fetchVars>>
loopVars   == <<control, streams, readers, requests, server, commands>>
sourceVars == <<selection, snapshot>>
probeVars  == <<vars, loopVars, sourceVars, otherVars, probe>>

Loop == INSTANCE Loopback
Tree == INSTANCE FileTree
Object  == INSTANCE DataObject
Process == INSTANCE ProbeProcess
Fetcher == INSTANCE SecureFetch

ASSUME ProbesAssumption ==
    /\ Loop!LoopbackAssumption
    /\ {MaxDepth, MaxItems, MaxPathUnits, MaxRoots} \subseteq Nat \ {0}
    /\ Name \subseteq Nat /\ IsFiniteSet(Name) /\ \E m, n \in Node : m # n
    /\ Object!ObjectAssumption
    /\ Fetcher!FetchAssumption

(* The selections that are walked: every file system of the nodes, and one  *)
(* or two copied paths beside, equal to or inside each other.               *)

Plain == [dir |-> FALSE, children |-> <<>>]
Directories == {[dir |-> TRUE, children |-> c] : c \in UNION {[S -> Node] : S \in SUBSET Name}}
FileSystems == [Node -> Directories \cup {Plain}]

Root(path, node) == [path |-> path, node |-> node]
First == CHOOSE n \in Node : TRUE
Other == CHOOSE n \in Node : n # First

Selections == {
    <<Root(<<8, 2>>, First)>>,
    <<Root(<<8, 2>>, First), Root(<<8, 4>>, Other)>>,     \* two entries of a directory
    <<Root(<<8, 2>>, First), Root(<<10, 3>>, Other)>>,    \* of two directories, the same but for case
    <<Root(<<8, 2>>, First), Root(<<9, 3, 4>>, Other)>>}  \* the second inside the first

-----------------------------------------------------------------------------

NoSelection == [fs |-> [n \in Node |-> Plain], roots |-> <<>>]
NotWalked   == [Tree!Empty EXCEPT !.error = "not walked"]

Part == {"file-capture", "loopback", "secure-source", "object", "process", "fetch"}

\* The parts that are not chosen have one initial state each.
ProbeInit ==
    /\ probe \in Part
    /\ selection \in IF probe = "secure-source" THEN [fs : FileSystems, roots : Selections]
                     ELSE {NoSelection}
    /\ snapshot = NotWalked
    /\ Init
    /\ Loop!Init
    /\ Object!Init /\ (probe # "object" => entries = <<[dir |-> FALSE, source |-> "right"]>>)
    /\ Process!Init /\ (probe # "process" => mode = "clipboard")
    /\ Fetcher!Init /\ (probe # "fetch" => output = Fetcher!NoFile)

\* run_secure_source_probe walks its paths before it serves anything.
CaptureSelection ==
    /\ snapshot = NotWalked
    /\ snapshot' = Tree!Capture(selection.fs, selection.roots)
    /\ UNCHANGED <<selection, vars, loopVars>>

ProbeNext ==
    /\ UNCHANGED probe
    /\ \/ probe = "file-capture" /\ Next /\ UNCHANGED <<loopVars, sourceVars, otherVars>>
       \/ probe = "loopback" /\ Loop!Next /\ UNCHANGED <<vars, sourceVars, otherVars>>
       \/ probe = "secure-source" /\ CaptureSelection /\ UNCHANGED otherVars
       \/ probe = "object" /\ Object!Next
          /\ UNCHANGED <<vars, loopVars, sourceVars, processVars, fetchVars>>
       \/ probe = "process" /\ Process!Next
          /\ UNCHANGED <<vars, loopVars, sourceVars, objectVars, fetchVars>>
       \/ probe = "fetch" /\ Fetcher!Next
          /\ UNCHANGED <<vars, loopVars, sourceVars, objectVars, processVars>>

ProbeSpec ==
    /\ ProbeInit /\ [][ProbeNext]_probeVars
    /\ \A q \in 1 .. MaxRequests :
          /\ WF_loopVars(probe = "loopback" /\ Loop!Accept(q))
          /\ WF_loopVars(probe = "loopback" /\ Loop!Worker(q))

-----------------------------------------------------------------------------
(* Properties. *)

\* A copied selection is captured completely and once, or refused for one of
\* the reasons the code names, whatever directories and junctions it contains.
SelectionIsCapturedExactly ==
    snapshot # NotWalked => Tree!CaptureIsExact(selection.fs, selection.roots, snapshot)

\* A probe that is told to quit, and the pause and the loopback probe whatever ends
\* their loop, wake the readers of a paused transfer before they release the object
\* that is read (Process!ReleaseIsNotBlocked names who does not); and a fetch never
\* leaves a part of a file as its output (Fetcher!OutputIsWhole).
ProbesEndClean == Process!ReleaseIsNotBlocked /\ Fetcher!OutputIsWhole

\* A cancelled transfer wakes the workers that wait in the delay or for the resume.
CancelFreesWorkers == Loop!CancelFreesWorkers
=============================================================================
