---------------------------- MODULE StreamPromise ----------------------------
(***************************************************************************)
(* What a VirtualStream (src/clipboard/stream.rs) promises to whoever      *)
(* reads it: a stream has a position and remembers in origin and given     *)
(* what was read since it was last moved.  Loopback says how the streams   *)
(* change.                                                                 *)
(***************************************************************************)
EXTENDS Naturals, Sequences

CONSTANT Length  \* the size of the file

VARIABLE streams \* VirtualStream: [open, position, origin, given]

Stream == 1 .. 2 \* the stream of GetData and a clone

\* The calls on a stream that succeed, whichever threads make them and however
\* many fail in between, return each byte once and in order from the last seek
\* or the clone on, and the position is behind the last of them.
ReadsAreContiguous ==
    \A s \in Stream :
        /\ streams[s].position = streams[s].origin + Len(streams[s].given)
        /\ \A i \in DOMAIN streams[s].given :
              streams[s].given[i] = streams[s].origin + i - 1 /\ streams[s].given[i] < Length
=============================================================================
