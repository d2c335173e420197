---------------------------- MODULE RangeCoverage ----------------------------
(***************************************************************************)
(* RangeCoverage::note (src/clipboard/secure_transfer.rs, and the same in  *)
(* loopback.rs): the ranges of a file that were served, from which the     *)
(* unique bytes of the progress display come.  Reads arrive in any order,  *)
(* overlap, repeat and may be empty; past a limit of disjoint ranges, or   *)
(* where an end is not representable, the tracking stops.                  *)
(***************************************************************************)
EXTENDS Naturals, SequencesExt

CONSTANTS
    MaxOffset,        \* u64::MAX
    MaxTrackedRanges  \* MAX_TRACKED_RANGES

ASSUME CoverageAssumption == MaxOffset \in Nat /\ MaxTrackedRanges \in Nat \ {0}

VARIABLES
    ranges,       \* RangeCoverage::ranges: pairs of a start and an end
    uniqueBytes,  \* RangeCoverage::unique_bytes
    saturated,    \* RangeCoverage::saturated
    served        \* history: the bytes noted before the saturation

vars == <<ranges, uniqueBytes, saturated, served>>

Offset == 0 .. MaxOffset

Init ==
    /\ ranges = <<>>
    /\ uniqueBytes = 0
    /\ saturated = FALSE
    /\ served = {}

\* sort_unstable_by_key: ranges with the same start come in any order.
Sorted(rs) == {q \in SetToSeqs(ToSet(rs)) : \A i \in 1 .. Len(q) - 1 : q[i][1] <= q[i + 1][1]}

ExtendShrinking(merged, r) ==  \* mutant: a range inside the last one cuts it
    IF merged # <<>> /\ r[1] <= Last(merged)[2]
    THEN Append(Front(merged), <<Last(merged)[1], r[2]>>)
    ELSE Append(merged, r)

\* A range that touches the last merged one extends it.
Extend(merged, r) ==
    IF merged # <<>> /\ r[1] <= Last(merged)[2]
    THEN Append(Front(merged), <<Last(merged)[1], Max({Last(merged)[2], r[2]})>>)
    ELSE Append(merged, r)

Merged(rs) ==
    LET upTo[i \in 0 .. Len(rs)] == IF i = 0 THEN <<>> ELSE Extend(upTo[i - 1], rs[i])
    IN  upTo[Len(rs)]

Bytes(rs) ==
    LET upTo[i \in 0 .. Len(rs)] == IF i = 0 THEN 0 ELSE upTo[i - 1] + (rs[i][2] - rs[i][1])
    IN  upTo[Len(rs)]

TooMany(rs) == Len(rs) > MaxTrackedRanges

SaturateForgets ==  \* mutant: the count goes with the ranges
    /\ saturated' = TRUE
    /\ uniqueBytes' = 0

Saturate ==
    /\ saturated' = TRUE
    /\ UNCHANGED uniqueBytes

\* The end is not a u64.
NoteOverflow(start, length) ==
    /\ ~saturated /\ length # 0
    /\ start + length > MaxOffset
    /\ Saturate
    /\ UNCHANGED <<ranges, served>>

Note(start, length) ==
    /\ ~saturated /\ length # 0
    /\ start + length <= MaxOffset
    /\ served' = served \cup (start .. start + length - 1)
    /\ \E sorted \in Sorted(Append(ranges, <<start, start + length>>)) :
          LET merged == Merged(sorted)
          IN  IF TooMany(merged)
              THEN Saturate /\ ranges' = <<>>
              ELSE /\ ranges' = merged
                   /\ uniqueBytes' = Bytes(merged)
                   /\ UNCHANGED saturated

\* An empty read, or a read of a saturated coverage.
NoteNothing(length) ==
    /\ saturated \/ length = 0
    /\ UNCHANGED vars

Next == \E start, length \in Offset :
    \/ NoteOverflow(start, length)
    \/ Note(start, length)
    \/ NoteNothing(length)

Spec == Init /\ [][Next]_vars

-----------------------------------------------------------------------------
(* Properties. *)

\* The unique bytes are the bytes served, each counted once, as long as they are
\* tracked, and a lower bound after that.  The ranges kept are as few as can be,
\* in order and with a gap between any two, so that the limit counts real gaps
\* and never the way the reads were cut.
CountIsExact ==
    /\ IF saturated THEN uniqueBytes <= Cardinality(served) ELSE uniqueBytes = Cardinality(served)
    /\ \A i \in 1 .. Len(ranges) - 1 : ranges[i][2] < ranges[i + 1][1]
    /\ Len(ranges) <= MaxTrackedRanges

\* The progress shown never goes back, in particular not when tracking stops.
ProgressNeverDecreases == [][uniqueBytes' >= uniqueBytes]_vars
=============================================================================
