------------------------------ MODULE DataObject ------------------------------
(***************************************************************************)
(* The object a paste asks (VirtualFileDataObject,                         *)
(* src/clipboard/data_object.rs) and the enumerators of its formats        *)
(* (FormatEnumerator, src/clipboard/format_enum.rs).  The consumer, which  *)
(* is Explorer or a clipboard manager, enumerates, clones, skips and asks  *)
(* from several threads, in any order and with any arguments; every call   *)
(* holds the lock of the enumerator it is made on.  A call that is refused *)
(* is no step.                                                             *)
(***************************************************************************)
EXTENDS ObjectFormats

CONSTANTS
    MaxEntries,  \* bound on the entries of an offer
    MaxFetch     \* bound on the formats one call asks for

ObjectAssumption == {MaxEntries, MaxFetch} \subseteq Nat \ {0}

VARIABLES
    feedback,     \* the medium a consumer passes to SetData is "held" or "freed"
    asyncMode, inOperation

vars == <<entries, enumerators, feedback, opened, asyncMode, inOperation>>

Request == [format : Format, index : -1 .. MaxEntries, media : SUBSET Medium]

\* An enumerator stands at a position; its consumer was given what is before it.
NoEnumerator == [open |-> FALSE, position |-> 0, given |-> <<>>]
At(position, given) == [open |-> TRUE, position |-> position, given |-> given]

\* create_with_entries, of entries that pass the check
Init ==
    /\ entries \in {es \in UNION {[1 .. n -> Entry] : n \in 1 .. MaxEntries} : ValidEntries(es)}
    /\ enumerators = [e \in Enumerator |-> NoEnumerator]
    /\ feedback = "held"
    /\ opened = {}
    /\ asyncMode = FALSE /\ inOperation = FALSE

-----------------------------------------------------------------------------
(* The enumerators. *)

EnumeratorBecomes(e, record) ==
    /\ enumerators' = [enumerators EXCEPT ![e] = record]
    /\ UNCHANGED <<entries, feedback, opened, asyncMode, inOperation>>

\* EnumFormatEtc for the direction get
EnumFormatEtc(e) ==
    /\ ~enumerators[e].open
    /\ EnumeratorBecomes(e, At(0, <<>>))

Available(e, n) ==
    LET left == Len(Enumerated) - enumerators[e].position IN IF n <= left THEN n ELSE left

\* Next and Skip pass over as many formats as there are, and Next tells of them.
Fetch(e, n) ==
    LET position == enumerators[e].position  fetched == Available(e, n) IN
    /\ enumerators[e].open
    /\ EnumeratorBecomes(e, At(position + fetched,
          enumerators[e].given \o [i \in 1 .. fetched |-> Enumerated[position + i]]))

Skip(e, n) ==
    LET position == enumerators[e].position  skipped == Available(e, n) IN
    /\ enumerators[e].open
    /\ EnumeratorBecomes(e, At(position + skipped,
          enumerators[e].given \o [i \in 1 .. skipped |-> Skipped]))

Reset(e) ==
    /\ enumerators[e].open
    /\ EnumeratorBecomes(e, At(0, <<>>))

\* The consumer goes on with the clone where it is with the original.
Clone(e, clone) ==
    /\ enumerators[e].open /\ ~enumerators[clone].open
    /\ EnumeratorBecomes(clone, At(enumerators[e].position, enumerators[e].given))

Release(e) ==
    /\ enumerators[e].open
    /\ EnumeratorBecomes(e, NoEnumerator)

-----------------------------------------------------------------------------
(* The object. *)

GetData(r) ==
    /\ Validate(r) = "S_OK"
    /\ LET medium == MediumFor(r) IN
       opened' = IF medium.kind = "stream"
                 THEN opened \cup {[asked |-> r.index, of |-> medium.of]} ELSE opened
    /\ UNCHANGED <<entries, enumerators, feedback, asyncMode, inOperation>>

\* The feedback of a consumer is checked, and not kept.
AcceptsFeedback(r) ==
    /\ r.format = "performed" /\ r.index = -1
    /\ "hglobal" \in r.media

\* SetData frees the medium it was told to release, once it has taken it.
SetData(r, release) ==
    /\ AcceptsFeedback(r) /\ feedback = "held"
    /\ feedback' = IF release THEN "freed" ELSE "held"
    /\ UNCHANGED <<entries, enumerators, opened, asyncMode, inOperation>>

SetAsyncMode(mode) ==
    /\ asyncMode' = mode
    /\ UNCHANGED <<entries, enumerators, feedback, opened, inOperation>>

StartOperation ==
    /\ inOperation' = TRUE
    /\ UNCHANGED <<entries, enumerators, feedback, opened, asyncMode>>

EndOperation ==
    /\ inOperation' = FALSE
    /\ UNCHANGED <<entries, enumerators, feedback, opened, asyncMode>>

Next ==
    \/ \E e \in Enumerator :
          \/ EnumFormatEtc(e) \/ Reset(e) \/ Release(e)
          \/ \E n \in 0 .. MaxFetch : Fetch(e, n) \/ Skip(e, n)
          \/ \E clone \in Enumerator : Clone(e, clone)
    \/ \E r \in Request : GetData(r) \/ \E release \in BOOLEAN : SetData(r, release)
    \/ \E mode \in BOOLEAN : SetAsyncMode(mode)
    \/ StartOperation \/ EndOperation
=============================================================================
