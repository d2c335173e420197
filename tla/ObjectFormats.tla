----------------------------- MODULE ObjectFormats -----------------------------
(***************************************************************************)
(* What an object of the clipboard tells its consumer that it can be asked *)
(* for (ClipboardFormats) and what it gives (validate and medium_for,      *)
(* src/clipboard/data_object.rs), and what it promises with that.          *)
(* DataObject says how it is asked.                                        *)
(*                                                                         *)
(* An entry is [dir, source]; its source, if it has one, has the length    *)
(* that the entry announces or not.  A request is [format, index, media];  *)
(* the device, the aspect and the null pointers, which every call refuses, *)
(* are left out, and so are the bytes of the descriptors.                  *)
(***************************************************************************)
EXTENDS Integers, SequencesExt

VARIABLES
    entries,      \* VirtualFileDataObject::entries: [dir, source]
    enumerators,  \* each FormatEnumerator: [open, position, given]
    opened        \* streams handed out: the index asked for and whose file it is

Format == {"descriptor", "contents", "effect", "origin", "performed", "other"}
Medium == {"hglobal", "istream"}

Entry == [dir : BOOLEAN, source : {"none", "right", "wrong"}]

Enumerator == {1, 2}

Ask(format, index, medium) == [format |-> format, index |-> index, media |-> {medium}]

\* validate_virtual_entries, as far as it is not FileTree!ValidTree
ValidEntries(es) ==
    /\ es # <<>>
    /\ \A i \in DOMAIN es : es[i].dir <=> es[i].source = "none"

\* What an enumerator passed over without telling of it.
Skipped == [format |-> "skipped", index |-> -1, media |-> {}]

\* Entries are counted from zero.
HasContents(index) == index + 1 \in DOMAIN entries /\ entries[index + 1].source # "none"

FirstContents == SelectInSeq(entries, LAMBDA e : e.source # "none") - 1

\* ClipboardFormats::enumerated: the contents of one file stand for all.
Enumerated ==
    <<Ask("descriptor", -1, "hglobal")>>
    \o (IF FirstContents < 0 THEN <<>> ELSE <<Ask("contents", FirstContents, "istream")>>)
    \o <<Ask("effect", -1, "hglobal"), Ask("origin", -1, "hglobal")>>

\* validate
Validate(r) ==
    CASE r.format \in {"descriptor", "effect", "origin"} ->
            IF r.index # -1 THEN "DV_E_LINDEX"
            ELSE IF "hglobal" \in r.media THEN "S_OK" ELSE "DV_E_TYMED"
      [] r.format = "contents" ->
            IF ~HasContents(r.index) THEN "DV_E_LINDEX"
            ELSE IF "istream" \in r.media THEN "S_OK" ELSE "DV_E_TYMED"
      [] OTHER -> "DV_E_FORMATETC"

MediumForFirst(r) ==  \* mutant: the file that stands for all is handed out for all
    IF r.format = "contents" THEN [kind |-> "stream", of |-> FirstContents]
    ELSE [kind |-> "bytes", of |-> -1]

\* medium_for: what GetData returns for a request that is valid.  A source that is
\* not as long as its entry announces is refused.
MediumFor(r) ==
    CASE r.format = "contents" ->
            IF entries[r.index + 1].source = "right" THEN [kind |-> "stream", of |-> r.index]
            ELSE [kind |-> "error", of |-> r.index]
      [] r.format = "descriptor" -> [kind |-> "group", of |-> Len(entries)]
      [] OTHER -> [kind |-> "bytes", of |-> -1]

-----------------------------------------------------------------------------
(* Properties. *)

\* Whatever mix of calls and clones a consumer enumerates with, at every place it
\* is told of the format that is there, or skipped it, and of none twice; whatever it
\* is told of, the object then accepts and has a medium for, if the sources are what
\* their entries announce; and every stream it got is the file of the index it asked
\* for, of the length that was announced for it.
PasteSeesTheOffer ==
    /\ \A e \in Enumerator : LET x == enumerators[e] IN
          /\ Len(x.given) = x.position /\ x.position <= Len(Enumerated)
          /\ \A i \in DOMAIN x.given : x.given[i] \in {Enumerated[i], Skipped}
    /\ \A i \in DOMAIN Enumerated : LET r == Enumerated[i] IN
          /\ Validate(r) = "S_OK"
          /\ MediumFor(r).kind = "error" => \E k \in DOMAIN entries : entries[k].source = "wrong"
    /\ \A stream \in opened :
          /\ stream.of = stream.asked
          /\ ~entries[stream.asked + 1].dir /\ entries[stream.asked + 1].source = "right"
=============================================================================
