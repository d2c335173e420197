------------------------------- MODULE FileTree -------------------------------
(***************************************************************************)
(* The walk over the copied files and directories                          *)
(* (FileTreeSnapshot::capture, src/clipboard/local_file.rs) and the check  *)
(* of the list it produces, which the sender and every receiver make       *)
(* (validate_virtual_descriptor_tree, src/clipboard/data_object.rs).       *)
(*                                                                         *)
(* A file system maps a node to [dir, children]; two names may lead to one *)
(* node, and a junction to a directory above it.  A name is a number: 0 is *)
(* one no Windows program accepts, and 2k and 2k + 1 differ in case only.  *)
(* A path is a sequence of names, and its length stands for its UTF-16     *)
(* units.  A walk sees one state of the disk; sizes and times are left out. *)
(***************************************************************************)
EXTENDS Naturals, SequencesExt

CONSTANTS
    MaxDepth,     \* MAX_VIRTUAL_DEPTH
    MaxItems,     \* MAX_VIRTUAL_ITEMS
    MaxPathUnits, \* MAX_TOTAL_VIRTUAL_PATH_U16
    MaxRoots      \* MAX_CAPTURE_ROOTS

Valid(name) == name # 0

CaseFold(path) == [i \in DOMAIN path |-> path[i] \div 2]

Captured == [entries : Seq([path : Seq(Nat), dir : BOOLEAN]), units : Nat,
             error : {"none", "TreeTooDeep", "ManifestTooLarge", "InvalidName"}]

Empty == [entries |-> <<>>, units |-> 0, error |-> "none"]

\* children.sort_by: each name has its place among the others.
Sorted(names) ==
    [i \in 1 .. Cardinality(names) |->
        CHOOSE x \in names : Cardinality({y \in names : y < x}) = i - 1]

\* The directory is not one of those that are being walked.
EnterUnchecked(fs, node, active) == fs[node].dir  \* mutant

Enter(fs, node, active) == fs[node].dir /\ node \notin active

\* A call of capture_tree_entry, with the entries, path units and error so far.
Call(fs) == [node : DOMAIN fs, path : Seq(Nat), active : SUBSET DOMAIN fs, acc : Captured]

\* The children in order; after an error the calls return at once.
WalkChildren(fs, c, entered, walk) ==
    LET children == fs[c.node].children
        names == Sorted(DOMAIN children)
        after[i \in 0 .. Len(names)] ==
            IF i = 0 THEN entered
            ELSE walk[[node |-> children[names[i]], path |-> Append(c.path, names[i]),
                       active |-> c.active \cup {c.node}, acc |-> after[i - 1]]]
    IN  after[Len(names)]

Entered(fs, c) ==
    [c.acc EXCEPT !.entries = Append(@, [path |-> c.path, dir |-> fs[c.node].dir]),
                  !.units = @ + Len(c.path)]

WalkEntry(fs, c, walk) ==
    LET acc == c.acc
        entered == Entered(fs, c)
    IN  CASE acc.error # "none" -> acc
          [] acc.error = "none" /\ Len(c.path) > MaxDepth -> [acc EXCEPT !.error = "TreeTooDeep"]
          [] acc.error = "none" /\ Len(c.path) <= MaxDepth
             /\ (Len(acc.entries) >= MaxItems \/ entered.units > MaxPathUnits) ->
                [acc EXCEPT !.error = "ManifestTooLarge"]
          [] OTHER ->
                IF ~Enter(fs, c.node, c.active) THEN entered
                ELSE IF \E name \in DOMAIN fs[c.node].children : ~Valid(name)
                     THEN [entered EXCEPT !.error = "InvalidName"]
                     ELSE WalkChildren(fs, c, entered, walk)

\* capture_tree_entry, by the number of levels that are left below its path.
Walk(fs) ==
    LET walk[left \in 0 .. MaxDepth] ==
            [c \in Call(fs) |-> WalkEntry(fs, c, IF left = 0 THEN <<>> ELSE walk[left - 1])]
    IN  walk[MaxDepth]

\* Two copied paths are equal, or one lies inside the other.
RootsOverlap(roots) ==
    \E i, j \in DOMAIN roots :
        i # j /\ IsPrefix(CaseFold(roots[i].path), CaseFold(roots[j].path))

\* The units of a family of paths, those of equal paths counted for each.
PathUnits(paths) == Cardinality(UNION {{x} \X (1 .. Len(paths[x])) : x \in DOMAIN paths})

\* validate_virtual_descriptor_tree
ValidTree(entries) ==
    LET paths == {CaseFold(entries[i].path) : i \in DOMAIN entries}
        dirs  == {CaseFold(entries[i].path) : i \in {j \in DOMAIN entries : entries[j].dir}}
    IN  /\ Len(entries) \in 1 .. MaxItems
        /\ PathUnits([i \in DOMAIN entries |-> entries[i].path]) <= MaxPathUnits
        /\ \A i \in DOMAIN entries :
              LET path == entries[i].path IN
              /\ Len(path) <= MaxDepth
              /\ \A k \in DOMAIN path : Valid(path[k])
              /\ \A depth \in 1 .. Len(path) - 1 : CaseFold(SubSeq(path, 1, depth)) \in dirs
        /\ Cardinality(paths) = Len(entries)

Failed(reason) == [Empty EXCEPT !.error = reason]

\* FileTreeSnapshot::capture of roots, which are records [path, node].
Capture(fs, roots) ==
    LET WalkRoot(acc, r) ==
            IF acc.error = "none" /\ ~Valid(Last(r.path)) THEN Failed("InvalidName")
            ELSE Walk(fs)[[node |-> r.node, path |-> <<Last(r.path)>>, active |-> {}, acc |-> acc]]
        after[i \in 0 .. Len(roots)] == IF i = 0 THEN Empty ELSE WalkRoot(after[i - 1], roots[i])
        walked == after[Len(roots)]
    IN  IF roots = <<>> \/ Len(roots) > MaxRoots THEN Failed("TooManyItems")
        ELSE IF RootsOverlap(roots) THEN Failed("InvalidPath")
        ELSE IF walked.error # "none" THEN Failed(walked.error)
        ELSE IF ~ValidTree(walked.entries) THEN Failed("Descriptor")
        ELSE walked

-----------------------------------------------------------------------------
(* What the walk is for, stated over the paths of the file system. *)

\* The paths below a root by length: trails of nodes in which no directory
\* is entered from inside itself.
Trails(fs, root) ==
    LET level[n \in 1 .. MaxDepth + 1] ==
          IF n = 1 THEN {[path |-> <<Last(root.path)>>, nodes |-> <<root.node>>]}
          ELSE UNION {LET node == Last(t.nodes) IN
                      IF fs[node].dir /\ node \notin ToSet(Front(t.nodes))
                      THEN {[path  |-> Append(t.path, name),
                             nodes |-> Append(t.nodes, fs[node].children[name])] :
                               name \in DOMAIN fs[node].children}
                      ELSE {} : t \in level[n - 1]}
    IN  UNION {level[n] : n \in 1 .. MaxDepth + 1}

\* Within the limits of a manifest a selection is captured completely, each
\* path once and each directory before what it holds, whatever junctions there
\* are; a cycle does not make a tree too deep.  It is refused exactly if the
\* copied paths overlap, a limit is exceeded, a name cannot be created on
\* Windows or two paths differ in case only.
CaptureIsExact(fs, roots, c) ==
    LET items == UNION {{i} \X {t.path : t \in Trails(fs, roots[i])} : i \in DOMAIN roots}
        paths == {item[2] : item \in items}
        acceptable ==
            /\ Len(roots) \in 1 .. MaxRoots
            /\ ~RootsOverlap(roots)
            /\ \A p \in paths : Len(p) <= MaxDepth /\ \A k \in DOMAIN p : Valid(p[k])
            /\ Cardinality(items) <= MaxItems
            /\ PathUnits([item \in items |-> item[2]]) <= MaxPathUnits
            /\ Cardinality({CaseFold(p) : p \in paths}) = Cardinality(items)
    IN  /\ (c.error = "none") <=> acceptable
        /\ acceptable =>
              /\ {c.entries[i].path : i \in DOMAIN c.entries} = paths
              /\ \A i, j \in DOMAIN c.entries :
                    i < j => ~IsPrefix(c.entries[j].path, c.entries[i].path)
=============================================================================
