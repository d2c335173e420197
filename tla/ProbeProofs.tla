------------------------------ MODULE ProbeProofs ------------------------------
(***************************************************************************)
(* Theorems about what a diagnostic process may run (Probes), for every    *)
(* value of the constants of each part.                                    *)
(*                                                                         *)
(* The walk of copied directories (FileTree), of every file system whose   *)
(* directories are finite: it finds exactly the paths below the selection, *)
(* or refuses what the code says it refuses.                               *)
(*                                                                         *)
(* The capture session (FileCapture).  What can be pasted: it puts its     *)
(* object on the clipboard only when it is about to hold it, and gives it  *)
(* up only when it sees that something else is there or that it was read   *)
(* before it held it (PasteOK).  What is   *)
(* delivered: a source is opened once, by one thread (OpenersOK), and as   *)
(* long as its offer lives the open handle keeps the file from changing    *)
(* (ServedOK).                                                             *)
(*                                                                         *)
(* The object that is pasted (DataObject), the process around it           *)
(* (ProbeProcess) and the secure fetch (SecureFetch).                      *)
(*                                                                         *)
(* The loopback transfer (Loopback).  Reads of one stream exclude each     *)
(* other and a stream does not move during a read (ReadersOK), so the      *)
(* bytes a reader has begin at the position of its stream and the range on *)
(* its way is the next one, within the file (RangesOK).                    *)
(*                                                                         *)
(* At the end, the theorems that a process which runs one of these parts   *)
(* keeps.                                                                  *)
(***************************************************************************)
EXTENDS Probes, FiniteSetTheorems, SequenceTheorems, TLAPS

-----------------------------------------------------------------------------
(* The walk of a file system, for every file system.  Its loops are recursive *)
(* functions: a function that satisfies the recursion exists, by induction    *)
(* over its length.                                                           *)

LEMMA Induction ==
    ASSUME NEW S, 0 \in S, \A n \in Nat : n \in S => n + 1 \in S
    PROVE  \A n \in Nat : n \in S
<1> DEFINE bad  == {n \in Nat : n \notin S}
           less == {p \in Nat \X Nat : p[1] < p[2]}
<1> SUFFICES ASSUME bad # {} PROVE FALSE
    OBVIOUS
<1>1. IsWellFoundedOn(less, Nat)
      BY NatLessThanWellFounded DEF OpToRel
<1>2. PICK m \in bad : \A r \in bad : ~(<<r, m>> \in less)
  <2>1. bad \subseteq Nat
        OBVIOUS
  <2>2. QED
        BY <1>1, <2>1, WFMin
<1>3. m \in Nat /\ m # 0
      OBVIOUS
<1>4. m - 1 \in Nat /\ m - 1 < m /\ (m - 1) + 1 = m
      BY <1>3
<1>5. <<m - 1, m>> \in less
      BY <1>3, <1>4
<1>6. m - 1 \in S
      BY <1>2, <1>4, <1>5
<1>7. QED
      BY <1>2, <1>4, <1>6

\* The children of a directory are walked one after the other.
InOrder(f, fs, c, entered, walk, names) ==
    /\ f[0] = entered
    /\ \A i \in 1 .. Len(names) :
          f[i] = walk[[node |-> fs[c.node].children[names[i]], path |-> Append(c.path, names[i]),
                       active |-> c.active \cup {c.node}, acc |-> f[i - 1]]]

LEMMA ChildrenInOrder ==
    ASSUME NEW fs, NEW c, NEW entered, NEW walk, NEW names,
           names = Tree!Sorted(DOMAIN fs[c.node].children), Len(names) \in Nat
    PROVE  \E f : /\ InOrder(f, fs, c, entered, walk, names)
                  /\ Tree!WalkChildren(fs, c, entered, walk) = f[Len(names)]
<1> DEFINE Visit(i, a) == walk[[node |-> fs[c.node].children[names[i]],
                                path |-> Append(c.path, names[i]),
                                active |-> c.active \cup {c.node}, acc |-> a]]
           Recurs(f, n) == f = [i \in 0 .. n |-> IF i = 0 THEN entered ELSE Visit(i, f[i - 1])]
           S == {n \in Nat : \E f : Recurs(f, n)}
<1>1. 0 \in S
  <2>1. Recurs([i \in 0 .. 0 |-> entered], 0)
        OBVIOUS
  <2>2. QED
        BY <2>1
<1>2. ASSUME NEW n \in Nat, n \in S PROVE n + 1 \in S
  <2>1. PICK f : Recurs(f, n)
        BY <1>2
  <2> HIDE DEF Visit
  <2> DEFINE g == [i \in 0 .. n + 1 |-> IF i = n + 1 THEN Visit(n + 1, f[n]) ELSE f[i]]
  <2>2. \A i \in 0 .. n : f[i] = IF i = 0 THEN entered ELSE Visit(i, f[i - 1])
        BY <2>1
  <2>3. \A i \in 0 .. n + 1 : g[i] = IF i = 0 THEN entered ELSE Visit(i, g[i - 1])
    <3> SUFFICES ASSUME NEW i \in 0 .. n + 1 PROVE g[i] = IF i = 0 THEN entered ELSE Visit(i, g[i - 1])
        OBVIOUS
    <3>1. CASE i = n + 1
      <4>1. i # 0 /\ i - 1 = n /\ n # n + 1 /\ n \in 0 .. n + 1
            BY <3>1
      <4>2. g[i] = Visit(n + 1, f[n]) /\ g[i - 1] = f[n]
            BY <3>1, <4>1
      <4>3. QED
            BY <3>1, <4>1, <4>2
    <3>2. CASE i # n + 1
      <4>1. i \in 0 .. n /\ (i # 0 => i - 1 \in 0 .. n /\ i - 1 # n + 1)
            BY <3>2
      <4>2. g[i] = f[i] /\ (i # 0 => g[i - 1] = f[i - 1])
            BY <3>2, <4>1
      <4>3. QED
            BY <2>2, <4>1, <4>2
    <3>3. QED
          BY <3>1, <3>2
  <2>4. g = [i \in 0 .. n + 1 |-> g[i]]
        OBVIOUS
  <2> HIDE DEF g
  <2>5. Recurs(g, n + 1)
        BY <2>3, <2>4
  <2> HIDE DEF Recurs
  <2>6. QED
        BY <2>5
<1> HIDE DEF S, Visit
<1>3. Len(names) \in S
      BY <1>1, <1>2, Induction
<1> DEFINE after == CHOOSE f : Recurs(f, Len(names))
<1>4. Recurs(after, Len(names))
      BY <1>3 DEF S
<1>5. Tree!WalkChildren(fs, c, entered, walk) = after[Len(names)]
      BY DEF Tree!WalkChildren, Visit
<1> HIDE DEF after, Visit
<1>6. \A i \in 0 .. Len(names) : after[i] = IF i = 0 THEN entered ELSE Visit(i, after[i - 1])
      BY <1>4
<1>7. after[0] = entered /\ \A i \in 1 .. Len(names) : after[i] = Visit(i, after[i - 1])
      BY <1>6
<1>8. InOrder(after, fs, c, entered, walk, names)
      BY <1>7 DEF Visit, InOrder
<1>9. QED
      BY <1>5, <1>8

\* A walk visits what lies one level deeper with a walk of one level less.
LEMMA WalkByLevel ==
    ASSUME NEW fs, MaxDepth \in Nat
    PROVE  \E w : /\ Tree!Walk(fs) = w[MaxDepth]
                  /\ \A left \in 0 .. MaxDepth : \A c \in Tree!Call(fs) :
                        w[left][c] = Tree!WalkEntry(fs, c, IF left = 0 THEN <<>> ELSE w[left - 1])
<1> DEFINE Level(below) == [c \in Tree!Call(fs) |-> Tree!WalkEntry(fs, c, below)]
           Recurs(f, n) == f = [left \in 0 .. n |->
                                 [c \in Tree!Call(fs) |->
                                     Tree!WalkEntry(fs, c, IF left = 0 THEN <<>> ELSE f[left - 1])]]
           S == {n \in Nat : \E f : Recurs(f, n)}
<1>1. 0 \in S
  <2>1. Recurs([i \in 0 .. 0 |-> Level(<<>>)], 0)
        OBVIOUS
  <2>2. QED
        BY <2>1
<1>2. ASSUME NEW n \in Nat, n \in S PROVE n + 1 \in S
  <2>1. PICK f : Recurs(f, n)
        BY <1>2
  <2> DEFINE g == [i \in 0 .. n + 1 |-> IF i = n + 1 THEN Level(f[n]) ELSE f[i]]
  <2>2. \A i \in 0 .. n : f[i] = Level(IF i = 0 THEN <<>> ELSE f[i - 1])
        BY <2>1
  <2> HIDE DEF Level
  <2>3. \A i \in 0 .. n + 1 : g[i] = Level(IF i = 0 THEN <<>> ELSE g[i - 1])
    <3> SUFFICES ASSUME NEW i \in 0 .. n + 1 PROVE g[i] = Level(IF i = 0 THEN <<>> ELSE g[i - 1])
        OBVIOUS
    <3>1. CASE i = n + 1
      <4>1. i # 0 /\ i - 1 = n /\ n # n + 1 /\ n \in 0 .. n + 1
            BY <3>1
      <4>2. g[i] = Level(f[n]) /\ g[i - 1] = f[n]
            BY <3>1, <4>1
      <4>3. QED
            BY <3>1, <4>1, <4>2
    <3>2. CASE i # n + 1
      <4>1. i \in 0 .. n /\ (i # 0 => i - 1 \in 0 .. n /\ i - 1 # n + 1)
            BY <3>2
      <4>2. g[i] = f[i] /\ (i # 0 => g[i - 1] = f[i - 1])
            BY <3>2, <4>1
      <4>3. QED
            BY <2>2, <4>1, <4>2
    <3>3. QED
          BY <3>1, <3>2
  <2>4. g = [i \in 0 .. n + 1 |-> g[i]]
        OBVIOUS
  <2> HIDE DEF g
  <2>5. g = [i \in 0 .. n + 1 |-> Level(IF i = 0 THEN <<>> ELSE g[i - 1])]
        BY <2>3, <2>4
  <2>6. QED
        BY <2>5 DEF Level
<1> HIDE DEF S
<1>3. MaxDepth \in S
      BY <1>1, <1>2, Induction
<1> DEFINE walk == CHOOSE f : Recurs(f, MaxDepth)
<1>4. Recurs(walk, MaxDepth)
      BY <1>3 DEF S
<1>5. Tree!Walk(fs) = walk[MaxDepth]
      BY DEF Tree!Walk
<1> HIDE DEF walk
<1>6. \A left \in 0 .. MaxDepth :
          walk[left] = [c \in Tree!Call(fs) |-> Tree!WalkEntry(fs, c, IF left = 0 THEN <<>> ELSE walk[left - 1])]
      BY <1>4
<1>7. ASSUME NEW left \in 0 .. MaxDepth, NEW c \in Tree!Call(fs)
      PROVE  walk[left][c] = Tree!WalkEntry(fs, c, IF left = 0 THEN <<>> ELSE walk[left - 1])
  <2> DEFINE below == IF left = 0 THEN <<>> ELSE walk[left - 1]
  <2>1. walk[left] = [d \in Tree!Call(fs) |-> Tree!WalkEntry(fs, d, below)]
        BY <1>6
  <2> HIDE DEF below
  <2>2. walk[left][c] = Tree!WalkEntry(fs, c, below)
        BY <2>1
  <2>3. QED
        BY <2>2 DEF below
<1>8. QED
      BY <1>5, <1>7

\* Every name is visited, and once.
LEMMA SortedNames ==
    ASSUME NEW names, names \subseteq Nat, IsFiniteSet(names)
    PROVE  LET q == Tree!Sorted(names) IN
           /\ Len(q) \in Nat /\ \A i \in 1 .. Len(q) : q[i] \in names
           /\ \A i, j \in 1 .. Len(q) : i # j => q[i] # q[j]
           /\ \A x \in names : \E i \in 1 .. Len(q) : q[i] = x
<1> DEFINE n == Cardinality(names)
           Below(x) == {y \in names : y < x}
           rank == [x \in names |-> Cardinality(Below(x)) + 1]
           q == Tree!Sorted(names)
<1>1. n \in Nat
      BY FS_CardinalityType
<1>2. q = [i \in 1 .. n |-> CHOOSE x \in names : Cardinality(Below(x)) = i - 1]
      BY DEF Tree!Sorted, Tree!Cardinality, Cardinality
<1>3. \A x \in names : IsFiniteSet(Below(x)) /\ Cardinality(Below(x)) \in Nat /\ Cardinality(Below(x)) < n
  <2> SUFFICES ASSUME NEW x \in names
               PROVE  IsFiniteSet(Below(x)) /\ Cardinality(Below(x)) \in Nat /\ Cardinality(Below(x)) < n
      OBVIOUS
  <2>1. Below(x) \subseteq names /\ x \notin Below(x)
        OBVIOUS
  <2> HIDE DEF Below
  <2>2. IsFiniteSet(Below(x)) /\ Cardinality(Below(x)) <= n /\ Cardinality(Below(x)) # n
        BY <2>1, FS_Subset
  <2>3. Cardinality(Below(x)) \in Nat
        BY <2>2, FS_CardinalityType
  <2>4. QED
        BY <1>1, <2>2, <2>3
<1>4. ASSUME NEW x \in names, NEW y \in names, x < y
      PROVE  Cardinality(Below(x)) # Cardinality(Below(y))
  <2>1. x \in Nat /\ y \in Nat /\ \A z \in names : z \in Nat
        OBVIOUS
  <2>2. Below(x) \subseteq Below(y) /\ x \in Below(y) /\ x \notin Below(x)
    <3>1. \A z \in names : z < x => z < y
          BY <1>4, <2>1
    <3>2. ~(x < x)
          BY <2>1
    <3>3. QED
          BY <1>4, <3>1, <3>2
  <2>3. IsFiniteSet(Below(y))
        BY <1>3
  <2> HIDE DEF Below
  <2>4. QED
        BY <2>2, <2>3, FS_Subset
<1>5. rank \in Injection(names, 1 .. n)
  <2>1. \A x \in names : rank[x] \in 1 .. n
    <3> HIDE DEF Below
    <3>1. QED
          BY <1>1, <1>3
  <2>2. ASSUME NEW x \in names, NEW y \in names, x # y PROVE rank[x] # rank[y]
    <3>1. x < y \/ y < x
          BY <2>2
    <3>2. Cardinality(Below(x)) # Cardinality(Below(y))
          BY <1>4, <3>1
    <3> HIDE DEF Below
    <3>3. QED
          BY <1>3, <3>2
  <2> HIDE DEF Below
  <2>3. rank \in [names -> 1 .. n]
        BY <2>1
  <2>4. QED
        BY <2>2, <2>3 DEF Injection, IsInjective
<1>6. IsFiniteSet(1 .. n) /\ Cardinality(1 .. n) = n
      BY <1>1, FS_Interval
<1>7. rank \in Surjection(names, 1 .. n)
      BY <1>5, <1>6, FS_Injection
<1>8. \A i \in 1 .. n : \E x \in names : Cardinality(Below(x)) = i - 1
  <2> SUFFICES ASSUME NEW i \in 1 .. n PROVE \E x \in names : Cardinality(Below(x)) = i - 1
      OBVIOUS
  <2>1. PICK x \in names : rank[x] = i
        BY <1>7 DEF Surjection
  <2> HIDE DEF Below
  <2>2. Cardinality(Below(x)) = i - 1
        BY <1>3, <2>1
  <2>3. QED
        BY <2>2
<1> HIDE DEF Below, q
<1>9. \A i \in 1 .. n : q[i] \in names /\ Cardinality(Below(q[i])) = i - 1
      BY <1>2, <1>8
<1>10. Len(q) = n
       BY <1>1, <1>2
<1>11. \A i, j \in 1 .. n : i # j => q[i] # q[j]
       BY <1>9
<1>12. ASSUME NEW x \in names PROVE \E i \in 1 .. n : q[i] = x
  <2> DEFINE i == Cardinality(Below(x)) + 1
  <2>1. i \in 1 .. n /\ i - 1 = Cardinality(Below(x))
        BY <1>1, <1>3
  <2>2. q[i] \in names /\ Cardinality(Below(q[i])) = Cardinality(Below(x))
        BY <1>9, <2>1
  <2> HIDE DEF i
  <2>3. ~(q[i] < x) /\ ~(x < q[i])
        BY <1>4, <2>2
  <2>4. q[i] = x
    <3>1. q[i] \in Nat /\ x \in Nat
          BY <2>2
    <3>2. QED
          BY <2>3, <3>1
  <2>5. QED
        BY <2>1, <2>4
<1>13. QED
       BY <1>1, <1>9, <1>10, <1>11, <1>12 DEF q

\* What Windows gives: directories of finitely many names, each of a node.
FileSystem(fs) ==
    \A n \in DOMAIN fs : LET children == fs[n].children IN
        /\ fs[n].dir \in BOOLEAN
        /\ DOMAIN children \subseteq Nat /\ IsFiniteSet(DOMAIN children)
        /\ \A name \in DOMAIN children : children[name] \in DOMAIN fs

\* A trail goes from a node to one of its children, out of a directory that it
\* entered once.
OpensAt(fs, nodes, k) == fs[nodes[k]].dir /\ \A j \in 1 .. k - 1 : nodes[j] # nodes[k]

Follows(fs, path, nodes) ==
    \A k \in 1 .. Len(path) - 1 :
        /\ OpensAt(fs, nodes, k)
        /\ path[k + 1] \in DOMAIN fs[nodes[k]].children
        /\ nodes[k + 1] = fs[nodes[k]].children[path[k + 1]]

Trail(fs) ==
    {t \in [path : Seq(Nat), nodes : Seq(DOMAIN fs)] :
        /\ Len(t.path) \in 1 .. MaxDepth + 1 /\ Len(t.nodes) = Len(t.path)
        /\ Follows(fs, t.path, t.nodes)}

End(t) == t.nodes[Len(t.nodes)]

Opens(fs, t) == OpensAt(fs, t.nodes, Len(t.nodes))

Child(fs, t, name) ==
    [path |-> Append(t.path, name), nodes |-> Append(t.nodes, fs[End(t)].children[name])]

Agree(t, u) == \A k \in 1 .. Len(t.path) : u.path[k] = t.path[k] /\ u.nodes[k] = t.nodes[k]

Under(fs, t) == {u \in Trail(fs) : Len(t.path) <= Len(u.path) /\ Agree(t, u)}

Below(fs, t) == {u.path : u \in Under(fs, t)}

LEMMA TrailFacts ==
    ASSUME NEW fs, NEW t \in Trail(fs), MaxDepth \in Nat
    PROVE  /\ t = [path |-> t.path, nodes |-> t.nodes]
           /\ t.path \in Seq(Nat) /\ t.nodes \in Seq(DOMAIN fs)
           /\ Len(t.path) \in Nat /\ Len(t.path) >= 1 /\ Len(t.path) <= MaxDepth + 1
           /\ Len(t.nodes) = Len(t.path)
           /\ \A k \in 1 .. Len(t.path) : t.path[k] \in Nat /\ t.nodes[k] \in DOMAIN fs
           /\ Follows(fs, t.path, t.nodes)
<1>1. t \in [path : Seq(Nat), nodes : Seq(DOMAIN fs)]
      BY DEF Trail
<1>2. t.path \in Seq(Nat) /\ t.nodes \in Seq(DOMAIN fs) /\ t = [path |-> t.path, nodes |-> t.nodes]
      BY <1>1
<1>3. Len(t.path) \in 1 .. MaxDepth + 1 /\ Len(t.nodes) = Len(t.path) /\ Follows(fs, t.path, t.nodes)
      BY DEF Trail
<1>4. \A k \in 1 .. Len(t.path) : t.path[k] \in Nat
      BY <1>2
<1>5. \A k \in 1 .. Len(t.path) : t.nodes[k] \in DOMAIN fs
      BY <1>2, <1>3
<1>6. QED
      BY <1>2, <1>3, <1>4, <1>5

\* A path of what is below a trail continues its path.
LEMMA PathsBelow ==
    ASSUME NEW fs, NEW t \in Trail(fs), NEW p \in Below(fs, t), MaxDepth \in Nat
    PROVE  /\ p \in Seq(Nat) /\ Len(p) \in Nat /\ Len(t.path) <= Len(p) /\ Len(p) <= MaxDepth + 1
           /\ \A k \in 1 .. Len(t.path) : p[k] = t.path[k]
<1>1. PICK u \in Under(fs, t) : p = u.path
      BY DEF Below
<1>2. u \in Trail(fs) /\ Len(t.path) <= Len(u.path) /\ Agree(t, u)
      BY DEF Under
<1>3. u.path \in Seq(Nat) /\ Len(u.path) \in Nat /\ Len(u.path) <= MaxDepth + 1
      BY <1>2, TrailFacts
<1>4. QED
      BY <1>1, <1>2, <1>3 DEF Agree

LEMMA ChildIsTrail ==
    ASSUME NEW fs, FileSystem(fs), MaxDepth \in Nat, NEW t \in Trail(fs), Len(t.path) <= MaxDepth, Opens(fs, t),
           NEW name \in DOMAIN fs[End(t)].children
    PROVE  LET u == Child(fs, t, name)  n == Len(t.path) IN
           /\ u \in Trail(fs)
           /\ Len(u.path) = n + 1 /\ u.path[n + 1] = name /\ u.path = Append(t.path, name)
           /\ End(u) = fs[End(t)].children[name]
           /\ Agree(t, u)
<1> DEFINE u == Child(fs, t, name)
           n == Len(t.path)
           next == fs[End(t)].children[name]
<1>1. /\ t.path \in Seq(Nat) /\ t.nodes \in Seq(DOMAIN fs)
      /\ n \in Nat /\ n >= 1 /\ Len(t.nodes) = n
      /\ \A k \in 1 .. n : t.path[k] \in Nat /\ t.nodes[k] \in DOMAIN fs
      /\ Follows(fs, t.path, t.nodes)
      BY TrailFacts
<1>2. End(t) = t.nodes[n] /\ End(t) \in DOMAIN fs
      BY <1>1 DEF End
<1>3. name \in Nat /\ next \in DOMAIN fs
      BY <1>2 DEF FileSystem
<1> HIDE DEF next
<1>4. u.path = Append(t.path, name) /\ u.nodes = Append(t.nodes, next)
      BY DEF Child, next
<1>5. u \in [path : Seq(Nat), nodes : Seq(DOMAIN fs)]
  <2>1. Append(t.path, name) \in Seq(Nat) /\ Append(t.nodes, next) \in Seq(DOMAIN fs)
        BY <1>1, <1>3
  <2>2. QED
        BY <2>1 DEF Child, next
<1> HIDE DEF u
<1>6. /\ Len(u.path) = n + 1 /\ Len(u.nodes) = n + 1 /\ u.path[n + 1] = name /\ u.nodes[n + 1] = next
      /\ \A k \in 1 .. n : u.path[k] = t.path[k] /\ u.nodes[k] = t.nodes[k]
      BY <1>1, <1>3, <1>4
<1>7. Follows(fs, u.path, u.nodes)
  <2> SUFFICES ASSUME NEW k \in 1 .. n
               PROVE  /\ OpensAt(fs, u.nodes, k)
                      /\ u.path[k + 1] \in DOMAIN fs[u.nodes[k]].children
                      /\ u.nodes[k + 1] = fs[u.nodes[k]].children[u.path[k + 1]]
      BY <1>1, <1>6 DEF Follows
  <2>1. OpensAt(fs, u.nodes, k) <=> OpensAt(fs, t.nodes, k)
    <3>1. \A j \in 1 .. k - 1 : j \in 1 .. n
          BY <1>1
    <3>2. QED
          BY <1>6, <3>1 DEF OpensAt
  <2>2. CASE k = n
    <3>1. OpensAt(fs, t.nodes, k)
          BY <1>1, <2>2 DEF Opens
    <3>2. u.nodes[k] = End(t) /\ u.path[k + 1] = name /\ u.nodes[k + 1] = next
          BY <1>2, <1>6, <2>2
    <3>3. QED
          BY <2>1, <3>1, <3>2 DEF next
  <2>3. CASE k # n
    <3>1. k \in 1 .. n - 1 /\ k + 1 \in 1 .. n
          BY <1>1, <2>3
    <3>2. QED
          BY <1>1, <1>6, <2>1, <3>1 DEF Follows
  <2>4. QED
        BY <2>2, <2>3
<1>8. n + 1 \in 1 .. MaxDepth + 1
      BY <1>1
<1>9. u \in Trail(fs)
      BY <1>5, <1>6, <1>7, <1>8 DEF Trail
<1>10. End(u) = next /\ Agree(t, u)
       BY <1>6 DEF End, Agree
<1>11. QED
       BY <1>4, <1>6, <1>9, <1>10 DEF u, next

\* Below a file, a directory that is being walked, or the deepest level, there
\* is nothing more.
LEMMA NothingBelow ==
    ASSUME NEW fs, MaxDepth \in Nat, NEW t \in Trail(fs), Len(t.path) = MaxDepth + 1 \/ ~Opens(fs, t)
    PROVE  Below(fs, t) = {t.path}
<1> DEFINE n == Len(t.path)
<1>1. /\ t.path \in Seq(Nat) /\ n \in Nat /\ n >= 1 /\ Len(t.nodes) = n
      BY TrailFacts
<1>2. t \in Under(fs, t)
      BY <1>1 DEF Under, Agree
<1>3. ASSUME NEW u \in Under(fs, t) PROVE u.path = t.path
  <2>1. u \in Trail(fs) /\ n <= Len(u.path) /\ Agree(t, u)
        BY DEF Under
  <2>2. u.path \in Seq(Nat) /\ Len(u.path) \in Nat /\ Len(u.path) <= MaxDepth + 1 /\ Follows(fs, u.path, u.nodes)
        BY <2>1, TrailFacts
  <2>3. ASSUME n # Len(u.path) PROVE FALSE
    <3>1. n \in 1 .. Len(u.path) - 1
          BY <1>1, <2>1, <2>2, <2>3
    <3>2. OpensAt(fs, u.nodes, n)
          BY <2>2, <3>1 DEF Follows
    <3>3. \A j \in 1 .. n - 1 : j \in 1 .. n
          BY <1>1
    <3>4. n \in 1 .. n
          BY <1>1
    <3>5. OpensAt(fs, t.nodes, n)
          BY <2>1, <3>2, <3>3, <3>4 DEF OpensAt, Agree
    <3>6. Opens(fs, t)
          BY <1>1, <3>5 DEF Opens
    <3>7. n = MaxDepth + 1
          BY <3>6
    <3>8. QED
          BY <2>1, <2>2, <2>3, <3>7
  <2>4. Len(u.path) = n
        BY <2>3
  <2>5. \A k \in 1 .. Len(u.path) : u.path[k] = t.path[k]
        BY <2>1, <2>4 DEF Agree
  <2>6. QED
        BY <1>1, <2>2, <2>4, <2>5, SeqEqual
<1>4. QED
      BY <1>2, <1>3 DEF Below

LEMMA ChildrenBelow ==
    ASSUME NEW fs, FileSystem(fs), MaxDepth \in Nat, NEW t \in Trail(fs), Len(t.path) <= MaxDepth, Opens(fs, t)
    PROVE  \A p : p \in Below(fs, t) <=>
               p = t.path \/ \E name \in DOMAIN fs[End(t)].children : p \in Below(fs, Child(fs, t, name))
<1> DEFINE n == Len(t.path)
           names == DOMAIN fs[End(t)].children
<1>1. /\ t.path \in Seq(Nat) /\ n \in Nat /\ n >= 1 /\ Len(t.nodes) = n
      BY TrailFacts
<1>2. t \in Under(fs, t)
      BY <1>1 DEF Under, Agree
<1>3. ASSUME NEW u \in Under(fs, t), u.path # t.path
      PROVE  \E name \in names : u \in Under(fs, Child(fs, t, name))
  <2>1. u \in Trail(fs) /\ n <= Len(u.path) /\ Agree(t, u)
        BY DEF Under
  <2>2. u.path \in Seq(Nat) /\ Len(u.path) \in Nat /\ Follows(fs, u.path, u.nodes)
        BY <2>1, TrailFacts
  <2>3. Len(u.path) # n
    <3> SUFFICES ASSUME Len(u.path) = n PROVE FALSE
        OBVIOUS
    <3>1. \A k \in 1 .. Len(u.path) : u.path[k] = t.path[k]
          BY <2>1 DEF Agree
    <3>2. u.path = t.path
          BY <1>1, <2>2, <3>1, SeqEqual
    <3>3. QED
          BY <1>3, <3>2
  <2>4. n \in 1 .. Len(u.path) - 1 /\ n \in 1 .. n /\ n + 1 <= Len(u.path)
        BY <1>1, <2>1, <2>2, <2>3
  <2>5. u.nodes[n] = End(t)
        BY <1>1, <2>1, <2>4 DEF Agree, End
  <2> DEFINE name == u.path[n + 1]
  <2>6. name \in names /\ u.nodes[n + 1] = fs[End(t)].children[name]
        BY <2>2, <2>4, <2>5 DEF Follows
  <2> DEFINE c == Child(fs, t, name)
  <2> HIDE DEF c, name
  <2>7. /\ c \in Trail(fs) /\ Len(c.path) = n + 1 /\ c.path[n + 1] = name
        /\ End(c) = fs[End(t)].children[name] /\ Agree(t, c)
        BY <2>6, ChildIsTrail DEF c
  <2>8. Len(c.nodes) = n + 1
        BY <2>7, TrailFacts
  <2>9. Agree(c, u)
    <3> SUFFICES ASSUME NEW k \in 1 .. n + 1 PROVE u.path[k] = c.path[k] /\ u.nodes[k] = c.nodes[k]
        BY <2>7 DEF Agree
    <3>1. CASE k = n + 1
          BY <2>6, <2>7, <2>8, <3>1 DEF name, End
    <3>2. CASE k # n + 1
      <4>1. k \in 1 .. n
            BY <1>1, <3>2
      <4>2. QED
            BY <2>1, <2>7, <4>1 DEF Agree
    <3>3. QED
          BY <3>1, <3>2
  <2>10. u \in Under(fs, c)
         BY <2>1, <2>4, <2>7, <2>9 DEF Under
  <2>11. QED
         BY <2>6, <2>10 DEF c
<1>4. ASSUME NEW name \in names, NEW u \in Under(fs, Child(fs, t, name))
      PROVE  u \in Under(fs, t)
  <2> DEFINE c == Child(fs, t, name)
  <2>1. Len(c.path) = n + 1 /\ Agree(t, c)
        BY ChildIsTrail
  <2> HIDE DEF c
  <2>2. u \in Trail(fs) /\ n + 1 <= Len(u.path) /\ Agree(c, u)
        BY <2>1 DEF Under, c
  <2>3. Len(u.path) \in Nat
        BY <2>2, TrailFacts
  <2>4. \A k \in 1 .. n : k \in 1 .. n + 1
        BY <1>1
  <2>5. Agree(t, u)
        BY <2>1, <2>2, <2>4 DEF Agree
  <2>6. n <= Len(u.path)
        BY <1>1, <2>2, <2>3
  <2>7. QED
        BY <2>2, <2>5, <2>6 DEF Under
<1>5. QED
      BY <1>2, <1>3, <1>4 DEF Below

\* The entries, and the units of their paths.
Item == [path : Seq(Nat), dir : BOOLEAN]

Positions(e) == UNION {{k} \X (1 .. Len(e[k].path)) : k \in 1 .. Len(e)}

Units(e) == Cardinality(Positions(e))

LEMMA ItemFacts ==
    ASSUME NEW e \in Seq(Item)
    PROVE  /\ Len(e) \in Nat /\ DOMAIN e = 1 .. Len(e)
           /\ \A k \in 1 .. Len(e) : e[k] \in Item /\ e[k].path \in Seq(Nat) /\ Len(e[k].path) \in Nat
<1>1. Len(e) \in Nat /\ DOMAIN e = 1 .. Len(e)
      BY LenProperties
<1>2. \A k \in 1 .. Len(e) : e[k] \in Item
      BY ElementOfSeq
<1>3. \A x \in Item : x.path \in Seq(Nat) /\ Len(x.path) \in Nat
      BY DEF Item
<1>4. QED
      BY <1>1, <1>2, <1>3

LEMMA OneTo ==
    ASSUME NEW n \in Nat
    PROVE  IsFiniteSet(1 .. n) /\ Cardinality(1 .. n) = n
<1>1. 1 \in Int /\ n \in Int /\ (IF 1 > n THEN 0 ELSE n - 1 + 1) = n
      OBVIOUS
<1>2. QED
      BY <1>1, FS_Interval

LEMMA DisjointUnion ==
    ASSUME NEW S, NEW T, IsFiniteSet(S), IsFiniteSet(T), S \cap T = {}
    PROVE  IsFiniteSet(S \cup T) /\ Cardinality(S \cup T) = Cardinality(S) + Cardinality(T)
<1>1. IsFiniteSet(S \cup T) /\ Cardinality(S \cup T) = Cardinality(S) + Cardinality(T) - Cardinality(S \cap T)
      BY FS_Union
<1>2. Cardinality(S \cap T) = 0
      BY FS_EmptySet
<1>3. Cardinality(S) \in Nat /\ Cardinality(T) \in Nat
      BY FS_CardinalityType
<1>4. QED
      BY <1>1, <1>2, <1>3

LEMMA UnitsAreFinite ==
    ASSUME NEW e \in Seq(Item)
    PROVE  IsFiniteSet(Positions(e)) /\ Units(e) \in Nat
<1> DEFINE f == [k \in 1 .. Len(e) |-> {k} \X (1 .. Len(e[k].path))]
           family == {{k} \X (1 .. Len(e[k].path)) : k \in 1 .. Len(e)}
<1>1. f \in Surjection(1 .. Len(e), family)
      BY DEF Surjection
<1>2. IsFiniteSet(1 .. Len(e))
      BY ItemFacts, OneTo
<1>3. IsFiniteSet(family)
  <2> HIDE DEF f, family
  <2>1. QED
        BY <1>1, <1>2, FS_Surjection
<1>4. \A k \in 1 .. Len(e) : IsFiniteSet({k} \X (1 .. Len(e[k].path)))
  <2> SUFFICES ASSUME NEW k \in 1 .. Len(e) PROVE IsFiniteSet({k} \X (1 .. Len(e[k].path)))
      OBVIOUS
  <2>1. IsFiniteSet({k})
        BY FS_Singleton
  <2>2. Len(e[k].path) \in Nat
        BY ItemFacts
  <2>3. IsFiniteSet(1 .. Len(e[k].path))
        BY <2>2, OneTo
  <2>4. QED
        BY <2>1, <2>3, FS_Product
<1>5. \A T \in family : IsFiniteSet(T)
      BY <1>4
<1>6. Positions(e) = UNION family
      BY DEF Positions
<1> HIDE DEF family
<1>7. IsFiniteSet(Positions(e))
      BY <1>3, <1>5, <1>6, FS_UNION
<1>8. QED
      BY <1>7, FS_CardinalityType DEF Units

LEMMA PositionOf ==
    ASSUME NEW e, NEW x
    PROVE  x \in Positions(e) <=> \E k \in 1 .. Len(e) : \E u \in 1 .. Len(e[k].path) : x = <<k, u>>
BY DEF Positions

LEMMA UnitsOfAppend ==
    ASSUME NEW e \in Seq(Item), NEW x \in Item
    PROVE  Append(e, x) \in Seq(Item) /\ Units(Append(e, x)) = Units(e) + Len(x.path)
<1> DEFINE n == Len(e)
           new == {n + 1} \X (1 .. Len(x.path))
           a == Append(e, x)
<1>1. n \in Nat /\ Len(x.path) \in Nat
      BY ItemFacts DEF Item
<1>2. a \in Seq(Item) /\ Len(a) = n + 1 /\ a[n + 1] = x /\ \A k \in 1 .. n : a[k] = e[k]
      OBVIOUS
<1> HIDE DEF a
<1>3. Positions(a) = Positions(e) \cup new
  <2>1. \A k : k \in 1 .. n + 1 <=> k \in 1 .. n \/ k = n + 1
        BY <1>1
  <2>2. ASSUME NEW y PROVE y \in Positions(a) <=> y \in Positions(e) \/ \E u \in 1 .. Len(x.path) : y = <<n + 1, u>>
        BY <1>2, <2>1, PositionOf
  <2>3. \A y : y \in new <=> \E u \in 1 .. Len(x.path) : y = <<n + 1, u>>
        OBVIOUS
  <2> HIDE DEF new
  <2>4. \A y : y \in Positions(a) <=> y \in Positions(e) \/ y \in new
        BY <2>2, <2>3
  <2>5. QED
        BY <2>4
<1>4. Positions(e) \cap new = {}
  <2> SUFFICES ASSUME NEW y \in Positions(e), y \in new PROVE FALSE
      OBVIOUS
  <2>1. PICK k \in 1 .. n : \E u \in 1 .. Len(e[k].path) : y = <<k, u>>
        BY PositionOf
  <2>2. k = n + 1
        BY <2>1
  <2>3. QED
        BY <1>1, <2>1, <2>2
<1>5. IsFiniteSet(new) /\ Cardinality(new) = Len(x.path)
  <2> DEFINE units == 1 .. Len(x.path)
             last == {n + 1}
  <2>1. IsFiniteSet(last) /\ Cardinality(last) = 1
        BY FS_Singleton
  <2>2. IsFiniteSet(units) /\ Cardinality(units) = Len(x.path)
        BY <1>1, OneTo
  <2> HIDE DEF units, last
  <2>3. IsFiniteSet(last \X units) /\ Cardinality(last \X units) = Cardinality(last) * Cardinality(units)
        BY <2>1, <2>2, FS_Product
  <2>4. 1 * Len(x.path) = Len(x.path)
        BY <1>1
  <2>5. QED
        BY <2>1, <2>2, <2>3, <2>4 DEF units, last
<1> HIDE DEF new
<1>6. IsFiniteSet(Positions(e)) /\ Cardinality(Positions(e)) \in Nat
      BY UnitsAreFinite DEF Units
<1>7. Cardinality(Positions(a)) = Cardinality(Positions(e)) + Len(x.path)
      BY <1>3, <1>4, <1>5, <1>6, DisjointUnion
<1>8. QED
      BY <1>2, <1>7 DEF Units, a

LEMMA UnitsOfEntries ==
    ASSUME NEW e \in Seq(Item)
    PROVE  Tree!PathUnits([i \in DOMAIN e |-> e[i].path]) = Units(e)
<1> DEFINE f == [i \in DOMAIN e |-> e[i].path]
<1>1. DOMAIN f = 1 .. Len(e) /\ \A k \in 1 .. Len(e) : f[k] = e[k].path
      BY ItemFacts
<1> HIDE DEF f
<1>2. UNION {{x} \X (1 .. Len(f[x])) : x \in DOMAIN f} = Positions(e)
      BY <1>1 DEF Positions
<1>3. Tree!PathUnits(f) = Cardinality(UNION {{x} \X (1 .. Len(f[x])) : x \in DOMAIN f})
      BY DEF Tree!PathUnits, Tree!Cardinality, Cardinality
<1>4. QED
      BY <1>2, <1>3 DEF Units, f

\* No entry, no unit.
LEMMA UnitsOfNothing == <<>> \in Seq(Item) /\ Units(<<>>) = 0
<1>1. Len(<<>>) = 0 /\ <<>> \in Seq(Item)
      OBVIOUS
<1>2. Positions(<<>>) = {}
      BY <1>1 DEF Positions
<1>3. QED
      BY <1>1, <1>2, FS_EmptySet DEF Units

\* The entries of r after the first m are those of the paths of S, each once;
\* each comes after the directories it lies in, down from a depth.
Continues(r, e) == Len(e) <= Len(r) /\ \A i \in 1 .. Len(e) : r[i] = e[i]

PartOf(r, m, S) ==
    \A i \in m + 1 .. Len(r) :
        r[i].path \in S /\ \A j \in m + 1 .. Len(r) : i # j => r[i].path # r[j].path

Covers(r, m, S) == \A p \in S : \E i \in m + 1 .. Len(r) : r[i].path = p

Nested(r, m, from) ==
    \A i \in m + 1 .. Len(r) : \A depth \in from .. Len(r[i].path) - 1 :
        \E j \in m + 1 .. i - 1 : r[j].dir /\ r[j].path = SubSeq(r[i].path, 1, depth)

Exceeds(e) == Len(e) > MaxItems \/ Units(e) > MaxPathUnits

Going(a) == a \in Tree!Captured /\ a.error = "none" /\ a.units = Units(a.entries)

Listing(e, r, S, from) ==
    /\ Going(r)
    /\ Continues(r.entries, e) /\ PartOf(r.entries, Len(e), S) /\ Covers(r.entries, Len(e), S)
    /\ Nested(r.entries, Len(e), from)
    /\ ~Exceeds(r.entries)

\* The directory of the trail is the first of what was listed behind m.
Heads(t, r, m) == m < Len(r) /\ r[m + 1] = [path |-> t.path, dir |-> TRUE]

\* A path too deep, or with a name that is not valid behind a depth.
Bad(p, depth) == Len(p) > MaxDepth \/ \E k \in depth + 1 .. Len(p) : ~Tree!Valid(p[k])

\* The walk of what is below a trail lists all of it, or it has a reason.
Complete(fs, t, e, r) ==
    /\ Listing(e, r, Below(fs, t), Len(t.path))
    /\ \A p \in Below(fs, t) : ~Bad(p, Len(t.path))

Refusable(fs, t, e) ==
    \/ \E p \in Below(fs, t) : Bad(p, Len(t.path))
    \/ \E r \in Seq(Item) : Continues(r, e) /\ PartOf(r, Len(e), Below(fs, t)) /\ Exceeds(r)

Walked(fs, t, e, r) ==
    IF r.error = "none" THEN Complete(fs, t, e, r) ELSE r \in Tree!Captured /\ Refusable(fs, t, e)

Reason == {"none", "TreeTooDeep", "ManifestTooLarge", "InvalidName"}

LEMMA CapturedFacts ==
    ASSUME NEW a \in Tree!Captured
    PROVE  /\ a = [entries |-> a.entries, units |-> a.units, error |-> a.error]
           /\ a.entries \in Seq(Item) /\ a.units \in Nat /\ a.error \in Reason
           /\ Len(a.entries) \in Nat
BY ItemFacts DEF Tree!Captured, Item, Reason

\* What lies in a child is listed behind what was listed before.
LEMMA ListingGoesOn ==
    ASSUME NEW fs, FileSystem(fs), MaxDepth \in Nat, NEW t \in Trail(fs), Len(t.path) <= MaxDepth, Opens(fs, t),
           NEW name \in DOMAIN fs[End(t)].children,
           NEW e \in Seq(Item), NEW a, NEW S, Listing(e, a, S, Len(t.path)),
           Heads(t, a.entries, Len(e)),
           NEW b, Complete(fs, Child(fs, t, name), a.entries, b),
           S \cap Below(fs, Child(fs, t, name)) = {}
    PROVE  /\ Listing(e, b, S \cup Below(fs, Child(fs, t, name)), Len(t.path))
           /\ Heads(t, b.entries, Len(e))
<1> DEFINE u == Child(fs, t, name)
           L == Len(t.path)
           m == Len(e)
           n == Len(a.entries)
           q == Len(b.entries)
<1>1. L \in Nat /\ L >= 1 /\ t.path \in Seq(Nat)
      BY TrailFacts
<1>2. u \in Trail(fs) /\ Len(u.path) = L + 1 /\ Agree(t, u)
      BY ChildIsTrail
<1>3. m \in Nat
      BY ItemFacts
<1>4. a.entries \in Seq(Item) /\ n \in Nat /\ b.entries \in Seq(Item) /\ q \in Nat /\ Going(b)
      BY CapturedFacts DEF Complete, Listing, Going
<1> HIDE DEF u
<1>5. /\ Continues(b.entries, a.entries) /\ PartOf(b.entries, n, Below(fs, u))
      /\ Covers(b.entries, n, Below(fs, u)) /\ Nested(b.entries, n, L + 1) /\ ~Exceeds(b.entries)
      BY <1>2 DEF Complete, Listing, u
<1>6. /\ Continues(a.entries, e) /\ PartOf(a.entries, m, S)
      /\ Covers(a.entries, m, S) /\ Nested(a.entries, m, L)
      BY DEF Listing
<1>7. m < n /\ n <= q /\ \A i \in 1 .. n : b.entries[i] = a.entries[i]
      BY <1>5 DEF Continues, Heads
<1>8. Continues(b.entries, e)
      BY <1>3, <1>4, <1>6, <1>7 DEF Continues
<1>9. \A i \in m + 1 .. q : i \in m + 1 .. n \/ i \in n + 1 .. q
      BY <1>3, <1>4
<1>10. \A i \in m + 1 .. n : i \in m + 1 .. q /\ b.entries[i] = a.entries[i]
       BY <1>3, <1>4, <1>7
<1>11. \A i \in n + 1 .. q : i \in m + 1 .. q
       BY <1>3, <1>4, <1>7
<1>12. PartOf(b.entries, m, S \cup Below(fs, u))
  <2>1. \A i \in m + 1 .. n : b.entries[i].path \in S
        BY <1>6, <1>10 DEF PartOf
  <2>2. \A i \in n + 1 .. q : b.entries[i].path \in Below(fs, u)
        BY <1>5 DEF PartOf
  <2>3. ASSUME NEW i \in m + 1 .. q, NEW j \in m + 1 .. q, i # j
        PROVE  b.entries[i].path # b.entries[j].path
    <3>1. CASE i \in m + 1 .. n /\ j \in m + 1 .. n
          BY <1>6, <1>10, <2>3, <3>1 DEF PartOf
    <3>2. CASE i \in n + 1 .. q /\ j \in n + 1 .. q
          BY <1>5, <2>3, <3>2 DEF PartOf
    <3>3. CASE ~(i \in m + 1 .. n /\ j \in m + 1 .. n) /\ ~(i \in n + 1 .. q /\ j \in n + 1 .. q)
          BY <1>9, <2>1, <2>2, <3>3 DEF u
    <3>4. QED
          BY <3>1, <3>2, <3>3
  <2>4. \A i \in m + 1 .. q : b.entries[i].path \in S \cup Below(fs, u)
        BY <1>9, <2>1, <2>2
  <2>5. QED
        BY <2>3, <2>4 DEF PartOf
<1>13. Covers(b.entries, m, S \cup Below(fs, u))
  <2>1. \A p \in S : \E i \in m + 1 .. q : b.entries[i].path = p
        BY <1>6, <1>10 DEF Covers
  <2>2. \A p \in Below(fs, u) : \E i \in m + 1 .. q : b.entries[i].path = p
        BY <1>5, <1>11 DEF Covers
  <2>3. QED
        BY <2>1, <2>2 DEF Covers
<1>14. m + 1 \in m + 1 .. n /\ b.entries[m + 1] = [path |-> t.path, dir |-> TRUE]
       BY <1>3, <1>4, <1>7, <1>10 DEF Heads
<1>15. Nested(b.entries, m, L)
  <2> SUFFICES ASSUME NEW i \in m + 1 .. q, NEW depth \in L .. Len(b.entries[i].path) - 1
               PROVE  \E j \in m + 1 .. i - 1 :
                         b.entries[j].dir /\ b.entries[j].path = SubSeq(b.entries[i].path, 1, depth)
      BY DEF Nested
  <2>1. CASE i \in m + 1 .. n
    <3>1. PICK j \in m + 1 .. i - 1 : a.entries[j].dir /\ a.entries[j].path = SubSeq(a.entries[i].path, 1, depth)
          BY <1>6, <1>10, <2>1 DEF Nested
    <3>2. j \in m + 1 .. n
          BY <1>3, <1>4, <2>1
    <3>3. b.entries[j] = a.entries[j] /\ b.entries[i] = a.entries[i]
          BY <1>10, <2>1, <3>2
    <3>4. QED
          BY <3>1, <3>3
  <2>2. CASE i \in n + 1 .. q
    <3> DEFINE p == b.entries[i].path
    <3>1. p \in Below(fs, u)
          BY <1>5, <2>2 DEF PartOf
    <3>6. p = b.entries[i].path /\ depth \in L .. Len(p) - 1
          OBVIOUS
    <3> HIDE DEF p
    <3>2. p \in Seq(Nat) /\ Len(p) \in Nat /\ L + 1 <= Len(p) /\ \A k \in 1 .. L + 1 : p[k] = u.path[k]
      <4>1. /\ p \in Seq(Nat) /\ Len(p) \in Nat /\ Len(u.path) <= Len(p)
            /\ \A k \in 1 .. Len(u.path) : p[k] = u.path[k]
            BY <1>2, <3>1, PathsBelow
      <4>2. QED
            BY <1>2, <4>1
    <3>3. CASE depth = L
      <4>1. SubSeq(p, 1, L) = t.path
        <5>1. 1 \in Int /\ L \in Int /\ L - 1 + 1 = L /\ 1 <= L
              BY <1>1
        <5>6. \A k \in 1 .. L : 1 + k - 1 = k /\ k \in 1 .. L + 1
              BY <1>1
        <5>2. \A k \in 1 .. L : p[k] \in Nat
          <6>1. \A k \in 1 .. L : k \in 1 .. Len(p)
                BY <1>1, <3>2
          <6>2. \A k \in 1 .. Len(p) : p[k] \in Nat
            <7>1. p \in Seq(Nat)
                  BY <3>2
            <7>2. QED
                  BY <7>1, ElementOfSeq
          <6>3. QED
                BY <6>1, <6>2
        <5>3. /\ SubSeq(p, 1, L) \in Seq(Nat) /\ Len(SubSeq(p, 1, L)) = L
              /\ \A k \in 1 .. L : SubSeq(p, 1, L)[k] = p[k]
              BY <5>1, <5>2, <5>6, SubSeqProperties
        <5>4. \A k \in 1 .. L : SubSeq(p, 1, L)[k] = t.path[k]
              BY <1>2, <3>2, <5>3, <5>6 DEF Agree
        <5>5. QED
              BY <1>1, <5>3, <5>4, SeqEqual
      <4>2. m + 1 \in m + 1 .. i - 1
            BY <1>3, <1>4, <1>7, <2>2
      <4>3. b.entries[m + 1].dir /\ b.entries[m + 1].path = t.path
            BY <1>14
      <4>4. QED
            BY <3>3, <3>6, <4>1, <4>2, <4>3
    <3>4. CASE depth # L
      <4>1. depth \in L + 1 .. Len(p) - 1
            BY <1>1, <3>2, <3>4, <3>6
      <4>2. PICK j \in n + 1 .. i - 1 : b.entries[j].dir /\ b.entries[j].path = SubSeq(p, 1, depth)
            BY <1>5, <2>2, <3>6, <4>1 DEF Nested
      <4>3. j \in m + 1 .. i - 1
            BY <1>3, <1>4, <1>7, <2>2
      <4>4. QED
            BY <3>6, <4>2, <4>3
    <3>5. QED
          BY <3>3, <3>4
  <2>3. QED
        BY <1>9, <2>1, <2>2
<1>16. m < q
       BY <1>3, <1>4, <1>7
<1>17. QED
       BY <1>4, <1>5, <1>8, <1>12, <1>13, <1>14, <1>15, <1>16 DEF Listing, Heads, u

\* A reason to refuse what lies in a child is one to refuse the whole.
LEMMA RefusalGoesUp ==
    ASSUME NEW fs, FileSystem(fs), MaxDepth \in Nat, NEW t \in Trail(fs), Len(t.path) <= MaxDepth, Opens(fs, t),
           NEW name \in DOMAIN fs[End(t)].children,
           NEW e \in Seq(Item), NEW a, NEW S, Listing(e, a, S, Len(t.path)), S \subseteq Below(fs, t),
           Refusable(fs, Child(fs, t, name), a.entries),
           S \cap Below(fs, Child(fs, t, name)) = {}
    PROVE  Refusable(fs, t, e)
<1> DEFINE u == Child(fs, t, name)
           L == Len(t.path)
           m == Len(e)
           n == Len(a.entries)
<1>1. L \in Nat /\ Len(u.path) = L + 1
      BY TrailFacts, ChildIsTrail
<1>2. Below(fs, u) \subseteq Below(fs, t)
      BY ChildrenBelow
<1>3. m \in Nat /\ n \in Nat
      BY ItemFacts, CapturedFacts DEF Listing, Going
<1> HIDE DEF u
<1>4. CASE \E p \in Below(fs, u) : Bad(p, L + 1)
  <2>1. PICK p \in Below(fs, u) : Bad(p, L + 1)
        BY <1>4
  <2>2. \A k \in L + 1 + 1 .. Len(p) : k \in L + 1 .. Len(p)
        BY <1>1
  <2>3. Bad(p, L)
        BY <2>1, <2>2 DEF Bad
  <2>4. QED
        BY <1>2, <2>3 DEF Refusable
<1>5. CASE \E r \in Seq(Item) : Continues(r, a.entries) /\ PartOf(r, n, Below(fs, u)) /\ Exceeds(r)
  <2>1. PICK r \in Seq(Item) : Continues(r, a.entries) /\ PartOf(r, n, Below(fs, u)) /\ Exceeds(r)
        BY <1>5
  <2> DEFINE q == Len(r)
  <2>2. q \in Nat
        BY ItemFacts
  <2>3. Continues(a.entries, e) /\ PartOf(a.entries, m, S)
        BY DEF Listing
  <2>4. m <= n /\ n <= q /\ \A i \in 1 .. n : r[i] = a.entries[i]
        BY <2>1, <2>3 DEF Continues
  <2>5. Continues(r, e)
        BY <1>3, <2>2, <2>3, <2>4 DEF Continues
  <2>6. \A i \in m + 1 .. q : i \in m + 1 .. n \/ i \in n + 1 .. q
        BY <1>3, <2>2
  <2>7. \A i \in m + 1 .. n : r[i].path \in S
    <3>1. \A i \in m + 1 .. n : r[i] = a.entries[i]
          BY <1>3, <2>4
    <3>2. QED
          BY <2>3, <3>1 DEF PartOf
  <2>8. \A i \in n + 1 .. q : r[i].path \in Below(fs, u)
        BY <2>1 DEF PartOf
  <2>9. ASSUME NEW i \in m + 1 .. q, NEW j \in m + 1 .. q, i # j PROVE r[i].path # r[j].path
    <3>1. CASE i \in m + 1 .. n /\ j \in m + 1 .. n
      <4>1. r[i] = a.entries[i] /\ r[j] = a.entries[j]
            BY <1>3, <2>4, <3>1
      <4>2. QED
            BY <2>3, <2>9, <3>1, <4>1 DEF PartOf
    <3>2. CASE i \in n + 1 .. q /\ j \in n + 1 .. q
          BY <2>1, <2>9, <3>2 DEF PartOf
    <3>3. CASE ~(i \in m + 1 .. n /\ j \in m + 1 .. n) /\ ~(i \in n + 1 .. q /\ j \in n + 1 .. q)
          BY <2>6, <2>7, <2>8, <3>3 DEF u
    <3>4. QED
          BY <3>1, <3>2, <3>3
  <2>10. PartOf(r, m, Below(fs, t))
         BY <1>2, <2>6, <2>7, <2>8, <2>9 DEF PartOf
  <2>11. QED
         BY <2>1, <2>5, <2>10 DEF Refusable
<1>6. QED
      BY <1>1, <1>4, <1>5 DEF Refusable, u

LEMMA SelfBelow ==
    ASSUME NEW fs, MaxDepth \in Nat, NEW t \in Trail(fs)
    PROVE  t.path \in Below(fs, t)
<1>1. Len(t.path) \in Nat
      BY TrailFacts
<1>2. t \in Under(fs, t)
      BY <1>1 DEF Under, Agree
<1>3. QED
      BY <1>2 DEF Below

\* The call that walks what is below a trail.
CallOf(t, a) ==
    [node |-> End(t), path |-> t.path, active |-> {t.nodes[j] : j \in 1 .. Len(t.path) - 1}, acc |-> a]

LEMMA CallFacts ==
    ASSUME NEW fs, MaxDepth \in Nat, FileSystem(fs), NEW t \in Trail(fs), NEW a \in Tree!Captured
    PROVE  /\ CallOf(t, a) \in Tree!Call(fs)
           /\ End(t) \in DOMAIN fs
           /\ Tree!Enter(fs, End(t), CallOf(t, a).active) <=> Opens(fs, t)
<1> DEFINE n == Len(t.path)
           active == {t.nodes[j] : j \in 1 .. n - 1}
<1>1. /\ t.path \in Seq(Nat) /\ n \in Nat /\ n >= 1 /\ Len(t.nodes) = n
      /\ \A k \in 1 .. n : t.nodes[k] \in DOMAIN fs
      BY TrailFacts
<1>2. End(t) = t.nodes[n] /\ End(t) \in DOMAIN fs
      BY <1>1 DEF End
<1>3. \A j \in 1 .. n - 1 : j \in 1 .. n
      BY <1>1
<1>4. active \subseteq DOMAIN fs
      BY <1>1, <1>3
<1>5. CallOf(t, a).active = active
      BY DEF CallOf
<1>6. Opens(fs, t) <=> fs[t.nodes[n]].dir /\ \A j \in 1 .. n - 1 : t.nodes[j] # t.nodes[n]
      BY <1>1 DEF Opens, OpensAt
<1>7. t.nodes[n] \notin active <=> \A j \in 1 .. n - 1 : t.nodes[j] # t.nodes[n]
      OBVIOUS
<1> HIDE DEF active
<1>8. CallOf(t, a) \in Tree!Call(fs)
  <2>1. CallOf(t, a) = [node |-> End(t), path |-> t.path, active |-> active, acc |-> a]
        BY DEF CallOf, active
  <2>2. QED
        BY <1>1, <1>2, <1>4, <2>1 DEF Tree!Call
<1>9. QED
      BY <1>2, <1>5, <1>6, <1>7, <1>8 DEF Tree!Enter

LEMMA ChildCall ==
    ASSUME NEW fs, MaxDepth \in Nat, NEW t \in Trail(fs), NEW name, NEW a,
           Child(fs, t, name) \in Trail(fs), End(Child(fs, t, name)) = fs[End(t)].children[name]
    PROVE  CallOf(Child(fs, t, name), a) =
               [node |-> fs[End(t)].children[name], path |-> Append(t.path, name),
                active |-> CallOf(t, a).active \cup {End(t)}, acc |-> a]
<1> DEFINE n == Len(t.path)
           next == fs[End(t)].children[name]
           u == Child(fs, t, name)
<1>1. /\ t.path \in Seq(Nat) /\ t.nodes \in Seq(DOMAIN fs) /\ n \in Nat /\ n >= 1 /\ Len(t.nodes) = n
      BY TrailFacts
<1>2. u.path = Append(t.path, name) /\ u.nodes = Append(t.nodes, next) /\ Len(u.path) = n + 1
      BY <1>1 DEF Child
<1>3. \A j \in 1 .. n : u.nodes[j] = t.nodes[j]
      BY <1>1, <1>2
<1>4. End(t) = t.nodes[n]
      BY <1>1 DEF End
<1> HIDE DEF u
<1>5. {u.nodes[j] : j \in 1 .. Len(u.path) - 1} = {t.nodes[j] : j \in 1 .. n - 1} \cup {t.nodes[n]}
  <2>1. \A j : j \in 1 .. Len(u.path) - 1 <=> j \in 1 .. n
        BY <1>1, <1>2
  <2>2. \A j : j \in 1 .. n <=> j \in 1 .. n - 1 \/ j = n
        BY <1>1
  <2>3. QED
        BY <1>3, <2>1, <2>2
<1>6. CallOf(t, a).active = {t.nodes[j] : j \in 1 .. n - 1}
      BY DEF CallOf
<1>7. CallOf(u, a) = [node |-> End(u), path |-> u.path,
                      active |-> {u.nodes[j] : j \in 1 .. Len(u.path) - 1}, acc |-> a]
      BY DEF CallOf
<1>8. End(u) = next
      BY DEF u
<1> HIDE DEF next
<1>9. {u.nodes[j] : j \in 1 .. Len(u.path) - 1} = CallOf(t, a).active \cup {End(t)}
      BY <1>4, <1>5, <1>6
<1>10. CallOf(u, a) = [node |-> next, path |-> Append(t.path, name),
                       active |-> CallOf(t, a).active \cup {End(t)}, acc |-> a]
       BY <1>2, <1>7, <1>8, <1>9
<1>11. QED
       BY <1>10 DEF u, next

\* A path of what is below a child has the name of the child where it leaves
\* the trail.
LEMMA NameBelow ==
    ASSUME NEW fs, FileSystem(fs), MaxDepth \in Nat, NEW t \in Trail(fs), Len(t.path) <= MaxDepth, Opens(fs, t),
           NEW name \in DOMAIN fs[End(t)].children, NEW p \in Below(fs, Child(fs, t, name))
    PROVE  p[Len(t.path) + 1] = name /\ Len(p) \in Nat /\ Len(t.path) + 1 <= Len(p)
<1> DEFINE u == Child(fs, t, name)
           L == Len(t.path)
<1>1. u \in Trail(fs) /\ Len(u.path) = L + 1 /\ u.path[L + 1] = name
      BY ChildIsTrail
<1> HIDE DEF u
<1>2. L \in Nat /\ L >= 1
      BY TrailFacts
<1>3. /\ Len(p) \in Nat /\ Len(u.path) <= Len(p)
      /\ \A k \in 1 .. Len(u.path) : p[k] = u.path[k]
      BY <1>1, PathsBelow DEF u
<1>4. L + 1 \in 1 .. Len(u.path)
      BY <1>1, <1>2
<1>5. QED
      BY <1>1, <1>3, <1>4

\* What is visited when a number of the children has been walked.
Visited(fs, t, names, i) ==
    {t.path} \cup UNION {Below(fs, Child(fs, t, names[j])) : j \in 1 .. i}

ChildrenWalked(fs, t, e, names, i, a) ==
    IF a.error = "none"
    THEN /\ Listing(e, a, Visited(fs, t, names, i), Len(t.path))
         /\ Heads(t, a.entries, Len(e))
         /\ \A p \in Visited(fs, t, names, i) : ~Bad(p, Len(t.path))
    ELSE a \in Tree!Captured /\ Refusable(fs, t, e)

LEMMA OneMoreVisited ==
    ASSUME NEW fs, NEW t, NEW names, NEW i \in Nat
    PROVE  Visited(fs, t, names, i + 1) = Visited(fs, t, names, i) \cup Below(fs, Child(fs, t, names[i + 1]))
<1>1. \A j : j \in 1 .. i + 1 <=> j \in 1 .. i \/ j = i + 1
      OBVIOUS
<1>2. \A p : p \in Visited(fs, t, names, i + 1) <=>
             p = t.path \/ \E j \in 1 .. i + 1 : p \in Below(fs, Child(fs, t, names[j]))
      BY DEF Visited
<1>3. \A p : p \in Visited(fs, t, names, i) <=>
             p = t.path \/ \E j \in 1 .. i : p \in Below(fs, Child(fs, t, names[j]))
      BY DEF Visited
<1>4. \A p : p \in Visited(fs, t, names, i + 1) <=>
             p \in Visited(fs, t, names, i) \/ p \in Below(fs, Child(fs, t, names[i + 1]))
      BY <1>1, <1>2, <1>3
<1>5. QED
      BY <1>4

LEMMA NextChildWalked ==
    ASSUME NEW fs, FileSystem(fs), MaxDepth \in Nat, NEW t \in Trail(fs), Len(t.path) <= MaxDepth, Opens(fs, t),
           NEW e \in Seq(Item), NEW names, NEW i \in Nat, NEW a, NEW b,
           \A j \in 1 .. i + 1 : names[j] \in DOMAIN fs[End(t)].children,
           \A j \in 1 .. i : names[j] # names[i + 1],
           Tree!Valid(names[i + 1]),
           ChildrenWalked(fs, t, e, names, i, a),
           IF a.error = "none" THEN Walked(fs, Child(fs, t, names[i + 1]), a.entries, b) ELSE b = a
    PROVE  ChildrenWalked(fs, t, e, names, i + 1, b)
<1> DEFINE name == names[i + 1]
           L == Len(t.path)
           V == Visited(fs, t, names, i)
           u == Child(fs, t, name)
<1>1. i + 1 \in 1 .. i + 1 /\ \A j \in 1 .. i : j \in 1 .. i + 1
      OBVIOUS
<1>2. name \in DOMAIN fs[End(t)].children
      BY <1>1
<1>3. L \in Nat /\ L >= 1 /\ u \in Trail(fs) /\ Len(u.path) = L + 1
      BY <1>2, TrailFacts, ChildIsTrail
<1>4. \A p : p \in V <=> p = t.path \/ \E j \in 1 .. i : p \in Below(fs, Child(fs, t, names[j]))
      BY DEF Visited
<1>5. V \subseteq Below(fs, t)
      BY <1>1, <1>4, ChildrenBelow
<1>6. V \cap Below(fs, u) = {}
  <2> SUFFICES ASSUME NEW p \in V, p \in Below(fs, u) PROVE FALSE
      OBVIOUS
  <2>1. p[L + 1] = name /\ Len(p) \in Nat /\ L + 1 <= Len(p)
        BY <1>2, NameBelow
  <2>2. p # t.path
        BY <1>3, <2>1
  <2>3. PICK j \in 1 .. i : p \in Below(fs, Child(fs, t, names[j]))
        BY <1>4, <2>2
  <2>4. p[L + 1] = names[j]
        BY <1>1, <2>3, NameBelow
  <2>5. QED
        BY <2>1, <2>4
<1> HIDE DEF u, name, V
<1>7. CASE a.error # "none"
      BY <1>7 DEF ChildrenWalked
<1>8. CASE a.error = "none"
  <2>1. /\ Listing(e, a, V, L) /\ Heads(t, a.entries, Len(e))
        /\ \A p \in V : ~Bad(p, L)
        BY <1>8 DEF ChildrenWalked, V
  <2>2. CASE b.error # "none"
    <3>1. b \in Tree!Captured /\ Refusable(fs, u, a.entries)
          BY <1>8, <2>2 DEF Walked, u, name
    <3>2. Refusable(fs, t, e)
          BY <1>2, <1>5, <1>6, <2>1, <3>1, RefusalGoesUp DEF u
    <3>3. QED
          BY <2>2, <3>1, <3>2 DEF ChildrenWalked
  <2>3. CASE b.error = "none"
    <3>1. Complete(fs, u, a.entries, b)
          BY <1>8, <2>3 DEF Walked, u, name
    <3>2. Listing(e, b, V \cup Below(fs, u), L) /\ Heads(t, b.entries, Len(e))
      <4>1. /\ name \in DOMAIN fs[End(t)].children
            /\ Listing(e, a, V, Len(t.path))
            /\ Heads(t, a.entries, Len(e))
            /\ Complete(fs, Child(fs, t, name), a.entries, b)
            /\ V \cap Below(fs, Child(fs, t, name)) = {}
            BY <1>2, <1>6, <2>1, <3>1 DEF u
      <4> HIDE DEF L
      <4>2. /\ Listing(e, b, V \cup Below(fs, Child(fs, t, name)), Len(t.path))
            /\ Heads(t, b.entries, Len(e))
            BY <4>1, ListingGoesOn
      <4>3. QED
            BY <4>2 DEF u, L
    <3>3. \A p \in Below(fs, u) : ~Bad(p, L)
      <4> SUFFICES ASSUME NEW p \in Below(fs, u), Bad(p, L) PROVE FALSE
          OBVIOUS
      <4>1. p[L + 1] = name /\ Len(p) \in Nat
            BY <1>2, NameBelow DEF u
      <4>2. ~Bad(p, L + 1)
            BY <1>3, <3>1 DEF Complete
      <4>3. \A k \in L + 1 .. Len(p) : k = L + 1 \/ k \in L + 1 + 1 .. Len(p)
            BY <1>3, <4>1
      <4>4. QED
            BY <4>1, <4>2, <4>3 DEF Bad, name
    <3>4. Visited(fs, t, names, i + 1) = V \cup Below(fs, u)
          BY OneMoreVisited DEF V, u, name
    <3>5. QED
          BY <2>1, <2>3, <3>2, <3>3, <3>4 DEF ChildrenWalked
  <2>4. QED
        BY <2>2, <2>3
<1>9. QED
      BY <1>7, <1>8

\* What a walk of one level less does for the children of a trail.
WalksChildren(fs, t, walk) ==
    \A name \in DOMAIN fs[End(t)].children : \A b \in Tree!Captured :
        IF b.error = "none"
        THEN Going(b) => Walked(fs, Child(fs, t, name), b.entries, walk[CallOf(Child(fs, t, name), b)])
        ELSE walk[CallOf(Child(fs, t, name), b)] = b

LEMMA AllChildrenWalked ==
    ASSUME NEW fs, FileSystem(fs), MaxDepth \in Nat, NEW t \in Trail(fs), Len(t.path) <= MaxDepth, Opens(fs, t),
           NEW e \in Seq(Item), NEW a \in Tree!Captured, NEW entered, NEW walk, WalksChildren(fs, t, walk),
           \A name \in DOMAIN fs[End(t)].children : Tree!Valid(name),
           Going(entered), ~Exceeds(entered.entries),
           entered.entries = Append(e, [path |-> t.path, dir |-> TRUE])
    PROVE  Walked(fs, t, e, Tree!WalkChildren(fs, CallOf(t, a), entered, walk))
<1> DEFINE L == Len(t.path)
           c == CallOf(t, a)
           children == fs[End(t)].children
           names == Tree!Sorted(DOMAIN children)
           n == Len(names)
<1>1. L \in Nat /\ L >= 1 /\ t.path \in Seq(Nat) /\ End(t) \in DOMAIN fs
      BY TrailFacts, CallFacts
<1>2. c.node = End(t) /\ c.path = t.path
      BY DEF CallOf
<1>3. DOMAIN children \subseteq Nat /\ IsFiniteSet(DOMAIN children)
      BY <1>1 DEF FileSystem
<1>4. /\ n \in Nat /\ \A i \in 1 .. n : names[i] \in DOMAIN children
      /\ \A i, j \in 1 .. n : i # j => names[i] # names[j]
      /\ \A x \in DOMAIN children : \E i \in 1 .. n : names[i] = x
  <2> HIDE DEF children
  <2>1. QED
        BY <1>3, SortedNames
<1> HIDE DEF c
<1>5. PICK f : /\ f[0] = entered /\ Tree!WalkChildren(fs, c, entered, walk) = f[n]
               /\ \A i \in 1 .. n :
                     f[i] = walk[[node |-> children[names[i]],
                                  path |-> Append(t.path, names[i]),
                                  active |-> c.active \cup {End(t)}, acc |-> f[i - 1]]]
  <2>1. names = Tree!Sorted(DOMAIN fs[c.node].children)
        BY <1>2
  <2>2. \E f : InOrder(f, fs, c, entered, walk, names) /\ Tree!WalkChildren(fs, c, entered, walk) = f[Len(names)]
    <3> HIDE DEF names, children, n
    <3>1. Len(names) \in Nat
          BY <1>4 DEF n
    <3>2. QED
          BY <2>1, <3>1, ChildrenInOrder
  <2>3. QED
        BY <1>2, <2>2 DEF InOrder
<1> HIDE DEF names
<1>6. ASSUME NEW i \in 1 .. n
      PROVE  f[i] = walk[CallOf(Child(fs, t, names[i]), f[i - 1])]
  <2>1. names[i] \in DOMAIN children
        BY <1>4
  <2>2. /\ Child(fs, t, names[i]) \in Trail(fs)
        /\ End(Child(fs, t, names[i])) = children[names[i]]
        BY <2>1, ChildIsTrail
  <2>3. CallOf(Child(fs, t, names[i]), f[i - 1]) =
           [node |-> children[names[i]], path |-> Append(t.path, names[i]),
            active |-> CallOf(t, f[i - 1]).active \cup {End(t)}, acc |-> f[i - 1]]
    <3> DEFINE name == names[i]
               before == f[i - 1]
    <3>1. /\ Child(fs, t, name) \in Trail(fs)
          /\ End(Child(fs, t, name)) = fs[End(t)].children[name]
          BY <2>2
    <3> HIDE DEF name, before
    <3>2. CallOf(Child(fs, t, name), before) =
              [node |-> fs[End(t)].children[name], path |-> Append(t.path, name),
               active |-> CallOf(t, before).active \cup {End(t)}, acc |-> before]
          BY <3>1, ChildCall
    <3>3. QED
          BY <3>2 DEF name, before
  <2>4. CallOf(t, f[i - 1]).active = c.active
        BY DEF CallOf, c
  <2>5. QED
        BY <1>5, <2>3, <2>4
<1> DEFINE S == {i \in Nat : i <= n => ChildrenWalked(fs, t, e, names, i, f[i])}
<1>7. 0 \in S
  <2> DEFINE first == [path |-> t.path, dir |-> TRUE]
             m == Len(e)
  <2>1. m \in Nat
        BY ItemFacts
  <2>2. first \in Item
        BY <1>1 DEF Item
  <2>3. Len(entered.entries) = m + 1 /\ entered.entries[m + 1] = first /\ \A i \in 1 .. m : entered.entries[i] = e[i]
    <3> HIDE DEF first
    <3>1. QED
          BY <2>2 DEF first
  <2>4. Visited(fs, t, names, 0) = {t.path}
    <3>1. 1 .. 0 = {}
          OBVIOUS
    <3>2. QED
          BY <3>1 DEF Visited
  <2>5. \A i \in m + 1 .. m + 1 : i = m + 1
        BY <2>1
  <2>6. m + 1 \in m + 1 .. m + 1
        BY <2>1
  <2>7. first.path = t.path
        OBVIOUS
  <2> HIDE DEF first
  <2>8. PartOf(entered.entries, m, {t.path}) /\ Covers(entered.entries, m, {t.path})
        BY <2>3, <2>5, <2>6, <2>7 DEF PartOf, Covers
  <2>9. Nested(entered.entries, m, L)
    <3>1. ~(\E depth : depth \in L .. L - 1)
          BY <1>1
    <3>2. QED
          BY <2>3, <2>5, <2>7, <3>1 DEF Nested
  <2>10. Continues(entered.entries, e)
         BY <2>1, <2>3 DEF Continues
  <2>11. Heads(t, entered.entries, m)
         BY <2>1, <2>3 DEF Heads, first
  <2>12. ~Bad(t.path, L)
    <3>1. ~(\E k : k \in L + 1 .. L)
          BY <1>1
    <3>2. QED
          BY <1>1, <3>1 DEF Bad
  <2>13. entered.error = "none"
         BY DEF Going
  <2>14. Listing(e, entered, {t.path}, L)
         BY <2>8, <2>9, <2>10 DEF Listing
  <2>15. ChildrenWalked(fs, t, e, names, 0, f[0])
         BY <1>5, <2>4, <2>11, <2>12, <2>13, <2>14 DEF ChildrenWalked
  <2>16. QED
         BY <2>15
<1>8. ASSUME NEW i \in Nat, i \in S PROVE i + 1 \in S
  <2> SUFFICES ASSUME i + 1 <= n PROVE ChildrenWalked(fs, t, e, names, i + 1, f[i + 1])
      OBVIOUS
  <2>1. ChildrenWalked(fs, t, e, names, i, f[i])
        BY <1>4, <1>8
  <2>2. i + 1 \in 1 .. n /\ (i + 1) - 1 = i /\ \A j \in 1 .. i + 1 : j \in 1 .. n
        BY <1>4
  <2>3. \A j \in 1 .. i : j \in 1 .. n /\ j # i + 1
        BY <1>4
  <2> DEFINE a1 == f[i]
             b1 == f[i + 1]
             u == Child(fs, t, names[i + 1])
  <2>4. names[i + 1] \in DOMAIN children /\ Tree!Valid(names[i + 1])
        BY <1>4, <2>2
  <2>5. b1 = walk[CallOf(u, a1)]
        BY <1>6, <2>2
  <2>6. a1 \in Tree!Captured /\ (a1.error = "none" => Going(a1))
        BY <2>1 DEF ChildrenWalked, Listing, Going
  <2>7. \A j \in 1 .. i + 1 : names[j] \in DOMAIN children
        BY <1>4, <2>2
  <2>8. \A j \in 1 .. i : names[j] # names[i + 1]
        BY <1>4, <2>2, <2>3
  <2> HIDE DEF a1, b1
  <2>9. IF a1.error = "none" THEN Walked(fs, u, a1.entries, b1) ELSE b1 = a1
        BY <2>4, <2>5, <2>6 DEF WalksChildren
  <2>10. ChildrenWalked(fs, t, e, names, i, a1)
         BY <2>1 DEF a1
  <2>11. ChildrenWalked(fs, t, e, names, i + 1, b1)
         BY <2>4, <2>7, <2>8, <2>9, <2>10, NextChildWalked
  <2>12. QED
         BY <2>11 DEF b1
<1> HIDE DEF S
<1>9. n \in S
      BY <1>4, <1>7, <1>8, Induction
<1>10. ChildrenWalked(fs, t, e, names, n, f[n])
       BY <1>4, <1>9 DEF S
<1>11. Visited(fs, t, names, n) = Below(fs, t)
  <2>1. \A p : p \in Visited(fs, t, names, n) <=>
            p = t.path \/ \E j \in 1 .. n : p \in Below(fs, Child(fs, t, names[j]))
        BY DEF Visited
  <2>2. \A p : p \in Visited(fs, t, names, n) <=> p \in Below(fs, t)
    <3> SUFFICES ASSUME NEW p PROVE p \in Visited(fs, t, names, n) <=> p \in Below(fs, t)
        OBVIOUS
    <3>1. p \in Below(fs, t) <=>
             p = t.path \/ \E name \in DOMAIN children : p \in Below(fs, Child(fs, t, name))
          BY ChildrenBelow
    <3> HIDE DEF children
    <3>2. (\E name \in DOMAIN children : p \in Below(fs, Child(fs, t, name)))
             <=> \E j \in 1 .. n : p \in Below(fs, Child(fs, t, names[j]))
          BY <1>4
    <3>3. QED
          BY <2>1, <3>1, <3>2
  <2>3. QED
        BY <2>2
<1>12. Walked(fs, t, e, f[n])
       BY <1>10, <1>11 DEF ChildrenWalked, Walked, Complete
<1>13. QED
       BY <1>5, <1>12 DEF c

LEMMA CapturedRecord ==
    ASSUME NEW e \in Seq(Item), NEW units \in Nat, NEW error \in Reason
    PROVE  [entries |-> e, units |-> units, error |-> error] \in Tree!Captured
BY DEF Tree!Captured, Item, Reason

LEMMA Reasons ==
    /\ "none" \in Reason
    /\ \A reason \in {"TreeTooDeep", "ManifestTooLarge", "InvalidName"} :
           reason \in Reason /\ reason # "none"
BY DEF Reason

LEMMA ErrorsStay ==
    ASSUME NEW fs, NEW t, NEW a, a.error # "none", NEW walk
    PROVE  Tree!WalkEntry(fs, CallOf(t, a), walk) = a
<1>1. CallOf(t, a).acc = a
      BY DEF CallOf
<1>2. QED
      BY <1>1 DEF Tree!WalkEntry

LEMMA VisitIsExact ==
    ASSUME NEW fs, FileSystem(fs), MaxDepth \in Nat, MaxItems \in Nat, MaxPathUnits \in Nat,
           NEW t \in Trail(fs), NEW a, Going(a), NEW walk,
           Len(t.path) <= MaxDepth /\ Opens(fs, t) => WalksChildren(fs, t, walk)
    PROVE  Walked(fs, t, a.entries, Tree!WalkEntry(fs, CallOf(t, a), walk))
<1> DEFINE L == Len(t.path)
           e == a.entries
           m == Len(e)
           c == CallOf(t, a)
           item == [path |-> t.path, dir |-> fs[End(t)].dir]
           entered == [entries |-> Append(e, item), units |-> a.units + L, error |-> "none"]
           r == Tree!WalkEntry(fs, c, walk)
           Wrong(reason) == [a EXCEPT !.error = reason]
<1>1. /\ a \in Tree!Captured /\ a.error = "none" /\ a.units = Units(e)
      /\ e \in Seq(Item) /\ m \in Nat /\ a.units \in Nat
      /\ a = [entries |-> e, units |-> a.units, error |-> "none"]
      BY CapturedFacts DEF Going
<1>2. L \in Nat /\ L >= 1 /\ t.path \in Seq(Nat) /\ t.path \in Below(fs, t) /\ End(t) \in DOMAIN fs
      BY <1>1, TrailFacts, SelfBelow, CallFacts
<1>3. fs[End(t)].dir \in BOOLEAN
      BY <1>2 DEF FileSystem
<1>4. item \in Item
      BY <1>2, <1>3 DEF Item
<1>5. item.path = t.path /\ item.dir = fs[End(t)].dir
      OBVIOUS
<1>6. c.node = End(t) /\ c.path = t.path /\ c.acc = a
      BY DEF CallOf
<1> HIDE DEF item, c
<1>7. Append(e, item) \in Seq(Item) /\ Units(Append(e, item)) = a.units + L
      BY <1>1, <1>4, <1>5, UnitsOfAppend
<1>8. /\ Len(Append(e, item)) = m + 1 /\ Append(e, item)[m + 1] = item
      /\ \A i \in 1 .. m : Append(e, item)[i] = e[i]
      BY <1>1, <1>4
<1>9. Tree!Entered(fs, c) = entered
  <2>1. Tree!Entered(fs, c) = [a EXCEPT !.entries = Append(e, item), !.units = a.units + L]
        BY <1>6 DEF Tree!Entered, item
  <2>2. a.entries = e
        OBVIOUS
  <2> HIDE DEF e, L
  <2>3. QED
        BY <1>1, <2>1, <2>2
<1>10. entered \in Tree!Captured /\ Going(entered)
  <2>1. entered.entries \in Seq(Item) /\ entered.units \in Nat /\ entered.error \in Reason
    <3>1. entered.entries = Append(e, item) /\ entered.units = a.units + L /\ entered.error = "none"
          OBVIOUS
    <3>2. a.units + L \in Nat
          BY <1>1, <1>2
    <3> HIDE DEF entered, e, L
    <3>3. entered.error \in Reason
          BY <3>1, Reasons
    <3>4. QED
          BY <1>7, <3>1, <3>2, <3>3
  <2>2. entered \in Tree!Captured
        BY <2>1, CapturedRecord
  <2>3. QED
        BY <1>7, <2>2 DEF Going
<1>11. \A reason \in {"TreeTooDeep", "ManifestTooLarge"} :
           Wrong(reason) \in Tree!Captured /\ Wrong(reason).error # "none"
  <2> SUFFICES ASSUME NEW reason \in {"TreeTooDeep", "ManifestTooLarge"}
               PROVE  Wrong(reason) \in Tree!Captured /\ Wrong(reason).error # "none"
      OBVIOUS
  <2>1. Wrong(reason) = [entries |-> e, units |-> a.units, error |-> reason]
        BY <1>1
  <2>2. reason \in Reason /\ reason # "none"
        BY Reasons
  <2>3. [entries |-> e, units |-> a.units, error |-> reason] \in Tree!Captured
        BY <1>1, <2>2, CapturedRecord
  <2> HIDE DEF Wrong, e
  <2>4. QED
        BY <2>1, <2>2, <2>3
<1>12. Continues(Append(e, item), e)
       BY <1>1, <1>8 DEF Continues
<1>13. /\ PartOf(Append(e, item), m, {t.path}) /\ Covers(Append(e, item), m, {t.path})
       /\ Nested(Append(e, item), m, L)
  <2>1. m + 1 \in m + 1 .. m + 1 /\ \A i \in m + 1 .. m + 1 : i = m + 1
        BY <1>1
  <2>2. PartOf(Append(e, item), m, {t.path}) /\ Covers(Append(e, item), m, {t.path})
        BY <1>5, <1>8, <2>1 DEF PartOf, Covers
  <2>3. ~(\E depth : depth \in L .. L - 1)
        BY <1>2
  <2>4. Nested(Append(e, item), m, L)
        BY <1>5, <1>8, <2>1, <2>3 DEF Nested
  <2>5. QED
        BY <2>2, <2>4
<1>14. Exceeds(Append(e, item)) <=> m >= MaxItems \/ entered.units > MaxPathUnits
       BY <1>1, <1>7, <1>8 DEF Exceeds
<1>18. SUFFICES Walked(fs, t, e, r)
       BY DEF c
<1> HIDE DEF entered, Wrong, r
<1>15. CASE L > MaxDepth
  <2>1. r = Wrong("TreeTooDeep")
        BY <1>1, <1>6, <1>15 DEF Tree!WalkEntry, Wrong, r
  <2>2. r \in Tree!Captured /\ r.error # "none"
        BY <1>11, <2>1
  <2>3. Bad(t.path, L)
        BY <1>15 DEF Bad
  <2>4. QED
        BY <1>2, <2>2, <2>3 DEF Walked, Refusable
<1>16. CASE L <= MaxDepth /\ Exceeds(Append(e, item))
  <2>1. r = Wrong("ManifestTooLarge")
    <3>1. Len(a.entries) >= MaxItems \/ Tree!Entered(fs, c).units > MaxPathUnits
          BY <1>9, <1>14, <1>16
    <3>2. ~(L > MaxDepth)
          BY <1>2, <1>16
    <3>3. QED
          BY <1>1, <1>6, <1>16, <3>1, <3>2 DEF Tree!WalkEntry, Wrong, r
  <2>2. r \in Tree!Captured /\ r.error # "none"
        BY <1>11, <2>1
  <2>3. PartOf(Append(e, item), m, Below(fs, t))
        BY <1>2, <1>13 DEF PartOf
  <2>4. Refusable(fs, t, e)
        BY <1>7, <1>12, <1>16, <2>3 DEF Refusable
  <2>5. QED
        BY <2>2, <2>4 DEF Walked
<1>17. CASE L <= MaxDepth /\ ~Exceeds(Append(e, item))
  <2>1. r = IF ~Tree!Enter(fs, c.node, c.active) THEN entered
            ELSE IF \E name \in DOMAIN fs[c.node].children : ~Tree!Valid(name)
                 THEN [entered EXCEPT !.error = "InvalidName"]
                 ELSE Tree!WalkChildren(fs, c, entered, walk)
    <3>1. ~(Len(a.entries) >= MaxItems \/ Tree!Entered(fs, c).units > MaxPathUnits)
          BY <1>9, <1>14, <1>17
    <3>2. ~(L > MaxDepth)
          BY <1>2, <1>17
    <3>3. QED
          BY <1>1, <1>6, <1>9, <3>1, <3>2 DEF Tree!WalkEntry, r
  <2>2. Tree!Enter(fs, c.node, c.active) <=> Opens(fs, t)
        BY <1>1, <1>6, CallFacts DEF c
  <2>3. entered.entries = Append(e, item) /\ entered.error = "none"
        BY DEF entered
  <2>4. CASE ~Opens(fs, t)
    <3>1. r = entered
          BY <2>1, <2>2, <2>4
    <3>2. Below(fs, t) = {t.path}
          BY <2>4, NothingBelow
    <3>3. ~Bad(t.path, L)
      <4>1. ~(\E k : k \in L + 1 .. L)
            BY <1>2
      <4>2. QED
            BY <1>2, <1>17, <4>1 DEF Bad
    <3>4. Listing(e, entered, {t.path}, L)
          BY <1>10, <1>12, <1>13, <1>17, <2>3 DEF Listing
    <3>5. QED
          BY <2>3, <3>1, <3>2, <3>3, <3>4 DEF Walked, Complete
  <2>5. CASE Opens(fs, t) /\ \E name \in DOMAIN fs[End(t)].children : ~Tree!Valid(name)
    <3>1. PICK name \in DOMAIN fs[End(t)].children : ~Tree!Valid(name)
          BY <2>5
    <3> DEFINE u == Child(fs, t, name)
    <3>2. u \in Trail(fs) /\ Len(u.path) = L + 1 /\ u.path[L + 1] = name
          BY <1>17, <2>5, ChildIsTrail
    <3> HIDE DEF u
    <3>3. u.path \in Below(fs, u)
          BY <3>2, SelfBelow
    <3>4. u.path \in Below(fs, t)
          BY <1>17, <2>5, <3>3, ChildrenBelow DEF u
    <3>5. Bad(u.path, L)
      <4>1. L + 1 \in L + 1 .. Len(u.path)
            BY <1>2, <3>2
      <4>2. QED
            BY <3>1, <3>2, <4>1 DEF Bad
    <3>6. r = [entered EXCEPT !.error = "InvalidName"]
          BY <1>6, <2>1, <2>2, <2>5
    <3>7. r \in Tree!Captured /\ r.error # "none"
      <4>1. entered = [entries |-> Append(e, item), units |-> a.units + L, error |-> "none"]
            BY DEF entered
      <4>2. r = [entries |-> Append(e, item), units |-> a.units + L, error |-> "InvalidName"]
        <5> HIDE DEF e, L
        <5>1. QED
              BY <3>6, <4>1
      <4>3. a.units + L \in Nat
            BY <1>1, <1>2
      <4>4. r \in Tree!Captured
            BY <1>7, <4>2, <4>3, Reasons, CapturedRecord
      <4> HIDE DEF e, L
      <4>5. QED
            BY <4>2, <4>4, Reasons
    <3>8. QED
          BY <3>4, <3>5, <3>7 DEF Walked, Refusable
  <2>6. CASE Opens(fs, t) /\ \A name \in DOMAIN fs[End(t)].children : Tree!Valid(name)
    <3>1. r = Tree!WalkChildren(fs, c, entered, walk)
          BY <1>6, <2>1, <2>2, <2>6
    <3>2. fs[End(t)].dir = TRUE
          BY <1>3, <2>6 DEF Opens, OpensAt, End
    <3>3. entered.entries = Append(e, [path |-> t.path, dir |-> TRUE])
          BY <2>3, <3>2 DEF item
    <3>4. ~Exceeds(entered.entries)
          BY <1>17, <2>3
    <3> HIDE DEF e
    <3>5. Walked(fs, t, e, Tree!WalkChildren(fs, c, entered, walk))
          BY <1>1, <1>10, <1>17, <2>6, <3>3, <3>4, AllChildrenWalked DEF c
    <3>6. QED
          BY <3>1, <3>5
  <2>7. QED
        BY <2>4, <2>5, <2>6
<1>19. QED
       BY <1>2, <1>15, <1>16, <1>17

\* capture_tree_entry, called for a trail.
LEMMA WalkIsExact ==
    ASSUME NEW fs, FileSystem(fs), MaxDepth \in Nat \ {0}, MaxItems \in Nat, MaxPathUnits \in Nat,
           NEW t \in Trail(fs), Len(t.path) = 1, NEW a \in Tree!Captured
    PROVE  IF a.error = "none"
           THEN Going(a) => Walked(fs, t, a.entries, Tree!Walk(fs)[CallOf(t, a)])
           ELSE Tree!Walk(fs)[CallOf(t, a)] = a
<1> DEFINE Right(u, w) == \A b \in Tree!Captured :
               IF b.error = "none" THEN Going(b) => Walked(fs, u, b.entries, w[CallOf(u, b)])
               ELSE w[CallOf(u, b)] = b
<1>1. MaxDepth \in Nat /\ MaxDepth # 0
      OBVIOUS
<1>2. PICK w : /\ Tree!Walk(fs) = w[MaxDepth]
               /\ \A left \in 0 .. MaxDepth : \A c \in Tree!Call(fs) :
                     w[left][c] = Tree!WalkEntry(fs, c, IF left = 0 THEN <<>> ELSE w[left - 1])
      BY <1>1, WalkByLevel
<1> DEFINE S == {left \in Nat : left <= MaxDepth =>
                    \A u \in Trail(fs) : Len(u.path) + left = MaxDepth + 1 => Right(u, w[left])}
<1>3. ASSUME NEW left \in Nat, left <= MaxDepth, NEW u \in Trail(fs), Len(u.path) + left = MaxDepth + 1,
             left # 0 => \A v \in Trail(fs) : Len(v.path) = Len(u.path) + 1 => Right(v, w[left - 1])
      PROVE  Right(u, w[left])
  <2> DEFINE below == IF left = 0 THEN <<>> ELSE w[left - 1]
  <2>1. left \in 0 .. MaxDepth /\ Len(u.path) \in Nat
        BY <1>1, <1>3, TrailFacts
  <2>2. \A c \in Tree!Call(fs) : w[left][c] = Tree!WalkEntry(fs, c, below)
        BY <1>2, <2>1
  <2>3. Len(u.path) <= MaxDepth /\ Opens(fs, u) => WalksChildren(fs, u, below)
    <3> SUFFICES ASSUME Len(u.path) <= MaxDepth, Opens(fs, u),
                        NEW name \in DOMAIN fs[End(u)].children
                 PROVE  Right(Child(fs, u, name), below)
        BY DEF WalksChildren
    <3>1. Child(fs, u, name) \in Trail(fs) /\ Len(Child(fs, u, name).path) = Len(u.path) + 1
          BY <1>1, ChildIsTrail
    <3>2. left # 0
          BY <1>1, <1>3, <2>1
    <3> HIDE DEF Right
    <3>3. QED
          BY <1>3, <3>1, <3>2
  <2> HIDE DEF below
  <2>4. ASSUME NEW b \in Tree!Captured
        PROVE  IF b.error = "none" THEN Going(b) => Walked(fs, u, b.entries, w[left][CallOf(u, b)])
               ELSE w[left][CallOf(u, b)] = b
    <3>1. CallOf(u, b) \in Tree!Call(fs)
          BY <1>1, CallFacts
    <3>2. w[left][CallOf(u, b)] = Tree!WalkEntry(fs, CallOf(u, b), below)
          BY <2>2, <3>1
    <3>3. CASE b.error # "none"
          BY <3>2, <3>3, ErrorsStay
    <3>4. CASE b.error = "none" /\ Going(b)
      <4>1. Walked(fs, u, b.entries, Tree!WalkEntry(fs, CallOf(u, b), below))
            BY <1>1, <2>3, <3>4, VisitIsExact
      <4>2. QED
            BY <3>2, <3>4, <4>1
    <3>5. CASE b.error = "none" /\ ~Going(b)
          BY <3>5
    <3>6. QED
          BY <3>3, <3>4, <3>5
  <2>5. QED
        BY <2>4
<1> HIDE DEF Right
<1>4. 0 \in S
  <2> SUFFICES ASSUME NEW u \in Trail(fs), Len(u.path) + 0 = MaxDepth + 1 PROVE Right(u, w[0])
      OBVIOUS
  <2>1. 0 \in Nat /\ 0 <= MaxDepth
        BY <1>1
  <2>2. QED
        BY <1>3, <2>1
<1>5. ASSUME NEW left \in Nat, left \in S PROVE left + 1 \in S
  <2>4. left + 1 \in Nat
        OBVIOUS
  <2> SUFFICES ASSUME left + 1 <= MaxDepth, NEW u \in Trail(fs), Len(u.path) + (left + 1) = MaxDepth + 1
               PROVE  Right(u, w[left + 1])
      BY <2>4
  <2>1. left + 1 \in Nat /\ (left + 1) - 1 = left /\ left <= MaxDepth /\ Len(u.path) \in Nat
        BY <1>1, TrailFacts
  <2>2. ASSUME NEW v \in Trail(fs), Len(v.path) = Len(u.path) + 1 PROVE Right(v, w[left])
    <3>1. Len(v.path) + left = MaxDepth + 1
      <4> DEFINE x == Len(u.path)  y == Len(v.path)
      <4>1. x \in Nat /\ y = x + 1 /\ x + (left + 1) = MaxDepth + 1
            BY <2>1, <2>2
      <4> HIDE DEF x, y
      <4>2. y + left = MaxDepth + 1
            BY <1>1, <4>1
      <4>3. QED
            BY <4>2 DEF y
    <3>2. QED
          BY <1>5, <2>1, <3>1
  <2>3. QED
        BY <1>3, <2>1, <2>2
<1> HIDE DEF S
<1>6. MaxDepth \in S
      BY <1>1, <1>4, <1>5, Induction
<1>7. Right(t, w[MaxDepth])
  <2>1. \A u \in Trail(fs) : Len(u.path) + MaxDepth = MaxDepth + 1 => Right(u, w[MaxDepth])
        BY <1>1, <1>6 DEF S
  <2>2. Len(t.path) + MaxDepth = MaxDepth + 1
        BY <1>1
  <2>3. QED
        BY <2>1, <2>2
<1>8. QED
      BY <1>2, <1>7 DEF Right

-----------------------------------------------------------------------------
(* The paths below a root: the ones that Trails names are those below its     *)
(* trail, and they are finitely many.                                         *)

\* What holds for every trail whose children have it, holds below every trail.
LEMMA BelowIsFinite ==
    ASSUME NEW fs, FileSystem(fs), MaxDepth \in Nat, NEW t \in Trail(fs)
    PROVE  IsFiniteSet(Below(fs, t))
<1> DEFINE S == {left \in Nat : \A u \in Trail(fs) :
                    Len(u.path) + left = MaxDepth + 1 => IsFiniteSet(Below(fs, u))}
<1>1. 0 \in S
  <2>1. ASSUME NEW u \in Trail(fs), Len(u.path) + 0 = MaxDepth + 1 PROVE IsFiniteSet(Below(fs, u))
    <3>1. Len(u.path) = MaxDepth + 1
          BY <2>1, TrailFacts
    <3>2. Below(fs, u) = {u.path}
          BY <3>1, NothingBelow
    <3>3. QED
          BY <3>2, FS_Singleton
  <2>2. QED
        BY <2>1
<1>2. ASSUME NEW left \in Nat, left \in S PROVE left + 1 \in S
  <2>1. ASSUME NEW u \in Trail(fs), Len(u.path) + (left + 1) = MaxDepth + 1
        PROVE  IsFiniteSet(Below(fs, u))
    <3>1. Len(u.path) \in Nat /\ Len(u.path) >= 1
          BY TrailFacts
    <3>2. Len(u.path) <= MaxDepth
      <4> DEFINE x == Len(u.path)
      <4>1. x \in Nat /\ x + (left + 1) = MaxDepth + 1
            BY <2>1, <3>1
      <4> HIDE DEF x
      <4>2. x <= MaxDepth
            BY <4>1
      <4>3. QED
            BY <4>2 DEF x
    <3>3. CASE ~Opens(fs, u)
      <4>1. Below(fs, u) = {u.path}
            BY <3>3, NothingBelow
      <4>2. QED
            BY <4>1, FS_Singleton
    <3>4. CASE Opens(fs, u)
      <4> DEFINE names == DOMAIN fs[End(u)].children
                 family == {Below(fs, Child(fs, u, name)) : name \in names}
                 f == [name \in names |-> Below(fs, Child(fs, u, name))]
      <4>1. End(u) \in DOMAIN fs
            BY <3>1, TrailFacts DEF End
      <4>2. IsFiniteSet(names)
            BY <4>1 DEF FileSystem
      <4>3. f \in Surjection(names, family)
            BY DEF Surjection
      <4>4. \A name \in names : IsFiniteSet(Below(fs, Child(fs, u, name)))
        <5> SUFFICES ASSUME NEW name \in names PROVE IsFiniteSet(Below(fs, Child(fs, u, name)))
            OBVIOUS
        <5>1. Child(fs, u, name) \in Trail(fs) /\ Len(Child(fs, u, name).path) = Len(u.path) + 1
              BY <3>2, <3>4, ChildIsTrail
        <5>2. Len(Child(fs, u, name).path) + left = MaxDepth + 1
          <6> DEFINE x == Len(u.path)  y == Len(Child(fs, u, name).path)
          <6>1. x \in Nat /\ y = x + 1 /\ x + (left + 1) = MaxDepth + 1
                BY <2>1, <3>1, <5>1
          <6> HIDE DEF x, y
          <6>2. y + left = MaxDepth + 1
                BY <6>1
          <6>3. QED
                BY <6>2 DEF y
        <5>3. QED
              BY <1>2, <5>1, <5>2
      <4>5. \A T \in family : IsFiniteSet(T)
            BY <4>4
      <4>6. \A p : p \in Below(fs, u) <=> p = u.path \/ \E T \in family : p \in T
            BY <3>2, <3>4, ChildrenBelow
      <4>7. Below(fs, u) = {u.path} \cup UNION family
        <5> HIDE DEF family
        <5>1. QED
              BY <4>6
      <4> HIDE DEF names, family, f
      <4>8. IsFiniteSet(family)
            BY <4>2, <4>3, FS_Surjection
      <4>9. IsFiniteSet(UNION family)
            BY <4>5, <4>8, FS_UNION
      <4>10. IsFiniteSet({u.path})
             BY FS_Singleton
      <4>11. QED
             BY <4>7, <4>9, <4>10, FS_Union, Zenon
    <3>5. QED
          BY <3>3, <3>4
  <2>2. left + 1 \in Nat
        OBVIOUS
  <2>3. QED
        BY <2>1, <2>2
<1>3. Len(t.path) \in Nat /\ Len(t.path) <= MaxDepth + 1
      BY TrailFacts
<1>4. (MaxDepth + 1) - Len(t.path) \in Nat
      BY <1>3
<1>5. Len(t.path) + ((MaxDepth + 1) - Len(t.path)) = MaxDepth + 1
      BY <1>3
<1> HIDE DEF S
<1>6. \A left \in Nat : left \in S
      BY <1>1, <1>2, Induction
<1>7. QED
      BY <1>4, <1>5, <1>6 DEF S

\* The trail of a root, its call and its limits.
RootOf(fs) == [path : Seq(Nat), node : DOMAIN fs]

RootTrail(r) == [path |-> <<Tree!Last(r.path)>>, nodes |-> <<r.node>>]

LEMMA RootIsTrail ==
    ASSUME NEW fs, MaxDepth \in Nat, NEW r \in RootOf(fs), r.path # <<>>
    PROVE  /\ RootTrail(r) \in Trail(fs) /\ Len(RootTrail(r).path) = 1
           /\ RootTrail(r).path[1] = Tree!Last(r.path) /\ RootTrail(r).nodes[1] = r.node
           /\ \A a : CallOf(RootTrail(r), a) =
                  [node |-> r.node, path |-> <<Tree!Last(r.path)>>, active |-> {}, acc |-> a]
<1> DEFINE last == Tree!Last(r.path)
           t == RootTrail(r)
<1>1. r.path \in Seq(Nat) /\ r.node \in DOMAIN fs
      BY DEF RootOf
<1>2. last \in Nat
  <2>1. Len(r.path) \in Nat /\ Len(r.path) # 0
        BY <1>1
  <2>2. Len(r.path) \in 1 .. Len(r.path)
        BY <2>1
  <2>3. last = r.path[Len(r.path)]
        BY DEF Tree!Last
  <2>4. QED
        BY <1>1, <2>2, <2>3, ElementOfSeq
<1> HIDE DEF last
<1>3. t = [path |-> <<last>>, nodes |-> <<r.node>>]
      BY DEF RootTrail, last
<1>4. /\ t.path = <<last>> /\ t.nodes = <<r.node>> /\ <<last>> \in Seq(Nat) /\ <<r.node>> \in Seq(DOMAIN fs)
      /\ Len(<<last>>) = 1 /\ Len(<<r.node>>) = 1 /\ <<last>>[1] = last /\ <<r.node>>[1] = r.node
      BY <1>1, <1>2, <1>3
<1>5. t \in [path : Seq(Nat), nodes : Seq(DOMAIN fs)]
      BY <1>3, <1>4
<1> HIDE DEF t
<1>6. 1 \in 1 .. MaxDepth + 1 /\ ~(\E k : k \in 1 .. 1 - 1)
      OBVIOUS
<1>7. Follows(fs, t.path, t.nodes)
      BY <1>4, <1>6 DEF Follows
<1>8. t \in Trail(fs)
      BY <1>4, <1>5, <1>6, <1>7 DEF Trail
<1>9. ASSUME NEW a
      PROVE  CallOf(t, a) = [node |-> r.node, path |-> <<last>>, active |-> {}, acc |-> a]
  <2>1. End(t) = r.node
        BY <1>4 DEF End
  <2>2. {t.nodes[j] : j \in 1 .. Len(t.path) - 1} = {}
        BY <1>4, <1>6
  <2>3. QED
        BY <1>4, <2>1, <2>2 DEF CallOf
<1>10. QED
       BY <1>4, <1>8, <1>9 DEF t, last

\* The trails that are one name longer than a trail.
Deeper(fs, t) ==
    LET node == Tree!Last(t.nodes) IN
    IF fs[node].dir /\ node \notin Tree!ToSet(Tree!Front(t.nodes))
    THEN {[path |-> Append(t.path, name), nodes |-> Append(t.nodes, fs[node].children[name])] :
             name \in DOMAIN fs[node].children}
    ELSE {}

LevelsOf(level, fs, r) ==
    /\ level[1] = {RootTrail(r)}
    /\ \A n \in 1 .. MaxDepth : level[n + 1] = UNION {Deeper(fs, t) : t \in level[n]}

LEMMA TrailsByLength ==
    ASSUME NEW fs, NEW r, MaxDepth \in Nat
    PROVE  \E level : LevelsOf(level, fs, r) /\ Tree!Trails(fs, r) = UNION {level[n] : n \in 1 .. MaxDepth + 1}
<1> DEFINE Level(n, before) == IF n = 1 THEN {[path |-> <<Tree!Last(r.path)>>, nodes |-> <<r.node>>]}
                               ELSE UNION {LET node == Tree!Last(t.nodes) IN
                                           IF fs[node].dir /\ node \notin Tree!ToSet(Tree!Front(t.nodes))
                                           THEN {[path |-> Append(t.path, name),
                                                  nodes |-> Append(t.nodes, fs[node].children[name])] :
                                                    name \in DOMAIN fs[node].children}
                                           ELSE {} : t \in before}
           Recurs(f, n) == f = [i \in 1 .. n |-> Level(i, f[i - 1])]
           S == {n \in Nat : \E f : Recurs(f, n)}
<1>1. 0 \in S
  <2>1. Recurs([i \in 1 .. 0 |-> {}], 0)
        OBVIOUS
  <2>2. QED
        BY <2>1
<1>2. ASSUME NEW n \in Nat, n \in S PROVE n + 1 \in S
  <2>1. PICK f : Recurs(f, n)
        BY <1>2
  <2>2. \A before, other : Level(1, before) = Level(1, other)
        OBVIOUS
  <2> HIDE DEF Level
  <2> DEFINE g == [i \in 1 .. n + 1 |-> IF i = n + 1 THEN Level(n + 1, f[n]) ELSE f[i]]
  <2>3. \A i \in 1 .. n : f[i] = Level(i, f[i - 1])
        BY <2>1
  <2>4. \A i \in 1 .. n + 1 : g[i] = Level(i, g[i - 1])
    <3> SUFFICES ASSUME NEW i \in 1 .. n + 1 PROVE g[i] = Level(i, g[i - 1])
        OBVIOUS
    <3>1. i = 1 \/ (i # 1 /\ i - 1 \in 1 .. n)
          OBVIOUS
    <3>2. CASE i = n + 1
      <4>1. g[i] = Level(n + 1, f[n])
            BY <3>2
      <4>2. CASE i = 1
        <5>1. Level(1, f[n]) = Level(1, g[i - 1])
          <6> HIDE DEF g
          <6>1. QED
                BY <2>2
        <5>2. n + 1 = 1
              BY <3>2, <4>2
        <5>3. QED
              BY <4>1, <4>2, <5>1, <5>2
      <4>3. CASE i # 1
        <5>1. i - 1 = n /\ n \in 1 .. n + 1 /\ n # n + 1
              BY <3>2, <4>3
        <5>2. g[i - 1] = f[n]
              BY <5>1
        <5>3. QED
              BY <3>2, <4>1, <5>2
      <4>4. QED
            BY <4>2, <4>3
    <3>3. CASE i # n + 1
      <4>1. i \in 1 .. n /\ g[i] = f[i]
            BY <3>3
      <4>2. CASE i = 1
        <5>1. Level(1, f[i - 1]) = Level(1, g[i - 1])
          <6> HIDE DEF g
          <6>1. QED
                BY <2>2
        <5>2. QED
              BY <2>3, <4>1, <4>2, <5>1
      <4>3. CASE i # 1
        <5>1. i - 1 \in 1 .. n + 1 /\ i - 1 # n + 1
              BY <4>1, <4>3
        <5>2. g[i - 1] = f[i - 1]
              BY <5>1
        <5>3. QED
              BY <2>3, <4>1, <5>2
      <4>4. QED
            BY <4>2, <4>3
    <3>4. QED
          BY <3>2, <3>3
  <2>5. g = [i \in 1 .. n + 1 |-> g[i]]
        OBVIOUS
  <2> HIDE DEF g
  <2>6. Recurs(g, n + 1)
        BY <2>4, <2>5
  <2> HIDE DEF Recurs
  <2>7. QED
        BY <2>6
<1> HIDE DEF S
<1>3. MaxDepth + 1 \in S
      BY <1>1, <1>2, Induction
<1> DEFINE level == CHOOSE f : Recurs(f, MaxDepth + 1)
<1>4. Recurs(level, MaxDepth + 1)
      BY <1>3, Zenon DEF S
<1>5. Tree!Trails(fs, r) = UNION {level[n] : n \in 1 .. MaxDepth + 1}
      BY DEF Tree!Trails
<1> HIDE DEF level
<1>6. \A n \in 1 .. MaxDepth + 1 : level[n] = Level(n, level[n - 1])
  <2> HIDE DEF Level
  <2>1. QED
        BY <1>4
<1>7. level[1] = {RootTrail(r)}
  <2>1. 1 \in 1 .. MaxDepth + 1
        OBVIOUS
  <2>2. QED
        BY <1>6, <2>1 DEF RootTrail
<1>8. ASSUME NEW n \in 1 .. MaxDepth PROVE level[n + 1] = UNION {Deeper(fs, t) : t \in level[n]}
  <2>1. n + 1 \in 1 .. MaxDepth + 1 /\ n + 1 # 1 /\ (n + 1) - 1 = n
        OBVIOUS
  <2>2. Level(n + 1, level[n]) = UNION {Deeper(fs, t) : t \in level[n]}
        BY <2>1 DEF Deeper
  <2> HIDE DEF Level
  <2>3. level[n + 1] = Level(n + 1, level[n])
        BY <1>6, <2>1
  <2>4. QED
        BY <2>2, <2>3
<1>9. QED
      BY <1>5, <1>7, <1>8 DEF LevelsOf

LEMMA DeeperIsChildren ==
    ASSUME NEW fs, FileSystem(fs), MaxDepth \in Nat, NEW t \in Trail(fs)
    PROVE  \A u : u \in Deeper(fs, t) <=>
               Opens(fs, t) /\ \E name \in DOMAIN fs[End(t)].children : u = Child(fs, t, name)
<1> DEFINE n == Len(t.path)
           front == SubSeq(t.nodes, 1, n - 1)
<1>1. /\ t.nodes \in Seq(DOMAIN fs) /\ n \in Nat /\ n >= 1 /\ Len(t.nodes) = n
      /\ \A k \in 1 .. n : t.nodes[k] \in DOMAIN fs
      BY TrailFacts
<1>2. Tree!Last(t.nodes) = End(t) /\ End(t) = t.nodes[n]
      BY <1>1 DEF Tree!Last, End
<1>3. Tree!Front(t.nodes) = front
      BY <1>1 DEF Tree!Front
<1>4. Len(front) = n - 1 /\ DOMAIN front = 1 .. n - 1 /\ \A k \in 1 .. n - 1 : front[k] = t.nodes[k]
  <2>1. 1 \in Int /\ n - 1 \in Int /\ (n - 1) - 1 + 1 = n - 1 /\ n - 1 >= 0
        BY <1>1
  <2>2. \A k \in 1 .. n - 1 : 1 + k - 1 = k /\ k \in 1 .. n
        BY <1>1
  <2>3. \A k \in 1 .. n - 1 : t.nodes[k] \in DOMAIN fs
        BY <1>1, <2>2
  <2>4. /\ front \in Seq(DOMAIN fs) /\ Len(front) = n - 1
        /\ \A k \in 1 .. n - 1 : front[k] = t.nodes[k]
    <3>1. CASE n - 1 = 0
      <4>1. front = <<>>
            BY <1>1, <3>1
      <4>2. <<>> \in Seq(DOMAIN fs) /\ Len(<<>>) = 0 /\ ~(\E k : k \in 1 .. 0)
            OBVIOUS
      <4> HIDE DEF front
      <4>3. QED
            BY <3>1, <4>1, <4>2
    <3>2. CASE n - 1 # 0
      <4>1. 1 <= n - 1
        <5>1. n \in Nat /\ n >= 1
              BY <1>1
        <5> HIDE DEF n
        <5>2. QED
              BY <3>2, <5>1
      <4>2. QED
            BY <2>1, <2>2, <2>3, <4>1, SubSeqProperties
    <3>3. QED
          BY <3>1, <3>2
  <2> HIDE DEF front
  <2>5. QED
        BY <2>4
<1> HIDE DEF front
<1>5. Tree!ToSet(front) = {t.nodes[k] : k \in 1 .. n - 1}
      BY <1>4 DEF Tree!ToSet
<1>6. Opens(fs, t) <=> fs[End(t)].dir /\ End(t) \notin Tree!ToSet(front)
  <2>1. Opens(fs, t) <=> fs[t.nodes[n]].dir /\ \A k \in 1 .. n - 1 : t.nodes[k] # t.nodes[n]
        BY <1>1 DEF Opens, OpensAt
  <2>2. QED
        BY <1>2, <1>5, <2>1
<1>7. Deeper(fs, t) = IF Opens(fs, t)
                      THEN {[path |-> Append(t.path, name), nodes |-> Append(t.nodes, fs[End(t)].children[name])] :
                               name \in DOMAIN fs[End(t)].children}
                      ELSE {}
      BY <1>2, <1>3, <1>6 DEF Deeper
<1>8. QED
      BY <1>7 DEF Child

\* A trail without its last name.
LEMMA TrailBefore ==
    ASSUME NEW fs, FileSystem(fs), MaxDepth \in Nat, NEW u \in Trail(fs), NEW n \in Nat, n >= 1, Len(u.path) = n + 1
    PROVE  \E t \in Trail(fs) :
               /\ Len(t.path) = n /\ Agree(t, u) /\ Opens(fs, t)
               /\ \E name \in DOMAIN fs[End(t)].children : u = Child(fs, t, name)
<1> DEFINE path == SubSeq(u.path, 1, n)
           nodes == SubSeq(u.nodes, 1, n)
           t == [path |-> path, nodes |-> nodes]
           name == u.path[n + 1]
<1>1. /\ u = [path |-> u.path, nodes |-> u.nodes]
      /\ u.path \in Seq(Nat) /\ u.nodes \in Seq(DOMAIN fs) /\ Len(u.nodes) = n + 1 /\ n + 1 <= MaxDepth + 1
      /\ \A k \in 1 .. n + 1 : u.path[k] \in Nat /\ u.nodes[k] \in DOMAIN fs
      /\ Follows(fs, u.path, u.nodes)
  <2>1. /\ u = [path |-> u.path, nodes |-> u.nodes]
        /\ u.path \in Seq(Nat) /\ u.nodes \in Seq(DOMAIN fs) /\ Len(u.nodes) = Len(u.path)
        /\ Len(u.path) <= MaxDepth + 1
        /\ \A k \in 1 .. Len(u.path) : u.path[k] \in Nat /\ u.nodes[k] \in DOMAIN fs
        /\ Follows(fs, u.path, u.nodes)
        BY TrailFacts
  <2>2. QED
        BY <2>1
<1>2. 1 \in Int /\ n \in Int /\ n - 1 + 1 = n /\ 1 <= n
      OBVIOUS
<1>3. \A k \in 1 .. n : 1 + k - 1 = k /\ k \in 1 .. n + 1
      OBVIOUS
<1>4. \A k \in 1 .. n : u.path[k] \in Nat /\ u.nodes[k] \in DOMAIN fs
      BY <1>1, <1>3
<1>5. path \in Seq(Nat) /\ Len(path) = n /\ \A k \in 1 .. n : path[k] = u.path[k]
      BY <1>2, <1>3, <1>4, SubSeqProperties
<1>6. nodes \in Seq(DOMAIN fs) /\ Len(nodes) = n /\ \A k \in 1 .. n : nodes[k] = u.nodes[k]
      BY <1>2, <1>3, <1>4, SubSeqProperties
<1> HIDE DEF path, nodes
<1>7. t \in [path : Seq(Nat), nodes : Seq(DOMAIN fs)] /\ t.path = path /\ t.nodes = nodes
      BY <1>5, <1>6
<1> HIDE DEF t
<1>8. Follows(fs, path, nodes)
  <2> SUFFICES ASSUME NEW k \in 1 .. n - 1
               PROVE  /\ OpensAt(fs, nodes, k)
                      /\ path[k + 1] \in DOMAIN fs[nodes[k]].children
                      /\ nodes[k + 1] = fs[nodes[k]].children[path[k + 1]]
      BY <1>5 DEF Follows
  <2>1. k \in 1 .. n /\ k + 1 \in 1 .. n /\ k \in 1 .. (n + 1) - 1 /\ \A j \in 1 .. k - 1 : j \in 1 .. n
        OBVIOUS
  <2>2. /\ OpensAt(fs, u.nodes, k)
        /\ u.path[k + 1] \in DOMAIN fs[u.nodes[k]].children
        /\ u.nodes[k + 1] = fs[u.nodes[k]].children[u.path[k + 1]]
        BY <1>1, <2>1 DEF Follows
  <2>3. path[k + 1] = u.path[k + 1] /\ nodes[k] = u.nodes[k] /\ nodes[k + 1] = u.nodes[k + 1]
        BY <1>5, <1>6, <2>1
  <2>4. OpensAt(fs, nodes, k)
        BY <1>6, <2>1, <2>2 DEF OpensAt
  <2>5. QED
        BY <2>2, <2>3, <2>4
<1>9. n \in 1 .. MaxDepth + 1
      BY <1>1
<1>10. t \in Trail(fs)
       BY <1>5, <1>6, <1>7, <1>8, <1>9 DEF Trail
<1>11. Agree(t, u)
       BY <1>5, <1>6, <1>7 DEF Agree
<1>12. n \in 1 .. n /\ n \in 1 .. (n + 1) - 1 /\ \A j \in 1 .. n - 1 : j \in 1 .. n
       OBVIOUS
<1>13. /\ OpensAt(fs, u.nodes, n) /\ name \in DOMAIN fs[u.nodes[n]].children
       /\ u.nodes[n + 1] = fs[u.nodes[n]].children[name]
       BY <1>1, <1>12 DEF Follows
<1>14. End(t) = u.nodes[n]
       BY <1>6, <1>7, <1>12 DEF End
<1>15. Opens(fs, t)
       BY <1>6, <1>7, <1>12, <1>13 DEF Opens, OpensAt
<1>16. name \in DOMAIN fs[End(t)].children
       BY <1>13, <1>14
<1>17. u = Child(fs, t, name)
  <2> DEFINE v == Child(fs, t, name)
  <2>1. v.path = Append(path, name) /\ v.nodes = Append(nodes, u.nodes[n + 1])
        BY <1>7, <1>13, <1>14 DEF Child
  <2>2. v = [path |-> v.path, nodes |-> v.nodes]
        BY DEF Child
  <2> HIDE DEF v
  <2>3. n + 1 \in 1 .. n + 1
        OBVIOUS
  <2>4. name \in Nat /\ u.nodes[n + 1] \in DOMAIN fs
        BY <1>1, <2>3
  <2>5. \A k \in 1 .. n + 1 : k \in 1 .. n \/ k = n + 1
        OBVIOUS
  <2>6. v.path = u.path
    <3>1. v.path \in Seq(Nat) /\ Len(v.path) = n + 1 /\ v.path[n + 1] = name /\ \A k \in 1 .. n : v.path[k] = path[k]
          BY <1>5, <2>1, <2>4
    <3>2. \A k \in 1 .. n + 1 : v.path[k] = u.path[k]
          BY <1>5, <2>5, <3>1
    <3>3. QED
          BY <1>1, <3>1, <3>2, SeqEqual
  <2>7. v.nodes = u.nodes
    <3> DEFINE last == u.nodes[n + 1]
    <3> HIDE DEF last
    <3>1. v.nodes = Append(nodes, last) /\ last \in DOMAIN fs
          BY <2>1, <2>4 DEF last
    <3>2. /\ v.nodes \in Seq(DOMAIN fs) /\ Len(v.nodes) = n + 1 /\ v.nodes[n + 1] = last
          /\ \A k \in 1 .. n : v.nodes[k] = nodes[k]
          BY <1>6, <3>1
    <3>3. \A k \in 1 .. n + 1 : v.nodes[k] = u.nodes[k]
          BY <1>6, <2>5, <3>2 DEF last
    <3>4. QED
          BY <1>1, <3>2, <3>3, SeqEqual
  <2>8. QED
        BY <1>1, <2>2, <2>6, <2>7 DEF v
<1>18. QED
       BY <1>5, <1>7, <1>10, <1>11, <1>15, <1>16, <1>17

LEMMA TrailsAreBelow ==
    ASSUME NEW fs, FileSystem(fs), MaxDepth \in Nat, NEW r \in RootOf(fs), r.path # <<>>
    PROVE  {t.path : t \in Tree!Trails(fs, r)} = Below(fs, RootTrail(r))
<1> DEFINE root == RootTrail(r)
<1>1. root \in Trail(fs) /\ Len(root.path) = 1
      BY RootIsTrail
<1>2. PICK level : LevelsOf(level, fs, r) /\ Tree!Trails(fs, r) = UNION {level[n] : n \in 1 .. MaxDepth + 1}
      BY TrailsByLength
<1> HIDE DEF root
<1> DEFINE Right(n) == \A u : u \in level[n] <=> u \in Under(fs, root) /\ Len(u.path) = n
           S == {n \in Nat : n <= MaxDepth => Right(n + 1)}
<1>3. 0 \in S
  <2>1. level[1] = {root}
        BY <1>2 DEF LevelsOf, root
  <2>2. root \in Under(fs, root)
        BY <1>1 DEF Under, Agree
  <2>3. ASSUME NEW u \in Under(fs, root), Len(u.path) = 1 PROVE u = root
    <3>1. u \in Trail(fs) /\ Agree(root, u)
          BY DEF Under
    <3>2. /\ u = [path |-> u.path, nodes |-> u.nodes]
          /\ u.path \in Seq(Nat) /\ u.nodes \in Seq(DOMAIN fs) /\ Len(u.nodes) = 1
          BY <2>3, <3>1, TrailFacts
    <3>3. /\ root = [path |-> root.path, nodes |-> root.nodes]
          /\ root.path \in Seq(Nat) /\ root.nodes \in Seq(DOMAIN fs) /\ Len(root.nodes) = 1
          BY <1>1, TrailFacts
    <3>4. \A k \in 1 .. 1 : u.path[k] = root.path[k] /\ u.nodes[k] = root.nodes[k]
          BY <1>1, <3>1 DEF Agree
    <3>5. u.path = root.path
          BY <1>1, <2>3, <3>2, <3>3, <3>4, SeqEqual
    <3>6. u.nodes = root.nodes
          BY <3>2, <3>3, <3>4, SeqEqual
    <3>7. QED
          BY <3>2, <3>3, <3>5, <3>6
  <2>4. Right(0 + 1)
        BY <1>1, <2>1, <2>2, <2>3
  <2>5. QED
        BY <2>4
<1>4. ASSUME NEW n \in Nat, n \in S PROVE n + 1 \in S
  <2> SUFFICES ASSUME n + 1 <= MaxDepth PROVE Right((n + 1) + 1)
    <3>1. n + 1 \in Nat
          OBVIOUS
    <3>2. QED
          BY <3>1
  <2> DEFINE m == n + 1
  <2>1. m \in 1 .. MaxDepth /\ m \in Nat /\ m >= 1 /\ n <= MaxDepth
        OBVIOUS
  <2>2. Right(m)
        BY <1>4, <2>1
  <2>3. level[m + 1] = UNION {Deeper(fs, t) : t \in level[m]}
        BY <1>2, <2>1 DEF LevelsOf
  <2> HIDE DEF m
  <2>4. ASSUME NEW u PROVE u \in level[m + 1] <=> u \in Under(fs, root) /\ Len(u.path) = m + 1
    <3>1. u \in level[m + 1] <=> \E t \in level[m] : u \in Deeper(fs, t)
          BY <2>3
    <3>2. ASSUME NEW t \in level[m], u \in Deeper(fs, t) PROVE u \in Under(fs, root) /\ Len(u.path) = m + 1
      <4>1. t \in Under(fs, root) /\ Len(t.path) = m
            BY <2>2
      <4>2. t \in Trail(fs) /\ Agree(root, t)
            BY <4>1 DEF Under
      <4>3. PICK name \in DOMAIN fs[End(t)].children : u = Child(fs, t, name)
            BY <3>2, <4>2, DeeperIsChildren
      <4>4. Opens(fs, t) /\ Len(t.path) <= MaxDepth
            BY <2>1, <3>2, <4>1, <4>2, DeeperIsChildren
      <4>5. u \in Trail(fs) /\ Len(u.path) = m + 1 /\ Agree(t, u)
            BY <4>1, <4>2, <4>3, <4>4, ChildIsTrail
      <4>6. Agree(root, u)
        <5>1. 1 \in 1 .. m /\ \A k \in 1 .. 1 : k \in 1 .. m
              BY <2>1
        <5>2. QED
              BY <1>1, <4>1, <4>2, <4>5, <5>1 DEF Agree
      <4>7. QED
            BY <1>1, <2>1, <4>5, <4>6 DEF Under
    <3>3. ASSUME u \in Under(fs, root), Len(u.path) = m + 1 PROVE \E t \in level[m] : u \in Deeper(fs, t)
      <4>1. u \in Trail(fs) /\ Agree(root, u)
            BY <3>3 DEF Under
      <4>2. PICK t \in Trail(fs) : /\ Len(t.path) = m /\ Agree(t, u) /\ Opens(fs, t)
                                   /\ \E name \in DOMAIN fs[End(t)].children : u = Child(fs, t, name)
            BY <2>1, <3>3, <4>1, TrailBefore
      <4>3. Agree(root, t)
        <5>1. 1 \in 1 .. m /\ \A k \in 1 .. 1 : k \in 1 .. m
              BY <2>1
        <5>2. QED
              BY <1>1, <4>1, <4>2, <5>1 DEF Agree
      <4>4. t \in Under(fs, root)
            BY <1>1, <2>1, <4>2, <4>3 DEF Under
      <4>5. QED
            BY <2>2, <4>2, <4>4, DeeperIsChildren
    <3>4. QED
          BY <3>1, <3>2, <3>3
  <2>5. QED
        BY <2>4 DEF m
<1> HIDE DEF S
<1>5. \A n \in Nat : n \in S
      BY <1>3, <1>4, Induction
<1>6. ASSUME NEW n \in 1 .. MaxDepth + 1 PROVE Right(n)
  <2>1. n - 1 \in Nat /\ n - 1 <= MaxDepth /\ (n - 1) + 1 = n
        OBVIOUS
  <2>2. QED
        BY <1>5, <2>1 DEF S
<1>7. \A u : u \in Tree!Trails(fs, r) <=> u \in Under(fs, root)
  <2>1. \A u : u \in Tree!Trails(fs, r) <=> \E n \in 1 .. MaxDepth + 1 : u \in level[n]
        BY <1>2
  <2>2. ASSUME NEW u \in Under(fs, root) PROVE Len(u.path) \in 1 .. MaxDepth + 1
    <3>1. u \in Trail(fs)
          BY DEF Under
    <3>2. QED
          BY <3>1, TrailFacts
  <2>3. QED
        BY <1>6, <2>1, <2>2
<1>8. QED
      BY <1>7 DEF Below, root

-----------------------------------------------------------------------------
(* The copied paths one after the other.  Two of them may have equal paths    *)
(* below them, so an entry is told by the root it was found under and by its  *)
(* path.                                                                      *)

Roots(fs, roots) ==
    roots \in Seq(RootOf(fs)) /\ \A i \in 1 .. Len(roots) : roots[i].path # <<>>

PathsOf(fs, roots, i) == Below(fs, RootTrail(roots[i]))

FoundUnder(fs, roots, r, g, n) ==
    \A k \in 1 .. Len(r) :
        /\ g[k] \in 1 .. n /\ r[k].path \in PathsOf(fs, roots, g[k])
        /\ \A j \in 1 .. Len(r) : j # k => g[j] # g[k] \/ r[j].path # r[k].path

AllFound(fs, roots, r, g, n) ==
    \A i \in 1 .. n : \A p \in PathsOf(fs, roots, i) :
        \E k \in 1 .. Len(r) : g[k] = i /\ r[k].path = p

DirectoriesFirst(r) ==
    \A k \in 1 .. Len(r) : \A depth \in 1 .. Len(r[k].path) - 1 :
        \E j \in 1 .. k - 1 : r[j].dir /\ r[j].path = SubSeq(r[k].path, 1, depth)

Gathered(fs, roots, n, r) ==
    /\ \E g : FoundUnder(fs, roots, r, g, n) /\ AllFound(fs, roots, r, g, n)
    /\ DirectoriesFirst(r)

Refused(fs, roots) ==
    \/ \E i \in 1 .. Len(roots) : \E p \in PathsOf(fs, roots, i) : Bad(p, 0)
    \/ \E r \in Seq(Item) : Exceeds(r) /\ \E g : FoundUnder(fs, roots, r, g, Len(roots))

RootsWalked(fs, roots, n, a) ==
    IF a.error = "none"
    THEN /\ Going(a) /\ ~Exceeds(a.entries) /\ Gathered(fs, roots, n, a.entries)
         /\ \A i \in 1 .. n : \A p \in PathsOf(fs, roots, i) : ~Bad(p, 0)
    ELSE a \in Tree!Captured /\ Refused(fs, roots)

\* The entries found under one more root.
LEMMA OneMoreRoot ==
    ASSUME NEW fs, NEW roots, NEW n \in Nat, NEW e \in Seq(Item), NEW r \in Seq(Item), NEW g,
           FoundUnder(fs, roots, e, g, n),
           Continues(r, e), PartOf(r, Len(e), PathsOf(fs, roots, n + 1))
    PROVE  \E h : /\ FoundUnder(fs, roots, r, h, n + 1)
                  /\ AllFound(fs, roots, e, g, n) /\ Covers(r, Len(e), PathsOf(fs, roots, n + 1))
                        => AllFound(fs, roots, r, h, n + 1)
<1> DEFINE m == Len(e)
           q == Len(r)
           h == [k \in 1 .. q |-> IF k <= m THEN g[k] ELSE n + 1]
<1>1. m \in Nat /\ q \in Nat
      BY ItemFacts
<1>2. m <= q /\ \A k \in 1 .. m : r[k] = e[k]
      BY DEF Continues
<1>3. \A k \in 1 .. m : k \in 1 .. q /\ h[k] = g[k]
      BY <1>1, <1>2
<1>4. \A k \in m + 1 .. q : k \in 1 .. q /\ h[k] = n + 1
      BY <1>1
<1>5. \A k \in 1 .. q : k \in 1 .. m \/ k \in m + 1 .. q
      BY <1>1
<1> HIDE DEF h
<1>6. \A k \in 1 .. m : g[k] \in 1 .. n /\ e[k].path \in PathsOf(fs, roots, g[k])
      BY DEF FoundUnder
<1>7. \A i \in 1 .. n : i \in 1 .. n + 1 /\ i # n + 1
      OBVIOUS
<1>8. \A k \in m + 1 .. q : r[k].path \in PathsOf(fs, roots, n + 1)
      BY DEF PartOf
<1>9. ASSUME NEW k \in 1 .. q PROVE h[k] \in 1 .. n + 1 /\ r[k].path \in PathsOf(fs, roots, h[k])
  <2>1. CASE k \in 1 .. m
        BY <1>2, <1>3, <1>6, <1>7, <2>1
  <2>2. CASE k \in m + 1 .. q
    <3>1. n + 1 \in 1 .. n + 1
          OBVIOUS
    <3>2. QED
          BY <1>4, <1>8, <2>2, <3>1
  <2>3. QED
        BY <1>5, <2>1, <2>2
<1>10. ASSUME NEW k \in 1 .. q, NEW j \in 1 .. q, j # k PROVE h[j] # h[k] \/ r[j].path # r[k].path
  <2>1. CASE k \in 1 .. m /\ j \in 1 .. m
    <3>1. g[j] # g[k] \/ e[j].path # e[k].path
          BY <1>10, <2>1 DEF FoundUnder
    <3>2. QED
          BY <1>2, <1>3, <2>1, <3>1
  <2>2. CASE k \in m + 1 .. q /\ j \in m + 1 .. q
        BY <1>10, <2>2 DEF PartOf
  <2>3. CASE k \in 1 .. m /\ j \in m + 1 .. q
        BY <1>3, <1>4, <1>6, <1>7, <2>3
  <2>4. CASE k \in m + 1 .. q /\ j \in 1 .. m
        BY <1>3, <1>4, <1>6, <1>7, <2>4
  <2>5. QED
        BY <1>5, <2>1, <2>2, <2>3, <2>4
<1>11. ASSUME AllFound(fs, roots, e, g, n), Covers(r, m, PathsOf(fs, roots, n + 1)),
              NEW i \in 1 .. n + 1, NEW p \in PathsOf(fs, roots, i)
       PROVE  \E k \in 1 .. q : h[k] = i /\ r[k].path = p
  <2>1. CASE i = n + 1
    <3>1. PICK k \in m + 1 .. q : r[k].path = p
          BY <1>11, <2>1 DEF Covers
    <3>2. QED
          BY <1>4, <2>1, <3>1
  <2>2. CASE i # n + 1
    <3>1. i \in 1 .. n
          BY <2>2
    <3>2. PICK k \in 1 .. m : g[k] = i /\ e[k].path = p
          BY <1>11, <3>1 DEF AllFound
    <3>3. QED
          BY <1>2, <1>3, <3>2
  <2>3. QED
        BY <2>1, <2>2
<1>12. FoundUnder(fs, roots, r, h, n + 1)
       BY <1>9, <1>10 DEF FoundUnder
<1>13. AllFound(fs, roots, e, g, n) /\ Covers(r, m, PathsOf(fs, roots, n + 1)) => AllFound(fs, roots, r, h, n + 1)
       BY <1>11 DEF AllFound
<1>14. QED
       BY <1>12, <1>13

\* An entry found under one of the first roots is found under all of them.
LEMMA FoundUnderMore ==
    ASSUME NEW fs, NEW roots, NEW n \in Nat, NEW m \in Nat, n <= m, NEW r, NEW g, FoundUnder(fs, roots, r, g, n)
    PROVE  FoundUnder(fs, roots, r, g, m)
<1>1. \A i \in 1 .. n : i \in 1 .. m
      OBVIOUS
<1>2. QED
      BY <1>1 DEF FoundUnder

LEMMA NextRootWalked ==
    ASSUME NEW fs, FileSystem(fs), MaxDepth \in Nat, NEW roots, Roots(fs, roots),
           NEW n \in Nat, n + 1 <= Len(roots), NEW a, a.error = "none", RootsWalked(fs, roots, n, a),
           Tree!Valid(Tree!Last(roots[n + 1].path)),
           NEW b, Walked(fs, RootTrail(roots[n + 1]), a.entries, b)
    PROVE  RootsWalked(fs, roots, n + 1, b)
<1> DEFINE t == RootTrail(roots[n + 1])
           e == a.entries
           m == Len(e)
           S == PathsOf(fs, roots, n + 1)
<1>1. n + 1 \in 1 .. Len(roots) /\ Len(roots) \in Nat
      BY DEF Roots
<1>2. t \in Trail(fs) /\ Len(t.path) = 1 /\ t.path[1] = Tree!Last(roots[n + 1].path)
  <2>1. roots[n + 1] \in RootOf(fs) /\ roots[n + 1].path # <<>>
        BY <1>1 DEF Roots
  <2>2. QED
        BY <2>1, RootIsTrail
<1>3. S = Below(fs, t)
      BY DEF PathsOf
<1>4. /\ Going(a) /\ Gathered(fs, roots, n, e)
      /\ \A i \in 1 .. n : \A p \in PathsOf(fs, roots, i) : ~Bad(p, 0)
      BY DEF RootsWalked
<1>5. e \in Seq(Item) /\ m \in Nat
      BY <1>4, CapturedFacts DEF Going
<1>6. PICK g : FoundUnder(fs, roots, e, g, n) /\ AllFound(fs, roots, e, g, n)
      BY <1>4 DEF Gathered
<1>7. DirectoriesFirst(e)
      BY <1>4 DEF Gathered
<1>8. Walked(fs, t, e, b)
      OBVIOUS
<1>9. \A i \in 1 .. n + 1 : i \in 1 .. n \/ i = n + 1
      OBVIOUS
<1> HIDE DEF t, e, S
<1>10. \A p \in S : p[1] = Tree!Last(roots[n + 1].path) /\ Len(p) \in Nat
  <2> SUFFICES ASSUME NEW p \in Below(fs, t) PROVE p[1] = t.path[1] /\ Len(p) \in Nat
      BY <1>2, <1>3
  <2>1. Len(p) \in Nat /\ \A k \in 1 .. Len(t.path) : p[k] = t.path[k]
        BY <1>2, PathsBelow
  <2>2. 1 \in 1 .. Len(t.path)
        BY <1>2
  <2>3. QED
        BY <2>1, <2>2
<1>11. CASE b.error = "none"
  <2>1. /\ Listing(e, b, Below(fs, t), Len(t.path))
        /\ \A p \in Below(fs, t) : ~Bad(p, Len(t.path))
        BY <1>8, <1>11 DEF Walked, Complete
  <2>2. /\ Going(b) /\ ~Exceeds(b.entries)
        /\ Continues(b.entries, e) /\ PartOf(b.entries, m, S) /\ Covers(b.entries, m, S)
        /\ Nested(b.entries, m, 1)
        BY <1>2, <1>3, <2>1 DEF Listing
  <2>3. b.entries \in Seq(Item) /\ Len(b.entries) \in Nat
        BY <2>2, CapturedFacts DEF Going
  <2>4. \E h : FoundUnder(fs, roots, b.entries, h, n + 1) /\ AllFound(fs, roots, b.entries, h, n + 1)
        BY <1>5, <1>6, <2>2, <2>3, OneMoreRoot DEF S
  <2>5. DirectoriesFirst(b.entries)
    <3> SUFFICES ASSUME NEW k \in 1 .. Len(b.entries), NEW depth \in 1 .. Len(b.entries[k].path) - 1
                 PROVE  \E j \in 1 .. k - 1 :
                            b.entries[j].dir /\ b.entries[j].path = SubSeq(b.entries[k].path, 1, depth)
        BY DEF DirectoriesFirst
    <3>1. m <= Len(b.entries) /\ \A i \in 1 .. m : b.entries[i] = e[i]
          BY <2>2 DEF Continues
    <3>2. CASE k \in 1 .. m
      <4>1. b.entries[k] = e[k]
            BY <3>1, <3>2
      <4>2. PICK j \in 1 .. k - 1 : e[j].dir /\ e[j].path = SubSeq(e[k].path, 1, depth)
            BY <1>7, <3>2, <4>1 DEF DirectoriesFirst
      <4>3. j \in 1 .. m
            BY <1>5, <3>2
      <4>4. b.entries[j] = e[j]
            BY <3>1, <4>3
      <4>5. QED
            BY <4>1, <4>2, <4>4
    <3>3. CASE k \in m + 1 .. Len(b.entries)
      <4>1. PICK j \in m + 1 .. k - 1 : b.entries[j].dir /\ b.entries[j].path = SubSeq(b.entries[k].path, 1, depth)
            BY <2>2, <3>3 DEF Nested
      <4>2. j \in 1 .. k - 1
            BY <1>5
      <4>3. QED
            BY <4>1, <4>2
    <3>4. k \in 1 .. m \/ k \in m + 1 .. Len(b.entries)
          BY <1>5, <2>3
    <3>5. QED
          BY <3>2, <3>3, <3>4
  <2>6. \A p \in S : ~Bad(p, 0)
    <3> SUFFICES ASSUME NEW p \in S, Bad(p, 0) PROVE FALSE
        OBVIOUS
    <3>1. ~Bad(p, 1)
          BY <1>2, <1>3, <2>1
    <3>2. \A k \in 0 + 1 .. Len(p) : k = 1 \/ k \in 1 + 1 .. Len(p)
          BY <1>10
    <3>3. QED
          BY <1>10, <3>1, <3>2 DEF Bad
  <2>7. \A i \in 1 .. n + 1 : \A p \in PathsOf(fs, roots, i) : ~Bad(p, 0)
        BY <1>4, <1>9, <2>6 DEF S
  <2>8. QED
        BY <1>11, <2>2, <2>4, <2>5, <2>7 DEF RootsWalked, Gathered
<1>12. CASE b.error # "none"
  <2>1. b \in Tree!Captured /\ Refusable(fs, t, e)
        BY <1>8, <1>12 DEF Walked
  <2>2. CASE \E p \in Below(fs, t) : Bad(p, Len(t.path))
    <3>1. PICK p \in S : Bad(p, 1)
          BY <1>2, <1>3, <2>2
    <3>2. \A k \in 1 + 1 .. Len(p) : k \in 0 + 1 .. Len(p)
          OBVIOUS
    <3>3. Bad(p, 0)
          BY <3>1, <3>2 DEF Bad
    <3>4. Refused(fs, roots)
          BY <1>1, <3>3 DEF Refused, S
    <3>5. QED
          BY <1>12, <2>1, <3>4 DEF RootsWalked
  <2>3. CASE \E r \in Seq(Item) : Continues(r, e) /\ PartOf(r, m, Below(fs, t)) /\ Exceeds(r)
    <3>1. PICK r \in Seq(Item) : Continues(r, e) /\ PartOf(r, m, S) /\ Exceeds(r)
          BY <1>3, <2>3
    <3>2. PICK h : FoundUnder(fs, roots, r, h, n + 1)
          BY <1>5, <1>6, <3>1, OneMoreRoot DEF S
    <3>3. FoundUnder(fs, roots, r, h, Len(roots))
          BY <1>1, <3>2, FoundUnderMore
    <3>4. Refused(fs, roots)
          BY <3>1, <3>3 DEF Refused
    <3>5. QED
          BY <1>12, <2>1, <3>4 DEF RootsWalked
  <2>4. QED
        BY <2>1, <2>2, <2>3 DEF Refusable
<1>13. QED
       BY <1>11, <1>12

RootVisit(fs, a, r) ==
    IF a.error = "none" /\ ~Tree!Valid(Tree!Last(r.path)) THEN Tree!Failed("InvalidName")
    ELSE Tree!Walk(fs)[[node |-> r.node, path |-> <<Tree!Last(r.path)>>, active |-> {}, acc |-> a]]

Outcome(roots, walked) ==
    IF roots = <<>> \/ Len(roots) > MaxRoots THEN Tree!Failed("TooManyItems")
    ELSE IF Tree!RootsOverlap(roots) THEN Tree!Failed("InvalidPath")
    ELSE IF walked.error # "none" THEN Tree!Failed(walked.error)
    ELSE IF ~Tree!ValidTree(walked.entries) THEN Tree!Failed("Descriptor")
    ELSE walked

VisitsRoots(f, fs, roots) ==
    /\ f[0] = Tree!Empty
    /\ \A i \in 1 .. Len(roots) : f[i] = RootVisit(fs, f[i - 1], roots[i])

LEMMA RootsInOrder ==
    ASSUME NEW fs, NEW roots, Len(roots) \in Nat
    PROVE  \E f : VisitsRoots(f, fs, roots) /\ Tree!Capture(fs, roots) = Outcome(roots, f[Len(roots)])
<1> DEFINE Visit(a, r) ==
               IF a.error = "none" /\ ~Tree!Valid(Tree!Last(r.path)) THEN Tree!Failed("InvalidName")
               ELSE Tree!Walk(fs)[[node |-> r.node, path |-> <<Tree!Last(r.path)>>, active |-> {}, acc |-> a]]
           Recurs(f, n) == f = [i \in 0 .. n |-> IF i = 0 THEN Tree!Empty ELSE Visit(f[i - 1], roots[i])]
           S == {n \in Nat : \E f : Recurs(f, n)}
<1>1. 0 \in S
  <2>1. Recurs([i \in 0 .. 0 |-> Tree!Empty], 0)
        OBVIOUS
  <2>2. QED
        BY <2>1
<1>2. ASSUME NEW n \in Nat, n \in S PROVE n + 1 \in S
  <2>1. PICK f : Recurs(f, n)
        BY <1>2
  <2> HIDE DEF Visit
  <2> DEFINE g == [i \in 0 .. n + 1 |-> IF i = n + 1 THEN Visit(f[n], roots[n + 1]) ELSE f[i]]
  <2>2. \A i \in 0 .. n : f[i] = IF i = 0 THEN Tree!Empty ELSE Visit(f[i - 1], roots[i])
        BY <2>1
  <2>3. \A i \in 0 .. n + 1 : g[i] = IF i = 0 THEN Tree!Empty ELSE Visit(g[i - 1], roots[i])
    <3> SUFFICES ASSUME NEW i \in 0 .. n + 1
                 PROVE  g[i] = IF i = 0 THEN Tree!Empty ELSE Visit(g[i - 1], roots[i])
        OBVIOUS
    <3>1. CASE i = n + 1
      <4>1. i # 0 /\ i - 1 = n /\ n # n + 1 /\ n \in 0 .. n + 1
            BY <3>1
      <4>2. g[i] = Visit(f[n], roots[n + 1]) /\ g[i - 1] = f[n]
            BY <3>1, <4>1
      <4>3. QED
            BY <3>1, <4>1, <4>2
    <3>2. CASE i # n + 1
      <4>1. i \in 0 .. n /\ (i # 0 => i - 1 \in 0 .. n /\ i - 1 # n + 1)
            BY <3>2
      <4>2. g[i] = f[i] /\ (i # 0 => g[i - 1] = f[i - 1])
            BY <3>2, <4>1
      <4>3. QED
            BY <2>2, <4>1, <4>2
    <3>3. QED
          BY <3>1, <3>2
  <2>4. g = [i \in 0 .. n + 1 |-> g[i]]
        OBVIOUS
  <2> HIDE DEF g
  <2>5. Recurs(g, n + 1)
        BY <2>3, <2>4
  <2> HIDE DEF Recurs
  <2>6. QED
        BY <2>5
<1> HIDE DEF S
<1>3. Len(roots) \in S
      BY <1>1, <1>2, Induction
<1> DEFINE after == CHOOSE f : Recurs(f, Len(roots))
<1>4. Recurs(after, Len(roots))
      BY <1>3, Zenon DEF S
<1>5. Tree!Capture(fs, roots) = Outcome(roots, after[Len(roots)])
      BY DEF Tree!Capture, Outcome
<1> HIDE DEF after, Visit
<1>6. \A i \in 0 .. Len(roots) : after[i] = IF i = 0 THEN Tree!Empty ELSE Visit(after[i - 1], roots[i])
      BY <1>4
<1>7. after[0] = Tree!Empty /\ \A i \in 1 .. Len(roots) : after[i] = Visit(after[i - 1], roots[i])
      BY <1>6
<1>8. VisitsRoots(after, fs, roots)
      BY <1>7 DEF VisitsRoots, RootVisit, Visit
<1>9. QED
      BY <1>5, <1>8

LEMMA RootVisited ==
    ASSUME NEW fs, FileSystem(fs), MaxDepth \in Nat \ {0}, MaxItems \in Nat, MaxPathUnits \in Nat,
           NEW roots, Roots(fs, roots), NEW n \in Nat, n + 1 <= Len(roots), NEW a, RootsWalked(fs, roots, n, a)
    PROVE  RootsWalked(fs, roots, n + 1, RootVisit(fs, a, roots[n + 1]))
<1> DEFINE r == roots[n + 1]
           t == RootTrail(r)
           b == RootVisit(fs, a, r)
<1>1. MaxDepth \in Nat /\ n + 1 \in 1 .. Len(roots)
      BY DEF Roots
<1>2. r \in RootOf(fs) /\ r.path # <<>>
      BY <1>1 DEF Roots
<1> HIDE DEF r
<1>3. /\ t \in Trail(fs) /\ Len(t.path) = 1 /\ t.path[1] = Tree!Last(r.path)
      /\ CallOf(t, a) = [node |-> r.node, path |-> <<Tree!Last(r.path)>>, active |-> {}, acc |-> a]
      BY <1>1, <1>2, RootIsTrail
<1>4. a \in Tree!Captured
      BY DEF RootsWalked, Going
<1>5. CASE a.error # "none"
  <2>1. b = Tree!Walk(fs)[CallOf(t, a)]
        BY <1>3, <1>5 DEF RootVisit
  <2>2. b = a
    <3> HIDE DEF t, b
    <3>1. QED
          BY <1>3, <1>4, <1>5, <2>1, WalkIsExact
  <2> HIDE DEF b
  <2>3. RootsWalked(fs, roots, n + 1, b)
        BY <1>5, <2>2 DEF RootsWalked
  <2>4. QED
        BY <2>3 DEF b, r
<1>6. CASE a.error = "none" /\ ~Tree!Valid(Tree!Last(r.path))
  <2>1. b = Tree!Failed("InvalidName")
        BY <1>6 DEF RootVisit
  <2>2. b = [entries |-> <<>>, units |-> 0, error |-> "InvalidName"]
        BY <2>1 DEF Tree!Failed, Tree!Empty
  <2>3. b \in Tree!Captured
    <3>1. "InvalidName" \in Reason /\ 0 \in Nat /\ <<>> \in Seq(Item)
          BY Reasons, UnitsOfNothing
    <3>2. [entries |-> <<>>, units |-> 0, error |-> "InvalidName"] \in Tree!Captured
          BY <3>1, CapturedRecord
    <3> HIDE DEF b
    <3>3. QED
          BY <2>2, <3>2
  <2>4. t.path \in PathsOf(fs, roots, n + 1)
        BY <1>1, <1>3, SelfBelow DEF PathsOf, r
  <2>5. Bad(t.path, 0)
    <3>1. 1 \in 0 + 1 .. Len(t.path)
          BY <1>3
    <3>2. QED
          BY <1>3, <1>6, <3>1 DEF Bad
  <2>6. Refused(fs, roots)
        BY <1>1, <2>4, <2>5 DEF Refused
  <2>7. b.error # "none"
        BY <2>2
  <2> HIDE DEF b
  <2>8. RootsWalked(fs, roots, n + 1, b)
        BY <2>3, <2>6, <2>7 DEF RootsWalked
  <2>9. QED
        BY <2>8 DEF b, r
<1>7. CASE a.error = "none" /\ Tree!Valid(Tree!Last(r.path))
  <2>1. b = Tree!Walk(fs)[CallOf(t, a)]
        BY <1>3, <1>7 DEF RootVisit
  <2>2. Going(a)
        BY <1>7 DEF RootsWalked
  <2>3. Walked(fs, t, a.entries, b)
    <3> HIDE DEF t, b
    <3>1. QED
          BY <1>3, <1>4, <1>7, <2>1, <2>2, WalkIsExact
  <2> HIDE DEF b
  <2>4. RootsWalked(fs, roots, n + 1, b)
        BY <1>1, <1>7, <2>3, NextRootWalked DEF r
  <2>5. QED
        BY <2>4 DEF b, r
<1>8. QED
      BY <1>5, <1>6, <1>7

LEMMA AllRootsWalked ==
    ASSUME NEW fs, FileSystem(fs), MaxDepth \in Nat \ {0}, MaxItems \in Nat, MaxPathUnits \in Nat,
           NEW roots, Roots(fs, roots), NEW f, VisitsRoots(f, fs, roots)
    PROVE  RootsWalked(fs, roots, Len(roots), f[Len(roots)])
<1> DEFINE S == {n \in Nat : n <= Len(roots) => RootsWalked(fs, roots, n, f[n])}
<1>1. Len(roots) \in Nat
      BY DEF Roots
<1>2. 0 \in S
  <2>1. Tree!Empty = [entries |-> <<>>, units |-> 0, error |-> "none"]
        BY DEF Tree!Empty
  <2>2. Tree!Empty \in Tree!Captured /\ Going(Tree!Empty)
    <3>1. Tree!Empty \in Tree!Captured
          BY <2>1, Reasons, UnitsOfNothing, CapturedRecord
    <3>2. QED
          BY <2>1, <3>1, UnitsOfNothing DEF Going
  <2>3. Len(<<>>) = 0 /\ ~(\E k : k \in 1 .. 0)
        OBVIOUS
  <2>4. ~Exceeds(<<>>)
        BY <2>3, UnitsOfNothing DEF Exceeds
  <2>5. DirectoriesFirst(<<>>) /\ \E g : FoundUnder(fs, roots, <<>>, g, 0) /\ AllFound(fs, roots, <<>>, g, 0)
        BY <2>3 DEF DirectoriesFirst, FoundUnder, AllFound
  <2>6. Gathered(fs, roots, 0, <<>>)
        BY <2>5 DEF Gathered
  <2>7. Tree!Empty.entries = <<>> /\ Tree!Empty.error = "none"
        BY <2>1
  <2>8. RootsWalked(fs, roots, 0, Tree!Empty)
        BY <2>2, <2>3, <2>4, <2>6, <2>7 DEF RootsWalked
  <2>9. QED
        BY <2>8 DEF VisitsRoots
<1>3. ASSUME NEW n \in Nat, n \in S PROVE n + 1 \in S
  <2>1. ASSUME n + 1 <= Len(roots) PROVE RootsWalked(fs, roots, n + 1, f[n + 1])
    <3>1. n <= Len(roots) /\ n + 1 \in 1 .. Len(roots) /\ (n + 1) - 1 = n
          BY <1>1, <2>1
    <3>2. RootsWalked(fs, roots, n, f[n])
          BY <1>3, <3>1
    <3>3. f[n + 1] = RootVisit(fs, f[n], roots[n + 1])
          BY <3>1 DEF VisitsRoots
    <3>4. QED
          BY <2>1, <3>2, <3>3, RootVisited
  <2>2. n + 1 \in Nat
        OBVIOUS
  <2>3. QED
        BY <2>1, <2>2
<1> HIDE DEF S
<1>4. Len(roots) \in S
      BY <1>1, <1>2, <1>3, Induction
<1>5. QED
      BY <1>1, <1>4 DEF S

-----------------------------------------------------------------------------
(* What is captured, counted: the entries are as many as the paths below the  *)
(* roots, and have as many units.                                             *)

ItemsOf(fs, roots) == UNION {{i} \X PathsOf(fs, roots, i) : i \in 1 .. Len(roots)}

PlacesOf(items) == UNION {{x} \X (1 .. Len(x[2])) : x \in items}

LEMMA ItemOf ==
    ASSUME NEW fs, NEW roots, NEW x
    PROVE  x \in ItemsOf(fs, roots) <=> \E i \in 1 .. Len(roots) : \E p \in PathsOf(fs, roots, i) : x = <<i, p>>
BY DEF ItemsOf

LEMMA PlaceOf ==
    ASSUME NEW items, NEW y
    PROVE  y \in PlacesOf(items) <=> \E x \in items : \E u \in 1 .. Len(x[2]) : y = <<x, u>>
BY DEF PlacesOf

LEMMA PathOfRoot ==
    ASSUME NEW fs, MaxDepth \in Nat, NEW roots, Roots(fs, roots), NEW i \in 1 .. Len(roots)
    PROVE  /\ RootTrail(roots[i]) \in Trail(fs)
           /\ RootTrail(roots[i]).path \in PathsOf(fs, roots, i)
           /\ \A p \in PathsOf(fs, roots, i) : p \in Seq(Nat) /\ Len(p) \in Nat /\ Len(p) >= 1
<1>1. roots[i] \in RootOf(fs) /\ roots[i].path # <<>>
      BY DEF Roots
<1>2. RootTrail(roots[i]) \in Trail(fs) /\ Len(RootTrail(roots[i]).path) = 1
      BY <1>1, RootIsTrail
<1>3. RootTrail(roots[i]).path \in PathsOf(fs, roots, i)
      BY <1>2, SelfBelow DEF PathsOf
<1>4. \A p \in PathsOf(fs, roots, i) : p \in Seq(Nat) /\ Len(p) \in Nat /\ Len(p) >= 1
      BY <1>2, PathsBelow DEF PathsOf
<1>5. QED
      BY <1>2, <1>3, <1>4

LEMMA ItemsAreFinite ==
    ASSUME NEW fs, FileSystem(fs), MaxDepth \in Nat, NEW roots, Roots(fs, roots)
    PROVE  IsFiniteSet(ItemsOf(fs, roots)) /\ IsFiniteSet(PlacesOf(ItemsOf(fs, roots)))
<1> DEFINE items == ItemsOf(fs, roots)
           family == {{i} \X PathsOf(fs, roots, i) : i \in 1 .. Len(roots)}
           f == [i \in 1 .. Len(roots) |-> {i} \X PathsOf(fs, roots, i)]
           places == {{x} \X (1 .. Len(x[2])) : x \in items}
           h == [x \in items |-> {x} \X (1 .. Len(x[2]))]
<1>1. Len(roots) \in Nat
      BY DEF Roots
<1>2. IsFiniteSet(1 .. Len(roots))
      BY <1>1, OneTo
<1>3. f \in Surjection(1 .. Len(roots), family)
      BY DEF Surjection
<1>4. \A i \in 1 .. Len(roots) : IsFiniteSet({i} \X PathsOf(fs, roots, i))
  <2> SUFFICES ASSUME NEW i \in 1 .. Len(roots) PROVE IsFiniteSet({i} \X PathsOf(fs, roots, i))
      OBVIOUS
  <2>1. IsFiniteSet(PathsOf(fs, roots, i))
        BY PathOfRoot, BelowIsFinite DEF PathsOf
  <2>2. IsFiniteSet({i})
        BY FS_Singleton
  <2>3. QED
        BY <2>1, <2>2, FS_Product
<1>5. \A T \in family : IsFiniteSet(T)
      BY <1>4
<1>6. items = UNION family
      BY DEF ItemsOf
<1> HIDE DEF family, f, items
<1>7. IsFiniteSet(family)
      BY <1>2, <1>3, FS_Surjection
<1>8. IsFiniteSet(items)
      BY <1>5, <1>6, <1>7, FS_UNION
<1>9. h \in Surjection(items, places)
      BY DEF Surjection
<1>10. \A x \in items : IsFiniteSet({x} \X (1 .. Len(x[2])))
  <2> SUFFICES ASSUME NEW x \in items PROVE IsFiniteSet({x} \X (1 .. Len(x[2])))
      OBVIOUS
  <2>1. PICK i \in 1 .. Len(roots) : \E p \in PathsOf(fs, roots, i) : x = <<i, p>>
        BY ItemOf DEF items
  <2>2. Len(x[2]) \in Nat
        BY <2>1, PathOfRoot
  <2>3. IsFiniteSet(1 .. Len(x[2])) /\ IsFiniteSet({x})
        BY <2>2, OneTo, FS_Singleton
  <2>4. QED
        BY <2>3, FS_Product
<1>11. \A T \in places : IsFiniteSet(T)
       BY <1>10
<1>12. PlacesOf(items) = UNION places
       BY DEF PlacesOf
<1> HIDE DEF places, h
<1>13. IsFiniteSet(places)
       BY <1>8, <1>9, FS_Surjection
<1>14. IsFiniteSet(PlacesOf(items))
       BY <1>11, <1>12, <1>13, FS_UNION
<1>15. QED
       BY <1>8, <1>14 DEF items

LEMMA FoundAreCounted ==
    ASSUME NEW fs, FileSystem(fs), MaxDepth \in Nat, NEW roots, Roots(fs, roots),
           NEW r \in Seq(Item), NEW g, FoundUnder(fs, roots, r, g, Len(roots))
    PROVE  LET items == ItemsOf(fs, roots) IN
           /\ Cardinality(items) \in Nat /\ Cardinality(PlacesOf(items)) \in Nat
           /\ Len(r) <= Cardinality(items) /\ Units(r) <= Cardinality(PlacesOf(items))
           /\ AllFound(fs, roots, r, g, Len(roots)) =>
                 Len(r) = Cardinality(items) /\ Units(r) = Cardinality(PlacesOf(items))
<1> DEFINE items == ItemsOf(fs, roots)
           all == AllFound(fs, roots, r, g, Len(roots))
           f == [k \in 1 .. Len(r) |-> <<g[k], r[k].path>>]
           h == [x \in Positions(r) |-> <<<<g[x[1]], r[x[1]].path>>, x[2]>>]
<1>1. IsFiniteSet(items) /\ IsFiniteSet(PlacesOf(items))
      BY ItemsAreFinite
<1>2. Cardinality(items) \in Nat /\ Cardinality(PlacesOf(items)) \in Nat
      BY <1>1, FS_CardinalityType
<1>3. \A k \in 1 .. Len(r) : <<g[k], r[k].path>> \in items
      BY ItemOf DEF FoundUnder
<1>4. \A j, k \in 1 .. Len(r) : j # k => <<g[j], r[j].path>> # <<g[k], r[k].path>>
      BY DEF FoundUnder
<1>5. ASSUME all, NEW x \in items PROVE \E k \in 1 .. Len(r) : x = <<g[k], r[k].path>>
  <2>1. PICK i \in 1 .. Len(roots) : \E p \in PathsOf(fs, roots, i) : x = <<i, p>>
        BY ItemOf
  <2>2. PICK p \in PathsOf(fs, roots, i) : x = <<i, p>>
        BY <2>1
  <2>3. QED
        BY <1>5, <2>2 DEF AllFound
<1> HIDE DEF items, all
<1>6. f \in Injection(1 .. Len(r), items)
  <2>1. f \in [1 .. Len(r) -> items]
        BY <1>3
  <2>2. \A j, k \in 1 .. Len(r) : j # k => f[j] # f[k]
        BY <1>4
  <2> HIDE DEF f
  <2>3. QED
        BY <2>1, <2>2 DEF Injection, IsInjective
<1>7. all => f \in Surjection(1 .. Len(r), items)
  <2> SUFFICES ASSUME all PROVE \A x \in items : \E k \in 1 .. Len(r) : f[k] = x
    <3>1. f \in [1 .. Len(r) -> items]
          BY <1>3
    <3> HIDE DEF f
    <3>2. QED
          BY <3>1 DEF Surjection
  <2>1. \A k \in 1 .. Len(r) : f[k] = <<g[k], r[k].path>>
        OBVIOUS
  <2> HIDE DEF f
  <2>2. QED
        BY <1>5, <2>1
<1>8. \A y \in Positions(r) : /\ y[1] \in 1 .. Len(r) /\ y[2] \in 1 .. Len(r[y[1]].path) /\ y = <<y[1], y[2]>>
                              /\ <<<<g[y[1]], r[y[1]].path>>, y[2]>> \in PlacesOf(items)
  <2> SUFFICES ASSUME NEW y \in Positions(r)
               PROVE  /\ y[1] \in 1 .. Len(r) /\ y[2] \in 1 .. Len(r[y[1]].path) /\ y = <<y[1], y[2]>>
                      /\ <<<<g[y[1]], r[y[1]].path>>, y[2]>> \in PlacesOf(items)
      OBVIOUS
  <2>1. PICK k \in 1 .. Len(r) : \E u \in 1 .. Len(r[k].path) : y = <<k, u>>
        BY PositionOf
  <2>2. PICK u \in 1 .. Len(r[k].path) : y = <<k, u>>
        BY <2>1
  <2> DEFINE x == <<g[k], r[k].path>>
  <2>3. x \in items /\ x[2] = r[k].path
        BY <1>3
  <2> HIDE DEF x
  <2>4. <<x, u>> \in PlacesOf(items)
        BY <2>3, PlaceOf
  <2>5. QED
        BY <2>2, <2>4 DEF x
<1>9. h \in Injection(Positions(r), PlacesOf(items))
  <2>1. h \in [Positions(r) -> PlacesOf(items)]
        BY <1>8
  <2>2. ASSUME NEW x \in Positions(r), NEW y \in Positions(r), x # y PROVE h[x] # h[y]
    <3>1. h[x] = <<<<g[x[1]], r[x[1]].path>>, x[2]>> /\ h[y] = <<<<g[y[1]], r[y[1]].path>>, y[2]>>
          OBVIOUS
    <3>2. x[1] # y[1] \/ x[2] # y[2]
          BY <1>8, <2>2
    <3>3. x[1] \in 1 .. Len(r) /\ y[1] \in 1 .. Len(r)
          BY <1>8
    <3> HIDE DEF h
    <3>4. QED
          BY <1>4, <3>1, <3>2, <3>3
  <2> HIDE DEF h
  <2>3. QED
        BY <2>1, <2>2 DEF Injection, IsInjective
<1>10. all => h \in Surjection(Positions(r), PlacesOf(items))
  <2> SUFFICES ASSUME all, NEW z \in PlacesOf(items) PROVE \E y \in Positions(r) : h[y] = z
    <3>1. h \in [Positions(r) -> PlacesOf(items)]
          BY <1>8
    <3> HIDE DEF h
    <3>2. QED
          BY <3>1 DEF Surjection
  <2>1. PICK x \in items : \E u \in 1 .. Len(x[2]) : z = <<x, u>>
        BY PlaceOf
  <2>2. PICK u \in 1 .. Len(x[2]) : z = <<x, u>>
        BY <2>1
  <2>3. PICK k \in 1 .. Len(r) : x = <<g[k], r[k].path>>
        BY <1>5
  <2>4. <<k, u>> \in Positions(r)
        BY <2>2, <2>3, PositionOf
  <2>5. h[<<k, u>>] = z
        BY <2>2, <2>3, <2>4
  <2>6. QED
        BY <2>4, <2>5
<1>11. Len(r) \in Nat /\ IsFiniteSet(1 .. Len(r)) /\ Cardinality(1 .. Len(r)) = Len(r)
       BY ItemFacts, OneTo
<1> HIDE DEF f, h
<1>12. Len(r) <= Cardinality(items) /\ (all => Len(r) = Cardinality(items))
       BY <1>1, <1>6, <1>7, <1>11, FS_Injection
<1>13. Units(r) <= Cardinality(PlacesOf(items)) /\ (all => Units(r) = Cardinality(PlacesOf(items)))
       BY <1>1, <1>9, <1>10, FS_Injection DEF Units
<1>14. QED
       BY <1>2, <1>12, <1>13 DEF items, all

\* The list is one that a receiver accepts if no two paths differ in case only.
Folded(e) == {Tree!CaseFold(e[k].path) : k \in 1 .. Len(e)}

LEMMA GatheredIsValid ==
    ASSUME NEW fs, FileSystem(fs), MaxDepth \in Nat, MaxItems \in Nat, MaxPathUnits \in Nat,
           NEW roots, Roots(fs, roots), roots # <<>>,
           NEW a, a.error = "none", RootsWalked(fs, roots, Len(roots), a)
    PROVE  Tree!ValidTree(a.entries) <=> Cardinality(Folded(a.entries)) = Len(a.entries)
<1> DEFINE e == a.entries
           paths == {Tree!CaseFold(e[i].path) : i \in DOMAIN e}
           dirs == {Tree!CaseFold(e[i].path) : i \in {j \in DOMAIN e : e[j].dir}}
<1>1. /\ Going(a) /\ ~Exceeds(e) /\ DirectoriesFirst(e)
      /\ \A i \in 1 .. Len(roots) : \A p \in PathsOf(fs, roots, i) : ~Bad(p, 0)
      BY DEF RootsWalked, Gathered
<1>2. PICK g : FoundUnder(fs, roots, e, g, Len(roots)) /\ AllFound(fs, roots, e, g, Len(roots))
      BY DEF RootsWalked, Gathered
<1>3. e \in Seq(Item) /\ Len(e) \in Nat /\ DOMAIN e = 1 .. Len(e)
      BY <1>1, CapturedFacts DEF Going
<1>4. Len(roots) \in Nat /\ 1 \in 1 .. Len(roots)
  <2>1. roots \in Seq(RootOf(fs)) /\ Len(roots) \in Nat
        BY DEF Roots
  <2>2. Len(roots) # 0
        BY <2>1
  <2>3. QED
        BY <2>1, <2>2
<1> HIDE DEF e
<1>5. Len(e) \in 1 .. MaxItems
  <2>1. \E k \in 1 .. Len(e) : TRUE
        BY <1>2, <1>4, PathOfRoot DEF AllFound
  <2>2. Len(e) >= 1
        BY <1>3, <2>1
  <2>3. ~(Len(e) > MaxItems)
        BY <1>1 DEF Exceeds
  <2>4. QED
        BY <1>3, <2>2, <2>3
<1>6. Tree!PathUnits([i \in DOMAIN e |-> e[i].path]) <= MaxPathUnits
  <2>1. ~(Units(e) > MaxPathUnits) /\ Units(e) \in Nat
        BY <1>1, <1>3, UnitsAreFinite DEF Exceeds
  <2>2. Units(e) <= MaxPathUnits
        BY <2>1
  <2>3. QED
        BY <1>3, <2>2, UnitsOfEntries
<1>7. ASSUME NEW i \in DOMAIN e
      PROVE  /\ Len(e[i].path) <= MaxDepth
             /\ \A k \in DOMAIN e[i].path : Tree!Valid(e[i].path[k])
             /\ \A depth \in 1 .. Len(e[i].path) - 1 : Tree!CaseFold(SubSeq(e[i].path, 1, depth)) \in dirs
  <2> DEFINE p == e[i].path
  <2>1. i \in 1 .. Len(e)
        BY <1>3
  <2>2. g[i] \in 1 .. Len(roots) /\ p \in PathsOf(fs, roots, g[i])
        BY <1>2, <2>1 DEF FoundUnder
  <2>3. p \in Seq(Nat) /\ Len(p) \in Nat
        BY <2>2, PathOfRoot
  <2>4. ~Bad(p, 0)
        BY <1>1, <2>2
  <2>5. ASSUME NEW depth \in 1 .. Len(p) - 1 PROVE Tree!CaseFold(SubSeq(p, 1, depth)) \in dirs
    <3>1. PICK j \in 1 .. i - 1 : e[j].dir /\ e[j].path = SubSeq(p, 1, depth)
          BY <1>1, <2>1 DEF DirectoriesFirst
    <3>2. j \in DOMAIN e
          BY <1>3, <2>1
    <3>3. QED
          BY <3>1, <3>2
  <2> HIDE DEF p
  <2>6. Len(p) <= MaxDepth
        BY <2>3, <2>4 DEF Bad
  <2>7. \A k \in DOMAIN p : Tree!Valid(p[k])
    <3>1. \A k \in DOMAIN p : k \in 0 + 1 .. Len(p)
          BY <2>3
    <3>2. QED
          BY <2>4, <3>1 DEF Bad
  <2>8. QED
        BY <2>5, <2>6, <2>7 DEF p
<1>8. paths = Folded(e)
      BY <1>3 DEF Folded
<1>9. Tree!ValidTree(e) <=> Tree!Cardinality(paths) = Len(e)
  <2> HIDE DEF paths, dirs
  <2>1. Tree!ValidTree(e) <=>
           /\ Len(e) \in 1 .. MaxItems
           /\ Tree!PathUnits([i \in DOMAIN e |-> e[i].path]) <= MaxPathUnits
           /\ \A i \in DOMAIN e :
                 /\ Len(e[i].path) <= MaxDepth
                 /\ \A k \in DOMAIN e[i].path : Tree!Valid(e[i].path[k])
                 /\ \A depth \in 1 .. Len(e[i].path) - 1 : Tree!CaseFold(SubSeq(e[i].path, 1, depth)) \in dirs
           /\ Tree!Cardinality(paths) = Len(e)
        BY Zenon DEF Tree!ValidTree, paths, dirs
  <2>2. QED
        BY <1>5, <1>6, <1>7, <2>1
<1>10. Tree!Cardinality(paths) = Cardinality(Folded(e))
  <2> HIDE DEF paths
  <2>1. QED
        BY <1>8 DEF Tree!Cardinality, Cardinality
<1>11. QED
       BY <1>9, <1>10 DEF e

\* If no two entries have equal paths but for case, a directory is behind
\* none of the entries it holds.
LEMMA EntriesInOrder ==
    ASSUME NEW e \in Seq(Item), DirectoriesFirst(e), Cardinality(Folded(e)) = Len(e),
           \A k \in 1 .. Len(e) : Len(e[k].path) >= 1
    PROVE  \A i, j \in 1 .. Len(e) : i < j => ~Tree!IsPrefix(e[j].path, e[i].path)
<1> DEFINE f == [k \in 1 .. Len(e) |-> Tree!CaseFold(e[k].path)]
<1>1. Len(e) \in Nat /\ IsFiniteSet(1 .. Len(e)) /\ Cardinality(1 .. Len(e)) = Len(e)
      BY ItemFacts, OneTo
<1>2. f \in Surjection(1 .. Len(e), Folded(e))
      BY Zenon DEF Surjection, Folded
<1> HIDE DEF f
<1>3. f \in Injection(1 .. Len(e), Folded(e))
      BY <1>1, <1>2, FS_Surjection
<1>4. ASSUME NEW i \in 1 .. Len(e), NEW j \in 1 .. Len(e), i # j PROVE e[i].path # e[j].path
  <2>1. f[i] # f[j]
        BY <1>3, <1>4 DEF Injection, IsInjective
  <2>2. QED
        BY <2>1 DEF f
<1> SUFFICES ASSUME NEW i \in 1 .. Len(e), NEW j \in 1 .. Len(e), i < j, Tree!IsPrefix(e[j].path, e[i].path)
             PROVE  FALSE
    OBVIOUS
<1> DEFINE p == e[i].path
           q == e[j].path
<1>5. p \in Seq(Nat) /\ q \in Seq(Nat) /\ Len(p) \in Nat /\ Len(q) \in Nat
      BY ItemFacts
<1>6. p # q
      BY <1>1, <1>4
<1> HIDE DEF p, q
<1>7. Len(q) <= Len(p) /\ \A k \in 1 .. Len(q) : p[k] = q[k]
  <2>1. Len(q) <= Len(p) /\ SubSeq(q, 1, Len(q)) = SubSeq(p, 1, Len(q))
        BY DEF Tree!IsPrefix, p, q
  <2>2. CASE Len(q) = 0
        BY <2>1, <2>2
  <2>3. CASE Len(q) # 0
    <3>1. 1 \in Int /\ Len(q) \in Int /\ Len(q) - 1 + 1 = Len(q) /\ 1 <= Len(q)
          BY <1>5, <2>3
    <3>2. \A k \in 1 .. Len(q) : 1 + k - 1 = k /\ k \in 1 .. Len(p)
          BY <1>5, <2>1
    <3>3. \A k \in 1 .. Len(q) : q[k] \in Nat
          BY <1>5, ElementOfSeq
    <3>4. \A k \in 1 .. Len(q) : p[k] \in Nat
          BY <1>5, <3>2, ElementOfSeq
    <3>5. \A k \in 1 .. Len(q) : SubSeq(q, 1, Len(q))[k] = q[k]
          BY <3>1, <3>2, <3>3, SubSeqProperties
    <3>6. \A k \in 1 .. Len(q) : SubSeq(p, 1, Len(q))[k] = p[k]
          BY <3>1, <3>2, <3>4, SubSeqProperties
    <3>7. QED
          BY <2>1, <3>5, <3>6
  <2>4. QED
        BY <2>2, <2>3
<1>8. Len(q) # Len(p)
  <2> SUFFICES ASSUME Len(q) = Len(p) PROVE FALSE
      OBVIOUS
  <2>1. p = q
        BY <1>5, <1>7, SeqEqual
  <2>2. QED
        BY <1>6, <2>1
<1>9. Len(q) >= 1
      BY DEF q
<1>10. Len(q) \in 1 .. Len(p) - 1
       BY <1>5, <1>7, <1>8, <1>9
<1>11. PICK m \in 1 .. i - 1 : e[m].path = SubSeq(p, 1, Len(q))
       BY <1>10 DEF DirectoriesFirst, p
<1>12. SubSeq(p, 1, Len(q)) = q
  <2>1. 1 \in Int /\ Len(q) \in Int /\ Len(q) - 1 + 1 = Len(q) /\ 1 <= Len(q)
        BY <1>5, <1>9
  <2>2. \A k \in 1 .. Len(q) : 1 + k - 1 = k /\ k \in 1 .. Len(p)
        BY <1>5, <1>7
  <2>3. \A k \in 1 .. Len(q) : p[k] \in Nat
        BY <1>5, <2>2, ElementOfSeq
  <2>4. /\ SubSeq(p, 1, Len(q)) \in Seq(Nat) /\ Len(SubSeq(p, 1, Len(q))) = Len(q)
        /\ \A k \in 1 .. Len(q) : SubSeq(p, 1, Len(q))[k] = p[k]
        BY <2>1, <2>2, <2>3, SubSeqProperties
  <2>5. QED
        BY <1>5, <1>7, <2>4, SeqEqual
<1>13. m \in 1 .. Len(e) /\ m # j
       BY <1>1
<1>14. e[m].path = e[j].path
       BY <1>11, <1>12 DEF q
<1>15. QED
       BY <1>4, <1>13, <1>14

\* What a selection must be to be captured.
Acceptable(fs, roots) ==
    /\ Len(roots) \in 1 .. MaxRoots
    /\ ~Tree!RootsOverlap(roots)
    /\ \A i \in 1 .. Len(roots) : \A p \in PathsOf(fs, roots, i) :
          Len(p) <= MaxDepth /\ \A k \in DOMAIN p : Tree!Valid(p[k])
    /\ Cardinality(ItemsOf(fs, roots)) <= MaxItems
    /\ Cardinality(PlacesOf(ItemsOf(fs, roots))) <= MaxPathUnits
    /\ Cardinality({Tree!CaseFold(x[2]) : x \in ItemsOf(fs, roots)}) = Cardinality(ItemsOf(fs, roots))

LEMMA ExactnessInItems ==
    ASSUME NEW fs, FileSystem(fs), MaxDepth \in Nat, NEW roots, Roots(fs, roots), NEW c
    PROVE  Tree!CaptureIsExact(fs, roots, c) <=>
              /\ c.error = "none" <=> Acceptable(fs, roots)
              /\ Acceptable(fs, roots) =>
                    /\ {c.entries[i].path : i \in DOMAIN c.entries} = {x[2] : x \in ItemsOf(fs, roots)}
                    /\ \A i, j \in DOMAIN c.entries :
                          i < j => ~Tree!IsPrefix(c.entries[j].path, c.entries[i].path)
<1> DEFINE items == UNION {{i} \X {t.path : t \in Tree!Trails(fs, roots[i])} : i \in DOMAIN roots}
           paths == {item[2] : item \in items}
           units == [item \in items |-> item[2]]
           folded == {Tree!CaseFold(p) : p \in paths}
           acceptable ==
               /\ Len(roots) \in 1 .. MaxRoots
               /\ ~Tree!RootsOverlap(roots)
               /\ \A p \in paths : Len(p) <= MaxDepth /\ \A k \in DOMAIN p : Tree!Valid(p[k])
               /\ Tree!Cardinality(items) <= MaxItems
               /\ Tree!PathUnits(units) <= MaxPathUnits
               /\ Tree!Cardinality(folded) = Tree!Cardinality(items)
<1>1. DOMAIN roots = 1 .. Len(roots) /\ \A i \in 1 .. Len(roots) : roots[i] \in RootOf(fs) /\ roots[i].path # <<>>
      BY DEF Roots
<1>2. \A i \in 1 .. Len(roots) : {t.path : t \in Tree!Trails(fs, roots[i])} = PathsOf(fs, roots, i)
      BY <1>1, TrailsAreBelow DEF PathsOf
<1>3. items = ItemsOf(fs, roots)
  <2>1. items = UNION {{i} \X {t.path : t \in Tree!Trails(fs, roots[i])} : i \in 1 .. Len(roots)}
        BY <1>1
  <2>2. {{i} \X {t.path : t \in Tree!Trails(fs, roots[i])} : i \in 1 .. Len(roots)}
            = {{i} \X PathsOf(fs, roots, i) : i \in 1 .. Len(roots)}
        BY <1>2
  <2> HIDE DEF items
  <2>3. QED
        BY <2>1, <2>2 DEF ItemsOf
<1>4. Tree!PathUnits(units) = Cardinality(UNION {{x} \X (1 .. Len(units[x])) : x \in DOMAIN units})
  <2> HIDE DEF units
  <2>1. QED
        BY DEF Tree!PathUnits, Tree!Cardinality, Cardinality
<1>5. DOMAIN units = items /\ \A x \in items : units[x] = x[2]
      OBVIOUS
<1>6. Tree!CaptureIsExact(fs, roots, c) <=>
              /\ c.error = "none" <=> acceptable
              /\ acceptable =>
                    /\ {c.entries[i].path : i \in DOMAIN c.entries} = paths
                    /\ \A i, j \in DOMAIN c.entries :
                          i < j => ~Tree!IsPrefix(c.entries[j].path, c.entries[i].path)
      BY Zenon DEF Tree!CaptureIsExact
<1> HIDE DEF items, units
<1>7. \A x \in items : x[2] \in paths
      OBVIOUS
<1>8. \A p \in paths : \E x \in items : p = x[2]
      OBVIOUS
<1>9. folded = {Tree!CaseFold(x[2]) : x \in items}
      OBVIOUS
<1> HIDE DEF paths, folded
<1>10. (\A p \in paths : Len(p) <= MaxDepth /\ \A k \in DOMAIN p : Tree!Valid(p[k]))
        <=> \A i \in 1 .. Len(roots) : \A p \in PathsOf(fs, roots, i) :
               Len(p) <= MaxDepth /\ \A k \in DOMAIN p : Tree!Valid(p[k])
  <2>1. \A p : p \in paths <=> \E i \in 1 .. Len(roots) : p \in PathsOf(fs, roots, i)
    <3> SUFFICES ASSUME NEW p PROVE p \in paths <=> \E i \in 1 .. Len(roots) : p \in PathsOf(fs, roots, i)
        OBVIOUS
    <3>1. ASSUME p \in paths PROVE \E i \in 1 .. Len(roots) : p \in PathsOf(fs, roots, i)
      <4>1. PICK x \in ItemsOf(fs, roots) : p = x[2]
            BY <1>3, <1>8, <3>1
      <4>2. PICK i \in 1 .. Len(roots) : \E q \in PathsOf(fs, roots, i) : x = <<i, q>>
            BY ItemOf
      <4>3. QED
            BY <4>1, <4>2
    <3>2. ASSUME NEW i \in 1 .. Len(roots), p \in PathsOf(fs, roots, i) PROVE p \in paths
      <4>1. <<i, p>> \in items
            BY <1>3, <3>2, ItemOf
      <4>2. <<i, p>>[2] = p
            OBVIOUS
      <4>3. QED
            BY <1>7, <4>1, <4>2
    <3>3. QED
          BY <3>1, <3>2
  <2>2. QED
        BY <2>1
<1>11. UNION {{x} \X (1 .. Len(units[x])) : x \in DOMAIN units} = PlacesOf(items)
       BY <1>5 DEF PlacesOf
<1>12. Tree!Cardinality(items) = Cardinality(ItemsOf(fs, roots))
       BY <1>3 DEF Tree!Cardinality, Cardinality
<1>13. Tree!PathUnits(units) = Cardinality(PlacesOf(ItemsOf(fs, roots)))
       BY <1>3, <1>4, <1>11
<1>14. Tree!Cardinality(folded) = Cardinality({Tree!CaseFold(x[2]) : x \in ItemsOf(fs, roots)})
       BY <1>3, <1>9 DEF Tree!Cardinality, Cardinality
<1>15. acceptable <=> Acceptable(fs, roots)
       BY <1>10, <1>12, <1>13, <1>14 DEF Acceptable
<1>16. paths = {x[2] : x \in ItemsOf(fs, roots)}
       BY <1>3 DEF paths
<1> HIDE DEF acceptable
<1>17. QED
       BY <1>6, <1>15, <1>16

\* A selection is captured completely, each path once and each directory before
\* what it holds, or it is refused because the code says so, for every file system
\* whose directories are finite, every selection and every limit.
THEOREM SelectionCaptured ==
    ASSUME NEW fs, FileSystem(fs), MaxDepth \in Nat \ {0}, MaxItems \in Nat, MaxPathUnits \in Nat,
           MaxRoots \in Nat, NEW roots, Roots(fs, roots)
    PROVE  Tree!CaptureIsExact(fs, roots, Tree!Capture(fs, roots))
<1> DEFINE c == Tree!Capture(fs, roots)
           items == ItemsOf(fs, roots)
<1>1. MaxDepth \in Nat /\ Len(roots) \in Nat /\ roots \in Seq(RootOf(fs))
      BY DEF Roots
<1>2. PICK f : VisitsRoots(f, fs, roots) /\ c = Outcome(roots, f[Len(roots)])
      BY <1>1, RootsInOrder
<1> DEFINE a == f[Len(roots)]
           e == a.entries
           good == Acceptable(fs, roots)
<1>3. RootsWalked(fs, roots, Len(roots), a)
      BY <1>2, AllRootsWalked
<1>4. c = Outcome(roots, a)
      BY <1>2
<1> HIDE DEF a, c
<1>5. \A reason : Tree!Failed(reason).error = reason
      BY DEF Tree!Failed, Tree!Empty
<1>6. SUFFICES /\ c.error = "none" <=> good
               /\ good =>
                     /\ {c.entries[i].path : i \in DOMAIN c.entries} = {x[2] : x \in items}
                     /\ \A i, j \in DOMAIN c.entries :
                           i < j => ~Tree!IsPrefix(c.entries[j].path, c.entries[i].path)
      BY <1>1, ExactnessInItems DEF c
<1> HIDE DEF good
<1>7. CASE roots = <<>> \/ Len(roots) > MaxRoots
  <2>1. c = Tree!Failed("TooManyItems")
        BY <1>4, <1>7 DEF Outcome
  <2>2. ~(Len(roots) \in 1 .. MaxRoots)
        BY <1>1, <1>7
  <2>3. ~good
        BY <2>2 DEF good, Acceptable
  <2>4. c.error # "none"
        BY <1>5, <2>1
  <2>5. QED
        BY <2>3, <2>4
<1>8. CASE ~(roots = <<>> \/ Len(roots) > MaxRoots) /\ Tree!RootsOverlap(roots)
  <2>1. c = Tree!Failed("InvalidPath")
        BY <1>4, <1>8 DEF Outcome
  <2>2. ~good
        BY <1>8 DEF good, Acceptable
  <2>3. c.error # "none"
        BY <1>5, <2>1
  <2>4. QED
        BY <2>2, <2>3
<1>9. CASE ~(roots = <<>> \/ Len(roots) > MaxRoots) /\ ~Tree!RootsOverlap(roots) /\ a.error # "none"
  <2>1. c = Tree!Failed(a.error)
        BY <1>4, <1>9 DEF Outcome
  <2>2. Refused(fs, roots)
        BY <1>3, <1>9 DEF RootsWalked
  <2>3. ~good
    <3>1. CASE \E i \in 1 .. Len(roots) : \E p \in PathsOf(fs, roots, i) : Bad(p, 0)
      <4>0. PICK i \in 1 .. Len(roots) : \E p \in PathsOf(fs, roots, i) : Bad(p, 0)
            BY <3>1
      <4>1. PICK p \in PathsOf(fs, roots, i) : Bad(p, 0)
            BY <4>0
      <4>2. p \in Seq(Nat) /\ DOMAIN p = 1 .. Len(p) /\ Len(p) \in Nat
            BY <1>1, PathOfRoot
      <4>3. \A k \in 0 + 1 .. Len(p) : k \in DOMAIN p
            BY <4>2
      <4>4. Len(p) > MaxDepth \/ \E k \in DOMAIN p : ~Tree!Valid(p[k])
            BY <4>1, <4>3 DEF Bad
      <4>5. ~(Len(p) <= MaxDepth /\ \A k \in DOMAIN p : Tree!Valid(p[k]))
            BY <1>1, <4>2, <4>4
      <4>6. QED
            BY <4>5 DEF good, Acceptable
    <3>2. CASE \E r \in Seq(Item) : Exceeds(r) /\ \E g : FoundUnder(fs, roots, r, g, Len(roots))
      <4>1. PICK r \in Seq(Item) : Exceeds(r) /\ \E g : FoundUnder(fs, roots, r, g, Len(roots))
            BY <3>2
      <4>2. PICK g : FoundUnder(fs, roots, r, g, Len(roots))
            BY <4>1
      <4>3. /\ Cardinality(items) \in Nat /\ Cardinality(PlacesOf(items)) \in Nat
            /\ Len(r) <= Cardinality(items) /\ Units(r) <= Cardinality(PlacesOf(items))
            BY <1>1, <4>2, FoundAreCounted
      <4>4. Len(r) \in Nat /\ Units(r) \in Nat /\ (Len(r) > MaxItems \/ Units(r) > MaxPathUnits)
            BY <4>1, ItemFacts, UnitsAreFinite DEF Exceeds
      <4> HIDE DEF items
      <4>5. ~(Cardinality(items) <= MaxItems) \/ ~(Cardinality(PlacesOf(items)) <= MaxPathUnits)
            BY <4>3, <4>4
      <4>6. QED
            BY <4>5 DEF good, Acceptable, items
    <3>3. QED
          BY <2>2, <3>1, <3>2 DEF Refused
  <2>4. c.error # "none"
        BY <1>5, <1>9, <2>1
  <2>5. QED
        BY <2>3, <2>4
<1>10. CASE ~(roots = <<>> \/ Len(roots) > MaxRoots) /\ ~Tree!RootsOverlap(roots) /\ a.error = "none"
  <2>1. Going(a) /\ ~Exceeds(e) /\ DirectoriesFirst(e)
        /\ \A i \in 1 .. Len(roots) : \A p \in PathsOf(fs, roots, i) : ~Bad(p, 0)
        BY <1>3, <1>10 DEF RootsWalked, Gathered
  <2>2. PICK g : FoundUnder(fs, roots, e, g, Len(roots)) /\ AllFound(fs, roots, e, g, Len(roots))
        BY <1>3, <1>10 DEF RootsWalked, Gathered
  <2>3. e \in Seq(Item) /\ Len(e) \in Nat /\ DOMAIN e = 1 .. Len(e)
        BY <2>1, CapturedFacts DEF Going
  <2>4. Tree!ValidTree(e) <=> Cardinality(Folded(e)) = Len(e)
        BY <1>1, <1>3, <1>10, GatheredIsValid
  <2>5. Len(e) = Cardinality(items) /\ Units(e) = Cardinality(PlacesOf(items))
        BY <1>1, <2>2, <2>3, FoundAreCounted
  <2>6. \A k \in 1 .. Len(e) : <<g[k], e[k].path>> \in items /\ Len(e[k].path) >= 1
    <3> SUFFICES ASSUME NEW k \in 1 .. Len(e) PROVE <<g[k], e[k].path>> \in items /\ Len(e[k].path) >= 1
        OBVIOUS
    <3>1. g[k] \in 1 .. Len(roots) /\ e[k].path \in PathsOf(fs, roots, g[k])
          BY <2>2 DEF FoundUnder
    <3>2. QED
          BY <1>1, <3>1, ItemOf, PathOfRoot
  <2>7. \A x \in items : \E k \in 1 .. Len(e) : x[2] = e[k].path
    <3> SUFFICES ASSUME NEW x \in items PROVE \E k \in 1 .. Len(e) : x[2] = e[k].path
        OBVIOUS
    <3>1. PICK i \in 1 .. Len(roots) : \E p \in PathsOf(fs, roots, i) : x = <<i, p>>
          BY ItemOf
    <3>2. PICK p \in PathsOf(fs, roots, i) : x = <<i, p>>
          BY <3>1
    <3>3. \E k \in 1 .. Len(e) : e[k].path = p
          BY <2>2 DEF AllFound
    <3>4. QED
          BY <3>2, <3>3
  <2> HIDE DEF items, e
  <2>8. \A k \in 1 .. Len(e) : \E x \in items : x[2] = e[k].path
    <3> SUFFICES ASSUME NEW k \in 1 .. Len(e) PROVE \E x \in items : x[2] = e[k].path
        OBVIOUS
    <3>1. <<g[k], e[k].path>> \in items /\ <<g[k], e[k].path>>[2] = e[k].path
          BY <2>6
    <3>2. QED
          BY <3>1
  <2>9. {Tree!CaseFold(x[2]) : x \in items} = Folded(e)
    <3>1. \A y : y \in {Tree!CaseFold(x[2]) : x \in items} <=> y \in Folded(e)
          BY <2>7, <2>8 DEF Folded
    <3>2. QED
          BY <3>1
  <2>10. {e[k].path : k \in DOMAIN e} = {x[2] : x \in items}
    <3>1. \A y : y \in {e[k].path : k \in 1 .. Len(e)} <=> y \in {x[2] : x \in items}
          BY <2>7, <2>8
    <3>2. QED
          BY <2>3, <3>1
  <2>11. \A i \in 1 .. Len(roots) : \A p \in PathsOf(fs, roots, i) :
             Len(p) <= MaxDepth /\ \A k \in DOMAIN p : Tree!Valid(p[k])
    <3> SUFFICES ASSUME NEW i \in 1 .. Len(roots), NEW p \in PathsOf(fs, roots, i)
                 PROVE  Len(p) <= MaxDepth /\ \A k \in DOMAIN p : Tree!Valid(p[k])
        OBVIOUS
    <3>1. ~Bad(p, 0)
          BY <2>1
    <3>2. p \in Seq(Nat) /\ DOMAIN p = 1 .. Len(p) /\ Len(p) \in Nat
          BY <1>1, PathOfRoot
    <3>3. \A k \in DOMAIN p : k \in 0 + 1 .. Len(p)
          BY <3>2
    <3>4. ~(Len(p) > MaxDepth) /\ \A k \in DOMAIN p : Tree!Valid(p[k])
          BY <3>1, <3>3 DEF Bad
    <3>5. QED
          BY <1>1, <3>2, <3>4
  <2>12. Len(roots) \in 1 .. MaxRoots
    <3>1. Len(roots) # 0
          BY <1>1, <1>10
    <3>2. ~(Len(roots) > MaxRoots)
          BY <1>10
    <3>3. QED
          BY <1>1, <3>1, <3>2
  <2>13. Cardinality(items) <= MaxItems /\ Cardinality(PlacesOf(items)) <= MaxPathUnits
    <3>1. ~(Len(e) > MaxItems) /\ ~(Units(e) > MaxPathUnits)
          BY <2>1 DEF Exceeds
    <3>2. Units(e) \in Nat
          BY <2>3, UnitsAreFinite
    <3>3. Len(e) <= MaxItems /\ Units(e) <= MaxPathUnits
          BY <2>3, <3>1, <3>2
    <3>4. QED
          BY <2>5, <3>3
  <2>14. good <=> Cardinality(Folded(e)) = Len(e)
         BY <1>10, <2>5, <2>9, <2>11, <2>12, <2>13 DEF good, Acceptable, items
  <2>15. CASE ~Tree!ValidTree(e)
    <3>1. c = Tree!Failed("Descriptor")
          BY <1>4, <1>10, <2>15 DEF Outcome, e
    <3>2. c.error # "none"
          BY <1>5, <3>1
    <3>3. QED
          BY <2>4, <2>14, <2>15, <3>2
  <2>16. CASE Tree!ValidTree(e)
    <3>1. c = a
          BY <1>4, <1>10, <2>16 DEF Outcome, e
    <3>2. good
          BY <2>4, <2>14, <2>16
    <3>3. \A i, j \in 1 .. Len(e) : i < j => ~Tree!IsPrefix(e[j].path, e[i].path)
          BY <2>1, <2>3, <2>4, <2>6, <2>16, EntriesInOrder
    <3>4. c.entries = e /\ c.error = "none"
          BY <1>10, <3>1 DEF e
    <3>5. QED
          BY <2>3, <2>10, <3>2, <3>3, <3>4
  <2>17. QED
         BY <2>15, <2>16
<1>11. QED
       BY <1>7, <1>8, <1>9, <1>10

-----------------------------------------------------------------------------
(* The capture session. *)

Stamp == [id : Nat, size : 1 .. MaxSize]
Stamps == UNION {[S -> Stamp] : S \in SUBSET File}
OfferRecord == [files : SUBSET File, snap : Stamps, revoked : BOOLEAN, expired : BOOLEAN]
SourceRecord == [state : {"unstarted", "active", "failed"}, served : SUBSET Nat]
ThreadRecord == [pc : {"idle", "read", "open"}, offer : Offer \cup {0}, file : File,
                 pos : 0 .. MaxSize]
ClipRecord == [kind : {"other", "private", "files", "ours"}, files : SUBSET File,
               offer : Offer \cup {0}]
DiskRecord == [id : Nat, size : 1 .. MaxSize, version : Nat]

DiskOK    == disk \in [File -> DiskRecord] /\ writers \subseteq File
ClipOK    == clip \in ClipRecord
SessionOK == /\ pc \in {"loop", "capture", "publish", "register", "registered", "clear", "stopped"}
             /\ work \subseteq File
             /\ current \in Offer \cup {0} /\ lease \in Offer \cup {0}
OffersOK  == offers \in [Offer -> OfferRecord]
             /\ \A o \in Offer : offers[o].snap \in [offers[o].files -> Stamp]
SourcesOK == sources \in [Offer -> [File -> SourceRecord]]
ThreadsOK == threads \in [Thread -> ThreadRecord]
             /\ \A t \in Thread : threads[t].pc # "idle" =>
                   /\ threads[t].offer \in Offer
                   /\ threads[t].file \in offers[threads[t].offer].files

\* The object on the clipboard and the session that put it there.
PasteOK ==
    /\ OfferedObjectIsPasteable
    /\ clip.kind = "ours" => clip.offer \in Offer
    /\ pc \in {"publish", "register"} => clip.kind # "ours"
    /\ pc \in {"capture", "publish", "register", "registered"} => lease = 0
    /\ pc = "capture" => current = 0
    /\ pc \in {"register", "registered"} => current \in Offer /\ ~offers[current].revoked

\* One thread opens a source, and it was not used before.
OpenersOK ==
    \A t \in Thread : threads[t].pc = "open" =>
        /\ Source(t).state = "unstarted"
        /\ \A u \in Thread \ {t} :
              threads[u].pc = "open" => threads[u].offer # threads[t].offer
                                        \/ threads[u].file # threads[t].file

\* A file that an offer does not list was never read for it.
UnusedOK ==
    \A o \in Offer, f \in File :
        f \notin offers[o].files => sources[o][f].state = "unstarted"

\* What the sources delivered, and what their handles keep as it is.
ServedOK ==
    \A o \in Offer, f \in File :
        /\ sources[o][f].state = "unstarted" => sources[o][f].served = {}
        /\ \A v, w \in sources[o][f].served : v = w
        /\ Alive(o) /\ sources[o][f].state = "active" =>
              /\ f \notin writers /\ Matches(o, f)
              /\ \A v \in sources[o][f].served : v = disk[f].version

Inv == /\ DiskOK /\ ClipOK /\ SessionOK /\ OffersOK /\ SourcesOK /\ ThreadsOK
       /\ PasteOK /\ OpenersOK /\ UnusedOK /\ ServedOK

-----------------------------------------------------------------------------

LEMMA EmptyStamps == <<>> \in [{} -> Stamp] /\ <<>> \in Stamps
<1>1. <<>> \in [{} -> Stamp]
      OBVIOUS
<1>2. QED
      BY <1>1 DEF Stamps

LEMMA Initially == Init => Inv
<1> SUFFICES ASSUME Init PROVE Inv
    OBVIOUS
<1> USE CaptureAssumption
<1>1. DiskOK /\ ClipOK /\ SessionOK
      BY DEF Init, DiskOK, ClipOK, SessionOK, DiskRecord, ClipRecord, OtherClip
<1>2. OffersOK
  <2>1. <<>> \in [{} -> Stamp]
        BY EmptyStamps
  <2>2. <<>> \in Stamps
        BY EmptyStamps
  <2>3. NoOffer \in OfferRecord /\ NoOffer.snap = <<>> /\ NoOffer.files = {}
        BY <2>2 DEF NoOffer, OfferRecord
  <2>4. QED
        BY <2>1, <2>3 DEF Init, OffersOK
<1>3. SourcesOK
      BY DEF Init, SourcesOK, SourceRecord
<1>4. ThreadsOK
      BY DEF Init, ThreadsOK, ThreadRecord, IdleThread
<1>5. PasteOK /\ OpenersOK /\ UnusedOK /\ ServedOK
  <2>1. PasteOK
        BY DEF Init, PasteOK, OfferedObjectIsPasteable, OtherClip
  <2>2. OpenersOK
        BY DEF Init, OpenersOK, IdleThread
  <2>3. UnusedOK /\ ServedOK
        BY DEF Init, UnusedOK, ServedOK
  <2>4. QED
        BY <2>1, <2>2, <2>3
<1>6. QED
      BY <1>1, <1>2, <1>3, <1>4, <1>5 DEF Inv

-----------------------------------------------------------------------------
(* What an action leaves alone. *)

\* Nothing is opened or read, and the offers that live did so before.
LEMMA SourcesFrame ==
    ASSUME Inv, UNCHANGED <<disk, writers, sources, threads>>, OffersOK',
           \A o \in Offer : /\ offers'[o].files = offers[o].files
                            /\ offers'[o].snap = offers[o].snap,
           \A o \in Offer : Alive(o)' => Alive(o)
    PROVE  DiskOK' /\ SourcesOK' /\ ThreadsOK' /\ OpenersOK' /\ UnusedOK' /\ ServedOK'
<1>1. DiskOK' /\ SourcesOK'
      BY DEF Inv, DiskOK, SourcesOK
<1>2. ThreadsOK' /\ UnusedOK'
      BY DEF Inv, ThreadsOK, UnusedOK
<1>3. OpenersOK'
      BY DEF Inv, OpenersOK, Source
<1>4. ServedOK'
      BY DEF Inv, ServedOK, Matches, SnapshotOf
<1>5. QED
      BY <1>1, <1>2, <1>3, <1>4

\* Nothing but the clipboard, the notices and the place of the session changes.
LEMMA OffersFrame ==
    ASSUME Inv, UNCHANGED <<offers>> PROVE OffersOK'
  BY DEF Inv, OffersOK

LEMMA RevokedOffers ==
    ASSUME OffersOK, NEW c \in Offer \cup {0}
    PROVE  /\ Revoked(c) \in [Offer -> OfferRecord]
           /\ \A o \in Offer : /\ Revoked(c)[o].files = offers[o].files
                               /\ Revoked(c)[o].snap = offers[o].snap
                               /\ Revoked(c)[o].expired = offers[o].expired
                               /\ o # c => Revoked(c)[o].revoked = offers[o].revoked
<1>1. CASE c = 0
      BY <1>1 DEF Revoked, OffersOK, Offer
<1>2. CASE c # 0
  <2> DEFINE r == [offers[c] EXCEPT !.revoked = TRUE]
  <2>1. c \in Offer /\ offers[c] \in OfferRecord
        BY <1>2 DEF OffersOK
  <2>2. r \in OfferRecord /\ r.files = offers[c].files /\ r.snap = offers[c].snap
        /\ r.expired = offers[c].expired
        BY <2>1 DEF OfferRecord
  <2>3. Revoked(c) = [offers EXCEPT ![c] = r]
        BY <1>2 DEF Revoked
  <2> HIDE DEF r
  <2>4. QED
        BY <2>1, <2>2, <2>3 DEF OffersOK
<1>3. QED
      BY <1>1, <1>2

-----------------------------------------------------------------------------
(* The session. *)

LEMMA CopyElsewhereKeeps == Inv /\ CopyElsewhere => Inv'
<1> SUFFICES ASSUME Inv, CopyElsewhere PROVE Inv'
    OBVIOUS
<1>1. UNCHANGED <<disk, writers, pc, work, current, lease, offers, sources, threads>>
      BY DEF CopyElsewhere, diskVars, sessionVars
<1>2. clip' \in ClipRecord /\ clip'.kind # "ours"
      BY DEF CopyElsewhere, Clipboard, OtherClip, ClipRecord
<1>3. ClipOK' /\ SessionOK' /\ OffersOK'
      BY <1>1, <1>2, OffersFrame DEF Inv, ClipOK, SessionOK
<1>4. PasteOK'
      BY <1>1, <1>2 DEF Inv, PasteOK, OfferedObjectIsPasteable
<1>5. \A o \in Offer : Alive(o)' => Alive(o)
      BY <1>1, <1>2 DEF Alive
<1>6. DiskOK' /\ SourcesOK' /\ ThreadsOK' /\ OpenersOK' /\ UnusedOK' /\ ServedOK'
      BY <1>1, <1>3, <1>5, SourcesFrame
<1>7. QED
      BY <1>3, <1>4, <1>6 DEF Inv

\* The object on the clipboard is the session's own, or there is none.
LEMMA TakeUpdateKeeps == Inv /\ TakeUpdate => Inv'
<1> SUFFICES ASSUME Inv, TakeUpdate PROVE Inv'
    OBVIOUS
<1>1. /\ UNCHANGED <<disk, writers, clip, work, sources, threads>> /\ pc = "loop"
      /\ HandleUpdate
      BY DEF TakeUpdate, diskVars
<1>2. ClipOK /\ SessionOK /\ OffersOK /\ PasteOK
      BY DEF Inv
<1>3. CASE IsCurrent(lease)
  <2>1. UNCHANGED <<pc, current, lease, offers>>
        BY <1>1, <1>3 DEF HandleUpdate
  <2>2. ClipOK' /\ SessionOK' /\ OffersOK' /\ PasteOK'
        BY <1>1, <1>2, <2>1, OffersFrame
        DEF ClipOK, SessionOK, PasteOK, OfferedObjectIsPasteable, WasRead
  <2>3. \A o \in Offer : Alive(o)' => Alive(o)
        BY <1>1, <2>1 DEF Alive
  <2>4. DiskOK' /\ SourcesOK' /\ ThreadsOK' /\ OpenersOK' /\ UnusedOK' /\ ServedOK'
        BY <1>1, <2>1, <2>2, <2>3, SourcesFrame
  <2>5. QED
        BY <2>2, <2>4 DEF Inv
<1>4. CASE ~IsCurrent(lease)
  <2>1. offers' = Revoked(current) /\ current' = 0 /\ lease' = 0 /\ pc' = "capture"
        BY <1>1, <1>4 DEF HandleUpdate
  <2>2. current \in Offer \cup {0}
        BY <1>2 DEF SessionOK
  <2>3. offers' \in [Offer -> OfferRecord]
        /\ \A o \in Offer : offers'[o].files = offers[o].files /\ offers'[o].snap = offers[o].snap
        BY <1>2, <2>1, <2>2, RevokedOffers
  <2>4. OffersOK'
        BY <1>2, <2>3 DEF OffersOK
  <2>5. clip.kind = "ours" =>
           clip.offer \in Offer /\ offers[clip.offer].revoked /\ WasRead(clip.offer) /\ current = 0
        BY <1>1, <1>2, <1>4 DEF IsCurrent, PasteOK, OfferedObjectIsPasteable, Offer
  <2>6. current = 0 => offers' = offers
        BY <2>1 DEF Revoked
  <2>7. ClipOK' /\ SessionOK'
        BY <1>1, <1>2, <2>1 DEF ClipOK, SessionOK
  <2>8. PasteOK'
        BY <1>1, <2>1, <2>5, <2>6 DEF PasteOK, OfferedObjectIsPasteable, WasRead
  <2>9. \A o \in Offer : Alive(o)' => Alive(o)
        BY <1>1, <2>1 DEF Alive, Offer
  <2>10. DiskOK' /\ SourcesOK' /\ ThreadsOK' /\ OpenersOK' /\ UnusedOK' /\ ServedOK'
         BY <1>1, <2>3, <2>4, <2>9, SourcesFrame
  <2>11. QED
         BY <2>4, <2>7, <2>8, <2>10 DEF Inv
<1>5. QED
      BY <1>3, <1>4

LEMMA CaptureClipboardKeeps == Inv /\ CaptureClipboard => Inv'
<1> SUFFICES ASSUME Inv, CaptureClipboard PROVE Inv'
    OBVIOUS
<1>1. UNCHANGED <<disk, writers, clip, current, lease, offers, sources, threads>>
      BY DEF CaptureClipboard, diskVars, clipVars
<1>2. /\ pc = "capture" /\ pc' \in {"loop", "publish"} /\ work' \subseteq File
      /\ pc' = "publish" => clip.kind = "files"
      BY DEF CaptureClipboard, CaptureNothing, CapturePaths, Inv, SessionOK, ClipOK, ClipRecord
<1>3. ClipOK' /\ SessionOK' /\ OffersOK' /\ PasteOK'
      BY <1>1, <1>2, OffersFrame
      DEF Inv, ClipOK, SessionOK, PasteOK, OfferedObjectIsPasteable, WasRead
<1>4. \A o \in Offer : Alive(o)' => Alive(o)
      BY <1>1, <1>2 DEF Alive
<1>5. DiskOK' /\ SourcesOK' /\ ThreadsOK' /\ OpenersOK' /\ UnusedOK' /\ ServedOK'
      BY <1>1, <1>3, <1>4, SourcesFrame
<1>6. QED
      BY <1>3, <1>5 DEF Inv

LEMMA QuitKeeps == Inv /\ (Quit \/ ClearClipboard) => Inv'
<1> SUFFICES ASSUME Inv, Quit \/ ClearClipboard PROVE Inv'
    OBVIOUS
<1>1. UNCHANGED <<disk, writers, work, current, lease, offers, sources, threads>>
      BY DEF Quit, ClearClipboard, diskVars, clipVars
<1>2. pc \in {"loop", "clear"} /\ pc' \in {"clear", "stopped"}
      BY DEF Quit, ClearClipboard
<1>3. clip' \in ClipRecord /\ (clip'.kind = "ours" => clip' = clip)
      BY DEF Quit, ClearClipboard, Clipboard, OtherClip, ClipRecord, clipVars, Inv, ClipOK
<1>4. ClipOK' /\ SessionOK' /\ OffersOK' /\ PasteOK'
      BY <1>1, <1>2, <1>3, OffersFrame
      DEF Inv, ClipOK, SessionOK, PasteOK, OfferedObjectIsPasteable, WasRead
<1>5. \A o \in Offer : Alive(o)' => Alive(o)
      BY <1>1, <1>2, <1>3 DEF Alive
<1>6. DiskOK' /\ SourcesOK' /\ ThreadsOK' /\ OpenersOK' /\ UnusedOK' /\ ServedOK'
      BY <1>1, <1>4, <1>5, SourcesFrame
<1>7. QED
      BY <1>4, <1>6 DEF Inv

\* The object of the session, in the place of whatever was there.
LEMMA RegisterKeeps == Inv /\ Register => Inv'
<1> SUFFICES ASSUME Inv, Register PROVE Inv'
    OBVIOUS
<1>1. UNCHANGED <<disk, writers, work, lease, sources, threads>> /\ pc = "register"
      BY DEF Register, diskVars
<1>2. ClipOK /\ SessionOK /\ OffersOK /\ PasteOK
      BY DEF Inv
<1>3. clip.kind # "ours" /\ lease = 0 /\ current \in Offer /\ ~offers[current].revoked
      BY <1>1, <1>2 DEF PasteOK
<1>4. CASE RegisterSucceeds
  <2>1. /\ clip' = [kind |-> "ours", files |-> {}, offer |-> current]
        /\ pc' = "registered" /\ UNCHANGED <<current, offers>>
        BY <1>4 DEF RegisterSucceeds, Clipboard
  <2>2. ClipOK' /\ SessionOK' /\ OffersOK'
        BY <1>1, <1>2, <1>3, <2>1, OffersFrame DEF ClipOK, SessionOK, ClipRecord
  <2>3. PasteOK'
        BY <1>1, <1>3, <2>1 DEF PasteOK, OfferedObjectIsPasteable
  <2>4. \A o \in Offer : Alive(o)' => Alive(o)
        BY <1>1, <2>1 DEF Alive
  <2>5. DiskOK' /\ SourcesOK' /\ ThreadsOK' /\ OpenersOK' /\ UnusedOK' /\ ServedOK'
        BY <1>1, <2>1, <2>2, <2>4, SourcesFrame
  <2>6. QED
        BY <2>2, <2>3, <2>5 DEF Inv
<1>5. CASE RegisterFails
  <2>1. offers' = Revoked(current) /\ current' = 0 /\ pc' = "loop" /\ UNCHANGED clip
        BY <1>5 DEF RegisterFails, GiveUpOffer
  <2>2. offers' \in [Offer -> OfferRecord]
        /\ \A o \in Offer : offers'[o].files = offers[o].files /\ offers'[o].snap = offers[o].snap
        BY <1>2, <1>3, <2>1, RevokedOffers
  <2>3. OffersOK'
        BY <1>2, <2>2 DEF OffersOK
  <2>4. ClipOK' /\ SessionOK' /\ PasteOK'
        BY <1>1, <1>2, <1>3, <2>1 DEF ClipOK, SessionOK, PasteOK, OfferedObjectIsPasteable
  <2>5. \A o \in Offer : Alive(o)' => Alive(o)
        BY <1>1, <2>1 DEF Alive, Offer
  <2>6. DiskOK' /\ SourcesOK' /\ ThreadsOK' /\ OpenersOK' /\ UnusedOK' /\ ServedOK'
        BY <1>1, <2>2, <2>3, <2>5, SourcesFrame
  <2>7. QED
        BY <2>3, <2>4, <2>6 DEF Inv
<1>6. QED
      BY <1>4, <1>5 DEF Register

\* An object that was read by now is one that was read, wherever it is given up.
LEMMA CheckRegistrationKeeps == Inv /\ CheckRegistration => Inv'
<1> SUFFICES ASSUME Inv, CheckRegistration PROVE Inv'
    OBVIOUS
<1>1. UNCHANGED <<disk, writers, clip, work, sources, threads>> /\ pc = "registered" /\ pc' = "loop"
      BY DEF CheckRegistration, GiveUpOffer, diskVars, clipVars
<1>2. ClipOK /\ SessionOK /\ OffersOK /\ PasteOK
      BY DEF Inv
<1>3. lease = 0 /\ current \in Offer /\ current # 0 /\ (clip.kind = "ours" => clip.offer = current)
      BY <1>1, <1>2 DEF PasteOK, OfferedObjectIsPasteable, Offer
<1>4. CASE WasRead(current)
  <2>1. offers' = Revoked(current) /\ current' = 0 /\ UNCHANGED lease
        BY <1>4 DEF CheckRegistration, GiveUpOffer
  <2>2. offers' \in [Offer -> OfferRecord]
        /\ \A o \in Offer : offers'[o].files = offers[o].files /\ offers'[o].snap = offers[o].snap
        BY <1>2, <1>3, <2>1, RevokedOffers
  <2>3. OffersOK'
        BY <1>2, <2>2 DEF OffersOK
  <2>4. offers'[current].revoked
    <3>1. offers' = [offers EXCEPT ![current].revoked = TRUE]
          BY <1>3, <2>1 DEF Revoked
    <3>2. offers \in [Offer -> OfferRecord] /\ offers[current] \in OfferRecord
          BY <1>2, <1>3 DEF OffersOK
    <3>3. QED
          BY <1>3, <3>1, <3>2 DEF OfferRecord
  <2>5. ClipOK' /\ SessionOK'
        BY <1>1, <1>2, <2>1 DEF ClipOK, SessionOK
  <2>6. PasteOK'
        BY <1>1, <1>3, <1>4, <2>1, <2>4 DEF PasteOK, OfferedObjectIsPasteable, WasRead
  <2>7. \A o \in Offer : Alive(o)' => Alive(o)
        BY <1>1, <2>1 DEF Alive, Offer
  <2>8. DiskOK' /\ SourcesOK' /\ ThreadsOK' /\ OpenersOK' /\ UnusedOK' /\ ServedOK'
        BY <1>1, <2>2, <2>3, <2>7, SourcesFrame
  <2>9. QED
        BY <2>3, <2>5, <2>6, <2>8 DEF Inv
<1>5. CASE ~WasRead(current)
  <2>1. lease' = current /\ UNCHANGED <<current, offers>>
        BY <1>5 DEF CheckRegistration
  <2>2. ClipOK' /\ SessionOK' /\ OffersOK'
        BY <1>1, <1>2, <1>3, <2>1, OffersFrame DEF ClipOK, SessionOK
  <2>3. PasteOK'
        BY <1>1, <1>2, <1>3, <2>1 DEF PasteOK, OfferedObjectIsPasteable
  <2>4. \A o \in Offer : Alive(o)' => Alive(o)
        BY <1>1, <2>1 DEF Alive
  <2>5. DiskOK' /\ SourcesOK' /\ ThreadsOK' /\ OpenersOK' /\ UnusedOK' /\ ServedOK'
        BY <1>1, <2>1, <2>2, <2>4, SourcesFrame
  <2>6. QED
        BY <2>2, <2>3, <2>5 DEF Inv
<1>6. QED
      BY <1>4, <1>5

LEMMA ExpireKeeps ==
    ASSUME Inv, NEW e \in Offer, Expire(e) PROVE Inv'
<1> DEFINE r == [offers[e] EXCEPT !.expired = TRUE]
<1>1. /\ UNCHANGED <<disk, writers, clip, pc, work, current, lease, sources, threads>>
      /\ offers' = [offers EXCEPT ![e] = r]
      BY DEF Expire, diskVars, clipVars, sessionVars, Inv, OffersOK
<1>2. ClipOK /\ SessionOK /\ OffersOK /\ PasteOK /\ offers[e] \in OfferRecord
      BY DEF Inv, OffersOK
<1>3. r \in OfferRecord /\ r.files = offers[e].files /\ r.snap = offers[e].snap
      /\ r.revoked = offers[e].revoked
      BY <1>2 DEF OfferRecord
<1> HIDE DEF r
<1>4. /\ offers' \in [Offer -> OfferRecord]
      /\ \A o \in Offer : /\ offers'[o].files = offers[o].files /\ offers'[o].snap = offers[o].snap
                          /\ offers'[o].revoked = offers[o].revoked
      BY <1>1, <1>2, <1>3 DEF OffersOK
<1>5. ClipOK' /\ SessionOK' /\ OffersOK'
      BY <1>1, <1>2, <1>4 DEF ClipOK, SessionOK, OffersOK
<1>6. PasteOK'
      BY <1>1, <1>2, <1>4 DEF PasteOK, OfferedObjectIsPasteable, WasRead
<1>7. \A o \in Offer : Alive(o)' => Alive(o)
      BY <1>1 DEF Alive
<1>8. DiskOK' /\ SourcesOK' /\ ThreadsOK' /\ OpenersOK' /\ UnusedOK' /\ ServedOK'
      BY <1>1, <1>4, <1>5, <1>7, SourcesFrame
<1>9. QED
      BY <1>5, <1>6, <1>8 DEF Inv

-----------------------------------------------------------------------------
(* Publication. *)

LEMMA PublishFailsKeeps == Inv /\ Publish /\ PublishFails => Inv'
<1> SUFFICES ASSUME Inv, Publish, PublishFails PROVE Inv'
    OBVIOUS
<1>1. /\ UNCHANGED <<disk, writers, clip, current, lease, offers, sources, threads>>
      /\ pc = "publish" /\ pc' = "loop" /\ work' = {}
      BY DEF Publish, PublishFails, diskVars, clipVars
<1>2. ClipOK' /\ SessionOK' /\ OffersOK' /\ PasteOK'
      BY <1>1, OffersFrame DEF Inv, ClipOK, SessionOK, PasteOK, OfferedObjectIsPasteable
<1>3. \A o \in Offer : Alive(o)' => Alive(o)
      BY <1>1 DEF Alive
<1>4. DiskOK' /\ SourcesOK' /\ ThreadsOK' /\ OpenersOK' /\ UnusedOK' /\ ServedOK'
      BY <1>1, <1>2, <1>3, SourcesFrame
<1>5. QED
      BY <1>2, <1>4 DEF Inv

\* The new offer lists no file of which its sources know anything.
LEMMA PublishSucceedsKeeps == Inv /\ Publish /\ PublishSucceeds => Inv'
<1> SUFFICES ASSUME Inv, Publish, PublishSucceeds PROVE Inv'
    OBVIOUS
<1>1. /\ UNCHANGED <<disk, writers, clip, lease, sources, threads>>
      /\ pc = "publish" /\ pc' = "register" /\ work' = {} /\ work \subseteq File
      BY DEF Publish, PublishSucceeds, NewOffer, diskVars, clipVars, Inv, SessionOK
<1> DEFINE snap == [f \in work |-> [id |-> disk[f].id, size |-> disk[f].size]]
           r == [NoOffer EXCEPT !.files = work, !.snap = snap]
<1>2. PICK n \in Offer : /\ offers[n].files = {}
                         /\ offers' = [Revoked(current) EXCEPT ![n] = r]
                         /\ current' = n
  <2>1. NewOffer(work) = r
        BY DEF NewOffer, SnapshotOf
  <2>2. QED
        BY <2>1 DEF PublishSucceeds
<1>3. ClipOK /\ SessionOK /\ OffersOK /\ PasteOK /\ DiskOK /\ current \in Offer \cup {0}
      BY DEF Inv, SessionOK
<1>4. snap \in [work -> Stamp] /\ snap \in Stamps
  <2>1. \A f \in work : [id |-> disk[f].id, size |-> disk[f].size] \in Stamp
        BY <1>1, <1>3 DEF DiskOK, DiskRecord, Stamp
  <2>2. snap \in [work -> Stamp]
        BY <2>1
  <2> HIDE DEF snap
  <2>3. QED
        BY <1>1, <2>2 DEF Stamps
<1>5. \A f \in work : snap[f] = [id |-> disk[f].id, size |-> disk[f].size]
      OBVIOUS
<1> HIDE DEF snap
<1>6. NoOffer \in OfferRecord /\ ~NoOffer.revoked
  <2>1. <<>> \in Stamps
        BY EmptyStamps
  <2>2. QED
        BY <2>1 DEF NoOffer, OfferRecord
<1>7. r \in OfferRecord /\ r.files = work /\ r.snap = snap /\ ~r.revoked
      BY <1>1, <1>4, <1>6 DEF OfferRecord
<1> HIDE DEF r
<1>8. /\ Revoked(current) \in [Offer -> OfferRecord]
      /\ \A o \in Offer : /\ Revoked(current)[o].files = offers[o].files
                          /\ Revoked(current)[o].snap = offers[o].snap
      BY <1>3, RevokedOffers
<1>9. /\ offers' \in [Offer -> OfferRecord] /\ offers'[n] = r
      /\ \A o \in Offer \ {n} : /\ offers'[o].files = offers[o].files
                                /\ offers'[o].snap = offers[o].snap
      BY <1>2, <1>7, <1>8
<1>10. OffersOK'
       BY <1>3, <1>4, <1>7, <1>9 DEF OffersOK
<1>11. ClipOK' /\ SessionOK'
       BY <1>1, <1>2, <1>3 DEF ClipOK, SessionOK
<1>12. PasteOK'
       BY <1>1, <1>2, <1>3, <1>7, <1>9 DEF PasteOK, OfferedObjectIsPasteable
<1>13. DiskOK' /\ SourcesOK'
       BY <1>1 DEF Inv, DiskOK, SourcesOK
<1>14. \A t \in Thread : threads[t].pc # "idle" => threads[t].offer \in Offer \ {n}
       BY <1>2 DEF Inv, ThreadsOK
<1>15. ThreadsOK'
       BY <1>1, <1>9, <1>14 DEF Inv, ThreadsOK
<1>16. OpenersOK'
       BY <1>1 DEF Inv, OpenersOK, Source
<1>17. \A f \in File : sources[n][f].state = "unstarted"
       BY <1>2 DEF Inv, UnusedOK
<1>18. UnusedOK'
  <2>1. ASSUME NEW o \in Offer, NEW f \in File, f \notin offers'[o].files
        PROVE  sources'[o][f].state = "unstarted"
    <3>1. CASE o = n
          BY <1>1, <1>17, <3>1
    <3>2. CASE o # n
          BY <1>1, <1>9, <2>1, <3>2 DEF Inv, UnusedOK
    <3>3. QED
          BY <3>1, <3>2
  <2>2. QED
        BY <2>1 DEF UnusedOK
<1>19. \A o \in Offer \ {n} : Alive(o)' => Alive(o)
       BY <1>1, <1>2 DEF Alive
<1>20. ServedOK'
  <2>1. ASSUME NEW o \in Offer, NEW f \in File
        PROVE  /\ sources'[o][f].state = "unstarted" => sources'[o][f].served = {}
               /\ \A v, w \in sources'[o][f].served : v = w
               /\ Alive(o)' /\ sources'[o][f].state = "active" =>
                     /\ f \notin writers' /\ Matches(o, f)'
                     /\ \A v \in sources'[o][f].served : v = disk'[f].version
    <3>1. CASE o = n
          BY <1>1, <1>17, <3>1 DEF Inv, ServedOK
    <3>2. CASE o # n
          BY <1>1, <1>9, <1>19, <3>2 DEF Inv, ServedOK, Matches, SnapshotOf
    <3>3. QED
          BY <3>1, <3>2
  <2>2. QED
        BY <2>1 DEF ServedOK
<1>21. QED
       BY <1>10, <1>11, <1>12, <1>13, <1>15, <1>16, <1>18, <1>20 DEF Inv

-----------------------------------------------------------------------------
(* Explorer. *)

ThreadOpens(t, g) == threads' = [threads EXCEPT ![t] = g]

\* The session's part of the invariant, when it does not move.
LEMMA SessionFrame ==
    ASSUME Inv, UNCHANGED <<clip, pc, work, current, lease, offers>>,
           \A o \in Offer : WasRead(o) => WasRead(o)'
    PROVE  ClipOK' /\ SessionOK' /\ OffersOK' /\ PasteOK'
<1>1. ClipOK' /\ SessionOK' /\ OffersOK'
      BY OffersFrame DEF Inv, ClipOK, SessionOK
<1>2. PasteOK /\ (clip.kind = "ours" => clip.offer \in Offer)
      BY DEF Inv, PasteOK
<1>3. OfferedObjectIsPasteable'
      BY <1>2 DEF PasteOK, OfferedObjectIsPasteable
<1>4. PasteOK'
      BY <1>2, <1>3 DEF PasteOK
<1>5. QED
      BY <1>1, <1>4

\* A thread that is not about to open a file, for an offer that lives.
LEMMA ThreadStep ==
    ASSUME Inv, NEW t \in Thread, NEW g \in ThreadRecord, ThreadOpens(t, g),
           UNCHANGED <<disk, writers, clip, pc, work, current, lease, offers, sources>>,
           threads[t].pc # "open", g.pc # "open",
           g.pc # "idle" => g.offer \in Offer /\ g.file \in offers[g.offer].files,
           g.offer # 0 => Alive(g.offer)
    PROVE  Inv'
<1>2. DiskOK' /\ SourcesOK' /\ UnusedOK'
      BY DEF Inv, DiskOK, SourcesOK, UnusedOK
<1>3. threads' \in [Thread -> ThreadRecord] /\ threads'[t] = g
      /\ \A u \in Thread \ {t} : threads'[u] = threads[u]
      BY DEF Inv, ThreadsOK, ThreadOpens
<1>1. ClipOK' /\ SessionOK' /\ OffersOK' /\ PasteOK'
  <2>1. \A o \in Offer : WasRead(o) => WasRead(o)'
        BY <1>3 DEF WasRead
  <2>2. QED
        BY <2>1, SessionFrame
<1>4. ThreadsOK'
      BY <1>3 DEF Inv, ThreadsOK
<1>5. OpenersOK'
      BY <1>3 DEF Inv, OpenersOK, Source
<1>6. \A o \in Offer : Alive(o)' => Alive(o)
      BY <1>3 DEF Alive, Offer
<1>7. ServedOK'
      BY <1>6 DEF Inv, ServedOK, Matches, SnapshotOf
<1>8. QED
      BY <1>1, <1>2, <1>4, <1>5, <1>7 DEF Inv

LEMMA GetDataKeeps ==
    ASSUME Inv, NEW t \in Thread, NEW f \in File, GetData(t, f), pc # "stopped" PROVE Inv'
<1> DEFINE g == [pc |-> "read", offer |-> clip.offer, file |-> f, pos |-> 0]
<1>1. /\ UNCHANGED <<disk, writers, clip, pc, work, current, lease, offers, sources>>
      /\ ThreadOpens(t, g)
      BY DEF GetData, diskVars, clipVars, sessionVars, ThreadOpens
<1>2. /\ clip.kind = "ours" /\ clip.offer \in Offer /\ f \in offers[clip.offer].files
      /\ threads[t].pc = "idle"
      BY DEF GetData, Inv, PasteOK
<1>3. g \in ThreadRecord
      BY <1>2, CaptureAssumption DEF ThreadRecord
<1>4. g.pc = "read" /\ g.offer = clip.offer /\ g.file = f
      OBVIOUS
<1>5. Alive(clip.offer)
      BY <1>2 DEF Alive
<1> HIDE DEF g
<1>6. QED
      BY <1>1, <1>2, <1>3, <1>4, <1>5, ThreadStep

LEMMA ReleaseKeeps ==
    ASSUME Inv, NEW t \in Thread, Release(t) PROVE Inv'
<1>1. /\ UNCHANGED <<disk, writers, clip, pc, work, current, lease, offers, sources>>
      /\ ThreadOpens(t, IdleThread)
      BY DEF Release, diskVars, clipVars, sessionVars, ThreadOpens
<1>2. IdleThread \in ThreadRecord /\ IdleThread.pc = "idle" /\ IdleThread.offer = 0
      BY CaptureAssumption DEF IdleThread, ThreadRecord
<1>3. threads[t].pc = "read"
      BY DEF Release
<1>4. QED
      BY <1>1, <1>2, <1>3, ThreadStep

\* A thread that reads refers to an offer that lives.
LEMMA ReaderIsAlive ==
    ASSUME Inv, NEW t \in Thread, threads[t].pc # "idle", pc # "stopped"
    PROVE  /\ threads[t].offer \in Offer /\ threads[t].file \in File
           /\ threads[t].file \in offers[threads[t].offer].files
           /\ Alive(threads[t].offer)
  BY DEF Inv, ThreadsOK, ThreadRecord, Alive

\* What becomes of the source of a thread.
SourceBecomes(o, f, r) == sources' = [sources EXCEPT ![o][f] = r]

LEMMA SourceChange ==
    ASSUME SourcesOK, NEW o \in Offer, NEW f \in File, NEW r \in SourceRecord,
           SourceBecomes(o, f, r)
    PROVE  /\ SourcesOK'
           /\ sources'[o][f] = r
           /\ \A p \in Offer, e \in File : p # o \/ e # f => sources'[p][e] = sources[p][e]
  BY DEF SourcesOK, SourceBecomes

LEMMA StateChange ==
    ASSUME NEW r \in SourceRecord, NEW st \in {"unstarted", "active", "failed"}
    PROVE  LET q == [r EXCEPT !.state = st] IN
           q \in SourceRecord /\ q.state = st /\ q.served = r.served
  BY DEF SourceRecord

LEMMA PcChange ==
    ASSUME NEW g \in ThreadRecord, NEW p \in {"idle", "read", "open"}
    PROVE  LET h == [g EXCEPT !.pc = p] IN
           /\ h \in ThreadRecord /\ h.pc = p /\ h.offer = g.offer /\ h.file = g.file
           /\ h.pos = g.pos
  BY DEF ThreadRecord

LEMMA PosChange ==
    ASSUME NEW g \in ThreadRecord, NEW p \in 0 .. MaxSize
    PROVE  LET h == [g EXCEPT !.pos = p] IN
           h \in ThreadRecord /\ h.pc = g.pc /\ h.offer = g.offer /\ h.file = g.file
  BY DEF ThreadRecord

LEMMA FirstUseKeeps ==
    ASSUME Inv, NEW t \in Thread, FirstUse(t), pc # "stopped" PROVE Inv'
<1> DEFINE o == threads[t].offer
           f == threads[t].file
<1>1. /\ UNCHANGED <<disk, writers, clip, pc, work, current, lease, offers>>
      /\ threads[t].pc = "read" /\ ~Locked(t) /\ sources[o][f].state = "unstarted"
      BY DEF FirstUse, diskVars, clipVars, sessionVars, Source
<1>2. /\ SourcesOK /\ ThreadsOK /\ OpenersOK /\ UnusedOK /\ ServedOK
      /\ threads[t] \in ThreadRecord
      BY DEF Inv, ThreadsOK
<1>3. o \in Offer /\ f \in File /\ f \in offers[o].files /\ Alive(o)
      BY <1>1, ReaderIsAlive
<1>4. ASSUME \A p \in Offer : WasRead(p) => WasRead(p)'
      PROVE  ClipOK' /\ SessionOK' /\ OffersOK' /\ PasteOK' /\ DiskOK'
      BY <1>1, <1>4, SessionFrame DEF Inv, DiskOK
<1>5. CASE Become(t, "failed") /\ UNCHANGED threads
  <2> DEFINE r == [sources[o][f] EXCEPT !.state = "failed"]
  <2>1. sources[o][f] \in SourceRecord
        BY <1>2, <1>3 DEF SourcesOK
  <2>2. r \in SourceRecord /\ r.state = "failed" /\ r.served = sources[o][f].served
        BY <2>1, StateChange
  <2>3. SourceBecomes(o, f, r)
        BY <1>2, <1>3, <1>5 DEF Become, SourceBecomes, SourcesOK
  <2> HIDE DEF r
  <2>4. /\ SourcesOK' /\ sources'[o][f] = r
        /\ \A p \in Offer, e \in File : p # o \/ e # f => sources'[p][e] = sources[p][e]
    <3> HIDE DEF o, f
    <3>1. QED
          BY <1>2, <1>3, <2>2, <2>3, SourceChange
  <2>5. ThreadsOK'
        BY <1>1, <1>2, <1>5 DEF ThreadsOK
  <2>6. \A u \in Thread : threads[u].pc = "open" => threads[u].offer # o \/ threads[u].file # f
        BY <1>1 DEF Locked
  <2>7. OpenersOK'
    <3>1. \A u \in Thread : threads[u].pc = "open"
             => threads[u].offer \in Offer /\ threads[u].file \in File
          BY <1>2 DEF ThreadsOK, ThreadRecord
    <3>2. QED
          BY <1>2, <1>5, <2>4, <2>6, <3>1 DEF OpenersOK, Source
  <2>8. UnusedOK'
        BY <1>1, <1>2, <1>3, <2>4 DEF UnusedOK
  <2>9. \A p \in Offer : Alive(p)' => Alive(p)
        BY <1>1, <1>5 DEF Alive
  <2>10. ServedOK'
         BY <1>1, <1>2, <1>3, <2>2, <2>4, <2>9 DEF ServedOK, Matches, SnapshotOf
  <2>11. \A p \in Offer : WasRead(p) => WasRead(p)'
    <3> HIDE DEF o, f
    <3>1. QED
          BY <1>5, <2>2, <2>4 DEF WasRead
  <2>12. QED
         BY <1>4, <2>4, <2>5, <2>7, <2>8, <2>10, <2>11 DEF Inv
<1>6. CASE threads' = [threads EXCEPT ![t].pc = "open"] /\ UNCHANGED sources
  <2> DEFINE g == [threads[t] EXCEPT !.pc = "open"]
  <2>1. threads' = [threads EXCEPT ![t] = g]
        BY <1>2, <1>6 DEF ThreadsOK
  <2>2. g \in ThreadRecord /\ g.pc = "open" /\ g.offer = o /\ g.file = f
        BY <1>2, PcChange
  <2> HIDE DEF g
  <2>3. threads' \in [Thread -> ThreadRecord] /\ threads'[t] = g
        /\ \A u \in Thread \ {t} : threads'[u] = threads[u]
        BY <1>2, <2>1, <2>2 DEF ThreadsOK
  <2>4. ThreadsOK'
        BY <1>1, <1>2, <1>3, <2>2, <2>3 DEF ThreadsOK
  <2>5. OpenersOK'
        BY <1>1, <1>2, <1>6, <2>2, <2>3 DEF OpenersOK, Source, Locked
  <2>6. SourcesOK' /\ UnusedOK'
        BY <1>1, <1>2, <1>6 DEF SourcesOK, UnusedOK
  <2>7. \A p \in Offer : Alive(p)' => Alive(p)
        BY <1>1, <1>3, <2>2, <2>3 DEF Alive
  <2>8. ServedOK'
        BY <1>1, <1>2, <1>6, <2>7 DEF ServedOK, Matches, SnapshotOf
  <2>9. \A p \in Offer : WasRead(p) => WasRead(p)'
        BY <1>6, <2>2, <2>3 DEF WasRead
  <2>10. QED
         BY <1>4, <2>4, <2>5, <2>6, <2>8, <2>9 DEF Inv
<1>7. QED
      BY <1>5, <1>6 DEF FirstUse

\* The source was not used, so the version it delivers is the one opened.
LEMMA OpenFileKeeps ==
    ASSUME Inv, NEW t \in Thread, OpenFile(t), pc # "stopped" PROVE Inv'
<1> DEFINE o == threads[t].offer
           f == threads[t].file
           st == IF CanOpen(f) /\ Matches(o, f) THEN "active" ELSE "failed"
           r == [sources[o][f] EXCEPT !.state = st]
           g == [threads[t] EXCEPT !.pc = "read"]
<1>1. /\ UNCHANGED <<disk, writers, clip, pc, work, current, lease, offers>>
      /\ threads[t].pc = "open" /\ Become(t, st)
      /\ threads' = [threads EXCEPT ![t].pc = "read"]
      BY DEF OpenFile, Open, diskVars, clipVars, sessionVars
<1>2. /\ SourcesOK /\ ThreadsOK /\ OpenersOK /\ UnusedOK /\ ServedOK
      /\ threads[t] \in ThreadRecord
      BY DEF Inv, ThreadsOK
<1>3. o \in Offer /\ f \in File /\ f \in offers[o].files /\ Alive(o)
      BY <1>1, ReaderIsAlive
<1>5. sources[o][f] \in SourceRecord /\ sources[o][f].state = "unstarted"
      /\ sources[o][f].served = {}
      BY <1>1, <1>2, <1>3 DEF SourcesOK, OpenersOK, ServedOK, Source
<1>6. st \in {"active", "failed"} /\ (st = "active" => f \notin writers /\ Matches(o, f))
      BY DEF CanOpen
<1>7. SourceBecomes(o, f, r)
      BY <1>1, <1>2, <1>3 DEF Become, SourceBecomes, SourcesOK
<1> HIDE DEF st
<1>8. r \in SourceRecord /\ r.state = st /\ r.served = {}
  <2> HIDE DEF o, f
  <2> DEFINE s == sources[o][f]
             q == [s EXCEPT !.state = st]
  <2>1. s \in SourceRecord /\ s.served = {}
        BY <1>5
  <2> HIDE DEF s
  <2>2. q \in SourceRecord /\ q.state = st /\ q.served = s.served
        BY <1>6, <2>1, StateChange
  <2>3. QED
        BY <2>1, <2>2 DEF s
<1> HIDE DEF r
<1>9. threads' = [threads EXCEPT ![t] = g]
      BY <1>1, <1>2 DEF ThreadsOK
<1>10. g \in ThreadRecord /\ g.pc = "read" /\ g.offer = o /\ g.file = f
       BY <1>2, PcChange
<1> HIDE DEF g
<1>11. threads' \in [Thread -> ThreadRecord] /\ threads'[t] = g
       /\ \A u \in Thread \ {t} : threads'[u] = threads[u]
       BY <1>2, <1>9, <1>10 DEF ThreadsOK
<1>12. /\ SourcesOK' /\ sources'[o][f] = r
       /\ \A p \in Offer, e \in File : p # o \/ e # f => sources'[p][e] = sources[p][e]
  <2> HIDE DEF o, f
  <2>1. QED
        BY <1>2, <1>3, <1>7, <1>8, SourceChange
<1>13. ThreadsOK'
       BY <1>1, <1>2, <1>3, <1>10, <1>11 DEF ThreadsOK
<1>14. OpenersOK'
  <2>1. ASSUME NEW u \in Thread, threads'[u].pc = "open"
        PROVE  /\ Source(u)'.state = "unstarted"
               /\ \A w \in Thread \ {u} :
                     threads'[w].pc = "open" => threads'[w].offer # threads'[u].offer
                                                \/ threads'[w].file # threads'[u].file
    <3>1. u # t /\ threads'[u] = threads[u]
          BY <1>10, <1>11, <2>1
    <3>2. threads[u].offer # o \/ threads[u].file # f
          BY <1>1, <1>2, <2>1, <3>1 DEF OpenersOK
    <3>3. threads[u].offer \in Offer /\ threads[u].file \in File
          BY <1>2, <2>1, <3>1 DEF ThreadsOK, ThreadRecord
    <3>4. Source(u)' = Source(u)
          BY <1>12, <3>1, <3>2, <3>3 DEF Source
    <3>5. Source(u).state = "unstarted"
          BY <1>2, <2>1, <3>1 DEF OpenersOK
    <3>6. ASSUME NEW w \in Thread \ {u}, threads'[w].pc = "open"
          PROVE  threads'[w].offer # threads'[u].offer \/ threads'[w].file # threads'[u].file
      <4>1. w # t /\ threads'[w] = threads[w]
            BY <1>10, <1>11, <3>6
      <4>2. QED
            BY <1>2, <2>1, <3>1, <3>6, <4>1 DEF OpenersOK
    <3>7. QED
          BY <3>4, <3>5, <3>6
  <2>2. QED
        BY <2>1 DEF OpenersOK
<1>15. UnusedOK'
       BY <1>1, <1>2, <1>3, <1>12 DEF UnusedOK
<1>16. \A p \in Offer : Alive(p)' => Alive(p)
       BY <1>1, <1>3, <1>10, <1>11 DEF Alive
<1>17. ServedOK'
  <2> HIDE DEF o, f
  <2>1. ASSUME NEW p \in Offer, NEW e \in File
        PROVE  /\ sources'[p][e].state = "unstarted" => sources'[p][e].served = {}
               /\ \A v, w \in sources'[p][e].served : v = w
               /\ Alive(p)' /\ sources'[p][e].state = "active" =>
                     /\ e \notin writers' /\ Matches(p, e)'
                     /\ \A v \in sources'[p][e].served : v = disk'[e].version
    <3>1. Matches(p, e)' <=> Matches(p, e)
          BY <1>1 DEF Matches, SnapshotOf
    <3>2. CASE p = o /\ e = f
      <4>1. sources'[p][e].state = st /\ sources'[p][e].served = {}
            BY <1>8, <1>12, <3>2
      <4>2. st = "active" => e \notin writers' /\ Matches(p, e)'
            BY <1>1, <1>6, <3>1, <3>2
      <4>3. st # "unstarted"
            BY <1>6
      <4>4. QED
            BY <4>1, <4>2, <4>3
    <3>3. CASE p # o \/ e # f
      <4>1. sources'[p][e] = sources[p][e]
            BY <1>12, <3>3
      <4>2. /\ sources[p][e].state = "unstarted" => sources[p][e].served = {}
            /\ \A v, w \in sources[p][e].served : v = w
            /\ Alive(p) /\ sources[p][e].state = "active" =>
                  /\ e \notin writers /\ Matches(p, e)
                  /\ \A v \in sources[p][e].served : v = disk[e].version
            BY <1>2 DEF ServedOK
      <4>3. QED
            BY <1>1, <1>16, <3>1, <4>1, <4>2
    <3>4. QED
          BY <3>2, <3>3
  <2>2. QED
        BY <2>1 DEF ServedOK
<1>18. \A p \in Offer : WasRead(p) => WasRead(p)'
  <2> HIDE DEF o, f
  <2>1. st # "unstarted"
        BY <1>6
  <2>2. ASSUME NEW p \in Offer, WasRead(p) PROVE WasRead(p)'
    <3>1. CASE p = o
          BY <1>3, <1>8, <1>12, <2>1, <3>1 DEF WasRead
    <3>2. CASE p # o
      <4>1. threads[t].offer = o
            BY DEF o
      <4>2. QED
            BY <1>11, <1>12, <2>2, <3>2, <4>1 DEF WasRead
    <3>3. QED
          BY <3>1, <3>2
  <2>3. QED
        BY <2>2
<1>4. ClipOK' /\ SessionOK' /\ OffersOK' /\ PasteOK' /\ DiskOK'
      BY <1>1, <1>18, SessionFrame DEF Inv, DiskOK
<1>19. QED
       BY <1>4, <1>12, <1>13, <1>14, <1>15, <1>17 DEF Inv

LEMMA ReadUnitKeeps ==
    ASSUME Inv, NEW t \in Thread, ReadUnit(t), pc # "stopped" PROVE Inv'
<1> DEFINE o == threads[t].offer
           f == threads[t].file
           served == sources[o][f].served \cup {disk[f].version}
           r == [sources[o][f] EXCEPT !.served = served]
           g == [threads[t] EXCEPT !.pos = threads[t].pos + 1]
<1>1. /\ UNCHANGED <<disk, writers, clip, pc, work, current, lease, offers>>
      /\ threads[t].pc = "read" /\ sources[o][f].state = "active"
      /\ threads[t].pos < offers[o].snap[f].size
      BY DEF ReadUnit, diskVars, clipVars, sessionVars, Source
<1>2. /\ SourcesOK /\ ThreadsOK /\ OpenersOK /\ UnusedOK /\ ServedOK /\ OffersOK /\ DiskOK
      /\ threads[t] \in ThreadRecord
      BY DEF Inv, ThreadsOK
<1>3. o \in Offer /\ f \in File /\ f \in offers[o].files /\ Alive(o)
      BY <1>1, ReaderIsAlive
<1>4. DiskOK'
      BY <1>1 DEF Inv, DiskOK
<1>5. sources[o][f] \in SourceRecord
      BY <1>2, <1>3 DEF SourcesOK
<1>6. /\ served \in SUBSET Nat
      /\ \A v \in served : v = disk[f].version
      /\ f \notin writers /\ Matches(o, f)
  <2> HIDE DEF o, f
  <2>1. disk[f].version \in Nat
        BY <1>2, <1>3 DEF DiskOK, DiskRecord
  <2>2. sources[o][f].served \in SUBSET Nat
        BY <1>5 DEF SourceRecord
  <2>3. /\ \A v \in sources[o][f].served : v = disk[f].version
        /\ f \notin writers /\ Matches(o, f)
        BY <1>1, <1>2, <1>3 DEF ServedOK
  <2>4. QED
        BY <2>1, <2>2, <2>3
<1>7. SourceBecomes(o, f, r)
  <2>1. sources' = [sources EXCEPT ![o][f].served = @ \cup {disk[f].version}]
        BY DEF ReadUnit
  <2> HIDE DEF o, f
  <2>2. QED
        BY <2>1, Zenon DEF SourceBecomes
<1> HIDE DEF served
<1>8. r \in SourceRecord /\ r.state = "active" /\ r.served = served
  <2> HIDE DEF o, f
  <2>1. QED
        BY <1>1, <1>5, <1>6 DEF SourceRecord
<1> HIDE DEF r
<1>9. offers[o].snap[f].size \in 1 .. MaxSize /\ threads[t].pos \in 0 .. MaxSize
  <2>1. offers[o].snap[f] \in Stamp
        BY <1>2, <1>3 DEF OffersOK
  <2>2. QED
        BY <1>2, <2>1 DEF Stamp, ThreadRecord
<1>10. threads[t].pos + 1 \in 0 .. MaxSize
       BY <1>1, <1>9, CaptureAssumption
<1>11. g \in ThreadRecord /\ g.pc = "read" /\ g.offer = o /\ g.file = f
       BY <1>1, <1>2, <1>10, PosChange
<1>12. threads' = [threads EXCEPT ![t] = g]
       BY <1>2 DEF ThreadsOK, ReadUnit
<1> HIDE DEF g
<1>13. threads' \in [Thread -> ThreadRecord] /\ threads'[t] = g
       /\ \A u \in Thread \ {t} : threads'[u] = threads[u]
       BY <1>2, <1>11, <1>12 DEF ThreadsOK
<1>14. /\ SourcesOK' /\ sources'[o][f] = r
       /\ \A p \in Offer, e \in File : p # o \/ e # f => sources'[p][e] = sources[p][e]
  <2> HIDE DEF o, f
  <2>1. QED
        BY <1>2, <1>3, <1>7, <1>8, SourceChange
<1>15. ThreadsOK'
       BY <1>1, <1>2, <1>3, <1>11, <1>13 DEF ThreadsOK
<1>16. OpenersOK'
  <2>1. \A u \in Thread : threads[u].pc = "open" =>
           /\ threads[u].offer \in Offer /\ threads[u].file \in File
           /\ threads[u].offer # o \/ threads[u].file # f
        BY <1>1, <1>2 DEF OpenersOK, Source, ThreadsOK, ThreadRecord
  <2>2. \A u \in Thread : threads'[u].pc = "open" => u # t /\ threads'[u] = threads[u]
        BY <1>11, <1>13
  <2>3. \A u \in Thread : threads'[u].pc = "open" => Source(u)' = Source(u)
    <3> HIDE DEF o, f
    <3>1. QED
          BY <1>14, <2>1, <2>2 DEF Source
  <2>4. QED
        BY <1>2, <2>2, <2>3 DEF OpenersOK
<1>17. UnusedOK'
       BY <1>1, <1>2, <1>3, <1>14 DEF UnusedOK
<1>18. \A p \in Offer : Alive(p)' => Alive(p)
       BY <1>1, <1>3, <1>11, <1>13 DEF Alive
<1>19. ServedOK'
  <2>1. ASSUME NEW p \in Offer, NEW e \in File
        PROVE  /\ sources'[p][e].state = "unstarted" => sources'[p][e].served = {}
               /\ \A v, w \in sources'[p][e].served : v = w
               /\ Alive(p)' /\ sources'[p][e].state = "active" =>
                     /\ e \notin writers' /\ Matches(p, e)'
                     /\ \A v \in sources'[p][e].served : v = disk'[e].version
    <3>1. Matches(p, e)' <=> Matches(p, e)
          BY <1>1 DEF Matches, SnapshotOf
    <3>2. CASE p = o /\ e = f
      <4> HIDE DEF o, f
      <4>1. sources'[p][e].state = "active" /\ sources'[p][e].served = served
            BY <1>8, <1>14, <3>2
      <4>2. e \notin writers' /\ Matches(p, e)' /\ disk'[e] = disk[f]
            BY <1>1, <1>6, <3>1, <3>2
      <4>3. QED
            BY <1>6, <4>1, <4>2
    <3>3. CASE p # o \/ e # f
      <4>1. sources'[p][e] = sources[p][e]
            BY <1>14, <3>3
      <4>2. /\ sources[p][e].state = "unstarted" => sources[p][e].served = {}
            /\ \A v, w \in sources[p][e].served : v = w
            /\ Alive(p) /\ sources[p][e].state = "active" =>
                  /\ e \notin writers /\ Matches(p, e)
                  /\ \A v \in sources[p][e].served : v = disk[e].version
            BY <1>2 DEF ServedOK
      <4>3. QED
            BY <1>1, <1>18, <3>1, <4>1, <4>2
    <3>4. QED
          BY <3>2, <3>3
  <2>2. QED
        BY <2>1 DEF ServedOK
<1>20. \A p \in Offer : WasRead(p) => WasRead(p)'
  <2> HIDE DEF o, f
  <2>1. \A p \in Offer, e \in File : sources'[p][e].state = sources[p][e].state
        BY <1>1, <1>8, <1>14
  <2>2. \A u \in Thread : threads[u].pc = "open" => threads'[u] = threads[u]
        BY <1>1, <1>13
  <2>3. QED
        BY <2>1, <2>2 DEF WasRead
<1>21. ClipOK' /\ SessionOK' /\ OffersOK' /\ PasteOK'
       BY <1>1, <1>20, SessionFrame
<1>22. QED
       BY <1>4, <1>14, <1>15, <1>16, <1>17, <1>19, <1>21 DEF Inv

-----------------------------------------------------------------------------
(* Other applications. *)

\* They change no file that a handle is open on.
LEMMA FilesStep ==
    ASSUME Inv, UNCHANGED <<clip, pc, work, current, lease, offers, sources, threads>>, DiskOK',
           \A o \in Offer, f \in File :
              Alive(o) /\ sources[o][f].state = "active" => f \notin writers' /\ disk'[f] = disk[f]
    PROVE  Inv'
<1>1. ClipOK' /\ SessionOK' /\ OffersOK' /\ PasteOK'
      BY SessionFrame DEF WasRead
<1>2. SourcesOK' /\ ThreadsOK' /\ UnusedOK'
      BY DEF Inv, SourcesOK, ThreadsOK, UnusedOK
<1>3. OpenersOK'
      BY DEF Inv, OpenersOK, Source
<1>4. \A o \in Offer : Alive(o)' => Alive(o)
      BY DEF Alive
<1>5. ServedOK'
  <2>1. ASSUME NEW o \in Offer, NEW f \in File, Alive(o), sources[o][f].state = "active"
        PROVE  /\ f \notin writers' /\ Matches(o, f)'
               /\ \A v \in sources[o][f].served : v = disk'[f].version
    <3>1. /\ f \notin writers /\ Matches(o, f)
          /\ \A v \in sources[o][f].served : v = disk[f].version
          BY <2>1 DEF Inv, ServedOK
    <3>2. f \notin writers' /\ disk'[f] = disk[f]
          BY <2>1
    <3>3. QED
          BY <3>1, <3>2 DEF Matches, SnapshotOf
  <2>2. QED
        BY <1>4, <2>1 DEF Inv, ServedOK
<1>6. QED
      BY <1>1, <1>2, <1>3, <1>5 DEF Inv

LEMMA OpenForWritingKeeps ==
    ASSUME Inv, NEW f \in File, OpenForWriting(f) \/ CloseWriter(f) PROVE Inv'
<1>1. /\ UNCHANGED <<disk, clip, pc, work, current, lease, offers, sources, threads>>
      /\ \/ ~HandleOpen(f) /\ writers' = writers \cup {f}
         \/ writers' = writers \ {f}
      BY DEF OpenForWriting, CloseWriter, clipVars, sessionVars
<1>2. DiskOK'
      BY <1>1 DEF Inv, DiskOK
<1>3. \A o \in Offer, e \in File :
         Alive(o) /\ sources[o][e].state = "active" => e \notin writers' /\ disk'[e] = disk[e]
      BY <1>1 DEF HandleOpen, Inv, ServedOK
<1>4. QED
      BY <1>1, <1>2, <1>3, FilesStep

DiskBecomes(f, d) == disk' = [disk EXCEPT ![f] = d]

LEMMA DiskStep ==
    ASSUME Inv, NEW f \in File, NEW d \in DiskRecord, DiskBecomes(f, d),
           UNCHANGED <<writers, clip, pc, work, current, lease, offers, sources, threads>>,
           \A o \in Offer : ~(Alive(o) /\ sources[o][f].state = "active")
    PROVE  Inv'
<1>1. DiskOK' /\ \A e \in File \ {f} : disk'[e] = disk[e]
      BY DEF Inv, DiskOK, DiskBecomes
<1>2. \A o \in Offer, e \in File :
         Alive(o) /\ sources[o][e].state = "active" => e \notin writers' /\ disk'[e] = disk[e]
      BY <1>1 DEF Inv, ServedOK
<1>3. QED
      BY <1>1, <1>2, FilesStep

LEMMA WritesKeep ==
    ASSUME Inv, NEW f \in File, WriteFile(f) \/ Replace(f) PROVE Inv'
<1>1. UNCHANGED <<writers, clip, pc, work, current, lease, offers, sources, threads>>
      BY DEF WriteFile, Replace, clipVars, sessionVars
<1>2. disk \in [File -> DiskRecord] /\ disk[f] \in DiskRecord
      BY DEF Inv, DiskOK
<1>3. disk[f].version + 1 \in Nat /\ disk[f].id + 1 \in Nat
      BY <1>2 DEF DiskRecord
<1>4. CASE WriteFile(f)
  <2>1. PICK size \in 1 .. MaxSize :
           disk' = [disk EXCEPT ![f].version = @ + 1, ![f].size = size]
        BY <1>4 DEF WriteFile
  <2> DEFINE d == [[disk[f] EXCEPT !.version = disk[f].version + 1] EXCEPT !.size = size]
  <2>2. d \in DiskRecord
        BY <1>2, <1>3 DEF DiskRecord
  <2>3. DiskBecomes(f, d)
        BY <1>2, <2>1 DEF DiskBecomes
  <2>4. \A o \in Offer : ~(Alive(o) /\ sources[o][f].state = "active")
        BY <1>4 DEF WriteFile, Inv, ServedOK
  <2> HIDE DEF d
  <2>5. QED
        BY <1>1, <2>2, <2>3, <2>4, DiskStep
<1>5. CASE Replace(f)
  <2> DEFINE d == [[disk[f] EXCEPT !.version = disk[f].version + 1] EXCEPT !.id = disk[f].id + 1]
  <2>1. d \in DiskRecord
        BY <1>2, <1>3 DEF DiskRecord
  <2>2. DiskBecomes(f, d)
        BY <1>2, <1>5 DEF DiskBecomes, Replace
  <2>3. \A o \in Offer : ~(Alive(o) /\ sources[o][f].state = "active")
        BY <1>5 DEF Replace, HandleOpen
  <2> HIDE DEF d
  <2>4. QED
        BY <1>1, <2>1, <2>2, <2>3, DiskStep
<1>6. QED
      BY <1>4, <1>5

-----------------------------------------------------------------------------
(* The theorems. *)

LEMMA StepKeeps == Inv /\ [Next]_vars => Inv'
<1> SUFFICES ASSUME Inv, [Next]_vars PROVE Inv'
    OBVIOUS
<1>1. CASE Session
      BY <1>1, TakeUpdateKeeps, CaptureClipboardKeeps, PublishFailsKeeps, PublishSucceedsKeeps,
         RegisterKeeps, CheckRegistrationKeeps, QuitKeeps DEF Session, Publish
<1>2. CASE Applications
      BY <1>2, CopyElsewhereKeeps, OpenForWritingKeeps, WritesKeep DEF Applications
<1>3. ASSUME NEW t \in Thread, Explorer(t) PROVE Inv'
      BY <1>3, FirstUseKeeps, OpenFileKeeps, ReadUnitKeeps, ReleaseKeeps, GetDataKeeps DEF Explorer
<1>4. ASSUME NEW o \in Offer, Expire(o) PROVE Inv'
      BY <1>4, ExpireKeeps
<1>5. CASE UNCHANGED vars
  <2>1. UNCHANGED <<disk, writers, clip, pc, work, current, lease, offers, sources, threads>>
        BY <1>5 DEF vars, diskVars, clipVars, sessionVars
  <2>2. DiskOK'
        BY <2>1 DEF Inv, DiskOK
  <2>3. \A o \in Offer, f \in File :
           Alive(o) /\ sources[o][f].state = "active" => f \notin writers' /\ disk'[f] = disk[f]
        BY <2>1 DEF Inv, ServedOK
  <2>4. QED
        BY <2>1, <2>2, <2>3, FilesStep
<1>6. QED
      BY <1>1, <1>2, <1>3, <1>4, <1>5 DEF Next

LEMMA InvHolds == Spec => []Inv
  BY Initially, StepKeeps, PTL DEF Spec

LEMMA SingleVersion == Inv => OneVersionPerSource
<1> SUFFICES ASSUME Inv, NEW o \in Offer, NEW f \in offers[o].files
             PROVE  /\ Cardinality(sources[o][f].served) <= 1
                    /\ Alive(o) /\ sources[o][f].state = "active" => Matches(o, f)
    BY DEF OneVersionPerSource
<1> DEFINE S == sources[o][f].served
<1>1. f \in File
      BY DEF Inv, OffersOK, OfferRecord
<1>2. Alive(o) /\ sources[o][f].state = "active" => Matches(o, f)
      BY <1>1 DEF Inv, ServedOK
<1>3. \A v, w \in S : v = w
      BY <1>1 DEF Inv, ServedOK
<1> HIDE DEF S
<1>4. Cardinality(S) <= 1
  <2>1. CASE S = {}
        BY <2>1, FS_EmptySet
  <2>2. CASE S # {}
    <3>1. PICK v : v \in S
          BY <2>2
    <3>2. S = {v}
          BY <1>3, <3>1
    <3>3. Cardinality({v}) = 1
          BY FS_Singleton
    <3>4. QED
          BY <3>2, <3>3
  <2>3. QED
        BY <2>1, <2>2
<1>5. QED
      BY <1>2, <1>4 DEF S

\* The types, and a stream's position within the size that was announced.
THEOREM CaptureIsTyped == Spec => []TypeOK
<1>1. Inv => TypeOK
  <2> SUFFICES ASSUME Inv PROVE TypeOK
      OBVIOUS
  <2>1. clip.kind \in {"other", "private", "files", "ours"} /\ clip.offer \in Offer \cup {0}
        BY DEF Inv, ClipOK, ClipRecord
  <2>2. /\ pc \in {"loop", "capture", "publish", "register", "registered", "clear", "stopped"}
        /\ {current, lease} \subseteq Offer \cup {0}
        BY DEF Inv, SessionOK
  <2>3. \A o \in Offer : DOMAIN offers[o].snap = offers[o].files
        BY DEF Inv, OffersOK
  <2>4. \A o \in Offer, f \in File : sources[o][f].state \in {"unstarted", "active", "failed"}
        BY DEF Inv, SourcesOK, SourceRecord
  <2>5. ASSUME NEW t \in Thread
        PROVE  threads[t].pc \in {"idle", "read", "open"} /\ threads[t].pos <= MaxSize
    <3>1. threads[t] \in ThreadRecord
          BY DEF Inv, ThreadsOK
    <3>2. QED
          BY <3>1, CaptureAssumption DEF ThreadRecord
  <2>6. QED
        BY <2>1, <2>2, <2>3, <2>4, <2>5 DEF TypeOK
<1>2. QED
      BY <1>1, InvHolds, PTL

\* All streams of one source deliver one version of the file, and as long as a
\* handle is open the file is the one whose size was announced.
THEOREM DeliversOneVersion == Spec => []OneVersionPerSource
  BY SingleVersion, InvHolds, PTL

\* What Explorer finds on the clipboard from the session is the offer the
\* session holds or is about to hold, which is not revoked, or one that was read
\* before its registration was checked.
THEOREM OfferedIsPasteable == Spec => []OfferedObjectIsPasteable
<1>1. Inv => OfferedObjectIsPasteable
      BY DEF Inv, PasteOK
<1>2. QED
      BY <1>1, InvHolds, PTL

-----------------------------------------------------------------------------
(* The object that is pasted. *)

\* What an enumerator may tell of.
Told == [format : Object!Format \cup {"skipped"}, index : Int, media : SUBSET Object!Medium]

EnumeratorRecord == [open : BOOLEAN, position : Nat, given : Seq(Told)]

\* An enumerator has given or skipped all formats before its position.
GivenAll(x) ==
    /\ x.position <= Len(Object!Enumerated) /\ Len(x.given) = x.position
    /\ \A i \in 1 .. x.position : x.given[i] \in {Object!Enumerated[i], Object!Skipped}

\* A stream is the file that was asked for, as long as announced.
Opened ==
    \A stream \in opened :
        /\ stream.of = stream.asked
        /\ stream.asked + 1 \in DOMAIN entries /\ entries[stream.asked + 1].source = "right"

ObjectInv ==
    /\ entries \in Seq(Object!Entry) /\ Object!ValidEntries(entries)
    /\ enumerators \in [Object!Enumerator -> EnumeratorRecord]
    /\ \A e \in Object!Enumerator : GivenAll(enumerators[e])
    /\ Opened

\* The file that stands for all is a file.
LEMMA FirstContentsIsAFile ==
    ASSUME entries \in Seq(Object!Entry)
    PROVE  Object!FirstContents \in Int /\ (Object!FirstContents < 0 \/ Object!HasContents(Object!FirstContents))
<1> DEFINE files == {i \in 1 .. Len(entries) : entries[i].source # "none"}
<1>1. Len(entries) \in Nat /\ DOMAIN entries = 1 .. Len(entries)
      OBVIOUS
<1>2. CASE files = {}
  <2>1. Object!FirstContents = 0 - 1
        BY <1>2 DEF Object!FirstContents, Object!SelectInSeq
  <2>2. QED
        BY <2>1
<1>3. CASE files # {}
  <2> DEFINE less == {p \in Nat \X Nat : p[1] < p[2]}
  <2>1. PICK m \in files : \A r \in files : ~(<<r, m>> \in less)
    <3>1. files \subseteq Nat
          BY <1>1
    <3>2. IsWellFoundedOn(less, Nat)
          BY NatLessThanWellFounded DEF OpToRel
    <3>3. QED
          BY <1>3, <3>1, <3>2, WFMin
  <2>2. \A r \in files : m <= r
    <3> SUFFICES ASSUME NEW r \in files PROVE m <= r
        OBVIOUS
    <3>1. <<r, m>> \in Nat \X Nat /\ r \in Nat /\ m \in Nat
          BY <1>1
    <3>2. ~(<<r, m>>[1] < <<r, m>>[2])
          BY <2>1, <3>1
    <3>3. QED
          BY <3>1, <3>2
  <2> DEFINE first == CHOOSE x \in files : \A y \in files : x <= y
  <2>3. Object!FirstContents = first - 1
        BY <1>3 DEF Object!FirstContents, Object!SelectInSeq, Object!Min
  <2>4. first \in files
        BY <2>2
  <2> HIDE DEF first
  <2>5. first \in 1 .. Len(entries) /\ entries[first].source # "none" /\ first - 1 + 1 = first
        BY <1>1, <2>4
  <2>6. QED
        BY <1>1, <2>3, <2>5 DEF Object!HasContents
<1>4. QED
      BY <1>2, <1>3

\* An offer enumerates its formats, and the contents only if it has a file.
LEMMA EnumeratedFormats ==
    ASSUME entries \in Seq(Object!Entry)
    PROVE  /\ Object!Enumerated \in Seq(Told)
           /\ \A i \in DOMAIN Object!Enumerated : LET r == Object!Enumerated[i] IN
                 \/ r.format \in {"descriptor", "effect", "origin"} /\ r.index = -1 /\ r.media = {"hglobal"}
                 \/ /\ r.format = "contents" /\ r.index = Object!FirstContents /\ r.media = {"istream"}
                    /\ Object!HasContents(Object!FirstContents)
<1> DEFINE Ordinary == {Object!Ask("descriptor", -1, "hglobal"), Object!Ask("effect", -1, "hglobal"),
                     Object!Ask("origin", -1, "hglobal")}
           file  == Object!Ask("contents", Object!FirstContents, "istream")
           All   == IF Object!FirstContents < 0 THEN Ordinary ELSE Ordinary \cup {file}
<1>1. Object!FirstContents \in Int /\ (Object!FirstContents < 0 \/ Object!HasContents(Object!FirstContents))
      BY FirstContentsIsAFile
<1>2. All \subseteq Told
      BY <1>1 DEF Object!Ask, Told, Object!Format, Object!Medium
<1>3. Object!Enumerated \in Seq(All)
  <2>1. CASE Object!FirstContents < 0
        BY <2>1 DEF Object!Enumerated
  <2>2. CASE ~(Object!FirstContents < 0)
        BY <2>2 DEF Object!Enumerated
  <2>3. QED
        BY <2>1, <2>2
<1>4. ASSUME NEW r \in All
      PROVE  \/ r.format \in {"descriptor", "effect", "origin"} /\ r.index = -1 /\ r.media = {"hglobal"}
             \/ /\ r.format = "contents" /\ r.index = Object!FirstContents /\ r.media = {"istream"}
                /\ Object!HasContents(Object!FirstContents)
      BY <1>1, <1>4 DEF Object!Ask
<1> HIDE DEF All
<1>5. \A i \in DOMAIN Object!Enumerated : Object!Enumerated[i] \in All
      BY <1>3
<1>6. Object!Enumerated \in Seq(Told)
      BY <1>2, <1>3
<1>7. QED
      BY <1>4, <1>5, <1>6

\* An enumerator at the start, and one that passes over formats that it gives or skips.
LEMMA Placed ==
    ASSUME ObjectInv
    PROVE  /\ Object!At(0, <<>>) \in EnumeratorRecord /\ GivenAll(Object!At(0, <<>>))
           /\ Object!NoEnumerator \in EnumeratorRecord /\ GivenAll(Object!NoEnumerator)
<1>1. Len(Object!Enumerated) \in Nat
      BY EnumeratedFormats DEF ObjectInv
<1>2. <<>> \in Seq(Told) /\ Len(<<>>) = 0 /\ 1 .. 0 = {}
      OBVIOUS
<1>3. Object!At(0, <<>>) \in EnumeratorRecord /\ Object!NoEnumerator \in EnumeratorRecord
      BY <1>2 DEF Object!At, Object!NoEnumerator, EnumeratorRecord
<1>4. GivenAll(Object!At(0, <<>>))
      BY <1>1, <1>2 DEF Object!At, GivenAll
<1>5. GivenAll(Object!NoEnumerator)
      BY <1>1, <1>2 DEF Object!NoEnumerator, GivenAll
<1>6. QED
      BY <1>3, <1>4, <1>5

LEMMA Passed ==
    ASSUME ObjectInv, NEW x \in EnumeratorRecord, GivenAll(x),
           NEW n \in 0 .. Len(Object!Enumerated) - x.position,
           NEW passed \in [1 .. n -> Told],
           \A i \in 1 .. n : passed[i] \in {Object!Enumerated[x.position + i], Object!Skipped}
    PROVE  LET y == Object!At(x.position + n, x.given \o passed)
           IN  y \in EnumeratorRecord /\ GivenAll(y)
<1> DEFINE all == Object!Enumerated
           given == x.given \o passed
           y == Object!At(x.position + n, given)
<1>1. Len(all) \in Nat
      BY EnumeratedFormats DEF ObjectInv
<1>2. /\ x.position \in Nat /\ x.given \in Seq(Told) /\ Len(x.given) = x.position
      /\ \A i \in 1 .. x.position : x.given[i] \in {all[i], Object!Skipped}
      BY DEF EnumeratorRecord, GivenAll
<1>3. \A i \in 1 .. n : passed[i] \in {all[x.position + i], Object!Skipped}
      OBVIOUS
<1> HIDE DEF all
<1>4. n \in Nat /\ x.position + n <= Len(all) /\ x.position + n \in Nat
      BY <1>1, <1>2 DEF all
<1>5. passed \in Seq(Told) /\ Len(passed) = n
      BY <1>4
<1>6. /\ given \in Seq(Told) /\ Len(given) = x.position + n
      /\ \A i \in 1 .. Len(x.given) + Len(passed) :
            given[i] = IF i <= Len(x.given) THEN x.given[i] ELSE passed[i - Len(x.given)]
  <2>1. x.given \in Seq(Told)
        BY <1>2
  <2>2. /\ given \in Seq(Told) /\ Len(given) = Len(x.given) + Len(passed)
        /\ \A i \in 1 .. Len(x.given) + Len(passed) :
              given[i] = IF i <= Len(x.given) THEN x.given[i] ELSE passed[i - Len(x.given)]
        BY <1>5, <2>1, ConcatProperties, Zenon
  <2>3. QED
        BY <1>2, <1>5, <2>2
<1>7. ASSUME NEW i \in 1 .. x.position + n PROVE given[i] \in {all[i], Object!Skipped}
  <2> HIDE DEF given
  <2>0. Len(x.given) = x.position /\ Len(passed) = n /\ i \in Nat /\ x.position \in Nat
        BY <1>2, <1>4, <1>5
  <2>1. given[i] = IF i <= x.position THEN x.given[i] ELSE passed[i - x.position]
        BY <1>6, <2>0
  <2>2. CASE i <= x.position
    <3>1. i \in 1 .. x.position
          BY <2>0, <2>2
    <3>2. QED
          BY <1>2, <2>1, <2>2, <3>1
  <2>3. CASE ~(i <= x.position)
    <3>1. i - x.position \in 1 .. n /\ x.position + (i - x.position) = i
          BY <1>4, <2>0, <2>3
    <3>2. QED
          BY <1>3, <2>1, <2>3, <3>1
  <2>4. QED
        BY <2>2, <2>3
<1> HIDE DEF given
<1>8. y \in EnumeratorRecord /\ y.position = x.position + n /\ y.given = given
      BY <1>4, <1>6 DEF Object!At, EnumeratorRecord
<1>9. y \in EnumeratorRecord /\ GivenAll(y)
      BY <1>4, <1>6, <1>7, <1>8 DEF GivenAll, all
<1>10. QED
       BY <1>9 DEF given

\* A call on an enumerator.
LEMMA EnumeratorCall ==
    ASSUME ObjectInv, NEW e \in Object!Enumerator, NEW record \in EnumeratorRecord, GivenAll(record),
           Object!EnumeratorBecomes(e, record)
    PROVE  ObjectInv'
<1>1. entries' = entries /\ opened' = opened /\ enumerators' = [enumerators EXCEPT ![e] = record]
      BY DEF Object!EnumeratorBecomes
<1>2. Object!Enumerated' = Object!Enumerated
      BY <1>1 DEF Object!Enumerated, Object!FirstContents, Object!SelectInSeq
<1>3. enumerators' \in [Object!Enumerator -> EnumeratorRecord]
      BY <1>1 DEF ObjectInv
<1>4. ASSUME NEW d \in Object!Enumerator PROVE GivenAll(enumerators[d])'
  <2>1. CASE d = e
        BY <1>1, <1>2, <2>1 DEF ObjectInv, GivenAll
  <2>2. CASE d # e
        BY <1>1, <1>2, <2>2 DEF ObjectInv, GivenAll
  <2>3. QED
        BY <2>1, <2>2
<1>5. QED
      BY <1>1, <1>3, <1>4 DEF ObjectInv, Opened

LEMMA AvailableFormats ==
    ASSUME ObjectInv, NEW e \in Object!Enumerator, NEW n \in Nat
    PROVE  Object!Available(e, n) \in 0 .. Len(Object!Enumerated) - enumerators[e].position
<1>1. Len(Object!Enumerated) \in Nat
      BY EnumeratedFormats DEF ObjectInv
<1>2. enumerators[e].position \in Nat /\ enumerators[e].position <= Len(Object!Enumerated)
      BY DEF ObjectInv, EnumeratorRecord, GivenAll
<1>3. QED
      BY <1>1, <1>2 DEF Object!Available

LEMMA ObjectStepInv ==
    ASSUME Object!ObjectAssumption, ObjectInv, [Object!Next]_(Object!vars)
    PROVE  ObjectInv'
<1>0. Len(Object!Enumerated) \in Nat
      BY EnumeratedFormats DEF ObjectInv
<1>1. \A e \in Object!Enumerator : enumerators[e] \in EnumeratorRecord /\ GivenAll(enumerators[e])
      BY DEF ObjectInv
<1>2. ASSUME NEW e \in Object!Enumerator, Object!EnumFormatEtc(e) \/ Object!Reset(e) PROVE ObjectInv'
      BY <1>2, Placed, EnumeratorCall DEF Object!EnumFormatEtc, Object!Reset
<1>3. ASSUME NEW e \in Object!Enumerator, Object!Release(e) PROVE ObjectInv'
      BY <1>3, Placed, EnumeratorCall DEF Object!Release
<1>4. ASSUME NEW e \in Object!Enumerator, NEW n \in 0 .. MaxFetch, Object!Fetch(e, n) PROVE ObjectInv'
  <2> DEFINE x == enumerators[e]
             k == Object!Available(e, n)
             passed == [i \in 1 .. k |-> Object!Enumerated[x.position + i]]
  <2>1. n \in Nat
        BY DEF Object!ObjectAssumption
  <2>2. k \in 0 .. Len(Object!Enumerated) - x.position
        BY <2>1, AvailableFormats
  <2>3. Object!EnumeratorBecomes(e, Object!At(x.position + k, x.given \o passed))
        BY <1>4 DEF Object!Fetch
  <2>4. x \in EnumeratorRecord /\ GivenAll(x) /\ x.position \in Nat
        BY <1>1 DEF EnumeratorRecord
  <2> HIDE DEF k, x
  <2>5. Object!Enumerated \in Seq(Told)
        BY EnumeratedFormats DEF ObjectInv
  <2>6. \A i \in 1 .. k : x.position + i \in 1 .. Len(Object!Enumerated)
        BY <1>0, <2>2, <2>4
  <2>7. passed \in [1 .. k -> Told]
        BY <2>5, <2>6
  <2>8. \A i \in 1 .. k : passed[i] \in {Object!Enumerated[x.position + i], Object!Skipped}
        OBVIOUS
  <2> HIDE DEF passed
  <2>9. QED
        BY <2>2, <2>3, <2>4, <2>7, <2>8, Passed, EnumeratorCall
<1>5. ASSUME NEW e \in Object!Enumerator, NEW n \in 0 .. MaxFetch, Object!Skip(e, n) PROVE ObjectInv'
  <2> DEFINE x == enumerators[e]
             k == Object!Available(e, n)
             passed == [i \in 1 .. k |-> Object!Skipped]
  <2>1. n \in Nat
        BY DEF Object!ObjectAssumption
  <2>2. k \in 0 .. Len(Object!Enumerated) - x.position
        BY <2>1, AvailableFormats
  <2>3. Object!EnumeratorBecomes(e, Object!At(x.position + k, x.given \o passed))
        BY <1>5 DEF Object!Skip
  <2>4. x \in EnumeratorRecord /\ GivenAll(x)
        BY <1>1
  <2>5. Object!Skipped \in Told
        BY DEF Object!Skipped, Told
  <2> HIDE DEF k, x
  <2>6. passed \in [1 .. k -> Told] /\ \A i \in 1 .. k : passed[i] = Object!Skipped
        BY <2>5
  <2> HIDE DEF passed
  <2>7. QED
        BY <2>2, <2>3, <2>4, <2>6, Passed, EnumeratorCall
<1>6. ASSUME NEW e \in Object!Enumerator, NEW clone \in Object!Enumerator, Object!Clone(e, clone)
      PROVE  ObjectInv'
  <2> DEFINE x == Object!At(enumerators[e].position, enumerators[e].given)
  <2>1. Object!EnumeratorBecomes(clone, x)
        BY <1>6 DEF Object!Clone
  <2>2. x \in EnumeratorRecord /\ x.position = enumerators[e].position /\ x.given = enumerators[e].given
        BY <1>1 DEF Object!At, EnumeratorRecord
  <2>3. GivenAll(x)
        BY <1>1, <2>2 DEF GivenAll
  <2> HIDE DEF x
  <2>4. QED
        BY <2>1, <2>2, <2>3, EnumeratorCall
<1>7. ASSUME UNCHANGED <<entries, enumerators>>, Opened' PROVE ObjectInv'
  <2>1. Object!Enumerated' = Object!Enumerated
        BY <1>7 DEF Object!Enumerated, Object!FirstContents, Object!SelectInSeq
  <2>2. QED
        BY <1>7, <2>1 DEF ObjectInv, GivenAll
<1>8. ASSUME NEW r \in Object!Request, Object!GetData(r) PROVE ObjectInv'
  <2>1. UNCHANGED <<entries, enumerators>>
        BY <1>8 DEF Object!GetData
  <2>2. \/ opened' = opened
        \/ /\ Object!MediumFor(r).kind = "stream"
           /\ opened' = opened \cup {[asked |-> r.index, of |-> Object!MediumFor(r).of]}
        BY <1>8 DEF Object!GetData
  <2>3. ASSUME Object!MediumFor(r).kind = "stream"
        PROVE  /\ Object!MediumFor(r).of = r.index
               /\ r.index + 1 \in DOMAIN entries /\ entries[r.index + 1].source = "right"
    <3>1. r.format = "contents" /\ entries[r.index + 1].source = "right"
          BY <2>3 DEF Object!MediumFor
    <3>2. Object!HasContents(r.index)
          BY <1>8, <3>1 DEF Object!GetData, Object!Validate
    <3>3. Object!MediumFor(r).of = r.index
          BY <3>1 DEF Object!MediumFor
    <3>4. QED
          BY <3>1, <3>2, <3>3 DEF Object!HasContents
  <2>4. Opened'
        BY <2>1, <2>2, <2>3 DEF ObjectInv, Opened
  <2>5. QED
        BY <1>7, <2>1, <2>4
<1>9. ASSUME UNCHANGED <<entries, enumerators, opened>> PROVE ObjectInv'
  <2>1. Opened'
        BY <1>9 DEF ObjectInv, Opened
  <2>2. QED
        BY <1>7, <1>9, <2>1
<1>10. ASSUME NEW r \in Object!Request, NEW release \in BOOLEAN, Object!SetData(r, release) PROVE ObjectInv'
      BY <1>9, <1>10 DEF Object!SetData
<1>11. ASSUME NEW m \in BOOLEAN, Object!SetAsyncMode(m) PROVE ObjectInv'
      BY <1>9, <1>11 DEF Object!SetAsyncMode
<1>12. CASE Object!StartOperation \/ Object!EndOperation \/ UNCHANGED Object!vars
      BY <1>9, <1>12 DEF Object!StartOperation, Object!EndOperation, Object!vars
<1>13. CASE \E e \in Object!Enumerator :
               \/ Object!EnumFormatEtc(e) \/ Object!Reset(e) \/ Object!Release(e)
               \/ \E n \in 0 .. MaxFetch : Object!Fetch(e, n) \/ Object!Skip(e, n)
               \/ \E clone \in Object!Enumerator : Object!Clone(e, clone)
      BY <1>2, <1>3, <1>4, <1>5, <1>6, <1>13
<1>14. QED
      BY <1>8, <1>10, <1>11, <1>12, <1>13 DEF Object!Next

\* Whatever a consumer enumerates, clones and asks, of an offer of any number of
\* entries: what the run of the probes checks of two.
THEOREM ConsumersSeeTheOffer ==
    ASSUME Object!ObjectAssumption
    PROVE  Object!Init /\ [][Object!Next]_(Object!vars) => []PasteSeesTheOffer
<1>1. Object!Init => ObjectInv
  <2> SUFFICES ASSUME Object!Init PROVE ObjectInv
      OBVIOUS
  <2>1. entries \in Seq(Object!Entry) /\ Object!ValidEntries(entries)
    <3>1. PICK n \in 1 .. MaxEntries : entries \in [1 .. n -> Object!Entry]
          BY DEF Object!Init
    <3>2. QED
          BY <3>1 DEF Object!Init, Object!ObjectAssumption
  <2>2. Len(Object!Enumerated) \in Nat
        BY <2>1, EnumeratedFormats
  <2>3. /\ Object!NoEnumerator \in EnumeratorRecord
        /\ Object!NoEnumerator.position = 0 /\ Object!NoEnumerator.given = <<>>
        BY DEF Object!NoEnumerator, EnumeratorRecord
  <2>4. Len(<<>>) = 0 /\ 1 .. 0 = {}
        OBVIOUS
  <2>5. GivenAll(Object!NoEnumerator)
        BY <2>2, <2>3, <2>4 DEF GivenAll
  <2>6. enumerators = [e \in Object!Enumerator |-> Object!NoEnumerator] /\ opened = {}
        BY DEF Object!Init
  <2>7. QED
        BY <2>1, <2>3, <2>5, <2>6 DEF ObjectInv, Opened
<1>2. ObjectInv /\ [Object!Next]_(Object!vars) => ObjectInv'
      BY ObjectStepInv
<1>3. ObjectInv => Object!PasteSeesTheOffer
  <2> SUFFICES ASSUME ObjectInv PROVE Object!PasteSeesTheOffer
      OBVIOUS
  <2>1. entries \in Seq(Object!Entry) /\ Object!ValidEntries(entries)
        BY DEF ObjectInv
  <2>2. ASSUME NEW i \in DOMAIN Object!Enumerated
        PROVE  LET r == Object!Enumerated[i] IN
               /\ Object!Validate(r) = "S_OK"
               /\ Object!MediumFor(r).kind = "error" => \E k \in DOMAIN entries : entries[k].source = "wrong"
    <3> DEFINE r == Object!Enumerated[i]
    <3>1. \/ r.format \in {"descriptor", "effect", "origin"} /\ r.index = -1 /\ r.media = {"hglobal"}
          \/ /\ r.format = "contents" /\ r.index = Object!FirstContents /\ r.media = {"istream"}
             /\ Object!HasContents(Object!FirstContents)
          BY <2>1, EnumeratedFormats
    <3> HIDE DEF r
    <3>2. CASE r.format \in {"descriptor", "effect", "origin"}
      <4>1. r.index = -1 /\ "hglobal" \in r.media
            BY <3>1, <3>2
      <4>2. Object!Validate(r) = "S_OK"
            BY <3>2, <4>1 DEF Object!Validate
      <4>3. Object!MediumFor(r).kind # "error"
            BY <3>2 DEF Object!MediumFor
      <4>4. QED
            BY <4>2, <4>3 DEF r
    <3>3. CASE r.format = "contents"
      <4>1. Object!HasContents(r.index) /\ "istream" \in r.media
            BY <3>1, <3>3
      <4>2. Object!Validate(r) = "S_OK"
            BY <3>3, <4>1 DEF Object!Validate
      <4>3. ASSUME Object!MediumFor(r).kind = "error" PROVE entries[r.index + 1].source # "right"
            BY <3>3, <4>3 DEF Object!MediumFor
      <4>4. r.index + 1 \in DOMAIN entries /\ entries[r.index + 1].source # "none"
            BY <4>1 DEF Object!HasContents
      <4>5. entries[r.index + 1].source \in {"none", "right", "wrong"}
        <5>1. entries[r.index + 1] \in Object!Entry
              BY <2>1, <4>4
        <5>2. QED
              BY <5>1 DEF Object!Entry
      <4>6. QED
            BY <4>2, <4>3, <4>4, <4>5 DEF r
    <3>4. QED
          BY <3>1, <3>2, <3>3
  <2>3. ASSUME NEW stream \in opened
        PROVE  /\ stream.of = stream.asked
               /\ ~entries[stream.asked + 1].dir /\ entries[stream.asked + 1].source = "right"
    <3>1. /\ stream.of = stream.asked
          /\ stream.asked + 1 \in DOMAIN entries /\ entries[stream.asked + 1].source = "right"
          BY DEF ObjectInv, Opened
    <3>2. QED
          BY <2>1, <3>1 DEF Object!ValidEntries
  <2>4. ASSUME NEW e \in Object!Enumerator
        PROVE  LET x == enumerators[e] IN
               /\ Len(x.given) = x.position /\ x.position <= Len(Object!Enumerated)
               /\ \A i \in DOMAIN x.given : x.given[i] \in {Object!Enumerated[i], Object!Skipped}
    <3>1. GivenAll(enumerators[e]) /\ enumerators[e] \in EnumeratorRecord
          BY DEF ObjectInv
    <3>2. DOMAIN enumerators[e].given = 1 .. Len(enumerators[e].given)
          BY <3>1 DEF EnumeratorRecord
    <3>3. QED
          BY <3>1, <3>2 DEF GivenAll
  <2>5. QED
        BY <2>2, <2>3, <2>4 DEF Object!PasteSeesTheOffer
<1>4. Object!PasteSeesTheOffer => PasteSeesTheOffer
  <2>1. Object!FirstContents = FirstContents
        BY DEF Object!FirstContents, FirstContents, Object!SelectInSeq, SelectInSeq, Object!Min, Min
  <2>2. \A f, i, m : Object!Ask(f, i, m) = Ask(f, i, m)
        BY DEF Object!Ask, Ask
  <2>3. Object!Enumerated = Enumerated
        BY <2>1, <2>2 DEF Object!Enumerated, Enumerated
  <2>4. \A i : Object!HasContents(i) <=> HasContents(i)
        BY DEF Object!HasContents, HasContents
  <2>5. \A r : Object!Validate(r) = Validate(r)
        BY <2>4 DEF Object!Validate, Validate
  <2>6. \A r : Object!MediumFor(r) = MediumFor(r)
        BY DEF Object!MediumFor, MediumFor
  <2>7. Object!Enumerator = Enumerator
        BY DEF Object!Enumerator, Enumerator
  <2>8. Object!Skipped = Skipped
        BY DEF Object!Skipped, Skipped
  <2>9. QED
        BY <2>3, <2>5, <2>6, <2>7, <2>8 DEF Object!PasteSeesTheOffer, PasteSeesTheOffer
<1>5. QED
      BY <1>1, <1>2, <1>3, <1>4, PTL

-----------------------------------------------------------------------------
(* The process of a probe. *)

\* What each probe knows of its transfer when it is about to release its object.
ProcessInv ==
    /\ mode \in Process!Mode
    /\ mode = "clipboard" => input = "none" /\ transfer = "Running"
    /\ mode = "pause" /\ (phase = "releasing" \/ input = "quit") => transfer = "Cancelled"
    /\ mode = "secure-receiver" /\ ~started => transfer = "Running"
    /\ mode = "secure-receiver" /\ input = "quit" => transfer # "Paused"

LEMMA ProcessStepInv == ProcessInv /\ [Process!Next]_(Process!vars) => ProcessInv'
<1> SUFFICES ASSUME ProcessInv, [Process!Next]_(Process!vars) PROVE ProcessInv'
    OBVIOUS
<1> USE DEF ProcessInv
<1>1. CASE UNCHANGED Process!vars
      BY <1>1 DEF Process!vars
<1>2. CASE Process!Register \/ Process!RegisterReceiver
      BY <1>2 DEF Process!Register, Process!RegisterReceiver, Process!Registered
<1>3. CASE Process!StartControl \/ Process!SetTimer \/ Process!TimerFires \/ Process!PostQuit
      BY <1>3 DEF Process!StartControl, Process!SetTimer, Process!GiveUp, Process!TimerFires,
                  Process!PostQuit
<1>4. CASE Process!MessageLoop \/ Process!RemoteMessageLoop
      BY <1>4 DEF Process!MessageLoop, Process!RemoteMessageLoop, Process!LoopReturns
<1>5. CASE Process!AfterLoop
      BY <1>5 DEF Process!AfterLoop, Process!ClipboardEnds, Process!PauseEnds, Process!LoopbackEnds,
                  Process!ReceiverEnds
<1>6. CASE Process!ReleaseObject
      BY <1>6 DEF Process!ReleaseObject
<1>7. CASE Process!Pause \/ Process!Resume \/ Process!Cancel
      BY <1>7 DEF Process!Pause, Process!Resume, Process!Cancel, Process!Controlled, Process!Reaches
<1>8. CASE Process!QuitPause \/ Process!QuitLoopback \/ Process!QuitReceiver
      BY <1>8 DEF Process!QuitPause, Process!QuitLoopback, Process!QuitReceiver, Process!QuitPosted
<1>9. CASE Process!Stop \/ Process!InputEnds
      BY <1>9 DEF Process!Stop, Process!InputEnds
<1>10. CASE \E c \in Caller : Process!BeginCall(c) \/ Process!BeginTransfer(c) \/ Process!EndCall(c)
       BY <1>10 DEF Process!BeginCall, Process!BeginTransfer, Process!EndCall
<1>11. QED
       BY <1>1, <1>2, <1>3, <1>4, <1>5, <1>6, <1>7, <1>8, <1>9, <1>10 DEF Process!Next

\* Of the processes that release their object, only a receiver that was not told to
\* quit and a pause probe that gave up before its loop can hang behind a reader that
\* waits for a user: one half of ProbesEndClean.
THEOREM ReleasesAreNotBlocked ==
    Process!Init /\ [][Process!Next]_(Process!vars) => []Process!ReleaseIsNotBlocked
<1>1. Process!Init => ProcessInv
      BY DEF Process!Init, Process!Mode, ProcessInv
<1>2. ProcessInv => Process!ReleaseIsNotBlocked
      BY DEF ProcessInv, Process!Mode, Process!ReleaseIsNotBlocked, Process!Hangs, Process!Releasing,
             Process!MayReturn
<1>3. QED
      BY <1>1, <1>2, ProcessStepInv, PTL

-----------------------------------------------------------------------------
(* The secure fetch. *)

FetchSteps == {"check", "manifest", "reading", "complete", "commit", "drop", "done", "failed", "left",
               "killed"}

\* What a partial file holds, by the step of its process.
PartialOK(p) ==
    /\ step[p] \in {"check", "manifest", "done", "failed"} => partial[p] = Fetcher!Absent
    /\ step[p] \in {"reading", "complete", "commit", "drop"} => partial[p] \in 0 .. Size
    /\ step[p] \in {"complete", "commit"} => partial[p] = Size
    /\ step[p] = "commit" => p \in acked

FetchInv ==
    /\ partial \in [Download -> 0 .. Fetcher!Absent] /\ step \in [Download -> FetchSteps]
    /\ output \in {Fetcher!NoFile, Fetcher!Foreign} \/ (output.of \in acked /\ output.bytes = Size)
    /\ \A p \in Download : PartialOK(p)

LEMMA FetchStepInv ==
    Fetcher!FetchAssumption /\ FetchInv /\ [Fetcher!Next]_(Fetcher!vars) => FetchInv'
<1> SUFFICES ASSUME Fetcher!FetchAssumption, FetchInv, [Fetcher!Next]_(Fetcher!vars) PROVE FetchInv'
    OBVIOUS
<1>0. Size \in Nat \ {0} /\ Fetcher!Absent = Size + 1
      BY DEF Fetcher!FetchAssumption, Fetcher!Absent
<1>1. ASSUME NEW p \in Download, NEW s \in FetchSteps, NEW n \in 0 .. Fetcher!Absent,
             step' = [step EXCEPT ![p] = s], partial' = [partial EXCEPT ![p] = n],
             acked' \in {acked, acked \cup {p}},
             PartialOK(p)',
             output' = output \/ (output'.of \in acked' /\ output'.bytes = Size)
      PROVE  FetchInv'
  <2>1. partial' \in [Download -> 0 .. Fetcher!Absent] /\ step' \in [Download -> FetchSteps]
        BY <1>1 DEF FetchInv
  <2>2. \A q \in Download \ {p} : step'[q] = step[q] /\ partial'[q] = partial[q]
        BY <1>1 DEF FetchInv
  <2>3. \A q \in Download : PartialOK(q)'
        BY <1>1, <2>2 DEF FetchInv, PartialOK
  <2>4. output' \in {Fetcher!NoFile, Fetcher!Foreign} \/ (output'.of \in acked' /\ output'.bytes = Size)
        BY <1>1 DEF FetchInv
  <2>5. QED
        BY <2>1, <2>3, <2>4 DEF FetchInv, Fetcher!NoFile, Fetcher!Foreign, Fetcher!Absent
<1>2. ASSUME UNCHANGED <<partial, step, acked>>,
             output' \in {output, Fetcher!NoFile, Fetcher!Foreign}
      PROVE  FetchInv'
      BY <1>2 DEF FetchInv, PartialOK, Fetcher!NoFile, Fetcher!Foreign, Fetcher!Absent
<1>3. ASSUME NEW p \in Download, Fetcher!Process(p) PROVE FetchInv'
  <2>0. /\ PartialOK(p) /\ step[p] \in FetchSteps /\ partial[p] \in 0 .. Fetcher!Absent
        /\ DOMAIN step = Download /\ DOMAIN partial = Download
        BY DEF FetchInv
  <2>1. ASSUME NEW s \in FetchSteps, Fetcher!Goto(p, s), UNCHANGED <<output, partial>>,
               acked' \in {acked, acked \cup {p}},
               s \in {"manifest", "failed"} => partial[p] = Fetcher!Absent,
               s = "complete" => partial[p] = Size,
               s = "commit" => partial[p] = Size /\ p \in acked',
               s = "drop" => partial[p] \in 0 .. Size,
               s \notin {"check", "reading", "done"}
        PROVE  FetchInv'
    <3>1. step' = [step EXCEPT ![p] = s] /\ partial' = [partial EXCEPT ![p] = partial[p]]
          BY <2>0, <2>1 DEF Fetcher!Goto, FetchInv
    <3>2. PartialOK(p)'
          BY <1>0, <2>0, <2>1, <3>1 DEF PartialOK, FetchSteps
    <3>3. QED
          BY <1>1, <2>0, <2>1, <3>1, <3>2
  <2>2. CASE Fetcher!CheckOutput(p)
        BY <2>0, <2>1, <2>2 DEF Fetcher!CheckOutput, PartialOK, FetchSteps
  <2>3. CASE Fetcher!CreatePartial(p)
    <3>1. /\ step' = [step EXCEPT ![p] = "reading"] /\ partial' = [partial EXCEPT ![p] = 0]
          /\ UNCHANGED <<output, acked>>
          BY <2>3 DEF Fetcher!CreatePartial, Fetcher!Goto
    <3>2. PartialOK(p)'
          BY <1>0, <2>0, <3>1 DEF PartialOK
    <3>3. 0 \in 0 .. Fetcher!Absent /\ "reading" \in FetchSteps
          BY <1>0 DEF FetchSteps
    <3>4. QED
          BY <1>1, <3>1, <3>2, <3>3
  <2>4. CASE Fetcher!ReadAndWrite(p)
    <3>1. PICK n \in 1 .. Size - partial[p] : partial' = [partial EXCEPT ![p] = partial[p] + n]
          BY <2>4 DEF Fetcher!ReadAndWrite
    <3>2. step[p] = "reading" /\ UNCHANGED <<output, step, acked>>
          BY <2>4 DEF Fetcher!ReadAndWrite
    <3>3. partial[p] + n \in 0 .. Size /\ partial[p] + n \in 0 .. Fetcher!Absent
          BY <1>0, <2>0, <3>1, <3>2 DEF PartialOK
    <3>4. step' = [step EXCEPT ![p] = "reading"]
          BY <2>0, <3>2 DEF FetchInv
    <3>5. PartialOK(p)'
          BY <2>0, <3>1, <3>2, <3>3 DEF PartialOK
    <3>6. QED
          BY <1>1, <3>1, <3>2, <3>3, <3>4, <3>5 DEF FetchSteps
  <2>5. CASE Fetcher!EndReading(p) \/ Fetcher!Complete(p) \/ Fetcher!Fail(p) \/ Fetcher!Kill(p)
    <3>1. CASE Fetcher!EndReading(p)
          BY <2>0, <2>1, <3>1 DEF Fetcher!EndReading, Fetcher!IsWhole, PartialOK, FetchSteps
    <3>2. CASE Fetcher!Complete(p)
          BY <2>0, <2>1, <3>2 DEF Fetcher!Complete, PartialOK, FetchSteps
    <3>3. CASE Fetcher!Fail(p)
          BY <2>0, <2>1, <3>3 DEF Fetcher!Fail, PartialOK, FetchSteps
    <3>4. CASE Fetcher!Kill(p)
          BY <2>0, <2>1, <3>4 DEF Fetcher!Kill, PartialOK, FetchSteps
    <3>5. QED
          BY <2>5, <3>1, <3>2, <3>3, <3>4
  <2>6. CASE Fetcher!Commit(p)
    <3>1. /\ step' = [step EXCEPT ![p] = "done"] /\ partial' = [partial EXCEPT ![p] = Fetcher!Absent]
          /\ UNCHANGED acked
          BY <2>6 DEF Fetcher!Commit, Fetcher!Goto
    <3>2. output'.of \in acked' /\ output'.bytes = Size
          BY <2>0, <2>6 DEF Fetcher!Commit, PartialOK
    <3>3. PartialOK(p)'
          BY <2>0, <3>1 DEF PartialOK, Fetcher!Absent
    <3>4. Fetcher!Absent \in 0 .. Fetcher!Absent /\ "done" \in FetchSteps
          BY <1>0 DEF FetchSteps
    <3>5. QED
          BY <1>1, <3>1, <3>2, <3>3, <3>4
  <2>7. CASE Fetcher!DropPartial(p)
    <3>1. CASE UNCHANGED partial /\ Fetcher!Goto(p, "left")
          BY <2>0, <2>1, <2>7, <3>1 DEF Fetcher!DropPartial, PartialOK, FetchSteps
    <3>2. CASE partial' = [partial EXCEPT ![p] = Fetcher!Absent] /\ Fetcher!Goto(p, "failed")
      <4>1. step' = [step EXCEPT ![p] = "failed"] /\ UNCHANGED <<output, acked>>
            BY <2>7, <3>2 DEF Fetcher!DropPartial, Fetcher!Goto
      <4>2. PartialOK(p)'
            BY <2>0, <3>2, <4>1 DEF PartialOK, Fetcher!Absent
      <4>3. Fetcher!Absent \in 0 .. Fetcher!Absent /\ "failed" \in FetchSteps
            BY <1>0 DEF FetchSteps
      <4>4. QED
            BY <1>1, <3>2, <4>1, <4>2, <4>3
    <3>3. QED
          BY <2>7, <3>1, <3>2 DEF Fetcher!DropPartial
  <2>8. QED
        BY <1>3, <2>2, <2>3, <2>4, <2>5, <2>6, <2>7 DEF Fetcher!Process
<1>4. CASE UNCHANGED Fetcher!vars
      BY <1>2, <1>4 DEF Fetcher!vars
<1>5. CASE Fetcher!WriteOutput
      BY <1>2, <1>5 DEF Fetcher!WriteOutput
<1>6. QED
      BY <1>3, <1>4, <1>5 DEF Fetcher!Next

\* The output is another program's or whole, and a partial file stays only if its
\* process was killed or could not remove it: the other half of ProbesEndClean.
THEOREM OutputsAreWhole ==
    ASSUME Fetcher!FetchAssumption
    PROVE  Fetcher!Init /\ [][Fetcher!Next]_(Fetcher!vars) => []Fetcher!OutputIsWhole
<1>1. Fetcher!Init => FetchInv
      BY DEF Fetcher!FetchAssumption, Fetcher!Init, Fetcher!Absent, FetchInv, PartialOK, FetchSteps
<1>2. FetchInv /\ [Fetcher!Next]_(Fetcher!vars) => FetchInv'
      BY FetchStepInv
<1>3. FetchInv => Fetcher!OutputIsWhole
      BY DEF FetchInv, PartialOK, Fetcher!OutputIsWhole
<1>4. QED
      BY <1>1, <1>2, <1>3, PTL
-----------------------------------------------------------------------------
(* The loopback transfer. *)

Position == 0 .. MaxPosition

StreamRecord  == [open : BOOLEAN, position : Position, origin : Position, given : Seq(Nat)]
ReaderRecord  == [pc : {"idle", "loop", "sent"}, stream : Loop!Stream, want : Nat,
                  bytes : Seq(Nat), request : Loop!Request \cup {0}]
RequestRecord == [pc : {"none", "backlog"} \cup Loop!Working \cup Loop!Answer \cup {"over"},
                  offset : Nat, length : Nat]

LEMMA AskedRange ==
    ASSUME NEW wanted \in Nat, NEW offset, Length - offset \in Nat, MaxRange \in Nat
    PROVE  Loop!AskFor(offset, wanted) \in Nat /\ Loop!AskFor(offset, wanted) <= Length - offset
<1> DEFINE rest == Length - offset
           S == {wanted, MaxRange, rest}
           m == Loop!AskFor(offset, wanted)
<1>1. rest \in Nat
      OBVIOUS
<1>2. m = CHOOSE x \in S : \A y \in S : x <= y
      BY DEF Loop!AskFor, Loop!Min
<1> HIDE DEF m, rest
<1>3. \E x \in S : \A y \in S : x <= y
      BY <1>1
<1>4. m \in S /\ \A y \in S : m <= y
      BY <1>2, <1>3
<1>5. m \in Nat /\ m <= rest
      BY <1>1, <1>4
<1>6. QED
      BY <1>5 DEF m, rest

Streams  == streams \in [Loop!Stream -> StreamRecord]
Readers  == readers \in [Reader -> ReaderRecord]
Requests == requests \in [Loop!Request -> RequestRecord]

\* A stream is read by one reader at a time, and it exists.
ReadersOK ==
    \A r \in Reader : readers[r].pc # "idle" =>
        /\ streams[readers[r].stream].open
        /\ \A q \in Reader \ {r} :
              readers[q].pc # "idle" => readers[q].stream # readers[r].stream

\* What a reader has are the bytes from the position of its stream on, what it
\* waits for are the next ones, and both lie within the file.
RangeOK(g, held) ==
    LET p == streams[g.stream].position  n == Len(g.bytes) IN
    g.pc # "idle" =>
        /\ \A i \in DOMAIN g.bytes : g.bytes[i] = p + i - 1
        /\ n > 0 => p + n <= Length
        /\ g.pc = "sent" =>
              /\ g.request \in Loop!Request
              /\ held[g.request].pc # "none"
              /\ p + n + held[g.request].length <= Length
              /\ held[g.request].length > 0 => held[g.request].offset = p + n

RangesOK == \A r \in Reader : RangeOK(readers[r], requests)

WorkersOK == Cardinality(Loop!Workers) <= MaxWorkers

LoopInv ==
    /\ control \in {"Running", "Paused", "Cancelled"}
    /\ Streams /\ Readers /\ Requests
    /\ ReadersOK /\ RangesOK /\ ReadsAreContiguous /\ WorkersOK

-----------------------------------------------------------------------------

LEMMA FiniteRequests ==
    ASSUME Loop!LoopbackAssumption
    PROVE  IsFiniteSet(Loop!Request) /\ IsFiniteSet(Loop!Workers)
<1>1. IsFiniteSet(Loop!Request)
  <2>1. 1 \in Int /\ MaxRequests \in Int
        BY DEF Loop!LoopbackAssumption
  <2>2. IsFiniteSet(1 .. MaxRequests)
        BY <2>1, FS_Interval
  <2>3. QED
        BY <2>2 DEF Loop!Request
<1>2. Loop!Workers \subseteq Loop!Request
      BY DEF Loop!Workers
<1>3. QED
      BY <1>1, <1>2, FS_Subset

LEMMA LoopInitially == Loop!LoopbackAssumption /\ Loop!Init => LoopInv
<1> SUFFICES ASSUME Loop!LoopbackAssumption, Loop!Init PROVE LoopInv
    OBVIOUS
<1>1. /\ control = "Running"
      /\ \A s \in Loop!Stream : streams[s] = [Loop!NoStream EXCEPT !.open = s = 1]
      /\ \A r \in Reader : readers[r] = Loop!IdleReader
      /\ \A q \in Loop!Request : requests[q] = Loop!NoRequest
      BY DEF Loop!Init
<1>2. Loop!IdleReader \in ReaderRecord /\ Loop!NoRequest \in RequestRecord
      BY DEF Loop!IdleReader, ReaderRecord, Loop!NoRequest, RequestRecord, Loop!Stream
<1>3. Readers /\ Requests
      BY <1>2 DEF Loop!Init, Readers, Requests
<1>4. Loop!NoStream \in StreamRecord
  <2>1. <<>> \in Seq(Nat) /\ 0 \in Position
        BY DEF Position, Loop!LoopbackAssumption
  <2>2. QED
        BY <2>1 DEF Loop!NoStream, StreamRecord
<1>5. ASSUME NEW s \in Loop!Stream
      PROVE  /\ streams[s] \in StreamRecord
             /\ streams[s].position = 0 /\ streams[s].origin = 0 /\ streams[s].given = <<>>
  <2> DEFINE b == s = 1
  <2>1. b \in BOOLEAN /\ streams[s] = [Loop!NoStream EXCEPT !.open = b]
        BY <1>1
  <2> HIDE DEF b
  <2>2. /\ [Loop!NoStream EXCEPT !.open = b] \in StreamRecord
        /\ [Loop!NoStream EXCEPT !.open = b].position = Loop!NoStream.position
        /\ [Loop!NoStream EXCEPT !.open = b].origin = Loop!NoStream.origin
        /\ [Loop!NoStream EXCEPT !.open = b].given = Loop!NoStream.given
        BY <1>4, <2>1 DEF StreamRecord
  <2>3. Loop!NoStream.position = 0 /\ Loop!NoStream.origin = 0 /\ Loop!NoStream.given = <<>>
        BY DEF Loop!NoStream
  <2>4. QED
        BY <2>1, <2>2, <2>3
<1>6. Streams
      BY <1>5 DEF Loop!Init, Streams
<1>7. ReadersOK /\ RangesOK
      BY <1>1 DEF ReadersOK, RangesOK, RangeOK, Loop!IdleReader
<1>8. ReadsAreContiguous
      BY <1>5 DEF ReadsAreContiguous, Stream, Loop!Stream
<1>9. WorkersOK
  <2>1. Loop!Workers = {}
        BY <1>1 DEF Loop!Workers, Loop!Working, Loop!Waiting, Loop!NoRequest
  <2>2. QED
        BY <2>1, FS_EmptySet DEF WorkersOK, Loop!LoopbackAssumption
<1>10. QED
       BY <1>1, <1>3, <1>6, <1>7, <1>8, <1>9 DEF LoopInv

-----------------------------------------------------------------------------
(* The requests. *)

\* A request that was made keeps its range or is over.
SameRange(q) ==
    requests[q].pc # "none" =>
        /\ requests'[q].pc # "none"
        /\ \/ requests'[q].length = 0
           \/ /\ requests'[q].length = requests[q].length
              /\ requests'[q].offset = requests[q].offset

\* A reader that waits for a request still has it to wait for.
LEMMA RangesStay ==
    ASSUME Loop!LoopbackAssumption, LoopInv, \A q \in Loop!Request : SameRange(q)
    PROVE  \A r \in Reader : RangeOK(readers[r], requests')
<1> SUFFICES ASSUME NEW r \in Reader, readers[r].pc # "idle" PROVE RangeOK(readers[r], requests')
    BY DEF RangeOK
<1> DEFINE g == readers[r]
           q == g.request
           x == streams[g.stream].position + Len(g.bytes)
<1>1. RangeOK(g, requests)
      BY DEF LoopInv, RangesOK
<1>2. CASE g.pc = "sent"
  <2>1. /\ q \in Loop!Request /\ requests[q].pc # "none"
        /\ x + requests[q].length <= Length
        /\ requests[q].length > 0 => requests[q].offset = x
        BY <1>1, <1>2 DEF RangeOK
  <2>2. /\ requests'[q].pc # "none"
        /\ \/ requests'[q].length = 0
           \/ requests'[q].length = requests[q].length /\ requests'[q].offset = requests[q].offset
        BY <2>1 DEF SameRange
  <2>3. x \in Nat /\ requests[q].length \in Nat /\ Length \in Nat
    <3>1. streams[g.stream] \in StreamRecord /\ g \in ReaderRecord
          BY DEF LoopInv, Streams, Readers, ReaderRecord
    <3>2. requests[q] \in RequestRecord
          BY <2>1 DEF LoopInv, Requests
    <3>3. Len(g.bytes) \in Nat
          BY <3>1 DEF ReaderRecord
    <3>4. streams[g.stream].position \in Nat
          BY <3>1 DEF StreamRecord, Position
    <3>5. requests[q].length \in Nat /\ Length \in Nat
          BY <3>2 DEF RequestRecord, Loop!LoopbackAssumption
    <3>6. QED
          BY <3>3, <3>4, <3>5
  <2>4. x + requests'[q].length <= Length
        BY <2>1, <2>2, <2>3
  <2>5. requests'[q].length > 0 => requests'[q].offset = x
        BY <2>1, <2>2
  <2>6. QED
        BY <1>1, <2>1, <2>2, <2>4, <2>5 DEF RangeOK
<1>3. CASE g.pc # "sent"
      BY <1>1, <1>3 DEF RangeOK
<1>4. QED
      BY <1>2, <1>3

\* The requests move without a reader.
LEMMA RequestsStep ==
    ASSUME Loop!LoopbackAssumption, LoopInv, UNCHANGED <<streams, readers>>,
           control' \in {"Running", "Paused", "Cancelled"},
           Requests', WorkersOK',
           \A q \in Loop!Request : SameRange(q)
    PROVE  LoopInv'
<1>1. Streams' /\ Readers' /\ ReadersOK' /\ ReadsAreContiguous'
      BY DEF LoopInv, Streams, Readers, ReadersOK, ReadsAreContiguous
<1>2. RangesOK'
  <2>1. \A r \in Reader : RangeOK(readers[r], requests')
        BY RangesStay
  <2>2. QED
        BY <2>1 DEF RangesOK, RangeOK
<1>3. QED
      BY <1>1, <1>2 DEF LoopInv

Moves(q, place) == requests' = [requests EXCEPT ![q].pc = place]

\* A request goes to another state.
LEMMA Move ==
    ASSUME Requests, NEW q \in Loop!Request,
           NEW place \in {"none", "backlog"} \cup Loop!Working \cup Loop!Answer \cup {"over"},
           Moves(q, place)
    PROVE  /\ Requests'
           /\ requests'[q].pc = place
           /\ requests'[q].length = requests[q].length /\ requests'[q].offset = requests[q].offset
           /\ \A p \in Loop!Request \ {q} : requests'[p] = requests[p]
<1> DEFINE g == [requests[q] EXCEPT !.pc = place]
<1>1. requests[q] \in RequestRecord
      BY DEF Requests
<1>2. /\ g \in RequestRecord /\ g.pc = place
      /\ g.length = requests[q].length /\ g.offset = requests[q].offset
      BY <1>1 DEF RequestRecord
<1>3. requests' = [requests EXCEPT ![q] = g]
      BY DEF Moves, Requests
<1> HIDE DEF g
<1>4. QED
      BY <1>2, <1>3 DEF Requests

\* Not more workers than before.
LEMMA FewerWorkers ==
    ASSUME Loop!LoopbackAssumption, WorkersOK, Loop!Workers' \subseteq Loop!Workers PROVE WorkersOK'
<1>1. IsFiniteSet(Loop!Workers)
      BY FiniteRequests
<1>2. IsFiniteSet(Loop!Workers') /\ Cardinality(Loop!Workers') <= Cardinality(Loop!Workers)
      BY <1>1, FS_Subset
<1>3. Cardinality(Loop!Workers) \in Nat /\ Cardinality(Loop!Workers') \in Nat
      BY <1>1, <1>2, FS_CardinalityType
<1>4. QED
      BY <1>2, <1>3 DEF WorkersOK, Loop!LoopbackAssumption

\* A connection that is answered or closed.
LEMMA AnswerKeeps ==
    ASSUME Loop!LoopbackAssumption, LoopInv, NEW q \in Loop!Request, NEW answer \in Loop!Answer,
           requests[q].pc \notin {"none"},
           requests' = Loop!Answered(q, answer), UNCHANGED <<control, streams, readers>>
    PROVE  LoopInv'
<1> DEFINE g == IF \E r \in Reader : readers[r].request = q
                THEN [requests[q] EXCEPT !.pc = answer] ELSE Loop!Over
<1>1. requests \in [Loop!Request -> RequestRecord] /\ requests[q] \in RequestRecord
      BY DEF LoopInv, Requests
<1>2. requests' = [requests EXCEPT ![q] = g]
      BY <1>1 DEF Loop!Answered
<1>3. Loop!Over \in RequestRecord /\ Loop!Over.pc = "over" /\ Loop!Over.length = 0
      BY DEF Loop!Over, Loop!NoRequest, RequestRecord
<1>4. /\ g \in RequestRecord /\ g.pc \in Loop!Answer \cup {"over"}
      /\ g.length = 0 \/ (g.length = requests[q].length /\ g.offset = requests[q].offset)
  <2>1. /\ [requests[q] EXCEPT !.pc = answer] \in RequestRecord
        /\ [requests[q] EXCEPT !.pc = answer].length = requests[q].length
        /\ [requests[q] EXCEPT !.pc = answer].offset = requests[q].offset
        /\ [requests[q] EXCEPT !.pc = answer].pc = answer
        BY <1>1 DEF RequestRecord
  <2>2. QED
        BY <1>3, <2>1
<1> HIDE DEF g
<1>5. Requests' /\ requests'[q] = g /\ \A p \in Loop!Request \ {q} : requests'[p] = requests[p]
      BY <1>1, <1>2, <1>4 DEF Requests
<1>6. g.pc # "none" /\ g.pc \notin Loop!Working
      BY <1>4 DEF Loop!Answer, Loop!Working, Loop!Waiting
<1>7. Loop!Workers' \subseteq Loop!Workers
      BY <1>5, <1>6 DEF Loop!Workers
<1>8. WorkersOK'
      BY <1>7, FewerWorkers DEF LoopInv
<1>9. \A p \in Loop!Request : SameRange(p)
      BY <1>4, <1>5, <1>6 DEF SameRange
<1>10. control' \in {"Running", "Paused", "Cancelled"}
       BY DEF LoopInv
<1>11. QED
       BY <1>5, <1>8, <1>9, <1>10, RequestsStep

\* A worker goes to another of its states.
LEMMA WorkerMoves ==
    ASSUME Loop!LoopbackAssumption, LoopInv, NEW q \in Loop!Request, NEW place \in Loop!Working,
           requests[q].pc \in Loop!Working,
           Moves(q, place), UNCHANGED <<control, streams, readers>>
    PROVE  LoopInv'
<1>1. /\ Requests' /\ requests'[q].pc = place
      /\ requests'[q].length = requests[q].length /\ requests'[q].offset = requests[q].offset
      /\ \A p \in Loop!Request \ {q} : requests'[p] = requests[p]
      BY Move DEF LoopInv
<1>2. place # "none"
      BY DEF Loop!Working, Loop!Waiting
<1>3. Loop!Workers' = Loop!Workers
      BY <1>1 DEF Loop!Workers
<1>4. WorkersOK'
      BY <1>3 DEF LoopInv, WorkersOK
<1>5. \A p \in Loop!Request : SameRange(p)
      BY <1>1, <1>2 DEF SameRange
<1>6. control' \in {"Running", "Paused", "Cancelled"}
      BY DEF LoopInv
<1>7. QED
      BY <1>1, <1>4, <1>5, <1>6, RequestsStep

LEMMA WorkerKeeps ==
    ASSUME Loop!LoopbackAssumption, LoopInv, NEW q \in Loop!Request, Loop!Worker(q) PROVE LoopInv'
<1>1. CASE Loop!Check(q)
  <2>1. requests[q].pc = "check" /\ UNCHANGED <<control, streams, readers>>
        BY <1>1 DEF Loop!Check
  <2>2. CASE requests' = Loop!Answered(q, "cancelled")
        BY <2>1, <2>2, AnswerKeeps DEF Loop!Answer
  <2>3. CASE Moves(q, "paused")
        BY <2>1, <2>3, WorkerMoves DEF Loop!Working, Loop!Waiting
  <2>4. CASE Moves(q, "delayed")
        BY <2>1, <2>4, WorkerMoves DEF Loop!Working, Loop!Waiting
  <2>5. QED
        BY <1>1, <2>2, <2>3, <2>4 DEF Loop!Check, Moves
<1>2. CASE Loop!DelayPasses(q)
  <2>1. requests[q].pc = "delayed" /\ UNCHANGED <<control, streams, readers>> /\ Moves(q, "serve")
        BY <1>2 DEF Loop!DelayPasses, Moves
  <2>2. QED
        BY <2>1, WorkerMoves DEF Loop!Working, Loop!Waiting
<1>3. CASE Loop!Serve(q)
  <2>1. requests[q].pc = "serve" /\ UNCHANGED <<control, streams, readers>>
        /\ (requests' = Loop!Answered(q, "ok") \/ requests' = Loop!Answered(q, "lost"))
        BY <1>3 DEF Loop!Serve
  <2>2. QED
        BY <2>1, AnswerKeeps DEF Loop!Answer
<1>4. QED
      BY <1>1, <1>2, <1>3 DEF Loop!Worker

\* A connection is given a worker only if one is free.
LEMMA AcceptKeeps ==
    ASSUME Loop!LoopbackAssumption, LoopInv, NEW q \in Loop!Request, Loop!Accept(q) PROVE LoopInv'
<1>1. requests[q].pc = "backlog" /\ UNCHANGED <<control, streams, readers>>
      BY DEF Loop!Accept
<1>2. CASE requests' = Loop!Answered(q, "lost")
      BY <1>1, <1>2, AnswerKeeps DEF Loop!Answer
<1>3. CASE Cardinality(Loop!Workers) < MaxWorkers /\ Moves(q, "check")
  <2>1. /\ Requests' /\ requests'[q].pc = "check"
        /\ requests'[q].length = requests[q].length /\ requests'[q].offset = requests[q].offset
        /\ \A p \in Loop!Request \ {q} : requests'[p] = requests[p]
        BY <1>3, Move DEF LoopInv, Loop!Working
  <2>2. Loop!Workers' = Loop!Workers \cup {q}
        BY <2>1 DEF Loop!Workers, Loop!Working
  <2>3. q \notin Loop!Workers
        BY <1>1 DEF Loop!Workers, Loop!Working, Loop!Waiting
  <2>4. IsFiniteSet(Loop!Workers)
        BY FiniteRequests
  <2>5. Cardinality(Loop!Workers \cup {q}) = Cardinality(Loop!Workers) + 1
        BY <2>3, <2>4, FS_AddElement
  <2>6. WorkersOK'
        BY <1>3, <2>2, <2>4, <2>5, FS_CardinalityType DEF WorkersOK, Loop!LoopbackAssumption
  <2>7. \A p \in Loop!Request : SameRange(p)
        BY <2>1 DEF SameRange
  <2>8. control' \in {"Running", "Paused", "Cancelled"}
        BY <1>1 DEF LoopInv
  <2>9. QED
        BY <1>1, <2>1, <2>6, <2>7, <2>8, RequestsStep
<1>4. Cardinality(Loop!Workers) \in Nat
      BY FiniteRequests, FS_CardinalityType
<1>5. QED
      BY <1>2, <1>3, <1>4 DEF Loop!Accept, Moves, Loop!LoopbackAssumption, Loop!Cardinality, Cardinality

\* Notified workers remain workers.
LEMMA TransitionKeeps ==
    ASSUME Loop!LoopbackAssumption, LoopInv, NEW state \in {"Running", "Paused", "Cancelled"},
           Loop!Transition(state), UNCHANGED <<streams, readers>>
    PROVE  LoopInv'
<1>1. PICK late \in SUBSET Loop!Request :
         requests' = [q \in Loop!Request |->
                         IF requests[q].pc \in Loop!Waiting /\ q \notin late
                         THEN [requests[q] EXCEPT !.pc = "check"] ELSE requests[q]]
      BY DEF Loop!Transition
<1>2. ASSUME NEW q \in Loop!Request
      PROVE  /\ requests'[q] \in RequestRecord
             /\ requests'[q].length = requests[q].length /\ requests'[q].offset = requests[q].offset
             /\ requests'[q].pc \in Loop!Working <=> requests[q].pc \in Loop!Working
             /\ requests'[q].pc = "none" <=> requests[q].pc = "none"
  <2>1. requests[q] \in RequestRecord
        BY DEF LoopInv, Requests
  <2> DEFINE g == [requests[q] EXCEPT !.pc = "check"]
  <2>2. /\ g \in RequestRecord /\ g.pc = "check"
        /\ g.length = requests[q].length /\ g.offset = requests[q].offset
        BY <2>1 DEF RequestRecord, Loop!Working
  <2>3. requests'[q] = IF requests[q].pc \in Loop!Waiting /\ q \notin late THEN g ELSE requests[q]
        BY <1>1
  <2> HIDE DEF g
  <2>4. CASE requests[q].pc \in Loop!Waiting /\ q \notin late
        BY <2>2, <2>3, <2>4 DEF Loop!Working, Loop!Waiting
  <2>5. CASE ~(requests[q].pc \in Loop!Waiting /\ q \notin late)
        BY <2>1, <2>3, <2>5
  <2>6. QED
        BY <2>4, <2>5
<1>3. Requests'
      BY <1>1, <1>2 DEF Requests
<1>4. Loop!Workers' = Loop!Workers
      BY <1>2 DEF Loop!Workers
<1>5. WorkersOK'
      BY <1>4 DEF LoopInv, WorkersOK
<1>6. control' \in {"Running", "Paused", "Cancelled"}
      BY DEF Loop!Transition
<1>7. \A q \in Loop!Request : SameRange(q)
      BY <1>2 DEF SameRange
<1>8. QED
      BY <1>3, <1>5, <1>6, <1>7, RequestsStep

-----------------------------------------------------------------------------
(* The readers. *)

ReaderBecomes(r, g) == readers' = [readers EXCEPT ![r] = g]

LEMMA ReaderChange ==
    ASSUME Readers, NEW r \in Reader, NEW g \in ReaderRecord, ReaderBecomes(r, g)
    PROVE  Readers' /\ readers'[r] = g /\ \A u \in Reader \ {r} : readers'[u] = readers[u]
  BY DEF Readers, ReaderBecomes

LEMMA OffsetIsNat ==
    ASSUME Streams, Readers, NEW r \in Reader
    PROVE  Loop!Got(r) \in Nat /\ Loop!Offset(r) \in Nat
<1>1. streams[readers[r].stream] \in StreamRecord /\ readers[r] \in ReaderRecord
      BY DEF Streams, Readers, ReaderRecord
<1>2. Loop!Got(r) \in Nat
      BY <1>1 DEF Loop!Got, ReaderRecord
<1>3. QED
      BY <1>1, <1>2 DEF Loop!Offset, StreamRecord, Position

\* A reader moves and the streams do not.
LEMMA ReaderStep ==
    ASSUME LoopInv, NEW r \in Reader, NEW g \in ReaderRecord, ReaderBecomes(r, g),
           UNCHANGED <<control, streams>>, Requests', WorkersOK',
           g.pc # "idle" => /\ streams[g.stream].open
                            /\ \A q \in Reader \ {r} :
                                  readers[q].pc # "idle" => readers[q].stream # g.stream,
           RangeOK(g, requests'),
           \A u \in Reader \ {r} : RangeOK(readers[u], requests')
    PROVE  LoopInv'
<1>1. Readers' /\ readers'[r] = g /\ \A u \in Reader \ {r} : readers'[u] = readers[u]
      BY ReaderChange DEF LoopInv
<1>2. Streams' /\ ReadsAreContiguous'
      BY DEF LoopInv, Streams, ReadsAreContiguous
<1>3. ReadersOK'
      BY <1>1 DEF LoopInv, ReadersOK
<1>4. RangesOK'
  <2>1. \A u \in Reader : RangeOK(readers'[u], requests')
        BY <1>1
  <2>2. QED
        BY <2>1 DEF RangesOK, RangeOK
<1>5. control' \in {"Running", "Paused", "Cancelled"}
      BY DEF LoopInv
<1>6. QED
      BY <1>1, <1>2, <1>3, <1>4, <1>5 DEF LoopInv

\* The same when the requests do not move either.
LEMMA QuietReaderStep ==
    ASSUME LoopInv, NEW r \in Reader, NEW g \in ReaderRecord, ReaderBecomes(r, g),
           UNCHANGED <<control, streams, requests>>,
           g.pc # "idle" => /\ streams[g.stream].open
                            /\ \A q \in Reader \ {r} :
                                  readers[q].pc # "idle" => readers[q].stream # g.stream,
           RangeOK(g, requests)
    PROVE  LoopInv'
<1>1. Requests' /\ WorkersOK'
      BY DEF LoopInv, Requests, WorkersOK, Loop!Workers
<1>2. RangeOK(g, requests') /\ \A u \in Reader \ {r} : RangeOK(readers[u], requests')
      BY DEF LoopInv, RangesOK
<1>3. QED
      BY <1>1, <1>2, ReaderStep

LEMMA BeginReadKeeps ==
    ASSUME LoopInv, NEW r \in Reader, NEW s \in Loop!Stream, NEW n \in Nat, Loop!BeginRead(r, s, n) PROVE LoopInv'
<1> DEFINE g == [Loop!IdleReader EXCEPT !.pc = "loop", !.stream = s, !.want = n]
<1>1. /\ streams[s].open /\ ~Loop!Locked(s) /\ UNCHANGED <<control, streams, requests>>
      /\ ReaderBecomes(r, g)
      BY DEF Loop!BeginRead, ReaderBecomes
<1>2. Loop!IdleReader \in ReaderRecord /\ Loop!IdleReader.bytes = <<>>
      BY DEF Loop!IdleReader, ReaderRecord, Loop!Stream
<1>3. g \in ReaderRecord /\ g.pc = "loop" /\ g.stream = s /\ g.bytes = <<>>
      BY <1>2 DEF ReaderRecord
<1> HIDE DEF g
<1>4. \A q \in Reader \ {r} : readers[q].pc # "idle" => readers[q].stream # g.stream
      BY <1>1, <1>3 DEF Loop!Locked
<1>5. RangeOK(g, requests)
  <2>1. Len(g.bytes) = 0 /\ DOMAIN g.bytes = {}
        BY <1>3
  <2>2. QED
        BY <1>3, <2>1 DEF RangeOK
<1>6. QED
      BY <1>1, <1>3, <1>4, <1>5, QuietReaderStep

\* The range asked for ends within the file.
LEMMA SendKeeps ==
    ASSUME Loop!LoopbackAssumption, LoopInv, NEW r \in Reader, NEW q \in Loop!Request, Loop!Send(r, q) PROVE LoopInv'
<1> DEFINE offset == Loop!Offset(r)
           length == Loop!AskFor(offset, readers[r].want - Loop!Got(r))
           n == [pc |-> "backlog", offset |-> offset, length |-> length]
           f == [readers[r] EXCEPT !.pc = "sent"]
           g == [f EXCEPT !.request = q]
<1>1. /\ readers[r].pc = "loop" /\ Loop!Got(r) < readers[r].want /\ offset < Length
      /\ requests[q].pc = "none"
      /\ requests' = [requests EXCEPT ![q] = n]
      /\ UNCHANGED <<control, streams>>
      BY DEF Loop!Send
<1>2. Streams /\ Readers /\ Requests /\ readers[r] \in ReaderRecord
      BY DEF LoopInv, Readers
<1>3. offset \in Nat /\ Loop!Got(r) \in Nat
      BY <1>2, OffsetIsNat
<1>4. length \in Nat /\ length <= Length - offset
  <2>1. readers[r].want - Loop!Got(r) \in Nat /\ Length - offset \in Nat /\ MaxRange \in Nat
        BY <1>1, <1>2, <1>3 DEF ReaderRecord, Loop!LoopbackAssumption
  <2> DEFINE wanted == readers[r].want - Loop!Got(r)
  <2>2. wanted \in Nat /\ length = Loop!AskFor(offset, wanted)
        BY <2>1
  <2> HIDE DEF wanted, offset, length
  <2>3. QED
        BY <2>1, <2>2, AskedRange
<1>5. n \in RequestRecord /\ n.pc = "backlog" /\ n.length = length /\ n.offset = offset
      BY <1>3, <1>4 DEF RequestRecord
<1>6. f \in ReaderRecord /\ f.stream = readers[r].stream /\ f.pc = "sent" /\ f.bytes = readers[r].bytes
      BY <1>2 DEF ReaderRecord
<1>7. ReaderBecomes(r, g)
      BY <1>2 DEF Loop!Send, ReaderBecomes, Readers
<1> HIDE DEF f
<1>8. g \in ReaderRecord /\ g.stream = readers[r].stream /\ g.pc = "sent" /\ g.bytes = readers[r].bytes
      /\ g.request = q
      BY <1>6 DEF ReaderRecord
<1> HIDE DEF g, n, length
<1>9. Requests' /\ requests'[q] = n /\ \A p \in Loop!Request \ {q} : requests'[p] = requests[p]
      BY <1>1, <1>2, <1>5 DEF Requests
<1>10. Loop!Workers' = Loop!Workers
       BY <1>1, <1>5, <1>9 DEF Loop!Workers, Loop!Working, Loop!Waiting
<1>11. WorkersOK'
       BY <1>10 DEF LoopInv, WorkersOK
<1>12. streams[g.stream].position + Len(g.bytes) = offset
       BY <1>8 DEF Loop!Offset, Loop!Got
<1>13. offset + length <= Length
       BY <1>3, <1>4 DEF Loop!LoopbackAssumption
<1>14. /\ streams[g.stream].open
       /\ \A u \in Reader \ {r} : readers[u].pc # "idle" => readers[u].stream # g.stream
       BY <1>1, <1>8 DEF LoopInv, ReadersOK
<1>15. ASSUME NEW u \in Reader \ {r} PROVE RangeOK(readers[u], requests')
  <2>1. RangeOK(readers[u], requests)
        BY DEF LoopInv, RangesOK
  <2>2. \A p \in Loop!Request : requests[p].pc # "none" => requests'[p] = requests[p]
        BY <1>1, <1>9
  <2>3. QED
        BY <2>1, <2>2 DEF RangeOK
<1> HIDE DEF offset
<1>16. RangeOK(g, requests')
  <2>1. RangeOK(readers[r], requests)
        BY DEF LoopInv, RangesOK
  <2>2. \A i \in DOMAIN g.bytes : g.bytes[i] = streams[g.stream].position + i - 1
        BY <1>1, <1>8, <2>1 DEF RangeOK
  <2>3. streams[g.stream].position + Len(g.bytes) <= Length
        BY <1>1, <1>3, <1>12 DEF Loop!LoopbackAssumption
  <2>4. /\ requests'[g.request].pc # "none" /\ requests'[g.request].offset = offset
        /\ offset + requests'[g.request].length <= Length
        BY <1>5, <1>8, <1>9, <1>13
  <2>5. QED
        BY <1>8, <1>12, <2>2, <2>3, <2>4 DEF RangeOK
<1>17. QED
       BY <1>1, <1>7, <1>8, <1>9, <1>11, <1>14, <1>15, <1>16, ReaderStep

\* A request that is over holds no range, whoever may still name it.
LEMMA OverStep ==
    ASSUME Loop!LoopbackAssumption, LoopInv, NEW q \in Loop!Request,
           requests' \in {requests, [requests EXCEPT ![q] = Loop!Over]}
    PROVE  Requests' /\ WorkersOK' /\ \A u \in Reader : RangeOK(readers[u], requests')
<1>1. Loop!Over \in RequestRecord /\ Loop!Over.pc = "over" /\ Loop!Over.length = 0
      BY DEF Loop!Over, Loop!NoRequest, RequestRecord
<1>2. Requests' /\ \A p \in Loop!Request : requests'[p] \in {requests[p], Loop!Over}
      BY <1>1 DEF LoopInv, Requests
<1>3. Loop!Workers' \subseteq Loop!Workers
      BY <1>1, <1>2 DEF Loop!Workers, Loop!Working, Loop!Waiting
<1>4. WorkersOK'
      BY <1>3, FewerWorkers DEF LoopInv
<1>5. \A p \in Loop!Request : SameRange(p)
      BY <1>1, <1>2 DEF SameRange
<1>6. QED
      BY <1>2, <1>4, <1>5, RangesStay

\* A run of consecutive numbers is continued by the next ones.
LEMMA NextInARow ==
    ASSUME NEW x \in Nat, NEW a \in Seq(Nat), \A i \in DOMAIN a : a[i] = x + i - 1,
           NEW b \in Seq(Nat), \A i \in DOMAIN b : b[i] = x + Len(a) + i - 1
    PROVE  /\ a \o b \in Seq(Nat) /\ Len(a \o b) = Len(a) + Len(b)
           /\ \A i \in DOMAIN (a \o b) : (a \o b)[i] = x + i - 1
<1> DEFINE c == a \o b
<1>1. /\ c \in Seq(Nat) /\ Len(c) = Len(a) + Len(b) /\ DOMAIN c = 1 .. Len(c)
      /\ \A i \in 1 .. Len(c) : c[i] = IF i <= Len(a) THEN a[i] ELSE b[i - Len(a)]
      BY ConcatProperties
<1>2. /\ Len(a) \in Nat /\ Len(b) \in Nat
      /\ DOMAIN a = 1 .. Len(a) /\ DOMAIN b = 1 .. Len(b)
      OBVIOUS
<1> HIDE DEF c
<1>3. ASSUME NEW i \in 1 .. Len(c) PROVE c[i] = x + i - 1
  <2>1. c[i] = IF i <= Len(a) THEN a[i] ELSE b[i - Len(a)]
        BY <1>1
  <2>2. CASE i <= Len(a)
    <3>1. i \in DOMAIN a
          BY <1>1, <1>2, <2>2
    <3>2. QED
          BY <2>1, <2>2, <3>1
  <2>3. CASE i > Len(a)
    <3>1. i - Len(a) \in DOMAIN b /\ ~(i <= Len(a))
          BY <1>1, <1>2, <2>3
    <3>2. b[i - Len(a)] = x + Len(a) + (i - Len(a)) - 1
          BY <3>1
    <3>3. QED
          BY <1>2, <2>1, <3>1, <3>2
  <2>4. QED
        BY <1>1, <1>2, <2>2, <2>3
<1>4. QED
      BY <1>1, <1>3 DEF c

\* The range that comes is the one after the bytes the reader has.
LEMMA ReceiveRangeKeeps ==
    ASSUME Loop!LoopbackAssumption, LoopInv, NEW r \in Reader, Loop!ReceiveRange(r) PROVE LoopInv'
<1> DEFINE q == readers[r].request
           length == requests[q].length
           p == streams[readers[r].stream].position
           old == readers[r].bytes
           new == Loop!Payload(q)
           e == [readers[r] EXCEPT !.pc = "loop"]
           f == [e EXCEPT !.bytes = old \o new]
           g == [f EXCEPT !.request = 0]
<1>1. /\ readers[r].pc = "sent" /\ requests' = [requests EXCEPT ![q] = Loop!Over]
      /\ UNCHANGED <<control, streams>>
      BY DEF Loop!ReceiveRange
<1>2. Streams /\ Readers /\ Requests /\ readers[r] \in ReaderRecord
      BY DEF LoopInv, Readers
<1>3. RangeOK(readers[r], requests)
      BY DEF LoopInv, RangesOK
<1>4. /\ q \in Loop!Request /\ p + Len(old) + length <= Length
      /\ length > 0 => requests[q].offset = p + Len(old)
      /\ \A i \in DOMAIN old : old[i] = p + i - 1
      BY <1>1, <1>3 DEF RangeOK
<1>5. length \in Nat /\ requests[q].offset \in Nat
      BY <1>2, <1>4 DEF Requests, RequestRecord
<1>6. p \in Nat /\ old \in Seq(Nat)
      BY <1>2 DEF Streams, StreamRecord, ReaderRecord, Position
<1>7. /\ new \in Seq(Nat) /\ Len(new) = length
      /\ \A i \in DOMAIN new : new[i] = p + Len(old) + i - 1
  <2>1. new = [i \in 1 .. length |-> requests[q].offset + i - 1]
        BY DEF Loop!Payload
  <2> HIDE DEF new, length
  <2>2. \A i \in 1 .. length : requests[q].offset + i - 1 \in Nat
        BY <1>5
  <2>3. new \in Seq(Nat) /\ Len(new) = length
        BY <1>5, <2>1, <2>2
  <2>4. ASSUME NEW i \in 1 .. length PROVE new[i] = p + Len(old) + i - 1
    <3>1. length > 0
          BY <1>5
    <3>2. QED
          BY <1>4, <2>1, <3>1
  <2>5. DOMAIN new = 1 .. length
        BY <2>1
  <2>6. QED
        BY <2>3, <2>4, <2>5
<1>8. ReaderBecomes(r, g)
      BY <1>2 DEF Loop!ReceiveRange, ReaderBecomes, Readers
<1> HIDE DEF length, p, old, new
<1>9. /\ old \o new \in Seq(Nat) /\ Len(old \o new) = Len(old) + length
      /\ \A i \in DOMAIN (old \o new) : (old \o new)[i] = p + i - 1
      BY <1>4, <1>6, <1>7, NextInARow
<1>10. e \in ReaderRecord /\ e.pc = "loop" /\ e.stream = readers[r].stream
       BY <1>2 DEF ReaderRecord
<1> HIDE DEF e
<1>11. f \in ReaderRecord /\ f.pc = "loop" /\ f.stream = readers[r].stream /\ f.bytes = old \o new
       BY <1>9, <1>10 DEF ReaderRecord
<1> HIDE DEF f
<1>12. g \in ReaderRecord /\ g.pc = "loop" /\ g.stream = readers[r].stream /\ g.bytes = old \o new
       BY <1>11 DEF ReaderRecord
<1> HIDE DEF g, q
<1>13. RangeOK(g, requests')
  <2>1. streams[g.stream].position = p
        BY <1>12 DEF p
  <2>2. p + Len(g.bytes) <= Length
    <3>1. Len(old) \in Nat
          BY <1>6
    <3>2. Len(g.bytes) = Len(old) + length
          BY <1>9, <1>12
    <3>3. QED
          BY <1>4, <1>5, <1>6, <3>1, <3>2
  <2>3. \A i \in DOMAIN g.bytes : g.bytes[i] = p + i - 1
        BY <1>9, <1>12
  <2>4. g.pc # "sent"
        BY <1>12
  <2>5. QED
        BY <2>1, <2>2, <2>3, <2>4 DEF RangeOK
<1>14. /\ streams[g.stream].open
       /\ \A u \in Reader \ {r} : readers[u].pc # "idle" => readers[u].stream # g.stream
       BY <1>1, <1>12 DEF LoopInv, ReadersOK
<1>15. Requests' /\ WorkersOK' /\ \A u \in Reader : RangeOK(readers[u], requests')
       BY <1>1, <1>4, OverStep
<1>16. QED
       BY <1>1, <1>8, <1>12, <1>13, <1>14, <1>15, ReaderStep

LEMMA IdleReaderRecord == Loop!IdleReader \in ReaderRecord /\ Loop!IdleReader.pc = "idle"
  BY DEF Loop!IdleReader, ReaderRecord, Loop!Stream

LEMMA ReceiveErrorKeeps ==
    ASSUME Loop!LoopbackAssumption, LoopInv, NEW r \in Reader, Loop!ReceiveError(r) PROVE LoopInv'
<1>1. /\ readers[r].pc = "sent" /\ UNCHANGED <<control, streams>>
      /\ ReaderBecomes(r, Loop!IdleReader)
      /\ requests' \in {requests, [requests EXCEPT ![readers[r].request] = Loop!Over]}
      BY DEF Loop!ReceiveError, Loop!FailRead, ReaderBecomes
<1>2. readers[r].request \in Loop!Request
      BY <1>1 DEF LoopInv, RangesOK, RangeOK
<1>3. Requests' /\ WorkersOK' /\ \A u \in Reader : RangeOK(readers[u], requests')
      BY <1>1, <1>2, OverStep
<1>4. RangeOK(Loop!IdleReader, requests')
      BY IdleReaderRecord DEF RangeOK
<1>5. QED
      BY <1>1, <1>3, <1>4, IdleReaderRecord, ReaderStep

-----------------------------------------------------------------------------
(* The streams. *)

StreamBecomes(s, g) == streams' = [streams EXCEPT ![s] = g]

\* What one stream must satisfy.
Contiguous(g) ==
    /\ g.position = g.origin + Len(g.given)
    /\ \A i \in DOMAIN g.given : g.given[i] = g.origin + i - 1 /\ g.given[i] < Length

\* A stream that nobody reads, or not any more, moves.
LEMMA StreamStep ==
    ASSUME LoopInv, NEW s \in Loop!Stream, NEW g \in StreamRecord, StreamBecomes(s, g), Contiguous(g),
           streams[s].open => g.open,
           UNCHANGED <<control, requests>>, Readers',
           \A r \in Reader : /\ readers'[r] \in {readers[r], Loop!IdleReader}
                             /\ readers'[r].pc # "idle" => readers[r].stream # s
    PROVE  LoopInv'
<1>1. Streams' /\ streams'[s] = g /\ \A t \in Loop!Stream \ {s} : streams'[t] = streams[t]
      BY DEF LoopInv, Streams, StreamBecomes
<1>2. Requests' /\ WorkersOK' /\ control' \in {"Running", "Paused", "Cancelled"}
      BY DEF LoopInv, Requests, WorkersOK, Loop!Workers
<1>3. \A r \in Reader : readers'[r].pc # "idle"
         => readers'[r] = readers[r] /\ readers[r].stream \in Loop!Stream \ {s}
      BY IdleReaderRecord DEF LoopInv, Readers, ReaderRecord
<1>4. ReadersOK'
      BY <1>1, <1>3 DEF LoopInv, ReadersOK
<1>5. RangesOK'
  <2>1. ASSUME NEW u \in Reader, readers'[u].pc # "idle" PROVE RangeOK(readers[u], requests)'
    <3>1. /\ readers'[u] = readers[u] /\ streams'[readers[u].stream] = streams[readers[u].stream]
          /\ requests' = requests
          BY <1>1, <1>3, <2>1
    <3>2. RangeOK(readers[u], requests)
          BY DEF LoopInv, RangesOK
    <3>3. QED
          BY <3>1, <3>2 DEF RangeOK
  <2>2. QED
        BY <2>1 DEF RangesOK, RangeOK
<1>6. ReadsAreContiguous'
  <2>1. \A t \in Loop!Stream : streams'[t] = streams[t] \/ streams'[t] = g
        BY <1>1
  <2>2. QED
        BY <2>1 DEF LoopInv, ReadsAreContiguous, Contiguous, Stream, Loop!Stream
<1>7. QED
      BY <1>1, <1>2, <1>4, <1>5, <1>6 DEF LoopInv

\* The bytes that a read returns come after those that were given.
LEMMA EndReadKeeps ==
    ASSUME Loop!LoopbackAssumption, LoopInv, NEW r \in Reader, Loop!EndRead(r) PROVE LoopInv'
<1> DEFINE s == readers[r].stream
           bytes == readers[r].bytes
           n == Len(bytes)
           old == streams[s]
           given == old.given \o bytes
           f == [old EXCEPT !.position = old.position + n]
           g == [f EXCEPT !.given = given]
<1>1. /\ readers[r].pc = "loop" /\ UNCHANGED <<control, requests>>
      /\ ReaderBecomes(r, Loop!IdleReader)
      BY DEF Loop!EndRead, ReaderBecomes
<1>2. Streams /\ Readers /\ readers[r] \in ReaderRecord
      BY DEF LoopInv, Readers
<1>3. s \in Loop!Stream /\ bytes \in Seq(Nat) /\ n \in Nat /\ old \in StreamRecord
      BY <1>2 DEF Streams, ReaderRecord
<1>4. Contiguous(old)
      BY <1>3 DEF LoopInv, ReadsAreContiguous, Contiguous, Stream, Loop!Stream
<1>5. /\ n > 0 => old.position + n <= Length
      /\ \A i \in DOMAIN bytes : bytes[i] = old.position + i - 1
  <2>1. RangeOK(readers[r], requests)
        BY DEF LoopInv, RangesOK
  <2>2. QED
        BY <1>1, <2>1 DEF RangeOK
<1>6. StreamBecomes(s, g)
      BY <1>2, <1>3 DEF Loop!EndRead, Loop!Returned, Loop!Got, StreamBecomes, Streams
<1> HIDE DEF s, bytes, n, old
<1>7. /\ old.position \in Nat /\ old.origin \in Nat /\ old.open \in BOOLEAN
      /\ old.given \in Seq(Nat) /\ Len(old.given) \in Nat
      BY <1>3 DEF StreamRecord, Position
<1>8. /\ old.position = old.origin + Len(old.given)
      /\ \A i \in DOMAIN old.given : old.given[i] = old.origin + i - 1 /\ old.given[i] < Length
      BY <1>4 DEF Contiguous
<1>9. /\ given \in Seq(Nat) /\ Len(given) = Len(old.given) + n
      /\ \A i \in DOMAIN given : given[i] = old.origin + i - 1
  <2>1. \A i \in DOMAIN bytes : bytes[i] = old.origin + Len(old.given) + i - 1
        BY <1>5, <1>8
  <2> DEFINE x == old.origin  a == old.given
  <2>2. /\ x \in Nat /\ a \in Seq(Nat) /\ \A i \in DOMAIN a : a[i] = x + i - 1
        /\ \A i \in DOMAIN bytes : bytes[i] = x + Len(a) + i - 1
        BY <1>7, <1>8, <2>1
  <2> HIDE DEF x, a
  <2>3. /\ a \o bytes \in Seq(Nat) /\ Len(a \o bytes) = Len(a) + Len(bytes)
        /\ \A i \in DOMAIN (a \o bytes) : (a \o bytes)[i] = x + i - 1
        BY <1>3, <2>2, NextInARow
  <2>4. QED
        BY <2>3 DEF n, x, a
<1>10. \A i \in DOMAIN given : given[i] < Length
  <2>1. CASE n > 0
    <3>1. \A i \in DOMAIN given : i \in Nat /\ i <= Len(old.given) + n
          BY <1>9
    <3> HIDE DEF given
    <3>2. Length \in Nat
          BY DEF Loop!LoopbackAssumption
    <3>3. ASSUME NEW i \in DOMAIN given PROVE given[i] < Length
      <4> DEFINE x == old.origin  l == Len(old.given)  p == old.position  v == given[i]
      <4>1. /\ i \in Nat /\ i <= l + n /\ v = x + i - 1 /\ p = x + l /\ p + n <= Length
            /\ x \in Nat /\ l \in Nat /\ p \in Nat /\ n \in Nat
            BY <1>3, <1>5, <1>7, <1>8, <1>9, <2>1, <3>1
      <4> HIDE DEF x, l, p, v
      <4>2. v < Length
            BY ONLY <3>2, <4>1
      <4>3. QED
            BY <4>2 DEF v
    <3>4. QED
          BY <3>3
  <2>2. CASE n = 0
    <3>1. given = old.given
          BY <1>3, <1>7, <2>2 DEF n
    <3>2. QED
          BY <1>8, <3>1
  <2>3. QED
        BY <1>3, <2>1, <2>2
<1> HIDE DEF given
<1>11. old.position + n \in Position
       BY <1>3, <1>5, <1>7 DEF Position, StreamRecord, Loop!LoopbackAssumption
<1>12. f \in StreamRecord /\ f.position = old.position + n /\ f.origin = old.origin
       /\ f.open = old.open
       BY <1>3, <1>11 DEF StreamRecord
<1> HIDE DEF f
<1>13. g \in StreamRecord /\ g.position = old.position + n /\ g.origin = old.origin
       /\ g.open = f.open /\ g.given = given
       BY <1>9, <1>12 DEF StreamRecord
<1> HIDE DEF g
<1>14. Contiguous(g)
  <2> DEFINE x == old.origin  l == Len(old.given)  p == old.position
  <2>1. /\ g.position = p + n /\ g.origin = x /\ Len(g.given) = l + n /\ p = x + l
        /\ x \in Nat /\ l \in Nat /\ p \in Nat /\ n \in Nat
        BY <1>3, <1>7, <1>8, <1>9, <1>13
  <2> HIDE DEF x, l, p
  <2>2. g.position = g.origin + Len(g.given)
        BY ONLY <2>1
  <2>3. QED
        BY <1>9, <1>10, <1>13, <2>2 DEF Contiguous
<1>15. Readers' /\ readers'[r] = Loop!IdleReader /\ \A u \in Reader \ {r} : readers'[u] = readers[u]
       BY <1>1, <1>2, IdleReaderRecord, ReaderChange
<1>16. \A u \in Reader : /\ readers'[u] \in {readers[u], Loop!IdleReader}
                         /\ readers'[u].pc # "idle" => readers[u].stream # s
       BY <1>1, <1>15, IdleReaderRecord DEF LoopInv, ReadersOK, s
<1>17. streams[s].open => g.open
       BY <1>12, <1>13 DEF old
<1>18. QED
       BY <1>1, <1>3, <1>6, <1>13, <1>14, <1>15, <1>16, <1>17, StreamStep

\* A stream that is placed anew has given nothing from there.
LEMMA FreshStream ==
    ASSUME NEW g \in StreamRecord, g.position = g.origin, g.given = <<>>
    PROVE  Contiguous(g)
<1>1. g.origin \in Nat
      BY DEF StreamRecord, Position
<1>2. Len(g.given) = 0 /\ DOMAIN g.given = {}
      OBVIOUS
<1>3. g.position = g.origin + Len(g.given)
      BY <1>1, <1>2
<1>4. QED
      BY <1>2, <1>3 DEF Contiguous

LEMMA SeekKeeps ==
    ASSUME Loop!LoopbackAssumption, LoopInv, NEW s \in Loop!Stream, NEW p \in Position, Loop!Seek(s, p)
    PROVE  LoopInv'
<1> DEFINE e == [streams[s] EXCEPT !.position = p]
           f == [e EXCEPT !.origin = p]
           g == [f EXCEPT !.given = <<>>]
<1>1. UNCHANGED <<control, requests, readers>> /\ ~Loop!Locked(s) /\ streams[s].open
      BY DEF Loop!Seek
<1>2. streams \in [Loop!Stream -> StreamRecord] /\ streams[s] \in StreamRecord
      BY DEF LoopInv, Streams
<1>3. StreamBecomes(s, g)
      BY <1>2 DEF Loop!Seek, StreamBecomes
<1>4. e \in StreamRecord /\ e.position = p /\ e.open = streams[s].open
      BY <1>2 DEF StreamRecord
<1> HIDE DEF e
<1>5. f \in StreamRecord /\ f.position = p /\ f.origin = p /\ f.open = streams[s].open
      BY <1>4 DEF StreamRecord
<1> HIDE DEF f
<1>6. g \in StreamRecord /\ g.position = p /\ g.origin = p /\ g.open = streams[s].open
      /\ g.given = <<>>
  <2>1. <<>> \in Seq(Nat)
        OBVIOUS
  <2>2. g \in StreamRecord /\ g.position = p /\ g.origin = p /\ g.given = <<>>
        BY <1>5, <2>1 DEF StreamRecord
  <2>3. g.open = f.open
        BY <1>5 DEF StreamRecord
  <2>4. QED
        BY <1>5, <2>2, <2>3
<1> HIDE DEF g
<1>7. Contiguous(g)
      BY <1>6, FreshStream
<1>8. Readers'
      BY <1>1 DEF LoopInv, Readers
<1>9. \A r \in Reader : /\ readers'[r] \in {readers[r], Loop!IdleReader}
                        /\ readers'[r].pc # "idle" => readers[r].stream # s
      BY <1>1 DEF Loop!Locked
<1>10. g \in StreamRecord /\ (streams[s].open => g.open)
       BY <1>6
<1>11. UNCHANGED <<control, requests>>
       BY <1>1
<1>12. QED
       BY ONLY LoopInv, s \in Loop!Stream, <1>3, <1>7, <1>8, <1>9, <1>10, <1>11, StreamStep

LEMMA CloneKeeps ==
    ASSUME Loop!LoopbackAssumption, LoopInv, Loop!Clone PROVE LoopInv'
<1> DEFINE p == streams[1].position
           e == [Loop!NoStream EXCEPT !.open = TRUE]
           f == [e EXCEPT !.position = p]
           g == [f EXCEPT !.origin = p]
<1>1. /\ UNCHANGED <<control, requests, readers>> /\ ~streams[2].open
      /\ StreamBecomes(2, g)
      BY DEF Loop!Clone, StreamBecomes
<1>2. p \in Position /\ 2 \in Loop!Stream
      BY DEF LoopInv, Streams, StreamRecord, Loop!Stream
<1> HIDE DEF p
<1>3. Loop!NoStream \in StreamRecord /\ Loop!NoStream.given = <<>>
  <2>1. <<>> \in Seq(Nat) /\ 0 \in Position
        BY DEF Position, Loop!LoopbackAssumption
  <2>2. QED
        BY <2>1 DEF Loop!NoStream, StreamRecord
<1>4. e \in StreamRecord /\ e.open = TRUE /\ e.given = <<>>
      BY <1>3 DEF StreamRecord
<1> HIDE DEF e
<1>5. f \in StreamRecord /\ f.open = TRUE /\ f.given = <<>> /\ f.position = p
      BY <1>2, <1>4 DEF StreamRecord
<1> HIDE DEF f
<1>6. g \in StreamRecord /\ g.open = TRUE /\ g.given = <<>> /\ g.position = p /\ g.origin = p
      BY <1>2, <1>5 DEF StreamRecord
<1> HIDE DEF g
<1>7. Contiguous(g)
      BY <1>6, FreshStream
<1>8. Readers'
      BY <1>1 DEF LoopInv, Readers
<1>9. \A r \in Reader : /\ readers'[r] \in {readers[r], Loop!IdleReader}
                        /\ readers'[r].pc # "idle" => readers[r].stream # 2
      BY <1>1 DEF LoopInv, ReadersOK
<1>10. QED
       BY <1>1, <1>2, <1>6, <1>7, <1>8, <1>9, StreamStep

-----------------------------------------------------------------------------
(* The theorems. *)

LEMMA LoopStepKeeps == Loop!LoopbackAssumption /\ LoopInv /\ [Loop!Next]_(Loop!vars) => LoopInv'
<1> SUFFICES ASSUME Loop!LoopbackAssumption, LoopInv, [Loop!Next]_(Loop!vars) PROVE LoopInv'
    OBVIOUS
<1>1. CASE Loop!Explorer
  <2>1. ASSUME NEW r \in Reader, NEW s \in Loop!Stream, NEW n \in 1 .. Length + 1, Loop!BeginRead(r, s, n)
        PROVE  LoopInv'
    <3>1. n \in Nat
          BY DEF Loop!LoopbackAssumption
    <3>2. QED
          BY <2>1, <3>1, BeginReadKeeps
  <2>2. ASSUME NEW r \in Reader, Loop!EndRead(r) \/ Loop!ReceiveRange(r) \/ Loop!ReceiveError(r)
        PROVE  LoopInv'
        BY <2>2, EndReadKeeps, ReceiveRangeKeeps, ReceiveErrorKeeps
  <2>3. ASSUME NEW r \in Reader, NEW q \in Loop!Request, Loop!Send(r, q) PROVE LoopInv'
        BY <2>3, SendKeeps
  <2>4. ASSUME NEW s \in Loop!Stream, Loop!SeekSome(s) PROVE LoopInv'
    <3>1. \E p : Loop!Seek(s, p)
          BY <2>4 DEF Loop!SeekSome
    <3>2. PICK p : Loop!Seek(s, p)
          BY <3>1
    <3>3. p \in Position
          BY <3>2 DEF Loop!Seek, Position
    <3>4. QED
          BY <3>2, <3>3, SeekKeeps
  <2>5. CASE Loop!Clone
        BY <2>5, CloneKeeps
  <2>6. QED
        BY <1>1, <2>1, <2>2, <2>3, <2>4, <2>5 DEF Loop!Explorer
<1>2. ASSUME NEW q \in Loop!Request, Loop!Accept(q) \/ Loop!Worker(q) PROVE LoopInv'
      BY <1>2, AcceptKeeps, WorkerKeeps
<1>3. ASSUME NEW c \in {"Running", "Paused", "Cancelled"}, Loop!Command(c) PROVE LoopInv'
  <2>1. /\ Loop!Transition(IF control = "Cancelled" THEN "Cancelled" ELSE c)
        /\ UNCHANGED <<streams, readers>>
        BY <1>3 DEF Loop!Command
  <2>2. (IF control = "Cancelled" THEN "Cancelled" ELSE c) \in {"Running", "Paused", "Cancelled"}
        OBVIOUS
  <2>3. QED
        BY <2>1, <2>2, TransitionKeeps
<1>4. CASE Loop!Quit
      BY <1>4, TransitionKeeps DEF Loop!Quit
<1>5. CASE UNCHANGED Loop!vars
  <2>1. UNCHANGED <<control, streams, readers, requests>>
        BY <1>5 DEF Loop!vars
  <2>2. Requests' /\ WorkersOK' /\ control' \in {"Running", "Paused", "Cancelled"}
        BY <2>1 DEF LoopInv, Requests, WorkersOK, Loop!Workers
  <2>3. \A q \in Loop!Request : SameRange(q)
        BY <2>1 DEF SameRange
  <2>4. QED
        BY <2>1, <2>2, <2>3, RequestsStep
<1>6. QED
      BY <1>1, <1>2, <1>3, <1>4, <1>5 DEF Loop!Next

LEMMA LoopInvHolds ==
    ASSUME Loop!LoopbackAssumption
    PROVE  Loop!Init /\ [][Loop!Next]_(Loop!vars) => []LoopInv
<1>1. Loop!Init => LoopInv
      BY LoopInitially
<1>2. LoopInv /\ [Loop!Next]_(Loop!vars) => LoopInv'
      BY LoopStepKeeps
<1>3. QED
      BY <1>1, <1>2, PTL

\* The types; a stream never gets beyond the largest position and the server
\* never has more workers than it may.
THEOREM LoopbackIsTyped ==
    ASSUME Loop!LoopbackAssumption
    PROVE  Loop!Init /\ [][Loop!Next]_(Loop!vars) => []Loop!TypeOK
<1>1. LoopInv => Loop!TypeOK
      BY DEF LoopInv, Loop!TypeOK, WorkersOK, Streams, StreamRecord, Position, Readers, ReaderRecord,
             Requests, RequestRecord, Loop!Cardinality, Cardinality
<1>2. QED
      BY <1>1, LoopInvHolds, PTL

\* The calls on a stream that succeed return the bytes fetched for them, and these
\* are each byte once and in order, whichever threads call and however many calls
\* fail in between.
THEOREM ReadsReturnTheFile ==
    ASSUME Loop!LoopbackAssumption
    PROVE  Loop!Init /\ [][Loop!Next]_(Loop!vars) => []ReadsAreContiguous
<1>1. LoopInv => ReadsAreContiguous
      BY DEF LoopInv
<1>2. QED
      BY <1>1, LoopInvHolds, PTL

-----------------------------------------------------------------------------
(* The process, whichever part its arguments name. *)

\* A step of the process is a step of each part or leaves the part as it is.
LEMMA StepsOfTheParts ==
    ASSUME [ProbeNext]_probeVars
    PROVE  /\ [Next]_vars
           /\ [Loop!Next]_(Loop!vars)
           /\ [Object!Next]_(Object!vars)
           /\ [Process!Next]_(Process!vars)
           /\ [Fetcher!Next]_(Fetcher!vars)
<1> USE DEF loopVars, otherVars, objectVars, processVars, fetchVars,
            Loop!vars, Object!vars, Process!vars, Fetcher!vars
<1>1. CASE UNCHANGED probeVars
      BY <1>1 DEF probeVars
<1>2. CASE Next /\ UNCHANGED <<loopVars, otherVars>>
      BY <1>2
<1>3. CASE Loop!Next /\ UNCHANGED <<vars, otherVars>>
      BY <1>3
<1>4. CASE UNCHANGED <<vars, loopVars, otherVars>>
      BY <1>4
<1>5. CASE Object!Next /\ UNCHANGED <<vars, loopVars, processVars, fetchVars>>
      BY <1>5
<1>6. CASE Process!Next /\ UNCHANGED <<vars, loopVars, objectVars, fetchVars>>
      BY <1>6
<1>7. CASE Fetcher!Next /\ UNCHANGED <<vars, loopVars, objectVars, processVars>>
      BY <1>7
<1> HIDE DEF loopVars, otherVars, objectVars, processVars, fetchVars,
             Loop!vars, Object!vars, Process!vars, Fetcher!vars
<1>8. QED
      BY <1>1, <1>2, <1>3, <1>4, <1>5, <1>6, <1>7 DEF ProbeNext, CaptureSelection

LEMMA BehavioursOfTheParts ==
    ProbeSpec => /\ Spec
                 /\ Loop!Init /\ [][Loop!Next]_(Loop!vars)
                 /\ Object!Init /\ [][Object!Next]_(Object!vars)
                 /\ Process!Init /\ [][Process!Next]_(Process!vars)
                 /\ Fetcher!Init /\ [][Fetcher!Next]_(Fetcher!vars)
<1>1. ProbeSpec => ProbeInit /\ [][ProbeNext]_probeVars
      BY PTL DEF ProbeSpec
<1>2. ProbeInit => Init /\ Loop!Init /\ Object!Init /\ Process!Init /\ Fetcher!Init
      BY DEF ProbeInit
<1>3. QED
      BY <1>1, <1>2, StepsOfTheParts, PTL DEF Spec

\* What the session delivers, in whatever process it runs.
THEOREM ProbesDeliverOneVersion == ProbeSpec => [](OneVersionPerSource /\ OfferedObjectIsPasteable)
  BY BehavioursOfTheParts, DeliversOneVersion, OfferedIsPasteable, PTL

\* The stream of the loopback probe returns the file to its readers: the loopback
\* source is the only one whose fetches are modelled.
THEOREM ProbesReturnTheFile == ProbeSpec => []ReadsAreContiguous
<1>1. Loop!LoopbackAssumption
      BY ProbesAssumption
<1>2. QED
      BY <1>1, BehavioursOfTheParts, ReadsReturnTheFile, PTL

\* The object shows the offer to every consumer, in whatever process it is.
THEOREM ProbesShowTheOffer == ProbeSpec => []PasteSeesTheOffer
<1>1. Object!ObjectAssumption
      BY ProbesAssumption
<1>2. QED
      BY <1>1, BehavioursOfTheParts, ConsumersSeeTheOffer, PTL

\* A process that is told to quit wakes the readers it waits for, as the pause and
\* the loopback probe do whatever ends their loop, and none leaves a part of a file
\* as its output.
THEOREM ProbesAreClean == ProbeSpec => []ProbesEndClean
<1>1. Fetcher!FetchAssumption
      BY ProbesAssumption
<1>2. Process!ReleaseIsNotBlocked /\ Fetcher!OutputIsWhole => ProbesEndClean
      BY DEF ProbesEndClean
<1>3. QED
      BY <1>1, <1>2, BehavioursOfTheParts, ReleasesAreNotBlocked, OutputsAreWhole, PTL

LEMMA DisksAreFileSystems ==
    ASSUME NEW fs \in FileSystems
    PROVE  DOMAIN fs = Node /\ FileSystem(fs)
<1>1. DOMAIN fs = Node
      BY DEF FileSystems
<1>2. ASSUME NEW n \in Node
      PROVE  /\ fs[n].dir \in BOOLEAN
             /\ DOMAIN fs[n].children \subseteq Nat /\ IsFiniteSet(DOMAIN fs[n].children)
             /\ \A name \in DOMAIN fs[n].children : fs[n].children[name] \in Node
  <2>1. fs[n] \in Directories \cup {Plain}
        BY DEF FileSystems
  <2>2. CASE fs[n] = Plain
    <3>1. fs[n].dir = FALSE /\ fs[n].children = <<>>
          BY <2>2 DEF Plain
    <3>2. DOMAIN fs[n].children = {}
          BY <3>1
    <3>3. QED
          BY <3>1, <3>2, FS_EmptySet
  <2>3. CASE fs[n] \in Directories
    <3>1. PICK S \in SUBSET Name : \E c \in [S -> Node] : fs[n] = [dir |-> TRUE, children |-> c]
          BY <2>3 DEF Directories
    <3>2. fs[n].dir = TRUE /\ fs[n].children \in [S -> Node]
          BY <3>1
    <3>3. S \subseteq Nat /\ IsFiniteSet(S)
          BY ProbesAssumption, FS_Subset
    <3>4. QED
          BY <3>2, <3>3
  <2>4. QED
        BY <2>1, <2>2, <2>3
<1>3. QED
      BY <1>1, <1>2 DEF FileSystem

LEMMA SelectionsAreRoots ==
    ASSUME NEW fs, DOMAIN fs = Node, NEW roots \in Selections
    PROVE  Roots(fs, roots)
<1>1. First \in Node /\ Other \in Node
  <2>1. (\E n \in Node : TRUE) /\ \E n \in Node : n # First
        BY ProbesAssumption
  <2>2. QED
        BY <2>1 DEF First, Other
<1>2. ASSUME NEW path \in Seq(Nat), NEW node \in Node
      PROVE  Root(path, node) \in RootOf(fs) /\ Root(path, node).path = path
      BY DEF Root, RootOf
<1>3. /\ <<8, 2>> \in Seq(Nat) /\ <<8, 4>> \in Seq(Nat) /\ <<10, 3>> \in Seq(Nat) /\ <<9, 3, 4>> \in Seq(Nat)
      /\ <<8, 2>> # <<>> /\ <<8, 4>> # <<>> /\ <<10, 3>> # <<>> /\ <<9, 3, 4>> # <<>>
      OBVIOUS
<1> DEFINE Proper == {r \in RootOf(fs) : r.path # <<>>}
<1>4. /\ Root(<<8, 2>>, First) \in Proper /\ Root(<<8, 4>>, Other) \in Proper
      /\ Root(<<10, 3>>, Other) \in Proper /\ Root(<<9, 3, 4>>, Other) \in Proper
      BY <1>1, <1>2, <1>3
<1> HIDE DEF Proper
<1>5. roots \in Seq(Proper)
  <2>1. \A r, s \in Proper : <<r>> \in Seq(Proper) /\ <<r, s>> \in Seq(Proper)
        OBVIOUS
  <2>2. QED
        BY <1>4, <2>1, Zenon DEF Selections
<1>6. \A i \in 1 .. Len(roots) : roots[i] \in Proper
      BY <1>5
<1>7. roots \in Seq(RootOf(fs))
      BY <1>5, <1>6, SeqDef DEF Proper
<1>8. QED
      BY <1>6, <1>7 DEF Roots, Proper

\* The selection stays what was named, and is walked by the process that serves it.
SelectionInv ==
    /\ probe = "secure-source" => selection \in [fs : FileSystems, roots : Selections]
    /\ probe # "secure-source" => snapshot = NotWalked
    /\ SelectionIsCapturedExactly

LEMMA SelectionStepInv == SelectionInv /\ [ProbeNext]_probeVars => SelectionInv'
<1> SUFFICES ASSUME SelectionInv, [ProbeNext]_probeVars PROVE SelectionInv'
    OBVIOUS
<1>1. CASE UNCHANGED <<probe, selection, snapshot>>
      BY <1>1 DEF SelectionInv, SelectionIsCapturedExactly
<1>2. CASE probe = "secure-source" /\ CaptureSelection /\ UNCHANGED probe
  <2>1. selection.fs \in FileSystems /\ selection.roots \in Selections
        BY <1>2 DEF SelectionInv
  <2>2. Tree!CaptureIsExact(selection.fs, selection.roots, Tree!Capture(selection.fs, selection.roots))
        BY <2>1, DisksAreFileSystems, SelectionsAreRoots, SelectionCaptured, ProbesAssumption
  <2>3. UNCHANGED <<probe, selection>> /\ snapshot' = Tree!Capture(selection.fs, selection.roots)
        BY <1>2 DEF CaptureSelection
  <2>4. SelectionIsCapturedExactly'
        BY <2>2, <2>3 DEF SelectionIsCapturedExactly
  <2>5. QED
        BY <1>2, <2>3, <2>4 DEF SelectionInv
<1>3. QED
      BY <1>1, <1>2 DEF ProbeNext, probeVars, sourceVars

\* A selection is captured completely and once, or refused for what the code
\* names, for all names, nodes and limits.
THEOREM SelectionsAreCaptured == ProbeSpec => []SelectionIsCapturedExactly
<1>1. ProbeSpec => ProbeInit /\ [][ProbeNext]_probeVars
      BY PTL DEF ProbeSpec
<1>2. ProbeInit => SelectionInv
      BY DEF ProbeInit, SelectionInv, SelectionIsCapturedExactly
<1>3. SelectionInv => SelectionIsCapturedExactly
      BY DEF SelectionInv
<1>4. QED
      BY <1>1, <1>2, <1>3, SelectionStepInv, PTL
=============================================================================
