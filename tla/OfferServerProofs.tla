--------------------------- MODULE OfferServerProofs ---------------------------
(***************************************************************************)
(* Theorems about the secure offer server (OfferServer), for any number of *)
(* connections and workers: the slots of its threads, and what its users   *)
(* see of the coverage of a transfer (RangeCoverage).                      *)
(***************************************************************************)
EXTENDS OfferServer, FiniteSetTheorems, SequenceTheorems, TLAPS

-----------------------------------------------------------------------------
(* The secure offer server. *)

Place == {"none", "backlog"} \cup Placing \cup Working

Slots    == In(Placing \cup Working)
Occupied == In(Working \cup {"spawning"})

\* The listener places one connection at a time, and none once it is over.
ServerInv ==
    /\ connection \in [Connection -> Place]
    /\ IsFiniteSet(Slots) /\ workers = Cardinality(Slots)
    /\ Cardinality(Occupied) <= MaxWorkers
    /\ \A c, d \in In(Placing) : c = d
    /\ listener # "place" => In(Placing) = {}
    /\ listener = "over" => In({"backlog"}) = {}
    /\ owner \in {"waiting", "stopped"} => listener = "over"

\* What one connection that moves on changes in a set of connections.
LEMMA BecomesIn ==
    ASSUME connection \in [Connection -> Place], NEW c \in Connection, NEW where \in Place, Becomes(c, where),
           NEW S
    PROVE  /\ connection' \in [Connection -> Place]
           /\ In(S)' = IF where \in S THEN In(S) \cup {c} ELSE In(S) \ {c}
<1>1. connection' \in [Connection -> Place]
      BY DEF Becomes
<1>2. \A d \in Connection : connection'[d] = IF d = c THEN where ELSE connection[d]
      BY DEF Becomes
<1>3. In(S)' = {d \in Connection : connection'[d] \in S}
      BY DEF In
<1>4. QED
      BY <1>1, <1>2, <1>3 DEF In

\* A connection that was not in a set and does not enter it, or was and stays.
LEMMA BecomesSame ==
    ASSUME connection \in [Connection -> Place], NEW c \in Connection, NEW where \in Place, Becomes(c, where),
           NEW S, where \in S <=> connection[c] \in S
    PROVE  In(S)' = In(S)
<1>1. In(S)' = IF where \in S THEN In(S) \cup {c} ELSE In(S) \ {c}
      BY BecomesIn
<1>2. QED
      BY <1>1 DEF In

LEMMA OccupiedInSlots == Occupied \subseteq Slots
  BY DEF Occupied, Slots, In, Placing

\* A step that keeps who holds a slot, and does not place anybody.
LEMMA SlotsKept ==
    ASSUME ServerInv, NEW c \in Connection, NEW where \in Place, Becomes(c, where), UNCHANGED workers,
           {connection[c], where} \subseteq {"none", "backlog"} \/ {connection[c], where} \subseteq Working
           \/ (connection[c] = "spawning" /\ where = "handshake")
    PROVE  /\ connection' \in [Connection -> Place]
           /\ IsFiniteSet(Slots') /\ workers' = Cardinality(Slots')
           /\ Cardinality(Occupied') <= MaxWorkers
           /\ In(Placing)' = In(Placing) \ {c}
<1>1. connection' \in [Connection -> Place]
      BY BecomesIn DEF ServerInv
<1>2. where \in Placing \cup Working <=> connection[c] \in Placing \cup Working
      BY DEF Placing, Working
<1>3. where \in Working \cup {"spawning"} <=> connection[c] \in Working \cup {"spawning"}
      BY DEF Working
<1>4. Slots' = Slots
      BY <1>2, BecomesSame DEF ServerInv, Slots
<1>5. Occupied' = Occupied
      BY <1>3, BecomesSame DEF ServerInv, Occupied
<1>6. where \notin Placing
      BY DEF Placing, Working
<1>7. In(Placing)' = In(Placing) \ {c}
      BY <1>6, BecomesIn DEF ServerInv
<1>8. QED
      BY <1>1, <1>4, <1>5, <1>7 DEF ServerInv

\* A connection gives its slot back.
LEMMA SlotReturned ==
    ASSUME ServerInv, NEW c \in Connection, connection[c] \in Placing \cup Working, Becomes(c, "none"),
           workers' = workers - 1
    PROVE  /\ connection' \in [Connection -> Place]
           /\ IsFiniteSet(Slots') /\ workers' = Cardinality(Slots')
           /\ Cardinality(Occupied') <= MaxWorkers
           /\ In(Placing)' = In(Placing) \ {c} /\ In({"backlog"})' = In({"backlog"})
<1>1. /\ "none" \in Place
      /\ "none" \notin Placing \cup Working /\ "none" \notin Working \cup {"spawning"} /\ "none" \notin Placing
      /\ connection[c] # "backlog"
      BY DEF Place, Placing, Working
<1>2. connection' \in [Connection -> Place]
      BY <1>1, BecomesIn DEF ServerInv
<1>3. Slots' = Slots \ {c}
      BY <1>1, BecomesIn DEF ServerInv, Slots
<1>4. Occupied' = Occupied \ {c}
      BY <1>1, BecomesIn DEF ServerInv, Occupied
<1>5. In(Placing)' = In(Placing) \ {c}
      BY <1>1, BecomesIn DEF ServerInv
<1>6. In({"backlog"})' = In({"backlog"})
      BY <1>1, BecomesSame DEF ServerInv
<1>7. c \in Slots
      BY DEF Slots, In
<1>8. IsFiniteSet(Slots') /\ Cardinality(Slots') = Cardinality(Slots) - 1
      BY <1>3, <1>7, FS_RemoveElement DEF ServerInv
<1>9. Cardinality(Occupied') <= MaxWorkers
  <2>1. IsFiniteSet(Occupied)
        BY OccupiedInSlots, FS_Subset DEF ServerInv
  <2>2. /\ Cardinality(Occupied') <= Cardinality(Occupied) /\ IsFiniteSet(Occupied')
        BY <1>4, <2>1, FS_Subset
  <2>3. Cardinality(Occupied) \in Nat /\ Cardinality(Occupied') \in Nat
        BY <2>1, <2>2, FS_CardinalityType
  <2>4. QED
        BY <2>2, <2>3, ServerAssumption DEF ServerInv
<1>10. QED
       BY <1>2, <1>5, <1>6, <1>8, <1>9 DEF ServerInv

\* The listener takes a slot for a connection, and gives it to a worker if it
\* counted less than MaxWorkers before.
LEMMA SlotTaken ==
    ASSUME ServerInv, NEW c \in Connection, Accept(c)
    PROVE  /\ connection' \in [Connection -> Place]
           /\ IsFiniteSet(Slots') /\ workers' = Cardinality(Slots')
           /\ Cardinality(Occupied') <= MaxWorkers
           /\ In(Placing)' = {c}
<1> DEFINE where == IF workers < MaxWorkers THEN "spawning" ELSE "refused"
<1>1. /\ listener = "accept" /\ connection[c] = "backlog" /\ workers' = workers + 1 /\ Becomes(c, where)
      /\ where \in Place /\ where \in Placing \cup Working /\ where \in Placing
      BY DEF Accept, Place, Placing
<1>2. connection' \in [Connection -> Place]
      BY <1>1, BecomesIn DEF ServerInv
<1>3. Slots' = Slots \cup {c}
      BY <1>1, BecomesIn DEF ServerInv, Slots
<1>4. c \notin Slots /\ c \notin Occupied
      BY <1>1 DEF Slots, Occupied, In, Placing, Working
<1>5. IsFiniteSet(Slots') /\ Cardinality(Slots') = Cardinality(Slots) + 1
      BY <1>3, <1>4, FS_AddElement DEF ServerInv
<1>6. IsFiniteSet(Occupied) /\ Cardinality(Occupied) <= Cardinality(Slots)
      BY OccupiedInSlots, FS_Subset DEF ServerInv
<1>7. Cardinality(Occupied) \in Nat /\ Cardinality(Slots) \in Nat
      BY <1>6, FS_CardinalityType DEF ServerInv
<1>8. Cardinality(Occupied') <= MaxWorkers
  <2>1. CASE workers < MaxWorkers
    <3>1. Occupied' = Occupied \cup {c}
          BY <1>1, <2>1, BecomesIn DEF ServerInv, Occupied
    <3>2. Cardinality(Occupied') = Cardinality(Occupied) + 1
          BY <1>4, <1>6, <3>1, FS_AddElement
    <3>3. QED
          BY <1>6, <1>7, <2>1, <3>2, ServerAssumption DEF ServerInv
  <2>2. CASE ~(workers < MaxWorkers)
    <3>1. where \notin Working \cup {"spawning"}
          BY <2>2 DEF Working
    <3>2. Occupied' = Occupied \ {c}
          BY <1>1, <3>1, BecomesIn DEF ServerInv, Occupied
    <3>3. QED
          BY <1>4, <3>2 DEF ServerInv
  <2>3. QED
        BY <2>1, <2>2
<1>9. In(Placing)' = {c}
  <2>1. In(Placing)' = In(Placing) \cup {c}
        BY <1>1, BecomesIn DEF ServerInv
  <2>2. QED
        BY <1>1, <2>1 DEF ServerInv
<1>10. QED
       BY <1>1, <1>2, <1>5, <1>8, <1>9 DEF ServerInv

\* The end of the listener touches no slot.
LEMMA ListenerEnds ==
    ASSUME ServerInv, listener # "place", EndListener, UNCHANGED <<owner, workers>>
    PROVE  ServerInv'
<1>1. /\ connection' \in [Connection -> Place] /\ listener' = "over"
      /\ \A c \in Connection : connection'[c] = IF connection[c] = "backlog" THEN "none" ELSE connection[c]
      BY DEF EndListener, ServerInv, Place
<1>2. ASSUME NEW S, "backlog" \notin S, "none" \notin S PROVE In(S)' = In(S)
      BY <1>1, <1>2 DEF In
<1>3. Slots' = Slots /\ Occupied' = Occupied /\ In(Placing)' = In(Placing)
      BY <1>2 DEF Slots, Occupied, Placing, Working
<1>4. In({"backlog"})' = {}
      BY <1>1 DEF In
<1>5. QED
      BY <1>1, <1>3, <1>4 DEF ServerInv

LEMMA ServerInitInv == ServerInit => ServerInv
<1> SUFFICES ASSUME ServerInit PROVE ServerInv
    OBVIOUS
<1>1. connection \in [Connection -> Place] /\ \A S : "none" \notin S => In(S) = {}
      BY DEF ServerInit, Place, In
<1>2. Slots = {} /\ Occupied = {} /\ In(Placing) = {} /\ In({"backlog"}) = {}
      BY <1>1 DEF Slots, Occupied, Placing, Working
<1>3. QED
      BY <1>1, <1>2, FS_EmptySet, ServerAssumption DEF ServerInit, ServerInv

LEMMA ServerStepInv == ServerInv /\ [ServerNext]_serverVars => ServerInv'
<1> SUFFICES ASSUME ServerInv, [ServerNext]_serverVars PROVE ServerInv'
    OBVIOUS
<1> DEFINE Same == UNCHANGED <<workers, connection>>
<1>1. ASSUME Same, listener' = listener \/ (listener' \in {"check", "accept"} /\ listener # "place"),
             owner' \in {"waiting", "stopped"} => listener' = "over"
      PROVE  ServerInv'
  <2>1. Slots' = Slots /\ Occupied' = Occupied /\ In(Placing)' = In(Placing) /\ In({"backlog"})' = In({"backlog"})
        BY <1>1 DEF Slots, Occupied, In
  <2>2. QED
        BY <1>1, <2>1 DEF ServerInv
<1>2. CASE UNCHANGED serverVars
  <2>1. Same /\ UNCHANGED <<listener, owner>>
        BY <1>2 DEF serverVars
  <2>2. QED
        BY <1>1, <2>1 DEF ServerInv
<1>3. CASE EndServing \/ Stop \/ Join \/ Leave
  <2>1. /\ Same /\ UNCHANGED listener
        /\ owner' \in {"ending", "joining"} \/ listener = "over" \/ owner = "waiting"
        BY <1>3 DEF EndServing, Stop, Join, Leave, MayLeave
  <2>2. QED
        BY <1>1, <2>1 DEF ServerInv
<1>4. CASE CheckStop \/ AcceptFails
      BY <1>1, <1>4, ListenerEnds DEF CheckStop, AcceptFails, ServerInv
<1>5. CASE WouldBlock
      BY <1>1, <1>5 DEF WouldBlock, ServerInv
<1>6. ASSUME NEW c \in Connection, Accept(c) PROVE ServerInv'
      BY <1>6, SlotTaken DEF ServerInv, Accept
<1>7. ASSUME NEW c \in Connection, Spawn(c) PROVE ServerInv'
  <2>1. /\ connection[c] = "spawning" /\ Becomes(c, "handshake") /\ "handshake" \in Place
        /\ listener' = "check" /\ UNCHANGED <<owner, workers>>
        BY <1>7 DEF Spawn, Place, Working
  <2>2. c \in In(Placing)
        BY <2>1 DEF In, Placing
  <2>3. In(Placing) = {c} /\ listener = "place"
        BY <2>2 DEF ServerInv
  <2>4. QED
        BY <2>1, <2>3, SlotsKept DEF ServerInv
<1>8. ASSUME NEW c \in Connection, TurnAway(c) PROVE ServerInv'
  <2>1. /\ connection[c] \in Placing /\ Becomes(c, "none") /\ workers' = workers - 1
        /\ listener' = "check" /\ UNCHANGED owner
        BY <1>8 DEF TurnAway
  <2>2. c \in In(Placing)
        BY <2>1 DEF In
  <2>3. In(Placing) = {c} /\ listener = "place"
        BY <2>2 DEF ServerInv
  <2>4. QED
        BY <2>1, <2>3, SlotReturned DEF ServerInv
<1>9. ASSUME NEW c \in Connection, Connect(c) PROVE ServerInv'
  <2>1. /\ connection[c] = "none" /\ Becomes(c, "backlog") /\ "backlog" \in Place
        /\ listener # "over" /\ UNCHANGED <<owner, workers, listener>>
        BY <1>9 DEF Connect, Place
  <2>2. QED
        BY <2>1, SlotsKept DEF ServerInv
<1>10. ASSUME NEW c \in Connection, Handshake(c) \/ Request(c) \/ Answer(c) PROVE ServerInv'
  <2>1. PICK where \in Working : Becomes(c, where) /\ connection[c] \in Working
        BY <1>10 DEF Handshake, Request, Answer, Working
  <2>2. UNCHANGED <<owner, workers, listener>>
        BY <1>10 DEF Handshake, Request, Answer
  <2>3. where \in Place /\ "backlog" \notin Working
        BY DEF Place, Working
  <2>4. In({"backlog"})' = In({"backlog"})
        BY <2>1, <2>3, BecomesSame DEF ServerInv
  <2>5. QED
        BY <2>1, <2>2, <2>3, <2>4, SlotsKept DEF ServerInv
<1>11. ASSUME NEW c \in Connection, EndWorker(c) PROVE ServerInv'
  <2>1. /\ connection[c] \in Working /\ Becomes(c, "none") /\ workers' = workers - 1
        /\ UNCHANGED <<owner, listener>>
        BY <1>11 DEF EndWorker
  <2>2. QED
        BY <2>1, SlotReturned DEF ServerInv
<1>12. QED
       BY <1>2, <1>3, <1>4, <1>5, <1>6, <1>7, <1>8, <1>9, <1>10, <1>11 DEF ServerNext, Listener

\* The counter of the workers is the number of connections that hold a slot, no
\* more than MaxWorkers of them have a worker, and none comes after the listener.
THEOREM SlotsAreBounded == ServerSpec => []SlotsAreCounted
<1>1. ServerInv => SlotsAreCounted
  <2> SUFFICES ASSUME ServerInv PROVE SlotsAreCounted
      OBVIOUS
  <2>1. owner \in {"waiting", "stopped"} => In(Placing \cup {"backlog"}) = {}
        BY DEF ServerInv, In
  <2>2. QED
        BY <2>1 DEF ServerInv, SlotsAreCounted, Slots, Occupied
<1>2. QED
      BY <1>1, ServerInitInv, ServerStepInv, PTL DEF ServerSpec

-----------------------------------------------------------------------------
(* The coverage of a transfer.  Its loops are recursive functions: a function *)
(* that satisfies the recursion exists for every prefix, by induction over    *)
(* its length, and what holds of it is proved by the same induction.          *)

LEMMA Induction ==
    ASSUME NEW S, 0 \in S, \A n \in Nat : n \in S => n + 1 \in S
    PROVE  \A n \in Nat : n \in S
<1> DEFINE bad  == {n \in Nat : n \notin S}
           less == {p \in Nat \X Nat : p[1] < p[2]}
<1> SUFFICES ASSUME bad # {} PROVE FALSE
    OBVIOUS
<1>1. IsWellFoundedOn(less, Nat)
      BY NatLessThanWellFounded DEF OpToRel
<1>2. PICK m \in bad : \A r \in bad : ~(<<r, m>> \in less)
  <2>1. bad \subseteq Nat
        OBVIOUS
  <2>2. QED
        BY <1>1, <2>1, WFMin
<1>3. m \in Nat /\ m # 0
      OBVIOUS
<1>4. m - 1 \in Nat /\ m - 1 < m /\ (m - 1) + 1 = m
      BY <1>3
<1>5. <<m - 1, m>> \in less
      BY <1>3, <1>4
<1>6. m - 1 \in S
      BY <1>2, <1>4, <1>5
<1>7. QED
      BY <1>2, <1>4, <1>6

\* The prefixes of the loop that merges, and of the sum.
LEMMA MergedByPrefix ==
    ASSUME NEW rs, Len(rs) \in Nat
    PROVE  \E f : /\ f[0] = <<>> /\ Merged(rs) = f[Len(rs)]
                  /\ \A i \in 1 .. Len(rs) : f[i] = Extend(f[i - 1], rs[i])
<1> DEFINE Loop(f, n) == f = [i \in 0 .. n |-> IF i = 0 THEN <<>> ELSE Extend(f[i - 1], rs[i])]
           S == {n \in Nat : \E f : Loop(f, n)}
<1>1. 0 \in S
  <2>1. Loop([i \in 0 .. 0 |-> <<>>], 0)
        OBVIOUS
  <2>2. QED
        BY <2>1
<1>2. ASSUME NEW n \in Nat, n \in S PROVE n + 1 \in S
  <2>1. PICK f : Loop(f, n)
        BY <1>2
  <2> DEFINE g == [i \in 0 .. n + 1 |-> IF i = n + 1 THEN Extend(f[n], rs[n + 1]) ELSE f[i]]
  <2>2. \A i \in 0 .. n : f[i] = IF i = 0 THEN <<>> ELSE Extend(f[i - 1], rs[i])
        BY <2>1
  <2>3. \A i \in 0 .. n + 1 : g[i] = IF i = 0 THEN <<>> ELSE Extend(g[i - 1], rs[i])
    <3> SUFFICES ASSUME NEW i \in 0 .. n + 1 PROVE g[i] = IF i = 0 THEN <<>> ELSE Extend(g[i - 1], rs[i])
        OBVIOUS
    <3>1. CASE i = n + 1
      <4>1. i # 0 /\ i - 1 = n /\ n # n + 1 /\ n \in 0 .. n + 1
            BY <3>1
      <4>2. g[i] = Extend(f[n], rs[n + 1]) /\ g[i - 1] = f[n]
            BY <3>1, <4>1
      <4>3. QED
            BY <3>1, <4>1, <4>2
    <3>2. CASE i # n + 1
      <4>1. i \in 0 .. n /\ (i # 0 => i - 1 \in 0 .. n /\ i - 1 # n + 1)
            BY <3>2
      <4>2. g[i] = f[i] /\ (i # 0 => g[i - 1] = f[i - 1])
            BY <3>2, <4>1
      <4>3. QED
            BY <2>2, <4>1, <4>2
    <3>3. QED
          BY <3>1, <3>2
  <2>4. g = [i \in 0 .. n + 1 |-> g[i]]
        OBVIOUS
  <2> HIDE DEF g
  <2>5. Loop(g, n + 1)
        BY <2>3, <2>4
  <2>6. QED
        BY <2>5
<1> HIDE DEF S
<1>3. Len(rs) \in S
      BY <1>1, <1>2, Induction
<1> DEFINE upTo == CHOOSE f : Loop(f, Len(rs))
<1>4. Loop(upTo, Len(rs))
      BY <1>3 DEF S
<1>5. Merged(rs) = upTo[Len(rs)]
      BY DEF Merged
<1> HIDE DEF upTo
<1>6. \A i \in 0 .. Len(rs) : upTo[i] = IF i = 0 THEN <<>> ELSE Extend(upTo[i - 1], rs[i])
      BY <1>4
<1>7. upTo[0] = <<>> /\ \A i \in 1 .. Len(rs) : upTo[i] = Extend(upTo[i - 1], rs[i])
      BY <1>6
<1>8. QED
      BY <1>5, <1>7

LEMMA BytesByPrefix ==
    ASSUME NEW rs, Len(rs) \in Nat
    PROVE  \E f : /\ f[0] = 0 /\ Bytes(rs) = f[Len(rs)]
                  /\ \A i \in 1 .. Len(rs) : f[i] = f[i - 1] + (rs[i][2] - rs[i][1])
<1> DEFINE Loop(f, n) == f = [i \in 0 .. n |-> IF i = 0 THEN 0 ELSE f[i - 1] + (rs[i][2] - rs[i][1])]
           S == {n \in Nat : \E f : Loop(f, n)}
<1>1. 0 \in S
  <2>1. Loop([i \in 0 .. 0 |-> 0], 0)
        OBVIOUS
  <2>2. QED
        BY <2>1
<1>2. ASSUME NEW n \in Nat, n \in S PROVE n + 1 \in S
  <2>1. PICK f : Loop(f, n)
        BY <1>2
  <2> DEFINE g == [i \in 0 .. n + 1 |-> IF i = n + 1 THEN f[n] + (rs[n + 1][2] - rs[n + 1][1]) ELSE f[i]]
  <2>2. \A i \in 0 .. n : f[i] = IF i = 0 THEN 0 ELSE f[i - 1] + (rs[i][2] - rs[i][1])
        BY <2>1
  <2>3. \A i \in 0 .. n + 1 : g[i] = IF i = 0 THEN 0 ELSE g[i - 1] + (rs[i][2] - rs[i][1])
    <3> SUFFICES ASSUME NEW i \in 0 .. n + 1
                 PROVE  g[i] = IF i = 0 THEN 0 ELSE g[i - 1] + (rs[i][2] - rs[i][1])
        OBVIOUS
    <3>1. CASE i = n + 1
      <4>1. i # 0 /\ i - 1 = n /\ n # n + 1 /\ n \in 0 .. n + 1
            BY <3>1
      <4>2. g[i] = f[n] + (rs[n + 1][2] - rs[n + 1][1]) /\ g[i - 1] = f[n]
            BY <3>1, <4>1
      <4>3. QED
            BY <3>1, <4>1, <4>2
    <3>2. CASE i # n + 1
      <4>1. i \in 0 .. n /\ (i # 0 => i - 1 \in 0 .. n /\ i - 1 # n + 1)
            BY <3>2
      <4>2. g[i] = f[i] /\ (i # 0 => g[i - 1] = f[i - 1])
            BY <3>2, <4>1
      <4>3. QED
            BY <2>2, <4>1, <4>2
    <3>3. QED
          BY <3>1, <3>2
  <2>4. g = [i \in 0 .. n + 1 |-> g[i]]
        OBVIOUS
  <2> HIDE DEF g
  <2>5. Loop(g, n + 1)
        BY <2>3, <2>4
  <2>6. QED
        BY <2>5
<1> HIDE DEF S
<1>3. Len(rs) \in S
      BY <1>1, <1>2, Induction
<1> DEFINE upTo == CHOOSE f : Loop(f, Len(rs))
<1>4. Loop(upTo, Len(rs))
      BY <1>3 DEF S
<1>5. Bytes(rs) = upTo[Len(rs)]
      BY DEF Bytes
<1> HIDE DEF upTo
<1>6. \A i \in 0 .. Len(rs) : upTo[i] = IF i = 0 THEN 0 ELSE upTo[i - 1] + (rs[i][2] - rs[i][1])
      BY <1>4
<1>7. upTo[0] = 0 /\ \A i \in 1 .. Len(rs) : upTo[i] = upTo[i - 1] + (rs[i][2] - rs[i][1])
      BY <1>6
<1>8. QED
      BY <1>5, <1>7

\* A range holds at least one byte; the bytes of the first n ranges of a
\* sequence; and a sequence that could not be shorter.
ByteRange == {r \in Nat \X Nat : r[1] < r[2]}

Covered(q, n) == {b \in Nat : \E i \in 1 .. n : q[i][1] <= b /\ b < q[i][2]}

Gapped(q) == \A i \in 1 .. Len(q) - 1 : q[i][2] < q[i + 1][1]

LEMMA MaxOfTwo ==
    ASSUME NEW a \in Nat, NEW b \in Nat
    PROVE  Max({a, b}) \in Nat /\ Max({a, b}) \in {a, b} /\ a <= Max({a, b}) /\ b <= Max({a, b})
<1>1. \E x \in {a, b} : \A y \in {a, b} : x >= y
      OBVIOUS
<1>2. Max({a, b}) \in {a, b} /\ \A y \in {a, b} : Max({a, b}) >= y
      BY <1>1 DEF Max
<1>3. QED
      BY <1>2

\* A range that does not start before the last one, as in a sorted sequence.
LEMMA Extended ==
    ASSUME NEW m \in Seq(ByteRange), NEW r \in ByteRange, Gapped(m),
           m # <<>> => m[Len(m)][1] <= r[1]
    PROVE  LET e == Extend(m, r) IN
           /\ e \in Seq(ByteRange) /\ e # <<>> /\ e[Len(e)][1] <= r[1]
           /\ Gapped(e)
           /\ Covered(e, Len(e)) = Covered(m, Len(m)) \cup {b \in Nat : r[1] <= b /\ b < r[2]}
<1> DEFINE e == Extend(m, r)
           n == Len(m)
           new == {b \in Nat : r[1] <= b /\ b < r[2]}
<1>0. /\ n \in Nat /\ \A i \in 1 .. n : m[i] \in ByteRange /\ m[i][1] \in Nat /\ m[i][2] \in Nat /\ m[i][1] < m[i][2]
      /\ r[1] \in Nat /\ r[2] \in Nat /\ r[1] < r[2]
      BY DEF ByteRange
<1>1. CASE m # <<>> /\ r[1] <= Last(m)[2]
  <2> DEFINE top == Max({m[n][2], r[2]})
             last == <<m[n][1], top>>
  <2>1. n \in 1 .. n /\ n > 0
        BY <1>0, <1>1
  <2>2. top \in Nat /\ top \in {m[n][2], r[2]} /\ m[n][2] <= top /\ r[2] <= top
        BY <1>0, <2>1, MaxOfTwo
  <2>3. Last(m) = m[n]
        BY DEF Last
  <2>4. e = Append(Front(m), last)
        BY <1>1, <2>3 DEF Extend
  <2> HIDE DEF top
  <2>5. last \in ByteRange /\ last[1] = m[n][1] /\ last[2] = top
        BY <1>0, <2>1, <2>2 DEF ByteRange
  <2> HIDE DEF last
  <2>6. Front(m) \in Seq(ByteRange) /\ Len(Front(m)) = n - 1 /\ \A i \in 1 .. n - 1 : Front(m)[i] = m[i]
    <3>1. Front(m) = SubSeq(m, 1, n - 1)
          BY DEF Front
    <3>2. \A i \in 1 .. n - 1 : m[i] \in ByteRange
          BY <1>0
    <3>3. 1 \in Int /\ n - 1 \in Int
          BY <1>0
    <3>4. /\ SubSeq(m, 1, n - 1) \in Seq(ByteRange)
          /\ Len(SubSeq(m, 1, n - 1)) = IF 1 <= n - 1 THEN (n - 1) - 1 + 1 ELSE 0
          /\ \A i \in 1 .. (n - 1) - 1 + 1 : SubSeq(m, 1, n - 1)[i] = m[1 + i - 1]
          BY <3>2, <3>3, SubSeqProperties
    <3>5. (n - 1) - 1 + 1 = n - 1 /\ \A i \in 1 .. n - 1 : 1 + i - 1 = i
          BY <1>0
    <3>6. QED
          BY <2>1, <3>1, <3>4, <3>5
  <2>7. /\ e \in Seq(ByteRange) /\ Len(e) = n /\ e[n] = last
        /\ \A i \in 1 .. n - 1 : e[i] = m[i]
        BY <2>1, <2>4, <2>5, <2>6
  <2> HIDE DEF e
  <2>8. e # <<>> /\ e[Len(e)][1] <= r[1]
        BY <1>1, <2>1, <2>5, <2>7
  <2>9. Gapped(e)
    <3> SUFFICES ASSUME NEW i \in 1 .. n - 1 PROVE e[i][2] < e[i + 1][1]
        BY <2>7 DEF Gapped
    <3>1. m[i][2] < m[i + 1][1]
          BY DEF Gapped
    <3>2. e[i] = m[i] /\ e[i + 1][1] = m[i + 1][1]
          BY <2>5, <2>7
    <3>3. QED
          BY <3>1, <3>2
  <2>10. ASSUME NEW b \in Nat
         PROVE  b \in Covered(e, n) <=> b \in Covered(m, n) \/ b \in new
    <3>1. m[n][1] <= r[1] /\ r[1] <= m[n][2]
          BY <1>1, <2>3
    <3>2. b \in Covered(e, n) <=>
              (\E i \in 1 .. n - 1 : m[i][1] <= b /\ b < m[i][2]) \/ (m[n][1] <= b /\ b < top)
      <4>1. \A i : i \in 1 .. n <=> i \in 1 .. n - 1 \/ i = n
            BY <1>0, <2>1
      <4>2. QED
            BY <2>5, <2>7, <4>1 DEF Covered
    <3>3. b \in Covered(m, n) <=>
              (\E i \in 1 .. n - 1 : m[i][1] <= b /\ b < m[i][2]) \/ (m[n][1] <= b /\ b < m[n][2])
          BY <2>1 DEF Covered
    <3>4. (m[n][1] <= b /\ b < top) <=> (m[n][1] <= b /\ b < m[n][2]) \/ (r[1] <= b /\ b < r[2])
          BY <1>0, <2>1, <2>2, <3>1
    <3>5. QED
          BY <3>2, <3>3, <3>4
  <2>11. Covered(e, n) = Covered(m, n) \cup new
         BY <2>10 DEF Covered
  <2>12. QED
         BY <2>7, <2>8, <2>9, <2>11 DEF e
<1>2. CASE ~(m # <<>> /\ r[1] <= Last(m)[2])
  <2>1. e = Append(m, r)
        BY <1>2 DEF Extend
  <2>2. /\ e \in Seq(ByteRange) /\ Len(e) = n + 1 /\ e[n + 1] = r
        /\ \A i \in 1 .. n : e[i] = m[i]
        BY <1>0, <2>1
  <2> HIDE DEF e
  <2>3. e # <<>> /\ e[Len(e)][1] <= r[1]
        BY <1>0, <2>2
  <2>4. Gapped(e)
    <3> SUFFICES ASSUME NEW i \in 1 .. n PROVE e[i][2] < e[i + 1][1]
        BY <1>0, <2>2 DEF Gapped
    <3>1. CASE i # n
      <4>1. i \in 1 .. n - 1 /\ i + 1 \in 1 .. n
            BY <1>0, <3>1
      <4>2. m[i][2] < m[i + 1][1]
            BY <4>1 DEF Gapped
      <4>3. QED
            BY <2>2, <4>1, <4>2
    <3>2. CASE i = n
      <4>1. m # <<>> /\ Last(m) = m[n] /\ n \in 1 .. n
            BY <1>0, <3>2 DEF Last
      <4>2. m[n][2] < r[1]
            BY <1>0, <1>2, <4>1
      <4>3. QED
            BY <2>2, <3>2, <4>1, <4>2
    <3>3. QED
          BY <3>1, <3>2
  <2>5. ASSUME NEW b \in Nat
        PROVE  b \in Covered(e, n + 1) <=> b \in Covered(m, n) \/ b \in new
    <3>1. \A i : i \in 1 .. n + 1 <=> i \in 1 .. n \/ i = n + 1
          BY <1>0
    <3>2. b \in Covered(e, n + 1) <=>
              (\E i \in 1 .. n : e[i][1] <= b /\ b < e[i][2]) \/ (r[1] <= b /\ b < r[2])
          BY <2>2, <3>1 DEF Covered
    <3>3. (\E i \in 1 .. n : e[i][1] <= b /\ b < e[i][2]) <=> (\E i \in 1 .. n : m[i][1] <= b /\ b < m[i][2])
          BY <2>2
    <3>4. QED
          BY <3>2, <3>3 DEF Covered
  <2>6. Covered(e, n + 1) = Covered(m, n) \cup new
        BY <2>5 DEF Covered
  <2>7. QED
        BY <2>2, <2>3, <2>4, <2>6 DEF e
<1>3. QED
      BY <1>1, <1>2

\* The loop merges what is sorted into the ranges that could not be fewer.
Ascending(q) == \A i \in 1 .. Len(q) - 1 : q[i][1] <= q[i + 1][1]

LEMMA MergedIsExact ==
    ASSUME NEW q \in Seq(ByteRange), Ascending(q)
    PROVE  /\ Merged(q) \in Seq(ByteRange) /\ Gapped(Merged(q))
           /\ Covered(Merged(q), Len(Merged(q))) = Covered(q, Len(q))
<1>1. Len(q) \in Nat /\ \A i \in 1 .. Len(q) : q[i] \in ByteRange
      OBVIOUS
<1>2. PICK f : /\ f[0] = <<>> /\ Merged(q) = f[Len(q)]
               /\ \A i \in 1 .. Len(q) : f[i] = Extend(f[i - 1], q[i])
      BY <1>1, MergedByPrefix
<1> DEFINE Good(n) == /\ f[n] \in Seq(ByteRange) /\ Gapped(f[n])
                      /\ Covered(f[n], Len(f[n])) = Covered(q, n)
                      /\ f[n] # <<>> => n > 0 /\ f[n][Len(f[n])][1] <= q[n][1]
           S == {n \in Nat : n <= Len(q) => Good(n)}
<1>3. 0 \in S
  <2>1. <<>> \in Seq(ByteRange) /\ Len(<<>>) = 0
        OBVIOUS
  <2>2. Gapped(<<>>) /\ Covered(<<>>, 0) = {} /\ Covered(q, 0) = {}
        BY <2>1 DEF Gapped, Covered
  <2>3. Good(0)
        BY <1>2, <2>1, <2>2
  <2>4. QED
        BY <2>3
<1>4. ASSUME NEW n \in Nat, n \in S PROVE n + 1 \in S
  <2> SUFFICES ASSUME n + 1 <= Len(q) PROVE Good(n + 1)
      OBVIOUS
  <2>1. Good(n)
        BY <1>1, <1>4
  <2>2. n + 1 \in 1 .. Len(q) /\ (n + 1) - 1 = n
        BY <1>1
  <2>3. f[n + 1] = Extend(f[n], q[n + 1]) /\ q[n + 1] \in ByteRange
        BY <1>1, <1>2, <2>2
  <2> DEFINE r == q[n + 1]
  <2>4. ASSUME f[n] # <<>> PROVE f[n][Len(f[n])][1] <= r[1]
    <3>1. n \in 1 .. Len(q) - 1
          BY <1>1, <2>1, <2>2, <2>4
    <3>2. q[n][1] <= r[1]
          BY <3>1 DEF Ascending
    <3>3. Len(f[n]) \in 1 .. Len(f[n]) /\ f[n][Len(f[n])] \in ByteRange
          BY <2>1, <2>4
    <3>4. f[n][Len(f[n])][1] \in Nat /\ q[n][1] \in Nat /\ r[1] \in Nat
      <4>1. \A x \in ByteRange : x[1] \in Nat
            BY DEF ByteRange
      <4>2. q[n] \in ByteRange
            BY <1>1, <3>1
      <4>3. QED
            BY <2>3, <3>3, <4>1, <4>2
    <3>5. f[n][Len(f[n])][1] <= q[n][1]
          BY <2>1, <2>4
    <3>6. QED
          BY <3>2, <3>4, <3>5
  <2>5. /\ f[n + 1] \in Seq(ByteRange) /\ f[n + 1] # <<>> /\ f[n + 1][Len(f[n + 1])][1] <= r[1]
        /\ Gapped(f[n + 1])
        /\ Covered(f[n + 1], Len(f[n + 1])) = Covered(f[n], Len(f[n])) \cup {b \in Nat : r[1] <= b /\ b < r[2]}
        BY <2>1, <2>3, <2>4, Extended
  <2>6. Covered(q, n + 1) = Covered(q, n) \cup {b \in Nat : r[1] <= b /\ b < r[2]}
    <3>1. \A i : i \in 1 .. n + 1 <=> i \in 1 .. n \/ i = n + 1
          OBVIOUS
    <3>2. QED
          BY <3>1 DEF Covered
  <2>7. QED
        BY <2>1, <2>5, <2>6
<1> HIDE DEF S
<1>5. Len(q) \in S
      BY <1>1, <1>3, <1>4, Induction
<1>6. Good(Len(q))
      BY <1>1, <1>5 DEF S
<1>7. QED
      BY <1>2, <1>6

\* The lengths of ranges with gaps add up to the bytes they cover.
LEMMA BytesAreCounted ==
    ASSUME NEW m \in Seq(ByteRange), Gapped(m)
    PROVE  IsFiniteSet(Covered(m, Len(m))) /\ Bytes(m) = Cardinality(Covered(m, Len(m)))
<1>1. /\ Len(m) \in Nat
      /\ \A i \in 1 .. Len(m) : m[i][1] \in Nat /\ m[i][2] \in Nat /\ m[i][1] < m[i][2]
      BY DEF ByteRange
<1>2. PICK f : /\ f[0] = 0 /\ Bytes(m) = f[Len(m)]
               /\ \A i \in 1 .. Len(m) : f[i] = f[i - 1] + (m[i][2] - m[i][1])
      BY <1>1, BytesByPrefix
<1> DEFINE Good(n) == /\ IsFiniteSet(Covered(m, n)) /\ f[n] = Cardinality(Covered(m, n))
                      /\ n > 0 => \A b \in Covered(m, n) : b < m[n][2]
           S == {n \in Nat : n <= Len(m) => Good(n)}
<1>3. 0 \in S
  <2>1. Covered(m, 0) = {}
        BY DEF Covered
  <2>2. Good(0)
        BY <1>2, <2>1, FS_EmptySet
  <2>3. QED
        BY <2>2
<1>4. ASSUME NEW n \in Nat, n \in S PROVE n + 1 \in S
  <2> SUFFICES ASSUME n + 1 <= Len(m) PROVE Good(n + 1)
      OBVIOUS
  <2>1. Good(n)
        BY <1>1, <1>4
  <2>2. n + 1 \in 1 .. Len(m) /\ (n + 1) - 1 = n
        BY <1>1
  <2> DEFINE low == m[n + 1][1]
             high == m[n + 1][2]
             old == Covered(m, n)
             new == low .. high - 1
  <2>3. low \in Nat /\ high \in Nat /\ low < high
        BY <1>1, <2>2
  <2>4. f[n + 1] = f[n] + (high - low)
        BY <1>2, <2>2
  <2>5. \A b \in old : b \in Nat /\ b < low
    <3> SUFFICES ASSUME NEW b \in old PROVE b \in Nat /\ b < low
        OBVIOUS
    <3>1. b \in Nat /\ n > 0
          BY DEF Covered
    <3>2. n \in 1 .. Len(m) - 1
          BY <1>1, <2>2, <3>1
    <3>3. m[n][2] < low
          BY <3>2 DEF Gapped
    <3>4. b < m[n][2] /\ m[n][2] \in Nat
          BY <1>1, <2>1, <3>1, <3>2
    <3>5. QED
          BY <2>3, <3>1, <3>3, <3>4
  <2>6. Covered(m, n + 1) = old \cup new
    <3>1. \A i : i \in 1 .. n + 1 <=> i \in 1 .. n \/ i = n + 1
          OBVIOUS
    <3>2. \A b : b \in new <=> b \in Nat /\ low <= b /\ b < high
          BY <2>3
    <3> HIDE DEF new
    <3>3. \A b : b \in Covered(m, n + 1) <=> b \in old \/ b \in new
          BY <3>1, <3>2 DEF Covered
    <3>4. QED
          BY <3>3
  <2>7. IsFiniteSet(new) /\ Cardinality(new) = high - low
    <3>1. low \in Int /\ high - 1 \in Int /\ ~(low > high - 1) /\ (high - 1) - low + 1 = high - low
          BY <2>3
    <3>2. QED
          BY <3>1, FS_Interval
  <2>8. old \cap new = {}
        BY <2>3, <2>5
  <2> HIDE DEF old, new
  <2>9. IsFiniteSet(old) /\ Cardinality(old) = f[n] /\ Cardinality(old) \in Nat
        BY <2>1, FS_CardinalityType DEF old
  <2>10. IsFiniteSet(old \cup new) /\ Cardinality(old \cup new) = f[n] + (high - low) - 0
         BY <2>7, <2>8, <2>9, FS_Union, FS_EmptySet
  <2>11. f[n + 1] = Cardinality(Covered(m, n + 1)) /\ IsFiniteSet(Covered(m, n + 1))
    <3>1. f[n] \in Nat /\ high - low \in Nat
          BY <2>3, <2>9
    <3> HIDE DEF low, high
    <3>2. f[n] + (high - low) - 0 = f[n] + (high - low)
          BY <3>1
    <3>3. QED
          BY <2>4, <2>6, <2>10, <3>2
  <2>12. \A b \in Covered(m, n + 1) : b < high
         BY <2>3, <2>5, <2>6 DEF new
  <2>13. QED
         BY <2>11, <2>12
<1> HIDE DEF S
<1>5. Len(m) \in S
      BY <1>1, <1>3, <1>4, Induction
<1>6. Good(Len(m))
      BY <1>1, <1>5 DEF S
<1>7. QED
      BY <1>2, <1>6

\* Sorting keeps the ranges.
LEMMA SortedRanges ==
    ASSUME NEW rs \in Seq(ByteRange), NEW q \in Sorted(rs)
    PROVE  q \in Seq(ByteRange) /\ Ascending(q) /\ Covered(q, Len(q)) = Covered(rs, Len(rs))
<1> DEFINE all == {rs[i] : i \in 1 .. Len(rs)}
           n == Cardinality(all)
<1>1. Len(rs) \in Nat /\ DOMAIN rs = 1 .. Len(rs)
      OBVIOUS
<1>2. all \subseteq ByteRange /\ ToSet(rs) = all
      BY <1>1 DEF ToSet
<1>3. IsFiniteSet(all)
  <2>1. IsFiniteSet(1 .. Len(rs))
        BY <1>1, FS_Interval
  <2> DEFINE f == [i \in 1 .. Len(rs) |-> rs[i]]
  <2>2. f \in Surjection(1 .. Len(rs), all)
        BY DEF Surjection
  <2>3. QED
        BY <2>1, <2>2, FS_Surjection
<1>4. n \in Nat
      BY <1>3, FS_CardinalityType
<1> HIDE DEF all
<1>5. q \in [1 .. n -> all] /\ \A i, j \in 1 .. n : i # j => q[i] # q[j]
      BY <1>2 DEF Sorted, SetToSeqs
<1>6. q \in Surjection(1 .. n, all)
  <2>1. q \in Injection(1 .. n, all)
        BY <1>5 DEF Injection, IsInjective
  <2>2. IsFiniteSet(1 .. n) /\ Cardinality(1 .. n) = n
        BY <1>4, FS_Interval
  <2>3. QED
        BY <1>3, <2>1, <2>2, FS_Injection
<1>7. Len(q) = n /\ q \in Seq(ByteRange)
      BY <1>2, <1>4, <1>5
<1>8. Ascending(q)
      BY DEF Sorted, Ascending
<1>9. \A r \in all : \E i \in 1 .. n : q[i] = r
      BY <1>6 DEF Surjection
<1>10. \A i \in 1 .. n : q[i] \in all
       BY <1>5
<1>11. \A r : r \in all <=> \E i \in 1 .. Len(rs) : rs[i] = r
       BY DEF all
<1>12. ASSUME NEW b \in Nat
       PROVE  b \in Covered(q, n) <=> b \in Covered(rs, Len(rs))
  <2>1. b \in Covered(q, n) <=> \E r \in all : r[1] <= b /\ b < r[2]
        BY <1>9, <1>10 DEF Covered
  <2>2. b \in Covered(rs, Len(rs)) <=> \E r \in all : r[1] <= b /\ b < r[2]
        BY <1>11 DEF Covered
  <2>3. QED
        BY <2>1, <2>2
<1>13. QED
       BY <1>7, <1>8, <1>12 DEF Covered

\* While they are tracked, the ranges are the bytes served.
CoverageInv ==
    /\ ranges \in Seq(ByteRange) /\ Gapped(ranges) /\ Len(ranges) <= MaxTrackedRanges
    /\ saturated \in BOOLEAN /\ uniqueBytes \in Nat
    /\ served \subseteq Nat /\ IsFiniteSet(served)
    /\ saturated \/ (served = Covered(ranges, Len(ranges)) /\ uniqueBytes = Cardinality(served))
    /\ uniqueBytes <= Cardinality(served)

LEMMA CoverageInitInv == Init => CoverageInv
<1> SUFFICES ASSUME Init PROVE CoverageInv
    OBVIOUS
<1>1. ranges = <<>> /\ uniqueBytes = 0 /\ saturated = FALSE /\ served = {}
      BY DEF Init
<1>2. <<>> \in Seq(ByteRange) /\ Len(<<>>) = 0
      OBVIOUS
<1>3. Gapped(<<>>) /\ Covered(<<>>, 0) = {}
      BY <1>2 DEF Gapped, Covered
<1>4. IsFiniteSet({}) /\ Cardinality({}) = 0
      BY FS_EmptySet
<1>5. Len(ranges) <= MaxTrackedRanges
      BY <1>1, <1>2, CoverageAssumption
<1>6. uniqueBytes \in Nat /\ uniqueBytes = Cardinality(served) /\ uniqueBytes <= Cardinality(served)
      BY <1>1, <1>4
<1>7. served = Covered(ranges, Len(ranges))
      BY <1>1, <1>2, <1>3
<1>8. ranges \in Seq(ByteRange) /\ Gapped(ranges) /\ served \subseteq Nat /\ IsFiniteSet(served)
      BY <1>1, <1>2, <1>3, <1>4
<1>9. QED
      BY <1>1, <1>5, <1>6, <1>7, <1>8 DEF CoverageInv

\* A read that is noted: what is merged is the bytes served, the read included.
LEMMA NotedRanges ==
    ASSUME ranges \in Seq(ByteRange), served = Covered(ranges, Len(ranges)),
           NEW start \in Nat, NEW length \in Nat \ {0},
           NEW sorted \in Sorted(Append(ranges, <<start, start + length>>))
    PROVE  LET now == served \cup (start .. start + length - 1) IN
           /\ Merged(sorted) \in Seq(ByteRange) /\ Gapped(Merged(sorted))
           /\ IsFiniteSet(now) /\ now \subseteq Nat
           /\ now = Covered(Merged(sorted), Len(Merged(sorted)))
           /\ Bytes(Merged(sorted)) = Cardinality(now)
<1> DEFINE new == <<start, start + length>>
           all == Append(ranges, new)
           now == served \cup (start .. start + length - 1)
           n   == Len(ranges)
<1>1. start + length \in Nat /\ start < start + length
      OBVIOUS
<1>2. new \in ByteRange
      BY <1>1 DEF ByteRange
<1>3. /\ all \in Seq(ByteRange) /\ Len(all) = n + 1 /\ all[n + 1] = new /\ n \in Nat
      /\ \A i \in 1 .. n : all[i] = ranges[i]
      BY <1>2
<1>4. \A b : b \in start .. start + length - 1 <=> b \in Nat /\ start <= b /\ b < start + length
      OBVIOUS
<1> HIDE DEF all
<1>5. now = Covered(all, n + 1)
  <2>1. ASSUME NEW b \in Nat
        PROVE  b \in Covered(all, n + 1) <=> b \in Covered(ranges, n) \/ (start <= b /\ b < start + length)
    <3>1. \A i : i \in 1 .. n + 1 <=> i \in 1 .. n \/ i = n + 1
          BY <1>3
    <3>2. new[1] = start /\ new[2] = start + length
          OBVIOUS
    <3>3. b \in Covered(all, n + 1) <=>
              (\E i \in 1 .. n : all[i][1] <= b /\ b < all[i][2]) \/ (start <= b /\ b < start + length)
          BY <1>3, <3>1, <3>2 DEF Covered
    <3>4. (\E i \in 1 .. n : all[i][1] <= b /\ b < all[i][2]) <=>
              \E i \in 1 .. n : ranges[i][1] <= b /\ b < ranges[i][2]
          BY <1>3
    <3>5. QED
          BY <3>3, <3>4 DEF Covered
  <2>2. Covered(all, n + 1) \subseteq Nat /\ served \subseteq Nat
        BY DEF Covered
  <2>3. QED
        BY <1>4, <2>1, <2>2
<1>6. sorted \in Seq(ByteRange) /\ Ascending(sorted) /\ Covered(sorted, Len(sorted)) = now
      BY <1>3, <1>5, SortedRanges DEF all
<1> DEFINE merged == Merged(sorted)
<1>7. merged \in Seq(ByteRange) /\ Gapped(merged) /\ Covered(merged, Len(merged)) = now
      BY <1>6, MergedIsExact
<1> HIDE DEF merged, now
<1>8. IsFiniteSet(now) /\ Bytes(merged) = Cardinality(now)
      BY <1>7, BytesAreCounted
<1>9. now \subseteq Nat
      BY <1>7 DEF Covered
<1>10. QED
       BY <1>7, <1>8, <1>9 DEF merged, now

LEMMA CoverageStepInv ==
    CoverageInv /\ (Next \/ UNCHANGED coverageVars) => CoverageInv' /\ uniqueBytes' >= uniqueBytes
<1> SUFFICES ASSUME CoverageInv, Next \/ UNCHANGED coverageVars
             PROVE  CoverageInv' /\ uniqueBytes' >= uniqueBytes
    OBVIOUS
<1>1. uniqueBytes \in Nat /\ MaxTrackedRanges \in Nat
      BY CoverageAssumption DEF CoverageInv
<1>2. CASE UNCHANGED coverageVars
      BY <1>1, <1>2 DEF coverageVars, CoverageInv
<1>3. ASSUME NEW start \in Offset, NEW length \in Offset, NoteOverflow(start, length)
      PROVE  CoverageInv' /\ uniqueBytes' >= uniqueBytes
      BY <1>1, <1>3 DEF NoteOverflow, Saturate, CoverageInv
<1>4. ASSUME NEW start \in Offset, NEW length \in Offset, NoteNothing(length)
      PROVE  CoverageInv' /\ uniqueBytes' >= uniqueBytes
      BY <1>1, <1>4 DEF NoteNothing, vars, CoverageInv
<1>5. ASSUME NEW start \in Offset, NEW length \in Offset, Note(start, length)
      PROVE  CoverageInv' /\ uniqueBytes' >= uniqueBytes
  <2> DEFINE now == served \cup (start .. start + length - 1)
  <2>1. start \in Nat /\ length \in Nat \ {0} /\ ~saturated /\ served' = now
        BY <1>5, CoverageAssumption DEF Note, Offset
  <2>2. /\ ranges \in Seq(ByteRange) /\ served = Covered(ranges, Len(ranges))
        /\ uniqueBytes = Cardinality(served) /\ IsFiniteSet(served)
        BY <2>1 DEF CoverageInv
  <2>3. PICK sorted \in Sorted(Append(ranges, <<start, start + length>>)) :
              IF TooMany(Merged(sorted))
              THEN Saturate /\ ranges' = <<>>
              ELSE /\ ranges' = Merged(sorted)
                   /\ uniqueBytes' = Bytes(Merged(sorted))
                   /\ UNCHANGED saturated
        BY <1>5 DEF Note
  <2> DEFINE merged == Merged(sorted)
  <2>4. /\ merged \in Seq(ByteRange) /\ Gapped(merged)
        /\ IsFiniteSet(now) /\ now \subseteq Nat
        /\ now = Covered(merged, Len(merged))
        /\ Bytes(merged) = Cardinality(now)
        BY <2>1, <2>2, NotedRanges
  <2>5. served \subseteq now
        OBVIOUS
  <2> HIDE DEF merged, now
  <2>6. Cardinality(served) <= Cardinality(now)
        BY <2>4, <2>5, FS_Subset
  <2>7. Cardinality(now) \in Nat
        BY <2>4, FS_CardinalityType
  <2>8. Len(merged) \in Nat
        BY <2>4
  <2>9. CASE TooMany(merged)
    <3>1. saturated' = TRUE /\ uniqueBytes' = uniqueBytes /\ ranges' = <<>>
          BY <2>3, <2>9 DEF Saturate, merged
    <3>2. <<>> \in Seq(ByteRange) /\ Len(<<>>) = 0
          OBVIOUS
    <3>3. Gapped(<<>>)
          BY <3>2 DEF Gapped
    <3>4. ranges' \in Seq(ByteRange) /\ Gapped(ranges)' /\ Len(ranges)' <= MaxTrackedRanges
      <4>1. Gapped(ranges)' <=> Gapped(ranges')
            BY DEF Gapped
      <4>2. QED
            BY <1>1, <3>1, <3>2, <3>3, <4>1
    <3>5. uniqueBytes' \in Nat /\ uniqueBytes' >= uniqueBytes /\ uniqueBytes' <= Cardinality(served')
          BY <1>1, <2>1, <2>2, <2>6, <2>7, <3>1
    <3>6. QED
          BY <2>1, <2>4, <3>1, <3>4, <3>5 DEF CoverageInv
  <2>10. CASE ~TooMany(merged)
    <3>1. ranges' = merged /\ uniqueBytes' = Cardinality(now) /\ saturated' = saturated
          BY <2>3, <2>4, <2>10 DEF merged
    <3>2. Gapped(ranges)' /\ Covered(ranges, Len(ranges))' = now
          BY <2>4, <3>1 DEF Gapped, Covered
    <3>3. Len(ranges)' <= MaxTrackedRanges
          BY <1>1, <2>8, <2>10, <3>1 DEF TooMany
    <3>4. uniqueBytes' \in Nat /\ uniqueBytes' >= uniqueBytes /\ uniqueBytes' <= Cardinality(served')
          BY <1>1, <2>1, <2>2, <2>6, <2>7, <3>1
    <3>5. saturated' \in BOOLEAN
          BY <3>1 DEF CoverageInv
    <3>6. QED
          BY <2>1, <2>4, <3>1, <3>2, <3>3, <3>4, <3>5 DEF CoverageInv
  <2>11. QED
         BY <2>9, <2>10
<1>6. QED
      BY <1>2, <1>3, <1>4, <1>5 DEF Next

\* A thread of the server notes a read or leaves the coverage alone.
LEMMA ServerStepCoverage == [ServerNext]_serverVars => Next \/ UNCHANGED coverageVars
BY DEF ServerNext, serverVars, Listener, CheckStop, WouldBlock, AcceptFails, Accept, Spawn, TurnAway,
       Connect, Handshake, Request, Answer, EndWorker, EndServing, Stop, Join, Leave

\* The progress of a transfer counts each byte served once, in as few ranges as
\* there are gaps, in whatever order the workers note their reads.
THEOREM CoverageIsExact == ServerSpec => []CountIsExact
<1>1. ServerInit => CoverageInv
      BY CoverageInitInv DEF ServerInit
<1>2. CoverageInv /\ [ServerNext]_serverVars => CoverageInv'
      BY CoverageStepInv, ServerStepCoverage
<1>3. CoverageInv => CountIsExact
      BY DEF CoverageInv, CountIsExact, Gapped
<1>4. QED
      BY <1>1, <1>2, <1>3, PTL DEF ServerSpec

\* The progress never goes back: neither when a read is repeated, nor when two
\* ranges become one, nor when the tracking stops.
THEOREM ProgressIsMonotone == ServerSpec => ProgressNeverDecreases
<1>1. ServerInit => CoverageInv
      BY CoverageInitInv DEF ServerInit
<1>2. CoverageInv /\ [ServerNext]_serverVars => CoverageInv'
      BY CoverageStepInv, ServerStepCoverage
<1>3. CoverageInv /\ [ServerNext]_serverVars => [uniqueBytes' >= uniqueBytes]_vars
      BY CoverageStepInv, ServerStepCoverage
<1>4. QED
      BY <1>1, <1>2, <1>3, PTL DEF ServerSpec, ProgressNeverDecreases
=============================================================================
