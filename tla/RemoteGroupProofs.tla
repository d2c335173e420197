-------------------------- MODULE RemoteGroupProofs --------------------------
(***************************************************************************)
(* Theorems about RemoteGroup, for every value of its constants: any number *)
(* of streams, of reads, of operations and of requests that are handled    *)
(* late.                                                                   *)
(*                                                                         *)
(* The argument is about the commands under way, those that threads send   *)
(* and those of abandoned connections.  Their numbers tell them apart, and *)
(* one with the number of its session has had its effect, so that an       *)
(* answer means what it says however often the command was sent.           *)
(***************************************************************************)
EXTENDS RemoteGroup, FiniteSetTheorems, TLAPS

-----------------------------------------------------------------------------
(* The invariant. *)

ReaderSteps == {"idle", "gate", "credentials", "send", "join", "joined", "alloc", "range", "serving"}
UISteps     == {"idle", "scan", "flag", "unpause", "alloc", "send"}

Command == [source : Source, nonce : Nonce, seq : Nat, op : Opcode \cup {"Begin"}]

SessionRecord == [state : States, seq : Nat, consumed : SUBSET Opcode]

TypesOK ==
    /\ held \in [Source -> Nonce \cup {0}]
    /\ nextSeq \in [Source -> Nat \ {0}]
    /\ completionSent \in [Source -> BOOLEAN]
    /\ reads \in [Source -> 0 .. MaxReads]
    /\ server \in [Source -> [Nonce -> SessionRecord]]
    /\ failed \in [Source -> SUBSET Nonce]
    /\ pc \in [Thread -> ReaderSteps \cup UISteps]
    /\ DOMAIN cmd = Thread
    /\ late \subseteq Command
    /\ ui \in [op : UIOps, at : Nat \ {0}, picked : SUBSET Source, acked : BOOLEAN]
    /\ report \in [op : UIOps \cup {"none"}, sources : SUBSET Source, ok : BOOLEAN]

\* What a reader sends, and to which of its sessions.
ReaderOK(s) ==
    /\ pc[s] \in ReaderSteps
    /\ pc[s] # "idle" => reads[s] >= 1
    /\ pc[s] \in {"join", "joined", "alloc", "range", "serving"} => held[s] # 0
    /\ pc[s] = "alloc" => cmd[s].op \in {"Pause", "Cancel", "Complete"}
    /\ pc[s] = "send" =>
          /\ cmd[s] \in Command /\ cmd[s].source = s /\ cmd[s].op # "Resume"
          /\ cmd[s].op = "Begin" => held[s] = 0 /\ cmd[s].nonce = reads[s]
          /\ cmd[s].op # "Begin" => held[s] # 0 /\ cmd[s].nonce = held[s]

ReadersOK == \A s \in Source : ReaderOK(s)

\* The streams of an operation have started, and it sends what it is for.
UIOK ==
    /\ pc[UI] \in UISteps
    /\ \A s \in ui.picked \cup report.sources : held[s] # 0
    /\ pc[UI] \in {"flag", "unpause", "alloc", "send"} => ui.op # "Progress" /\ ui.picked # {}
    /\ pc[UI] = "unpause" => ui.op = "Cancel"
    /\ pc[UI] \in {"alloc", "send"} => ui.at \in ui.picked
    /\ pc[UI] = "send" => /\ cmd[UI] \in Command
                          /\ cmd[UI].source = ui.at /\ cmd[UI].nonce = held[ui.at] /\ cmd[UI].op = ui.op
    /\ report.op # "none" => pc[UI] = "idle"

\* Sessions belong to reads that were made, and numbers to commands that were.
SessionsOK ==
    \A s \in Source :
        /\ held[s] # 0 => Session(s).state # "none"
        /\ \A n \in Nonce :
              /\ server[s][n].state # "none" => n <= reads[s]
              /\ server[s][n].seq < nextSeq[s]

\* The commands that may still be handled.
Pending == late \cup {cmd[t] : t \in {u \in Thread : pc[u] = "send"}}

\* The session has obeyed the command.
Settled(c, x) ==
    /\ c.op \in x.consumed
    /\ c.op = "Pause" => x.state # "Running"
    /\ c.op = "Cancel" => x.state \notin Active

Target(c) == server[c.source][c.nonce]

CommandOK(c) ==
    /\ c \in Command
    /\ c.op = "Begin" => c.nonce <= reads[c.source]
    /\ c.op # "Begin" =>
          /\ 0 < c.seq /\ c.seq < nextSeq[c.source]
          /\ Target(c).state # "none"
          /\ c.seq = Target(c).seq => Settled(c, Target(c))

SameNumber(c, d) ==
    c.op # "Begin" /\ d.op # "Begin" /\ c.source = d.source /\ c.nonce = d.nonce /\ c.seq = d.seq

CommandsOK ==
    /\ \A c \in Pending : CommandOK(c)
    /\ \A c, d \in Pending : SameNumber(c, d) => c.op = d.op

\* A completion is known to the source or about to be.
CompletionOK ==
    \A s \in Source : completionSent[s] =>
        \/ Completing(s)
        \/ pc[s] = "idle" /\ held[s] # 0 /\ "Complete" \in Session(s).consumed

\* What the commands that a session has consumed say of its state: a Complete that
\* did not end it found it paused.
HistoryOK ==
    \A s \in Source, n \in Nonce :
        /\ server[s][n].state = "none" => server[s][n].consumed = {}
        /\ server[s][n].state = "Paused" => "Pause" \in server[s][n].consumed
        /\ server[s][n].state = "Running" /\ "Complete" \in server[s][n].consumed
              => "Pause" \in server[s][n].consumed

\* The stream knows of its session n, or that it may exist.
Known(s, n) == n = held[s] \/ (Opening(s) /\ cmd[s].nonce = n) \/ n \in failed[s]

\* The sessions that exist are known, and those that a late begin would open.
KnownOK ==
    /\ \A s \in Source, n \in Nonce : server[s][n].state # "none" => Known(s, n)
    /\ \A c \in late : c.op = "Begin" => Known(c.source, c.nonce)

\* No late Resume of the stream is numbered above q.
Silent(s, q) == \A c \in late : c.source = s /\ c.nonce = held[s] /\ c.op = "Resume" => c.seq <= q

Ended(s)  == Session(s).state \notin Active
Halted(s) == Session(s).state # "Running" /\ Silent(s, Session(s).seq)

\* The stream obeys a control and no command under way changes that.
Obeyed(op, s) == (op = "Cancel" => Ended(s)) /\ (op = "Pause" => Halted(s))

\* The streams an operation has acknowledged so far obey it.
OperationOK ==
    /\ pc[UI] \in {"alloc", "send"} /\ ui.acked => \A s \in ui.picked : s < ui.at => Obeyed(ui.op, s)
    /\ pc[UI] = "send" /\ ui.op = "Pause" => Silent(ui.at, cmd[UI].seq)
    /\ report.ok => \A s \in report.sources : Obeyed(report.op, s)

Inv ==
    /\ TypesOK /\ ReadersOK /\ UIOK /\ SessionsOK /\ CommandsOK /\ CompletionOK /\ OperationOK
    /\ HistoryOK /\ KnownOK

-----------------------------------------------------------------------------
(* Threads and streams. *)

LEMMA Threads ==
    /\ UI \in Thread /\ UI \notin Source
    /\ \A s \in Source : s \in Thread /\ s # UI /\ s \in Nat
    /\ Thread = Source \cup {UI}
  BY GroupAssumption DEF GroupAssumption, Source, UI, Thread

\* The steps of Next, one by one.
LEMMA NextCases ==
    ASSUME Next
    PROVE  \/ \E s \in Source : \/ ReadAt(s) \/ Gate(s) \/ Credentials(s) \/ Join(s) \/ Joined(s) \/ Alloc(s)
                                \/ RangeReaches(s) \/ RangeFails(s) \/ RangeEnds(s) \/ RangeAnswered(s)
           \/ \E op \in UIOps : UIStart(op)
           \/ Scan \/ Scanned \/ SetFlag \/ UIAlloc
           \/ \E t \in Thread : SendAnswered(t) \/ SendFails(t) \/ SendEnds(t)
           \/ HandleLate
  BY Zenon DEF Next, Read, Operate, Send

\* The next picked stream, if there is one: it is picked and none is skipped.
LEMMA NextPickedIsNext ==
    ASSUME ui.picked \subseteq Source, NEW i \in Nat
    PROVE  /\ NextPicked(i) \in Nat \ {0}
           /\ NextPicked(i) <= NumSources =>
                 NextPicked(i) \in ui.picked /\ \A s \in ui.picked : s < NextPicked(i) => s <= i
           /\ NextPicked(i) > NumSources => \A s \in ui.picked : s <= i
<1> DEFINE rest == {s \in ui.picked : s > i}
<1>0. \A s \in ui.picked : s \in Nat /\ s <= NumSources
      BY GroupAssumption DEF Source, GroupAssumption
<1>1. CASE rest = {}
  <2>1. NextPicked(i) = NumSources + 1
        BY <1>1 DEF NextPicked
  <2>2. \A s \in ui.picked : s <= i
        BY <1>0, <1>1
  <2>3. QED
        BY <2>1, <2>2, GroupAssumption DEF GroupAssumption
<1>2. CASE rest # {}
  <2> DEFINE less == {p \in Nat \X Nat : p[1] < p[2]}
  <2>1. \E m \in rest : \A r \in rest : ~(<<r, m>> \in less)
    <3>1. rest \subseteq Nat
          BY <1>0
    <3>2. IsWellFoundedOn(less, Nat)
          BY NatLessThanWellFounded DEF OpToRel
    <3>3. QED
          BY <1>2, <3>1, <3>2, WFMin
  <2>2. \E m \in rest : \A r \in rest : m <= r
    <3>1. PICK m \in rest : \A r \in rest : ~(<<r, m>> \in less)
          BY <2>1
    <3>2. \A r \in rest : m <= r
      <4> SUFFICES ASSUME NEW r \in rest PROVE m <= r
          OBVIOUS
      <4>1. <<r, m>> \in Nat \X Nat /\ r \in Nat /\ m \in Nat
            BY <1>0
      <4>2. ~(<<r, m>>[1] < <<r, m>>[2])
            BY <3>1, <4>1
      <4>3. QED
            BY <4>1, <4>2
    <3>3. QED
          BY <3>2
  <2>3. NextPicked(i) = CHOOSE m \in rest : \A r \in rest : m <= r
        BY <1>2 DEF NextPicked
  <2>4. NextPicked(i) \in rest /\ \A r \in rest : NextPicked(i) <= r
        BY <2>2, <2>3
  <2>5. QED
        BY <1>0, <2>4, GroupAssumption DEF GroupAssumption
<1>3. QED
      BY <1>1, <1>2

-----------------------------------------------------------------------------
(* What a command makes of the sessions. *)

\* The session x after command c.
AfterCommand(x, c) ==
    IF c.op = "Begin" THEN IF x.state = "none" THEN [x EXCEPT !.state = "Running"] ELSE x
    ELSE IF x.state = "none" \/ c.seq <= x.seq THEN x
         ELSE [state |-> Obey(c.op, x.state), seq |-> c.seq, consumed |-> x.consumed \cup {c.op}]

LEMMA SessionAfterCommand ==
    ASSUME NEW x \in SessionRecord, NEW c \in Command
    PROVE  /\ AfterCommand(x, c) \in SessionRecord
           /\ \/ AfterCommand(x, c) = x /\ (c.op # "Begin" => x.state = "none" \/ c.seq <= x.seq)
              \/ /\ c.op = "Begin" /\ x.state = "none"
                 /\ AfterCommand(x, c).state = "Running"
                 /\ AfterCommand(x, c).seq = x.seq /\ AfterCommand(x, c).consumed = x.consumed
              \/ /\ c.op # "Begin" /\ x.state # "none" /\ c.seq > x.seq
                 /\ AfterCommand(x, c).state = Obey(c.op, x.state)
                 /\ AfterCommand(x, c).seq = c.seq /\ AfterCommand(x, c).consumed = x.consumed \cup {c.op}
<1>1. c.op \in Opcode \cup {"Begin"} /\ c.seq \in Nat /\ x.seq \in Nat /\ x.state \in States
      BY DEF Command, SessionRecord
<1>2. CASE c.op = "Begin"
      BY <1>1, <1>2 DEF AfterCommand, SessionRecord, States, Active
<1>3. CASE c.op # "Begin"
  <2>1. Obey(c.op, x.state) \in States
        BY <1>1 DEF Obey, States, Active
  <2>2. CASE x.state = "none" \/ c.seq <= x.seq
        BY <1>3, <2>2 DEF AfterCommand
  <2>3. CASE x.state # "none" /\ c.seq > x.seq
    <3>1. AfterCommand(x, c) = [state |-> Obey(c.op, x.state), seq |-> c.seq,
                                consumed |-> x.consumed \cup {c.op}]
          BY <1>1, <1>3, <2>3 DEF AfterCommand
    <3>2. QED
          BY <1>1, <1>3, <2>1, <2>3, <3>1 DEF SessionRecord
  <2>4. QED
        BY <1>1, <2>2, <2>3
<1>4. QED
      BY <1>2, <1>3

\* Nothing undoes what a session has obeyed, and only a Resume makes it run again.
LEMMA ObeyFacts ==
    \A op \in Opcode, z \in States \ {"none"} :
        /\ Obey(op, z) # "none"
        /\ z \notin Active => Obey(op, z) = z
        /\ op = "Cancel" => Obey(op, z) \notin Active
        /\ op = "Pause" => Obey(op, z) # "Running"
        /\ Obey(op, z) = "Running" => z = "Running" \/ op = "Resume"
  BY DEF Obey, States, Active, Opcode

LEMMA HandledSessions ==
    ASSUME TypesOK, NEW c \in Command
    PROVE  /\ Handled(c) \in [Source -> [Nonce -> SessionRecord]]
           /\ \A s \in Source, n \in Nonce :
                 Handled(c)[s][n] = IF s = c.source /\ n = c.nonce THEN AfterCommand(server[s][n], c)
                                    ELSE server[s][n]
<1>1. c.source \in Source /\ c.nonce \in Nonce /\ c.seq \in Nat
      BY DEF Command
<1>2. /\ server[c.source][c.nonce] \in SessionRecord /\ server[c.source] \in [Nonce -> SessionRecord]
      /\ server[c.source][c.nonce].seq \in Nat
      BY <1>1 DEF TypesOK, SessionRecord
<1>3. Handled(c) = [server EXCEPT ![c.source][c.nonce] = AfterCommand(server[c.source][c.nonce], c)]
  <2>1. c.seq > server[c.source][c.nonce].seq <=> ~(c.seq <= server[c.source][c.nonce].seq)
        BY <1>1, <1>2
  <2>2. QED
        BY <2>1, Zenon DEF Handled, AfterCommand, Handle
<1>4. AfterCommand(server[c.source][c.nonce], c) \in SessionRecord
      BY <1>2, SessionAfterCommand
<1> DEFINE y == AfterCommand(server[c.source][c.nonce], c)
<1> HIDE DEF y
<1>5. Handled(c) = [server EXCEPT ![c.source] = [server[c.source] EXCEPT ![c.nonce] = y]]
      BY <1>1, <1>2, <1>3 DEF TypesOK, y
<1>6. [server[c.source] EXCEPT ![c.nonce] = y] \in [Nonce -> SessionRecord]
      BY <1>2, <1>4 DEF y
<1>7. Handled(c) \in [Source -> [Nonce -> SessionRecord]]
      BY <1>1, <1>5, <1>6 DEF TypesOK
<1>8. ASSUME NEW s \in Source, NEW n \in Nonce
      PROVE  Handled(c)[s][n] = IF s = c.source /\ n = c.nonce THEN y ELSE server[s][n]
      BY <1>1, <1>2, <1>5 DEF TypesOK
<1>9. QED
      BY <1>7, <1>8 DEF y

-----------------------------------------------------------------------------
(* What a step makes of the sessions, the numbers and the commands under way. *)

Others(t) == \A u \in Thread \ {t} : pc'[u] = pc[u] /\ cmd'[u] = cmd[u]

ReadsGrow == \A s \in Source : reads'[s] \in {reads[s], reads[s] + 1}

Quiet ==
    /\ UNCHANGED <<server, held, nextSeq>>
    /\ Pending' \subseteq Pending
    /\ ReadsGrow

Begins(s) ==
    /\ UNCHANGED <<server, held, nextSeq, reads>>
    /\ reads[s] >= 1
    /\ Pending' \subseteq Pending \cup {BeginRequest(s)}

Controls(s, op) ==
    /\ UNCHANGED <<server, held, reads>>
    /\ held[s] # 0
    /\ TakeSequence(s)
    /\ Pending' \subseteq Pending \cup {Control(s, op)}

\* The reader of a Begin may learn that it has its session.
Handles(c) ==
    /\ server' = Handled(c)
    /\ UNCHANGED <<nextSeq, reads>>
    /\ Pending' \subseteq Pending
    /\ \/ held' = held
       \/ /\ c.op = "Begin" /\ held[c.source] = 0
          /\ held' = [held EXCEPT ![c.source] = c.nonce]

Effect ==
    \/ Quiet
    \/ \E s \in Source : Begins(s)
    \/ \E s \in Source, op \in Opcode : Controls(s, op)
    \/ \E c \in Pending : Handles(c)

\* What is under way after a step of one thread.
LEMMA PendingAfter ==
    ASSUME NEW t \in Thread, Others(t), NEW S, late' \subseteq Pending,
           pc'[t] = "send" => cmd'[t] \in Pending \cup S
    PROVE  Pending' \subseteq Pending \cup S
<1> SUFFICES ASSUME NEW u \in Thread, pc'[u] = "send" PROVE cmd'[u] \in Pending \cup S
    BY DEF Pending
<1>1. CASE u = t
      BY <1>1
<1>2. CASE u # t
      BY <1>2 DEF Others, Pending
<1>3. QED
      BY <1>1, <1>2

LEMMA NothingNew ==
    ASSUME NEW t \in Thread, Others(t), late' = late,
           pc'[t] = "send" => pc[t] = "send" /\ cmd'[t] = cmd[t]
    PROVE  Pending' \subseteq Pending
<1>1. late' \subseteq Pending
      BY DEF Pending
<1>2. pc'[t] = "send" => cmd'[t] \in Pending \cup {}
      BY DEF Pending
<1>3. QED
      BY <1>1, <1>2, PendingAfter

LEMMA SentIsPending ==
    ASSUME NEW t \in Thread, pc[t] = "send"
    PROVE  cmd[t] \in Pending
  BY DEF Pending

LEMMA PendingIsCommand ==
    ASSUME TypesOK, ReadersOK, UIOK
    PROVE  Pending \subseteq Command
<1> SUFFICES ASSUME NEW t \in Thread, pc[t] = "send" PROVE cmd[t] \in Command
    BY DEF Pending, TypesOK
<1>1. QED
      BY Threads DEF ReadersOK, ReaderOK, UIOK

\* The end of a command.
LEMMA AfterThread ==
    ASSUME TypesOK, ReadersOK, UIOK, NEW t \in Thread, pc[t] = "send", NEW ok \in BOOLEAN, After(t, ok)
    PROVE  /\ Others(t) /\ pc'[t] # "send" /\ cmd'[t] = NoCmd
           /\ UNCHANGED <<nextSeq, reads>>
           /\ IF t # UI /\ ok /\ cmd[t].op = "Begin"
              THEN held[t] = 0 /\ held' = [held EXCEPT ![t] = cmd[t].nonce] ELSE held' = held
<1>1. DOMAIN pc = Thread /\ DOMAIN cmd = Thread /\ UI \in Thread
      BY Threads DEF TypesOK
<1>2. cmd' = [cmd EXCEPT ![t] = NoCmd]
      BY DEF After
<1>3. CASE t = UI
  <2>1. UIAfter(ok)
        BY <1>3 DEF After
  <2>2. UNCHANGED streamVars /\ (pc' = [pc EXCEPT ![UI] = "idle"] \/ pc' = [pc EXCEPT ![UI] = "alloc"])
        BY <2>1 DEF UIAfter, UIReturn
  <2>3. QED
        BY <1>1, <1>2, <1>3, <2>2 DEF Others, streamVars
<1>4. CASE t # UI
  <2>1. ReaderAfter(t, ok) /\ t \in Source
        BY <1>4, Threads DEF After
  <2>2. ReaderOK(t)
        BY <2>1 DEF ReadersOK
  <2>3. Others(t) /\ pc'[t] # "send"
        BY <1>1, <1>2, <2>1 DEF ReaderAfter, Others
  <2>4. QED
        BY <1>1, <1>2, <1>4, <2>1, <2>2, <2>3 DEF ReaderAfter, ReaderOK
<1>5. QED
      BY <1>3, <1>4

LEMMA SendEffect ==
    ASSUME TypesOK, ReadersOK, UIOK, NEW t \in Thread, SendAnswered(t) \/ SendFails(t) \/ SendEnds(t)
    PROVE  Quiet \/ \E c \in Pending : Handles(c)
<1>0. pc[t] = "send" /\ cmd[t] \in Pending
      BY SentIsPending DEF SendAnswered, SendFails, SendEnds, SendExhausted, SendInterrupted, SendGivesUp
<1>1. ASSUME NEW ok \in BOOLEAN, After(t, ok), late' = late
      PROVE  Pending' \subseteq Pending
      BY <1>0, <1>1, AfterThread, NothingNew
<1>2. CASE SendAnswered(t)
  <2>1. /\ server' = Handled(cmd[t]) /\ After(t, Accepted(cmd[t])) /\ late' = late
        /\ Accepted(cmd[t]) \in BOOLEAN
        BY <1>2 DEF SendAnswered, Accepted
  <2>2. /\ UNCHANGED <<nextSeq, reads>>
        /\ IF t # UI /\ Accepted(cmd[t]) /\ cmd[t].op = "Begin"
           THEN held[t] = 0 /\ held' = [held EXCEPT ![t] = cmd[t].nonce] ELSE held' = held
        BY <1>0, <2>1, AfterThread
  <2>3. t # UI => cmd[t].source = t
        BY <1>0, Threads DEF ReadersOK, ReaderOK
  <2>4. Pending' \subseteq Pending
        BY <1>1, <2>1
  <2>5. Handles(cmd[t])
        BY <2>1, <2>2, <2>3, <2>4 DEF Handles
  <2>6. QED
        BY <1>0, <2>5
<1>3. CASE SendFails(t)
  <2>1. UNCHANGED <<nextSeq, reads, held>> /\ Others(t)
    <3>1. CASE After(t, FALSE)
          BY <1>0, <3>1, AfterThread
    <3>2. CASE cmd' = [cmd EXCEPT ![t] = Again(@)] /\ UNCHANGED <<pc, streamVars>>
          BY <3>2 DEF TypesOK, Others, streamVars
    <3>3. QED
          BY <1>3, <3>1, <3>2 DEF SendFails
  <2>2. late' \subseteq Pending
        BY <1>0, <1>3 DEF SendFails, Pending
  <2>3. pc'[t] = "send" => cmd'[t] \in Pending \cup {}
    <3>1. CASE After(t, FALSE)
          BY <1>0, <3>1, AfterThread
    <3>2. CASE cmd' = [cmd EXCEPT ![t] = Again(@)]
          BY <1>0, <3>2 DEF TypesOK, Again
    <3>3. QED
          BY <1>3, <3>1, <3>2 DEF SendFails
  <2>4. Pending' \subseteq Pending
        BY <2>1, <2>2, <2>3, PendingAfter
  <2>5. server' = server \/ server' = Handled(cmd[t])
        BY <1>3 DEF SendFails
  <2>6. QED
        BY <1>0, <2>1, <2>4, <2>5 DEF Quiet, Handles, ReadsGrow
<1>4. CASE SendEnds(t)
  <2>1. After(t, FALSE) /\ UNCHANGED <<server, late>>
        BY <1>4 DEF SendEnds, SendExhausted, SendInterrupted, SendGivesUp
  <2>2. UNCHANGED <<nextSeq, reads, held>>
        BY <1>0, <2>1, AfterThread
  <2>3. Pending' \subseteq Pending
        BY <1>1, <2>1
  <2>4. QED
        BY <2>1, <2>2, <2>3 DEF Quiet, ReadsGrow
<1>5. QED
      BY <1>2, <1>3, <1>4

LEMMA ReadEffect ==
    ASSUME TypesOK, ReadersOK, NEW s \in Source,
           \/ ReadAt(s) \/ Gate(s) \/ Credentials(s) \/ Join(s) \/ Joined(s) \/ Alloc(s)
           \/ RangeReaches(s) \/ RangeFails(s) \/ RangeEnds(s) \/ RangeAnswered(s)
    PROVE  Quiet \/ Begins(s) \/ \E op \in Opcode : Controls(s, op)
<1>0. /\ DOMAIN pc = Thread /\ DOMAIN cmd = Thread /\ s \in Thread /\ ReaderOK(s)
      /\ \A r \in Source : reads[r] \in Nat
      BY Threads DEF TypesOK, ReadersOK
<1>1. ASSUME UNCHANGED <<server, held, nextSeq, late>>, Others(s), pc'[s] # "send", ReadsGrow
      PROVE  Quiet
      BY <1>0, <1>1, NothingNew DEF Quiet
<1>2. CASE ReadAt(s)
  <2>1. Others(s) /\ pc'[s] # "send"
        BY <1>0, <1>2 DEF ReadAt, GoTo, Others
  <2>2. ReadsGrow
        BY <1>0, <1>2 DEF ReadAt, ReadsGrow, TypesOK
  <2>3. QED
        BY <1>1, <1>2, <2>1, <2>2 DEF ReadAt
<1>r. reads' = reads => ReadsGrow
      BY <1>0 DEF ReadsGrow
<1>3. CASE Gate(s) \/ Join(s) \/ Joined(s)
  <2>1. Others(s) /\ pc'[s] # "send"
        BY <1>0, <1>3 DEF Gate, Join, Joined, GoTo, Others
  <2>2. QED
        BY <1>1, <1>3, <1>r, <2>1 DEF Gate, Join, Joined, streamVars
<1>4. CASE RangeReaches(s) \/ RangeFails(s) \/ RangeEnds(s)
  <2>1. Others(s) /\ pc'[s] # "send"
        BY <1>0, <1>4 DEF RangeReaches, RangeFails, RangeEnds, RangeExhausted, RangeInterrupted,
                          RangeGivesUp, GoTo, Others
  <2>2. QED
        BY <1>1, <1>4, <1>r, <2>1 DEF RangeReaches, RangeFails, RangeEnds, RangeExhausted, RangeInterrupted,
                                      RangeGivesUp, streamVars
<1>5. CASE RangeAnswered(s)
  <2>1. Others(s) /\ pc'[s] # "send"
        BY <1>0, <1>5 DEF RangeAnswered, RangeCancelled, RangeData, RangeOfPaused, RangeAtEnd, GoTo, Others
  <2>2. QED
        BY <1>1, <1>5, <1>r, <2>1 DEF RangeAnswered
<1>6. CASE Credentials(s)
  <2>1. Others(s) /\ UNCHANGED <<server, held, nextSeq, reads, late>>
        BY <1>0, <1>6 DEF Credentials, GoTo, Others, streamVars
  <2>2. CASE held[s] # 0
    <3>1. pc'[s] # "send"
          BY <1>0, <1>6, <2>2 DEF Credentials, GoTo
    <3>2. QED
          BY <1>1, <1>r, <2>1, <3>1
  <2>3. CASE held[s] = 0
    <3>1. cmd'[s] = BeginRequest(s) /\ reads[s] >= 1
          BY <1>0, <1>6, <2>3 DEF Credentials, ReaderOK
    <3>2. late' \subseteq Pending
          BY <2>1 DEF Pending
    <3>3. Pending' \subseteq Pending \cup {BeginRequest(s)}
          BY <1>0, <2>1, <3>1, <3>2, PendingAfter
    <3>4. QED
          BY <2>1, <3>1, <3>3 DEF Begins
  <2>4. QED
        BY <2>2, <2>3
<1>7. CASE Alloc(s)
  <2>1. Others(s) /\ UNCHANGED <<server, held, reads, late>> /\ TakeSequence(s) /\ held[s] # 0
        BY <1>0, <1>7 DEF Alloc, GoTo, Others, ReaderOK
  <2>2. cmd'[s] = Control(s, cmd[s].op) /\ cmd[s].op \in Opcode
        BY <1>0, <1>7 DEF Alloc, ReaderOK, Opcode
  <2>3. late' \subseteq Pending
        BY <2>1 DEF Pending
  <2>4. Pending' \subseteq Pending \cup {Control(s, cmd[s].op)}
        BY <1>0, <2>1, <2>2, <2>3, PendingAfter
  <2>5. QED
        BY <2>1, <2>2, <2>4 DEF Controls
<1>8. QED
      BY <1>2, <1>3, <1>4, <1>5, <1>6, <1>7

LEMMA UIEffect ==
    ASSUME TypesOK, UIOK,
           (\E op \in UIOps : UIStart(op)) \/ Scan \/ Scanned \/ SetFlag \/ UIAlloc
    PROVE  Quiet \/ \E s \in Source, op \in Opcode : Controls(s, op)
<1>0. /\ DOMAIN pc = Thread /\ DOMAIN cmd = Thread /\ UI \in Thread
      /\ \A r \in Source : reads[r] \in Nat
      BY Threads DEF TypesOK
<1>1. ASSUME UNCHANGED streamVars, UNCHANGED <<server, late>>, Others(UI), pc'[UI] # "send"
      PROVE  Quiet
      BY <1>0, <1>1, NothingNew DEF Quiet, ReadsGrow, streamVars
<1>2. ASSUME NEW op \in UIOps, UIStart(op) PROVE Quiet
  <2>1. Others(UI) /\ pc'[UI] # "send"
        BY <1>0, <1>2 DEF UIStart, GoTo, Others
  <2>2. QED
        BY <1>1, <1>2, <2>1 DEF UIStart
<1>3. CASE Scan
  <2>1. Others(UI) /\ pc'[UI] # "send"
        BY <1>0, <1>3 DEF Scan, Others
  <2>2. QED
        BY <1>1, <1>3, <2>1 DEF Scan
<1>4. CASE Scanned
  <2>1. Others(UI) /\ pc'[UI] # "send"
        BY <1>0, <1>4 DEF Scanned, ProgressReturns, NothingStarted, UIReturn, GoTo, Others
  <2>2. QED
        BY <1>1, <1>4, <2>1 DEF Scanned
<1>5. CASE SetFlag
  <2>1. Others(UI) /\ pc'[UI] # "send"
        BY <1>0, <1>5 DEF SetFlag, SetCancelled, SetPaused, GoTo, Others
  <2>2. QED
        BY <1>1, <1>5, <2>1 DEF SetFlag
<1>6. CASE UIAlloc
  <2>1. /\ Others(UI) /\ UNCHANGED <<server, held, reads, late>> /\ TakeSequence(ui.at)
        /\ cmd'[UI] = Control(ui.at, ui.op)
        BY <1>0, <1>6 DEF UIAlloc, GoTo, Others
  <2>2. ui.at \in Source /\ held[ui.at] # 0 /\ ui.op \in Opcode
        BY <1>6 DEF UIAlloc, UIOK, TypesOK, UIOps, Opcode
  <2>3. late' \subseteq Pending
        BY <2>1 DEF Pending
  <2>4. Pending' \subseteq Pending \cup {Control(ui.at, ui.op)}
        BY <1>0, <2>1, <2>3, PendingAfter
  <2>5. QED
        BY <2>1, <2>2, <2>4 DEF Controls
<1>7. QED
      BY <1>2, <1>3, <1>4, <1>5, <1>6

LEMMA StepEffect ==
    ASSUME TypesOK, ReadersOK, UIOK, [Next]_vars
    PROVE  Effect
<1>1. CASE UNCHANGED vars
  <2>1. Pending' = Pending
        BY <1>1 DEF vars, Pending
  <2>2. QED
        BY <1>1, <2>1 DEF vars, streamVars, Effect, Quiet, ReadsGrow, TypesOK
<1>2. CASE HandleLate
  <2>1. PICK c \in late : server' = Handled(c) /\ late' = late \ {c}
                          /\ UNCHANGED <<streamVars, pc, cmd>>
        BY <1>2 DEF HandleLate
  <2>2. c \in Pending /\ Pending' \subseteq Pending
        BY <2>1 DEF Pending
  <2>3. QED
        BY <2>1, <2>2 DEF Effect, Handles, streamVars
<1>3. ASSUME NEW s \in Source,
             \/ ReadAt(s) \/ Gate(s) \/ Credentials(s) \/ Join(s) \/ Joined(s) \/ Alloc(s)
             \/ RangeReaches(s) \/ RangeFails(s) \/ RangeEnds(s) \/ RangeAnswered(s)
      PROVE  Effect
      BY <1>3, ReadEffect, Zenon DEF Effect
<1>4. ASSUME NEW t \in Thread, SendAnswered(t) \/ SendFails(t) \/ SendEnds(t) PROVE Effect
      BY <1>4, SendEffect, Zenon DEF Effect
<1>5. CASE (\E op \in UIOps : UIStart(op)) \/ Scan \/ Scanned \/ SetFlag \/ UIAlloc
      BY <1>5, UIEffect, Zenon DEF Effect
<1>6. QED
      BY NextCases, <1>1, <1>2, <1>3, <1>4, <1>5

-----------------------------------------------------------------------------
(* The sessions and the commands. *)

LEMMA NewCommands ==
    ASSUME TypesOK, NEW s \in Source
    PROVE  /\ reads[s] >= 1 => BeginRequest(s) \in Command
           /\ held[s] # 0 => \A op \in Opcode : Control(s, op) \in Command
<1>1. reads[s] \in 0 .. MaxReads /\ held[s] \in Nonce \cup {0} /\ nextSeq[s] \in Nat \ {0}
      BY DEF TypesOK
<1>2. reads[s] >= 1 => reads[s] \in Nonce
      BY <1>1, GroupAssumption DEF GroupAssumption, Nonce
<1>3. QED
      BY <1>1, <1>2 DEF BeginRequest, Control, Command

LEMMA EffectTypes ==
    ASSUME TypesOK, ReadersOK, UIOK, Effect
    PROVE  /\ held' \in [Source -> Nonce \cup {0}]
           /\ nextSeq' \in [Source -> Nat \ {0}]
           /\ server' \in [Source -> [Nonce -> SessionRecord]]
           /\ Pending' \subseteq Command
<1>0. Pending \subseteq Command
      BY PendingIsCommand
<1>1. CASE Quiet
      BY <1>0, <1>1 DEF Quiet, TypesOK
<1>2. ASSUME NEW s \in Source, Begins(s)
      PROVE  UNCHANGED <<held, nextSeq, server>> /\ Pending' \subseteq Command
      BY <1>0, <1>2, NewCommands DEF Begins
<1>3. ASSUME NEW s \in Source, NEW op \in Opcode, Controls(s, op)
      PROVE  /\ UNCHANGED <<held, server>> /\ Pending' \subseteq Command
             /\ nextSeq' \in [Source -> Nat \ {0}]
  <2>1. Pending' \subseteq Command
        BY <1>0, <1>3, NewCommands DEF Controls
  <2>2. nextSeq[s] + 1 \in Nat \ {0}
        BY DEF TypesOK
  <2>3. QED
        BY <1>3, <2>1, <2>2 DEF Controls, TakeSequence, TypesOK
<1>4. ASSUME NEW c \in Pending, Handles(c)
      PROVE  /\ UNCHANGED nextSeq /\ Pending' \subseteq Command
             /\ held' \in [Source -> Nonce \cup {0}]
             /\ server' \in [Source -> [Nonce -> SessionRecord]]
  <2>1. c \in Command /\ c.nonce \in Nonce
        BY <1>0 DEF Command
  <2>2. held' \in [Source -> Nonce \cup {0}]
        BY <1>4, <2>1 DEF Handles, TypesOK
  <2>3. server' \in [Source -> [Nonce -> SessionRecord]]
        BY <1>4, <2>1, HandledSessions DEF Handles
  <2>4. QED
        BY <1>0, <1>4, <2>2, <2>3 DEF Handles
<1>5. QED
      BY <1>1, <1>2, <1>3, <1>4 DEF Effect, TypesOK

\* What a session can become, and when.
Follows(x, y, here, c) ==
    \/ y = x
    \/ /\ here /\ c.op = "Begin" /\ x.state = "none"
       /\ y.state = "Running" /\ y.seq = x.seq /\ y.consumed = x.consumed
    \/ /\ here /\ c.op # "Begin" /\ x.state # "none" /\ c.seq > x.seq
       /\ y.state = Obey(c.op, x.state) /\ y.seq = c.seq /\ y.consumed = x.consumed \cup {c.op}

LEMMA HandledFollows ==
    ASSUME TypesOK, NEW c \in Command, server' = Handled(c), NEW s \in Source, NEW n \in Nonce
    PROVE  Follows(server[s][n], server'[s][n], s = c.source /\ n = c.nonce, c)
<1>1. server[s][n] \in SessionRecord
      BY DEF TypesOK
<1>2. server'[s][n] = IF s = c.source /\ n = c.nonce THEN AfterCommand(server[s][n], c) ELSE server[s][n]
      BY HandledSessions
<1>3. CASE s = c.source /\ n = c.nonce
      BY <1>1, <1>2, <1>3, SessionAfterCommand DEF Follows
<1>4. CASE ~(s = c.source /\ n = c.nonce)
      BY <1>2, <1>4 DEF Follows
<1>5. QED
      BY <1>3, <1>4

\* The parts of the invariant that are about the sessions of one stream.
LEMMA SessionsStep == TypesOK /\ ReadersOK /\ UIOK /\ SessionsOK /\ CommandsOK /\ Effect => SessionsOK'
<1> SUFFICES ASSUME TypesOK, ReadersOK, UIOK, SessionsOK, CommandsOK, Effect,
                    NEW s \in Source
             PROVE  /\ held'[s] # 0 => server'[s][held'[s]].state # "none"
                    /\ \A n \in Nonce : /\ server'[s][n].state # "none" => n <= reads'[s]
                                        /\ server'[s][n].seq < nextSeq'[s]
    BY DEF SessionsOK, Session
<1>0. /\ held[s] # 0 => server[s][held[s]].state # "none"
      /\ \A n \in Nonce : /\ server[s][n].state # "none" => n <= reads[s]
                          /\ server[s][n].seq < nextSeq[s]
      BY DEF SessionsOK, Session
<1>t. /\ reads[s] \in Nat /\ nextSeq[s] \in Nat /\ held[s] \in Nonce \cup {0}
      /\ \A n \in Nonce : server[s][n].seq \in Nat /\ server[s][n].state \in States /\ n \in Nat
  <2>1. server[s] \in [Nonce -> SessionRecord] /\ reads[s] \in Nat /\ nextSeq[s] \in Nat
        /\ held[s] \in Nonce \cup {0}
        BY DEF TypesOK
  <2>2. \A n \in Nonce : n \in Nat
        BY DEF Nonce
  <2>3. \A n \in Nonce : server[s][n] \in SessionRecord
        BY <2>1
  <2>4. QED
        BY <2>1, <2>2, <2>3 DEF SessionRecord
<1>1. CASE Quiet
  <2>1. reads'[s] \in {reads[s], reads[s] + 1}
        BY <1>1 DEF Quiet, ReadsGrow
  <2>2. \A n \in Nonce : n <= reads[s] => n <= reads'[s]
        BY <1>t, <2>1
  <2>3. QED
        BY <1>0, <1>1, <2>2 DEF Quiet
<1>2. ASSUME NEW r \in Source, Begins(r) PROVE UNCHANGED <<held, server, reads, nextSeq>>
      BY <1>2 DEF Begins
<1>3. ASSUME NEW r \in Source, NEW op \in Opcode, Controls(r, op)
      PROVE  UNCHANGED <<held, server, reads>> /\ nextSeq'[s] \in {nextSeq[s], nextSeq[s] + 1}
      BY <1>3 DEF Controls, TakeSequence, TypesOK
<1>4. ASSUME NEW c \in Pending, Handles(c)
      PROVE  /\ held'[s] # 0 => server'[s][held'[s]].state # "none"
             /\ \A n \in Nonce : /\ server'[s][n].state # "none" => n <= reads'[s]
                                 /\ server'[s][n].seq < nextSeq'[s]
  <2>1. c \in Command /\ CommandOK(c)
        BY PendingIsCommand DEF CommandsOK
  <2>2. c.source \in Source /\ c.nonce \in Nonce /\ c.op \in Opcode \cup {"Begin"} /\ c.seq \in Nat
        BY <2>1 DEF Command
  <2>3. \A n \in Nonce : Follows(server[s][n], server'[s][n], s = c.source /\ n = c.nonce, c)
        BY <1>4, <2>1, HandledFollows DEF Handles
  <2>4. ASSUME NEW n \in Nonce
        PROVE  /\ server[s][n].state # "none" => server'[s][n].state # "none"
               /\ server'[s][n].state # "none" => n <= reads[s]
               /\ server'[s][n].seq < nextSeq[s]
    <3>1. CASE server'[s][n] = server[s][n]
          BY <1>0, <3>1
    <3>2. CASE /\ s = c.source /\ n = c.nonce /\ c.op = "Begin"
               /\ server'[s][n].state = "Running" /\ server'[s][n].seq = server[s][n].seq
          BY <1>0, <2>1, <3>2 DEF CommandOK
    <3>3. CASE /\ s = c.source /\ n = c.nonce /\ c.op # "Begin" /\ server[s][n].state # "none"
               /\ server'[s][n].state = Obey(c.op, server[s][n].state) /\ server'[s][n].seq = c.seq
      <4>1. server'[s][n].state # "none"
            BY <1>t, <2>2, <3>3, ObeyFacts
      <4>2. QED
            BY <1>0, <2>1, <3>3, <4>1 DEF CommandOK
    <3>4. QED
          BY <2>3, <3>1, <3>2, <3>3 DEF Follows
  <2>5. ASSUME held'[s] # 0 PROVE server'[s][held'[s]].state # "none"
    <3>1. CASE held'[s] = held[s]
          BY <1>0, <1>t, <2>4, <2>5, <3>1
    <3>2. CASE held'[s] # held[s]
      <4>1. c.op = "Begin" /\ s = c.source /\ held'[s] = c.nonce
            BY <1>4, <2>2, <3>2 DEF Handles, TypesOK
      <4>2. server'[s][c.nonce] = AfterCommand(server[s][c.nonce], c)
            BY <1>4, <2>1, <2>2, <4>1, HandledSessions DEF Handles
      <4>3. server[s][c.nonce] \in SessionRecord
            BY <2>2 DEF TypesOK
      <4>4. server'[s][c.nonce].state # "none"
            BY <4>1, <4>2, <4>3 DEF AfterCommand, SessionRecord
      <4>5. QED
            BY <4>1, <4>4
    <3>3. QED
          BY <3>1, <3>2
  <2>6. QED
        BY <1>4, <2>4, <2>5 DEF Handles
<1>5. CASE UNCHANGED <<held, server, reads>> /\ nextSeq'[s] \in {nextSeq[s], nextSeq[s] + 1}
      BY <1>0, <1>t, <1>5
<1>6. QED
      BY <1>0, <1>1, <1>2, <1>3, <1>4, <1>5 DEF Effect

\* A command that was sent stays as it was, and one that is handled settles itself
\* and those that share its number.
LEMMA CommandKept ==
    ASSUME TypesOK, CommandsOK, NEW c \in Pending, c \in Command, server' = Handled(c),
           UNCHANGED <<nextSeq, reads>>, NEW d \in Pending, d \in Command
    PROVE  CommandOK(d)'
<1>0. d.source \in Source /\ d.nonce \in Nonce /\ d.op \in Opcode \cup {"Begin"} /\ CommandOK(d) /\ CommandOK(c)
      BY DEF Command, CommandsOK
<1> DEFINE x == server[d.source][d.nonce]
           y == server'[d.source][d.nonce]
<1>1. Follows(x, y, d.source = c.source /\ d.nonce = c.nonce, c)
      BY <1>0, HandledFollows
<1>t. x \in SessionRecord /\ x.state \in States /\ c.op \in Opcode \cup {"Begin"}
      BY <1>0 DEF TypesOK, SessionRecord, Command
<1> HIDE DEF x, y
<1>2. CASE d.op = "Begin"
      BY <1>0, <1>2 DEF CommandOK
<1>3. CASE d.op # "Begin"
  <2>1. /\ 0 < d.seq /\ d.seq < nextSeq[d.source] /\ x.state # "none"
        /\ d.seq = x.seq => Settled(d, x)
        BY <1>0, <1>3 DEF CommandOK, Target, x
  <2>2. y.state # "none" /\ (d.seq = y.seq => Settled(d, y))
    <3>1. CASE y = x
          BY <2>1, <3>1
    <3>2. CASE /\ d.source = c.source /\ d.nonce = c.nonce /\ c.op # "Begin" /\ y.seq = c.seq
               /\ y.state = Obey(c.op, x.state) /\ y.consumed = x.consumed \cup {c.op}
      <4>1. c.op \in Opcode /\ x.state \in States \ {"none"}
            BY <1>t, <2>1, <3>2
      <4>2. y.state # "none" /\ Settled(c, y)
            BY <3>2, <4>1, ObeyFacts DEF Settled
      <4>3. d.seq = y.seq => d.op = c.op
            BY <1>3, <3>2 DEF CommandsOK, SameNumber
      <4>4. QED
            BY <4>2, <4>3 DEF Settled
    <3>3. QED
          BY <1>1, <2>1, <3>1, <3>2 DEF Follows
  <2>3. QED
        BY <1>0, <1>3, <2>1, <2>2 DEF CommandOK, Target, y
<1>4. QED
      BY <1>2, <1>3

LEMMA CommandsStep ==
    TypesOK /\ ReadersOK /\ UIOK /\ SessionsOK /\ CommandsOK /\ Effect => CommandsOK'
<1> SUFFICES ASSUME TypesOK, ReadersOK, UIOK, SessionsOK, CommandsOK, Effect PROVE CommandsOK'
    OBVIOUS
<1>0. /\ Pending \subseteq Command /\ \A c \in Pending : CommandOK(c)
      /\ \A c, d \in Pending : SameNumber(c, d) => c.op = d.op
      BY PendingIsCommand DEF CommandsOK
<1>t. \A c \in Command : c.source \in Source /\ c.nonce \in Nonce /\ c.seq \in Nat /\ c.op \in Opcode \cup {"Begin"}
      BY DEF Command
<1>n. \A s \in Source : nextSeq[s] \in Nat /\ reads[s] \in Nat /\ (\A n \in Nonce : server[s][n].seq \in Nat)
      BY DEF TypesOK, SessionRecord
<1>1. ASSUME UNCHANGED <<server, nextSeq>>, ReadsGrow, NEW c \in Pending PROVE CommandOK(c)'
  <2>1. /\ c \in Command /\ CommandOK(c) /\ c.source \in Source
        /\ reads'[c.source] \in {reads[c.source], reads[c.source] + 1}
        BY <1>0, <1>t, <1>1 DEF ReadsGrow
  <2>2. c.op = "Begin" => c.nonce <= reads'[c.source]
    <3>1. c.nonce \in Nat /\ reads[c.source] \in Nat
          BY <1>n, <1>t, <2>1 DEF Nonce
    <3>2. QED
          BY <2>1, <3>1 DEF CommandOK
  <2>3. QED
        BY <1>1, <2>1, <2>2 DEF CommandOK, Target
<1>2. CASE Quiet
  <2>1. \A c \in Pending' : c \in Pending /\ CommandOK(c)'
        BY <1>1, <1>2 DEF Quiet
  <2>2. QED
        BY <1>0, <2>1 DEF CommandsOK, SameNumber
<1>3. ASSUME NEW s \in Source, Begins(s) PROVE CommandsOK'
  <2>1. ReadsGrow
        BY <1>n, <1>3 DEF Begins, ReadsGrow
  <2>2. BeginRequest(s) \in Command /\ BeginRequest(s).op = "Begin"
        /\ BeginRequest(s).nonce = reads[s] /\ BeginRequest(s).source = s
        BY <1>3, NewCommands DEF Begins, BeginRequest
  <2>3. ASSUME NEW b, b = BeginRequest(s) PROVE CommandOK(b)'
        BY <1>3, <1>n, <2>2, <2>3 DEF CommandOK, Begins
  <2>4. \A c \in Pending' : CommandOK(c)' /\ (c.op # "Begin" => c \in Pending)
        BY <1>1, <1>3, <2>1, <2>2, <2>3 DEF Begins
  <2>5. QED
        BY <1>0, <2>4 DEF CommandsOK, SameNumber
<1>4. ASSUME NEW s \in Source, NEW op \in Opcode, Controls(s, op) PROVE CommandsOK'
  <2> DEFINE new == Control(s, op)
  <2>1. /\ new \in Command /\ new.op = op /\ new.op # "Begin" /\ new.source = s /\ new.nonce = held[s]
        /\ new.seq = nextSeq[s] /\ held[s] \in Nonce
        BY <1>4, NewCommands DEF Controls, Control, Opcode, TypesOK
  <2>2. /\ UNCHANGED <<server, reads>>
        /\ nextSeq'[s] = nextSeq[s] + 1 /\ \A r \in Source : r # s => nextSeq'[r] = nextSeq[r]
        BY <1>4 DEF Controls, TakeSequence, TypesOK
  <2>3. ASSUME NEW c \in Pending PROVE CommandOK(c)'
    <3>1. c \in Command /\ c.source \in Source /\ CommandOK(c) /\ c.seq \in Nat
          BY <1>0, <1>t
    <3>2. c.seq < nextSeq[c.source] => c.seq < nextSeq'[c.source]
          BY <1>n, <2>2, <3>1
    <3>3. QED
          BY <2>2, <3>1, <3>2 DEF CommandOK, Target
  <2>4. ASSUME NEW d, d = Control(s, op) PROVE CommandOK(d)'
    <3>1. Target(d)' = server[s][held[s]]
          BY <2>1, <2>2, <2>4 DEF Target
    <3>2. server[s][held[s]].state # "none" /\ server[s][held[s]].seq < nextSeq[s]
          BY <2>1, <1>4 DEF SessionsOK, Session, Controls
    <3>3. 0 < nextSeq[s] /\ nextSeq[s] < nextSeq[s] + 1 /\ server[s][held[s]].seq # nextSeq[s]
          BY <1>n, <2>1, <3>2 DEF TypesOK
    <3>4. QED
          BY <2>1, <2>2, <2>4, <3>1, <3>2, <3>3 DEF CommandOK
  <2>5. ASSUME NEW c \in Pending PROVE ~SameNumber(c, new)
    <3>1. c \in Command /\ CommandOK(c) /\ c.seq \in Nat
          BY <1>0, <1>t
    <3>2. c.op # "Begin" /\ c.source = s => c.seq # nextSeq[s]
          BY <1>n, <3>1 DEF CommandOK
    <3>3. QED
          BY <2>1, <3>2 DEF SameNumber
  <2>6. \A c \in Pending' : CommandOK(c)' /\ (c \in Pending \/ c = new)
        BY <1>4, <2>3, <2>4 DEF Controls
  <2>7. \A c, d \in Pending' : SameNumber(c, d) => c.op = d.op
    <3> SUFFICES ASSUME NEW c \in Pending', NEW d \in Pending', SameNumber(c, d) PROVE c.op = d.op
        OBVIOUS
    <3>1. (c \in Pending \/ c = new) /\ (d \in Pending \/ d = new) /\ SameNumber(d, c)
          BY <2>6 DEF SameNumber
    <3>2. QED
          BY <1>0, <2>5, <3>1
  <2>8. QED
        BY <2>6, <2>7 DEF CommandsOK, SameNumber
<1>5. ASSUME NEW c \in Pending, Handles(c) PROVE CommandsOK'
  <2>1. \A d \in Pending' : d \in Pending /\ CommandOK(d)'
        BY <1>0, <1>5, CommandKept DEF Handles
  <2>2. QED
        BY <1>0, <2>1 DEF CommandsOK, SameNumber
<1>6. QED
      BY <1>2, <1>3, <1>4, <1>5 DEF Effect

\* A control that its server accepted is settled there, whichever of its copies
\* was handled first.
LEMMA AcceptedIsSettled ==
    ASSUME TypesOK, ReadersOK, UIOK, CommandsOK, NEW t \in Thread, pc[t] = "send",
           cmd[t].op # "Begin", Accepted(cmd[t]), server' = Handled(cmd[t]),
           NEW s \in Source, NEW n \in Nonce, s = cmd[t].source, n = cmd[t].nonce
    PROVE  Settled(cmd[t], server'[s][n]) /\ server'[s][n].seq = cmd[t].seq
<1> DEFINE c == cmd[t]
           x == server[s][n]
           y == server'[s][n]
<1>1. c \in Command /\ CommandOK(c) /\ c.seq \in Nat /\ c.op \in Opcode
      BY SentIsPending, PendingIsCommand DEF CommandsOK, Command
<1>2. x \in SessionRecord /\ x.seq \in Nat /\ x.state \in States
      BY DEF TypesOK, SessionRecord
<1>3. y = AfterCommand(x, c)
      BY <1>1, HandledSessions
<1>4. x.state # "none" /\ (c.seq = x.seq => Settled(c, x)) /\ c.seq >= x.seq
      BY <1>1 DEF CommandOK, Target, Accepted
<1> HIDE DEF c, x, y
<1>5. CASE c.seq = x.seq
  <2>1. y = x
        BY <1>2, <1>3, <1>4, <1>5 DEF AfterCommand, c
  <2>2. QED
        BY <1>4, <1>5, <2>1 DEF c, x, y
<1>6. CASE c.seq # x.seq
  <2>1. /\ y.state = Obey(c.op, x.state) /\ y.seq = c.seq /\ y.consumed = x.consumed \cup {c.op}
        BY <1>1, <1>2, <1>3, <1>4, <1>6, SessionAfterCommand DEF c
  <2>2. Settled(c, y)
        BY <1>1, <1>2, <1>4, <2>1, ObeyFacts DEF Settled
  <2>3. QED
        BY <2>1, <2>2 DEF c, y
<1>7. QED
      BY <1>5, <1>6

-----------------------------------------------------------------------------
(* The readers. *)

SameReader(r) ==
    /\ pc'[r] = pc[r] /\ cmd'[r] = cmd[r] /\ held'[r] = held[r]
    /\ reads'[r] = reads[r] /\ completionSent'[r] = completionSent[r]

\* What stays when the thread of one stream takes a step.
ReaderKept(s) ==
    /\ ReaderOK(s)'
    /\ \A r \in Source \ {s} : SameReader(r)
    /\ pc'[UI] = pc[UI] /\ cmd'[UI] = cmd[UI] /\ UNCHANGED uiVars
    /\ pc' \in [Thread -> ReaderSteps \cup UISteps] /\ DOMAIN cmd' = Thread
    /\ reads' \in [Source -> 0 .. MaxReads]
    /\ completionSent' \in [Source -> BOOLEAN]

\* A step that changes where the reader is and what it is about to send.
LEMMA ReaderMoves ==
    ASSUME TypesOK, ReadersOK, NEW s \in Source, NEW step \in ReaderSteps, GoTo(s, step),
           DOMAIN cmd' = Thread, \A u \in Thread \ {s} : cmd'[u] = cmd[u],
           UNCHANGED <<held, uiVars>>,
           completionSent' \in [Source -> BOOLEAN],
           \A r \in Source \ {s} : completionSent'[r] = completionSent[r],
           ReaderOK(s)'
    PROVE  reads' = reads => ReaderKept(s)
<1>1. /\ DOMAIN pc = Thread /\ DOMAIN cmd = Thread /\ DOMAIN completionSent = Source
      /\ s \in Thread /\ UI \in Thread /\ s # UI /\ \A r \in Source : r \in Thread
      BY Threads DEF TypesOK
<1>2. pc' \in [Thread -> ReaderSteps \cup UISteps]
      BY <1>1 DEF GoTo, TypesOK
<1>3. \A r \in Source \ {s} : /\ pc'[r] = pc[r] /\ cmd'[r] = cmd[r]
                              /\ completionSent'[r] = completionSent[r]
      BY <1>1 DEF GoTo
<1>4. pc'[UI] = pc[UI] /\ cmd'[UI] = cmd[UI]
      BY <1>1 DEF GoTo
<1>5. QED
      BY <1>2, <1>3, <1>4 DEF ReaderKept, SameReader, TypesOK

LEMMA ReadKeeps ==
    ASSUME TypesOK, ReadersOK, NEW s \in Source,
           \/ ReadAt(s) \/ Gate(s) \/ Credentials(s) \/ Join(s) \/ Joined(s) \/ Alloc(s)
           \/ RangeReaches(s) \/ RangeFails(s) \/ RangeEnds(s) \/ RangeAnswered(s)
    PROVE  ReaderKept(s)
<1>0. /\ DOMAIN pc = Thread /\ DOMAIN cmd = Thread /\ s \in Thread /\ ReaderOK(s)
      /\ reads[s] \in 0 .. MaxReads /\ completionSent \in [Source -> BOOLEAN]
      /\ reads \in [Source -> 0 .. MaxReads] /\ UI \in Thread /\ UI # s /\ \A r \in Source : r \in Thread
      BY Threads DEF TypesOK, ReadersOK
<1>1. ASSUME NEW step \in ReaderSteps, GoTo(s, step), UNCHANGED <<held, cmd, reads, completionSent, uiVars>>,
             step \notin {"alloc", "send"},
             step # "idle" => pc[s] # "idle",
             step \in {"join", "joined", "range", "serving"} => held[s] # 0
      PROVE  ReaderKept(s)
  <2>1. pc'[s] = step
        BY <1>0, <1>1 DEF GoTo
  <2>2. ReaderOK(s)'
        BY <1>0, <1>1, <2>1 DEF ReaderOK
  <2>3. /\ DOMAIN cmd' = Thread /\ \A u \in Thread \ {s} : cmd'[u] = cmd[u]
        /\ \A r \in Source \ {s} : completionSent'[r] = completionSent[r]
        BY <1>0, <1>1
  <2>4. QED
        BY <1>0, <1>1, <2>2, <2>3, ReaderMoves
<1>2. CASE ReadAt(s)
  <2>1. pc' = [pc EXCEPT ![s] = "gate"] /\ reads' = [reads EXCEPT ![s] = reads[s] + 1]
        /\ reads[s] < MaxReads /\ UNCHANGED <<held, cmd, completionSent, uiVars>>
        BY <1>2 DEF ReadAt, GoTo
  <2>2. reads' \in [Source -> 0 .. MaxReads] /\ reads'[s] >= 1 /\ \A r \in Source \ {s} : reads'[r] = reads[r]
        BY <1>0, <2>1, GroupAssumption DEF GroupAssumption
  <2>3. pc'[s] = "gate" /\ \A u \in Thread \ {s} : pc'[u] = pc[u]
        BY <1>0, <2>1
  <2>4. pc' \in [Thread -> ReaderSteps \cup UISteps]
        BY <2>1 DEF TypesOK, ReaderSteps
  <2>5. ReaderOK(s)'
        BY <1>0, <2>1, <2>2, <2>3 DEF ReaderOK, ReaderSteps
  <2>6. QED
        BY <1>0, <2>1, <2>2, <2>3, <2>4, <2>5 DEF ReaderKept, SameReader
<1>3. CASE Gate(s)
  <2>1. GoTo(s, "idle") \/ GoTo(s, "credentials")
        BY <1>3 DEF Gate
  <2>2. pc[s] # "idle" /\ UNCHANGED <<held, cmd, reads, completionSent, uiVars>>
        BY <1>3 DEF Gate, streamVars
  <2>3. QED
        BY <1>1, <2>1, <2>2 DEF ReaderSteps
<1>4. CASE RangeReaches(s) \/ RangeFails(s) \/ RangeEnds(s)
  <2>1. GoTo(s, "idle") \/ GoTo(s, "range") \/ GoTo(s, "serving")
        BY <1>4 DEF RangeReaches, RangeFails, RangeEnds, RangeExhausted, RangeInterrupted, RangeGivesUp
  <2>2. pc[s] \in {"range", "serving"} /\ UNCHANGED <<held, cmd, reads, completionSent, uiVars>>
        BY <1>4 DEF RangeReaches, RangeFails, RangeEnds, RangeExhausted, RangeInterrupted, RangeGivesUp, streamVars
  <2>3. held[s] # 0
        BY <1>0, <2>2 DEF ReaderOK
  <2>4. QED
        BY <1>1, <2>1, <2>2, <2>3 DEF ReaderSteps
<1>5. ASSUME NEW step \in ReaderSteps, GoTo(s, step), NEW new, cmd' = [cmd EXCEPT ![s] = new],
             UNCHANGED <<held, reads, uiVars>>, pc[s] # "idle",
             completionSent' = [completionSent EXCEPT ![s] = TRUE] \/ UNCHANGED completionSent,
             \/ step = "alloc" /\ held[s] # 0 /\ new.op \in {"Pause", "Cancel", "Complete"}
             \/ /\ step = "send" /\ new \in Command /\ new.source = s /\ new.op # "Resume"
                /\ new.op = "Begin" => held[s] = 0 /\ new.nonce = reads[s]
                /\ new.op # "Begin" => held[s] # 0 /\ new.nonce = held[s]
      PROVE  ReaderKept(s)
  <2>1. pc'[s] = step /\ cmd'[s] = new
        BY <1>0, <1>5 DEF GoTo
  <2>2. ReaderOK(s)'
        BY <1>0, <1>5, <2>1 DEF ReaderOK
  <2>3. DOMAIN cmd' = Thread /\ \A u \in Thread \ {s} : cmd'[u] = cmd[u]
        BY <1>0, <1>5
  <2>4. /\ completionSent' \in [Source -> BOOLEAN]
        /\ \A r \in Source \ {s} : completionSent'[r] = completionSent[r]
        BY <1>0, <1>5
  <2>5. QED
        BY <1>0, <1>5, <2>2, <2>3, <2>4, ReaderMoves
<1>6. CASE Join(s)
  <2>1. held[s] # 0 /\ pc[s] = "join" /\ UNCHANGED <<held, reads, completionSent, uiVars>>
        BY <1>0, <1>6 DEF Join, ReaderOK, streamVars
  <2>2. CASE groupCancelled
        BY <1>5, <1>6, <2>1, <2>2 DEF Join, ReaderSteps
  <2>3. CASE ~groupCancelled
        BY <1>1, <1>6, <2>1, <2>3 DEF Join, ReaderSteps
  <2>4. QED
        BY <2>2, <2>3
<1>7. CASE Joined(s)
  <2>1. held[s] # 0 /\ pc[s] = "joined" /\ UNCHANGED <<held, reads, completionSent, uiVars>>
        BY <1>0, <1>7 DEF Joined, ReaderOK, streamVars
  <2>2. CASE groupPaused
        BY <1>5, <1>7, <2>1, <2>2 DEF Joined, ReaderSteps
  <2>3. CASE ~groupPaused
        BY <1>1, <1>7, <2>1, <2>3 DEF Joined, ReaderSteps
  <2>4. QED
        BY <2>2, <2>3
<1>8. CASE Credentials(s)
  <2>1. pc[s] = "credentials" /\ reads[s] >= 1 /\ UNCHANGED <<held, reads, completionSent, uiVars>>
        BY <1>0, <1>8 DEF Credentials, ReaderOK, streamVars
  <2>2. CASE held[s] # 0
        BY <1>1, <1>8, <2>1, <2>2 DEF Credentials, ReaderSteps
  <2>3. CASE held[s] = 0
    <3>1. BeginRequest(s) \in Command /\ BeginRequest(s).source = s /\ BeginRequest(s).op = "Begin"
          /\ BeginRequest(s).nonce = reads[s]
          BY <2>1, NewCommands DEF BeginRequest
    <3>2. GoTo(s, "send") /\ cmd' = [cmd EXCEPT ![s] = BeginRequest(s)]
          BY <1>8, <2>3 DEF Credentials
    <3>3. QED
          BY <1>5, <2>1, <2>3, <3>1, <3>2 DEF ReaderSteps
  <2>4. QED
        BY <2>2, <2>3
<1>9. CASE Alloc(s)
  <2> DEFINE new == Control(s, cmd[s].op)
  <2>1. /\ pc[s] = "alloc" /\ held[s] # 0 /\ cmd[s].op \in {"Pause", "Cancel", "Complete"}
        /\ UNCHANGED <<held, reads, completionSent, uiVars>>
        BY <1>0, <1>9 DEF Alloc, ReaderOK
  <2>2. new \in Command /\ new.source = s /\ new.op = cmd[s].op /\ new.nonce = held[s]
        BY <2>1, NewCommands DEF Control, Opcode
  <2>3. GoTo(s, "send") /\ cmd' = [cmd EXCEPT ![s] = new]
        BY <1>9 DEF Alloc
  <2>4. new.op # "Resume" /\ new.op # "Begin"
        BY <2>1, <2>2
  <2> HIDE DEF new
  <2>5. QED
        BY <1>5, <2>1, <2>2, <2>3, <2>4 DEF ReaderSteps
<1>10. CASE RangeAnswered(s)
  <2>1. held[s] # 0 /\ pc[s] = "serving" /\ UNCHANGED <<held, reads, uiVars>>
        BY <1>0, <1>10 DEF RangeAnswered, ReaderOK
  <2>2. CASE RangeCancelled(s) \/ RangeData(s) \/ RangeOfPaused(s)
    <3>1. GoTo(s, "idle") \/ GoTo(s, "range")
          BY <2>2 DEF RangeCancelled, RangeData, RangeOfPaused
    <3>2. UNCHANGED <<cmd, completionSent>>
          BY <2>2 DEF RangeCancelled, RangeData, RangeOfPaused
    <3>3. QED
          BY <1>1, <2>1, <3>1, <3>2 DEF ReaderSteps
  <2>3. CASE RangeAtEnd(s)
        BY <1>5, <2>1, <2>3 DEF RangeAtEnd, ReaderSteps
  <2>4. QED
        BY <1>10, <2>2, <2>3 DEF RangeAnswered
<1>11. QED
       BY <1>2, <1>3, <1>4, <1>6, <1>7, <1>8, <1>9, <1>10

LEMMA CommandEndKeeps ==
    ASSUME TypesOK, ReadersOK, NEW s \in Source, pc[s] = "send", NEW ok \in BOOLEAN, After(s, ok)
    PROVE  ReaderKept(s) /\ (~ok => pc'[s] = "idle") /\ (cmd[s].op = "Complete" => pc'[s] = "idle")
<1>0. /\ DOMAIN pc = Thread /\ DOMAIN cmd = Thread /\ s \in Thread /\ s # UI /\ UI \in Thread
      /\ \A r \in Source : r \in Thread /\ r # UI
      BY Threads DEF TypesOK
<1>1. ReaderOK(s)
      BY DEF ReadersOK
<1>2. cmd' = [cmd EXCEPT ![s] = NoCmd] /\ ReaderAfter(s, ok)
      BY <1>0 DEF After
<1>3. pc'[s] = CASE ok /\ cmd[s].op = "Begin" -> "join" [] ok /\ cmd[s].op = "Pause" -> "range" [] OTHER -> "idle"
      BY <1>0, <1>2 DEF ReaderAfter
<1>4. /\ pc'[s] \in {"idle", "join", "range"} /\ (~ok => pc'[s] = "idle")
      /\ cmd[s].op = "Complete" => pc'[s] = "idle"
      /\ pc'[s] = "join" => ok /\ cmd[s].op = "Begin"
      /\ pc'[s] = "range" => cmd[s].op = "Pause"
      BY <1>3
<1>5. pc' \in [Thread -> ReaderSteps \cup UISteps] /\ \A u \in Thread \ {s} : pc'[u] = pc[u]
  <2>1. pc' = [pc EXCEPT ![s] = pc'[s]] /\ pc'[s] \in ReaderSteps
        BY <1>0, <1>2, <1>4 DEF ReaderAfter, ReaderSteps
  <2>2. QED
        BY <1>0, <2>1 DEF TypesOK
<1>6. reads' = reads /\ UNCHANGED uiVars /\ \A r \in Source \ {s} : held'[r] = held[r]
      BY <1>2 DEF ReaderAfter, TypesOK
<1>7. pc'[s] \in {"join", "range"} => held'[s] # 0
  <2>1. cmd[s].nonce \in Nonce /\ 0 \notin Nonce
        BY <1>1 DEF ReaderOK, Command, Nonce
  <2>2. CASE pc'[s] = "join"
        BY <1>2, <1>4, <2>1, <2>2 DEF ReaderAfter, TypesOK
  <2>3. CASE pc'[s] = "range"
        BY <1>1, <1>2, <1>4, <2>3 DEF ReaderAfter, ReaderOK
  <2>4. QED
        BY <2>2, <2>3
<1>8. completionSent' \in [Source -> BOOLEAN] /\ \A r \in Source \ {s} : completionSent'[r] = completionSent[r]
      BY <1>2 DEF ReaderAfter, TypesOK
<1>9. ReaderOK(s)'
      BY <1>1, <1>4, <1>6, <1>7 DEF ReaderOK, ReaderSteps
<1>10. DOMAIN cmd' = Thread /\ \A u \in Thread \ {s} : cmd'[u] = cmd[u]
       BY <1>0, <1>2
<1>11. reads' \in [Source -> 0 .. MaxReads]
       BY <1>6 DEF TypesOK
<1>12. QED
       BY <1>0, <1>4, <1>5, <1>6, <1>8, <1>9, <1>10, <1>11 DEF ReaderKept, SameReader

LEMMA SendKeeps ==
    ASSUME TypesOK, ReadersOK, NEW s \in Source, SendAnswered(s) \/ SendFails(s) \/ SendEnds(s)
    PROVE  ReaderKept(s)
<1>0. pc[s] = "send" /\ s # UI
      BY Threads DEF SendAnswered, SendFails, SendEnds, SendExhausted, SendInterrupted, SendGivesUp
<1>1. CASE \E ok \in BOOLEAN : After(s, ok)
      BY <1>0, <1>1, CommandEndKeeps
<1>2. CASE SendFails(s)
  <2>1. cmd' = [cmd EXCEPT ![s] = cmd[s]] /\ UNCHANGED <<pc, streamVars, uiVars>>
        BY <1>0, <1>2 DEF SendFails, Again
  <2>2. DOMAIN cmd' = Thread /\ \A u \in Thread : cmd'[u] = cmd[u]
        BY <2>1 DEF TypesOK
  <2>3. UI \in Thread /\ s \in Thread /\ \A r \in Source : r \in Thread
        BY Threads
  <2>4. UNCHANGED <<held, reads, completionSent>>
        BY <2>1 DEF streamVars
  <2>5. ReaderOK(s)'
        BY <2>1, <2>2, <2>3, <2>4 DEF ReadersOK, ReaderOK
  <2>6. QED
        BY <2>1, <2>2, <2>3, <2>4, <2>5 DEF ReaderKept, SameReader, TypesOK
<1>3. SendAnswered(s) \/ SendEnds(s) => \E ok \in BOOLEAN : After(s, ok)
      BY DEF SendAnswered, Accepted, SendEnds, SendExhausted, SendInterrupted, SendGivesUp
<1>4. QED
      BY <1>1, <1>2, <1>3

\* The user interface and the late requests leave the readers alone.
ReadersLeft ==
    /\ \A r \in Source : SameReader(r)
    /\ UNCHANGED <<reads, completionSent, held>>
    /\ pc' \in [Thread -> ReaderSteps \cup UISteps] /\ DOMAIN cmd' = Thread

LEMMA CommandEndLeaves ==
    ASSUME TypesOK, UIOK, NEW ok \in BOOLEAN, After(UI, ok)
    PROVE  ReadersLeft
<1>0. /\ DOMAIN pc = Thread /\ DOMAIN cmd = Thread /\ UI \in Thread
      /\ \A r \in Source : r \in Thread /\ r # UI
      BY Threads DEF TypesOK
<1>1. cmd' = [cmd EXCEPT ![UI] = NoCmd] /\ UIAfter(ok)
      BY <1>0 DEF After
<1>2. UNCHANGED streamVars /\ (pc' = [pc EXCEPT ![UI] = "idle"] \/ pc' = [pc EXCEPT ![UI] = "alloc"])
      BY <1>1 DEF UIAfter, UIReturn
<1>3. pc' \in [Thread -> ReaderSteps \cup UISteps]
      BY <1>0, <1>2 DEF TypesOK, ReaderSteps
<1>4. QED
      BY <1>0, <1>1, <1>2, <1>3 DEF ReadersLeft, SameReader, streamVars

LEMMA SendLeaves ==
    ASSUME TypesOK, UIOK, SendAnswered(UI) \/ SendFails(UI) \/ SendEnds(UI)
    PROVE  ReadersLeft
<1>1. CASE \E ok \in BOOLEAN : After(UI, ok)
      BY <1>1, CommandEndLeaves
<1>2. CASE cmd' = [cmd EXCEPT ![UI] = Again(@)] /\ UNCHANGED <<pc, streamVars>>
  <2>1. /\ UNCHANGED <<pc, held, reads, completionSent>> /\ DOMAIN cmd' = Thread
        /\ \A r \in Source : r \in Thread /\ cmd'[r] = cmd[r]
        BY <1>2, Threads DEF streamVars, TypesOK
  <2>2. QED
        BY <2>1 DEF ReadersLeft, SameReader, TypesOK
<1>3. SendAnswered(UI) \/ SendEnds(UI) => \E ok \in BOOLEAN : After(UI, ok)
      BY DEF SendAnswered, Accepted, SendEnds, SendExhausted, SendInterrupted, SendGivesUp
<1>4. SendFails(UI) => \/ \E ok \in BOOLEAN : After(UI, ok)
                       \/ cmd' = [cmd EXCEPT ![UI] = Again(@)] /\ UNCHANGED <<pc, streamVars>>
      BY DEF SendFails
<1>5. QED
      BY <1>1, <1>2, <1>3, <1>4

LEMMA OperateLeaves ==
    ASSUME TypesOK, (\E op \in UIOps : UIStart(op)) \/ Scan \/ Scanned \/ SetFlag \/ UIAlloc
    PROVE  ReadersLeft
<1>0. /\ DOMAIN pc = Thread /\ DOMAIN cmd = Thread /\ UI \in Thread
      /\ \A r \in Source : r \in Thread /\ r # UI
      BY Threads DEF TypesOK
<1>1. ASSUME NEW step \in ReaderSteps \cup UISteps, GoTo(UI, step),
             UNCHANGED <<held, reads, completionSent>>,
             UNCHANGED cmd \/ \E new : cmd' = [cmd EXCEPT ![UI] = new]
      PROVE  ReadersLeft
  <2>1. pc' \in [Thread -> ReaderSteps \cup UISteps] /\ \A r \in Source : pc'[r] = pc[r]
        BY <1>0, <1>1 DEF GoTo, TypesOK
  <2>2. DOMAIN cmd' = Thread /\ \A r \in Source : cmd'[r] = cmd[r]
        BY <1>0, <1>1
  <2>3. QED
        BY <1>1, <2>1, <2>2 DEF ReadersLeft, SameReader
<1>2. ASSUME UNCHANGED <<pc, cmd, streamVars>> PROVE ReadersLeft
      BY <1>0, <1>2 DEF ReadersLeft, SameReader, streamVars, TypesOK
<1>3. ASSUME NEW op \in UIOps, UIStart(op) PROVE ReadersLeft
      BY <1>1, <1>3 DEF UIStart, streamVars, UISteps
<1>4. CASE Scan
      BY <1>2, <1>4 DEF Scan
<1>5. CASE Scanned
  <2>1. GoTo(UI, "idle") \/ GoTo(UI, "flag")
        BY <1>5 DEF Scanned, ProgressReturns, NothingStarted, UIReturn, GoTo
  <2>2. UNCHANGED <<cmd, held, reads, completionSent>>
        BY <1>5 DEF Scanned, streamVars
  <2>3. QED
        BY <1>1, <2>1, <2>2 DEF UISteps
<1>6. CASE SetFlag
  <2>1. GoTo(UI, "unpause") \/ GoTo(UI, "alloc")
        BY <1>6 DEF SetFlag, SetCancelled, SetPaused
  <2>2. UNCHANGED <<cmd, held, reads, completionSent>>
        BY <1>6 DEF SetFlag, streamVars
  <2>3. QED
        BY <1>1, <2>1, <2>2 DEF UISteps
<1>7. CASE UIAlloc
      BY <1>1, <1>7 DEF UIAlloc, UISteps
<1>8. QED
      BY <1>3, <1>4, <1>5, <1>6, <1>7

\* Every step is one of one reader or leaves them all alone.
LEMMA StepOfReaders ==
    ASSUME TypesOK, ReadersOK, UIOK, [Next]_vars
    PROVE  ReadersLeft \/ \E s \in Source : ReaderKept(s)
<1>1. CASE UNCHANGED vars \/ HandleLate
  <2>1. UNCHANGED <<pc, cmd, held, reads, completionSent>>
        BY <1>1 DEF vars, HandleLate, streamVars
  <2>2. QED
        BY <2>1 DEF ReadersLeft, SameReader, TypesOK
<1>2. ASSUME NEW t \in Thread, SendAnswered(t) \/ SendFails(t) \/ SendEnds(t)
      PROVE  ReadersLeft \/ \E s \in Source : ReaderKept(s)
      BY <1>2, SendKeeps, SendLeaves, Threads
<1>3. QED
      BY NextCases, <1>1, <1>2, ReadKeeps, OperateLeaves

LEMMA ReadersStep ==
    TypesOK /\ ReadersOK /\ UIOK /\ [Next]_vars => ReadersOK'
<1> SUFFICES ASSUME TypesOK, ReadersOK, UIOK, [Next]_vars, NEW r \in Source PROVE ReaderOK(r)'
    BY DEF ReadersOK
<1>1. ReaderOK(r)
      BY DEF ReadersOK
<1>2. SameReader(r) => ReaderOK(r)'
      BY <1>1 DEF SameReader, ReaderOK
<1>3. SameReader(r) \/ ReaderOK(r)'
      BY StepOfReaders DEF ReadersLeft, ReaderKept
<1>4. QED
      BY <1>2, <1>3

-----------------------------------------------------------------------------
(* What the steps leave of the sessions that have been reported on. *)

LEMMA HeldStays ==
    ASSUME TypesOK, Effect, NEW s \in Source, held[s] # 0
    PROVE  held'[s] = held[s]
<1>1. ASSUME NEW c \in Pending, Handles(c) PROVE held'[s] = held[s]
      BY <1>1 DEF Handles, TypesOK
<1>2. QED
      BY <1>1 DEF Effect, Quiet, Begins, Controls

\* An open session goes on as it is or takes a command under way.
LEMMA SessionGoesOn ==
    ASSUME TypesOK, ReadersOK, UIOK, SessionsOK, Effect, NEW s \in Source, held[s] # 0
    PROVE  \/ Session(s)' = Session(s)
           \/ \E c \in Pending :
                 /\ c \in Command /\ c.source = s /\ c.nonce = held[s] /\ c.op \in Opcode
                 /\ c.seq > Session(s).seq
                 /\ Session(s)'.state = Obey(c.op, Session(s).state)
                 /\ Session(s)'.seq = c.seq
                 /\ Session(s)'.consumed = Session(s).consumed \cup {c.op}
<1>1. /\ Session(s) = server[s][held[s]] /\ Session(s)' = server'[s][held[s]]
      /\ held[s] \in Nonce /\ Session(s).state # "none"
      BY HeldStays DEF Session, SessionsOK, TypesOK
<1>2. ASSUME NEW c \in Pending, Handles(c)
      PROVE  \/ Session(s)' = Session(s)
             \/ /\ c \in Command /\ c.source = s /\ c.nonce = held[s] /\ c.op \in Opcode
                /\ c.seq > Session(s).seq
                /\ Session(s)'.state = Obey(c.op, Session(s).state)
                /\ Session(s)'.seq = c.seq
                /\ Session(s)'.consumed = Session(s).consumed \cup {c.op}
  <2>1. c \in Command /\ c.op \in Opcode \cup {"Begin"}
        BY PendingIsCommand DEF Command
  <2>2. Follows(Session(s), Session(s)', s = c.source /\ held[s] = c.nonce, c)
        BY <1>1, <1>2, <2>1, HandledFollows DEF Handles
  <2>3. QED
        BY <1>1, <2>1, <2>2 DEF Follows
<1>3. server' = server => Session(s)' = Session(s)
      BY <1>1
<1>4. QED
      BY <1>2, <1>3 DEF Effect, Quiet, Begins, Controls

LEMMA SessionTypes ==
    ASSUME TypesOK, NEW s \in Source, held[s] # 0
    PROVE  Session(s) \in SessionRecord /\ Session(s).state \in States /\ Session(s).seq \in Nat
<1>1. Session(s) \in SessionRecord
      BY DEF Session, TypesOK
<1>2. QED
      BY <1>1 DEF SessionRecord

LEMMA LateIsPending == [Next]_vars => late' \subseteq Pending
<1> SUFFICES ASSUME [Next]_vars PROVE late' \subseteq Pending
    OBVIOUS
<1>1. late' \subseteq late => late' \subseteq Pending
      BY DEF Pending
<1>2. ASSUME NEW t \in Thread, SendFails(t) PROVE late' \subseteq Pending
      BY <1>2 DEF SendFails, Pending
<1>3. ASSUME NEW t \in Thread, SendAnswered(t) \/ SendEnds(t) PROVE late' = late
      BY <1>3 DEF SendAnswered, SendEnds, SendExhausted, SendInterrupted, SendGivesUp
<1>4. ASSUME NEW s \in Source, \/ ReadAt(s) \/ Gate(s) \/ Credentials(s) \/ Join(s) \/ Joined(s) \/ Alloc(s)
                               \/ RangeReaches(s) \/ RangeFails(s) \/ RangeEnds(s) \/ RangeAnswered(s)
      PROVE  late' = late
      BY <1>4 DEF ReadAt, Gate, Credentials, Join, Joined, Alloc, RangeReaches, RangeFails, RangeEnds,
                  RangeExhausted, RangeInterrupted, RangeGivesUp, RangeAnswered
<1>5. (\E op \in UIOps : UIStart(op)) \/ Scan \/ Scanned \/ SetFlag \/ UIAlloc => late' = late
      BY DEF UIStart, Scan, Scanned, SetFlag, UIAlloc
<1>6. HandleLate => late' \subseteq late
      BY DEF HandleLate
<1>7. UNCHANGED vars => late' = late
      BY DEF vars
<1>8. QED
      BY NextCases, <1>1, <1>2, <1>3, <1>4, <1>5, <1>6, <1>7

\* Only resume_all sends a Resume.
LEMMA ResumesAreLate ==
    ASSUME TypesOK, ReadersOK, UIOK, pc[UI] = "send" => ui.op # "Resume"
    PROVE  \A c \in Pending : c.op = "Resume" => c \in late
<1> SUFFICES ASSUME NEW t \in Thread, pc[t] = "send" PROVE cmd[t].op # "Resume"
    BY DEF Pending
<1>1. QED
      BY Threads DEF ReadersOK, ReaderOK, UIOK

LEMMA SilentKept ==
    ASSUME TypesOK, ReadersOK, UIOK, pc[UI] = "send" => ui.op # "Resume", late' \subseteq Pending,
           NEW s \in Source, held'[s] = held[s],
           NEW q \in Nat, NEW r \in Nat, Silent(s, q), q <= r
    PROVE  Silent(s, r)'
<1> SUFFICES ASSUME NEW c \in late', c.source = s, c.nonce = held'[s], c.op = "Resume"
             PROVE  c.seq <= r
    BY DEF Silent
<1>1. c \in late /\ c.seq \in Nat
      BY ResumesAreLate DEF TypesOK, Command
<1>2. c.seq <= q
      BY <1>1 DEF Silent
<1>3. QED
      BY <1>1, <1>2

LEMMA EndedStays ==
    ASSUME TypesOK, ReadersOK, UIOK, SessionsOK, Effect, NEW s \in Source, held[s] # 0, Ended(s)
    PROVE  Ended(s)'
<1>1. Session(s).state \in States \ {"none"}
      BY SessionTypes DEF SessionsOK
<1>2. CASE Session(s)' = Session(s)
      BY <1>2 DEF Ended
<1>3. ASSUME NEW c, c.op \in Opcode, Session(s)'.state = Obey(c.op, Session(s).state)
      PROVE  Ended(s)'
      BY <1>1, <1>3, ObeyFacts DEF Ended
<1>4. QED
      BY <1>2, <1>3, SessionGoesOn

LEMMA HaltedStays ==
    ASSUME TypesOK, ReadersOK, UIOK, SessionsOK, Effect, late' \subseteq Pending,
           pc[UI] = "send" => ui.op # "Resume", NEW s \in Source, held[s] # 0, Halted(s)
    PROVE  Halted(s)'
<1>0. held'[s] = held[s] /\ held'[s] # 0
      BY HeldStays
<1>1. Session(s).state \in States \ {"none"} /\ Session(s).seq \in Nat
      BY SessionTypes DEF SessionsOK
<1>2. CASE Session(s)' = Session(s)
  <2>1. ASSUME NEW q, q = Session(s).seq PROVE Silent(s, q)'
        BY <1>0, <1>1, <2>1, SilentKept DEF Halted
  <2>2. QED
        BY <1>2, <2>1 DEF Halted, Silent
<1>3. ASSUME NEW c \in Pending, c \in Command, c.source = s, c.nonce = held[s], c.op \in Opcode,
             c.seq > Session(s).seq, Session(s)'.state = Obey(c.op, Session(s).state),
             Session(s)'.seq = c.seq
      PROVE  Halted(s)'
  <2>1. c.seq \in Nat
        BY <1>3 DEF Command
  <2>2. c.op # "Resume"
    <3>1. c.op = "Resume" => c.seq <= Session(s).seq
          BY <1>3, ResumesAreLate DEF Halted, Silent
    <3>2. QED
          BY <1>1, <1>3, <2>1, <3>1
  <2>3. Session(s)'.state # "Running"
        BY <1>1, <1>3, <2>2, ObeyFacts DEF Halted
  <2>4. ASSUME NEW q, q = c.seq PROVE Silent(s, q)'
    <3>1. Session(s).seq <= q /\ q \in Nat
          BY <1>1, <1>3, <2>1, <2>4
    <3>2. QED
          BY <1>0, <1>1, <3>1, SilentKept DEF Halted
  <2>5. QED
        BY <1>3, <2>3, <2>4 DEF Halted, Silent
<1>4. QED
      BY <1>2, <1>3, SessionGoesOn

\* What a control did to its stream stays, while no Resume is being sent.
LEMMA ObeyedStays ==
    ASSUME TypesOK, ReadersOK, UIOK, SessionsOK, Effect, late' \subseteq Pending,
           NEW op, op = "Pause" => (pc[UI] = "send" => ui.op # "Resume"),
           NEW s \in Source, held[s] # 0, Obeyed(op, s)
    PROVE  Obeyed(op, s)'
  BY EndedStays, HaltedStays DEF Obeyed

-----------------------------------------------------------------------------
(* The user interface. *)

UITypes == /\ ui \in [op : UIOps, at : Nat \ {0}, picked : SUBSET Source, acked : BOOLEAN]
           /\ report \in [op : UIOps \cup {"none"}, sources : SUBSET Source, ok : BOOLEAN]

\* A step of the user interface keeps its part of the invariant.
UIKept == UITypes' /\ UIOK' /\ OperationOK'

\* What a step needs for that: the sessions that are open stay open, and those
\* that have obeyed a control still do.
Keeps ==
    /\ \A s \in Source : held[s] # 0 => held'[s] = held[s]
    /\ \A op \in UIOps \cup {"none"}, s \in Source :
          /\ op = "Pause" => (pc[UI] = "send" => ui.op # "Resume")
          /\ held[s] # 0 /\ Obeyed(op, s)
          => Obeyed(op, s)'

LEMMA StepKeeps ==
    ASSUME TypesOK, ReadersOK, UIOK, SessionsOK, [Next]_vars
    PROVE  Keeps
  BY StepEffect, LateIsPending, HeldStays, ObeyedStays DEF Keeps

LEMMA UIFacts ==
    ASSUME TypesOK, UIOK
    PROVE  /\ ui.op \in UIOps /\ ui.at \in Nat \ {0} /\ ui.picked \subseteq Source /\ ui.acked \in BOOLEAN
           /\ report.op \in UIOps \cup {"none"} /\ report.sources \subseteq Source /\ report.ok \in BOOLEAN
           /\ \A s \in ui.picked \cup report.sources : held[s] # 0
           /\ ui = [op |-> ui.op, at |-> ui.at, picked |-> ui.picked, acked |-> ui.acked]
  BY DEF TypesOK, UIOK

\* A step of another thread, and a repetition.
LEMMA UIUntouched ==
    ASSUME TypesOK, ReadersOK, UIOK, OperationOK, Keeps, late' \subseteq Pending,
           UNCHANGED uiVars, pc'[UI] = pc[UI], cmd'[UI] = cmd[UI]
    PROVE  UIKept
<1>0. UNCHANGED <<ui, report>>
      BY DEF uiVars
<1>1. UITypes'
      BY <1>0 DEF UITypes, TypesOK
<1>2. \A s \in ui.picked \cup report.sources : held[s] # 0 /\ held'[s] = held[s]
      BY UIFacts DEF Keeps
<1>3. pc[UI] \in {"alloc", "send"} => ui.at \in ui.picked
      BY DEF UIOK
<1>4. UIOK'
      BY <1>0, <1>2, <1>3 DEF UIOK
<1>5. ASSUME NEW op, op = ui.op, pc[UI] \in {"alloc", "send"}, ui.acked,
             NEW s \in ui.picked, s < ui.at
      PROVE  Obeyed(op, s)'
  <2>1. Obeyed(op, s) /\ s \in Source /\ held[s] # 0 /\ op \in UIOps
        BY <1>5, UIFacts DEF OperationOK
  <2>2. op = "Pause" => (pc[UI] = "send" => ui.op # "Resume")
        BY <1>5
  <2>3. QED
        BY <2>1, <2>2, Zenon DEF Keeps
<1>6. ASSUME NEW op, op = report.op, report.ok, NEW s \in report.sources PROVE Obeyed(op, s)'
  <2>1. op = "Pause" => pc[UI] = "idle"
        BY <1>6 DEF UIOK
  <2>2. QED
    <3>1. Obeyed(op, s) /\ s \in Source /\ held[s] # 0 /\ op \in UIOps \cup {"none"}
          BY <1>6, UIFacts DEF OperationOK
    <3>2. op = "Pause" => (pc[UI] = "send" => ui.op # "Resume")
          BY <2>1
    <3>3. QED
          BY <3>1, <3>2, Zenon DEF Keeps
<1>7. ASSUME pc[UI] = "send", ui.op = "Pause", NEW q, q = cmd[UI].seq, NEW s, s = ui.at
      PROVE  Silent(s, q)'
  <2>1. s \in Source /\ held'[s] = held[s]
        BY <1>2, <1>3, <1>7, UIFacts
  <2>2. q \in Nat
        BY <1>7 DEF UIOK, Command
  <2>3. Silent(s, q)
        BY <1>7 DEF OperationOK
  <2>4. QED
        BY <1>7, <2>1, <2>2, <2>3, SilentKept
<1>8. OperationOK'
      BY <1>0, <1>5, <1>6, <1>7 DEF OperationOK, Obeyed, Silent
<1>9. QED
      BY <1>1, <1>4, <1>8 DEF UIKept

\* An operation that starts or looks for its streams has reported nothing.
LEMMA UISearches ==
    ASSUME TypesOK, UIOK, Keeps,
           (\E op \in UIOps : UIStart(op)) \/ Scan \/ Scanned
    PROVE  UIKept
<1>0. /\ DOMAIN pc = Thread /\ UI \in Thread
      /\ \A s \in ui.picked \cup report.sources : held'[s] # 0
      BY Threads, UIFacts DEF TypesOK, Keeps
<1>1. ASSUME NEW op \in UIOps, UIStart(op) PROVE UIKept
  <2>1. /\ ui' = [op |-> op, at |-> 1, picked |-> {}, acked |-> TRUE]
        /\ report' = [op |-> "none", sources |-> {}, ok |-> FALSE]
        /\ pc'[UI] = "scan"
        BY <1>0, <1>1 DEF UIStart, GoTo
  <2>2. QED
        BY <2>1 DEF UIKept, UITypes, UIOK, OperationOK, UISteps
<1>2. CASE Scan
  <2>1. /\ pc[UI] = "scan" /\ UNCHANGED <<report, pc, held>> /\ ui.at <= NumSources
        /\ ui' = [ui EXCEPT !.at = @ + 1,
                            !.picked = IF held[ui.at] # 0 THEN ui.picked \cup {ui.at} ELSE ui.picked]
        BY <1>2 DEF Scan, streamVars
  <2>2. ui'.op = ui.op /\ ui'.at = ui.at + 1 /\ ui'.acked = ui.acked
        /\ ui'.picked = IF held[ui.at] # 0 THEN ui.picked \cup {ui.at} ELSE ui.picked
        BY <2>1 DEF TypesOK
  <2>3. ui.at \in Source
        BY <2>1, UIFacts, GroupAssumption DEF GroupAssumption, Source
  <2>4. UITypes'
    <3>1. ui'.at \in Nat \ {0} /\ ui'.picked \subseteq Source
          BY <2>2, <2>3, UIFacts
    <3>2. ui' = [op |-> ui.op, at |-> ui'.at, picked |-> ui'.picked, acked |-> ui.acked]
          BY <2>1, UIFacts
    <3>3. QED
          BY <2>1, <3>1, <3>2, UIFacts DEF UITypes, TypesOK
  <2>5. \A s \in ui'.picked \cup report.sources : held[s] # 0
        BY <2>2, UIFacts
  <2>6. report.op = "none"
        BY <2>1 DEF UIOK
  <2>7. QED
        BY <2>1, <2>4, <2>5, <2>6 DEF UIKept, UIOK, OperationOK, Obeyed
<1>3. CASE Scanned
  <2>0. pc[UI] = "scan" /\ report.op = "none" /\ UNCHANGED streamVars
        BY <1>3 DEF Scanned, UIOK
  <2>1. ASSUME NEW ok \in BOOLEAN, UIReturn(ok), ok => ui.op = "Progress" PROVE UIKept
    <3>1. /\ ui' = NoOperation /\ pc'[UI] = "idle"
          /\ report' = [op |-> ui.op, sources |-> ui.picked, ok |-> ok]
          BY <1>0, <2>1 DEF UIReturn
    <3>2. ui'.picked = {} /\ report'.op = ui.op /\ report'.sources = ui.picked /\ report'.ok = ok
          BY <3>1 DEF NoOperation
    <3>3. UITypes'
          BY <3>1, UIFacts DEF UITypes, NoOperation, UIOps
    <3>4. UIOK'
          BY <1>0, <3>1, <3>2 DEF UIOK, UISteps
    <3>5. OperationOK'
          BY <2>1, <3>1, <3>2 DEF OperationOK, Obeyed
    <3>6. QED
          BY <3>3, <3>4, <3>5 DEF UIKept
  <2>2. CASE ui.op # "Progress" /\ ui.picked # {} /\ GoTo(UI, "flag") /\ UNCHANGED uiVars
    <3>1. pc'[UI] = "flag" /\ UNCHANGED <<ui, report>>
          BY <1>0, <2>2 DEF GoTo, uiVars
    <3>2. UIOK'
          BY <1>0, <2>0, <2>2, <3>1 DEF UIOK, UISteps
    <3>3. QED
          BY <2>0, <3>1, <3>2 DEF UIKept, UITypes, TypesOK, OperationOK, Obeyed
  <2>3. QED
        BY <1>3, <2>1, <2>2 DEF Scanned, ProgressReturns, NothingStarted
<1>4. QED
      BY <1>1, <1>2, <1>3

\* An operation that begins to command its streams has acknowledged none.
LEMMA UIFlags == TypesOK /\ UIOK /\ Keeps /\ SetFlag => UIKept
<1> SUFFICES ASSUME TypesOK, UIOK, Keeps, SetFlag PROVE UIKept
    OBVIOUS
<1>0. /\ DOMAIN pc = Thread /\ UI \in Thread /\ \A s \in Source : s \in Nat \ {0}
      /\ \A s \in ui.picked \cup report.sources : held'[s] # 0
      BY Threads, UIFacts DEF TypesOK, Keeps, Source
<1>1. /\ pc[UI] \in {"flag", "unpause"} /\ UNCHANGED report /\ report.op = "none"
      /\ ui.op # "Progress" /\ ui.picked # {}
      BY DEF SetFlag, SetCancelled, SetPaused, UIOK
<1>2. CASE SetCancelled
  <2>1. pc'[UI] = "unpause" /\ UNCHANGED ui /\ ui.op = "Cancel"
        BY <1>0, <1>2 DEF SetCancelled, GoTo
  <2>2. QED
        BY <1>0, <1>1, <2>1 DEF UIKept, UITypes, TypesOK, UIOK, UISteps, OperationOK, Obeyed
<1>3. CASE SetPaused
  <2>1. pc'[UI] = "alloc" /\ ui' = [ui EXCEPT !.at = NextPicked(0)]
        BY <1>0, <1>3 DEF SetPaused, GoTo
  <2>2. /\ ui' = [op |-> ui.op, at |-> NextPicked(0), picked |-> ui.picked, acked |-> ui.acked]
        /\ ui'.op = ui.op /\ ui'.at = NextPicked(0) /\ ui'.picked = ui.picked
        BY <2>1, UIFacts
  <2>3. /\ NextPicked(0) \in Nat \ {0} /\ NextPicked(0) \in ui.picked
        /\ \A s \in ui.picked : ~(s < NextPicked(0))
    <3>1. \A s \in ui.picked : s \in Nat \ {0} /\ ~(s <= 0)
          BY <1>0, UIFacts
    <3>2. NextPicked(0) \in Nat \ {0} /\ ~(NextPicked(0) > NumSources)
          BY <1>1, <3>1, UIFacts, NextPickedIsNext
    <3>3. NextPicked(0) <= NumSources
          BY <3>2, GroupAssumption DEF GroupAssumption
    <3>4. QED
          BY <3>1, <3>2, <3>3, UIFacts, NextPickedIsNext
  <2>4. UITypes'
    <3>1. ui' \in [op : UIOps, at : Nat \ {0}, picked : SUBSET Source, acked : BOOLEAN]
          BY <2>2, <2>3, UIFacts
    <3>2. QED
          BY <1>1, <3>1 DEF UITypes, TypesOK
  <2>5. UIOK'
        BY <1>0, <1>1, <2>1, <2>2, <2>3 DEF UIOK, UISteps
  <2>6. OperationOK'
        BY <1>1, <2>1, <2>2, <2>3 DEF OperationOK, Obeyed
  <2>7. QED
        BY <2>4, <2>5, <2>6 DEF UIKept
<1>4. QED
      BY <1>2, <1>3 DEF SetFlag

\* A number that is taken now is above those of all commands under way.
LEMMA UITakesNumber ==
    TypesOK /\ ReadersOK /\ UIOK /\ CommandsOK /\ OperationOK /\ Keeps /\ UIAlloc => UIKept
<1> SUFFICES ASSUME TypesOK, ReadersOK, UIOK, CommandsOK, OperationOK, Keeps, UIAlloc PROVE UIKept
    OBVIOUS
<1>0. /\ DOMAIN pc = Thread /\ DOMAIN cmd = Thread /\ UI \in Thread
      BY Threads DEF TypesOK
<1>1. /\ pc[UI] = "alloc" /\ pc'[UI] = "send" /\ UNCHANGED <<ui, report, held, late>>
      /\ cmd'[UI] = Control(ui.at, ui.op)
      BY <1>0 DEF UIAlloc, GoTo, uiVars
<1>2. /\ ui.op \in UIOps \ {"Progress"} /\ ui.picked # {} /\ ui.at \in ui.picked /\ report.op = "none"
      /\ ui.at \in Source /\ held[ui.at] # 0
      BY <1>1, UIFacts DEF UIOK
<1>3. /\ Control(ui.at, ui.op) \in Command
      /\ Control(ui.at, ui.op).source = ui.at /\ Control(ui.at, ui.op).nonce = held[ui.at]
      /\ Control(ui.at, ui.op).seq = nextSeq[ui.at] /\ Control(ui.at, ui.op).op = ui.op
      BY <1>2, NewCommands DEF Control, UIOps, Opcode
<1>4. UITypes'
      BY <1>1 DEF UITypes, TypesOK
<1>5. UIOK'
      BY <1>1, <1>2, <1>3, UIFacts DEF UIOK, UISteps
<1>6. ASSUME NEW op, op = ui.op, ui.acked, NEW s \in ui.picked, s < ui.at PROVE Obeyed(op, s)'
  <2>1. Obeyed(op, s) /\ s \in Source /\ held[s] # 0 /\ op \in UIOps
        BY <1>1, <1>6, UIFacts DEF OperationOK
  <2>2. QED
        BY <1>1, <2>1, Zenon DEF Keeps
<1>7. ASSUME NEW s, s = ui.at, NEW q, q = nextSeq[s] PROVE Silent(s, q)'
  <2>1. \A c \in late : c.source = s /\ c.op # "Begin" => c.seq < q
        BY <1>7 DEF CommandsOK, CommandOK, Pending
  <2>2. \A c \in late : c.seq \in Nat
        BY DEF TypesOK, Command
  <2>3. q \in Nat
        BY <1>2, <1>7 DEF TypesOK
  <2>4. \A c \in late : c.source = s /\ c.op = "Resume" => c.seq <= q
        BY <2>1, <2>2, <2>3
  <2>5. QED
        BY <1>1, <2>4 DEF Silent
<1>8. OperationOK'
  <2>1. Silent(ui.at, cmd[UI].seq)'
        BY <1>1, <1>3, <1>7 DEF Silent
  <2>2. QED
        BY <1>1, <1>2, <1>6, <2>1 DEF OperationOK, Obeyed
<1>9. QED
      BY <1>4, <1>5, <1>8 DEF UIKept

\* The operation goes on or returns, with the streams acknowledged that obeyed.
LEMMA UICommandEnds ==
    ASSUME TypesOK, UIOK, OperationOK, Keeps, pc[UI] = "send", NEW ok \in BOOLEAN, After(UI, ok),
           \A op, s : op = ui.op /\ s = ui.at /\ ok => Obeyed(op, s)'
    PROVE  UIKept
<1>0. /\ DOMAIN pc = Thread /\ UI \in Thread /\ \A s \in Source : s \in Nat
      /\ \A s \in ui.picked \cup report.sources : held'[s] # 0
      BY Threads, UIFacts DEF TypesOK, Keeps
<1>1. /\ UIAfter(ok) /\ ui.at \in ui.picked /\ report.op = "none"
      /\ ui.op # "Progress" /\ ui.picked # {}
      BY DEF After, UIOK
<1>2. ASSUME NEW op, op = ui.op, ui.acked, ok, NEW s \in ui.picked, s <= ui.at PROVE Obeyed(op, s)'
  <2>1. CASE s = ui.at
        BY <1>2, <2>1
  <2>2. CASE s < ui.at
    <3>1. Obeyed(op, s) /\ s \in Source /\ held[s] # 0 /\ op \in UIOps
          BY <1>2, <2>2, UIFacts DEF OperationOK
    <3>2. op = "Pause" => (pc[UI] = "send" => ui.op # "Resume")
          BY <1>2
    <3>3. QED
          BY <3>1, <3>2, Zenon DEF Keeps
  <2>3. s \in Nat /\ ui.at \in Nat
        BY <1>0, UIFacts
  <2>4. QED
        BY <1>2, <2>1, <2>2, <2>3
<1> DEFINE next == NextPicked(ui.at)
<1>3. /\ next \in Nat \ {0}
      /\ next <= NumSources => next \in ui.picked /\ \A s \in ui.picked : s < next => s <= ui.at
      /\ next > NumSources => \A s \in ui.picked : s <= ui.at
      BY UIFacts, NextPickedIsNext
<1> HIDE DEF next
<1>4. CASE next > NumSources \/ (~ok /\ ui.op # "Cancel")
  <2>1. PICK status \in Aggregated : UIReturn(NextAcked(ok) /\ status)
        BY <1>1, <1>4 DEF UIAfter, next
  <2>2. /\ ui' = NoOperation /\ pc'[UI] = "idle"
        /\ report' = [op |-> ui.op, sources |-> ui.picked, ok |-> NextAcked(ok) /\ status]
        BY <1>0, <2>1 DEF UIReturn
  <2>3. (NextAcked(ok) /\ status) \in BOOLEAN /\ (NextAcked(ok) /\ status => ui.acked /\ ok)
        BY DEF NextAcked
  <2>4. ui'.picked = {} /\ report'.op = ui.op /\ report'.sources = ui.picked /\ (report'.ok => ui.acked /\ ok)
        BY <2>2, <2>3 DEF NoOperation
  <2>5. UITypes'
        BY <2>2, <2>3, UIFacts DEF UITypes, NoOperation, UIOps
  <2>6. UIOK'
        BY <1>0, <2>2, <2>4 DEF UIOK, UISteps
  <2>7. ASSUME report'.ok, NEW op, op = ui.op, NEW s \in ui.picked PROVE Obeyed(op, s)'
        BY <1>2, <1>3, <1>4, <2>4, <2>7
  <2>8. OperationOK'
        BY <2>2, <2>4, <2>7 DEF OperationOK, Obeyed
  <2>9. QED
        BY <2>5, <2>6, <2>8 DEF UIKept
<1>5. CASE ~(next > NumSources \/ (~ok /\ ui.op # "Cancel"))
  <2>1. /\ ui' = [ui EXCEPT !.at = next, !.acked = NextAcked(ok)] /\ pc'[UI] = "alloc" /\ UNCHANGED report
        BY <1>0, <1>1, <1>5 DEF UIAfter, next
  <2>2. /\ ui' = [op |-> ui.op, at |-> next, picked |-> ui.picked, acked |-> NextAcked(ok)]
        /\ ui'.op = ui.op /\ ui'.at = next /\ ui'.picked = ui.picked /\ ui'.acked = NextAcked(ok)
        BY <2>1, UIFacts
  <2>3. next \in ui.picked /\ \A s \in ui.picked : s < next => s <= ui.at
        BY <1>3, <1>5, GroupAssumption DEF GroupAssumption
  <2>4. NextAcked(ok) \in BOOLEAN /\ (NextAcked(ok) => ui.acked /\ ok)
        BY UIFacts DEF NextAcked
  <2>5. UITypes'
    <3>1. ui' \in [op : UIOps, at : Nat \ {0}, picked : SUBSET Source, acked : BOOLEAN]
          BY <1>3, <2>2, <2>4, UIFacts
    <3>2. QED
          BY <2>1, <3>1 DEF UITypes, TypesOK
  <2>6. UIOK'
        BY <1>0, <1>1, <2>1, <2>2, <2>3 DEF UIOK, UISteps
  <2>7. ASSUME ui'.acked, NEW op, op = ui.op, NEW s \in ui.picked, s < next PROVE Obeyed(op, s)'
        BY <1>2, <2>2, <2>3, <2>4, <2>7
  <2>8. OperationOK'
        BY <1>1, <2>1, <2>2, <2>7 DEF OperationOK, Obeyed
  <2>9. QED
        BY <2>5, <2>6, <2>8 DEF UIKept
<1>6. QED
      BY <1>4, <1>5

\* A control that was acknowledged has been obeyed.
LEMMA AcknowledgedObeys ==
    ASSUME TypesOK, ReadersOK, UIOK, CommandsOK, OperationOK, Keeps, SendAnswered(UI),
           Accepted(cmd[UI]), NEW op, op = ui.op, NEW s, s = ui.at
    PROVE  Obeyed(op, s)'
<1>1. /\ pc[UI] = "send" /\ cmd[UI] \in Command /\ cmd[UI].source = s /\ cmd[UI].nonce = held[s]
      /\ cmd[UI].op = op /\ op \in UIOps /\ op # "Progress" /\ server' = Handled(cmd[UI]) /\ late' = late
      BY UIFacts DEF SendAnswered, UIOK
<1>2. s \in Source /\ held[s] # 0 /\ held[s] \in Nonce /\ held'[s] = held[s]
      BY <1>1, UIFacts DEF UIOK, TypesOK, Keeps
<1>3. op # "Begin"
      BY <1>1 DEF UIOps
<1>4. Settled(cmd[UI], server'[s][held[s]]) /\ server'[s][held[s]].seq = cmd[UI].seq
      BY <1>1, <1>2, <1>3, AcceptedIsSettled, Threads
<1>5. Session(s)' = server'[s][held[s]]
      BY <1>2 DEF Session
<1>6. op = "Cancel" => Ended(s)'
      BY <1>1, <1>4, <1>5 DEF Settled, Ended
<1>7. ASSUME op = "Pause" PROVE Halted(s)'
  <2>1. Session(s)'.state # "Running"
        BY <1>1, <1>4, <1>5, <1>7 DEF Settled
  <2>2. ASSUME NEW q, q = cmd[UI].seq PROVE Silent(s, q)'
        BY <1>1, <1>2, <1>7, <2>2 DEF OperationOK, Silent
  <2>3. QED
        BY <1>4, <1>5, <2>1, <2>2 DEF Halted, Silent
<1>8. QED
      BY <1>6, <1>7 DEF Obeyed

LEMMA UISends ==
    ASSUME TypesOK, ReadersOK, UIOK, CommandsOK, OperationOK, Keeps, late' \subseteq Pending,
           SendAnswered(UI) \/ SendFails(UI) \/ SendEnds(UI)
    PROVE  UIKept
<1>0. pc[UI] = "send"
      BY DEF SendAnswered, SendFails, SendEnds, SendExhausted, SendInterrupted, SendGivesUp
<1>1. CASE SendAnswered(UI)
  <2>1. Accepted(cmd[UI]) \in BOOLEAN /\ After(UI, Accepted(cmd[UI]))
        BY <1>1 DEF SendAnswered, Accepted
  <2>2. \A op, s : op = ui.op /\ s = ui.at /\ Accepted(cmd[UI]) => Obeyed(op, s)'
        BY <1>1, AcknowledgedObeys
  <2>3. QED
        BY <1>0, <2>1, <2>2, UICommandEnds
<1>2. CASE After(UI, FALSE)
      BY <1>0, <1>2, UICommandEnds
<1>3. CASE cmd' = [cmd EXCEPT ![UI] = Again(@)] /\ UNCHANGED <<pc, uiVars>>
  <2>1. cmd'[UI] = cmd[UI]
        BY <1>3, Threads DEF Again, TypesOK
  <2>2. QED
        BY <1>3, <2>1, UIUntouched
<1>4. QED
      BY <1>1, <1>2, <1>3 DEF SendFails, SendEnds, SendExhausted, SendInterrupted, SendGivesUp

LEMMA UIStepKept ==
    ASSUME TypesOK, ReadersOK, UIOK, SessionsOK, CommandsOK, OperationOK, [Next]_vars
    PROVE  UIKept
<1>0. Keeps /\ late' \subseteq Pending
      BY StepKeeps, LateIsPending
<1>1. CASE UNCHANGED vars \/ HandleLate
      BY <1>0, <1>1, UIUntouched DEF vars, HandleLate
<1>2. ASSUME NEW s \in Source, ReaderKept(s) PROVE UIKept
      BY <1>0, <1>2, UIUntouched DEF ReaderKept
<1>3. ASSUME NEW t \in Thread, SendAnswered(t) \/ SendFails(t) \/ SendEnds(t) PROVE UIKept
      BY <1>0, <1>2, <1>3, SendKeeps, UISends, Threads
<1>4. CASE (\E op \in UIOps : UIStart(op)) \/ Scan \/ Scanned \/ SetFlag \/ UIAlloc
      BY <1>0, <1>4, UISearches, UIFlags, UITakesNumber
<1>5. QED
      BY NextCases, <1>1, <1>2, <1>3, <1>4, ReadKeeps

-----------------------------------------------------------------------------
(* The completions. *)

Completed(s)  == pc[s] = "idle" /\ held[s] # 0 /\ "Complete" \in Session(s).consumed

LEMMA CompletedStays ==
    ASSUME TypesOK, ReadersOK, UIOK, SessionsOK, Effect, NEW s \in Source, held[s] # 0,
           "Complete" \in Session(s).consumed
    PROVE  held'[s] # 0 /\ "Complete" \in Session(s)'.consumed
  BY HeldStays, SessionGoesOn

\* The reader takes completion_sent up where it sends a Complete.
LEMMA ReadCompletes ==
    ASSUME TypesOK, CompletionOK, NEW s \in Source,
           \/ ReadAt(s) \/ Gate(s) \/ Credentials(s) \/ Join(s) \/ Joined(s) \/ Alloc(s)
           \/ RangeReaches(s) \/ RangeFails(s) \/ RangeEnds(s) \/ RangeAnswered(s)
    PROVE  completionSent'[s] => Completing(s)'
<1>0. DOMAIN pc = Thread /\ DOMAIN cmd = Thread /\ s \in Thread /\ DOMAIN completionSent = Source
      BY Threads DEF TypesOK
<1>1. completionSent[s] => Completing(s) \/ pc[s] = "idle"
      BY DEF CompletionOK, Completing
<1>2. CASE Alloc(s)
  <2>1. pc'[s] = "send" /\ cmd'[s].op = cmd[s].op /\ pc[s] = "alloc" /\ UNCHANGED completionSent
        BY <1>0, <1>2 DEF Alloc, GoTo, Control
  <2>2. QED
        BY <1>1, <2>1 DEF Completing
<1>3. CASE RangeAnswered(s) /\ RangeAtEnd(s)
      BY <1>0, <1>3 DEF RangeAtEnd, GoTo, Completing
<1>4. CASE ReadAt(s)
      BY <1>4 DEF ReadAt
<1>5. CASE \/ Gate(s) \/ Credentials(s) \/ Join(s) \/ Joined(s)
           \/ RangeReaches(s) \/ RangeFails(s) \/ RangeEnds(s)
  <2>1. pc[s] \in {"gate", "credentials", "join", "joined", "range", "serving"} /\ UNCHANGED completionSent
        BY <1>5 DEF Gate, Credentials, Join, Joined, RangeReaches, RangeFails, RangeEnds,
                    RangeExhausted, RangeInterrupted, RangeGivesUp, streamVars
  <2>2. QED
        BY <1>1, <2>1 DEF Completing
<1>6. CASE RangeAnswered(s) /\ (RangeCancelled(s) \/ RangeData(s) \/ RangeOfPaused(s))
  <2>1. pc[s] = "serving" /\ UNCHANGED completionSent
        BY <1>6 DEF RangeAnswered, RangeCancelled, RangeData, RangeOfPaused
  <2>2. QED
        BY <1>1, <2>1 DEF Completing
<1>7. QED
      BY <1>2, <1>3, <1>4, <1>5, <1>6 DEF RangeAnswered

\* It keeps it up only if the Complete is accepted, or as long as it is sent.
LEMMA SendCompletes ==
    ASSUME TypesOK, ReadersOK, UIOK, CommandsOK, CompletionOK, Effect, NEW s \in Source,
           SendAnswered(s) \/ SendFails(s) \/ SendEnds(s)
    PROVE  completionSent'[s] => (Completing(s) \/ Completed(s))'
<1>0. /\ DOMAIN pc = Thread /\ DOMAIN cmd = Thread /\ s \in Thread /\ s # UI /\ DOMAIN completionSent = Source
      /\ pc[s] = "send"
      BY Threads DEF TypesOK, SendAnswered, SendFails, SendEnds, SendExhausted, SendInterrupted, SendGivesUp
<1>1. completionSent[s] => cmd[s].op = "Complete"
      BY <1>0 DEF CompletionOK, Completing
<1>2. CASE After(s, FALSE)
  <2>1. completionSent' = IF cmd[s].op = "Complete" THEN [completionSent EXCEPT ![s] = FALSE] ELSE completionSent
        BY <1>0, <1>2 DEF After, ReaderAfter
  <2>2. QED
        BY <1>0, <1>1, <2>1
<1>3. CASE SendFails(s) /\ cmd' = [cmd EXCEPT ![s] = Again(@)] /\ UNCHANGED <<pc, streamVars>>
  <2>1. cmd'[s] = cmd[s] /\ UNCHANGED <<pc, completionSent>>
        BY <1>0, <1>3 DEF Again, streamVars
  <2>2. QED
        BY <1>0, <1>1, <2>1 DEF Completing
<1>4. CASE SendAnswered(s) /\ Accepted(cmd[s]) /\ completionSent'[s]
  <2>1. After(s, TRUE) /\ server' = Handled(cmd[s])
        BY <1>4 DEF SendAnswered
  <2>2. completionSent' = completionSent /\ cmd[s].op = "Complete"
        BY <1>0, <1>1, <1>4, <2>1 DEF After, ReaderAfter
  <2>3. pc'[s] = "idle" /\ held' = held
        BY <1>0, <2>1, <2>2 DEF After, ReaderAfter
  <2>4. cmd[s].source = s /\ cmd[s].nonce = held[s] /\ held[s] # 0 /\ held[s] \in Nonce
        BY <1>0, <2>2 DEF ReadersOK, ReaderOK, TypesOK
  <2>5. Settled(cmd[s], server'[s][held[s]])
        BY <1>0, <1>4, <2>1, <2>2, <2>4, AcceptedIsSettled
  <2>6. QED
        BY <2>2, <2>3, <2>4, <2>5 DEF Completed, Settled, Session
<1>5. CASE SendAnswered(s) /\ ~Accepted(cmd[s])
      BY <1>2, <1>5 DEF SendAnswered, Accepted
<1>6. QED
      BY <1>0, <1>2, <1>3, <1>4, <1>5 DEF SendFails, SendEnds, SendExhausted, SendInterrupted, SendGivesUp

LEMMA CompletionStep ==
    ASSUME TypesOK, ReadersOK, UIOK, SessionsOK, CommandsOK, CompletionOK, [Next]_vars
    PROVE  CompletionOK'
<1> SUFFICES ASSUME NEW r \in Source, completionSent'[r] PROVE (Completing(r) \/ Completed(r))'
    BY DEF CompletionOK, Completing, Completed
<1>0. Effect
      BY StepEffect
<1>1. CASE SameReader(r)
  <2>1. Completing(r) \/ Completed(r)
        BY <1>1 DEF CompletionOK, Completing, Completed, SameReader
  <2>2. CASE Completing(r)
        BY <1>1, <2>2 DEF Completing, SameReader
  <2>3. CASE Completed(r)
        BY <1>0, <1>1, <2>3, CompletedStays DEF Completed, SameReader
  <2>4. QED
        BY <2>1, <2>2, <2>3
<1>2. ASSUME NEW s \in Source, \/ ReadAt(s) \/ Gate(s) \/ Credentials(s) \/ Join(s) \/ Joined(s) \/ Alloc(s)
                               \/ RangeReaches(s) \/ RangeFails(s) \/ RangeEnds(s) \/ RangeAnswered(s)
      PROVE  SameReader(r) \/ (Completing(r) \/ Completed(r))'
      BY <1>2, ReadKeeps, ReadCompletes DEF ReaderKept
<1>3. ASSUME NEW t \in Thread, SendAnswered(t) \/ SendFails(t) \/ SendEnds(t)
      PROVE  SameReader(r) \/ (Completing(r) \/ Completed(r))'
  <2>1. CASE t = UI
        BY <1>3, <2>1, SendLeaves DEF ReadersLeft
  <2>2. CASE t = r
        BY <1>0, <1>3, <2>2, SendCompletes
  <2>3. CASE t \in Source \ {r}
        BY <1>3, <2>3, SendKeeps DEF ReaderKept
  <2>4. QED
        BY <2>1, <2>2, <2>3, Threads
<1>4. CASE UNCHANGED vars \/ HandleLate
      BY <1>1, <1>4 DEF SameReader, vars, streamVars, HandleLate
<1>5. CASE (\E op \in UIOps : UIStart(op)) \/ Scan \/ Scanned \/ SetFlag \/ UIAlloc
      BY <1>1, <1>5, OperateLeaves DEF ReadersLeft
<1>6. QED
      BY NextCases, <1>1, <1>2, <1>3, <1>4, <1>5

-----------------------------------------------------------------------------
(* What the sessions have consumed, and who knows of them. *)

LEMMA HistoryStep ==
    ASSUME TypesOK, ReadersOK, UIOK, SessionsOK, HistoryOK, Effect
    PROVE  HistoryOK'
<1> SUFFICES ASSUME NEW s \in Source, NEW n \in Nonce
             PROVE  /\ server'[s][n].state = "none" => server'[s][n].consumed = {}
                    /\ server'[s][n].state = "Paused" => "Pause" \in server'[s][n].consumed
                    /\ server'[s][n].state = "Running" /\ "Complete" \in server'[s][n].consumed
                          => "Pause" \in server'[s][n].consumed
    BY DEF HistoryOK
<1> DEFINE x == server[s][n]
           y == server'[s][n]
<1>0. /\ x.state = "none" => x.consumed = {}
      /\ x.state = "Paused" => "Pause" \in x.consumed
      /\ x.state = "Running" /\ "Complete" \in x.consumed => "Pause" \in x.consumed
      BY DEF HistoryOK
<1>t. x \in SessionRecord
      BY DEF TypesOK
<1>1. ASSUME NEW c \in Pending, Handles(c) PROVE c \in Command /\ Follows(x, y, s = c.source /\ n = c.nonce, c)
      BY <1>1, PendingIsCommand, HandledFollows DEF Handles
<1>2. ASSUME NEW c \in Command, Follows(x, y, s = c.source /\ n = c.nonce, c)
      PROVE  /\ y.state = "none" => y.consumed = {}
             /\ y.state = "Paused" => "Pause" \in y.consumed
             /\ y.state = "Running" /\ "Complete" \in y.consumed => "Pause" \in y.consumed
  <2>1. CASE y = x
        BY <1>0, <2>1
  <2>2. CASE x.state = "none" /\ y.state = "Running" /\ y.consumed = x.consumed
        BY <1>0, <2>2
  <2>3. CASE /\ c.op # "Begin" /\ x.state # "none"
             /\ y.state = Obey(c.op, x.state) /\ y.consumed = x.consumed \cup {c.op}
    <3>1. c.op \in Opcode /\ x.state \in States
          BY <1>t, <2>3 DEF Command, SessionRecord
    <3>2. /\ y.state # "none"
          /\ y.state = "Paused" => c.op = "Pause" \/ x.state = "Paused"
          /\ y.state = "Running" => (x.state = "Running" /\ c.op # "Complete") \/ x.state = "Paused"
          BY <2>3, <3>1 DEF Obey, Opcode, States, Active
    <3>3. CASE y.state = "Paused"
          BY <1>0, <2>3, <3>2, <3>3
    <3>4. CASE y.state = "Running"
          BY <1>0, <2>3, <3>2, <3>4
    <3>5. QED
          BY <3>2, <3>3, <3>4
  <2>4. QED
        BY <1>2, <2>1, <2>2, <2>3 DEF Follows
<1>3. (\A c \in Pending : ~Handles(c)) => y = x
      BY DEF Effect, Quiet, Begins, Controls
<1>4. QED
      BY <1>0, <1>1, <1>2, <1>3

\* A begin that failed is not forgotten.
LEMMA FailedAfter ==
    ASSUME TypesOK, ReadersOK, NEW t \in Thread, pc[t] = "send", NEW ok \in BOOLEAN, After(t, ok)
    PROVE  failed' \in [Source -> SUBSET Nonce] /\ \A s \in Source : failed[s] \subseteq failed'[s]
<1>1. CASE t = UI
      BY <1>1 DEF After, UIAfter, streamVars, TypesOK
<1>2. CASE t # UI
  <2>1. t \in Source /\ ReaderOK(t) /\ Fails(t, ok)
        BY <1>2, Threads DEF After, ReaderAfter, ReadersOK
  <2>2. cmd[t].nonce \in Nonce
        BY <2>1 DEF ReaderOK, Command
  <2>3. QED
        BY <2>1, <2>2 DEF Fails, TypesOK
<1>3. QED
      BY <1>1, <1>2

LEMMA FailedStays ==
    ASSUME TypesOK, ReadersOK, [Next]_vars
    PROVE  failed' \in [Source -> SUBSET Nonce] /\ \A s \in Source : failed[s] \subseteq failed'[s]
<1>1. CASE failed' = failed
      BY <1>1 DEF TypesOK
<1>2. ASSUME NEW t \in Thread, SendAnswered(t) \/ SendFails(t) \/ SendEnds(t)
      PROVE  failed' = failed \/ (pc[t] = "send" /\ \E ok \in BOOLEAN : After(t, ok))
      BY <1>2 DEF SendAnswered, Accepted, SendFails, SendEnds, SendExhausted, SendInterrupted, SendGivesUp,
                  streamVars
<1>3. ASSUME NEW s \in Source, \/ ReadAt(s) \/ Gate(s) \/ Credentials(s) \/ Join(s) \/ Joined(s) \/ Alloc(s)
                               \/ RangeReaches(s) \/ RangeFails(s) \/ RangeEnds(s) \/ RangeAnswered(s)
      PROVE  failed' = failed
      BY <1>3 DEF ReadAt, Gate, Credentials, Join, Joined, Alloc, RangeReaches, RangeFails, RangeEnds,
                  RangeExhausted, RangeInterrupted, RangeGivesUp, RangeAnswered, streamVars
<1>4. CASE (\E op \in UIOps : UIStart(op)) \/ Scan \/ Scanned \/ SetFlag \/ UIAlloc
      BY <1>1, <1>4 DEF UIStart, Scan, Scanned, SetFlag, UIAlloc, streamVars
<1>5. CASE UNCHANGED vars \/ HandleLate
      BY <1>1, <1>5 DEF vars, HandleLate, streamVars
<1>6. QED
      BY NextCases, <1>1, <1>2, <1>3, <1>4, <1>5, FailedAfter

\* Where a begin ends the stream has its session or was told that it failed.
LEMMA BeginEnds ==
    ASSUME TypesOK, ReadersOK, UIOK, NEW s \in Source, Opening(s), NEW ok \in BOOLEAN, After(s, ok)
    PROVE  cmd[s].nonce = held'[s] \/ cmd[s].nonce \in failed'[s]
<1>0. s \in Thread /\ s # UI /\ pc[s] = "send" /\ cmd[s].op = "Begin"
      BY Threads DEF Opening
<1>1. CASE ok
      BY <1>0, <1>1, AfterThread DEF TypesOK
<1>2. CASE ~ok
  <2>1. Fails(s, ok)
        BY <1>0 DEF After, ReaderAfter
  <2>2. QED
        BY <1>0, <1>2, <2>1 DEF Fails, TypesOK
<1>3. QED
      BY <1>1, <1>2

LEMMA OpeningStays ==
    ASSUME TypesOK, ReadersOK, UIOK, [Next]_vars, NEW s \in Source, Opening(s)
    PROVE  \/ Opening(s)' /\ cmd'[s].nonce = cmd[s].nonce
           \/ cmd[s].nonce = held'[s] \/ cmd[s].nonce \in failed'[s]
<1>1. SameReader(s) => Opening(s)' /\ cmd'[s].nonce = cmd[s].nonce
      BY DEF SameReader, Opening
<1>2. ASSUME NEW r \in Source, \/ ReadAt(r) \/ Gate(r) \/ Credentials(r) \/ Join(r) \/ Joined(r) \/ Alloc(r)
                               \/ RangeReaches(r) \/ RangeFails(r) \/ RangeEnds(r) \/ RangeAnswered(r)
      PROVE  SameReader(s)
  <2>1. pc[r] # "send"
        BY <1>2 DEF ReadAt, Gate, Credentials, Join, Joined, Alloc, RangeReaches, RangeFails, RangeEnds,
                    RangeExhausted, RangeInterrupted, RangeGivesUp, RangeAnswered
  <2>2. r # s
        BY <2>1 DEF Opening
  <2>3. ReaderKept(r)
        BY <1>2, ReadKeeps
  <2>4. QED
        BY <2>2, <2>3 DEF ReaderKept
<1>3. ASSUME NEW t \in Thread, SendAnswered(t) \/ SendFails(t) \/ SendEnds(t)
      PROVE  \/ SameReader(s)
             \/ t = s /\ \E ok \in BOOLEAN : After(s, ok)
  <2>1. CASE t = UI
        BY <1>3, <2>1, SendLeaves DEF ReadersLeft
  <2>2. CASE t \in Source \ {s}
        BY <1>3, <2>2, SendKeeps DEF ReaderKept
  <2>3. CASE t = s
    <3>1. s # UI
          BY Threads
    <3>2. CASE SendFails(s) /\ cmd' = [cmd EXCEPT ![s] = Again(@)] /\ UNCHANGED <<pc, streamVars>>
      <4>1. cmd'[s] = cmd[s]
            BY <2>3, <3>2 DEF Again, TypesOK
      <4>2. QED
            BY <3>2, <4>1 DEF SameReader, streamVars
    <3>3. QED
          BY <1>3, <2>3, <3>1, <3>2 DEF SendAnswered, Accepted, SendFails, SendEnds, SendExhausted,
                                        SendInterrupted, SendGivesUp
  <2>4. QED
        BY <2>1, <2>2, <2>3, Threads
<1>4. CASE UNCHANGED vars \/ HandleLate
      BY <1>1, <1>4 DEF SameReader, vars, streamVars, HandleLate
<1>5. CASE (\E op \in UIOps : UIStart(op)) \/ Scan \/ Scanned \/ SetFlag \/ UIAlloc
      BY <1>1, <1>5, OperateLeaves DEF ReadersLeft
<1>6. QED
      BY NextCases, <1>1, <1>2, <1>3, <1>4, <1>5, BeginEnds

LEMMA KnownStays ==
    ASSUME TypesOK, ReadersOK, UIOK, Effect, [Next]_vars, NEW s \in Source, NEW n \in Nonce, Known(s, n)
    PROVE  Known(s, n)'
<1>1. CASE n = held[s]
  <2>1. held[s] # 0
        BY <1>1 DEF Nonce
  <2>2. QED
        BY <1>1, <2>1, HeldStays DEF Known
<1>2. CASE n \in failed[s]
      BY <1>2, FailedStays DEF Known
<1>3. CASE Opening(s) /\ cmd[s].nonce = n
      BY <1>3, OpeningStays DEF Known
<1>4. QED
      BY <1>1, <1>2, <1>3 DEF Known

LEMMA KnownStep ==
    ASSUME TypesOK, ReadersOK, UIOK, KnownOK, Effect, [Next]_vars
    PROVE  KnownOK'
<1>1. ASSUME NEW c \in Pending, c.op = "Begin"
      PROVE  c.source \in Source /\ c.nonce \in Nonce /\ Known(c.source, c.nonce)
  <2>1. c \in Command
        BY PendingIsCommand
  <2>2. CASE c \in late
        BY <1>1, <2>1, <2>2 DEF KnownOK, Command
  <2>3. ASSUME NEW t \in Thread, pc[t] = "send", c = cmd[t]
        PROVE  Known(c.source, c.nonce)
    <3>1. t # UI
          BY <1>1, <2>3 DEF UIOK, TypesOK, UIOps
    <3>2. t \in Source /\ c.source = t /\ Opening(t)
          BY <1>1, <2>3, <3>1, Threads DEF ReadersOK, ReaderOK, Opening
    <3>3. QED
          BY <2>3, <3>2 DEF Known
  <2>4. QED
        BY <2>1, <2>2, <2>3 DEF Pending, Command
<1>2. ASSUME NEW s \in Source, NEW n \in Nonce, server'[s][n].state # "none"
      PROVE  Known(s, n)'
  <2>1. CASE server[s][n].state # "none"
        BY <2>1, KnownStays DEF KnownOK
  <2>2. CASE server[s][n].state = "none"
    <3>1. server'[s][n] # server[s][n]
          BY <1>2, <2>2
    <3>2. PICK c \in Pending : Handles(c)
          BY <3>1 DEF Effect, Quiet, Begins, Controls
    <3>3. Follows(server[s][n], server'[s][n], s = c.source /\ n = c.nonce, c)
          BY <3>2, PendingIsCommand, HandledFollows DEF Handles
    <3>4. c.op = "Begin" /\ s = c.source /\ n = c.nonce
          BY <2>2, <3>1, <3>3 DEF Follows
    <3>5. Known(s, n)
          BY <1>1, <3>4
    <3>6. QED
          BY <3>5, KnownStays
  <2>3. QED
        BY <2>1, <2>2
<1>3. ASSUME NEW c \in late', c.op = "Begin" PROVE Known(c.source, c.nonce)'
  <2>1. c \in Pending
        BY LateIsPending
  <2>2. QED
        BY <1>1, <1>3, <2>1, KnownStays
<1>4. QED
      BY <1>2, <1>3 DEF KnownOK

-----------------------------------------------------------------------------
(* The invariant holds. *)

LEMMA TypesStep ==
    ASSUME TypesOK, ReadersOK, UIOK, UIKept, [Next]_vars
    PROVE  TypesOK'
<1>1. /\ held' \in [Source -> Nonce \cup {0}]
      /\ nextSeq' \in [Source -> Nat \ {0}]
      /\ server' \in [Source -> [Nonce -> SessionRecord]]
      /\ Pending' \subseteq Command
      BY StepEffect, EffectTypes
<1>2. /\ pc' \in [Thread -> ReaderSteps \cup UISteps] /\ DOMAIN cmd' = Thread
      /\ reads' \in [Source -> 0 .. MaxReads] /\ completionSent' \in [Source -> BOOLEAN]
      BY StepOfReaders DEF ReadersLeft, ReaderKept, TypesOK
<1>3. late' \subseteq Command
      BY <1>1 DEF Pending
<1>4. failed' \in [Source -> SUBSET Nonce]
      BY FailedStays
<1>5. QED
      BY <1>1, <1>2, <1>3, <1>4 DEF UIKept, UITypes, TypesOK

LEMMA Initially == Init => Inv
<1> SUFFICES ASSUME Init PROVE Inv
    OBVIOUS
<1>0. Pending = {}
      BY DEF Init, Pending
<1>1. TypesOK
  <2>1. [state |-> "none", seq |-> 0, consumed |-> {}] \in SessionRecord
        BY DEF SessionRecord, States
  <2>2. server \in [Source -> [Nonce -> SessionRecord]]
        BY <2>1 DEF Init
  <2>3. reads \in [Source -> 0 .. MaxReads] /\ held \in [Source -> Nonce \cup {0}]
        /\ nextSeq \in [Source -> Nat \ {0}] /\ completionSent \in [Source -> BOOLEAN]
        BY GroupAssumption DEF Init, GroupAssumption
  <2>4. pc \in [Thread -> ReaderSteps \cup UISteps] /\ DOMAIN cmd = Thread /\ late \subseteq Command
        BY DEF Init, ReaderSteps
  <2>5. /\ ui \in [op : UIOps, at : Nat \ {0}, picked : SUBSET Source, acked : BOOLEAN]
        /\ report \in [op : UIOps \cup {"none"}, sources : SUBSET Source, ok : BOOLEAN]
        BY DEF Init, NoOperation, UIOps
  <2>6. failed \in [Source -> SUBSET Nonce]
        BY DEF Init
  <2>7. QED
        BY <2>2, <2>3, <2>4, <2>5, <2>6 DEF TypesOK
<1>2. \A t \in Thread : pc[t] = "idle"
      BY DEF Init
<1>3. ReadersOK
      BY <1>2, Threads DEF ReadersOK, ReaderOK, ReaderSteps
<1>4. UIOK
      BY <1>2, Threads DEF UIOK, UISteps, Init, NoOperation
<1>5. SessionsOK
      BY DEF Init, SessionsOK
<1>6. CommandsOK
      BY <1>0 DEF CommandsOK
<1>7. CompletionOK
      BY DEF Init, CompletionOK
<1>8. OperationOK
      BY <1>2, Threads DEF OperationOK, Init, NoOperation
<1>9. HistoryOK
      BY DEF Init, HistoryOK
<1>10. KnownOK
       BY DEF Init, KnownOK
<1>11. QED
       BY <1>1, <1>3, <1>4, <1>5, <1>6, <1>7, <1>8, <1>9, <1>10 DEF Inv

LEMMA InvStep == Inv /\ [Next]_vars => Inv'
<1> SUFFICES ASSUME Inv, [Next]_vars PROVE Inv'
    OBVIOUS
<1>0. /\ TypesOK /\ ReadersOK /\ UIOK /\ SessionsOK /\ CommandsOK /\ CompletionOK /\ OperationOK
      /\ HistoryOK /\ KnownOK
      BY DEF Inv
<1>1. Effect /\ UIKept
      BY <1>0, StepEffect, UIStepKept
<1>2. TypesOK' /\ ReadersOK' /\ CompletionOK'
      BY <1>0, <1>1, TypesStep, ReadersStep, CompletionStep
<1>3. SessionsOK' /\ CommandsOK'
      BY <1>0, <1>1, SessionsStep, CommandsStep
<1>4. HistoryOK' /\ KnownOK'
      BY <1>0, <1>1, HistoryStep, KnownStep
<1>5. QED
      BY <1>1, <1>2, <1>3, <1>4 DEF UIKept, Inv

LEMMA InvHolds == Spec => []Inv
  BY Initially, InvStep, PTL DEF Spec

-----------------------------------------------------------------------------
(* The theorems. *)

\* Everything a stream keeps, whatever commands were repeated or handled late: the
\* types of the state, and that what a thread sends belongs to its session.
THEOREM GroupIsWellFormed == Spec => [](TypesOK /\ ReadersOK /\ UIOK)
<1>1. Inv => TypesOK /\ ReadersOK /\ UIOK
      BY DEF Inv
<1>2. QED
      BY <1>1, InvHolds, PTL

\* When pause_all returned without an error, no stream it paused is served again
\* before the next operation begins: a Resume that is handled late has a number
\* the session has left behind.
THEOREM PauseReports == Spec => []PauseReportIsTrue
<1>1. Inv => PauseReportIsTrue
      BY DEF Inv, OperationOK, Obeyed, Halted, PauseReportIsTrue
<1>2. QED
      BY <1>1, InvHolds, PTL

\* When cancel_all reported remote_acknowledged, the sessions of all streams that
\* had started are over at the source.
THEOREM CancelReports == Spec => []CancelReportIsTrue
<1>1. Inv => CancelReportIsTrue
      BY DEF Inv, OperationOK, Obeyed, Ended, CancelReportIsTrue
<1>2. QED
      BY <1>1, InvHolds, PTL

\* A stream that counts as completed is one whose Complete is on its way or was
\* consumed by a session that is over, unless the session was paused before.
THEOREM CompletionsAreKnown == Spec => []CompletionIsKnown
<1>1. Inv => CompletionIsKnown
  <2> SUFFICES ASSUME Inv, NEW s \in Source, completionSent[s], ~Completing(s)
               PROVE  /\ "Complete" \in Session(s).consumed
                      /\ Session(s).state \in Active => "Pause" \in Session(s).consumed
      BY DEF CompletionIsKnown
  <2>1. held[s] # 0 /\ "Complete" \in Session(s).consumed
        BY DEF Inv, CompletionOK
  <2>2. held[s] \in Nonce
        BY <2>1 DEF Inv, TypesOK
  <2>3. QED
        BY <2>1, <2>2 DEF Inv, HistoryOK, Session, Active
<1>2. QED
      BY <1>1, InvHolds, PTL

\* The source keeps no session of a stream but the one the stream has or is beginning
\* and those whose begins ended with an error.
THEOREM SessionsAreKnown == Spec => []SessionsAreAccountedFor
<1>1. Inv => SessionsAreAccountedFor
      BY DEF Inv, KnownOK, Known, SessionsAreAccountedFor
<1>2. QED
      BY <1>1, InvHolds, PTL
=============================================================================
