------------------------- MODULE HistoryFileProofs -------------------------
(***************************************************************************)
(* Proofs about the files of History, without a cap (MaxRounds = 0), for   *)
(* any number of peers, rounds, failures and restarts: no answered message *)
(* is lost silently, the context of a reply holds the message, and index   *)
(* and file agree until something fails.                                   *)
(*                                                                         *)
(* The argument is that a file only grows (Grows), so that what has been   *)
(* on file stays there, and that each stage of an operation starts from a  *)
(* file that holds what the stages before it were to write (OpOnFile).     *)
(***************************************************************************)
EXTENDS HistoryProofs

\* A file g that grew out of file f: only half a line at the end changes.
Grows(f, g) ==
    /\ Len(f) <= Len(g)
    /\ \A i \in DOMAIN f : \/ g[i] = f[i]
                           \/ f[i].role = "torn" /\ g[i].role = "garbage"

\* Whether the message of round r is in a file, and its reply (Stored and
\* Replied, of a file).
HasOpening(f, r) == \E i \in DOMAIN f : Opens(f[i], r)

HasReply(f, r) == \E i \in DOMAIN f : f[i].round = r /\ f[i].role = "inbound"

\* What an acknowledgement a promises to be in a file.
Kept(f, a) ==
    ((a.kind = "send" /\ ContextRounds > 0) \/ Readable(f)) =>
        \A r \in a.first .. a.last :
            /\ HasOpening(f, r)
            /\ (a.kind = "send" /\ ContextRounds > 0) => HasReply(f, r)

\* What was acknowledged is on file (NoSilentLoss).
AcksKept == MaxRounds = 0 => \A p \in Peers : \A i \in DOMAIN acks[p] : Kept(file[p], acks[p][i])

\* The newest line of a file opens round r.
EndsOpening(f, r) == f # <<>> /\ Opens(f[Len(f)], r)

\* The operation in progress holds the newest round of its peer, and a reply
\* follows its message when replies are recorded.
OpShape ==
    op # NoOp =>
        /\ op.round = mem[op.peer].last
        /\ op.kind # "import" => op.first = op.round /\ op.left = 0
        /\ op.kind = "inbound" => op.stage \in {"append", "save"} /\ ContextRounds > 0
        /\ op.stage = "context" => op.kind = "outbound" /\ ContextRounds > 0

\* Without a cap the first round never moves.
FirstZero == MaxRounds = 0 => \A p \in Peers : mem[p].first = 0 /\ idx[p].first = 0

\* What the operation in progress has on file.
OpOnFile ==
    (MaxRounds = 0 /\ op # NoOp) =>
        /\ (op.kind = "outbound" /\ op.stage # "append" /\ Readable(file[op.peer])) =>
              EndsOpening(file[op.peer], op.round)
        /\ (op.kind = "inbound" /\ op.stage = "append") =>
              Readable(file[op.peer]) /\ EndsOpening(file[op.peer], op.round)
        /\ (op.kind = "inbound" /\ op.stage = "save") =>
              HasOpening(file[op.peer], op.round) /\ HasReply(file[op.peer], op.round)
        /\ (op.kind = "import" /\ Readable(file[op.peer])) =>
              \A r \in op.first .. op.round :
                  HasOpening(file[op.peer], r) \/ (r = op.round /\ op.stage = "append")

\* The saved index is the one in memory while no operation is in progress, if
\* none has failed, and while a reply is made.
SavedInv ==
    (\/ op = NoOp /\ faults = 0
     \/ op # NoOp /\ (op.stage = "context" \/ op.kind = "inbound")) => idx = mem

\* Index and file before any failure.
AgreeInv ==
    (MaxRounds = 0 /\ faults = 0 /\ crashes = 0) =>
        \A p \in Peers :
            /\ mem[p].last = mem[p].total
            /\ Readable(file[p])
            /\ \A r \in 1 .. mem[p].last :
                  \/ HasOpening(file[p], r)
                  \/ /\ op # NoOp /\ op.peer = p /\ op.round = r
                     /\ op.stage = "append" /\ op.kind # "inbound"

\* The inductive invariant.
FInv == IInv /\ OpShape /\ FirstZero /\ OpOnFile /\ AcksKept /\ SavedInv /\ AgreeInv

-----------------------------------------------------------------------------
(* Files only grow *)

\* The last line of a file that is not empty, and lines in general.
LEMMA FileLines ==
    ASSUME NEW f \in Seq(Line)
    PROVE  /\ Len(f) \in Nat /\ DOMAIN f = 1 .. Len(f)
           /\ f # <<>> => Len(f) \in DOMAIN f
           /\ \A i \in DOMAIN f : f[i] \in Line
<1>1. Len(f) \in Nat /\ DOMAIN f = 1 .. Len(f) /\ \A i \in DOMAIN f : f[i] \in Line
  OBVIOUS
<1>2. f # <<>> => Len(f) \in DOMAIN f
  BY EmptySeq
<1> QED
  BY <1>1, <1>2

\* A line behind a file.
LEMMA LineAdded ==
    ASSUME NEW f \in Seq(Line), NEW line \in Line, NEW g, g = Append(f, line)
    PROVE  /\ g \in Seq(Line) /\ g # <<>> /\ Len(g) = Len(f) + 1 /\ g[Len(g)] = line
           /\ \A i \in DOMAIN f : g[i] = f[i]
           /\ \A i \in DOMAIN g : i \in DOMAIN f \/ i = Len(g)
           /\ DOMAIN f \subseteq DOMAIN g /\ Len(g) \in DOMAIN g /\ Len(g) \notin DOMAIN f
<1>1. /\ g \in Seq(Line) /\ g # <<>> /\ Len(g) = Len(f) + 1 /\ g[Len(f) + 1] = line
      /\ \A i \in 1 .. Len(f) : g[i] = f[i]
  BY AppendProperties
<1>2. \A n \in Nat : /\ n + 1 \in 1 .. n + 1 /\ n + 1 \notin 1 .. n
                     /\ 1 .. n \subseteq 1 .. n + 1
                     /\ \A i \in 1 .. n + 1 : i \in 1 .. n \/ i = n + 1
  OBVIOUS
<1>3. Len(f) \in Nat /\ DOMAIN f = 1 .. Len(f) /\ DOMAIN g = 1 .. Len(f) + 1
  BY <1>1, FileLines
<1> QED
  BY <1>1, <1>2, <1>3

\* A line in place of the last one.
LEMMA LineReplaced ==
    ASSUME NEW f \in Seq(Line), f # <<>>, NEW line \in Line, NEW g,
           g = [f EXCEPT ![Len(f)] = line]
    PROVE  /\ g \in Seq(Line) /\ Len(g) = Len(f) /\ Len(f) \in DOMAIN f
           /\ DOMAIN g = DOMAIN f
           /\ g[Len(f)] = line
           /\ \A i \in DOMAIN f : i # Len(f) => g[i] = f[i]
<1>1. Len(f) \in 1 .. Len(f) /\ DOMAIN f = 1 .. Len(f)
  BY FileLines
<1>2. /\ g \in Seq(Line) /\ Len(g) = Len(f)
      /\ \A j \in 1 .. Len(f) : g[j] = IF j = Len(f) THEN line ELSE f[j]
  BY <1>1, ExceptSeq
<1>3. DOMAIN g = 1 .. Len(f)
  BY <1>2, FileLines
<1> QED
  BY <1>1, <1>2, <1>3

\* _append_line lets the file grow; and if it can be read afterwards, it could
\* be before, and ends with the line.
LEMMA AppendedGrows ==
    ASSUME NEW f \in Seq(Line), NEW line \in Line, NEW g, g = Appended(f, line)
    PROVE  /\ g \in Seq(Line) /\ Grows(f, g)
           /\ Readable(f) => ~EndsTorn(f)
           /\ EndsTorn(f) => Len(g) = Len(f) /\ ~Readable(g)
           /\ ~EndsTorn(f) => g = Append(f, line)
<1>1. Readable(f) => ~EndsTorn(f)
  BY FileLines DEF Readable, EndsTorn
<1>2. CASE EndsTorn(f)
  <2>1. BadLine("garbage") \in Line /\ BadLine("garbage").role = "garbage"
    BY BadLineType DEF BadLine
  <2>2. f # <<>> /\ g = [f EXCEPT ![Len(f)] = BadLine("garbage")] /\ f[Len(f)].role = "torn"
    BY <1>2 DEF EndsTorn, Appended
  <2>3. /\ g \in Seq(Line) /\ Len(g) = Len(f) /\ Len(f) \in DOMAIN f /\ DOMAIN g = DOMAIN f
        /\ g[Len(f)].role = "garbage"
        /\ \A i \in DOMAIN f : i # Len(f) => g[i] = f[i]
    BY <2>1, <2>2, LineReplaced
  <2>4. Grows(f, g)
    BY <2>2, <2>3, FileLines DEF Grows
  <2>5. ~Readable(g)
    BY <2>3 DEF Readable
  <2> QED
    BY <1>1, <1>2, <2>3, <2>4, <2>5
<1>3. CASE ~EndsTorn(f)
  <2>1. g = Append(f, line)
    BY <1>3 DEF Appended
  <2>2. g \in Seq(Line) /\ Len(g) = Len(f) + 1 /\ \A i \in DOMAIN f : g[i] = f[i]
    BY <2>1, LineAdded
  <2> QED
    BY <1>1, <1>3, <2>1, <2>2, FileLines DEF Grows
<1> QED
  BY <1>2, <1>3

\* So does an interrupted one, and if the file can be read afterwards nothing
\* was written.
LEMMA InterruptedGrows ==
    ASSUME NEW f \in Seq(Line), NEW g \in Interrupted(f)
    PROVE  /\ g \in Seq(Line) /\ Grows(f, g)
           /\ \/ g = f
              \/ g = Append(f, BadLine("torn")) /\ ~Readable(g)
<1>1. CASE g = f
  BY <1>1, FileLines DEF Grows
<1>2. CASE g = Append(f, BadLine("torn"))
  <2>1. BadLine("torn") \in Line /\ BadLine("torn").role = "torn"
    BY BadLineType DEF BadLine
  <2>2. /\ g \in Seq(Line) /\ Len(g) = Len(f) + 1 /\ \A i \in DOMAIN f : g[i] = f[i]
        /\ Len(g) \in DOMAIN g /\ g[Len(g)] = BadLine("torn")
    BY <1>2, <2>1, LineAdded
  <2> QED
    BY <1>2, <2>1, <2>2, FileLines DEF Grows, Readable
<1> QED
  BY <1>1, <1>2 DEF Interrupted

\* What is in a file stays in it while it grows, and damage does too.
LEMMA GrowthKeeps ==
    ASSUME NEW f \in Seq(Line), NEW g \in Seq(Line), Grows(f, g)
    PROVE  /\ Readable(g) => Readable(f)
           /\ DOMAIN f \subseteq DOMAIN g
           /\ \A i \in DOMAIN f : f[i].role # "torn" => g[i] = f[i]
           /\ \A r : HasOpening(f, r) => HasOpening(g, r)
           /\ \A r : HasReply(f, r) => HasReply(g, r)
           /\ \A a : Kept(f, a) => Kept(g, a)
<1>1. DOMAIN f \subseteq DOMAIN g
  BY FileLines DEF Grows
<1>2. Readable(g) => Readable(f)
  <2> SUFFICES ASSUME Readable(g), NEW i \in DOMAIN f
               PROVE  f[i].role \notin {"torn", "garbage"}
    BY DEF Readable
  <2>1. g[i].role \notin {"torn", "garbage"}
    BY <1>1 DEF Readable
  <2> QED
    BY <2>1 DEF Grows
<1>3. \A i \in DOMAIN f : f[i].role # "torn" => g[i] = f[i]
  BY DEF Grows
<1>4. ASSUME NEW r, HasOpening(f, r) PROVE HasOpening(g, r)
  BY <1>1, <1>3, <1>4 DEF HasOpening, Opens
<1>5. ASSUME NEW r, HasReply(f, r) PROVE HasReply(g, r)
  BY <1>1, <1>3, <1>5 DEF HasReply
<1>6. ASSUME NEW a, Kept(f, a) PROVE Kept(g, a)
  BY <1>2, <1>4, <1>5, <1>6 DEF Kept
<1> QED
  BY <1>1, <1>2, <1>3, <1>4, <1>5, <1>6

-----------------------------------------------------------------------------
(* The steps, without a cap *)

\* What is known of the operation in progress.
LEMMA OpType ==
    ASSUME TypeOK, op # NoOp
    PROVE  /\ op \in Operation /\ op.peer \in Peers
           /\ op.round \in Nat /\ op.first \in Nat /\ op.left \in Nat
           /\ op.kind \in {"outbound", "inbound", "import"}
           /\ op.stage \in {"append", "cap", "save", "context"}
BY DEF TypeOK, Operation

\* Without a cap _enforce_cap changes neither the file nor the entry.
LEMMA Uncapped ==
    ASSUME TypeOK, MaxRounds = 0, NEW p \in Peers
    PROVE  Trimmed(p) = file[p] /\ Shifted(p) = mem[p]
<1>1. Excess(p) = 0 /\ mem[p] \in Entry
  BY DEF Excess, TypeOK
<1>2. Shifted(p) = mem[p]
  BY <1>1 DEF Shifted, Entry
<1> QED
  BY <1>1, <1>2 DEF Trimmed

\* AppendLine writes the line of the current round.
LEMMA AppendStep ==
    ASSUME TypeOK, AppendLine
    PROVE  \E line \in Line :
              /\ line.round = op.round /\ line.role = op.kind
              /\ file' = [file EXCEPT ![op.peer] = Appended(file[op.peer], line)]
<1>1. PICK s \in Separators :
        file' = [file EXCEPT ![op.peer] =
                    Appended(@, [round |-> op.round, role |-> op.kind,
                                 seps |-> s /\ op.kind # "inbound"])]
  BY DEF AppendLine
<1> DEFINE line == [round |-> op.round, role |-> op.kind,
                    seps |-> s /\ op.kind # "inbound"]
<1>2. line \in Line /\ line.round = op.round /\ line.role = op.kind
  BY OpType, HistoryAssumption DEF AppendLine, Line
<1>3. file' = [file EXCEPT ![op.peer] = Appended(file[op.peer], line)]
  BY <1>1
<1> HIDE DEF line
<1> QED
  BY <1>2, <1>3

\* What a step does to a file: nothing; or it appends the line of the operation
\* in progress, or spoils the end.
LEMMA FileStep ==
    ASSUME TypeOK, MaxRounds = 0, [Next]_vars, NEW p \in Peers
    PROVE  /\ file[p] \in Seq(Line) /\ file'[p] \in Seq(Line)
           /\ Grows(file[p], file'[p])
           /\ \/ file'[p] = file[p]
              \/ op # NoOp /\ op.peer = p /\ op.stage = "append"
<1>1. file[p] \in Seq(Line)
  BY DEF TypeOK
<1> DEFINE Moves == /\ file'[p] \in Seq(Line) /\ Grows(file[p], file'[p])
                    /\ \/ file'[p] = file[p]
                       \/ op # NoOp /\ op.peer = p /\ op.stage = "append"
<1>2. CASE file'[p] = file[p]
  BY <1>1, <1>2, FileLines DEF Grows
<1>3. CASE AppendLine
  <2>1. PICK line \in Line :
          file' = [file EXCEPT ![op.peer] = Appended(file[op.peer], line)]
    BY <1>3, AppendStep
  <2>2. CASE p = op.peer
    <3>1. file'[p] = Appended(file[p], line)
      BY <2>1, <2>2 DEF TypeOK
    <3>2. file'[p] \in Seq(Line) /\ Grows(file[p], file'[p])
      BY <1>1, <3>1, AppendedGrows
    <3> QED
      BY <1>1, <1>3, <2>2, <3>2 DEF AppendLine
  <2>3. CASE p # op.peer
    BY <1>2, <2>1, <2>3 DEF TypeOK
  <2> QED
    BY <2>2, <2>3
<1>4. CASE EnforceCap
  <2>1. op.peer \in Peers
    BY <1>4, OpType DEF EnforceCap
  <2>2. file' = [file EXCEPT ![op.peer] = file[op.peer]]
    BY <1>4, <2>1, Uncapped DEF EnforceCap
  <2> QED
    BY <1>2, <2>2 DEF TypeOK
<1>5. CASE InterruptedFile
  <2>1. CASE op # NoOp /\ op.stage = "append" /\ op.peer = p
    <3>1. PICK f \in Interrupted(file[p]) : file' = [file EXCEPT ![p] = f]
      BY <1>5, <2>1 DEF InterruptedFile
    <3>2. file'[p] = f
      BY <3>1 DEF TypeOK
    <3>3. f \in Seq(Line) /\ Grows(file[p], f)
      BY <1>1, <3>1, InterruptedGrows
    <3> QED
      BY <1>1, <2>1, <3>2, <3>3
  <2>2. CASE ~(op # NoOp /\ op.stage = "append" /\ op.peer = p)
    BY <1>2, <1>5, <2>2 DEF InterruptedFile, TypeOK
  <2> QED
    BY <2>1, <2>2
<1>6. UNCHANGED file \/ AppendLine \/ EnforceCap \/ InterruptedFile
  BY DEF Next, vars, RecordOutbound, ImportMessages, Open, ImportNothing,
         SaveIndex, ReadContext, Fault, Crash
<1> QED
  BY <1>1, <1>2, <1>3, <1>4, <1>5, <1>6

\* The file of an operation whose line was written: the line is its newest one
\* unless half a line was in its way, and then the file cannot be read.
LEMMA LineWritten ==
    ASSUME TypeOK, AppendLine
    PROVE  LET p == op.peer IN
           /\ Readable(file'[p]) => Readable(file[p])
           /\ Readable(file[p]) \/ Readable(file'[p]) =>
                /\ Readable(file'[p]) /\ file'[p] # <<>>
                /\ Len(file'[p]) \in DOMAIN file'[p]
                /\ file'[p][Len(file'[p])].round = op.round
                /\ file'[p][Len(file'[p])].role = op.kind
<1> DEFINE p == op.peer
<1>1. p \in Peers /\ file[p] \in Seq(Line) /\ op.kind \notin {"torn", "garbage"}
  BY OpType DEF AppendLine, TypeOK
<1>2. PICK line \in Line :
        /\ line.round = op.round /\ line.role = op.kind
        /\ file' = [file EXCEPT ![p] = Appended(file[p], line)]
  BY AppendStep
<1>3. file'[p] = Appended(file[p], line)
  BY <1>1, <1>2 DEF TypeOK
<1> HIDE DEF p
<1>4. CASE EndsTorn(file[p])
  BY <1>1, <1>3, <1>4, AppendedGrows DEF p
<1>5. CASE ~EndsTorn(file[p])
  <2>1. file'[p] = Append(file[p], line)
    BY <1>1, <1>3, <1>5, AppendedGrows
  <2>2. /\ file'[p] # <<>> /\ file'[p][Len(file'[p])] = line
        /\ \A i \in DOMAIN file[p] : file'[p][i] = file[p][i]
        /\ \A i \in DOMAIN file'[p] : i \in DOMAIN file[p] \/ i = Len(file'[p])
        /\ DOMAIN file[p] \subseteq DOMAIN file'[p] /\ Len(file'[p]) \in DOMAIN file'[p]
    BY <1>1, <2>1, LineAdded
  <2>3. Readable(file'[p]) <=> Readable(file[p])
    BY <1>1, <1>2, <2>2 DEF Readable
  <2> QED
    BY <1>2, <2>2, <2>3 DEF p
<1> QED
  BY <1>4, <1>5

\* A line that parses was there before, or is that of the operation in progress,
\* behind those that were.
LEMMA LinesAdded ==
    ASSUME TypeOK, MaxRounds = 0, [Next]_vars, NEW p \in Peers,
           NEW i \in DOMAIN file'[p], file'[p][i].role \notin {"torn", "garbage"}
    PROVE  \/ i \in DOMAIN file[p] /\ file'[p][i] = file[p][i]
           \/ /\ AppendLine /\ op.peer = p
              /\ i = Len(file[p]) + 1 /\ i \notin DOMAIN file[p]
              /\ file'[p][i].round = op.round /\ file'[p][i].role = op.kind
<1>1. file[p] \in Seq(Line)
  BY DEF TypeOK
<1>2. CASE file'[p] = file[p]
  BY <1>2
<1>3. CASE AppendLine /\ op.peer = p
  <2>1. PICK line \in Line :
          /\ line.round = op.round /\ line.role = op.kind
          /\ file' = [file EXCEPT ![op.peer] = Appended(file[op.peer], line)]
    BY <1>3, AppendStep
  <2>2. file'[p] = Appended(file[p], line)
    BY <1>3, <2>1 DEF TypeOK
  <2>3. CASE EndsTorn(file[p])
    <3>1. BadLine("garbage") \in Line /\ BadLine("garbage").role = "garbage"
      BY BadLineType DEF BadLine
    <3>2. file[p] # <<>> /\ file'[p] = [file[p] EXCEPT ![Len(file[p])] = BadLine("garbage")]
      BY <2>2, <2>3 DEF EndsTorn, Appended
    <3>3. /\ DOMAIN file'[p] = DOMAIN file[p]
          /\ file'[p][Len(file[p])] = BadLine("garbage")
          /\ \A j \in DOMAIN file[p] : j # Len(file[p]) => file'[p][j] = file[p][j]
      BY <1>1, <3>1, <3>2, LineReplaced
    <3> QED
      BY <3>1, <3>3
  <2>4. CASE ~EndsTorn(file[p])
    <3>1. file'[p] = Append(file[p], line)
      BY <2>2, <2>4 DEF Appended
    <3> QED
      BY <1>1, <1>3, <2>1, <3>1, LineAdded
  <2> QED
    BY <2>3, <2>4
<1>4. CASE InterruptedFile /\ op # NoOp /\ op.stage = "append" /\ op.peer = p
  <2>1. PICK f \in Interrupted(file[p]) : file' = [file EXCEPT ![p] = f]
    BY <1>4 DEF InterruptedFile
  <2>2. file'[p] = f
    BY <2>1 DEF TypeOK
  <2>3. CASE f = Append(file[p], BadLine("torn"))
    <3>1. BadLine("torn") \in Line /\ BadLine("torn").role = "torn"
      BY BadLineType DEF BadLine
    <3> QED
      BY <1>1, <2>2, <2>3, <3>1, LineAdded
  <2> QED
    BY <1>2, <2>1, <2>2, <2>3 DEF Interrupted
<1>5. \/ file'[p] = file[p]
      \/ op # NoOp /\ op.peer = p /\ op.stage = "append"
  BY FileStep
<1>6. UNCHANGED file \/ AppendLine \/ EnforceCap \/ InterruptedFile
  BY DEF Next, vars, RecordOutbound, ImportMessages, Open, ImportNothing,
         SaveIndex, ReadContext, Fault, Crash
<1> QED
  BY <1>2, <1>3, <1>4, <1>5, <1>6 DEF EnforceCap

-----------------------------------------------------------------------------
(* The invariant *)

\* What the operation in progress becomes at each of its steps.
LEMMA OpMoves ==
    ASSUME TypeOK, [Next]_vars, op # NoOp
    PROVE  \/ op' = NoOp
           \/ UNCHANGED vars
           \/ AppendLine /\ op' = [op EXCEPT !.stage = IF op.kind = "inbound" THEN "save" ELSE "cap"]
           \/ /\ EnforceCap /\ op.stage = "cap"
              /\ \/ /\ op.left > 0
                    /\ op' = [op EXCEPT !.stage = "append", !.round = op.round + 1, !.left = op.left - 1]
                    /\ mem' = [mem EXCEPT ![op.peer] = Bump(Shifted(op.peer))]
                 \/ /\ op' = [op EXCEPT !.stage = "save"]
                    /\ mem' = [mem EXCEPT ![op.peer] = Shifted(op.peer)]
           \/ SaveIndex /\ op' = [op EXCEPT !.stage = "context"]
           \/ /\ ReadContext /\ Readable(file[op.peer])
              /\ op' = [op EXCEPT !.kind = "inbound", !.stage = "append",
                                  !.round = mem[op.peer].last]
<1>1. CASE AppendLine
  BY <1>1 DEF AppendLine
<1>2. CASE EnforceCap
  BY <1>2, OpType DEF EnforceCap, Operation
<1>3. CASE SaveIndex
  BY <1>3 DEF SaveIndex, Acknowledge
<1>4. CASE ReadContext
  BY <1>4 DEF ReadContext
<1>5. CASE Fault \/ Crash \/ UNCHANGED vars
  BY <1>5 DEF Fault, Crash, vars
<1> QED
  BY <1>1, <1>2, <1>3, <1>4, <1>5 DEF Next, RecordOutbound, ImportMessages, ImportNothing

\* An operation begins with a round that is new.
LEMMA OpBegins ==
    ASSUME TypeOK, [Next]_vars, op = NoOp, op' # NoOp
    PROVE  \E p \in Peers :
              /\ op'.peer = p /\ op'.stage = "append" /\ op'.kind \in {"outbound", "import"}
              /\ op'.kind # "import" => op'.left = 0
              /\ op'.first = mem[p].last + 1 /\ op'.round = mem[p].last + 1
              /\ mem' = [mem EXCEPT ![p] = Bump(@)]
              /\ UNCHANGED <<idx, file, acks, faults, crashes>>
<1>1. ASSUME NEW p \in Peers, NEW kind \in {"outbound", "import"}, NEW left, Open(p, kind, left),
             kind # "import" => left = 0
      PROVE  /\ op'.peer = p /\ op'.stage = "append" /\ op'.kind \in {"outbound", "import"}
             /\ op'.kind # "import" => op'.left = 0
             /\ op'.first = mem[p].last + 1 /\ op'.round = mem[p].last + 1
             /\ mem' = [mem EXCEPT ![p] = Bump(@)]
             /\ UNCHANGED <<idx, file, acks, faults, crashes>>
  BY <1>1 DEF Open
<1>2. \E p \in Peers : \E kind \in {"outbound", "import"} : \E left :
        Open(p, kind, left) /\ (kind # "import" => left = 0)
  BY DEF Next, vars, RecordOutbound, ImportMessages, ImportNothing, AppendLine,
         EnforceCap, SaveIndex, ReadContext, Fault, Crash
<1> QED
  BY <1>1, <1>2

\* What a step makes of the entries of a peer.
LEMMA EntryStep ==
    ASSUME TypeOK, [Next]_vars, NEW p \in Peers
    PROVE  /\ mem'[p] \in {mem[p], Bump(mem[p]), Shifted(p), Bump(Shifted(p)), idx[p]}
           /\ idx'[p] \in {idx[p], mem[p]}
<1>1. ASSUME NEW q \in Peers, NEW e, mem' = [mem EXCEPT ![q] = e]
      PROVE  mem'[p] = mem[p] \/ (p = q /\ mem'[p] = e)
  BY <1>1 DEF TypeOK
<1>2. CASE EnforceCap
  <2>1. op.peer \in Peers
    BY <1>2, OpType DEF EnforceCap
  <2>2. \/ mem' = [mem EXCEPT ![op.peer] = Bump(Shifted(op.peer))]
        \/ mem' = [mem EXCEPT ![op.peer] = Shifted(op.peer)]
    BY <1>2 DEF EnforceCap
  <2> QED
    BY <1>1, <1>2, <2>1, <2>2 DEF EnforceCap
<1>3. CASE \E q \in Peers : RecordOutbound(q) \/ \E n \in ImportSizes : ImportMessages(q, n)
  BY <1>1, <1>3 DEF RecordOutbound, ImportMessages, Open
<1>4. CASE ImportNothing \/ AppendLine \/ SaveIndex \/ ReadContext \/ Fault \/ UNCHANGED vars
  BY <1>4 DEF ImportNothing, AppendLine, SaveIndex, ReadContext, Fault, vars, IndexWritten
<1>5. CASE Crash
  BY <1>5 DEF Crash, IndexLoaded
<1> QED
  BY <1>2, <1>3, <1>4, <1>5 DEF Next

\* The operation in progress keeps its shape, and the first round its place.
LEMMA ShapeStep == IInv /\ OpShape /\ FirstZero /\ [Next]_vars => OpShape' /\ FirstZero'
<1> SUFFICES ASSUME IInv, OpShape, FirstZero, [Next]_vars PROVE OpShape' /\ FirstZero'
  OBVIOUS
<1>1. TypeOK /\ TypeOK'
  BY TypeStep DEF IInv
<1>2. \A p \in Peers : mem[p] \in Entry
  BY <1>1 DEF TypeOK
<1>3. OpShape'
  <2> SUFFICES ASSUME op' # NoOp
               PROVE  /\ op'.round = mem'[op'.peer].last
                      /\ op'.kind # "import" => op'.first = op'.round /\ op'.left = 0
                      /\ op'.kind = "inbound" => op'.stage \in {"append", "save"} /\ ContextRounds > 0
                      /\ op'.stage = "context" => op'.kind = "outbound" /\ ContextRounds > 0
    BY DEF OpShape
  <2>1. CASE op = NoOp
    <3>1. PICK p \in Peers :
            /\ op'.peer = p /\ op'.stage = "append" /\ op'.kind \in {"outbound", "import"}
            /\ op'.kind # "import" => op'.left = 0
            /\ op'.first = mem[p].last + 1 /\ op'.round = mem[p].last + 1
            /\ mem' = [mem EXCEPT ![p] = Bump(@)]
      BY <1>1, <2>1, OpBegins
    <3>2. mem'[p].last = mem[p].last + 1
      BY <1>1, <3>1, EntryGrows DEF TypeOK
    <3> QED
      BY <3>1, <3>2
  <2>2. CASE op # NoOp
    <3>1. /\ op \in Operation /\ op.peer \in Peers
          /\ op.round = mem[op.peer].last
          /\ op.kind # "import" => op.first = op.round /\ op.left = 0
          /\ op.kind = "inbound" => op.stage \in {"append", "save"} /\ ContextRounds > 0
          /\ op.stage = "context" => op.kind = "outbound" /\ ContextRounds > 0
      BY <1>1, <2>2, OpType DEF OpShape
    <3>2. CASE UNCHANGED vars
      BY <3>1, <3>2 DEF vars
    <3>3. CASE AppendLine /\ op' = [op EXCEPT !.stage = IF op.kind = "inbound" THEN "save" ELSE "cap"]
      BY <3>1, <3>3 DEF AppendLine, Operation
    <3>4. CASE /\ op.stage = "cap" /\ op.left > 0
               /\ op' = [op EXCEPT !.stage = "append", !.round = op.round + 1, !.left = op.left - 1]
               /\ mem' = [mem EXCEPT ![op.peer] = Bump(Shifted(op.peer))]
      <4>1. mem'[op.peer].last = op.round + 1
        BY <1>1, <3>1, <3>4, EntryGrows DEF TypeOK
      <4> QED
        BY <3>1, <3>4, <4>1 DEF Operation
    <3>5. CASE /\ op.stage = "cap"
               /\ op' = [op EXCEPT !.stage = "save"]
               /\ mem' = [mem EXCEPT ![op.peer] = Shifted(op.peer)]
      <4>1. mem'[op.peer].last = op.round
        BY <1>1, <3>1, <3>5, EntryGrows DEF TypeOK
      <4> QED
        BY <3>1, <3>5, <4>1 DEF Operation
    <3>6. CASE SaveIndex /\ op' = [op EXCEPT !.stage = "context"]
      <4>1. op.kind = "outbound" /\ ContextRounds > 0 /\ UNCHANGED mem
        BY <3>6, <2>2 DEF SaveIndex, Acknowledge
      <4> QED
        BY <3>1, <3>6, <4>1 DEF Operation
    <3>7. CASE ReadContext /\ op' = [op EXCEPT !.kind = "inbound", !.stage = "append",
                                               !.round = mem[op.peer].last]
      <4>1. op.stage = "context" /\ UNCHANGED mem
        BY <3>7 DEF ReadContext
      <4> QED
        BY <3>1, <3>7, <4>1 DEF Operation
    <3> QED
      BY <1>1, <2>2, <3>2, <3>3, <3>4, <3>5, <3>6, <3>7, OpMoves
  <2> QED
    BY <2>1, <2>2
<1>4. FirstZero'
  <2> SUFFICES ASSUME MaxRounds = 0, NEW p \in Peers
               PROVE  mem'[p].first = 0 /\ idx'[p].first = 0
    BY DEF FirstZero
  <2>1. mem[p].first = 0 /\ idx[p].first = 0
    BY DEF FirstZero
  <2>2. Bump(mem[p]).first = 0 /\ Shifted(p) = mem[p]
    BY <1>1, <2>1, Uncapped DEF Bump
  <2> QED
    BY <1>1, <2>1, <2>2, EntryStep
<1> QED
  BY <1>3, <1>4

\* An operation that goes on keeps its peer, and its round or a later one.
LEMMA OpGoesOn ==
    ASSUME IInv, OpShape, [Next]_vars, op # NoOp, op' # NoOp
    PROVE  /\ op'.peer = op.peer /\ op.round \in Nat /\ op'.round \in Nat /\ op.round <= op'.round
           /\ (op.kind = "inbound" /\ op.stage = "save") =>
                  op'.kind = "inbound" /\ op'.stage = "save"
<1>1. TypeOK
  BY DEF IInv
<1>2. /\ op \in Operation /\ op.peer \in Peers /\ op.round \in Nat /\ op.round = mem[op.peer].last
  BY <1>1, OpType DEF OpShape
<1>3. CASE UNCHANGED vars
  BY <1>2, <1>3 DEF vars
<1>4. CASE AppendLine /\ op' = [op EXCEPT !.stage = IF op.kind = "inbound" THEN "save" ELSE "cap"]
  BY <1>2, <1>4 DEF AppendLine, Operation
<1>5. CASE op.stage = "cap" /\ op' = [op EXCEPT !.stage = "append", !.round = op.round + 1, !.left = op.left - 1]
  BY <1>2, <1>5 DEF Operation
<1>6. CASE op.stage = "cap" /\ op' = [op EXCEPT !.stage = "save"]
  BY <1>2, <1>6 DEF Operation
<1>7. CASE SaveIndex /\ op' = [op EXCEPT !.stage = "context"]
  <2>1. op.kind = "outbound"
    BY <1>7 DEF SaveIndex, Acknowledge
  <2> QED
    BY <1>2, <1>7, <2>1 DEF Operation
<1>8. CASE ReadContext /\ op' = [op EXCEPT !.kind = "inbound", !.stage = "append", !.round = mem[op.peer].last]
  <2>1. op.stage = "context"
    BY <1>8 DEF ReadContext
  <2> QED
    BY <1>2, <1>8, <2>1 DEF Operation
<1> QED
  BY <1>1, <1>3, <1>4, <1>5, <1>6, <1>7, <1>8, OpMoves

\* What the operation is about to acknowledge is on file.
LEMMA AcknowledgedKept ==
    ASSUME IInv, OpShape, OpOnFile, MaxRounds = 0, SaveIndex, Acknowledge
    PROVE  LET a == [kind |-> IF op.kind = "import" THEN "import" ELSE "send",
                     first |-> op.first, last |-> op.round]
           IN  Kept(file[op.peer], a)
<1> DEFINE p == op.peer
           f == file[p]
           k == IF op.kind = "import" THEN "import" ELSE "send"
           a == [kind |-> k, first |-> op.first, last |-> op.round]
<1>1. /\ op # NoOp /\ op.stage = "save" /\ p \in Peers
      /\ op.kind \in {"outbound", "inbound", "import"}
      /\ op.first \in Nat /\ op.round \in Nat /\ f \in Seq(Line)
  BY OpType DEF SaveIndex, IInv, TypeOK
<1>2. a.kind = k /\ a.first = op.first /\ a.last = op.round
  OBVIOUS
<1> HIDE DEF a
<1>3. CASE op.kind = "import"
  BY <1>1, <1>2, <1>3 DEF OpOnFile, Kept
<1>4. CASE op.kind = "inbound"
  <2>1. op.first = op.round /\ HasOpening(f, op.round) /\ HasReply(f, op.round)
    BY <1>1, <1>4 DEF OpShape, OpOnFile
  <2>2. \A r \in op.first .. op.round : r = op.round
    BY <1>1, <2>1
  <2> QED
    BY <1>2, <2>1, <2>2 DEF Kept
<1>5. CASE op.kind = "outbound"
  <2>1. ~(ContextRounds > 0)
    <3>1. NoOp # [op EXCEPT !.stage = "context"]
      BY <1>1, OpType DEF NoOp, Operation, IInv
    <3> QED
      BY <1>5, <3>1 DEF SaveIndex, Acknowledge
  <2>2. op.first = op.round /\ (Readable(f) => EndsOpening(f, op.round))
    BY <1>1, <1>5 DEF OpShape, OpOnFile
  <2>3. Readable(f) => HasOpening(f, op.round)
    BY <1>1, <2>2, FileLines DEF EndsOpening, HasOpening
  <2>4. \A r \in op.first .. op.round : r = op.round
    BY <1>1, <2>2
  <2> QED
    BY <2>1, <2>3, <2>4, <1>2 DEF Kept
<1> QED
  BY <1>1, <1>3, <1>4, <1>5 DEF a

\* An answer is given by SaveIndex only, and adds one acknowledgement.
LEMMA AcksStep ==
    ASSUME TypeOK, [Next]_vars
    PROVE  \/ UNCHANGED acks
           \/ /\ SaveIndex /\ Acknowledge /\ op # NoOp /\ op.peer \in Peers /\ UNCHANGED file
              /\ \A p \in Peers : \A i \in DOMAIN acks'[p] :
                    \/ i \in DOMAIN acks[p] /\ acks'[p][i] = acks[p][i]
                    \/ p = op.peer /\ acks'[p][i] =
                         [kind |-> IF op.kind = "import" THEN "import" ELSE "send",
                          first |-> op.first, last |-> op.round]
<1>1. CASE SaveIndex /\ Acknowledge
  <2> DEFINE q == op.peer
             a == [kind |-> IF op.kind = "import" THEN "import" ELSE "send",
                   first |-> op.first, last |-> op.round]
  <2>1. op # NoOp /\ q \in Peers /\ UNCHANGED file
    BY <1>1, OpType DEF SaveIndex
  <2>2. a \in Ack
    BY <2>1, OpType DEF Ack
  <2>3. acks' = [acks EXCEPT ![q] = Append(acks[q], a)]
    BY <1>1 DEF Acknowledge
  <2> HIDE DEF a, q
  <2>4. /\ acks[q] \in Seq(Ack) /\ acks'[q] = Append(acks[q], a)
        /\ \A p \in Peers : p # q => acks'[p] = acks[p]
    BY <2>1, <2>3 DEF TypeOK
  <2>5. \A i \in DOMAIN acks'[q] :
          \/ i \in DOMAIN acks[q] /\ acks'[q][i] = acks[q][i]
          \/ acks'[q][i] = a
    BY <2>2, <2>4
  <2> QED
    BY <1>1, <2>1, <2>4, <2>5 DEF a, q
<1>2. UNCHANGED acks \/ (SaveIndex /\ Acknowledge)
  BY DEF Next, vars, RecordOutbound, ImportMessages, Open, ImportNothing,
         AppendLine, EnforceCap, SaveIndex, ReadContext, Fault, Crash
<1> QED
  BY <1>1, <1>2

\* No step loses what was acknowledged.
LEMMA NoLossStep ==
    IInv /\ OpShape /\ OpOnFile /\ AcksKept /\ [Next]_vars => AcksKept'
<1> SUFFICES ASSUME IInv, OpShape, OpOnFile, AcksKept, [Next]_vars, MaxRounds = 0,
                    NEW p \in Peers, NEW i \in DOMAIN acks'[p]
             PROVE  Kept(file'[p], acks'[p][i])
  BY DEF AcksKept
<1>1. TypeOK
  BY DEF IInv
<1>2. CASE i \in DOMAIN acks[p] /\ acks'[p][i] = acks[p][i]
  <2>1. Kept(file[p], acks[p][i])
    BY <1>2 DEF AcksKept
  <2> QED
    BY <1>1, <1>2, <2>1, FileStep, GrowthKeeps
<1>3. CASE UNCHANGED acks
  BY <1>2, <1>3
<1>4. CASE ~UNCHANGED acks /\ ~(i \in DOMAIN acks[p] /\ acks'[p][i] = acks[p][i])
  <2>1. /\ SaveIndex /\ Acknowledge /\ UNCHANGED file /\ p = op.peer
        /\ acks'[p][i] = [kind |-> IF op.kind = "import" THEN "import" ELSE "send",
                          first |-> op.first, last |-> op.round]
    BY <1>1, <1>4, AcksStep
  <2> QED
    BY <2>1, AcknowledgedKept
<1> QED
  BY <1>2, <1>3, <1>4

\* Each stage leaves on file what the next one starts from.
LEMMA OnFileStep == IInv /\ OpShape /\ OpOnFile /\ [Next]_vars => OpOnFile'
<1> SUFFICES ASSUME IInv, OpShape, OpOnFile, [Next]_vars, MaxRounds = 0, op' # NoOp
             PROVE
        /\ (op'.kind = "outbound" /\ op'.stage # "append" /\ Readable(file'[op'.peer])) =>
              EndsOpening(file'[op'.peer], op'.round)
        /\ (op'.kind = "inbound" /\ op'.stage = "append") =>
              Readable(file'[op'.peer]) /\ EndsOpening(file'[op'.peer], op'.round)
        /\ (op'.kind = "inbound" /\ op'.stage = "save") =>
              HasOpening(file'[op'.peer], op'.round) /\ HasReply(file'[op'.peer], op'.round)
        /\ (op'.kind = "import" /\ Readable(file'[op'.peer])) =>
              \A r \in op'.first .. op'.round :
                  HasOpening(file'[op'.peer], r) \/ (r = op'.round /\ op'.stage = "append")
  BY DEF OpOnFile
<1>1. TypeOK
  BY DEF IInv
<1>2. CASE op = NoOp
  <2>1. PICK p \in Peers :
          /\ op'.stage = "append" /\ op'.kind \in {"outbound", "import"}
          /\ op'.first = mem[p].last + 1 /\ op'.round = mem[p].last + 1
    BY <1>1, <1>2, OpBegins
  <2>2. mem[p].last \in Nat
    BY <1>1 DEF TypeOK, Entry
  <2>3. \A r \in op'.first .. op'.round : r = op'.round
    BY <2>1, <2>2
  <2> QED
    BY <2>1, <2>3
<1>3. CASE op # NoOp
  <2> DEFINE p == op.peer
             f == file[p]
  <2>1. /\ op \in Operation /\ p \in Peers /\ f \in Seq(Line)
        /\ op.first \in Nat /\ op.round \in Nat
        /\ op.kind \in {"outbound", "inbound", "import"}
    BY <1>1, <1>3, OpType DEF TypeOK
  <2>2. /\ (op.kind = "outbound" /\ op.stage # "append" /\ Readable(f)) => EndsOpening(f, op.round)
        /\ (op.kind = "inbound" /\ op.stage = "append") => Readable(f) /\ EndsOpening(f, op.round)
        /\ (op.kind = "inbound" /\ op.stage = "save") =>
              HasOpening(f, op.round) /\ HasReply(f, op.round)
        /\ (op.kind = "import" /\ Readable(f)) =>
              \A r \in op.first .. op.round :
                  HasOpening(f, r) \/ (r = op.round /\ op.stage = "append")
    BY <1>3 DEF OpOnFile
  <2>3. CASE UNCHANGED vars
    BY <2>2, <2>3 DEF vars
  <2>4. CASE AppendLine /\ op' = [op EXCEPT !.stage = IF op.kind = "inbound" THEN "save" ELSE "cap"]
    <3> DEFINE g == file'[p]
    <3>1. /\ op.stage = "append" /\ op'.peer = p /\ op'.round = op.round
          /\ op'.first = op.first /\ op'.kind = op.kind
          /\ op'.stage = IF op.kind = "inbound" THEN "save" ELSE "cap"
      BY <2>1, <2>4 DEF AppendLine, Operation
    <3>2. /\ Readable(g) => Readable(f)
          /\ Readable(f) \/ Readable(g) =>
                /\ g # <<>> /\ Len(g) \in DOMAIN g
                /\ g[Len(g)].round = op.round /\ g[Len(g)].role = op.kind
      BY <1>1, <2>4, LineWritten
    <3>3. \A r : HasOpening(f, r) => HasOpening(g, r)
      BY <1>1, <2>1, FileStep, GrowthKeeps
    <3> HIDE DEF f, g, p
    <3>4. op.kind \in {"outbound", "import"} /\ Readable(g) =>
              EndsOpening(g, op.round) /\ HasOpening(g, op.round)
      BY <3>2 DEF EndsOpening, HasOpening, Opens
    <3>5. CASE op.kind = "outbound"
      BY <3>1, <3>4, <3>5 DEF g
    <3>6. CASE op.kind = "inbound"
      <4>1. Readable(f) /\ EndsOpening(f, op.round)
        BY <2>2, <3>1, <3>6 DEF f, p
      <4>2. HasOpening(f, op.round)
        BY <2>1, <4>1, FileLines DEF EndsOpening, HasOpening, f, p
      <4>3. HasReply(g, op.round)
        BY <3>2, <3>6, <4>1 DEF HasReply
      <4> QED
        BY <3>1, <3>3, <3>6, <4>2, <4>3 DEF g
    <3>7. CASE op.kind = "import"
      <4>1. ASSUME Readable(g), NEW r \in op.first .. op.round PROVE HasOpening(g, r)
        BY <2>2, <3>2, <3>3, <3>4, <3>7, <4>1 DEF f, p
      <4> QED
        BY <3>1, <3>7, <4>1 DEF g
    <3> QED
      BY <2>1, <3>5, <3>6, <3>7
  <2>5. ASSUME EnforceCap PROVE file'[p] = f
    <3>1. file' = [file EXCEPT ![p] = f]
      BY <1>1, <2>1, <2>5, Uncapped DEF EnforceCap
    <3> QED
      BY <1>1, <2>1, <3>1 DEF TypeOK
  <2>6. CASE /\ EnforceCap /\ op.stage = "cap" /\ op.left > 0
             /\ op' = [op EXCEPT !.stage = "append", !.round = op.round + 1, !.left = op.left - 1]
    <3>1. /\ op'.peer = p /\ op'.round = op.round + 1
          /\ op'.first = op.first /\ op'.kind = op.kind /\ op'.stage = "append"
      BY <2>1, <2>6 DEF Operation
    <3>2. op.kind = "import"
      BY <1>3, <2>1, <2>6 DEF OpShape
    <3>3. \A r \in op.first .. op.round + 1 : r \in op.first .. op.round \/ r = op.round + 1
      BY <2>1
    <3> QED
      BY <2>2, <2>5, <2>6, <3>1, <3>2, <3>3
  <2>7. CASE EnforceCap /\ op.stage = "cap" /\ op' = [op EXCEPT !.stage = "save"]
    <3>1. /\ op'.peer = p /\ op'.round = op.round
          /\ op'.first = op.first /\ op'.kind = op.kind /\ op'.stage = "save"
      BY <2>1, <2>7 DEF Operation
    <3>2. op.kind # "inbound"
      BY <1>3, <2>7 DEF OpShape
    <3> QED
      BY <2>2, <2>5, <2>7, <3>1, <3>2
  <2>8. CASE SaveIndex /\ op' = [op EXCEPT !.stage = "context"]
    <3>1. op.kind = "outbound" /\ op.stage = "save" /\ UNCHANGED file
      BY <1>3, <2>8, op' # NoOp DEF SaveIndex, Acknowledge
    <3>2. op'.peer = p /\ op'.round = op.round /\ op'.kind = op.kind /\ op'.stage = "context"
      BY <2>1, <2>8 DEF Operation
    <3> QED
      BY <2>2, <3>1, <3>2
  <2>9. CASE /\ ReadContext /\ Readable(f)
             /\ op' = [op EXCEPT !.kind = "inbound", !.stage = "append", !.round = mem[p].last]
    <3>1. op.stage = "context" /\ UNCHANGED file
      BY <2>9 DEF ReadContext
    <3>2. op.kind = "outbound" /\ op.round = mem[p].last
      BY <1>3, <3>1 DEF OpShape
    <3>3. op'.peer = p /\ op'.round = op.round /\ op'.kind = "inbound" /\ op'.stage = "append"
      BY <2>1, <2>9, <3>2 DEF Operation
    <3> QED
      BY <2>2, <2>9, <3>1, <3>2, <3>3
  <2> QED
    BY <1>1, <1>3, <2>3, <2>4, <2>6, <2>7, <2>8, <2>9, OpMoves
<1> QED
  BY <1>2, <1>3

\* The index is saved before an operation is over, and before its reply.
LEMMA SavedStep == IInv /\ OpShape /\ SavedInv /\ [Next]_vars => SavedInv'
<1> SUFFICES ASSUME IInv, OpShape, SavedInv, [Next]_vars,
                    \/ op' = NoOp /\ faults' = 0
                    \/ op' # NoOp /\ (op'.stage = "context" \/ op'.kind = "inbound")
             PROVE  idx' = mem'
  BY DEF SavedInv
<1>1. TypeOK
  BY DEF IInv
<1>2. CASE Crash
  BY <1>2 DEF Crash, IndexLoaded
<1>3. CASE op = NoOp /\ ~Crash
  <2>1. op' = NoOp /\ faults' = 0
    BY <1>1, <1>3, OpBegins
  <2> QED
    BY <1>1, <1>3, <2>1
      DEF Next, vars, RecordOutbound, ImportMessages, Open, ImportNothing, IndexWritten,
          AppendLine, EnforceCap, SaveIndex, ReadContext, Fault, NoOp, SavedInv
<1>4. CASE op # NoOp /\ ~Crash
  <2>1. op \in Operation /\ (op.kind = "inbound" => op.stage \in {"append", "save"})
    BY <1>1, <1>4, OpType DEF OpShape
  <2>2. CASE AppendLine
    <3>1. /\ op'.kind = op.kind /\ op' # NoOp /\ UNCHANGED <<mem, idx>>
          /\ op'.stage # "context"
      BY <1>4, <2>1, <2>2 DEF AppendLine, Operation, NoOp
    <3> QED
      BY <1>4, <3>1 DEF SavedInv
  <2>3. CASE EnforceCap
    <3>1. op'.kind = op.kind /\ op' # NoOp /\ op'.stage # "context" /\ op.kind # "inbound"
      BY <1>4, <2>1, <2>3 DEF EnforceCap, Operation, NoOp
    <3> QED
      BY <3>1
  <2>4. CASE SaveIndex
    BY <2>4 DEF SaveIndex, IndexWritten
  <2>5. CASE ReadContext
    BY <1>4, <2>5 DEF ReadContext, SavedInv
  <2>6. CASE Fault
    BY <1>1, <2>6 DEF Fault, TypeOK
  <2>7. CASE UNCHANGED vars
    BY <2>7 DEF vars, SavedInv
  <2> QED
    BY <1>1, <1>4, <2>2, <2>3, <2>4, <2>5, <2>6, <2>7
      DEF Next, RecordOutbound, ImportMessages, ImportNothing
<1> QED
  BY <1>2, <1>3, <1>4

\* Index and file agree until something fails.
LEMMA AgreeStep == IInv /\ OpShape /\ AgreeInv /\ [Next]_vars => AgreeInv'
<1> SUFFICES ASSUME IInv, OpShape, AgreeInv, [Next]_vars,
                    MaxRounds = 0, faults' = 0, crashes' = 0, NEW p \in Peers
             PROVE  /\ mem'[p].last = mem'[p].total
                    /\ Readable(file'[p])
                    /\ \A r \in 1 .. mem'[p].last :
                          \/ HasOpening(file'[p], r)
                          \/ /\ op' # NoOp /\ op'.peer = p /\ op'.round = r
                             /\ op'.stage = "append" /\ op'.kind # "inbound"
  BY DEF AgreeInv
<1>1. TypeOK /\ ~Fault /\ ~Crash /\ faults = 0 /\ crashes = 0
  <2>1. TypeOK /\ ~Fault /\ ~Crash
    BY DEF IInv, TypeOK, Fault, Crash
  <2> QED
    BY <2>1 DEF Next, vars, RecordOutbound, ImportMessages, Open, ImportNothing,
                AppendLine, EnforceCap, SaveIndex, ReadContext
<1>2. /\ mem[p].last = mem[p].total /\ mem[p].last \in Nat
      /\ Readable(file[p]) /\ file[p] \in Seq(Line) /\ file'[p] \in Seq(Line)
      /\ \A r \in 1 .. mem[p].last :
            \/ HasOpening(file[p], r)
            \/ /\ op # NoOp /\ op.peer = p /\ op.round = r
               /\ op.stage = "append" /\ op.kind # "inbound"
  <2>1. TypeOK'
    BY TypeStep DEF IInv
  <2> QED
    BY <1>1, <2>1 DEF AgreeInv, TypeOK, Entry
<1>3. \A r : HasOpening(file[p], r) => HasOpening(file'[p], r)
  BY <1>1, FileStep, GrowthKeeps
<1>4. CASE UNCHANGED <<mem, file>> /\ (op.stage = "append" /\ op # NoOp => op' = op)
  BY <1>2, <1>4
<1>5. CASE op = NoOp /\ op' # NoOp
  <2>1. PICK q \in Peers :
          /\ op'.peer = q /\ op'.stage = "append" /\ op'.kind \in {"outbound", "import"}
          /\ op'.round = mem[q].last + 1
          /\ mem' = [mem EXCEPT ![q] = Bump(@)]
          /\ UNCHANGED file
    BY <1>1, <1>5, OpBegins
  <2>2. CASE p = q
    <3>1. mem'[p].last = mem[p].last + 1 /\ mem'[p].total = mem[p].total + 1
      BY <1>1, <2>1, <2>2, EntryGrows DEF TypeOK
    <3>2. \A r \in 1 .. mem[p].last + 1 : r \in 1 .. mem[p].last \/ r = mem[p].last + 1
      BY <1>2
    <3> QED
      BY <1>2, <1>5, <2>1, <2>2, <3>1, <3>2
  <2>3. CASE p # q
    <3>1. mem'[p] = mem[p]
      BY <1>1, <2>1, <2>3 DEF TypeOK
    <3> QED
      BY <1>2, <1>5, <2>1, <2>3, <3>1
  <2> QED
    BY <2>2, <2>3
<1>6. CASE AppendLine
  <2>1. /\ op # NoOp /\ op.peer \in Peers /\ op.stage = "append" /\ UNCHANGED mem
        /\ op.kind \in {"outbound", "inbound", "import"}
    BY <1>1, <1>6, OpType DEF AppendLine
  <2>2. CASE p = op.peer
    <3>1. /\ Readable(file'[p]) /\ Len(file'[p]) \in DOMAIN file'[p]
          /\ file'[p][Len(file'[p])].round = op.round
          /\ file'[p][Len(file'[p])].role = op.kind
      BY <1>1, <1>2, <1>6, <2>2, LineWritten
    <3>2. op.kind # "inbound" => HasOpening(file'[p], op.round)
      BY <2>1, <3>1 DEF HasOpening, Opens
    <3> QED
      BY <1>2, <1>3, <2>1, <3>1, <3>2
  <2>3. CASE p # op.peer
    <3>1. file'[p] = file[p]
      BY <1>1, <2>3, FileStep
    <3> QED
      BY <1>2, <2>1, <2>3, <3>1
  <2> QED
    BY <2>2, <2>3
<1>7. CASE EnforceCap
  <2>1. /\ op # NoOp /\ op \in Operation /\ op.peer \in Peers /\ op.stage = "cap"
        /\ op.round = mem[op.peer].last /\ op.round \in Nat
        /\ op.kind # "inbound"
    BY <1>1, <1>7, OpType DEF EnforceCap, OpShape
  <2>2. file'[p] = file[p]
    BY <1>1, <2>1, FileStep
  <2>3. CASE /\ op' = [op EXCEPT !.stage = "append", !.round = op.round + 1, !.left = op.left - 1]
             /\ mem' = [mem EXCEPT ![op.peer] = Bump(Shifted(op.peer))]
    <3>1. /\ op' # NoOp /\ op'.peer = op.peer /\ op'.round = op.round + 1
          /\ op'.stage = "append" /\ op'.kind # "inbound"
      BY <2>1, <2>3 DEF Operation, NoOp
    <3>2. CASE p = op.peer
      <4>1. mem'[p].last = mem[p].last + 1 /\ mem'[p].total = mem[p].total + 1
        BY <1>1, <2>3, <3>2, EntryGrows DEF TypeOK
      <4>2. \A r \in 1 .. mem[p].last + 1 : r \in 1 .. mem[p].last \/ r = mem[p].last + 1
        BY <1>2
      <4> QED
        BY <1>2, <2>1, <2>2, <3>1, <3>2, <4>1, <4>2
    <3>3. CASE p # op.peer
      <4>1. mem'[p] = mem[p]
        BY <1>1, <2>3, <3>3 DEF TypeOK
      <4> QED
        BY <1>2, <2>1, <2>2, <3>1, <3>3, <4>1
    <3> QED
      BY <3>2, <3>3
  <2>4. CASE mem' = [mem EXCEPT ![op.peer] = Shifted(op.peer)]
    <3>1. mem'[p] = mem[p]
      BY <1>1, <2>1, <2>4, Uncapped DEF TypeOK
    <3> QED
      BY <1>2, <2>1, <2>2, <3>1
  <2> QED
    BY <1>1, <1>7, <2>1, <2>3, <2>4 DEF EnforceCap, Operation
<1>8. CASE ImportNothing \/ SaveIndex \/ ReadContext \/ UNCHANGED vars
  BY <1>4, <1>8 DEF ImportNothing, SaveIndex, ReadContext, vars
<1>9. CASE \E q \in Peers : RecordOutbound(q) \/ \E n \in ImportSizes : ImportMessages(q, n)
  BY <1>5, <1>9 DEF RecordOutbound, ImportMessages, Open, NoOp
<1> QED
  BY <1>1, <1>6, <1>7, <1>8, <1>9 DEF Next

\* The invariant holds at the start.
LEMMA FInvInit == Init => FInv
<1> SUFFICES ASSUME Init PROVE FInv
  OBVIOUS
<1>1. IInv
  BY BookkeepingInit
<1>2. /\ \A p \in Peers : file[p] = <<>> /\ acks[p] = <<>>
      /\ \A p \in Peers : mem[p].last = 0 /\ mem[p].total = 0 /\ mem[p].first = 0 /\ idx[p].first = 0
      /\ idx = mem /\ op = NoOp
  BY DEF Init, NewEntry
<1>3. OpShape /\ FirstZero /\ OpOnFile /\ AcksKept
  BY <1>2 DEF OpShape, FirstZero, OpOnFile, AcksKept
<1>4. SavedInv /\ AgreeInv
  BY <1>2 DEF SavedInv, AgreeInv, Readable
<1> QED
  BY <1>1, <1>3, <1>4 DEF FInv

\* Every step keeps the invariant.
LEMMA FInvNext == FInv /\ [Next]_vars => FInv'
BY BookkeepingStep, ShapeStep, OnFileStep, NoLossStep, SavedStep, AgreeStep DEF FInv

\* Every reachable state satisfies the invariant.
LEMMA FInvAlways == Spec => []FInv
<1> QED
  BY FInvInit, FInvNext, PTL DEF Spec

-----------------------------------------------------------------------------
(* The theorems *)

\* With no cap, a message that was answered is on file for good, with its reply
\* if replies are recorded, for any number of peers, failures and restarts
\* (NoSilentLoss).
THEOREM AnsweredIsOnFile == Spec => []NoSilentLoss
<1>1. FInv => NoSilentLoss
  BY DEF FInv, AcksKept, Kept, HasOpening, HasReply, NoSilentLoss, Stored, Replied
<1> QED
  BY <1>1, FInvAlways, PTL

\* The context that a reply is made from ends with the message it answers
\* (ContextHasCurrent).
THEOREM ReplySeesItsMessage == Spec => []ContextHasCurrent
<1>1. FInv => ContextHasCurrent
  <2> SUFFICES ASSUME FInv, MaxRounds = 0, op # NoOp, op.kind = "inbound", op.stage = "append"
               PROVE  /\ Len(file[op.peer]) \in Context(op.peer)
                      /\ Opens(file[op.peer][Len(file[op.peer])], op.round)
    BY DEF ContextHasCurrent
  <2>1. op.peer \in Peers /\ file[op.peer] \in Seq(Line) /\ mem[op.peer] \in Entry
    BY OpType DEF FInv, IInv, TypeOK
  <2>2. EndsOpening(file[op.peer], op.round)
    BY DEF FInv, OpOnFile
  <2>3. /\ op.round = mem[op.peer].last /\ ContextRounds > 0 /\ ContextRounds \in Nat
        /\ mem[op.peer].first = 0
    BY <2>1, HistoryAssumption DEF FInv, OpShape, FirstZero
  <2>4. /\ Len(file[op.peer]) \in DOMAIN file[op.peer]
        /\ file[op.peer][Len(file[op.peer])].round = mem[op.peer].last
    BY <2>1, <2>2, <2>3, FileLines DEF EndsOpening, Opens
  <2> QED
    BY <2>1, <2>2, <2>3, <2>4 DEF EndsOpening, Context, Entry
<1> QED
  BY <1>1, FInvAlways, PTL

\* Until something fails, the saved index is the one in memory whenever no
\* operation is in progress, and counts the rounds on file (IndexAgrees).
THEOREM IndexMatchesFile == Spec => []IndexAgrees
<1>1. FInv => IndexAgrees
  BY DEF FInv, SavedInv, AgreeInv, IndexAgrees, HasOpening, Stored
<1> QED
  BY <1>1, FInvAlways, PTL
=============================================================================
