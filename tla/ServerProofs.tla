---------------------------- MODULE ServerProofs ----------------------------
(***************************************************************************)
(* Proofs about MessageServer, for any number of peers, rounds, failures   *)
(* and restarts, page and poll sizes: what CUE is sent, the tasks that can *)
(* be asked for, and what the exporting and the polling client see.        *)
(*                                                                         *)
(* The server does to the history only what History lets it do, so that    *)
(* the invariant of HistoryFileProofs holds of it; and between the steps   *)
(* of a client files only grow, while new lines bear new rounds.           *)
(***************************************************************************)
EXTENDS MessageServer, HistoryFileProofs, WellFoundedInduction

Forward == [peer : Peers, round : Nat, stage : {"posting", "received", "lost"}]

Task == [peer : Peers, round : Nat, state : {"completed", "canceled"}]

ExportState == [stage : {"reading", "done"}, peer : Peers, offset : Nat,
                got : Seq(Line), begun : Nat]

PollState == [last : Nat, seen : SUBSET Nat, late : BOOLEAN]

\* The variables of the server, but for those of the exporting client.
ServerTypes ==
    /\ forwards \in Seq(Forward)
    /\ tasks \subseteq Task
    /\ poll \in [Peers -> PollState]

\* The operation in progress may yet write the line that opens its round.
Opening == op # NoOp /\ op.stage # "context" /\ op.kind # "inbound"

\* What is forwarded is saved and on file, and older than what is being
\* recorded.
ForwardsInv ==
    \A i \in DOMAIN forwards :
        LET p == forwards[i].peer
            r == forwards[i].round
        IN  /\ r <= idx[p].last
            /\ (MaxRounds = 0 /\ Readable(file[p])) => HasOpening(file[p], r)
            /\ (Opening /\ op.peer = p) => r < op.round

\* A reply is recorded once its round is saved, behind its message, and once.
RepliesInv ==
    MaxRounds = 0 =>
        \A p \in Peers : \A i \in DOMAIN file[p] : file[p][i].role = "inbound" =>
            /\ file[p][i].round <= idx[p].last
            /\ i > 1 /\ Opens(file[p][i - 1], file[p][i].round)
            /\ (op # NoOp /\ op.peer = p /\ ~(op.kind = "inbound" /\ op.stage = "save")) =>
                  file[p][i].round < op.round
            /\ \A j \in DOMAIN file[p] :
                  (file[p][j].role = "inbound" /\ file[p][j].round = file[p][i].round) => j = i

\* A task has its reply on file.
TasksInv ==
    (MaxRounds = 0 /\ ContextRounds > 0) =>
        \A t \in tasks : HasReply(file[t.peer], t.round)

\* The first lines of a file, all complete.
Begins(got, f) ==
    /\ got \in Seq(Line) /\ Len(got) <= Len(f)
    /\ \A i \in DOMAIN got : got[i] = f[i] /\ got[i].role # "torn"

\* What the exporting client has is the first lines on file.
ExportInv ==
    (MaxRounds = 0 /\ export # NoExport) =>
        /\ export \in ExportState
        /\ export.begun <= Len(file[export.peer])
        /\ Begins(export.got, file[export.peer])
        /\ export.stage = "reading" => Len(export.got) = export.offset
        /\ export.stage = "done" => export.begun <= Len(export.got)

\* What the polling client of a peer has seen.
PollInv ==
    (MaxRounds = 0 /\ (faults = 0 \/ crashes = 0)) =>
        \A p \in Peers : ~poll[p].late =>
            /\ poll[p].last <= mem[p].last
            /\ faults = 0 => poll[p].last <= idx[p].last
            /\ (Opening /\ op.peer = p) => poll[p].last < op.first
            /\ \A i \in DOMAIN file[p] : \A r \in Nat :
                  (r <= poll[p].last /\ Opens(file[p][i], r)) => i \in poll[p].seen
            /\ \A a \in DOMAIN acks[p] : \A r \in acks[p][a].first .. acks[p][a].last :
                  r <= poll[p].last => HasOpening(file[p], r)

-----------------------------------------------------------------------------
(* The server does what History lets it do *)

\* Every step of the server is a step of its history, or leaves it alone.
LEMMA HistoryStep == [ServerNext]_allVars => [Next]_vars
<1> SUFFICES ASSUME [ServerNext]_allVars PROVE [Next]_vars
  OBVIOUS
<1>1. ASSUME NEW p \in Peers, SendRpc(p) \/ SendRest(p) PROVE Next
  BY <1>1 DEF SendRpc, SendRest, Next
<1>2. ASSUME NEW p \in Peers, StartExport(p) \/ Poll(p) PROVE UNCHANGED vars
  BY <1>2 DEF StartExport, Poll
<1>3. ASSUME NEW p \in Peers, NEW n \in ImportSizes, Import(p, n) PROVE Next
  BY <1>3 DEF Import, Next
<1>4. CASE Record \/ Save \/ Fail \/ Restart
  BY <1>4 DEF Record, Save, Fail, Restart, Next
<1>5. CASE (\E t \in tasks : CancelTask(t)) \/ ExportPage \/ (\E i \in DOMAIN forwards : EndForward(i))
  BY <1>5 DEF CancelTask, ExportPage, EndForward
<1>6. CASE UNCHANGED allVars
  BY <1>6 DEF allVars
<1> QED
  BY <1>1, <1>2, <1>3, <1>4, <1>5, <1>6 DEF ServerNext

\* So the history of the server keeps the invariant of the history.
LEMMA HistoryKept ==
    ASSUME FInv, [ServerNext]_allVars
    PROVE  FInv' /\ TypeOK /\ TypeOK' /\ [Next]_vars
BY HistoryStep, FInvNext DEF FInv, IInv

\* What a step does to the forwards.
LEMMA ForwardsStep ==
    ASSUME TypeOK, ServerTypes, [ServerNext]_allVars
    PROVE  /\ forwards' \in Seq(Forward)
           /\ \A i \in DOMAIN forwards' :
                \/ /\ i \in DOMAIN forwards
                   /\ forwards'[i].peer = forwards[i].peer /\ forwards'[i].round = forwards[i].round
                \/ /\ SaveIndex /\ op # NoOp /\ op.kind = "outbound"
                   /\ i \notin DOMAIN forwards /\ i = Len(forwards) + 1
                   /\ forwards'[i].peer = op.peer /\ forwards'[i].round = op.round
<1> USE DEF ServerTypes
<1>1. CASE UNCHANGED forwards
  BY <1>1
<1>2. CASE Save /\ op.kind = "outbound" /\ via = "rpc"
  <2> DEFINE new == [peer |-> op.peer, round |-> op.round, stage |-> "posting"]
  <2>1. op # NoOp /\ new \in Forward /\ new.peer = op.peer /\ new.round = op.round
    BY <1>2, OpType DEF Save, SaveIndex, Forward
  <2>2. forwards' = Append(forwards, new)
    BY <1>2 DEF Save, Forwarded
  <2> HIDE DEF new
  <2>3. /\ forwards' \in Seq(Forward)
        /\ DOMAIN forwards = 1 .. Len(forwards) /\ Len(forwards) \in Nat
        /\ DOMAIN forwards' = 1 .. Len(forwards) + 1
        /\ \A i \in 1 .. Len(forwards) : forwards'[i] = forwards[i]
        /\ forwards'[Len(forwards) + 1] = new
    BY <2>1, <2>2
  <2>4. \A n \in Nat : /\ n + 1 \notin 1 .. n
                       /\ \A i \in 1 .. n + 1 : i \in 1 .. n \/ i = n + 1
    OBVIOUS
  <2> QED
    BY <1>2, <2>1, <2>3, <2>4 DEF Save
<1>3. CASE Save /\ ~(op.kind = "outbound" /\ via = "rpc")
  BY <1>1, <1>3 DEF Save, Forwarded
<1>4. ASSUME NEW i \in DOMAIN forwards, EndForward(i)
      PROVE  /\ forwards' \in Seq(Forward) /\ DOMAIN forwards' = DOMAIN forwards
             /\ \A j \in DOMAIN forwards : /\ forwards'[j].peer = forwards[j].peer
                                           /\ forwards'[j].round = forwards[j].round
  <2>1. PICK end \in {"received", "lost"} : forwards' = [forwards EXCEPT ![i] = [forwards[i] EXCEPT !.stage = end]]
    BY <1>4 DEF EndForward
  <2> DEFINE e == [forwards[i] EXCEPT !.stage = end]
  <2>2. forwards[i] \in Forward
    OBVIOUS
  <2>3. e \in Forward /\ e.peer = forwards[i].peer /\ e.round = forwards[i].round
    BY <2>2 DEF Forward
  <2>4. forwards' = [forwards EXCEPT ![i] = e]
    BY <2>1
  <2> HIDE DEF e
  <2>5. /\ forwards' \in Seq(Forward) /\ Len(forwards') = Len(forwards)
        /\ \A j \in 1 .. Len(forwards) : forwards'[j] = IF j = i THEN e ELSE forwards[j]
    BY <2>3, <2>4, ExceptSeq
  <2> QED
    BY <2>3, <2>5
<1>5. CASE Restart
  <2> DEFINE end(i) == IF forwards[i].stage = "posting"
                       THEN [forwards[i] EXCEPT !.stage = "lost"] ELSE forwards[i]
  <2>1. forwards' = [i \in DOMAIN forwards |-> end(i)]
    BY <1>5 DEF Restart
  <2>2. \A i \in DOMAIN forwards : /\ end(i) \in Forward
                                   /\ end(i).peer = forwards[i].peer /\ end(i).round = forwards[i].round
    <3> SUFFICES ASSUME NEW i \in DOMAIN forwards
                 PROVE  /\ end(i) \in Forward
                        /\ end(i).peer = forwards[i].peer /\ end(i).round = forwards[i].round
      OBVIOUS
    <3>1. forwards[i] \in Forward
      OBVIOUS
    <3> QED
      BY <3>1 DEF Forward
  <2> HIDE DEF end
  <2>3. forwards' \in Seq(Forward) /\ DOMAIN forwards' = DOMAIN forwards
    BY <2>1, <2>2
  <2> QED
    BY <2>1, <2>2, <2>3
<1> QED
  BY <1>1, <1>2, <1>3, <1>4, <1>5
    DEF ServerNext, allVars, serverVars, SendRpc, SendRest, StartExport, Poll, Import, Record,
        CancelTask, ExportPage, Fail

\* The saved counts are numbers that only grow.
LEMMA IdxGrows ==
    ASSUME IInv, [Next]_vars, NEW p \in Peers
    PROVE  /\ mem[p].last \in Nat /\ idx[p].last \in Nat /\ idx'[p].last \in Nat
           /\ mem'[p].last \in Nat
           /\ idx[p].last <= idx'[p].last /\ idx[p].last <= mem[p].last
           /\ idx'[p].last <= mem'[p].last
<1>1. TypeOK /\ TypeOK' /\ IInv'
  BY TypeStep, BookkeepingStep DEF IInv
<1>2. /\ mem[p].last \in Nat /\ idx[p].last \in Nat /\ idx'[p].last \in Nat
      /\ mem'[p].last \in Nat
  BY <1>1 DEF TypeOK, Entry
<1>3. idx[p].last <= mem[p].last /\ idx'[p].last <= mem'[p].last
  BY <1>1 DEF IInv, IndexBehind
<1>4. idx'[p] = idx[p] \/ idx'[p] = mem[p]
  BY <1>1, EntryStep
<1> QED
  BY <1>2, <1>3, <1>4

\* An operation that may yet open its round goes on with the same round or a
\* later one, or has just begun.
LEMMA OpeningMoves ==
    ASSUME IInv, OpShape, [Next]_vars, Opening'
    PROVE  /\ op'.peer \in Peers /\ op'.round \in Nat /\ op'.first \in Nat
           /\ \/ /\ Opening /\ op'.peer = op.peer /\ op'.first = op.first
                 /\ op.round \in Nat /\ op.round <= op'.round
              \/ /\ op = NoOp
                 /\ op'.first = mem[op'.peer].last + 1 /\ op'.round = mem[op'.peer].last + 1
                 /\ UNCHANGED <<idx, file, acks, faults, crashes>>
<1>1. TypeOK /\ op'.peer \in Peers /\ op'.round \in Nat /\ op'.first \in Nat
  <2>1. TypeOK /\ TypeOK'
    BY TypeStep DEF IInv
  <2> QED
    BY <2>1 DEF TypeOK, Operation, Opening
<1>2. CASE op = NoOp
  BY <1>1, <1>2, OpBegins DEF Opening
<1>3. CASE op # NoOp
  <2>1. /\ op \in Operation /\ op.peer \in Peers /\ op.round \in Nat
        /\ op.kind = "inbound" => op.stage \in {"append", "save"}
    BY <1>1, <1>3, OpType DEF OpShape
  <2>2. CASE UNCHANGED vars
    <3>1. op' = op
      BY <2>2 DEF vars
    <3> QED
      BY <1>1, <2>1, <3>1 DEF Opening
  <2>3. CASE AppendLine /\ op' = [op EXCEPT !.stage = IF op.kind = "inbound" THEN "save" ELSE "cap"]
    BY <1>3, <2>1, <2>3 DEF AppendLine, Operation, Opening
  <2>4. CASE op.stage = "cap" /\ op' = [op EXCEPT !.stage = "append", !.round = op.round + 1, !.left = op.left - 1]
    BY <1>3, <2>1, <2>4 DEF Operation, Opening
  <2>5. CASE op.stage = "cap" /\ op' = [op EXCEPT !.stage = "save"]
    BY <1>3, <2>1, <2>5 DEF Operation, Opening
  <2>6. CASE op' = [op EXCEPT !.stage = "context"]
    BY <2>1, <2>6 DEF Operation, Opening
  <2>7. CASE op' = [op EXCEPT !.kind = "inbound", !.stage = "append", !.round = mem[op.peer].last]
    BY <2>1, <2>7 DEF Operation, Opening
  <2> QED
    BY <1>1, <1>3, <2>2, <2>3, <2>4, <2>5, <2>6, <2>7, OpMoves DEF Opening
<1> QED
  BY <1>2, <1>3

-----------------------------------------------------------------------------
(* What CUE is sent *)

\* Forwards are of saved rounds that are on file.
LEMMA ForwardsInvStep ==
    FInv /\ ServerTypes /\ ForwardsInv /\ [ServerNext]_allVars => ForwardsInv'
<1> SUFFICES ASSUME FInv, ServerTypes, ForwardsInv, [ServerNext]_allVars,
                    NEW i \in DOMAIN forwards'
             PROVE  LET p == forwards'[i].peer
                        r == forwards'[i].round
                    IN  /\ r <= idx'[p].last
                        /\ (MaxRounds = 0 /\ Readable(file'[p])) => HasOpening(file'[p], r)
                        /\ (Opening' /\ op'.peer = p) => r < op'.round
  BY DEF ForwardsInv
<1> DEFINE p == forwards'[i].peer
           r == forwards'[i].round
<1>1. /\ TypeOK /\ IInv /\ OpShape /\ OpOnFile /\ [Next]_vars
      /\ forwards' \in Seq(Forward)
      /\ \/ i \in DOMAIN forwards /\ forwards[i].peer = p /\ forwards[i].round = r
         \/ SaveIndex /\ op # NoOp /\ op.kind = "outbound" /\ p = op.peer /\ r = op.round
  BY HistoryKept, ForwardsStep DEF FInv
<1>2. p \in Peers /\ r \in Nat
  <2>1. forwards'[i] \in Forward
    BY <1>1
  <2> QED
    BY <2>1 DEF Forward
<1> HIDE DEF p, r
<1>3. /\ mem[p].last \in Nat /\ idx[p].last \in Nat /\ idx'[p].last \in Nat
      /\ idx[p].last <= idx'[p].last /\ idx[p].last <= mem[p].last
  BY <1>1, <1>2, IdxGrows
<1>4. CASE i \in DOMAIN forwards /\ forwards[i].peer = p /\ forwards[i].round = r
  <2>1. /\ r <= idx[p].last
        /\ (MaxRounds = 0 /\ Readable(file[p])) => HasOpening(file[p], r)
        /\ (Opening /\ op.peer = p) => r < op.round
    BY <1>4 DEF ForwardsInv
  <2>2. (MaxRounds = 0 /\ Readable(file'[p])) => HasOpening(file'[p], r)
    BY <1>1, <1>2, <2>1, FileStep, GrowthKeeps
  <2>3. ASSUME Opening', op'.peer = p PROVE r < op'.round
    <3>1. CASE Opening /\ op'.peer = op.peer /\ op.round \in Nat /\ op.round <= op'.round
      <4>1. op'.round \in Nat
        BY <1>1, <2>3, OpeningMoves
      <4> QED
        BY <1>2, <2>1, <2>3, <3>1, <4>1
    <3>2. CASE op'.round = mem[p].last + 1
      BY <1>2, <1>3, <2>1, <3>2
    <3> QED
      BY <1>1, <2>3, <3>1, <3>2, OpeningMoves
  <2> QED
    BY <1>2, <1>3, <2>1, <2>2, <2>3 DEF p, r
<1>5. CASE SaveIndex /\ op # NoOp /\ op.kind = "outbound" /\ p = op.peer /\ r = op.round
  <2>1. idx' = mem /\ op.stage = "save" /\ UNCHANGED file
    BY <1>5 DEF SaveIndex, IndexWritten
  <2>2. r = mem[p].last
    BY <1>1, <1>5 DEF OpShape
  <2>3. (MaxRounds = 0 /\ Readable(file[p])) => HasOpening(file[p], r)
    <3>1. (MaxRounds = 0 /\ Readable(file[p])) => EndsOpening(file[p], r)
      BY <1>1, <1>5, <2>1 DEF OpOnFile
    <3>2. file[p] \in Seq(Line)
      BY <1>1, <1>2 DEF TypeOK
    <3> QED
      BY <3>1, <3>2, FileLines DEF EndsOpening, HasOpening
  <2>4. ~Opening'
    <3>1. op \in Operation
      BY <1>1, <1>5, OpType
    <3> QED
      BY <1>5, <3>1 DEF SaveIndex, Acknowledge, Opening, Operation
  <2> QED
    BY <1>3, <2>1, <2>2, <2>3, <2>4 DEF p, r
<1> QED
  BY <1>1, <1>4, <1>5

\* No step forwards a round again.
LEMMA ForwardsRiseStep ==
    FInv /\ ServerTypes /\ ForwardsInv /\ ForwardsRise /\ [ServerNext]_allVars => ForwardsRise'
<1> SUFFICES ASSUME FInv, ServerTypes, ForwardsInv, ForwardsRise, [ServerNext]_allVars,
                    NEW i \in DOMAIN forwards', NEW j \in DOMAIN forwards',
                    i < j, forwards'[i].peer = forwards'[j].peer
             PROVE  forwards'[i].round < forwards'[j].round
  BY DEF ForwardsRise
<1>1. /\ TypeOK /\ IInv /\ OpShape /\ forwards' \in Seq(Forward) /\ forwards \in Seq(Forward)
      /\ \A k \in DOMAIN forwards' :
           \/ /\ k \in DOMAIN forwards
              /\ forwards'[k].peer = forwards[k].peer /\ forwards'[k].round = forwards[k].round
           \/ /\ SaveIndex /\ op # NoOp /\ op.kind = "outbound"
              /\ k \notin DOMAIN forwards /\ k = Len(forwards) + 1
              /\ forwards'[k].peer = op.peer /\ forwards'[k].round = op.round
  BY HistoryKept, ForwardsStep DEF FInv, ServerTypes
<1>2. DOMAIN forwards = 1 .. Len(forwards) /\ DOMAIN forwards' = 1 .. Len(forwards')
      /\ Len(forwards) \in Nat /\ Len(forwards') \in Nat
  BY <1>1
<1>3. CASE i \in DOMAIN forwards /\ j \in DOMAIN forwards
  BY <1>1, <1>2, <1>3 DEF ForwardsRise
<1>4. CASE i \in DOMAIN forwards /\ j \notin DOMAIN forwards
  <2>1. SaveIndex /\ op # NoOp /\ op.kind = "outbound" /\ forwards'[j].peer = op.peer
        /\ forwards'[j].round = op.round
    BY <1>1, <1>4
  <2>2. Opening
    BY <2>1 DEF Opening, SaveIndex
  <2>3. forwards[i].peer = op.peer /\ forwards'[i].round = forwards[i].round
    BY <1>1, <1>2, <1>4, <2>1
  <2> QED
    BY <1>4, <2>1, <2>2, <2>3 DEF ForwardsInv
<1>5. CASE i \notin DOMAIN forwards
  <2>1. i = Len(forwards) + 1
    BY <1>1, <1>5
  <2>2. j \in 1 .. Len(forwards) \/ j = Len(forwards) + 1
    BY <1>1, <1>2
  <2> QED
    BY <1>2, <2>1, <2>2
<1> QED
  BY <1>3, <1>4, <1>5

-----------------------------------------------------------------------------
(* Tasks *)

\* A reply is recorded behind its message, and once.
LEMMA RepliesStep == FInv /\ RepliesInv /\ [ServerNext]_allVars => RepliesInv'
<1> SUFFICES ASSUME FInv, RepliesInv, [ServerNext]_allVars, MaxRounds = 0, NEW p \in Peers,
                    NEW i \in DOMAIN file'[p], file'[p][i].role = "inbound"
             PROVE
        /\ file'[p][i].round <= idx'[p].last
        /\ i > 1 /\ Opens(file'[p][i - 1], file'[p][i].round)
        /\ (op' # NoOp /\ op'.peer = p /\ ~(op'.kind = "inbound" /\ op'.stage = "save")) =>
              file'[p][i].round < op'.round
        /\ \A j \in DOMAIN file'[p] :
              (file'[p][j].role = "inbound" /\ file'[p][j].round = file'[p][i].round) => j = i
  BY DEF RepliesInv
<1>1. /\ TypeOK /\ TypeOK' /\ IInv /\ OpShape /\ OpOnFile /\ SavedInv /\ [Next]_vars
      /\ file[p] \in Seq(Line) /\ file'[p] \in Seq(Line)
  BY HistoryKept DEF FInv, TypeOK
<1>2. /\ mem[p].last \in Nat /\ idx[p].last \in Nat /\ idx'[p].last \in Nat
      /\ idx[p].last <= idx'[p].last /\ idx[p].last <= mem[p].last
  BY <1>1, IdxGrows
<1>3. \A j \in DOMAIN file'[p] : file'[p][j].role = "inbound" =>
        \/ j \in DOMAIN file[p] /\ file'[p][j] = file[p][j]
        \/ /\ AppendLine /\ op.peer = p /\ op # NoOp /\ op.kind = "inbound" /\ op.stage = "append"
           /\ j = Len(file[p]) + 1 /\ j \notin DOMAIN file[p]
           /\ file'[p][j].round = op.round
  BY <1>1, LinesAdded DEF AppendLine
<1>4. \A j \in DOMAIN file[p] : file[p][j].role # "torn" =>
         j \in DOMAIN file'[p] /\ file'[p][j] = file[p][j]
  BY <1>1, FileStep, GrowthKeeps
<1>5. \A j \in DOMAIN file[p] : file[p][j].role = "inbound" =>
        /\ file[p][j].round <= idx[p].last
        /\ j > 1 /\ Opens(file[p][j - 1], file[p][j].round)
        /\ (op # NoOp /\ op.peer = p /\ ~(op.kind = "inbound" /\ op.stage = "save")) =>
              file[p][j].round < op.round
        /\ \A k \in DOMAIN file[p] :
              (file[p][k].role = "inbound" /\ file[p][k].round = file[p][j].round) => k = j
  BY DEF RepliesInv
<1>6. file'[p][i].round \in Nat
  BY <1>1, FileLines DEF Line
<1>7. CASE i \in DOMAIN file[p] /\ file'[p][i] = file[p][i]
  <2>1. file'[p][i].round <= idx'[p].last
    BY <1>2, <1>5, <1>6, <1>7
  <2>2. i > 1 /\ Opens(file'[p][i - 1], file'[p][i].round)
    <3>1. i > 1 /\ Opens(file[p][i - 1], file[p][i].round)
      BY <1>5, <1>7
    <3>2. i - 1 \in DOMAIN file[p]
      BY <1>1, <1>7, <3>1, FileLines
    <3> QED
      BY <1>4, <1>7, <3>1, <3>2 DEF Opens
  <2>3. ASSUME op' # NoOp, op'.peer = p, ~(op'.kind = "inbound" /\ op'.stage = "save")
        PROVE  file'[p][i].round < op'.round
    <3>1. CASE op = NoOp
      <4>1. op'.round = mem[p].last + 1
        BY <1>1, <2>3, <3>1, OpBegins
      <4> QED
        BY <1>2, <1>5, <1>6, <1>7, <4>1
    <3>2. CASE op # NoOp
      <4>1. /\ op.peer = p /\ op.round \in Nat /\ op'.round \in Nat /\ op.round <= op'.round
            /\ ~(op.kind = "inbound" /\ op.stage = "save")
        BY <1>1, <2>3, <3>2, OpGoesOn
      <4>2. file[p][i].round < op.round
        BY <1>5, <1>7, <3>2, <4>1
      <4> QED
        BY <1>6, <1>7, <4>1, <4>2
    <3> QED
      BY <3>1, <3>2
  <2>4. ASSUME NEW j \in DOMAIN file'[p], file'[p][j].role = "inbound",
               file'[p][j].round = file'[p][i].round
        PROVE  j = i
    <3>1. CASE j \in DOMAIN file[p] /\ file'[p][j] = file[p][j]
      BY <1>5, <1>7, <2>4, <3>1
    <3>2. CASE op.peer = p /\ op # NoOp /\ op.stage = "append" /\ file'[p][j].round = op.round
      <4>1. file[p][i].round < op.round
        BY <1>5, <1>7, <3>2
      <4> QED
        BY <1>6, <1>7, <2>4, <3>2, <4>1
    <3> QED
      BY <1>3, <2>4, <3>1, <3>2
  <2> QED
    BY <2>1, <2>2, <2>3, <2>4
<1>8. CASE /\ AppendLine /\ op.peer = p /\ op # NoOp /\ op.kind = "inbound" /\ op.stage = "append"
           /\ i = Len(file[p]) + 1 /\ i \notin DOMAIN file[p]
           /\ file'[p][i].round = op.round
  <2>1. op.round = mem[p].last /\ idx = mem /\ EndsOpening(file[p], op.round) /\ op.round \in Nat
    BY <1>1, <1>8, OpType DEF OpShape, SavedInv, OpOnFile
  <2>2. file'[p][i].round <= idx'[p].last
    BY <1>2, <1>8, <2>1
  <2>3. i > 1 /\ Opens(file'[p][i - 1], file'[p][i].round)
    <3>1. Len(file[p]) \in DOMAIN file[p] /\ Opens(file[p][Len(file[p])], op.round)
          /\ Len(file[p]) \in Nat /\ Len(file[p]) >= 1
      BY <1>1, <2>1, FileLines DEF EndsOpening
    <3>2. file'[p][Len(file[p])] = file[p][Len(file[p])]
      BY <1>4, <3>1 DEF Opens
    <3>3. i > 1 /\ i - 1 = Len(file[p])
      BY <1>8, <3>1
    <3> QED
      BY <1>8, <3>1, <3>2, <3>3
  <2>4. op'.kind = "inbound" /\ op'.stage = "save"
    <3>1. op \in Operation
      BY <1>1, <1>8, OpType
    <3> QED
      BY <1>8, <3>1 DEF AppendLine, Operation
  <2>5. ASSUME NEW j \in DOMAIN file'[p], file'[p][j].role = "inbound",
               file'[p][j].round = file'[p][i].round
        PROVE  j = i
    <3>1. CASE j \in DOMAIN file[p] /\ file'[p][j] = file[p][j]
      <4>1. file[p][j].round < op.round
        BY <1>5, <1>8, <2>5, <3>1
      <4> QED
        BY <1>8, <2>1, <2>5, <3>1, <4>1
    <3>2. CASE j = Len(file[p]) + 1
      BY <1>8, <3>2
    <3> QED
      BY <1>3, <2>5, <3>1, <3>2
  <2> QED
    BY <2>2, <2>3, <2>4, <2>5
<1> QED
  BY <1>3, <1>7, <1>8

\* What a step does to the tasks.
LEMMA TasksStep ==
    ASSUME TypeOK, ServerTypes, [ServerNext]_allVars
    PROVE  /\ tasks' \subseteq Task
           /\ \A t \in tasks' :
                \/ \E u \in tasks : u.peer = t.peer /\ u.round = t.round
                \/ /\ SaveIndex /\ op # NoOp /\ t.peer = op.peer /\ t.round = op.round
                   /\ op.kind = "inbound" \/ ContextRounds = 0
<1> USE DEF ServerTypes
<1>1. CASE Save
  <2> DEFINE new == [peer |-> op.peer, round |-> op.round, state |-> "completed"]
  <2>1. op # NoOp /\ new \in Task /\ new.peer = op.peer /\ new.round = op.round
    BY <1>1, OpType DEF Save, SaveIndex, Task
  <2>2. \/ tasks' = tasks
        \/ tasks' = tasks \cup {new} /\ (op.kind = "inbound" \/ ContextRounds = 0)
    BY <1>1 DEF Save, TasksKept
  <2> HIDE DEF new
  <2> QED
    BY <1>1, <2>1, <2>2 DEF Save
<1>2. ASSUME NEW u \in tasks, CancelTask(u)
      PROVE  /\ tasks' \subseteq Task
             /\ \A t \in tasks' : \E w \in tasks : w.peer = t.peer /\ w.round = t.round
  <2> DEFINE c == [u EXCEPT !.state = "canceled"]
  <2>1. c \in Task /\ c.peer = u.peer /\ c.round = u.round
    BY DEF Task
  <2>2. tasks' = (tasks \ {u}) \cup {c}
    BY <1>2 DEF CancelTask
  <2> HIDE DEF c
  <2> QED
    BY <2>1, <2>2
<1>3. UNCHANGED tasks \/ tasks' = {} \/ Save \/ \E u \in tasks : CancelTask(u)
  BY DEF ServerNext, allVars, serverVars, SendRpc, SendRest, StartExport, Poll, Import, Record,
         ExportPage, Fail, EndForward, Restart
<1> QED
  BY <1>1, <1>2, <1>3

\* A task has its reply on file as long as it can be asked for.
LEMMA TasksInvStep == FInv /\ ServerTypes /\ TasksInv /\ [ServerNext]_allVars => TasksInv'
<1> SUFFICES ASSUME FInv, ServerTypes, TasksInv, [ServerNext]_allVars,
                    MaxRounds = 0, ContextRounds > 0, NEW t \in tasks'
             PROVE  HasReply(file'[t.peer], t.round)
  BY DEF TasksInv
<1>1. /\ TypeOK /\ OpOnFile /\ [Next]_vars
      /\ \/ \E u \in tasks : u.peer = t.peer /\ u.round = t.round
         \/ /\ SaveIndex /\ op # NoOp /\ t.peer = op.peer /\ t.round = op.round
            /\ op.kind = "inbound" \/ ContextRounds = 0
      /\ t.peer \in Peers
  BY HistoryKept, TasksStep DEF FInv, Task
<1>2. HasReply(file[t.peer], t.round)
  <2>1. CASE \E u \in tasks : u.peer = t.peer /\ u.round = t.round
    BY <2>1 DEF TasksInv
  <2>2. CASE SaveIndex /\ op # NoOp /\ t.peer = op.peer /\ t.round = op.round /\ op.kind = "inbound"
    BY <1>1, <2>2 DEF OpOnFile, SaveIndex
  <2> QED
    BY <1>1, <2>1, <2>2
<1> QED
  BY <1>1, <1>2, FileStep, GrowthKeeps

-----------------------------------------------------------------------------
(* The exporting client *)

\* The records that the client's page by page state becomes.
LEMMA ExportTypes ==
    /\ NoExport.stage = "idle"
    /\ \A p, n : LET e == [stage |-> "reading", peer |-> p, offset |-> 0, got |-> <<>>, begun |-> n]
                 IN  /\ e # NoExport
                     /\ e.stage = "reading" /\ e.peer = p /\ e.offset = 0
                     /\ e.got = <<>> /\ e.begun = n
BY DEF NoExport

\* A page behind the lines that the client has.
LEMMA PageAdded ==
    ASSUME NEW f \in Seq(Line), Readable(f), NEW got, Begins(got, f),
           NEW new, new = got \o Page(f, Len(got))
    PROVE  /\ Begins(new, f)
           /\ Len(new) = Min2(Len(got) + PageSize, Len(f))
<1> USE DEF Begins
<1> SUFFICES
           /\ new \in Seq(Line)
           /\ Len(new) = Min2(Len(got) + PageSize, Len(f)) /\ Len(new) <= Len(f)
           /\ \A i \in DOMAIN new : new[i] = f[i] /\ new[i].role # "torn"
  OBVIOUS
<1> DEFINE m == Len(got)
           n == Min2(m + PageSize, Len(f))
           page == SubSeq(f, m + 1, n)
<1>1. /\ m \in Nat /\ n \in Nat /\ m <= n /\ n <= Len(f)
      /\ DOMAIN f = 1 .. Len(f) /\ Len(f) \in Nat /\ DOMAIN got = 1 .. m
  BY ServerAssumption, FileLines DEF Min2
<1>2. /\ page \in Seq(Line) /\ Len(page) = n - m
      /\ \A i \in 1 .. n - m : page[i] = f[m + i]
  <2>1. \A i \in m + 1 .. n : f[i] \in Line
    BY <1>1
  <2> HIDE DEF n, m
  <2>2. /\ page \in Seq(Line)
        /\ Len(page) = IF m + 1 <= n THEN n - (m + 1) + 1 ELSE 0
        /\ \A i \in 1 .. n - (m + 1) + 1 : page[i] = f[(m + 1) + i - 1]
    BY <1>1, <2>1, SubSeqProperties
  <2> HIDE DEF page
  <2>3. n - (m + 1) + 1 = n - m /\ \A i \in 1 .. n - m : (m + 1) + i - 1 = m + i
    BY <1>1
  <2> QED
    BY <1>1, <2>2, <2>3
<1> HIDE DEF page, n
<1>3. new = got \o page
  BY DEF Page, page, n
<1>4. /\ new \in Seq(Line) /\ Len(new) = n
      /\ \A i \in 1 .. n : new[i] = IF i <= m THEN got[i] ELSE page[i - m]
  <2>1. /\ got \o page \in Seq(Line)
        /\ Len(got \o page) = m + Len(page)
        /\ \A i \in 1 .. m + Len(page) : (got \o page)[i] = IF i <= m THEN got[i] ELSE page[i - m]
    <3>1. page \in Seq(Line)
      BY <1>2
    <3> QED
      BY <3>1, ConcatProperties
  <2>2. m + Len(page) = n
    BY <1>1, <1>2
  <2> QED
    BY <1>3, <2>1, <2>2
<1>5. \A i \in 1 .. m : got[i] = f[i] /\ got[i].role # "torn"
  BY <1>1
<1> HIDE DEF m
<1>6. ASSUME NEW i \in 1 .. n PROVE new[i] = f[i] /\ new[i].role # "torn"
  <2>1. CASE i <= m
    <3>1. i \in 1 .. m
      BY <1>1, <2>1
    <3> QED
      BY <1>4, <1>5, <2>1, <3>1
  <2>2. CASE i > m
    <3>1. i - m \in 1 .. n - m /\ m + (i - m) = i /\ i \in DOMAIN f /\ ~(i <= m)
      BY <1>1, <2>2
    <3>2. new[i] = f[i]
      BY <1>2, <1>4, <3>1
    <3> QED
      BY <3>1, <3>2 DEF Readable
  <2>3. i <= m \/ i > m
    BY <1>1
  <2> QED
    BY <2>1, <2>2, <2>3
<1>7. DOMAIN new = 1 .. n
  BY <1>1, <1>4, FileLines
<1> QED
  BY <1>1, <1>4, <1>6, <1>7 DEF n, m

\* What the exporting client has stays the beginning of the file.
LEMMA ExportInvStep == FInv /\ ExportInv /\ [ServerNext]_allVars => ExportInv'
<1> SUFFICES ASSUME FInv, ExportInv, [ServerNext]_allVars, MaxRounds = 0, export' # NoExport
             PROVE
        /\ export' \in ExportState
        /\ export'.begun <= Len(file'[export'.peer])
        /\ Begins(export'.got, file'[export'.peer])
        /\ export'.stage = "reading" => Len(export'.got) = export'.offset
        /\ export'.stage = "done" => export'.begun <= Len(export'.got)
  BY DEF ExportInv
<1>1. TypeOK /\ [Next]_vars
  BY HistoryKept
<1>2. ASSUME NEW p \in Peers, StartExport(p)
      PROVE
        /\ export' \in ExportState
        /\ export'.begun <= Len(file'[export'.peer])
        /\ Begins(export'.got, file'[export'.peer])
        /\ export'.stage = "reading" => Len(export'.got) = export'.offset
        /\ export'.stage = "done" => export'.begun <= Len(export'.got)
  <2>1. /\ Len(file[p]) \in Nat /\ UNCHANGED file
        /\ export' = [stage |-> "reading", peer |-> p, offset |-> 0, got |-> <<>>,
                      begun |-> Len(file[p])]
    BY <1>1, <1>2, FileLines DEF StartExport, TypeOK, vars
  <2>2. <<>> \in Seq(Line) /\ Len(<<>>) = 0 /\ DOMAIN <<>> = {}
    OBVIOUS
  <2>3. export' \in ExportState
    BY <2>1, <2>2 DEF ExportState
  <2> QED
    BY <2>1, <2>2, <2>3 DEF Begins
<1>3. CASE ExportPage
  <2> DEFINE q == export.peer
             f == file[q]
             more == HasMore(export.offset, Len(f))
             new == export.got \o Page(f, export.offset)
  <2>1. /\ export # NoExport /\ export.stage = "reading" /\ Readable(f) /\ UNCHANGED file
        /\ export' = [export EXCEPT !.stage = IF more THEN "reading" ELSE "done",
                                    !.offset = export.offset + PageSize,
                                    !.got = new]
    BY <1>3, ExportTypes DEF ExportPage, vars
  <2>2. /\ export \in ExportState /\ q \in Peers /\ Begins(export.got, f)
        /\ export.begun \in Nat /\ export.begun <= Len(f)
        /\ Len(export.got) = export.offset /\ export.offset \in Nat
    BY <2>1 DEF ExportInv, ExportState
  <2>3. f \in Seq(Line) /\ Len(f) \in Nat
    BY <1>1, <2>2, FileLines DEF TypeOK
  <2>4. Begins(new, f) /\ Len(new) = Min2(export.offset + PageSize, Len(f))
    <3>1. new = export.got \o Page(f, Len(export.got))
      BY <2>2
    <3> HIDE DEF new, f, q, more
    <3> QED
      BY <2>1, <2>2, <2>3, <3>1, PageAdded
  <2>5. more <=> export.offset + PageSize < Len(f)
    BY DEF HasMore
  <2> HIDE DEF new, f, more
  <2>6. /\ export' \in ExportState /\ export'.got = new /\ export'.peer = q
        /\ export'.begun = export.begun /\ export'.offset = export.offset + PageSize
        /\ export'.stage = IF more THEN "reading" ELSE "done"
    <3>1. /\ export.offset + PageSize \in Nat
          /\ (IF more THEN "reading" ELSE "done") \in {"reading", "done"}
      BY <2>2, ServerAssumption
    <3> QED
      BY <2>1, <2>2, <2>4, <3>1 DEF ExportState, Begins
  <2>7. file'[q] = f
    BY <2>1 DEF f
  <2>8. more => Len(new) = export'.offset
    BY <2>2, <2>3, <2>4, <2>5, <2>6, ServerAssumption DEF Min2
  <2>9. ~more => Len(new) = Len(f)
    BY <2>2, <2>3, <2>4, <2>5, ServerAssumption DEF Min2
  <2> QED
    BY <2>2, <2>4, <2>6, <2>7, <2>8, <2>9
<1>4. CASE UNCHANGED export
  <2> DEFINE q == export.peer
  <2>1. /\ export \in ExportState /\ q \in Peers
        /\ export.begun \in Nat /\ export.begun <= Len(file[q])
        /\ export.stage = "reading" => Len(export.got) = export.offset
        /\ export.stage = "done" => export.begun <= Len(export.got)
        /\ export.got \in Seq(Line) /\ Len(export.got) <= Len(file[q])
        /\ \A i \in DOMAIN export.got : export.got[i] = file[q][i] /\ export.got[i].role # "torn"
    BY <1>4 DEF ExportInv, ExportState, Begins
  <2>2. /\ file[q] \in Seq(Line) /\ file'[q] \in Seq(Line) /\ Grows(file[q], file'[q])
        /\ Len(file[q]) \in Nat /\ Len(file'[q]) \in Nat /\ DOMAIN file[q] = 1 .. Len(file[q])
        /\ DOMAIN export.got = 1 .. Len(export.got) /\ Len(export.got) \in Nat
    BY <1>1, <2>1, FileStep, FileLines
  <2>3. Len(file[q]) <= Len(file'[q])
    BY <2>2 DEF Grows
  <2>4. \A i \in DOMAIN export.got : i \in DOMAIN file[q]
    BY <2>1, <2>2
  <2>5. \A i \in DOMAIN export.got : export.got[i] = file'[q][i]
    BY <2>1, <2>2, <2>4, GrowthKeeps
  <2> HIDE DEF q
  <2> QED
    BY <1>4, <2>1, <2>2, <2>3, <2>5 DEF q, Begins
<1>5. UNCHANGED export \/ ExportPage \/ \E p \in Peers : StartExport(p)
  BY DEF ServerNext, allVars, serverVars, SendRpc, SendRest, Poll, Import, Record, Save,
         CancelTask, Fail, EndForward, Restart
<1> QED
  BY <1>2, <1>3, <1>4, <1>5

-----------------------------------------------------------------------------
(* The polling clients *)

\* Only a restart lets the count of rounds in memory go back.
LEMMA MemGrows ==
    ASSUME TypeOK, [Next]_vars, ~Crash, NEW p \in Peers
    PROVE  mem[p].last <= mem'[p].last
<1>1. mem[p].last \in Nat
  BY DEF TypeOK, Entry
<1>2. CASE UNCHANGED mem
  BY <1>1, <1>2
<1>3. ASSUME NEW q \in Peers, NEW e, mem' = [mem EXCEPT ![q] = e], mem[q].last <= e.last
      PROVE  mem[p].last <= mem'[p].last
  BY <1>1, <1>3 DEF TypeOK
<1>4. \A q \in Peers : /\ mem[q].last <= Bump(mem[q]).last
                       /\ mem[q].last <= Shifted(q).last
                       /\ mem[q].last <= Bump(Shifted(q)).last
  <2> TAKE q \in Peers
  <2>1. mem[q].last \in Nat
    BY DEF TypeOK, Entry
  <2> QED
    BY <2>1, EntryGrows
<1>5. CASE EnforceCap
  <2>1. op.peer \in Peers
    BY <1>5, OpType DEF EnforceCap
  <2> QED
    BY <1>3, <1>4, <1>5, <2>1 DEF EnforceCap
<1>6. CASE \E q \in Peers : RecordOutbound(q) \/ \E n \in ImportSizes : ImportMessages(q, n)
  BY <1>3, <1>4, <1>6 DEF RecordOutbound, ImportMessages, Open
<1> QED
  BY <1>2, <1>5, <1>6
    DEF Next, vars, ImportNothing, AppendLine, SaveIndex, ReadContext, Fault

\* Failures and restarts are counted for good.
LEMMA TroubleCounted ==
    ASSUME TypeOK, [Next]_vars
    PROVE  /\ faults' = 0 => faults = 0
           /\ crashes' = 0 => crashes = 0 /\ ~Crash
BY DEF TypeOK, Next, vars, RecordOutbound, ImportMessages, Open, ImportNothing,
       AppendLine, EnforceCap, SaveIndex, ReadContext, Fault, Crash

\* What a step does to the polling clients.
LEMMA PollStep ==
    ASSUME TypeOK, ServerTypes, [ServerNext]_allVars, NEW p \in Peers
    PROVE  /\ poll'[p] \in PollState
           /\ \/ poll'[p] = poll[p]
              \/ /\ op = NoOp /\ UNCHANGED vars /\ Readable(file[p]) /\ ~poll[p].late
                 /\ \/ poll'[p].late
                    \/ /\ mem[p].last - poll[p].last <= PollLimit
                       /\ ~poll'[p].late /\ poll'[p].last = mem[p].last
                       /\ poll'[p].seen =
                            poll[p].seen \cup {i \in DOMAIN file[p] : file[p][i].round >= Cutoff(p)}
<1>1. poll \in [Peers -> PollState] /\ poll[p] \in PollState
  BY DEF ServerTypes
<1>2. CASE UNCHANGED poll
  BY <1>1, <1>2
<1>3. ASSUME NEW q \in Peers, Poll(q), q # p PROVE poll'[p] = poll[p]
  BY <1>1, <1>3 DEF Poll
<1>4. CASE Poll(p)
  <2> DEFINE found == {i \in DOMAIN file[p] : file[p][i].round >= Cutoff(p)}
             late == [NewPoll EXCEPT !.late = TRUE]
             told == [poll[p] EXCEPT !.last = mem[p].last, !.seen = poll[p].seen \cup found]
  <2>1. op = NoOp /\ UNCHANGED vars /\ Readable(file[p]) /\ ~poll[p].late
    BY <1>4 DEF Poll, vars
  <2>2. poll'[p] = IF mem[p].last - poll[p].last > PollLimit THEN late ELSE told
    <3>1. poll' = [poll EXCEPT ![p] =
                      IF mem[p].last - poll[p].last > PollLimit THEN late ELSE told]
      BY <1>4 DEF Poll
    <3> HIDE DEF late, told
    <3> QED
      BY <1>1, <3>1
  <2>3. mem[p].last \in Nat /\ poll[p].last \in Nat /\ found \subseteq Nat
    <3>1. file[p] \in Seq(Line) /\ mem[p] \in Entry
      BY DEF TypeOK
    <3> QED
      BY <1>1, <3>1 DEF Entry, PollState
  <2> HIDE DEF found
  <2>4. late \in PollState /\ late.late
    BY DEF NewPoll, PollState
  <2>5. /\ told \in PollState /\ ~told.late /\ told.last = mem[p].last
        /\ told.seen = poll[p].seen \cup found
    BY <1>1, <2>1, <2>3 DEF PollState
  <2> HIDE DEF late, told
  <2>6. CASE mem[p].last - poll[p].last > PollLimit
    BY <2>1, <2>2, <2>4, <2>6
  <2>7. CASE ~(mem[p].last - poll[p].last > PollLimit)
    <3>1. mem[p].last - poll[p].last <= PollLimit
      BY <2>3, <2>7, ServerAssumption
    <3> QED
      BY <2>1, <2>2, <2>5, <2>7, <3>1 DEF found
  <2> QED
    BY <2>6, <2>7
<1>5. UNCHANGED poll \/ \E q \in Peers : Poll(q)
  BY DEF ServerNext, allVars, serverVars, SendRpc, SendRest, StartExport, Import, Record, Save,
         CancelTask, ExportPage, Fail, EndForward, Restart
<1> QED
  BY <1>1, <1>2, <1>3, <1>4, <1>5

\* What the server keeps is of its kind.
LEMMA TypesStep == FInv /\ ServerTypes /\ [ServerNext]_allVars => ServerTypes'
<1> SUFFICES ASSUME FInv, ServerTypes, [ServerNext]_allVars PROVE ServerTypes'
  OBVIOUS
<1>1. TypeOK
  BY HistoryKept
<1>2. poll' \in [Peers -> PollState]
  <2>1. poll \in [Peers -> PollState]
    BY DEF ServerTypes
  <2>2. poll' = [p \in Peers |-> poll'[p]]
    BY <2>1 DEF ServerNext, allVars, serverVars, SendRpc, SendRest, StartExport, Poll, Import,
                Record, Save, CancelTask, ExportPage, Fail, EndForward, Restart
  <2>3. \A p \in Peers : poll'[p] \in PollState
    BY <1>1, PollStep
  <2> QED
    BY <2>2, <2>3
<1> QED
  BY <1>1, <1>2, ForwardsStep, TasksStep DEF ServerTypes

\* A client that keeps up goes on to have seen what was answered.
LEMMA PollInvStep == FInv /\ ServerTypes /\ PollInv /\ [ServerNext]_allVars => PollInv'
<1> SUFFICES ASSUME FInv, ServerTypes, PollInv, [ServerNext]_allVars,
                    MaxRounds = 0, faults' = 0 \/ crashes' = 0,
                    NEW p \in Peers, ~poll'[p].late
             PROVE
        /\ poll'[p].last <= mem'[p].last
        /\ faults' = 0 => poll'[p].last <= idx'[p].last
        /\ (Opening' /\ op'.peer = p) => poll'[p].last < op'.first
        /\ \A i \in DOMAIN file'[p] : \A r \in Nat :
              (r <= poll'[p].last /\ Opens(file'[p][i], r)) => i \in poll'[p].seen
        /\ \A a \in DOMAIN acks'[p] : \A r \in acks'[p][a].first .. acks'[p][a].last :
              r <= poll'[p].last => HasOpening(file'[p], r)
  BY DEF PollInv
<1>1. /\ TypeOK /\ TypeOK' /\ IInv /\ OpShape /\ OpOnFile /\ SavedInv /\ AcksKept /\ FirstZero
      /\ [Next]_vars
      /\ file[p] \in Seq(Line) /\ file'[p] \in Seq(Line)
      /\ poll[p] \in PollState
  BY HistoryKept DEF FInv, TypeOK, ServerTypes
<1>2. /\ mem[p].last \in Nat /\ idx[p].last \in Nat /\ idx'[p].last \in Nat /\ mem'[p].last \in Nat
      /\ idx[p].last <= idx'[p].last /\ idx[p].last <= mem[p].last
      /\ poll[p].last \in Nat
  BY <1>1, IdxGrows DEF PollState
<1>3. (faults = 0 \/ crashes = 0) /\ (faults' = 0 => faults = 0) /\ (crashes' = 0 => ~Crash)
  BY <1>1, TroubleCounted
<1>4. ~poll[p].late
  BY <1>1, PollStep
<1>5. /\ poll[p].last <= mem[p].last
      /\ faults = 0 => poll[p].last <= idx[p].last
      /\ (Opening /\ op.peer = p) => poll[p].last < op.first
      /\ \A i \in DOMAIN file[p] : \A r \in Nat :
            (r <= poll[p].last /\ Opens(file[p][i], r)) => i \in poll[p].seen
      /\ \A a \in DOMAIN acks[p] : \A r \in acks[p][a].first .. acks[p][a].last :
            r <= poll[p].last => HasOpening(file[p], r)
  BY <1>3, <1>4 DEF PollInv
<1>6. CASE poll'[p] = poll[p]
  <2>1. poll[p].last <= mem'[p].last
    <3>1. CASE Crash
      BY <1>3, <1>5, <3>1 DEF Crash, IndexLoaded
    <3>2. CASE ~Crash
      BY <1>1, <1>2, <1>5, <3>2, MemGrows
    <3> QED
      BY <3>1, <3>2
  <2>2. faults' = 0 => poll[p].last <= idx'[p].last
    BY <1>2, <1>3, <1>5
  <2>3. ASSUME Opening', op'.peer = p PROVE poll[p].last < op'.first
    <3>1. CASE Opening /\ op'.peer = op.peer /\ op'.first = op.first
      BY <1>5, <2>3, <3>1
    <3>2. CASE op'.first = mem[p].last + 1
      BY <1>2, <1>5, <3>2
    <3> QED
      BY <1>1, <2>3, <3>1, <3>2, OpeningMoves
  <2>4. ASSUME op # NoOp, op.peer = p, Opening
        PROVE  /\ op.first \in Nat /\ op.round \in Nat /\ op.first <= op.round
               /\ poll[p].last < op.first
    BY <1>1, <1>5, <2>4, OpType DEF IInv, OpIsFresh
  <2>5. ASSUME NEW i \in DOMAIN file'[p], NEW r \in Nat, r <= poll[p].last, Opens(file'[p][i], r)
        PROVE  i \in poll[p].seen
    <3>1. file'[p][i].role \notin {"torn", "garbage"}
      BY <2>5 DEF Opens
    <3>2. CASE i \in DOMAIN file[p] /\ file'[p][i] = file[p][i]
      BY <1>5, <2>5, <3>2
    <3>3. CASE AppendLine /\ op.peer = p /\ file'[p][i].round = op.round /\ file'[p][i].role = op.kind
      <4>1. op # NoOp /\ Opening /\ r = op.round
        BY <2>5, <3>3 DEF Opens, Opening, AppendLine
      <4> QED
        BY <1>2, <2>4, <2>5, <3>3, <4>1
    <3> QED
      BY <1>1, <3>1, <3>2, <3>3, LinesAdded
  <2>6. ASSUME NEW a \in DOMAIN acks'[p], NEW r \in acks'[p][a].first .. acks'[p][a].last,
               r <= poll[p].last
        PROVE  HasOpening(file'[p], r)
    <3>1. CASE a \in DOMAIN acks[p] /\ acks'[p][a] = acks[p][a]
      <4>1. HasOpening(file[p], r)
        BY <1>5, <2>6, <3>1
      <4> QED
        BY <1>1, <4>1, FileStep, GrowthKeeps
    <3>2. CASE /\ SaveIndex /\ op # NoOp /\ UNCHANGED file /\ p = op.peer
               /\ acks'[p][a] = [kind |-> IF op.kind = "import" THEN "import" ELSE "send",
                                 first |-> op.first, last |-> op.round]
      <4>1. /\ r \in op.first .. op.round /\ op.stage = "save"
            /\ op.first \in Nat /\ op.round \in Nat
        BY <1>1, <2>6, <3>2, OpType DEF SaveIndex
      <4>2. CASE op.kind = "inbound"
        <5>1. r = op.round /\ HasOpening(file[p], op.round)
          BY <1>1, <3>2, <4>1, <4>2 DEF OpShape, OpOnFile
        <5> QED
          BY <3>2, <5>1
      <4>3. CASE op.kind # "inbound"
        <5>1. Opening
          BY <3>2, <4>1, <4>3 DEF Opening
        <5> QED
          BY <1>2, <2>4, <2>6, <3>2, <4>1, <5>1
      <4> QED
        BY <4>2, <4>3
    <3> QED
      BY <1>1, <3>1, <3>2, AcksStep
  <2> QED
    BY <1>6, <2>1, <2>2, <2>3, <2>5, <2>6
<1>7. CASE /\ op = NoOp /\ UNCHANGED vars /\ Readable(file[p])
           /\ mem[p].last - poll[p].last <= PollLimit
           /\ poll'[p].last = mem[p].last
           /\ poll'[p].seen =
                poll[p].seen \cup {i \in DOMAIN file[p] : file[p][i].round >= Cutoff(p)}
  <2>1. UNCHANGED <<mem, idx, file, op, acks, faults>>
    BY <1>7 DEF vars
  <2>2. faults' = 0 => mem[p].last <= idx'[p].last
    BY <1>1, <1>2, <1>3, <1>7, <2>1 DEF SavedInv
  <2>3. ~Opening'
    BY <1>7, <2>1 DEF Opening
  <2>4. Cutoff(p) = poll[p].last + 1
    BY <1>1, <1>2, <1>7, ServerAssumption DEF Cutoff, Max2, FirstZero
  <2>5. ASSUME NEW i \in DOMAIN file[p], NEW r \in Nat, Opens(file[p][i], r)
        PROVE  i \in poll'[p].seen
    <3>1. CASE r <= poll[p].last
      BY <1>5, <1>7, <2>5, <3>1
    <3>2. CASE r > poll[p].last
      <4>1. file[p][i].round = r
        BY <2>5 DEF Opens
      <4>2. file[p][i].round >= Cutoff(p)
        BY <1>2, <2>4, <3>2, <4>1
      <4> QED
        BY <1>7, <4>2
    <3> QED
      BY <1>2, <3>1, <3>2
  <2>6. \A a \in DOMAIN acks[p] : \A r \in acks[p][a].first .. acks[p][a].last :
            HasOpening(file[p], r)
    BY <1>1, <1>7 DEF AcksKept, Kept
  <2>7. poll'[p].last <= mem'[p].last
    BY <1>2, <1>7, <2>1
  <2> QED
    BY <1>7, <2>1, <2>2, <2>3, <2>5, <2>6, <2>7
<1> QED
  BY <1>1, <1>6, <1>7, PollStep

-----------------------------------------------------------------------------
(* The invariant *)

\* The inductive invariant.
ServerInv ==
    /\ FInv /\ ServerTypes
    /\ ForwardsInv /\ ForwardsRise
    /\ RepliesInv /\ TasksInv
    /\ ExportInv
    /\ PollInv

\* It holds at the start.
LEMMA ServerInvInit == ServerInit => ServerInv
<1> SUFFICES ASSUME ServerInit PROVE ServerInv
  OBVIOUS
<1>1. FInv /\ op = NoOp
  BY FInvInit DEF ServerInit, Init
<1>2. /\ forwards = <<>> /\ tasks = {} /\ export = NoExport
      /\ poll = [p \in Peers |-> NewPoll]
      /\ \A p \in Peers : /\ file[p] = <<>> /\ acks[p] = <<>>
                          /\ mem[p].last = 0 /\ idx[p].last = 0
  BY DEF ServerInit, Init, NewEntry
<1>3. NewPoll \in PollState /\ NewPoll.last = 0
  BY DEF NewPoll, PollState
<1>4. ServerTypes
  BY <1>2, <1>3 DEF ServerTypes
<1>5. ForwardsInv /\ ForwardsRise /\ TasksInv /\ RepliesInv /\ ExportInv
  BY <1>2 DEF ForwardsInv, ForwardsRise, TasksInv, RepliesInv, ExportInv
<1>6. PollInv
  <2>1. ~Opening /\ \A p \in Peers : poll[p].last = 0
    BY <1>1, <1>2, <1>3 DEF Opening
  <2> QED
    BY <1>2, <2>1 DEF PollInv
<1> QED
  BY <1>1, <1>4, <1>5, <1>6 DEF ServerInv

\* Every step keeps it.
LEMMA ServerInvNext == ServerInv /\ [ServerNext]_allVars => ServerInv'
BY HistoryKept, TypesStep, ForwardsInvStep, ForwardsRiseStep, RepliesStep, TasksInvStep,
   ExportInvStep, PollInvStep
   DEF ServerInv

\* Every reachable state satisfies it.
LEMMA ServerInvAlways == ServerSpec => []ServerInv
<1> QED
  BY ServerInvInit, ServerInvNext, PTL DEF ServerSpec

-----------------------------------------------------------------------------
(* The theorems *)

\* The server does to the history what History lets its writers do, so that
\* every theorem about History holds of MessageServer.
THEOREM ServerRunsHistory == ServerSpec => Spec
<1>1. ServerInit => Init
  BY DEF ServerInit
<1> QED
  BY <1>1, HistoryStep, PTL DEF ServerSpec, Spec

\* What CUE is sent is counted by the saved index, and on file as long as the
\* file can be read (ForwardedOnFile).
THEOREM CueGetsWhatIsSaved == ServerSpec => []ForwardedOnFile
<1>1. ServerInv => ForwardedOnFile
  BY DEF ServerInv, ForwardsInv, ForwardedOnFile, HasOpening, Stored
<1> QED
  BY <1>1, ServerInvAlways, PTL

\* CUE never gets two messages of a peer for one round, whatever fails and
\* however often the process restarts (ForwardsRise).
THEOREM CueGetsNewRounds == ServerSpec => []ForwardsRise
<1>1. ServerInv => ForwardsRise
  BY DEF ServerInv
<1> QED
  BY <1>1, ServerInvAlways, PTL

\* A task that can be asked for is on file as one exchange: one reply, and the
\* message it answers right before it (TaskIsOneExchange).
THEOREM TasksAreExchanges == ServerSpec => []TaskIsOneExchange
<1>1. ServerInv => TaskIsOneExchange
  <2> SUFFICES ASSUME ServerInv, MaxRounds = 0, ContextRounds > 0, NEW t \in tasks
               PROVE  LET f       == file[t.peer]
                          replies == {i \in DOMAIN f : f[i].round = t.round /\ f[i].role = "inbound"}
                      IN  /\ Cardinality(replies) = 1
                          /\ \A i \in replies : i > 1 /\ Opens(f[i - 1], t.round)
    BY DEF TaskIsOneExchange
  <2> DEFINE f == file[t.peer]
             replies == {i \in DOMAIN f : f[i].round = t.round /\ f[i].role = "inbound"}
  <2>1. t.peer \in Peers
    BY DEF ServerInv, ServerTypes, Task
  <2>2. PICK i \in DOMAIN f : f[i].round = t.round /\ f[i].role = "inbound"
    BY DEF ServerInv, TasksInv, HasReply
  <2>3. \A j \in replies : j = i /\ j > 1 /\ Opens(f[j - 1], t.round)
    BY <2>1, <2>2 DEF ServerInv, RepliesInv
  <2>4. replies = {i}
    BY <2>2, <2>3
  <2> HIDE DEF replies
  <2>5. Cardinality(replies) = 1
    BY <2>4, FS_Singleton
  <2> QED
    BY <2>3, <2>5 DEF replies
<1> QED
  BY <1>1, ServerInvAlways, PTL

\* A finished export is the beginning of the history, line for line, and at
\* least all there was when it began (ExportComplete).
THEOREM ExportsAreHistories == ServerSpec => []ExportComplete
<1>1. ServerInv => ExportComplete
  <2> SUFFICES ASSUME ServerInv, MaxRounds = 0, export.stage = "done"
               PROVE  /\ Len(export.got) >= export.begun
                      /\ export.got = SubSeq(file[export.peer], 1, Len(export.got))
    BY DEF ExportComplete
  <2> DEFINE got == export.got
             f == file[export.peer]
  <2>1. export # NoExport
    BY ExportTypes
  <2>2. /\ export \in ExportState /\ export.begun \in Nat /\ export.begun <= Len(got)
        /\ got \in Seq(Line) /\ Len(got) \in Nat /\ Len(got) <= Len(f)
        /\ \A i \in 1 .. Len(got) : got[i] = f[i]
    BY <2>1 DEF ServerInv, ExportInv, ExportState, Begins
  <2>3. f \in Seq(Line)
    BY <2>2 DEF ServerInv, FInv, IInv, TypeOK, ExportState
  <2> HIDE DEF got, f
  <2>4. \A i \in 1 .. Len(got) : f[i] \in Line
    BY <2>2, <2>3, FileLines
  <2> DEFINE start == SubSeq(f, 1, Len(got))
  <2>5. /\ start \in Seq(Line)
        /\ Len(start) = IF 1 <= Len(got) THEN Len(got) - 1 + 1 ELSE 0
        /\ \A i \in 1 .. Len(got) - 1 + 1 : start[i] = f[1 + i - 1]
    BY <2>2, <2>4, SubSeqProperties
  <2> HIDE DEF start
  <2>6. Len(start) = Len(got) /\ \A i \in 1 .. Len(got) : got[i] = start[i]
    BY <2>2, <2>5
  <2>7. got = start
    BY <2>2, <2>5, <2>6, SeqEqual
  <2> QED
    BY <2>2, <2>7 DEF got, f, start
<1> QED
  BY <1>1, ServerInvAlways, PTL

\* Of places in a file, one is the last.
LEMMA LastPlace ==
    ASSUME NEW n \in Nat, NEW S \in SUBSET (1 .. n), S # {}
    PROVE  \E k \in S : \A l \in S : l <= k
<1> DEFINE less == OpToRel(<, Nat)
           T == {n - k : k \in S}
<1>1. \A x, y \in Nat : <<x, y>> \in less <=> x < y
  BY DEF OpToRel
<1>2. IsWellFoundedOn(less, Nat)
  BY NatLessThanWellFounded
<1> HIDE DEF less
<1>3. T \subseteq Nat /\ T # {}
  <2>1. \A k \in S : n - k \in Nat
    OBVIOUS
  <2> QED
    BY <2>1 DEF T
<1> HIDE DEF T
<1>4. PICK x \in T : \A y \in T : ~(<<y, x>> \in less)
  BY <1>2, <1>3, WFMin
<1>5. \A y \in T : ~(y < x)
  BY <1>1, <1>3, <1>4
<1>6. PICK k \in S : x = n - k
  BY <1>4 DEF T
<1>7. \A l \in S : ~(n - l < n - k)
  BY <1>5, <1>6 DEF T
<1> QED
  BY <1>7

\* A polling client that keeps up has seen the newest line that opens each
\* answered round it was told of, unless something failed and the process
\* restarted as well (PollMissesNothing).
THEOREM PollsSeeAnswers == ServerSpec => []PollMissesNothing
<1>1. ServerInv => PollMissesNothing
  <2> SUFFICES ASSUME ServerInv, MaxRounds = 0, faults = 0 \/ crashes = 0,
                      NEW p \in Peers, ~poll[p].late, NEW a \in DOMAIN acks[p],
                      NEW r \in acks[p][a].first .. acks[p][a].last, r <= poll[p].last
               PROVE  \E i \in poll[p].seen :
                          /\ Opens(file[p][i], r)
                          /\ \A j \in DOMAIN file[p] : Opens(file[p][j], r) => j <= i
    BY DEF PollMissesNothing
  <2>1. file[p] \in Seq(Line) /\ acks[p] \in Seq(Ack)
    BY DEF ServerInv, FInv, IInv, TypeOK
  <2>2. acks[p][a].first \in Nat /\ acks[p][a].last \in Nat
    <3>1. acks[p][a] \in Ack
      BY <2>1
    <3> QED
      BY <3>1 DEF Ack
  <2>3. r \in Nat
    BY <2>2
  <2>4. HasOpening(file[p], r)
    BY DEF ServerInv, PollInv
  <2> DEFINE S == {i \in DOMAIN file[p] : Opens(file[p][i], r)}
  <2>5. S \in SUBSET (1 .. Len(file[p])) /\ S # {} /\ Len(file[p]) \in Nat
    BY <2>1, <2>4, FileLines DEF HasOpening
  <2> HIDE DEF S
  <2>6. PICK k \in S : \A l \in S : l <= k
    BY <2>5, LastPlace
  <2>7. k \in DOMAIN file[p] /\ Opens(file[p][k], r)
    BY <2>6 DEF S
  <2>8. k \in poll[p].seen
    BY <2>3, <2>7 DEF ServerInv, PollInv
  <2> QED
    BY <2>6, <2>7, <2>8 DEF S
<1> QED
  BY <1>1, ServerInvAlways, PTL
=============================================================================
