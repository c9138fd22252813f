--------------------------- MODULE HistoryProofs ---------------------------
(***************************************************************************)
(* Proofs about History: type correctness, and the safety of the round     *)
(* bookkeeping for every number of peers, rounds, failures and restarts.   *)
(*                                                                         *)
(* The saved index may lag behind the one in memory, and a restart falls   *)
(* back to it.  What makes that harmless is that nothing is acknowledged   *)
(* above the saved index (AckedIsSaved), and that the operation in         *)
(* progress holds rounds above everything acknowledged to its peer         *)
(* (OpIsFresh).                                                            *)
(***************************************************************************)
EXTENDS History, FiniteSetTheorems, SequenceTheorems, TLAPS

\* The saved index is never ahead of the one in memory.
IndexBehind ==
    \A p \in Peers : /\ idx[p].last <= mem[p].last
                     /\ idx[p].first <= mem[p].first
                     /\ idx[p].total <= mem[p].total

\* Rounds are acknowledged after the index that counts them is saved.
AckedIsSaved ==
    \A p \in Peers : \A i \in DOMAIN acks[p] :
        acks[p][i].first <= acks[p][i].last /\ acks[p][i].last <= idx[p].last

\* The rounds of the operation in progress are counted in memory, and lie
\* after those that its peer was told of.
OpIsFresh ==
    op # NoOp =>
        /\ op.first <= op.round
        /\ op.round <= mem[op.peer].last
        /\ \A i \in DOMAIN acks[op.peer] : acks[op.peer][i].last < op.first

\* The strengthening of AckedRoundsNeverReused that every step preserves.
IInv == TypeOK /\ IndexBehind /\ AckedIsSaved /\ OpIsFresh /\ AckedRoundsNeverReused

-----------------------------------------------------------------------------
(* Types *)

\* The remains of interrupted writes are lines.
LEMMA BadLineType ==
    ASSUME NEW role \in {"torn", "garbage"}
    PROVE  BadLine(role) \in Line
BY DEF BadLine, Line

\* _append_line turns a file of lines into a file of lines.
LEMMA AppendedType ==
    ASSUME NEW f \in Seq(Line), NEW line \in Line
    PROVE  Appended(f, line) \in Seq(Line)
<1>1. CASE EndsTorn(f)
  <2>1. Appended(f, line) = [f EXCEPT ![Len(f)] = BadLine("garbage")]
    BY <1>1 DEF Appended
  <2>2. BadLine("garbage") \in Line
    BY BadLineType
  <2>3. Len(f) \in 1 .. Len(f)
    BY <1>1, EmptySeq DEF EndsTorn
  <2> QED
    BY <2>1, <2>2, <2>3, ExceptSeq
<1>2. CASE ~EndsTorn(f)
  BY <1>2 DEF Appended
<1> QED
  BY <1>1, <1>2

\* So does an interrupted one.
LEMMA InterruptedType ==
    ASSUME NEW f \in Seq(Line), NEW g \in Interrupted(f)
    PROVE  g \in Seq(Line)
<1>1. BadLine("torn") \in Line
  BY BadLineType
<1>2. g = f \/ g = Append(f, BadLine("torn"))
  BY DEF Interrupted
<1> QED
  BY <1>1, <1>2

\* A file split at its separators is a file of lines.
LEMMA SplitLinesType ==
    ASSUME NEW f \in Seq(Line)
    PROVE  SplitLines(f) \in Seq(Line)
<1> DEFINE splits == {i \in DOMAIN f : f[i].seps}
           place(i) == i + Cardinality({j \in splits : j < i})
           whole(k) == \E i \in DOMAIN f \ splits : place(i) = k
           pick(k) == CHOOSE i \in DOMAIN f \ splits : place(i) = k
           n == Len(f) + Cardinality(splits)
           at(k) == IF whole(k) THEN f[pick(k)] ELSE BadLine("garbage")
<1>1. n \in Nat
  <2>1. IsFiniteSet(1 .. Len(f))
    BY FS_Interval
  <2>2. splits \subseteq 1 .. Len(f)
    OBVIOUS
  <2>3. IsFiniteSet(splits)
    BY <2>1, <2>2, FS_Subset
  <2>4. Cardinality(splits) \in Nat
    BY <2>3, FS_CardinalityType
  <2> QED
    BY <2>4
<1>2. \A k \in 1 .. n : at(k) \in Line
  <2> SUFFICES ASSUME NEW k \in 1 .. n PROVE at(k) \in Line
    OBVIOUS
  <2>1. CASE whole(k)
    <3>1. pick(k) \in DOMAIN f
      BY <2>1
    <3>2. \A i \in DOMAIN f : f[i] \in Line
      OBVIOUS
    <3>3. f[pick(k)] \in Line
      <4> HIDE DEF pick
      <4> QED
        BY <3>1, <3>2
    <3> HIDE DEF pick, whole
    <3> QED
      BY <2>1, <3>3
  <2>2. CASE ~whole(k)
    BY <2>2, BadLineType
  <2> QED
    BY <2>1, <2>2
<1>3. SplitLines(f) = [k \in 1 .. n |-> at(k)]
  BY DEF SplitLines
<1> HIDE DEF n, at
<1> QED
  BY <1>1, <1>2, <1>3

\* The cap computes with natural numbers and leaves a file of lines.
LEMMA CapType ==
    ASSUME TypeOK, NEW p \in Peers
    PROVE  /\ Excess(p) \in Nat
           /\ Shifted(p) \in Entry
           /\ Trimmed(p) \in Seq(Line)
<1>1. mem[p] \in Entry /\ file[p] \in Seq(Line)
  BY DEF TypeOK
<1>2. Excess(p) \in Nat
  BY <1>1, HistoryAssumption DEF Excess, Entry
<1>3. Shifted(p) \in Entry
  BY <1>1, <1>2 DEF Shifted, Entry
<1>4. Trimmed(p) \in Seq(Line)
  <2>1. SplitLines(file[p]) \in Seq(Line)
    BY <1>1, SplitLinesType
  <2> QED
    BY <1>1, <1>2, <2>1 DEF Trimmed
<1> QED
  BY <1>2, <1>3, <1>4

\* Opening a round keeps an entry an entry.
LEMMA BumpType ==
    ASSUME NEW e \in Entry
    PROVE  Bump(e) \in Entry
BY DEF Bump, Entry

\* Every variable keeps to its kind.
LEMMA TypeStep == TypeOK /\ [Next]_vars => TypeOK'
<1> SUFFICES ASSUME TypeOK, [Next]_vars PROVE TypeOK'
  OBVIOUS
<1> USE HistoryAssumption
<1>1. NewEntry \in Entry
  BY DEF NewEntry, Entry
<1>2. NoOp \notin Operation
  BY DEF NoOp, Operation
<1>3. ASSUME NEW p \in Peers, RecordOutbound(p) PROVE TypeOK'
  <2>1. mem[p] \in Entry /\ Bump(mem[p]) \in Entry
    BY BumpType DEF TypeOK
  <2>2. op' \in Operation
    BY <1>3, <2>1 DEF RecordOutbound, Open, Operation, Entry
  <2> QED
    BY <1>3, <2>1, <2>2 DEF RecordOutbound, Open, TypeOK
<1>4. ASSUME NEW p \in Peers, NEW n \in ImportSizes, ImportMessages(p, n)
      PROVE TypeOK'
  <2>1. mem[p] \in Entry /\ Bump(mem[p]) \in Entry
    BY BumpType DEF TypeOK
  <2>2. op' \in Operation
    BY <1>4, <2>1 DEF ImportMessages, Open, Operation, Entry
  <2> QED
    BY <1>4, <2>1, <2>2 DEF ImportMessages, Open, TypeOK
<1>5. CASE ImportNothing
  BY <1>5 DEF ImportNothing, IndexWritten, TypeOK
<1>6. CASE AppendLine
  <2>1. op \in Operation /\ op.peer \in Peers
    BY <1>6, <1>2 DEF AppendLine, TypeOK, Operation
  <2>2. op' \in Operation
    BY <1>6, <2>1 DEF AppendLine, Operation
  <2>3. file' \in [Peers -> Seq(Line)]
    <3>1. PICK s \in Separators :
            file' = [file EXCEPT ![op.peer] =
                        Appended(@, [round |-> op.round, role |-> op.kind,
                                     seps |-> s /\ op.kind # "inbound"])]
      BY <1>6 DEF AppendLine
    <3> DEFINE line == [round |-> op.round, role |-> op.kind,
                        seps |-> s /\ op.kind # "inbound"]
    <3>2. line \in Line
      BY <2>1 DEF Operation, Line
    <3> HIDE DEF line
    <3>3. Appended(file[op.peer], line) \in Seq(Line)
      BY <2>1, <3>2, AppendedType DEF TypeOK
    <3>4. file' = [file EXCEPT ![op.peer] = Appended(file[op.peer], line)]
      BY <3>1 DEF line
    <3> QED
      BY <3>3, <3>4 DEF TypeOK
  <2> QED
    BY <1>6, <2>2, <2>3 DEF AppendLine, TypeOK
<1>7. CASE EnforceCap
  <2>1. op \in Operation /\ op.peer \in Peers
    BY <1>7, <1>2 DEF EnforceCap, TypeOK, Operation
  <2>2. Shifted(op.peer) \in Entry /\ Bump(Shifted(op.peer)) \in Entry
    BY <2>1, CapType, BumpType
  <2>3. mem' \in [Peers -> Entry]
    BY <1>7, <2>2 DEF EnforceCap, TypeOK
  <2>4. file' \in [Peers -> Seq(Line)]
    BY <1>7, <2>1, CapType DEF EnforceCap, TypeOK
  <2>5. op' \in Operation
    <3>1. CASE op.left > 0
      <4>1. op' = [op EXCEPT !.stage = "append", !.round = op.round + 1,
                             !.left = op.left - 1]
        BY <1>7, <2>1, <3>1 DEF EnforceCap, Operation
      <4>2. op.round + 1 \in Nat /\ op.left - 1 \in Nat
        BY <2>1, <3>1 DEF Operation
      <4> QED
        BY <2>1, <4>1, <4>2 DEF Operation
    <3>2. CASE op.left = 0
      BY <1>7, <2>1, <3>2 DEF EnforceCap, Operation
    <3> QED
      BY <2>1, <3>1, <3>2 DEF Operation
  <2> QED
    BY <1>7, <2>3, <2>4, <2>5 DEF EnforceCap, TypeOK
<1>8. CASE SaveIndex
  <2>1. op \in Operation /\ op.peer \in Peers
    BY <1>8, <1>2 DEF SaveIndex, TypeOK, Operation
  <2>2. CASE op' = [op EXCEPT !.stage = "context"] /\ UNCHANGED acks
    <3>1. op' \in Operation
      BY <2>1, <2>2 DEF Operation
    <3> QED
      BY <1>8, <2>2, <3>1 DEF SaveIndex, IndexWritten, TypeOK
  <2>3. CASE Acknowledge
    <3> DEFINE a == [kind |-> IF op.kind = "import" THEN "import" ELSE "send",
                     first |-> op.first, last |-> op.round]
    <3>1. a \in Ack
      BY <2>1 DEF Operation, Ack
    <3> HIDE DEF a
    <3>2. acks' = [acks EXCEPT ![op.peer] = Append(acks[op.peer], a)]
      BY <2>3 DEF Acknowledge, a
    <3>3. acks' \in [Peers -> Seq(Ack)]
      BY <2>1, <3>1, <3>2 DEF TypeOK
    <3> QED
      BY <1>8, <2>3, <3>3 DEF SaveIndex, Acknowledge, IndexWritten, TypeOK
  <2> QED
    BY <1>8, <2>2, <2>3 DEF SaveIndex
<1>9. CASE ReadContext
  <2>1. op \in Operation /\ op.peer \in Peers
    BY <1>9, <1>2 DEF ReadContext, TypeOK, Operation
  <2>2. mem[op.peer].last \in Nat
    BY <2>1 DEF TypeOK, Entry
  <2>3. op' \in Operation \cup {NoOp}
    BY <1>9, <2>1, <2>2 DEF ReadContext, Operation
  <2> QED
    BY <1>9, <2>3 DEF ReadContext, TypeOK
<1>10. ASSUME InterruptedFile PROVE file' \in [Peers -> Seq(Line)]
  <2>1. CASE op # NoOp /\ op.stage = "append"
    <3>1. op.peer \in Peers
      BY <1>2, <2>1 DEF TypeOK, Operation
    <3>2. PICK f \in Interrupted(file[op.peer]) : file' = [file EXCEPT ![op.peer] = f]
      BY <1>10, <2>1 DEF InterruptedFile
    <3>3. f \in Seq(Line)
      BY <3>1, <3>2, InterruptedType DEF TypeOK
    <3> QED
      BY <3>2, <3>3 DEF TypeOK
  <2>2. CASE ~(op # NoOp /\ op.stage = "append")
    BY <1>10, <2>2 DEF InterruptedFile, TypeOK
  <2> QED
    BY <2>1, <2>2
<1>11. CASE Fault
  BY <1>10, <1>11 DEF Fault, TypeOK
<1>12. CASE Crash
  BY <1>10, <1>12 DEF Crash, IndexLoaded, TypeOK
<1>13. CASE UNCHANGED vars
  BY <1>13 DEF vars, TypeOK
<1> QED
  BY <1>3, <1>4, <1>5, <1>6, <1>7, <1>8, <1>9, <1>11, <1>12, <1>13 DEF Next

\* In every reachable state every variable of the history manager holds a
\* value of its kind, whatever is interrupted and however often it restarts.
THEOREM TypeCorrect == Spec => []TypeOK
<1>1. Init => TypeOK
  BY HistoryAssumption DEF Init, TypeOK, NewEntry, Entry
<1> QED
  BY <1>1, TypeStep, PTL DEF Spec

-----------------------------------------------------------------------------
(* The bookkeeping of rounds *)

\* What an entry becomes when a round is opened or the cap is enforced is not
\* below what it was.
LEMMA EntryGrows ==
    ASSUME TypeOK, NEW p \in Peers
    PROVE  /\ Bump(mem[p]).last = mem[p].last + 1
           /\ Bump(mem[p]).first = mem[p].first
           /\ Bump(mem[p]).total = mem[p].total + 1
           /\ Shifted(p).last = mem[p].last
           /\ Shifted(p).first >= mem[p].first
           /\ Shifted(p).total = mem[p].total
           /\ Bump(Shifted(p)).last = mem[p].last + 1
           /\ Bump(Shifted(p)).first >= mem[p].first
           /\ Bump(Shifted(p)).total = mem[p].total + 1
<1>1. mem[p] \in Entry /\ Excess(p) \in Nat
  BY CapType DEF TypeOK
<1>2. Shifted(p).last = mem[p].last /\ Shifted(p).first >= mem[p].first
      /\ Shifted(p).total = mem[p].total
  BY <1>1 DEF Shifted, Entry
<1> QED
  BY <1>1, <1>2 DEF Bump, Entry

\* Opening rounds for a peer above its counter keeps the bookkeeping right.
LEMMA OpenStep ==
    ASSUME IInv, TypeOK', NEW p \in Peers, NEW kind, NEW left, Open(p, kind, left)
    PROVE  IInv'
<1> USE DEF IInv
<1>1. mem[p] \in Entry /\ mem' = [mem EXCEPT ![p] = Bump(mem[p])]
  BY DEF TypeOK, Open
<1>2. UNCHANGED <<idx, acks>>
  BY DEF Open
<1>3. \A q \in Peers : mem[q] \in Entry /\ idx[q] \in Entry
  BY DEF TypeOK
<1>4. IndexBehind'
  <2> SUFFICES ASSUME NEW q \in Peers
               PROVE  /\ idx[q].last <= mem'[q].last
                      /\ idx[q].first <= mem'[q].first
                      /\ idx[q].total <= mem'[q].total
    BY <1>2 DEF IndexBehind
  <2>1. CASE q = p
    <3>1. mem'[q] = Bump(mem[p])
      BY <1>1, <2>1 DEF TypeOK
    <3> QED
      BY <1>3, <2>1, <3>1, EntryGrows DEF IndexBehind, Entry
  <2>2. CASE q # p
    BY <1>1, <2>2 DEF IndexBehind, TypeOK
  <2> QED
    BY <2>1, <2>2
<1>5. AckedIsSaved' /\ AckedRoundsNeverReused'
  BY <1>2 DEF AckedIsSaved, AckedRoundsNeverReused
<1>6. OpIsFresh'
  <2>1. op'.first = mem[p].last + 1 /\ op'.round = mem[p].last + 1 /\ op'.peer = p
    BY DEF Open
  <2>2. mem'[p].last = mem[p].last + 1
    BY <1>1, EntryGrows DEF TypeOK
  <2>3. \A i \in DOMAIN acks[p] : acks[p][i] \in Ack
    BY DEF TypeOK
  <2>4. \A i \in DOMAIN acks[p] : acks[p][i].last < mem[p].last + 1
    BY <1>3, <2>3 DEF AckedIsSaved, IndexBehind, Entry, Ack
  <2> QED
    BY <1>1, <1>2, <2>1, <2>2, <2>4 DEF OpIsFresh, Entry
<1> QED
  BY <1>4, <1>5, <1>6

\* Every step keeps the bookkeeping right.
LEMMA BookkeepingStep == IInv /\ [Next]_vars => IInv'
<1> SUFFICES ASSUME IInv, [Next]_vars PROVE IInv'
  OBVIOUS
<1> USE DEF IInv
<1>1. TypeOK'
  BY TypeStep
<1>2. NoOp \notin Operation
  BY DEF NoOp, Operation
<1>3. /\ \A q \in Peers : mem[q] \in Entry /\ idx[q] \in Entry
      /\ \A q \in Peers : mem'[q] \in Entry /\ idx'[q] \in Entry
      /\ \A q \in Peers : \A i \in DOMAIN acks[q] : acks[q][i] \in Ack
  BY <1>1 DEF TypeOK
<1>4. op # NoOp => op \in Operation /\ op.peer \in Peers /\ op.round \in Nat
                   /\ op.first \in Nat
  BY DEF TypeOK, Operation
<1>5. ASSUME NEW p \in Peers, RecordOutbound(p) PROVE IInv'
  BY <1>1, <1>5, OpenStep DEF RecordOutbound
<1>6. ASSUME NEW p \in Peers, NEW n \in ImportSizes, ImportMessages(p, n)
      PROVE IInv'
  BY <1>1, <1>6, OpenStep DEF ImportMessages
<1>7. CASE ImportNothing
  <2>1. idx' = mem /\ UNCHANGED <<mem, op, acks>>
    BY <1>7 DEF ImportNothing, IndexWritten
  <2>2. IndexBehind'
    BY <1>3, <2>1 DEF IndexBehind, Entry
  <2>3. AckedIsSaved'
    BY <1>3, <2>1 DEF AckedIsSaved, IndexBehind, Entry, Ack
  <2> QED
    BY <1>1, <2>1, <2>2, <2>3 DEF OpIsFresh, AckedRoundsNeverReused
<1>8. CASE AppendLine
  <2>1. UNCHANGED <<mem, idx, acks>> /\ op # NoOp
    BY <1>8 DEF AppendLine
  <2>2. op' # NoOp /\ op'.first = op.first /\ op'.round = op.round
        /\ op'.peer = op.peer
    BY <1>4, <1>8, <2>1 DEF AppendLine, Operation, NoOp
  <2> QED
    BY <1>1, <2>1, <2>2
       DEF IndexBehind, AckedIsSaved, OpIsFresh, AckedRoundsNeverReused
<1>9. CASE EnforceCap
  <2>1. op # NoOp /\ UNCHANGED <<idx, acks>>
    BY <1>9 DEF EnforceCap
  <2>2. \A q \in Peers : /\ mem[q].last <= mem'[q].last
                         /\ mem[q].first <= mem'[q].first
                         /\ mem[q].total <= mem'[q].total
    <3> SUFFICES ASSUME NEW q \in Peers
                 PROVE  /\ mem[q].last <= mem'[q].last
                        /\ mem[q].first <= mem'[q].first
                        /\ mem[q].total <= mem'[q].total
      OBVIOUS
    <3>1. CASE q = op.peer
      <4>1. mem'[q] = Shifted(q) \/ mem'[q] = Bump(Shifted(q))
        BY <1>9, <3>1 DEF EnforceCap, TypeOK
      <4> QED
        BY <1>3, <4>1, EntryGrows DEF Entry
    <3>2. CASE q # op.peer
      <4>1. mem'[q] = mem[q]
        BY <1>9, <3>2 DEF EnforceCap, TypeOK
      <4> QED
        BY <1>3, <4>1 DEF Entry
    <3> QED
      BY <3>1, <3>2
  <2>3. IndexBehind'
    BY <1>3, <2>1, <2>2 DEF IndexBehind, Entry
  <2>4. op' # NoOp /\ op'.first = op.first /\ op'.peer = op.peer
    BY <1>4, <1>9, <2>1 DEF EnforceCap, Operation, NoOp
  <2>5. op.first <= op'.round /\ op'.round <= mem'[op.peer].last
    <3>1. mem[op.peer] \in Entry /\ op.first <= op.round
          /\ op.round <= mem[op.peer].last
      BY <1>3, <1>4, <2>1 DEF OpIsFresh
    <3>2. CASE op'.round = op.round
      BY <1>3, <1>4, <2>1, <2>2, <3>1, <3>2 DEF Entry
    <3>3. CASE op'.round = op.round + 1 /\ mem'[op.peer] = Bump(Shifted(op.peer))
      BY <1>4, <2>1, <3>1, <3>3, EntryGrows DEF Entry
    <3>4. \/ op'.round = op.round
          \/ op'.round = op.round + 1 /\ mem'[op.peer] = Bump(Shifted(op.peer))
      BY <1>4, <1>9, <2>1 DEF EnforceCap, Operation, TypeOK
    <3> QED
      BY <3>2, <3>3, <3>4
  <2> QED
    BY <1>1, <2>1, <2>3, <2>4, <2>5
       DEF AckedIsSaved, OpIsFresh, AckedRoundsNeverReused
<1>10. CASE SaveIndex
  <2>1. op # NoOp /\ idx' = mem /\ UNCHANGED mem
    BY <1>10 DEF SaveIndex, IndexWritten
  <2>2. IndexBehind'
    BY <1>3, <2>1 DEF IndexBehind, Entry
  <2>3. \A q \in Peers : \A i \in DOMAIN acks[q] :
            acks[q][i].first <= acks[q][i].last /\ acks[q][i].last <= idx'[q].last
    BY <1>3, <2>1 DEF AckedIsSaved, IndexBehind, Entry, Ack
  <2>4. CASE op' = [op EXCEPT !.stage = "context"] /\ UNCHANGED acks
    <3>1. op' # NoOp /\ op'.first = op.first /\ op'.round = op.round
          /\ op'.peer = op.peer
      BY <1>4, <2>1, <2>4 DEF Operation, NoOp
    <3> QED
      BY <1>1, <2>1, <2>2, <2>3, <2>4, <3>1
         DEF AckedIsSaved, OpIsFresh, AckedRoundsNeverReused
  <2>5. CASE Acknowledge
    <3> DEFINE p == op.peer
               a == [kind |-> IF op.kind = "import" THEN "import" ELSE "send",
                     first |-> op.first, last |-> op.round]
    <3>1. p \in Peers /\ acks' = [acks EXCEPT ![p] = Append(acks[p], a)]
      BY <1>4, <2>1, <2>5 DEF Acknowledge
    <3>2. a.first = op.first /\ a.last = op.round
      OBVIOUS
    <3>3. a.first <= a.last /\ a.last <= mem[p].last
          /\ \A i \in DOMAIN acks[p] : acks[p][i].last < a.first
      BY <2>1, <3>2 DEF OpIsFresh
    <3> HIDE DEF a, p
    <3>4. acks[p] \in Seq(Ack)
      BY <3>1 DEF TypeOK
    <3>5. \A q \in Peers \ {p} : acks'[q] = acks[q]
      BY <3>1 DEF TypeOK
    <3>6. acks'[p] = Append(acks[p], a)
      BY <3>1 DEF TypeOK
    <3>7. /\ DOMAIN acks'[p] = 1 .. Len(acks[p]) + 1
          /\ Len(acks[p]) \in Nat /\ DOMAIN acks[p] = 1 .. Len(acks[p])
          /\ acks'[p][Len(acks[p]) + 1] = a
          /\ \A i \in DOMAIN acks[p] : acks'[p][i] = acks[p][i]
      BY <3>4, <3>6
    <3>8. AckedIsSaved'
      <4> SUFFICES ASSUME NEW q \in Peers, NEW i \in DOMAIN acks'[q]
                   PROVE  /\ acks'[q][i].first <= acks'[q][i].last
                          /\ acks'[q][i].last <= idx'[q].last
        BY DEF AckedIsSaved
      <4>1. CASE q # p
        BY <2>3, <3>5, <4>1
      <4>2. CASE q = p /\ i \in DOMAIN acks[p]
        BY <2>3, <3>7, <4>2
      <4>3. CASE q = p /\ i = Len(acks[p]) + 1
        BY <2>1, <3>3, <3>7, <4>3
      <4> QED
        BY <3>7, <4>1, <4>2, <4>3
    <3>9. AckedRoundsNeverReused'
      <4> SUFFICES ASSUME NEW q \in Peers, NEW i \in DOMAIN acks'[q],
                          NEW j \in DOMAIN acks'[q], i < j
                   PROVE  acks'[q][i].last < acks'[q][j].first
        BY DEF AckedRoundsNeverReused
      <4>1. CASE q # p
        BY <3>5, <4>1 DEF AckedRoundsNeverReused
      <4>2. CASE q = p /\ j \in DOMAIN acks[p]
        <5>1. i \in DOMAIN acks[p]
          BY <3>7, <4>2
        <5> QED
          BY <3>1, <3>7, <4>2, <5>1 DEF AckedRoundsNeverReused
      <4>3. CASE q = p /\ j = Len(acks[p]) + 1
        <5>1. i \in DOMAIN acks[p]
          BY <3>7, <4>3
        <5> QED
          BY <3>3, <3>7, <4>3, <5>1
      <4> QED
        BY <3>7, <4>1, <4>2, <4>3
    <3>10. op' = NoOp
      BY <2>5 DEF Acknowledge
    <3> QED
      BY <1>1, <2>2, <3>8, <3>9, <3>10 DEF OpIsFresh
  <2> QED
    BY <1>10, <2>4, <2>5 DEF SaveIndex
<1>11. CASE ReadContext
  <2>1. op # NoOp /\ UNCHANGED <<mem, idx, acks>>
    BY <1>11 DEF ReadContext
  <2>2. OpIsFresh'
    <3>1. CASE op' = NoOp
      BY <3>1 DEF OpIsFresh
    <3>2. CASE op' = [op EXCEPT !.kind = "inbound", !.stage = "append",
                                !.round = mem[op.peer].last]
      <4>1. op'.first = op.first /\ op'.round = mem[op.peer].last
            /\ op'.peer = op.peer
        BY <1>4, <2>1, <3>2 DEF Operation
      <4>2. mem[op.peer].last \in Nat
        BY <1>3, <1>4, <2>1 DEF Entry
      <4> QED
        BY <1>4, <2>1, <4>1, <4>2 DEF OpIsFresh
    <3> QED
      BY <1>11, <3>1, <3>2 DEF ReadContext
  <2> QED
    BY <1>1, <2>1, <2>2 DEF IndexBehind, AckedIsSaved, AckedRoundsNeverReused
<1>12. CASE Fault
  BY <1>1, <1>12
     DEF Fault, IndexBehind, AckedIsSaved, OpIsFresh, AckedRoundsNeverReused
<1>13. CASE Crash
  <2>1. mem' = idx /\ op' = NoOp /\ UNCHANGED <<idx, acks>>
    BY <1>13 DEF Crash, IndexLoaded
  <2>2. IndexBehind'
    BY <1>3, <2>1 DEF IndexBehind, Entry
  <2> QED
    BY <1>1, <2>1, <2>2 DEF AckedIsSaved, OpIsFresh, AckedRoundsNeverReused
<1>14. CASE UNCHANGED vars
  BY <1>1, <1>14
     DEF vars, IndexBehind, AckedIsSaved, OpIsFresh, AckedRoundsNeverReused
<1> QED
  BY <1>5, <1>6, <1>7, <1>8, <1>9, <1>10, <1>11, <1>12, <1>13, <1>14 DEF Next

\* The bookkeeping is right at the start.
LEMMA BookkeepingInit == Init => IInv
<1> SUFFICES ASSUME Init PROVE IInv
  OBVIOUS
<1>1. TypeOK
  BY HistoryAssumption DEF Init, TypeOK, NewEntry, Entry
<1> QED
  BY <1>1 DEF Init, IInv, IndexBehind, AckedIsSaved, OpIsFresh,
              AckedRoundsNeverReused, NewEntry

\* A round that a caller was told of is never given to another message: true
\* for any number of peers, rounds, failed writes and restarts.
THEOREM NeverReused == Spec => []AckedRoundsNeverReused
<1>1. IInv => AckedRoundsNeverReused
  BY DEF IInv
<1> QED
  BY <1>1, BookkeepingInit, BookkeepingStep, PTL DEF Spec

\* index.json never goes back to a round or a count it was past, not even when
\* a restart has lost what was only in memory.
THEOREM IndexMonotone == Spec => IndexNeverGoesBack
<1> DEFINE Forward == \A p \in Peers : /\ idx[p].last <= idx'[p].last
                                       /\ idx[p].first <= idx'[p].first
                                       /\ idx[p].total <= idx'[p].total
<1>1. IInv /\ [Next]_vars => [Forward]_vars
  <2> SUFFICES ASSUME IInv, [Next]_vars PROVE Forward
    OBVIOUS
  <2>1. \A q \in Peers : mem[q] \in Entry /\ idx[q] \in Entry
    BY DEF IInv, TypeOK
  <2>2. CASE idx' = mem
    BY <2>1, <2>2 DEF IInv, IndexBehind
  <2>3. CASE UNCHANGED idx
    BY <2>1, <2>3 DEF Entry
  <2>4. idx' = mem \/ UNCHANGED idx
    BY DEF Next, vars, RecordOutbound, ImportMessages, Open, ImportNothing,
           IndexWritten, AppendLine, EnforceCap, SaveIndex, ReadContext, Fault, Crash
  <2> QED
    BY <2>2, <2>3, <2>4
<1> QED
  BY <1>1, BookkeepingInit, BookkeepingStep, PTL DEF Spec, IndexNeverGoesBack

\* The history manager, with every interleaving of failures and restarts,
\* does nothing but grant fresh rounds: it implements the module Rounds.
THEOREM ImplementsRounds == Spec => RefinesRounds
<1>1. Init => R!Init
  BY DEF Init, R!Init
<1>2. IInv /\ [Next]_vars => [R!Next]_acks
  <2> SUFFICES ASSUME IInv, [Next]_vars, acks' # acks PROVE R!Next
    OBVIOUS
  <2>1. SaveIndex /\ Acknowledge
    BY DEF Next, vars, RecordOutbound, ImportMessages, Open, ImportNothing,
           AppendLine, EnforceCap, SaveIndex, ReadContext, Fault, Crash
  <2>2. op # NoOp /\ op \in Operation /\ op.peer \in Peers
    BY <2>1 DEF SaveIndex, IInv, TypeOK, Operation
  <2> DEFINE p == op.peer
             a == [kind |-> IF op.kind = "import" THEN "import" ELSE "send",
                   first |-> op.first, last |-> op.round]
  <2>3. p \in Peers /\ acks' = [acks EXCEPT ![p] = Append(acks[p], a)]
    BY <2>1, <2>2 DEF Acknowledge
  <2>4. a \in R!Grants
    BY <2>2 DEF Operation, R!Grants
  <2>5. a.first <= a.last /\ \A i \in DOMAIN acks[p] : acks[p][i].last < a.first
    BY <2>2 DEF IInv, OpIsFresh
  <2> HIDE DEF a, p
  <2>6. acks[p] \in Seq(Ack) /\ acks'[p] = Append(acks[p], a)
    BY <2>3 DEF IInv, TypeOK
  <2>7. Len(acks'[p]) = Len(acks[p]) + 1 /\ acks'[p][Len(acks'[p])] = a
        /\ Len(acks[p]) \in Nat
    BY <2>6
  <2>8. R!Grant(p, acks'[p][Len(acks'[p])])
    BY <2>3, <2>4, <2>5, <2>7 DEF R!Grant
  <2> QED
    BY <2>3, <2>7, <2>8 DEF R!Next
<1> QED
  BY <1>1, <1>2, BookkeepingInit, BookkeepingStep, PTL DEF Spec, RefinesRounds, R!Spec
=============================================================================
